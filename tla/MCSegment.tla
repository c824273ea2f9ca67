----------------------------- MODULE MCSegment -----------------------------
(* Two devices on the bus.  The one sends three bodies of wheel, enough for *)
(* two of them to share a SEQLO; the other sends one of led, which takes a  *)
(* slot and may keep it.                                                    *)
EXTENDS Segment

CONSTANTS root, leaf, wheel, led

MCOwnerOf == [k \in {wheel, led} |-> IF k = led THEN leaf ELSE root]
MCMaxBodies == [k \in {wheel, led} |-> IF k = led THEN 1 ELSE 3]
=============================================================================
