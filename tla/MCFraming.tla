----------------------------- MODULE MCFraming -----------------------------
(* Bytes 0 .. 3, so that a full block is two bytes long, and a check sum of *)
(* two bytes. Bodies of up to MaxBody bytes, and one that is too long.      *)
EXTENDS Framing, SequencesExt

CheckSum(s) == <<FoldLeft(LAMBDA x, y : (x + y) % (Full + 1), Len(s), s),
                 FoldLeft(LAMBDA x, y : (2 * x + y + 1) % (Full + 1), 1, s)>>

SomeBodies == {<<0>>, <<1>>, <<0, 0>>, <<1, 2>>, <<2, 0>>, <<3, 3>>, <<1, 0, 2>>}

=============================================================================
