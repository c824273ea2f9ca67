--------------------------- MODULE MCInboundPath ---------------------------
(* One hub with a sense slot and a status slot, and one reader, of any of   *)
(* the three kinds, of one of them.                                         *)
EXTENDS InboundPath

CONSTANTS pose, status, reader

MCWatches == [c \in {reader} |-> status]
=============================================================================
