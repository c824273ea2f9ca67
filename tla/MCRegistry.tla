----------------------------- MODULE MCRegistry -----------------------------
(* Three writers that may each live once, over two slots. *)
EXTENDS Registry

Interchangeable == Permutations(Pid) \cup Permutations(Slot)
=============================================================================
