-------------------------------- MODULE MCLog --------------------------------
(* Small instances of Log for TLC. *)
EXTENDS Log, TLC

Symmetry == Permutations(Proc) \cup Permutations(Block) \cup Permutations(Data)
=============================================================================
