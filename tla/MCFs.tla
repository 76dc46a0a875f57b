-------------------------------- MODULE MCFs --------------------------------
(* Small instances of Fs for TLC. *)
EXTENDS Fs, TLC

CONSTANTS a, b
MCName == {a, b}
MCPath == {<<a>>, <<b>>, <<a, b>>}

Symmetry == Permutations(Proc)
=============================================================================
