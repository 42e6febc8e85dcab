--------------------------- MODULE MCCommandQueue ---------------------------
(***************************************************************************)
(* Instances of CommandQueue for TLC.                                      *)
(***************************************************************************)
EXTENDS CommandQueue, TLC

Symmetric == Permutations(Worker)
=============================================================================
