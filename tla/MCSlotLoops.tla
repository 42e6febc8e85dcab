---------------------------- MODULE MCSlotLoops ----------------------------
(* Instances of SlotLoops for TLC. *)
EXTENDS SlotLoops, TLC

MCSymmetry == Permutations(Client)
=============================================================================
