---------------------------- MODULE MCSlotCounter ----------------------------
(* SlotCounter on a few interchangeable actors. *)
EXTENDS SlotCounter, TLC

CONSTANTS a1, a2, a3, a4

ActorSymmetry == Permutations(Actors)
==============================================================================
