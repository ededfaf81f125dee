-------------------------- MODULE MCPlacementStore --------------------------
(* Small instances of the placement store for TLC. *)
EXTENDS PlacementStore, TLC

CONSTANTS a, b

PodSymmetry == Permutations(Pods)
=============================================================================
