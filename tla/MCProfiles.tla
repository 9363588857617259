----------------------------- MODULE MCProfiles -----------------------------
(***************************************************************************)
(* Profiles for TLC: the tasks are interchangeable.                        *)
(***************************************************************************)
EXTENDS Profiles, TLC

Symmetry == Permutations(Tasks)
=============================================================================
