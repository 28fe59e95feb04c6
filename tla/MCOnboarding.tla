---------------------------- MODULE MCOnboarding ----------------------------
(* A small instance of Onboarding for TLC. *)
EXTENDS Onboarding, TLC

\* Threads are interchangeable.
Symmetry == Permutations(Workers)
=============================================================================
