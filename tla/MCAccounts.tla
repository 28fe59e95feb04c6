----------------------------- MODULE MCAccounts -----------------------------
(* Small instances of Accounts for TLC. *)
EXTENDS Accounts, TLC

\* Threads are interchangeable, and so are users; addresses and passwords are
\* not, since Blank chooses one of each.
Symmetry == Permutations(Workers) \cup Permutations(Users)
=============================================================================
