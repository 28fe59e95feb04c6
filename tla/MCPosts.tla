------------------------------ MODULE MCPosts ------------------------------
(* Posts, for TLC.  Users and server threads are interchangeable: the author *)
(* that Blank chooses stands only where there is no post, and is never read. *)
EXTENDS Posts, TLC

Symmetry == Permutations(Users) \cup Permutations(Workers)
=============================================================================
