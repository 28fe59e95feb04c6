---------------------------- MODULE MCChatRooms ----------------------------
(* ChatRooms, for TLC: users and server threads are interchangeable. *)
EXTENDS ChatRooms, TLC

Symmetry == Permutations(Users) \cup Permutations(Workers)
=============================================================================
