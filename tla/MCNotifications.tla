-------------------------- MODULE MCNotifications ---------------------------
(* Notifications, for TLC: an author with one follower to start with. *)
EXTENDS Notifications

CONSTANTS u1, u2

MCFollows == {<<u2, u1>>}
=============================================================================
