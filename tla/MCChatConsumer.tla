--------------------------- MODULE MCChatConsumer ---------------------------
(* ChatConsumer, for TLC: two users with a room that they share, and one     *)
(* that only one is in.                                                      *)
EXTENDS ChatConsumer, TLC

CONSTANTS u1, u2, shared, own

MCParticipants == (shared :> {u1, u2}) @@ (own :> {u1})
=============================================================================
