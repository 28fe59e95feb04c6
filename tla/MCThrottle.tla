----------------------------- MODULE MCThrottle -----------------------------
(* Throttle, for TLC: two views that share the "burst" bucket of one address *)
(* beside a limit of their own each, and small rates.                        *)
EXTENDS Throttle

CONSTANTS ip1, alice, member

MCRate == [login |-> 2, burst |-> 2, register |-> 1, follow |-> 1]
MCPeriod == [login |-> 2, burst |-> 2, register |-> 3, follow |-> 2]

View(throttles, user) == [throttles |-> throttles, ip |-> ip1, email |-> alice, user |-> user]

MCRequests == {View(<<"login", "burst">>, Anonymous), View(<<"register", "burst">>, Anonymous)}
=============================================================================
