----------------------------- MODULE Transcript -----------------------------
(***************************************************************************)
(* What the chat sockets promise, without queues, saving and sending: the  *)
(* messages posted to a room have one order, and whoever is in the room is *)
(* told of them in that order, each once, with gaps but without exchanges. *)
(***************************************************************************)
EXTENDS Sequences

CONSTANTS Connections, Rooms, NoRoom, Messages

VARIABLES
    place,      \* place[c]: the room of connection c
    posted,     \* posted[r]: the messages posted to room r
    told        \* told[c]: the messages c is told of, since it came to its room

vars == <<place, posted, told>>

Members(r) == {c \in Connections : place[c] = r}

Init ==
    /\ place = [c \in Connections |-> NoRoom]
    /\ posted = [r \in Rooms |-> <<>>]
    /\ told = [c \in Connections |-> <<>>]

Enter(c, r) ==
    /\ place[c] = NoRoom
    /\ place' = [place EXCEPT ![c] = r]
    /\ UNCHANGED <<posted, told>>

Leave(c) ==
    /\ place[c] # NoRoom
    /\ place' = [place EXCEPT ![c] = NoRoom]
    /\ told' = [told EXCEPT ![c] = <<>>]
    /\ UNCHANGED posted

\* A new message reaches some of the members; what one misses is gone for it.
Post(r, m, reached) ==
    /\ \A s \in Rooms : \A i \in DOMAIN posted[s] : posted[s][i] # m
    /\ reached \subseteq Members(r)
    /\ posted' = [posted EXCEPT ![r] = Append(@, m)]
    /\ told' = [c \in Connections |-> IF c \in reached THEN Append(told[c], m) ELSE told[c]]
    /\ UNCHANGED place

Next ==
    \/ \E c \in Connections : Leave(c) \/ \E r \in Rooms : Enter(c, r)
    \/ \E r \in Rooms, m \in Messages, reached \in SUBSET Connections : Post(r, m, reached)

Spec == Init /\ [][Next]_vars
=============================================================================
