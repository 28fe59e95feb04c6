---------------------------- MODULE ChatConsumer ----------------------------
(***************************************************************************)
(* Who learns of a message: the WebSocket consumer of chat/consumers.py on *)
(* a Redis channel layer, beside the handlers of chat/views.py that send   *)
(* and list messages over HTTP.                                            *)
(*                                                                         *)
(* A consumer saves a message and then sends it to the group of its room;  *)
(* it handles one event at a time, so it hears nothing in between.  The    *)
(* channel layer keeps a queue of bounded length for every connection and  *)
(* drops what does not fit.  Over HTTP a message is saved and that is all: *)
(* a client sees it when it lists the messages again.  Rooms and their     *)
(* participants only grow, so here they are constants; module ChatRooms is *)
(* about how they come to be.                                              *)
(***************************************************************************)
EXTENDS Naturals, Sequences

CONSTANTS
    Users,
    Rooms,
    Participants,   \* Participants[r]: the users who take part in room r
    Connections,
    NoRoom,         \* the room of a closed connection
    Http,           \* in place of a connection, for what was sent over HTTP
    Capacity,       \* queue length of the channel layer
    MaxMessages     \* bound: messages saved in one behaviour

ASSUME ChatConsumerAssumption ==
    /\ Participants \in [Rooms -> SUBSET Users]
    /\ NoRoom \notin Rooms /\ Http \notin Connections
    /\ Capacity \in Nat /\ MaxMessages \in Nat

VARIABLES
    room,           \* room[c]: the room connection c is in
    saved,          \* the messages in the order in which they were saved
    sending,        \* sending[c]: the message c has saved but not sent, or 0
    queue,          \* queue[c]: what the channel layer holds for c
    heard,          \* heard[c]: what the client of c was sent
    loaded,         \* loaded[c]: how many messages were saved when the client
                    \* of c listed them last; MaxMessages if it has not yet
    lost,           \* history: lost[c]: messages sent to c's room but not to c
    posted          \* history: posted[r]: the order in which r's were sent

vars == <<room, saved, sending, queue, heard, loaded, lost, posted>>

Ids == 1..MaxMessages
Group(r) == {c \in Connections : room[c] = r}
HasSpace(c) == Len(queue[c]) < Capacity

Init ==
    /\ room = [c \in Connections |-> NoRoom]
    /\ saved = <<>>
    /\ sending = [c \in Connections |-> 0]
    /\ queue = [c \in Connections |-> <<>>]
    /\ heard = [c \in Connections |-> <<>>]
    /\ loaded = [c \in Connections |-> MaxMessages]
    /\ lost = [c \in Connections |-> {}]
    /\ posted = [r \in Rooms |-> <<>>]

\* connect: a participant joins the group of the room and is then accepted.
Connect(c, u, r) ==
    /\ room[c] = NoRoom
    /\ u \in Participants[r]
    /\ room' = [room EXCEPT ![c] = r]
    /\ UNCHANGED <<saved, sending, queue, heard, loaded, lost, posted>>

\* Message.objects.create
CreateMessage(r, via) ==
    /\ Len(saved) < MaxMessages
    /\ saved' = Append(saved, [room |-> r, via |-> via])

\* send_message, of a user who need not have a connection.
SendMessage(r) ==
    /\ CreateMessage(r, Http)
    /\ UNCHANGED <<room, sending, queue, heard, loaded, lost, posted>>

\* get_messages and MessageListView, once the client of c was accepted.
GetMessages(c) ==
    /\ room[c] # NoRoom
    /\ loaded' = [loaded EXCEPT ![c] = Len(saved)]
    /\ UNCHANGED <<room, saved, sending, queue, heard, lost, posted>>

\* Mutants: the message is saved and that is all; it gets the next one's number.
ReceiveOnlySaves(c) ==
    /\ room[c] # NoRoom /\ sending[c] = 0
    /\ CreateMessage(room[c], c)
    /\ UNCHANGED <<room, sending, queue, heard, loaded, lost, posted>>
ReceiveMiscounts(c) ==
    /\ room[c] # NoRoom /\ sending[c] = 0
    /\ CreateMessage(room[c], c)
    /\ sending' = [sending EXCEPT ![c] = Len(saved') + 1]
    /\ UNCHANGED <<room, queue, heard, loaded, lost, posted>>

\* receive: save_message returns ...
Receive(c) ==
    /\ room[c] # NoRoom
    /\ sending[c] = 0
    /\ CreateMessage(room[c], c)
    /\ sending' = [sending EXCEPT ![c] = Len(saved')]
    /\ UNCHANGED <<room, queue, heard, loaded, lost, posted>>

Deliver(m, reached) ==
    queue' = [d \in Connections |-> IF d \in reached THEN Append(queue[d], m) ELSE queue[d]]

\* Mutants: the sender is left out; he is told at once, before the others.
GroupSendToOthers(c) ==
    LET m == sending[c]
        reached == {d \in Group(room[c]) \ {c} : HasSpace(d)} IN
    /\ m # 0
    /\ sending' = [sending EXCEPT ![c] = 0]
    /\ Deliver(m, reached)
    /\ lost' = [d \in Connections |->
                   IF d \in Group(room[c]) \ (reached \cup {c}) THEN lost[d] \cup {m} ELSE lost[d]]
    /\ posted' = [posted EXCEPT ![room[c]] = Append(@, m)]
    /\ UNCHANGED <<room, saved, heard, loaded>>
GroupSendEchoes(c) ==
    LET m == sending[c]
        reached == {d \in Group(room[c]) \ {c} : HasSpace(d)} IN
    /\ m # 0
    /\ sending' = [sending EXCEPT ![c] = 0]
    /\ Deliver(m, reached)
    /\ heard' = [heard EXCEPT ![c] = Append(@, m)]
    /\ lost' = [d \in Connections |->
                   IF d \in Group(room[c]) \ (reached \cup {c}) THEN lost[d] \cup {m} ELSE lost[d]]
    /\ posted' = [posted EXCEPT ![room[c]] = Append(@, m)]
    /\ UNCHANGED <<room, saved, loaded>>

\* ... and group_send gives the message to every queue that has space.
GroupSend(c) ==
    LET m == sending[c]
        reached == {d \in Group(room[c]) : HasSpace(d)} IN
    /\ m # 0
    /\ sending' = [sending EXCEPT ![c] = 0]
    /\ Deliver(m, reached)
    /\ lost' = [d \in Connections |->
                   IF d \in Group(room[c]) \ reached THEN lost[d] \cup {m} ELSE lost[d]]
    /\ posted' = [posted EXCEPT ![room[c]] = Append(@, m)]
    /\ UNCHANGED <<room, saved, heard, loaded>>

\* Mutant: the event stays in the queue.
ChatMessageAgain(c) ==
    /\ queue[c] # <<>> /\ sending[c] = 0
    /\ heard' = [heard EXCEPT ![c] = Append(@, Head(queue[c]))]
    /\ UNCHANGED <<room, saved, sending, queue, loaded, lost, posted>>

\* chat_message passes an event of the group on to the client.
ChatMessage(c) ==
    /\ queue[c] # <<>>
    /\ sending[c] = 0
    /\ heard' = [heard EXCEPT ![c] = Append(@, Head(queue[c]))]
    /\ queue' = [queue EXCEPT ![c] = Tail(@)]
    /\ UNCHANGED <<room, saved, sending, loaded, lost, posted>>

\* The connection ends: by disconnect, or with its process, which may be in
\* the middle of receive.
Disconnect(c) ==
    /\ room[c] # NoRoom
    /\ room' = [room EXCEPT ![c] = NoRoom]
    /\ sending' = [sending EXCEPT ![c] = 0]
    /\ queue' = [queue EXCEPT ![c] = <<>>]
    /\ heard' = [heard EXCEPT ![c] = <<>>]
    /\ loaded' = [loaded EXCEPT ![c] = MaxMessages]
    /\ lost' = [d \in Connections |->
                   IF d = c THEN {}
                   ELSE IF room[d] = room[c] THEN lost[d] \cup ({sending[c]} \ {0})
                   ELSE lost[d]]
    /\ UNCHANGED <<saved, posted>>

Next ==
    \/ \E r \in Rooms : SendMessage(r)
    \/ \E c \in Connections :
           \/ \E u \in Users, r \in Rooms : Connect(c, u, r)
           \/ GetMessages(c) \/ Receive(c) \/ GroupSend(c) \/ ChatMessage(c) \/ Disconnect(c)

Spec == Init /\ [][Next]_vars

\* A running consumer gets on with what it has begun and with its queue.
FairSpec ==
    Spec /\ \A c \in Connections : WF_vars(GroupSend(c)) /\ WF_vars(ChatMessage(c))

-----------------------------------------------------------------------------
(* Properties. *)

TypeOK ==
    /\ room \in [Connections -> Rooms \cup {NoRoom}]
    /\ saved \in Seq([room: Rooms, via: Connections \cup {Http}]) /\ Len(saved) <= MaxMessages
    /\ sending \in [Connections -> 0..Len(saved)]
    /\ queue \in [Connections -> Seq(1..Len(saved))]
    /\ heard \in [Connections -> Seq(1..Len(saved))]
    /\ loaded \in [Connections -> 0..MaxMessages]
    /\ lost \in [Connections -> SUBSET (1..Len(saved))]
    /\ posted \in [Rooms -> Seq(1..Len(saved))]

\* What c has heard and is going to hear.
Stream(c) == heard[c] \o queue[c]

\* A connection hears the messages of another one in the order in which they
\* were saved, each once, whatever is lost on the way.
HeardInOrder ==
    \A c \in Connections : \A i, j \in DOMAIN Stream(c) :
        i < j /\ saved[Stream(c)[i]].via = saved[Stream(c)[j]].via => Stream(c)[i] < Stream(c)[j]

\* The client of c, which has listed the messages since it connected, has to
\* learn of m from its socket.
Awaits(c, m) ==
    /\ m \in DOMAIN saved
    /\ saved[m].room = room[c] /\ saved[m].via # Http
    /\ m > loaded[c]
    /\ m \notin lost[c]

\* A client that lists the messages once it is connected misses none: what is
\* not in the list it hears, or is about to, unless its queue was full or the
\* sender's process died.  (Messages sent over HTTP need another listing.)
NothingMissedOnceListed ==
    \A c \in Connections, m \in Ids : Awaits(c, m) =>
        \/ \E i \in DOMAIN Stream(c) : Stream(c)[i] = m
        \/ \E d \in Connections : sending[d] = m

\* In the end the client has heard such a message, or lost it, or left.
HeardByAudience ==
    \A c \in Connections, m \in Ids :
        Awaits(c, m) ~> (~Awaits(c, m) \/ \E i \in DOMAIN heard[c] : heard[c][i] = m)

\* All connections to a room agree on the order of its messages: the consumers
\* implement Transcript.
Channel ==
    INSTANCE Transcript WITH Messages <- Ids, place <- room,
                             told <- [c \in Connections |-> Stream(c)]
TranscriptSpec == Channel!Spec

-----------------------------------------------------------------------------
(* The inductive invariant behind the properties above. *)

\* A connection that is not open has nothing under way and listed nothing.
ClosedIsEmpty ==
    \A c \in Connections : room[c] = NoRoom =>
        /\ sending[c] = 0 /\ queue[c] = <<>> /\ heard[c] = <<>>
        /\ loaded[c] = MaxMessages

\* What a consumer has saved and not sent is of its room and its latest one.
PendingIsLatest ==
    \A c \in Connections : sending[c] # 0 =>
        /\ saved[sending[c]] = [room |-> room[c], via |-> c]
        /\ \A m \in DOMAIN saved : saved[m].via = c => m <= sending[c]

\* It was posted nowhere, and is on its way to nobody.
PendingIsUnsent ==
    \A c \in Connections : sending[c] # 0 =>
        /\ \A r \in Rooms : \A i \in DOMAIN posted[r] : posted[r][i] # sending[c]
        /\ \A d \in Connections : \A i \in DOMAIN Stream(d) : Stream(d)[i] # sending[c]

IInv ==
    /\ TypeOK
    /\ ClosedIsEmpty
    /\ PendingIsLatest
    /\ PendingIsUnsent
    /\ HeardInOrder
    /\ NothingMissedOnceListed
=============================================================================
