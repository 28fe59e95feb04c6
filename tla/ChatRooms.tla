------------------------------ MODULE ChatRooms ------------------------------
(***************************************************************************)
(* ChatRoom and Message rows: chat/models.py, the HTTP handlers of         *)
(* chat/views.py and what chat/consumers.py writes.  (What the consumer    *)
(* sends to whom is the subject of ChatConsumer.)                          *)
(*                                                                         *)
(* A handler makes sure that the room is there (one query), that both      *)
(* users take part in it (another) and, if it sends, writes the message    *)
(* (a third).  Edits and deletions load a message first.                   *)
(***************************************************************************)
EXTENDS Naturals, FiniteSets

CONSTANTS
    Users,
    Ghosts,         \* ids that a request may name and no user has
    Spellings,      \* ways to write a user's UUID as text
    Canonical,      \* the one that str(uuid) gives
    Workers,        \* server threads
    MaxRooms,       \* bound: rooms made in one behaviour
    MaxMessages     \* bound: messages written in one behaviour

ASSUME ChatRoomsAssumption ==
    /\ Users \cap Ghosts = {}
    /\ Canonical \in Spellings
    /\ MaxRooms \in Nat /\ MaxMessages \in Nat

VARIABLES
    rooms,          \* ChatRoom rows
    participants,   \* participants[r]: the many-to-many rows of room r
    messages,       \* Message rows
    lastMessage,    \* messages are numbered as they are created
    request         \* request[w]: the HTTP handler thread w is in the middle of

vars == <<rooms, participants, messages, lastMessage, request>>

\* uuid5 of the two ids, sorted and written as text.
RoomId(u, v, spelling) == [members |-> {u, v}, spelling |-> spelling]
RoomIds == {RoomId(u, v, s) : u \in Users, v \in Users \cup Ghosts, s \in Spellings}

Ids == 1..MaxMessages
Message == [id: Ids, room: RoomIds, sender: Users]

Idle == [op |-> "idle"]
Request == [op: {"join"}, user: Users, room: RoomIds, send: BOOLEAN]
              \cup [op: {"write"}, user: Users, room: RoomIds]
              \cup [op: {"edit", "delete"}, message: Message]

Step(w, r) == request' = [request EXCEPT ![w] = r]
Start(w, r) == request[w] = Idle /\ Step(w, r)
Stop(w) == Step(w, Idle)

Init ==
    /\ rooms = {}
    /\ participants = [r \in RoomIds |-> {}]
    /\ messages = {}
    /\ lastMessage = 0
    /\ request = [w \in Workers |-> Idle]

\* Mutant: room and sender the other way round.
CreateMessageSwapped(r, u) ==
    /\ lastMessage < MaxMessages
    /\ lastMessage' = lastMessage + 1
    /\ messages' = messages \cup {[id |-> lastMessage', room |-> u, sender |-> r]}

\* Message.objects.create
CreateMessage(r, u) ==
    /\ lastMessage < MaxMessages
    /\ lastMessage' = lastMessage + 1
    /\ messages' = messages \cup {[id |-> lastMessage', room |-> r, sender |-> u]}

-----------------------------------------------------------------------------
\* ChatRoom.get_or_create_room, as every handler calls it: the row, ...
\* send_message and get_messages find the other user first and pass his id on,
\* MessageListView and get_typing pass the UUID of the path, typing passes the
\* text that the request holds.
ReachRoom(w, u, v, spelling, send) ==
    LET r == RoomId(u, v, spelling) IN
    /\ send => spelling = Canonical /\ v \in Users
    /\ rooms' = rooms \cup {r}
    /\ Cardinality(rooms') <= MaxRooms
    /\ Start(w, [op |-> "join", user |-> u, room |-> r, send |-> send])
    /\ UNCHANGED <<participants, messages, lastMessage>>

\* Mutant: only the user who asks is added.
JoinAlone(w) ==
    LET r == request[w] IN
    /\ r.op = "join"
    /\ participants' = [participants EXCEPT ![r.room] = @ \cup {r.user}]
    /\ IF r.send THEN Step(w, [op |-> "write", user |-> r.user, room |-> r.room]) ELSE Stop(w)
    /\ UNCHANGED <<rooms, messages, lastMessage>>

\* ... then participants.add(user1_id, user2_id), ...
JoinRoom(w) ==
    LET r == request[w] IN
    /\ r.op = "join"
    /\ r.room.members \subseteq Users
    /\ participants' = [participants EXCEPT ![r.room] = @ \cup r.room.members]
    /\ IF r.send THEN Step(w, [op |-> "write", user |-> r.user, room |-> r.room]) ELSE Stop(w)
    /\ UNCHANGED <<rooms, messages, lastMessage>>

\* ... which adds none of them if one does not exist: the request fails, the
\* row of the room stays.
JoinGhost(w) ==
    /\ request[w].op = "join"
    /\ ~(request[w].room.members \subseteq Users)
    /\ Stop(w)
    /\ UNCHANGED <<rooms, participants, messages, lastMessage>>

\* The end of send_message.
WriteMessage(w) ==
    /\ request[w].op = "write"
    /\ CreateMessage(request[w].room, request[w].user)
    /\ Stop(w)
    /\ UNCHANGED <<rooms, participants>>

\* ChatConsumer.save_message, for a user whom connect found in the room.
SocketMessage(u, r) ==
    /\ r \in rooms
    /\ u \in participants[r]
    /\ CreateMessage(r, u)
    /\ UNCHANGED <<rooms, participants, request>>

\* Mutant: the message comes from somewhere else than the table.
BeginChangeUnread(w, op, u, m) ==
    /\ m.id <= lastMessage
    /\ m.sender = u
    /\ Start(w, [op |-> op, message |-> m])
    /\ UNCHANGED <<rooms, participants, messages, lastMessage>>

\* edit_message and delete_message load the sender's message, ...
BeginChange(w, op, u, m) ==
    /\ m \in messages
    /\ m.sender = u
    /\ Start(w, [op |-> op, message |-> m])
    /\ UNCHANGED <<rooms, participants, messages, lastMessage>>

\* ... edit_message saves it, by an INSERT if there is no row to UPDATE, ...
FinishEdit(w) ==
    /\ request[w].op = "edit"
    /\ messages' = messages \cup {request[w].message}
    /\ Stop(w)
    /\ UNCHANGED <<rooms, participants, lastMessage>>

\* ... and delete_message deletes it.
FinishDelete(w) ==
    /\ request[w].op = "delete"
    /\ messages' = messages \ {request[w].message}
    /\ Stop(w)
    /\ UNCHANGED <<rooms, participants, lastMessage>>

\* A request that dies or fails between two queries.
Abort(w) ==
    /\ request[w] # Idle
    /\ Stop(w)
    /\ UNCHANGED <<rooms, participants, messages, lastMessage>>

Next ==
    \/ \E w \in Workers :
           \/ \E u \in Users, v \in Users \cup Ghosts, spelling \in Spellings, send \in BOOLEAN :
                  ReachRoom(w, u, v, spelling, send)
           \/ \E u \in Users, m \in Message, op \in {"edit", "delete"} : BeginChange(w, op, u, m)
           \/ JoinRoom(w) \/ JoinGhost(w) \/ WriteMessage(w) \/ FinishEdit(w) \/ FinishDelete(w) \/ Abort(w)
    \/ \E u \in Users, r \in RoomIds : SocketMessage(u, r)

Spec == Init /\ [][Next]_vars

-----------------------------------------------------------------------------
(* Properties. *)

TypeOK ==
    /\ rooms \subseteq RoomIds
    /\ participants \in [RoomIds -> SUBSET Users]
    /\ messages \subseteq Message
    /\ lastMessage \in 0..MaxMessages
    /\ request \in [Workers -> Request \cup {Idle}]

\* ChatRoomListView: the rooms listed for u, and whom such an entry may name.
Listed(u) == {r \in rooms : u \in participants[r]}
Others(u, r) == participants[r] \ {u}

\* Whoever takes part in a room finds the other one named there, and a room with
\* messages is in the lists of both, the sender's among them: although the room,
\* its participants and the message are written by three queries, any request
\* may stop between them, and ids may be of nobody.
ConversationsAreShared ==
    /\ \A u \in Users : \A r \in Listed(u) : Others(u, r) = r.members \ {u}
    /\ \A m \in messages :
           m.sender \in m.room.members /\ \A u \in m.room.members : m.room \in Listed(u)

\* A deleted message that nobody is in the middle of editing does not come back.
Gone(i) ==
    /\ i <= lastMessage
    /\ \A m \in messages : m.id # i
    /\ \A w \in Workers : request[w].op = "edit" => request[w].message.id # i
DeletedStaysDeleted == [][\A i \in Ids : Gone(i) => Gone(i)']_vars

-----------------------------------------------------------------------------
(* The inductive invariant behind the properties above. *)

\* A room in which both users take part.
Complete(r) == r \in rooms /\ r.members \subseteq Users /\ participants[r] = r.members

\* The participants of a room are written in one query: none or both.
NoneOrBoth == \A r \in RoomIds : participants[r] = {} \/ Complete(r)

\* A message is by one of the two of its room, and both have it.
InItsRoom(m) == m.sender \in m.room.members /\ Complete(m.room)

\* What a handler has yet to do is of the room it made sure of, what it has
\* loaded was in one.
Sound(r) ==
    /\ r.op \in {"join", "write"} => r.user \in r.room.members
    /\ r.op = "join" => r.room \in rooms
    /\ r.op = "write" => Complete(r.room)
    /\ r.op \in {"edit", "delete"} => InItsRoom(r.message)
RequestsSound == \A w \in Workers : Sound(request[w])

IInv ==
    /\ TypeOK
    /\ NoneOrBoth
    /\ RequestsSound
    /\ \A m \in messages : InItsRoom(m)
=============================================================================
