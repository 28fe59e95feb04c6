--------------------------- MODULE ChatRoomsProofs ---------------------------
(* Theorems about module ChatRooms, for any users, unknown ids, spellings,   *)
(* server threads and numbers of rooms and messages.                         *)
EXTENDS ChatRooms, TLAPS

-----------------------------------------------------------------------------
(* Type correctness. *)

\* A room's id is one whatever the ids of the request are of.
LEMMA RoomIdType ==
  ASSUME NEW u \in Users, NEW v \in Users \cup Ghosts, NEW s \in Spellings
  PROVE  /\ RoomId(u, v, s) \in RoomIds
         /\ RoomId(u, v, s).members = {u, v}
<1>1. RoomId(u, v, s) \in RoomIds
  <2>1. \E a \in Users, b \in Users \cup Ghosts, t \in Spellings : RoomId(u, v, s) = RoomId(a, b, t)
    OBVIOUS
  <2> QED
    BY <2>1 DEF RoomIds
<1>2. RoomId(u, v, s).members = {u, v}
  BY DEF RoomId
<1> QED
  BY <1>1, <1>2

\* What the records of requests hold.
LEMMA RequestType ==
  ASSUME NEW r \in Request \cup {Idle}
  PROVE  /\ r.op \in {"join", "write"} => r.user \in Users /\ r.room \in RoomIds
         /\ r.op = "join" => r.send \in BOOLEAN
         /\ r.op \in {"edit", "delete"} => r.message \in Message
         /\ r # Idle => r.op \in {"join", "write", "edit", "delete"}
BY DEF Request, Idle

\* A thread's next step is its own alone.
LEMMA StepRequest ==
  ASSUME TypeOK, NEW w \in Workers, NEW r \in Request \cup {Idle}, Step(w, r)
  PROVE  /\ request' \in [Workers -> Request \cup {Idle}]
         /\ \A x \in Workers : request'[x] = IF x = w THEN r ELSE request[x]
BY DEF TypeOK, Step

\* A created message is one, and has the next number.
LEMMA CreateMessageType ==
  ASSUME TypeOK, NEW r \in RoomIds, NEW u \in Users, CreateMessage(r, u)
  PROVE  /\ messages' \subseteq Message
         /\ lastMessage \in Nat /\ lastMessage' = lastMessage + 1 /\ lastMessage' \in 0..MaxMessages
         /\ messages' = messages \cup {[id |-> lastMessage', room |-> r, sender |-> u]}
BY ChatRoomsAssumption DEF TypeOK, CreateMessage, Message, Ids

\* There are no rows at first, and no request is on its way.
LEMMA InitTypeOK == Init => TypeOK
BY ChatRoomsAssumption DEF Init, TypeOK

\* Every query of every handler keeps the type.
LEMMA NextTypeOK ==
  ASSUME TypeOK, [Next]_vars
  PROVE  TypeOK'
<1>1. CASE UNCHANGED vars
  BY <1>1 DEF vars, TypeOK
<1>2. ASSUME NEW w \in Workers, NEW u \in Users, NEW v \in Users \cup Ghosts,
             NEW spelling \in Spellings, NEW send \in BOOLEAN, ReachRoom(w, u, v, spelling, send)
      PROVE  TypeOK'
  <2> DEFINE r == [op |-> "join", user |-> u, room |-> RoomId(u, v, spelling), send |-> send]
  <2>1. RoomId(u, v, spelling) \in RoomIds
    BY RoomIdType
  <2>2. r \in Request \cup {Idle}
    BY <2>1 DEF Request
  <2>3. Step(w, r)
    BY <1>2 DEF ReachRoom, Start
  <2> QED
    BY <1>2, <2>1, <2>2, <2>3, StepRequest DEF ReachRoom, TypeOK
<1>3. ASSUME NEW w \in Workers, NEW u \in Users, NEW m \in Message, NEW op \in {"edit", "delete"},
             BeginChange(w, op, u, m)
      PROVE  TypeOK'
  <2>1. [op |-> op, message |-> m] \in Request \cup {Idle}
    BY DEF Request
  <2> QED
    BY <1>3, <2>1, StepRequest DEF BeginChange, Start, TypeOK
<1>4. ASSUME NEW w \in Workers, JoinRoom(w)
      PROVE  TypeOK'
  <2>1. request[w].user \in Users /\ request[w].room \in RoomIds
    BY <1>4, RequestType DEF JoinRoom, TypeOK
  <2>2. [op |-> "write", user |-> request[w].user, room |-> request[w].room] \in Request \cup {Idle}
    BY <2>1 DEF Request
  <2>3. request' \in [Workers -> Request \cup {Idle}]
    BY <1>4, <2>2, StepRequest DEF JoinRoom, Stop
  <2>4. participants' \in [RoomIds -> SUBSET Users]
    BY <1>4, <2>1 DEF JoinRoom, TypeOK
  <2> QED
    BY <1>4, <2>3, <2>4 DEF JoinRoom, TypeOK
<1>5. ASSUME NEW w \in Workers, JoinGhost(w) \/ Abort(w)
      PROVE  TypeOK'
  BY <1>5, StepRequest DEF JoinGhost, Abort, Stop, TypeOK
<1>6. ASSUME NEW w \in Workers, WriteMessage(w)
      PROVE  TypeOK'
  <2>1. request[w].user \in Users /\ request[w].room \in RoomIds
    BY <1>6, RequestType DEF WriteMessage, TypeOK
  <2> QED
    BY <1>6, <2>1, StepRequest, CreateMessageType DEF WriteMessage, Stop, TypeOK
<1>7. ASSUME NEW w \in Workers, FinishEdit(w) \/ FinishDelete(w)
      PROVE  TypeOK'
  <2>1. request[w].message \in Message
    BY <1>7, RequestType DEF FinishEdit, FinishDelete, TypeOK
  <2> QED
    BY <1>7, <2>1, StepRequest DEF FinishEdit, FinishDelete, Stop, TypeOK
<1>8. ASSUME NEW u \in Users, NEW r \in RoomIds, SocketMessage(u, r)
      PROVE  TypeOK'
  BY <1>8, CreateMessageType DEF SocketMessage, TypeOK
<1> QED
  BY <1>1, <1>2, <1>3, <1>4, <1>5, <1>6, <1>7, <1>8 DEF Next

-----------------------------------------------------------------------------
(* The inductive invariant. *)

\* What stays true of rooms stays true of the requests that are under way: it
\* is enough to look at the thread that took the step.
LEMMA StepKeeps ==
  ASSUME IInv, TypeOK', NEW w \in Workers, NEW r \in Request \cup {Idle}, Step(w, r),
         rooms \subseteq rooms',
         \A x \in RoomIds : Complete(x) => Complete(x)',
         NoneOrBoth', Sound(r)', \A m \in messages' : InItsRoom(m)'
  PROVE  IInv'
<1>1. \A x \in Workers : request'[x] = IF x = w THEN r ELSE request[x]
  BY StepRequest DEF IInv
<1>2. ASSUME NEW x \in Workers, x # w
      PROVE  Sound(request[x])'
  <2>1. request'[x] = request[x] /\ request[x] \in Request \cup {Idle} /\ Sound(request[x])
    BY <1>1, <1>2 DEF IInv, TypeOK, RequestsSound
  <2>2. /\ request[x].op = "write" => request[x].room \in RoomIds
        /\ request[x].op \in {"edit", "delete"} => request[x].message.room \in RoomIds
    BY <2>1, RequestType DEF Message
  <2> QED
    BY <2>1, <2>2 DEF Sound, InItsRoom
<1>3. Sound(request[w])'
  BY <1>1 DEF Sound, InItsRoom, Complete
<1>4. RequestsSound'
  BY <1>2, <1>3 DEF RequestsSound
<1> QED
  BY <1>4 DEF IInv

\* Without rooms nothing can be wrong with them.
LEMMA InitIInv == Init => IInv
BY InitTypeOK DEF Init, IInv, NoneOrBoth, RequestsSound, Sound, Idle

\* The rooms' first query: the room is there, whoever takes part in it.
LEMMA ReachRoomIInv ==
  ASSUME IInv, NEW w \in Workers, NEW u \in Users, NEW v \in Users \cup Ghosts,
         NEW spelling \in Spellings, NEW send \in BOOLEAN, ReachRoom(w, u, v, spelling, send)
  PROVE  IInv'
<1> DEFINE id == RoomId(u, v, spelling)
           r == [op |-> "join", user |-> u, room |-> id, send |-> send]
<1>1. TypeOK'
  BY NextTypeOK DEF IInv, Next
<1>2. id \in RoomIds /\ id.members = {u, v}
  BY RoomIdType
<1>3. r \in Request \cup {Idle} /\ Step(w, r)
  BY <1>2 DEF ReachRoom, Start, Request
<1>4. rooms' = rooms \cup {id} /\ participants' = participants /\ messages' = messages
  BY DEF ReachRoom
<1>5. \A x \in RoomIds : Complete(x) => Complete(x)'
  BY <1>4 DEF Complete
<1>6. NoneOrBoth'
  BY <1>4, <1>5 DEF IInv, NoneOrBoth
<1>7. Sound(r)'
  BY <1>2, <1>4 DEF Sound
<1>8. \A m \in messages' : InItsRoom(m)'
  BY <1>4, <1>5 DEF IInv, TypeOK, InItsRoom, Message
<1> QED
  BY <1>1, <1>3, <1>4, <1>5, <1>6, <1>7, <1>8, StepKeeps

\* The second query adds both participants of a room that is there.
LEMMA JoinRoomIInv ==
  ASSUME IInv, NEW w \in Workers, JoinRoom(w), NEW r \in Request \cup {Idle}, r = request[w]
  PROVE  IInv'
<1> DEFINE next == IF r.send THEN [op |-> "write", user |-> r.user, room |-> r.room] ELSE Idle
<1>1. TypeOK'
  BY NextTypeOK DEF IInv, Next
<1>2. /\ r.op = "join" /\ r.room \in RoomIds /\ r.user \in Users
      /\ r.room \in rooms /\ r.user \in r.room.members /\ r.room.members \subseteq Users
  BY RequestType DEF JoinRoom, IInv, TypeOK, RequestsSound, Sound
<1>3. next \in Request \cup {Idle} /\ Step(w, next)
  BY <1>2 DEF JoinRoom, Stop, Request
<1>4. /\ rooms' = rooms /\ messages' = messages
      /\ \A x \in RoomIds : participants'[x] =
             IF x = r.room THEN participants[x] \cup x.members ELSE participants[x]
  BY DEF JoinRoom, IInv, TypeOK
<1>5. \A x \in RoomIds : Complete(x) => Complete(x)'
  BY <1>4 DEF Complete
<1>6. Complete(r.room)'
  BY <1>2, <1>4 DEF Complete, IInv, NoneOrBoth
<1>7. NoneOrBoth'
  BY <1>4, <1>5, <1>6 DEF IInv, NoneOrBoth
<1>8. Sound(next)'
  BY <1>2, <1>6 DEF Sound, Idle
<1>9. \A m \in messages' : InItsRoom(m)'
  BY <1>4, <1>5 DEF IInv, TypeOK, InItsRoom, Message
<1> QED
  BY <1>1, <1>3, <1>4, <1>5, <1>7, <1>8, <1>9, StepKeeps

\* A step after which the thread is idle, and which adds no message but one that
\* is in its room, keeps the invariant.
LEMMA StopKeeps ==
  ASSUME IInv, TypeOK', NEW w \in Workers, Stop(w), UNCHANGED <<rooms, participants>>,
         \A m \in messages' : m \in messages \/ InItsRoom(m)
  PROVE  IInv'
<1>1. \A x \in RoomIds : Complete(x) => Complete(x)'
  BY DEF Complete
<1>2. NoneOrBoth'
  BY <1>1 DEF IInv, NoneOrBoth
<1>3. Sound(Idle)'
  BY DEF Sound, Idle
<1>4. \A m \in messages' : InItsRoom(m)'
  BY DEF IInv, InItsRoom, Complete
<1> QED
  BY <1>1, <1>2, <1>3, <1>4, StepKeeps DEF Stop

\* Every query of every handler keeps the invariant.
LEMMA NextIInv == IInv /\ [Next]_vars => IInv'
<1> SUFFICES ASSUME IInv, [Next]_vars PROVE IInv'
  OBVIOUS
<1>0. TypeOK'
  BY NextTypeOK DEF IInv
<1>1. CASE UNCHANGED vars
  <2>1. /\ rooms' = rooms /\ participants' = participants /\ messages' = messages
        /\ request' = request
    BY <1>1 DEF vars
  <2> QED
    BY <1>0, <2>1 DEF IInv, NoneOrBoth, RequestsSound, Sound, InItsRoom, Complete
<1>2. ASSUME NEW w \in Workers, NEW u \in Users, NEW m \in Message, NEW op \in {"edit", "delete"},
             BeginChange(w, op, u, m)
      PROVE  IInv'
  <2> DEFINE r == [op |-> op, message |-> m]
  <2>1. r \in Request \cup {Idle} /\ Step(w, r)
    BY <1>2 DEF BeginChange, Start, Request
  <2>2. \A x \in RoomIds : Complete(x) => Complete(x)'
    BY <1>2 DEF BeginChange, Complete
  <2>3. NoneOrBoth'
    BY <1>2, <2>2 DEF BeginChange, IInv, NoneOrBoth
  <2>4. \A n \in messages' : InItsRoom(n)'
    BY <1>2 DEF BeginChange, IInv, InItsRoom, Complete
  <2>5. Sound(r)'
    BY <1>2, <2>4 DEF BeginChange, Sound
  <2>6. rooms' = rooms
    BY <1>2 DEF BeginChange
  <2> QED
    BY <1>0, <2>1, <2>2, <2>3, <2>4, <2>5, <2>6, StepKeeps
<1>3. ASSUME NEW w \in Workers, JoinGhost(w) \/ Abort(w) \/ FinishDelete(w)
      PROVE  IInv'
  BY <1>0, <1>3, StopKeeps DEF JoinGhost, Abort, FinishDelete
<1>4. ASSUME NEW w \in Workers, WriteMessage(w)
      PROVE  IInv'
  <2>1. /\ request[w].op = "write" /\ request[w].room \in RoomIds /\ request[w].user \in Users
        /\ Complete(request[w].room) /\ request[w].user \in request[w].room.members
    BY <1>4, RequestType DEF WriteMessage, IInv, TypeOK, RequestsSound, Sound
  <2>2. messages' = messages \cup
            {[id |-> lastMessage', room |-> request[w].room, sender |-> request[w].user]}
    BY <1>4 DEF WriteMessage, CreateMessage
  <2>3. \A m \in messages' : m \in messages \/ InItsRoom(m)
    BY <2>1, <2>2 DEF InItsRoom
  <2> QED
    BY <1>0, <1>4, <2>3, StopKeeps DEF WriteMessage
<1>5. ASSUME NEW w \in Workers, FinishEdit(w)
      PROVE  IInv'
  <2>1. InItsRoom(request[w].message) /\ messages' = messages \cup {request[w].message}
    BY <1>5 DEF FinishEdit, IInv, RequestsSound, Sound
  <2> QED
    BY <1>0, <1>5, <2>1, StopKeeps DEF FinishEdit
<1>6. ASSUME NEW u \in Users, NEW r \in RoomIds, SocketMessage(u, r)
      PROVE  IInv'
  <2>1. Complete(r) /\ u \in r.members
    BY <1>6 DEF SocketMessage, IInv, NoneOrBoth, Complete
  <2>2. messages' = messages \cup {[id |-> lastMessage', room |-> r, sender |-> u]}
    BY <1>6 DEF SocketMessage, CreateMessage
  <2>3. \A m \in messages' : InItsRoom(m)
    BY <2>1, <2>2 DEF IInv, InItsRoom
  <2>4. rooms' = rooms /\ participants' = participants /\ request' = request
    BY <1>6 DEF SocketMessage
  <2> QED
    BY <1>0, <2>3, <2>4 DEF IInv, NoneOrBoth, RequestsSound, Sound, InItsRoom, Complete
<1>7. ASSUME NEW w \in Workers, JoinRoom(w)
      PROVE  IInv'
  BY <1>7, JoinRoomIInv DEF IInv, TypeOK
<1> QED
  BY <1>1, <1>2, <1>3, <1>4, <1>5, <1>6, <1>7, ReachRoomIInv DEF Next

\* The invariant holds throughout: a room has both participants or none, and
\* whatever a handler has yet to do is of a room it made sure of.
THEOREM Invariance == Spec => []IInv
<1>1. Init => IInv
  BY InitIInv
<1>2. IInv /\ [Next]_vars => IInv'
  BY NextIInv
<1> QED
  BY <1>1, <1>2, PTL DEF Spec

\* The rows have their types.
THEOREM TypeCorrect == Spec => []TypeOK
<1>1. IInv => TypeOK
  BY DEF IInv
<1> QED
  BY <1>1, Invariance, PTL

\* Participants find each other named in their lists, and a room with messages
\* is in the lists of both, however requests interleave, stop and fail.
THEOREM ConversationsShared == Spec => []ConversationsAreShared
<1>1. ASSUME IInv
      PROVE  ConversationsAreShared
  <2>1. ASSUME NEW u \in Users, NEW r \in Listed(u)
        PROVE  Others(u, r) = r.members \ {u}
    <3>1. r \in RoomIds /\ participants[r] # {}
      BY <1>1, <2>1 DEF IInv, TypeOK, Listed
    <3>2. Complete(r)
      BY <1>1, <3>1 DEF IInv, NoneOrBoth
    <3> QED
      BY <3>2 DEF Complete, Others
  <2>2. ASSUME NEW m \in messages
        PROVE  m.sender \in m.room.members /\ \A u \in m.room.members : m.room \in Listed(u)
    <3>1. InItsRoom(m)
      BY <1>1, <2>2 DEF IInv
    <3> QED
      BY <3>1 DEF InItsRoom, Complete, Listed
  <2> QED
    BY <2>1, <2>2 DEF ConversationsAreShared
<1> QED
  BY <1>1, Invariance, PTL

-----------------------------------------------------------------------------
(* Deleted messages. *)

\* No step brings back a message that is gone: a new one has a new number, and
\* an edit that saves is of a message that was there when the edit began.
LEMMA GoneStaysGone ==
  ASSUME TypeOK, [Next]_vars, NEW i \in Ids, Gone(i)
  PROVE  Gone(i)'
<1>0. TypeOK' /\ lastMessage \in Nat /\ i \in Nat
  BY NextTypeOK, ChatRoomsAssumption DEF TypeOK, Ids
<1>1. CASE UNCHANGED vars
  BY <1>1 DEF vars, Gone
<1>2. ASSUME NEW w \in Workers, NEW u \in Users, NEW v \in Users \cup Ghosts,
             NEW spelling \in Spellings, NEW send \in BOOLEAN, ReachRoom(w, u, v, spelling, send)
      PROVE  Gone(i)'
  BY <1>2 DEF ReachRoom, Start, Step, TypeOK, Gone
<1>3. ASSUME NEW w \in Workers, NEW u \in Users, NEW m \in Message, NEW op \in {"edit", "delete"},
             BeginChange(w, op, u, m)
      PROVE  Gone(i)'
  <2>1. m.id # i
    BY <1>3 DEF BeginChange, Gone
  <2> QED
    BY <1>3, <2>1 DEF BeginChange, Start, Step, TypeOK, Gone
<1>4. ASSUME NEW w \in Workers, JoinRoom(w)
      PROVE  Gone(i)'
  BY <1>4 DEF JoinRoom, Stop, Step, Idle, TypeOK, Gone
<1>5. ASSUME NEW w \in Workers, JoinGhost(w) \/ Abort(w) \/ FinishDelete(w)
      PROVE  Gone(i)'
  BY <1>5 DEF JoinGhost, Abort, FinishDelete, Stop, Step, Idle, TypeOK, Gone
<1>6. ASSUME NEW r \in RoomIds, NEW u \in Users, CreateMessage(r, u),
             \A w \in Workers : request'[w] = request[w] \/ request'[w] = Idle
      PROVE  Gone(i)'
  <2>1. i <= lastMessage' /\ \A m \in messages' : m.id # i
    BY <1>0, <1>6, CreateMessageType DEF Gone
  <2> QED
    BY <1>6, <2>1 DEF Idle, Gone
<1>7. ASSUME NEW w \in Workers, WriteMessage(w)
      PROVE  Gone(i)'
  <2>1. request[w].user \in Users /\ request[w].room \in RoomIds
    BY <1>7, RequestType DEF WriteMessage, TypeOK
  <2>2. \A x \in Workers : request'[x] = request[x] \/ request'[x] = Idle
    BY <1>7 DEF WriteMessage, Stop, Step, TypeOK
  <2> QED
    BY <1>6, <1>7, <2>1, <2>2 DEF WriteMessage
<1>8. ASSUME NEW u \in Users, NEW r \in RoomIds, SocketMessage(u, r)
      PROVE  Gone(i)'
  BY <1>6, <1>8 DEF SocketMessage
<1>9. ASSUME NEW w \in Workers, FinishEdit(w)
      PROVE  Gone(i)'
  <2>1. request[w].message.id # i
    BY <1>9 DEF FinishEdit, Gone
  <2> QED
    BY <1>9, <2>1 DEF FinishEdit, Stop, Step, Idle, TypeOK, Gone
<1> QED
  BY <1>1, <1>2, <1>3, <1>4, <1>5, <1>7, <1>8, <1>9 DEF Next

\* A deleted message that nobody is in the middle of editing never comes back.
THEOREM DeletedIsFinal == Spec => DeletedStaysDeleted
<1>1. TypeOK /\ [Next]_vars => [\A i \in Ids : Gone(i) => Gone(i)']_vars
  BY GoneStaysGone
<1> QED
  BY <1>1, TypeCorrect, PTL DEF Spec, DeletedStaysDeleted
=============================================================================
