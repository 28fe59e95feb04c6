------------------------- MODULE ChatConsumerProofs -------------------------
(* Theorems about modules ChatConsumer and Transcript, for any users, rooms, *)
(* connections, queue capacities and numbers of messages.                    *)
EXTENDS ChatConsumer, SequenceTheorems, TLAPS

-----------------------------------------------------------------------------
(* Sequences and streams. *)

\* An element put at the end of the second part is at the end of the whole.
LEMMA ConcatAppend ==
  ASSUME NEW S, NEW h \in Seq(S), NEW q \in Seq(S), NEW m \in S
  PROVE  h \o Append(q, m) = Append(h \o q, m)
<1>1. <<m>> \in Seq(S) /\ h \o q \in Seq(S)
  BY ConcatProperties
<1> QED
  BY <1>1, AppendIsConcat, ConcatAssociative

\* An element that moves from the second part to the first moves nowhere.
LEMMA ConcatMoveHead ==
  ASSUME NEW S, NEW h \in Seq(S), NEW q \in Seq(S), q # <<>>
  PROVE  Append(h, Head(q)) \o Tail(q) = h \o q
<1>1. Head(q) \in S /\ Tail(q) \in Seq(S) /\ <<Head(q)>> \in Seq(S)
  BY HeadTailProperties
<1>2. Append(h, Head(q)) \o Tail(q) = h \o (<<Head(q)>> \o Tail(q))
  BY <1>1, AppendIsConcat, ConcatAssociative
<1>3. Len(<<Head(q)>> \o Tail(q)) = Len(q)
  BY <1>1, ConcatProperties, HeadTailProperties, EmptySeq
<1>4. \A i \in 1..Len(q) : (<<Head(q)>> \o Tail(q))[i] = q[i]
  BY <1>1, ConcatProperties, HeadTailProperties, EmptySeq
<1>5. <<Head(q)>> \o Tail(q) = q
  <2>1. <<Head(q)>> \o Tail(q) \in Seq(S)
    BY <1>1, ConcatProperties
  <2> QED
    BY <1>3, <1>4, <2>1, SeqEqual
<1> QED
  BY <1>2, <1>5

\* What a connection is told is a sequence of saved messages.
LEMMA StreamType ==
  ASSUME TypeOK, NEW c \in Connections
  PROVE  /\ Stream(c) \in Seq(1..Len(saved))
         /\ DOMAIN Stream(c) = 1..Len(Stream(c)) /\ Len(Stream(c)) \in Nat
         /\ \A i \in DOMAIN Stream(c) : Stream(c)[i] \in 1..Len(saved)
<1>1. Stream(c) \in Seq(1..Len(saved))
  BY ConcatProperties DEF TypeOK, Stream
<1> QED
  BY <1>1, LenProperties, ElementOfSeq

\* Creating a message appends it and leaves the others alone.
LEMMA CreateAppends ==
  ASSUME TypeOK, NEW r \in Rooms, NEW via \in Connections \cup {Http}, CreateMessage(r, via)
  PROVE  /\ saved' \in Seq([room: Rooms, via: Connections \cup {Http}])
         /\ Len(saved) \in Nat /\ Len(saved') = Len(saved) + 1 /\ Len(saved') <= MaxMessages
         /\ DOMAIN saved = 1..Len(saved) /\ DOMAIN saved' = 1..Len(saved')
         /\ \A m \in DOMAIN saved : saved'[m] = saved[m]
         /\ saved'[Len(saved')] = [room |-> r, via |-> via]
<1> DEFINE M == [room: Rooms, via: Connections \cup {Http}]
<1>1. saved \in Seq(M) /\ [room |-> r, via |-> via] \in M /\ Len(saved) < MaxMessages
      /\ saved' = Append(saved, [room |-> r, via |-> via])
  BY DEF TypeOK, CreateMessage
<1>2. MaxMessages \in Nat
  BY ChatConsumerAssumption
<1> QED
  BY <1>1, <1>2, AppendProperties, LenProperties

\* Sequences and message numbers keep their type when messages are created.
LEMMA SavedGrows ==
  ASSUME NEW m \in Nat, NEW n \in Nat, m <= n
  PROVE  /\ \A s \in Seq(1..m) : s \in Seq(1..n)
         /\ 0..m \subseteq 0..n /\ SUBSET (1..m) \subseteq SUBSET (1..n)
<1>1. 1..m \subseteq 1..n
  OBVIOUS
<1> QED
  BY <1>1, SeqMonotonic

\* group_send appends the message to the streams it reaches.
LEMMA DeliverAppends ==
  ASSUME NEW S, NEW m \in S, NEW reached, Deliver(m, reached), UNCHANGED heard,
         NEW d \in Connections, heard[d] \in Seq(S), queue[d] \in Seq(S)
  PROVE  /\ Stream(d)' = IF d \in reached THEN Append(Stream(d), m) ELSE Stream(d)
         /\ queue'[d] \in Seq(S)
<1>1. queue'[d] = IF d \in reached THEN Append(queue[d], m) ELSE queue[d]
  BY DEF Deliver
<1>2. Append(queue[d], m) \in Seq(S)
  BY AppendProperties
<1>3. heard[d] \o Append(queue[d], m) = Append(heard[d] \o queue[d], m)
  <2>1. \A h, q \in Seq(S) : h \o Append(q, m) = Append(h \o q, m)
    BY ConcatAppend
  <2> QED
    BY <2>1, Zenon
<1> QED
  BY <1>1, <1>2, <1>3 DEF Stream

\* chat_message leaves all streams as they are.
LEMMA ChatMessageKeepsStreams ==
  ASSUME TypeOK, NEW c \in Connections, ChatMessage(c), NEW d \in Connections
  PROVE  Stream(d)' = Stream(d)
<1>1. heard[d] \in Seq(1..Len(saved)) /\ queue[d] \in Seq(1..Len(saved))
  BY DEF TypeOK
<1>2. heard'[d] = (IF d = c THEN Append(heard[d], Head(queue[d])) ELSE heard[d])
      /\ queue'[d] = (IF d = c THEN Tail(queue[d]) ELSE queue[d])
  BY DEF TypeOK, ChatMessage
<1>3. d = c => queue[d] # <<>>
  BY DEF ChatMessage
<1>4. CASE d = c
  <2>1. Append(heard[d], Head(queue[d])) \o Tail(queue[d]) = heard[d] \o queue[d]
    BY <1>1, <1>3, <1>4, ConcatMoveHead
  <2> QED
    BY <1>2, <1>4, <2>1 DEF Stream
<1>5. CASE d # c
  BY <1>2, <1>5 DEF Stream
<1> QED
  BY <1>4, <1>5

-----------------------------------------------------------------------------
(* Type correctness. *)

LEMMA InitTypeOK == Init => TypeOK
<1> SUFFICES ASSUME Init PROVE TypeOK
  OBVIOUS
<1> USE ChatConsumerAssumption
<1>1. saved \in Seq([room: Rooms, via: Connections \cup {Http}]) /\ Len(saved) = 0
  BY EmptySeq DEF Init
<1>2. <<>> \in Seq(1..Len(saved))
  BY EmptySeq
<1> QED
  BY <1>1, <1>2 DEF Init, TypeOK

\* The type survives a step that creates a message and does little else.
LEMMA CreateTypeOK ==
  ASSUME TypeOK, NEW r \in Rooms, NEW via \in Connections \cup {Http}, CreateMessage(r, via),
         UNCHANGED <<room, queue, heard, loaded, lost, posted>>,
         sending' \in [Connections -> 0..Len(saved')]
  PROVE  TypeOK'
<1>0. saved' \in Seq([room: Rooms, via: Connections \cup {Http}]) /\ Len(saved) \in Nat
      /\ Len(saved') = Len(saved) + 1 /\ Len(saved') <= MaxMessages
  BY CreateAppends
<1>1. Len(saved') \in Nat /\ Len(saved) <= Len(saved')
  BY <1>0
<1>2. /\ \A s \in Seq(1..Len(saved)) : s \in Seq(1..Len(saved'))
      /\ SUBSET (1..Len(saved)) \subseteq SUBSET (1..Len(saved'))
  BY <1>0, <1>1, SavedGrows
<1> QED
  BY <1>0, <1>2 DEF TypeOK

\* Every step of a consumer and every request keeps the type.
LEMMA NextTypeOK ==
  ASSUME TypeOK, [Next]_vars
  PROVE  TypeOK'
<1>0. /\ Len(saved) \in Nat /\ MaxMessages \in Nat /\ NoRoom \notin Rooms
      /\ <<>> \in Seq(1..Len(saved))
  BY ChatConsumerAssumption, LenProperties, EmptySeq DEF TypeOK
<1>1. CASE UNCHANGED vars
  BY <1>1 DEF vars, TypeOK
<1>2. ASSUME NEW r \in Rooms, SendMessage(r)
      PROVE  TypeOK'
  <2>1. Len(saved') = Len(saved) + 1
    BY <1>2, CreateAppends DEF SendMessage
  <2>2. sending' \in [Connections -> 0..Len(saved')]
    BY <1>0, <1>2, <2>1 DEF SendMessage, TypeOK
  <2> QED
    BY <1>2, <2>2, CreateTypeOK DEF SendMessage
<1>3. ASSUME NEW c \in Connections, NEW u \in Users, NEW r \in Rooms, Connect(c, u, r)
      PROVE  TypeOK'
  BY <1>3 DEF Connect, TypeOK
<1>4. ASSUME NEW c \in Connections, GetMessages(c)
      PROVE  TypeOK'
  BY <1>0, <1>4 DEF GetMessages, TypeOK
<1>5. ASSUME NEW c \in Connections, Receive(c)
      PROVE  TypeOK'
  <2>1. room[c] \in Rooms
    BY <1>5 DEF Receive, TypeOK
  <2>2. Len(saved') = Len(saved) + 1
    BY <1>5, <2>1, CreateAppends DEF Receive
  <2>3. sending' \in [Connections -> 0..Len(saved')]
    BY <1>0, <1>5, <2>2 DEF Receive, TypeOK
  <2> QED
    BY <1>5, <2>1, <2>3, CreateTypeOK DEF Receive
<1>6. ASSUME NEW c \in Connections, GroupSend(c)
      PROVE  TypeOK'
  <2>1. sending[c] \in 1..Len(saved)
    BY <1>0, <1>6 DEF GroupSend, TypeOK
  <2>2. \A d \in Connections : queue'[d] \in Seq(1..Len(saved))
    <3>1. \A d \in Connections : queue[d] \in Seq(1..Len(saved))
      BY DEF TypeOK
    <3>2. \A d \in Connections : Append(queue[d], sending[c]) \in Seq(1..Len(saved))
      BY <2>1, <3>1, AppendProperties
    <3> QED
      BY <1>6, <3>1, <3>2 DEF GroupSend, Deliver
  <2>3. queue' \in [Connections -> Seq(1..Len(saved))]
    BY <1>6, <2>2 DEF GroupSend, Deliver
  <2>4. posted' \in [Rooms -> Seq(1..Len(saved))]
    <3>1. \A r \in Rooms : Append(posted[r], sending[c]) \in Seq(1..Len(saved))
      BY <2>1, AppendProperties DEF TypeOK
    <3> QED
      BY <1>6, <3>1 DEF GroupSend, TypeOK
  <2>5. lost' \in [Connections -> SUBSET (1..Len(saved))]
    BY <1>6, <2>1 DEF GroupSend, TypeOK
  <2>6. sending' \in [Connections -> 0..Len(saved)]
    BY <1>0, <1>6 DEF GroupSend, TypeOK
  <2> QED
    BY <1>6, <2>3, <2>4, <2>5, <2>6 DEF GroupSend, TypeOK
<1>7. ASSUME NEW c \in Connections, ChatMessage(c)
      PROVE  TypeOK'
  <2>1. queue[c] \in Seq(1..Len(saved)) /\ heard[c] \in Seq(1..Len(saved)) /\ queue[c] # <<>>
    BY <1>7 DEF ChatMessage, TypeOK
  <2>2. Tail(queue[c]) \in Seq(1..Len(saved)) /\ Head(queue[c]) \in 1..Len(saved)
    BY <2>1, HeadTailProperties
  <2>3. Append(heard[c], Head(queue[c])) \in Seq(1..Len(saved))
    BY <2>1, <2>2, AppendProperties
  <2> QED
    BY <1>7, <2>2, <2>3 DEF ChatMessage, TypeOK
<1>8. ASSUME NEW c \in Connections, Disconnect(c)
      PROVE  TypeOK'
  <2>1. sending' \in [Connections -> 0..Len(saved)] /\ loaded' \in [Connections -> 0..MaxMessages]
        /\ room' \in [Connections -> Rooms \cup {NoRoom}]
    BY <1>0, <1>8 DEF Disconnect, TypeOK
  <2>2. {sending[c]} \ {0} \subseteq 1..Len(saved)
    BY <1>0 DEF TypeOK
  <2>3. lost' \in [Connections -> SUBSET (1..Len(saved))]
    BY <1>8, <2>2 DEF Disconnect, TypeOK
  <2> QED
    BY <1>0, <1>8, <2>1, <2>3 DEF Disconnect, TypeOK
<1> QED
  BY <1>1, <1>2, <1>3, <1>4, <1>5, <1>6, <1>7, <1>8 DEF Next

-----------------------------------------------------------------------------
(* The inductive invariant. *)

\* Initially there is nothing to be out of order.
LEMMA InitIInv == Init => IInv
<1> SUFFICES ASSUME Init PROVE IInv
  OBVIOUS
<1>1. TypeOK
  BY InitTypeOK
<1>2. saved = <<>> /\ DOMAIN saved = {}
  BY DEF Init
<1>3. \A c \in Connections : sending[c] = 0 /\ Stream(c) = <<>> /\ heard[c] = <<>>
                             /\ queue[c] = <<>> /\ loaded[c] = MaxMessages
  BY ConcatEmptySeq, EmptySeq DEF Init, Stream
<1>4. ClosedIsEmpty /\ PendingIsLatest /\ PendingIsUnsent
  BY <1>3 DEF ClosedIsEmpty, PendingIsLatest, PendingIsUnsent
<1>5. HeardInOrder
  BY <1>3 DEF HeardInOrder
<1>6. NothingMissedOnceListed
  BY <1>2 DEF NothingMissedOnceListed, Awaits
<1> QED
  BY <1>1, <1>4, <1>5, <1>6 DEF IInv

\* A step that creates no message and puts none into a stream keeps the order.
LEMMA OrderKept ==
  ASSUME TypeOK, HeardInOrder,
         \A c \in Connections : Stream(c)' = Stream(c) \/ Stream(c)' = <<>>,
         \A m \in DOMAIN saved : saved'[m] = saved[m]
  PROVE  HeardInOrder'
<1> SUFFICES ASSUME NEW c \in Connections, NEW i \in DOMAIN Stream(c)', NEW j \in DOMAIN Stream(c)',
                    i < j, saved'[Stream(c)'[i]].via = saved'[Stream(c)'[j]].via
             PROVE  Stream(c)'[i] < Stream(c)'[j]
  BY DEF HeardInOrder
<1>1. Stream(c)' = Stream(c)
  <2>1. DOMAIN <<>> = {}
    BY EmptySeq
  <2> QED
    BY <2>1
<1>2. Stream(c)[i] \in DOMAIN saved /\ Stream(c)[j] \in DOMAIN saved
  BY <1>1, StreamType, LenProperties DEF TypeOK
<1> QED
  BY <1>1, <1>2 DEF HeardInOrder

\* A consumer that has a message to send is connected, and the message is its.
LEMMA PendingFacts ==
  ASSUME IInv, NEW c \in Connections, sending[c] # 0
  PROVE  /\ sending[c] \in DOMAIN saved /\ DOMAIN saved = 1..Len(saved) /\ Len(saved) \in Nat
         /\ room[c] \in Rooms
         /\ saved[sending[c]].room = room[c] /\ saved[sending[c]].via = c
<1>1. Len(saved) \in Nat /\ DOMAIN saved = 1..Len(saved)
  BY LenProperties DEF IInv, TypeOK
<1>2. sending[c] \in 1..Len(saved)
  BY <1>1 DEF IInv, TypeOK
<1>3. room[c] \in Rooms
  BY DEF IInv, TypeOK, ClosedIsEmpty
<1>4. saved[sending[c]] = [room |-> room[c], via |-> c]
  BY DEF IInv, PendingIsLatest
<1> QED
  BY <1>1, <1>2, <1>3, <1>4

\* send_message leaves the sockets' properties alone: nobody awaits its message.
LEMMA SendMessageIInv ==
  ASSUME IInv, NEW r \in Rooms, SendMessage(r)
  PROVE  IInv'
<1>1. TypeOK'
  BY NextTypeOK DEF IInv, Next
<1>2. /\ Len(saved) \in Nat /\ DOMAIN saved = 1..Len(saved)
      /\ DOMAIN saved' = 1..(Len(saved) + 1)
      /\ \A m \in DOMAIN saved : saved'[m] = saved[m]
      /\ saved'[Len(saved) + 1].via = Http
  <2>1. CreateMessage(r, Http) /\ Http \in Connections \cup {Http} /\ TypeOK
    BY DEF IInv, SendMessage
  <2>2. /\ Len(saved) \in Nat /\ DOMAIN saved = 1..Len(saved) /\ Len(saved') = Len(saved) + 1
        /\ DOMAIN saved' = 1..Len(saved')
        /\ \A m \in DOMAIN saved : saved'[m] = saved[m]
        /\ saved'[Len(saved')] = [room |-> r, via |-> Http]
    BY <2>1, CreateAppends
  <2> QED
    BY <2>2
<1>3. /\ \A d \in Connections : Stream(d)' = Stream(d)
      /\ room' = room /\ sending' = sending /\ queue' = queue /\ heard' = heard
      /\ loaded' = loaded /\ lost' = lost /\ posted' = posted
  BY DEF SendMessage, Stream
<1>4. ClosedIsEmpty'
  BY <1>3 DEF IInv, ClosedIsEmpty
<1>5. PendingIsLatest'
  <2> SUFFICES ASSUME NEW c \in Connections, sending[c] # 0
               PROVE  /\ saved'[sending[c]] = [room |-> room[c], via |-> c]
                      /\ \A m \in DOMAIN saved' : saved'[m].via = c => m <= sending[c]
    BY <1>3 DEF PendingIsLatest
  <2>1. sending[c] \in DOMAIN saved
    BY PendingFacts
  <2> QED
    BY <1>2, <2>1, ChatConsumerAssumption DEF IInv, PendingIsLatest
<1>6. PendingIsUnsent'
  BY <1>3 DEF IInv, PendingIsUnsent
<1>7. HeardInOrder'
  BY <1>2, <1>3, OrderKept DEF IInv
<1>8. NothingMissedOnceListed'
  <2> SUFFICES ASSUME NEW c \in Connections, NEW m \in Ids, Awaits(c, m)'
               PROVE  \/ \E i \in DOMAIN Stream(c) : Stream(c)[i] = m
                      \/ \E d \in Connections : sending[d] = m
    BY <1>3 DEF NothingMissedOnceListed, Ids
  <2>1. Awaits(c, m)
    BY <1>2, <1>3 DEF Awaits
  <2> QED
    BY <2>1 DEF IInv, NothingMissedOnceListed
<1> QED
  BY <1>1, <1>4, <1>5, <1>6, <1>7, <1>8 DEF IInv

\* receive, up to the end of save_message: the new message is the latest of its
\* consumer, and the consumer has it to send.
LEMMA ReceiveIInv ==
  ASSUME IInv, NEW c \in Connections, Receive(c)
  PROVE  IInv'
<1>1. TypeOK'
  BY NextTypeOK DEF IInv, Next
<1>0. room[c] \in Rooms /\ TypeOK
  BY DEF IInv, Receive, TypeOK
<1>2. /\ Len(saved) \in Nat /\ DOMAIN saved = 1..Len(saved)
      /\ DOMAIN saved' = 1..(Len(saved) + 1) /\ Len(saved') = Len(saved) + 1
      /\ \A m \in DOMAIN saved : saved'[m] = saved[m]
      /\ saved'[Len(saved) + 1] = [room |-> room[c], via |-> c]
  BY <1>0, CreateAppends DEF Receive
<1>3. /\ \A d \in Connections : Stream(d)' = Stream(d)
      /\ room' = room /\ queue' = queue /\ heard' = heard
      /\ loaded' = loaded /\ lost' = lost /\ posted' = posted
  BY DEF Receive, Stream
<1>3a. /\ sending[c] = 0 /\ room[c] # NoRoom
       /\ \A d \in Connections : sending'[d] = IF d = c THEN Len(saved) + 1 ELSE sending[d]
  <2>1. sending' = [sending EXCEPT ![c] = Len(saved) + 1]
    BY <1>2 DEF Receive
  <2> QED
    BY <1>0, <2>1 DEF Receive, TypeOK
<1>4. ClosedIsEmpty'
  BY <1>3, <1>3a DEF IInv, ClosedIsEmpty
<1>5. PendingIsLatest'
  <2> SUFFICES ASSUME NEW d \in Connections, sending'[d] # 0
               PROVE  /\ saved'[sending'[d]] = [room |-> room[d], via |-> d]
                      /\ \A m \in DOMAIN saved' : saved'[m].via = d => m <= sending'[d]
    BY <1>3 DEF PendingIsLatest
  <2>1. CASE d = c
    BY <1>2, <1>3a, <2>1
  <2>2. CASE d # c
    <3>1. sending[d] # 0 /\ sending'[d] = sending[d] /\ sending[d] \in DOMAIN saved
      BY <1>3a, <2>2, PendingFacts
    <3> QED
      BY <1>2, <2>2, <3>1 DEF IInv, PendingIsLatest
  <2> QED
    BY <2>1, <2>2
<1>6. PendingIsUnsent'
  <2> SUFFICES ASSUME NEW d \in Connections, sending'[d] # 0
               PROVE  /\ \A r \in Rooms : \A i \in DOMAIN posted[r] : posted[r][i] # sending'[d]
                      /\ \A e \in Connections : \A i \in DOMAIN Stream(e) :
                             Stream(e)[i] # sending'[d]
    BY <1>3 DEF PendingIsUnsent
  <2>1. CASE d = c
    <3>1. \A r \in Rooms : \A i \in DOMAIN posted[r] : posted[r][i] \in 1..Len(saved)
      <4>1. \A r \in Rooms : posted[r] \in Seq(1..Len(saved))
        BY <1>0 DEF TypeOK
      <4> QED
        BY <4>1, ElementOfSeq, LenProperties
    <3>2. \A e \in Connections : \A i \in DOMAIN Stream(e) : Stream(e)[i] \in 1..Len(saved)
      BY <1>0, StreamType
    <3> QED
      BY <1>2, <1>3a, <2>1, <3>1, <3>2
  <2>2. CASE d # c
    BY <1>3a, <2>2 DEF IInv, PendingIsUnsent
  <2> QED
    BY <2>1, <2>2
<1>7. HeardInOrder'
  BY <1>2, <1>3, OrderKept DEF IInv
<1>8. NothingMissedOnceListed'
  <2> SUFFICES ASSUME NEW d \in Connections, NEW m \in Ids, Awaits(d, m)'
               PROVE  \/ \E i \in DOMAIN Stream(d) : Stream(d)[i] = m
                      \/ \E e \in Connections : sending'[e] = m
    BY <1>3 DEF NothingMissedOnceListed, Ids
  <2>1. CASE m = Len(saved) + 1
    BY <1>3a, <2>1
  <2>2. CASE m # Len(saved) + 1
    <3>1. m \in DOMAIN saved /\ m # 0
      BY <1>2, <2>2 DEF Awaits
    <3>2. Awaits(d, m)
      BY <1>2, <1>3, <3>1 DEF Awaits
    <3> QED
      BY <1>3a, <3>1, <3>2 DEF IInv, NothingMissedOnceListed
  <2> QED
    BY <2>1, <2>2
<1> QED
  BY <1>1, <1>4, <1>5, <1>6, <1>7, <1>8 DEF IInv

\* group_send: what the message is, and what it does to the streams.
LEMMA GroupSendFacts ==
  ASSUME IInv, NEW c \in Connections, GroupSend(c), NEW d \in Connections
  PROVE  /\ Stream(d)' = IF d \in Group(room[c]) /\ HasSpace(d)
                         THEN Append(Stream(d), sending[c]) ELSE Stream(d)
         /\ lost'[d] = IF d \in Group(room[c]) /\ ~HasSpace(d)
                       THEN lost[d] \cup {sending[c]} ELSE lost[d]
         /\ sending'[d] = IF d = c THEN 0 ELSE sending[d]
         /\ sending[c] \in DOMAIN saved /\ sending[c] # 0
<1> DEFINE reached == {e \in Group(room[c]) : HasSpace(e)}
<1>1. Deliver(sending[c], reached) /\ heard' = heard /\ sending[c] # 0
  BY DEF GroupSend
<1>2. sending[c] \in 1..Len(saved) /\ sending[c] \in DOMAIN saved
  BY <1>1, PendingFacts
<1>3. heard[d] \in Seq(1..Len(saved)) /\ queue[d] \in Seq(1..Len(saved))
  BY DEF IInv, TypeOK
<1>4. Stream(d)' = IF d \in reached THEN Append(Stream(d), sending[c]) ELSE Stream(d)
  <2> HIDE DEF reached
  <2> QED
    BY <1>1, <1>2, <1>3, DeliverAppends
<1>5. sending'[d] = IF d = c THEN 0 ELSE sending[d]
  BY DEF GroupSend, IInv, TypeOK
<1>6. lost'[d] = IF d \in Group(room[c]) /\ ~HasSpace(d)
                 THEN lost[d] \cup {sending[c]} ELSE lost[d]
  BY DEF GroupSend
<1> QED
  BY <1>1, <1>2, <1>4, <1>5, <1>6

\* group_send keeps the order: what it appends is later than all that the same
\* consumer sent before.
LEMMA GroupSendOrder ==
  ASSUME IInv, NEW c \in Connections, GroupSend(c)
  PROVE  HeardInOrder'
<1> SUFFICES ASSUME NEW d \in Connections,
                    NEW i \in DOMAIN Stream(d)', NEW j \in DOMAIN Stream(d)', i < j,
                    saved[Stream(d)'[i]].via = saved[Stream(d)'[j]].via
             PROVE  Stream(d)'[i] < Stream(d)'[j]
  BY DEF HeardInOrder, GroupSend
<1> DEFINE s == Stream(d)
           m == sending[c]
<1>1. /\ s \in Seq(1..Len(saved)) /\ DOMAIN s = 1..Len(s) /\ Len(s) \in Nat
      /\ \A k \in DOMAIN s : s[k] \in 1..Len(saved)
  BY StreamType DEF IInv
<1>2. m \in 1..Len(saved) /\ m # 0 /\ saved[m].via = c /\ Len(saved) \in Nat
      /\ DOMAIN saved = 1..Len(saved)
  BY GroupSendFacts, PendingFacts
<1>3. \A k \in DOMAIN s : saved[s[k]].via = c => s[k] < m
  <2> SUFFICES ASSUME NEW k \in DOMAIN s, saved[s[k]].via = c
               PROVE  s[k] < m
    OBVIOUS
  <2>1. s[k] <= m
    BY <1>1, <1>2 DEF IInv, PendingIsLatest
  <2>2. s[k] # m
    BY <1>2 DEF IInv, PendingIsUnsent
  <2> QED
    BY <1>1, <1>2, <2>1, <2>2
<1>4. CASE Stream(d)' = s
  BY <1>4 DEF IInv, HeardInOrder
<1>5. CASE Stream(d)' = Append(s, m)
  <2>1. /\ DOMAIN Append(s, m) = 1..(Len(s) + 1)
        /\ Append(s, m)[Len(s) + 1] = m
        /\ \A k \in 1..Len(s) : Append(s, m)[k] = s[k]
    BY <1>1, <1>2, AppendProperties
  <2>2. i \in 1..Len(s)
    BY <1>1, <1>5, <2>1
  <2>3. CASE j = Len(s) + 1
    BY <1>1, <1>2, <1>3, <1>5, <2>1, <2>2, <2>3
  <2>4. CASE j # Len(s) + 1
    <3>1. j \in 1..Len(s)
      BY <1>1, <1>5, <2>1, <2>4
    <3> QED
      BY <1>1, <1>5, <2>1, <2>2, <3>1 DEF IInv, HeardInOrder
  <2> QED
    BY <2>3, <2>4
<1> QED
  BY <1>4, <1>5, GroupSendFacts

\* group_send keeps the invariant: whoever awaits the message gets it.
LEMMA GroupSendIInv ==
  ASSUME IInv, NEW c \in Connections, GroupSend(c)
  PROVE  IInv'
<1> DEFINE m == sending[c]
<1>1. TypeOK'
  BY NextTypeOK DEF IInv, Next
<1>2. room' = room /\ saved' = saved /\ heard' = heard /\ loaded' = loaded
  BY DEF GroupSend
<1>3. /\ m \in DOMAIN saved /\ m # 0 /\ saved[m].via = c /\ saved[m].room = room[c]
      /\ room[c] \in Rooms /\ DOMAIN saved = 1..Len(saved)
      /\ \A d \in Connections : sending'[d] = IF d = c THEN 0 ELSE sending[d]
  BY GroupSendFacts, PendingFacts
<1>4. ClosedIsEmpty'
  <2> SUFFICES ASSUME NEW d \in Connections, room[d] = NoRoom
               PROVE  /\ sending'[d] = 0 /\ queue'[d] = <<>> /\ heard[d] = <<>>
                      /\ loaded[d] = MaxMessages
    BY <1>2 DEF ClosedIsEmpty
  <2>1. d \notin Group(room[c])
    BY <1>3, ChatConsumerAssumption DEF Group
  <2>2. queue'[d] = queue[d]
    BY <2>1 DEF GroupSend, Deliver
  <2> QED
    BY <1>3, <2>2 DEF IInv, ClosedIsEmpty
<1>5. PendingIsLatest'
  BY <1>2, <1>3 DEF IInv, PendingIsLatest
<1>6. PendingIsUnsent'
  <2> SUFFICES ASSUME NEW d \in Connections, sending'[d] # 0
               PROVE  /\ \A r \in Rooms : \A i \in DOMAIN posted'[r] : posted'[r][i] # sending[d]
                      /\ \A e \in Connections : \A i \in DOMAIN Stream(e)' :
                             Stream(e)'[i] # sending[d]
    BY <1>3 DEF PendingIsUnsent
  <2>1. d # c /\ sending[d] # 0
    BY <1>3
  <2>2. sending[d] # m
    BY <1>3, <2>1, PendingFacts
  <2>3. ASSUME NEW r \in Rooms, NEW i \in DOMAIN posted'[r]
        PROVE  posted'[r][i] # sending[d]
    <3>1. posted[r] \in Seq(1..Len(saved)) /\ m \in 1..Len(saved)
      BY <1>3 DEF IInv, TypeOK
    <3>2. posted'[r] = posted[r] \/ posted'[r] = Append(posted[r], m)
      BY DEF GroupSend, IInv, TypeOK
    <3>3. \A k \in DOMAIN posted[r] : posted[r][k] # sending[d]
      BY <2>1 DEF IInv, PendingIsUnsent
    <3>4. /\ DOMAIN posted[r] = 1..Len(posted[r]) /\ Len(posted[r]) \in Nat
          /\ DOMAIN Append(posted[r], m) = 1..(Len(posted[r]) + 1)
          /\ Append(posted[r], m)[Len(posted[r]) + 1] = m
          /\ \A k \in 1..Len(posted[r]) : Append(posted[r], m)[k] = posted[r][k]
      BY <3>1, AppendProperties, LenProperties
    <3> QED
      BY <2>2, <2>3, <3>2, <3>3, <3>4
  <2>4. ASSUME NEW e \in Connections, NEW i \in DOMAIN Stream(e)'
        PROVE  Stream(e)'[i] # sending[d]
    <3>1. Stream(e) \in Seq(1..Len(saved)) /\ m \in 1..Len(saved)
      BY <1>3, StreamType DEF IInv
    <3>2. Stream(e)' = Stream(e) \/ Stream(e)' = Append(Stream(e), m)
      BY GroupSendFacts
    <3>3. \A k \in DOMAIN Stream(e) : Stream(e)[k] # sending[d]
      BY <2>1 DEF IInv, PendingIsUnsent
    <3> QED
      BY <2>2, <2>4, <3>1, <3>2, <3>3, AppendProperties, LenProperties
  <2> QED
    BY <2>3, <2>4
<1>7. HeardInOrder'
  BY GroupSendOrder
<1>8. NothingMissedOnceListed'
  <2> SUFFICES ASSUME NEW d \in Connections, NEW n \in Ids, Awaits(d, n)'
               PROVE  \/ \E i \in DOMAIN Stream(d)' : Stream(d)'[i] = n
                      \/ \E e \in Connections : sending'[e] = n
    BY DEF NothingMissedOnceListed, Ids
  <2>1. Awaits(d, n)
    BY <1>2, GroupSendFacts DEF Awaits
  <2>2. /\ Stream(d) \in Seq(1..Len(saved)) /\ Len(Stream(d)) \in Nat
        /\ DOMAIN Stream(d) = 1..Len(Stream(d)) /\ m \in 1..Len(saved)
    BY <1>3, StreamType DEF IInv
  <2>3. /\ DOMAIN Append(Stream(d), m) = 1..(Len(Stream(d)) + 1)
        /\ Append(Stream(d), m)[Len(Stream(d)) + 1] = m
        /\ \A k \in 1..Len(Stream(d)) : Append(Stream(d), m)[k] = Stream(d)[k]
    BY <2>2, AppendProperties
  <2>4. CASE n = m
    <3>1. d \in Group(room[c]) /\ HasSpace(d)
      <4>1. d \in Group(room[c])
        BY <1>3, <2>1, <2>4 DEF Awaits, Group
      <4>2. n \notin lost'[d]
        BY DEF Awaits
      <4> QED
        BY <2>4, <4>1, <4>2, GroupSendFacts
    <3>2. Stream(d)' = Append(Stream(d), m)
      BY <3>1, GroupSendFacts
    <3>3. Len(Stream(d)) + 1 \in DOMAIN Stream(d)'
      BY <2>2, <2>3, <3>2
    <3> QED
      BY <2>3, <2>4, <3>2, <3>3
  <2>5. CASE n # m
    <3>1. CASE \E e \in Connections : sending[e] = n
      BY <1>3, <2>5, <3>1
    <3>2. CASE \E i \in DOMAIN Stream(d) : Stream(d)[i] = n
      <4>1. PICK i \in DOMAIN Stream(d) : Stream(d)[i] = n
        BY <3>2
      <4>2. Stream(d)' = Stream(d) \/ Stream(d)' = Append(Stream(d), m)
        BY GroupSendFacts
      <4>3. i \in 1..(Len(Stream(d)) + 1)
        BY <2>2, <4>1
      <4>4. i \in DOMAIN Stream(d)' /\ Stream(d)'[i] = n
        BY <2>2, <2>3, <4>1, <4>2, <4>3
      <4> QED
        BY <4>4
    <3> QED
      BY <2>1, <3>1, <3>2 DEF IInv, NothingMissedOnceListed
  <2> QED
    BY <2>4, <2>5
<1> QED
  BY <1>1, <1>4, <1>5, <1>6, <1>7, <1>8 DEF IInv

\* Steps that change neither messages nor streams: the order and the pending
\* messages are what they were.
LEMMA QuietStep ==
  ASSUME IInv, TypeOK', saved' = saved, sending' = sending, posted' = posted, lost' = lost,
         \A d \in Connections : Stream(d)' = Stream(d),
         \A d \in Connections : sending[d] # 0 => room'[d] = room[d],
         ClosedIsEmpty',
         \A d \in Connections, m \in Ids : Awaits(d, m)' => Awaits(d, m)
  PROVE  IInv'
<1>1. PendingIsLatest'
  BY DEF IInv, PendingIsLatest
<1>2. PendingIsUnsent'
  BY DEF IInv, PendingIsUnsent
<1>3. HeardInOrder'
  BY OrderKept DEF IInv
<1>4. NothingMissedOnceListed'
  BY DEF IInv, NothingMissedOnceListed, Ids
<1> QED
  BY <1>1, <1>2, <1>3, <1>4 DEF IInv

\* connect: a client that has not listed the messages yet awaits none.
LEMMA ConnectIInv ==
  ASSUME IInv, NEW c \in Connections, NEW u \in Users, NEW r \in Rooms, Connect(c, u, r)
  PROVE  IInv'
<1>1. TypeOK'
  BY NextTypeOK DEF IInv, Next
<1>2. /\ \A d \in Connections : room'[d] = IF d = c THEN r ELSE room[d]
      /\ room[c] = NoRoom /\ loaded[c] = MaxMessages /\ sending[c] = 0
      /\ \A d \in Connections : Stream(d)' = Stream(d)
  BY DEF Connect, IInv, TypeOK, ClosedIsEmpty, Stream
<1>3. ClosedIsEmpty'
  BY <1>2, ChatConsumerAssumption DEF Connect, IInv, ClosedIsEmpty
<1>4. ASSUME NEW d \in Connections, NEW m \in Ids, Awaits(d, m)'
      PROVE  Awaits(d, m)
  <2>1. CASE d = c
    <3>1. m > MaxMessages
      BY <1>2, <1>4, <2>1 DEF Connect, Awaits
    <3> QED
      BY <3>1, ChatConsumerAssumption DEF Ids
  <2>2. CASE d # c
    BY <1>2, <1>4, <2>2 DEF Connect, Awaits
  <2> QED
    BY <2>1, <2>2
<1> QED
  BY <1>1, <1>2, <1>3, <1>4, QuietStep DEF Connect

\* get_messages: a client that has just listed the messages awaits none.
LEMMA GetMessagesIInv ==
  ASSUME IInv, NEW c \in Connections, GetMessages(c)
  PROVE  IInv'
<1>1. TypeOK'
  BY NextTypeOK DEF IInv, Next
<1>2. /\ \A d \in Connections : loaded'[d] = IF d = c THEN Len(saved) ELSE loaded[d]
      /\ \A d \in Connections : Stream(d)' = Stream(d)
  BY DEF GetMessages, IInv, TypeOK, Stream
<1>3. ClosedIsEmpty'
  BY <1>2 DEF GetMessages, IInv, ClosedIsEmpty
<1>4. ASSUME NEW d \in Connections, NEW m \in Ids, Awaits(d, m)'
      PROVE  Awaits(d, m)
  <2>1. CASE d = c
    <3>1. m \in 1..Len(saved) /\ m > Len(saved) /\ Len(saved) \in Nat
      BY <1>2, <1>4, <2>1, LenProperties DEF GetMessages, Awaits, IInv, TypeOK
    <3> QED
      BY <3>1
  <2>2. CASE d # c
    BY <1>2, <1>4, <2>2 DEF GetMessages, Awaits
  <2> QED
    BY <2>1, <2>2
<1> QED
  BY <1>1, <1>2, <1>3, <1>4, QuietStep DEF GetMessages

\* chat_message: what a client is told moves from its queue to itself.
LEMMA ChatMessageIInv ==
  ASSUME IInv, NEW c \in Connections, ChatMessage(c)
  PROVE  IInv'
<1>1. TypeOK'
  BY NextTypeOK DEF IInv, Next
<1>2. \A d \in Connections : Stream(d)' = Stream(d)
  BY ChatMessageKeepsStreams DEF IInv
<1>3. ClosedIsEmpty'
  BY DEF ChatMessage, IInv, TypeOK, ClosedIsEmpty
<1>4. \A d \in Connections, m \in Ids : Awaits(d, m)' => Awaits(d, m)
  BY DEF ChatMessage, Awaits
<1> QED
  BY <1>1, <1>2, <1>3, <1>4, QuietStep DEF ChatMessage

\* disconnect: what a consumer did not get to send is lost to its room.
LEMMA DisconnectIInv ==
  ASSUME IInv, NEW c \in Connections, Disconnect(c)
  PROVE  IInv'
<1>1. TypeOK'
  BY NextTypeOK DEF IInv, Next
<1>2. /\ saved' = saved /\ posted' = posted
      /\ \A d \in Connections :
             /\ room'[d] = IF d = c THEN NoRoom ELSE room[d]
             /\ sending'[d] = IF d = c THEN 0 ELSE sending[d]
             /\ queue'[d] = IF d = c THEN <<>> ELSE queue[d]
             /\ heard'[d] = IF d = c THEN <<>> ELSE heard[d]
             /\ loaded'[d] = IF d = c THEN MaxMessages ELSE loaded[d]
             /\ d # c => lost'[d] = IF room[d] = room[c]
                                    THEN lost[d] \cup ({sending[c]} \ {0}) ELSE lost[d]
  BY DEF Disconnect, IInv, TypeOK
<1>3. \A d \in Connections : Stream(d)' = IF d = c THEN <<>> ELSE Stream(d)
  <2>1. <<>> \o <<>> = <<>>
    BY EmptySeq, ConcatEmptySeq
  <2> QED
    BY <1>2, <2>1 DEF Stream
<1>4. ClosedIsEmpty'
  BY <1>2 DEF IInv, ClosedIsEmpty
<1>5. PendingIsLatest'
  BY <1>2 DEF IInv, PendingIsLatest
<1>6. PendingIsUnsent'
  <2> SUFFICES ASSUME NEW d \in Connections, sending'[d] # 0
               PROVE  /\ \A r \in Rooms : \A i \in DOMAIN posted[r] : posted[r][i] # sending'[d]
                      /\ \A e \in Connections : \A i \in DOMAIN Stream(e)' :
                             Stream(e)'[i] # sending'[d]
    BY <1>2 DEF PendingIsUnsent
  <2>1. sending'[d] = sending[d] /\ sending[d] # 0
    BY <1>2
  <2>2. ASSUME NEW e \in Connections, NEW i \in DOMAIN Stream(e)'
        PROVE  Stream(e)'[i] # sending[d]
    <3>1. DOMAIN <<>> = {}
      BY EmptySeq
    <3>2. Stream(e)' = Stream(e)
      BY <1>3, <2>2, <3>1
    <3> QED
      BY <2>1, <2>2, <3>2 DEF IInv, PendingIsUnsent
  <2> QED
    BY <2>1, <2>2 DEF IInv, PendingIsUnsent
<1>7. HeardInOrder'
  BY <1>2, <1>3, OrderKept DEF IInv
<1>8. NothingMissedOnceListed'
  <2> SUFFICES ASSUME NEW d \in Connections, NEW m \in Ids, Awaits(d, m)'
               PROVE  \/ \E i \in DOMAIN Stream(d)' : Stream(d)'[i] = m
                      \/ \E e \in Connections : sending'[e] = m
    BY DEF NothingMissedOnceListed, Ids
  <2>0. m # 0
    BY ChatConsumerAssumption DEF Ids
  <2>1. d # c
    <3>1. m \in DOMAIN saved /\ saved[m].room = room'[d]
      BY <1>2 DEF Awaits
    <3>2. saved[m].room \in Rooms
      <4>1. saved \in Seq([room: Rooms, via: Connections \cup {Http}]) /\ m \in 1..Len(saved)
        BY <3>1, LenProperties DEF IInv, TypeOK
      <4>2. saved[m] \in [room: Rooms, via: Connections \cup {Http}]
        BY <4>1, ElementOfSeq
      <4> QED
        BY <4>2
    <3> QED
      BY <1>2, <3>1, <3>2, ChatConsumerAssumption
  <2>2. Awaits(d, m)
    BY <1>2, <2>1 DEF Awaits
  <2>3. CASE sending[c] = m
    <3>1. room[d] = room[c]
      BY <2>0, <2>2, <2>3, PendingFacts DEF Awaits
    <3>2. m \in lost'[d]
      BY <1>2, <2>0, <2>1, <2>3, <3>1
    <3> QED
      BY <3>2 DEF Awaits
  <2>4. CASE sending[c] # m
    <3>1. \/ \E i \in DOMAIN Stream(d) : Stream(d)[i] = m
          \/ \E e \in Connections : sending[e] = m
      BY <2>2 DEF IInv, NothingMissedOnceListed
    <3>2. Stream(d)' = Stream(d)
      BY <1>3, <2>1
    <3>3. \A e \in Connections : sending[e] = m => sending'[e] = m
      BY <1>2, <2>4
    <3> QED
      BY <3>1, <3>2, <3>3
  <2> QED
    BY <2>3, <2>4
<1> QED
  BY <1>1, <1>4, <1>5, <1>6, <1>7, <1>8 DEF IInv

\* Every step keeps the invariant.
LEMMA NextIInv == IInv /\ [Next]_vars => IInv'
<1> SUFFICES ASSUME IInv, [Next]_vars PROVE IInv'
  OBVIOUS
<1>1. CASE UNCHANGED vars
  <2>1. /\ room' = room /\ saved' = saved /\ sending' = sending /\ queue' = queue
        /\ heard' = heard /\ loaded' = loaded /\ lost' = lost /\ posted' = posted
    BY <1>1 DEF vars
  <2>2. TypeOK' /\ ClosedIsEmpty'
    BY <2>1 DEF IInv, TypeOK, ClosedIsEmpty
  <2>3. \A d \in Connections : Stream(d)' = Stream(d)
    BY <2>1 DEF Stream
  <2>4. \A d \in Connections, m \in Ids : Awaits(d, m)' => Awaits(d, m)
    BY <2>1 DEF Awaits
  <2> QED
    BY <2>1, <2>2, <2>3, <2>4, QuietStep
<1> QED
  BY <1>1, SendMessageIInv, ConnectIInv, GetMessagesIInv, ReceiveIInv, GroupSendIInv,
     ChatMessageIInv, DisconnectIInv DEF Next

\* In every state of every behaviour the invariant holds, for any number of
\* connections, rooms and messages and any capacity of the channel layer.
THEOREM Invariance == Spec => []IInv
<1>1. Init => IInv
  BY InitIInv
<1>2. IInv /\ [Next]_vars => IInv'
  BY NextIInv
<1> QED
  BY <1>1, <1>2, PTL DEF Spec

\* The state has its type.
THEOREM TypeCorrect == Spec => []TypeOK
<1>1. IInv => TypeOK
  BY DEF IInv
<1> QED
  BY <1>1, Invariance, PTL

\* A connection hears what another one sends in the order in which it was
\* saved, each message once.
THEOREM OrderIsKept == Spec => []HeardInOrder
<1>1. IInv => HeardInOrder
  BY DEF IInv
<1> QED
  BY <1>1, Invariance, PTL

\* A client that listed the messages after it connected misses none that is
\* sent over a socket, unless its queue was full or the sender ended.
THEOREM NothingIsMissed == Spec => []NothingMissedOnceListed
<1>1. IInv => NothingMissedOnceListed
  BY DEF IInv
<1> QED
  BY <1>1, Invariance, PTL

-----------------------------------------------------------------------------
(* The consumers implement Transcript. *)

\* Before the first connection no room has a transcript.
LEMMA InitTranscript == Init => Channel!Init
<1> SUFFICES ASSUME Init PROVE Channel!Init
  OBVIOUS
<1>1. <<>> \o <<>> = <<>>
  BY EmptySeq, ConcatEmptySeq
<1>2. \A c \in Connections : Stream(c) = <<>>
  BY <1>1 DEF Init, Stream
<1> QED
  BY <1>2 DEF Init, Channel!Init

\* group_send posts the message, a new one, to the room: the streams it reaches
\* are of the room's members.
LEMMA GroupSendPosts ==
  ASSUME IInv, NEW c \in Connections, GroupSend(c)
  PROVE  Channel!Next
<1> DEFINE reached == {e \in Group(room[c]) : HasSpace(e)}
<1>1. sending[c] \in Ids /\ sending[c] # 0 /\ room[c] \in Rooms
  <2>1. sending[c] # 0 /\ Len(saved) <= MaxMessages
    BY DEF GroupSend, IInv, TypeOK
  <2> QED
    BY <2>1, PendingFacts, ChatConsumerAssumption DEF Ids
<1>2. \A s \in Rooms : \A i \in DOMAIN posted[s] : posted[s][i] # sending[c]
  BY <1>1 DEF IInv, PendingIsUnsent
<1>3. reached \subseteq Channel!Members(room[c]) /\ reached \in SUBSET Connections
  BY DEF Group, Channel!Members
<1>4. posted' = [posted EXCEPT ![room[c]] = Append(@, sending[c])] /\ room' = room
  BY DEF GroupSend
<1>5. \A d \in Connections :
          Stream(d)' = IF d \in reached THEN Append(Stream(d), sending[c]) ELSE Stream(d)
  BY GroupSendFacts
<1>6. [d \in Connections |-> Stream(d)']
        = [d \in Connections |-> IF d \in reached
                                 THEN Append([e \in Connections |-> Stream(e)][d], sending[c])
                                 ELSE [e \in Connections |-> Stream(e)][d]]
  BY <1>5
<1>7. Channel!Post(room[c], sending[c], reached)
  BY <1>2, <1>3, <1>4, <1>6 DEF Channel!Post
<1> QED
  BY <1>1, <1>3, <1>7 DEF Channel!Next

\* A connection that ends leaves its room and forgets what it was told.
LEMMA DisconnectLeaves ==
  ASSUME IInv, NEW c \in Connections, Disconnect(c)
  PROVE  Channel!Next
<1>1. \A d \in Connections : Stream(d)' = IF d = c THEN <<>> ELSE Stream(d)
  <2>1. <<>> \o <<>> = <<>>
    BY EmptySeq, ConcatEmptySeq
  <2>2. \A d \in Connections : /\ queue'[d] = IF d = c THEN <<>> ELSE queue[d]
                               /\ heard'[d] = IF d = c THEN <<>> ELSE heard[d]
    BY DEF Disconnect, IInv, TypeOK
  <2> QED
    BY <2>1, <2>2 DEF Stream
<1>2. [d \in Connections |-> Stream(d)']
        = [[d \in Connections |-> Stream(d)] EXCEPT ![c] = <<>>]
  BY <1>1
<1>3. Channel!Leave(c)
  BY <1>2 DEF Disconnect, Channel!Leave
<1> QED
  BY <1>3 DEF Channel!Next

\* Every step of the consumers is a step of Transcript or changes nothing of it.
LEMMA NextTranscript ==
  ASSUME IInv, [Next]_vars
  PROVE  [Channel!Next]_Channel!vars
<1>1. ASSUME room' = room, posted' = posted, \A d \in Connections : Stream(d)' = Stream(d)
      PROVE  UNCHANGED Channel!vars
  <2>1. [d \in Connections |-> Stream(d)'] = [d \in Connections |-> Stream(d)]
    BY <1>1
  <2> QED
    BY <1>1, <2>1 DEF Channel!vars
<1>2. CASE UNCHANGED vars
  BY <1>1, <1>2 DEF vars, Stream
<1>3. ASSUME NEW r \in Rooms, SendMessage(r)
      PROVE  UNCHANGED Channel!vars
  BY <1>1, <1>3 DEF SendMessage, Stream
<1>4. ASSUME NEW c \in Connections, GetMessages(c) \/ Receive(c)
      PROVE  UNCHANGED Channel!vars
  BY <1>1, <1>4 DEF GetMessages, Receive, Stream
<1>5. ASSUME NEW c \in Connections, ChatMessage(c)
      PROVE  UNCHANGED Channel!vars
  BY <1>1, <1>5, ChatMessageKeepsStreams DEF ChatMessage, IInv
<1>6. ASSUME NEW c \in Connections, NEW u \in Users, NEW r \in Rooms, Connect(c, u, r)
      PROVE  Channel!Next
  <2>1. [d \in Connections |-> Stream(d)'] = [d \in Connections |-> Stream(d)]
    BY <1>6 DEF Connect, Stream
  <2>2. Channel!Enter(c, r)
    BY <1>6, <2>1 DEF Connect, Channel!Enter
  <2> QED
    BY <2>2 DEF Channel!Next
<1> QED
  BY <1>2, <1>3, <1>4, <1>5, <1>6, GroupSendPosts, DisconnectLeaves DEF Next

\* All connections to a room hear its messages in one order, however saving,
\* sending and passing on interleave and whatever is lost.
THEOREM Implementation == Spec => TranscriptSpec
<1>1. Init => Channel!Init
  BY InitTranscript
<1>2. IInv /\ [Next]_vars => [Channel!Next]_Channel!vars
  BY NextTranscript
<1> QED
  BY <1>1, <1>2, Invariance, PTL DEF Spec, TranscriptSpec, Channel!Spec
=============================================================================
