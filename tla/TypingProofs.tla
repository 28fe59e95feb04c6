---------------------------- MODULE TypingProofs ----------------------------
(***************************************************************************)
(* Proofs of the safety properties of Typing: the invariant IInv is        *)
(* inductive, and it implies them.  Each step changes either the           *)
(* dictionary that is in place or one that somebody still holds, so the    *)
(* proof is about which objects are in use (Unused really is unused, as    *)
(* there are more objects than threads) and what becomes of their entries. *)
(***************************************************************************)
EXTENDS Typing, FiniteSetTheorems, TLAPS

Places == Objects \cup {NoObject}

-----------------------------------------------------------------------------
(* The records of the requests, the entries, and the ages. *)

\* What a request of each kind carries.
LEMMA RequestKinds ==
    \A r \in Request \cup {Idle} :
        /\ r.op \in {"idle", "type", "stop", "poll", "clean"}
        /\ r.op = "type" => r \in [op: {"type"}, user: Users, copy: [Users -> Ages],
                                   overtaken: BOOLEAN]
        /\ r.op = "stop" => r \in [op: {"stop"}, user: Users, object: Places,
                                   overtaken: BOOLEAN]
        /\ r.op = "poll" => r \in [op: {"poll"}, object: Places]
        /\ r.op = "clean" => r \in [op: {"clean"}, object: Places, expired: SUBSET Users,
                                    overtaken: BOOLEAN]
BY DEF Request, Idle, Places

\* Every place has entries, NoObject those of an empty dictionary.
LEMMA EntriesType ==
    ASSUME TypeOK, NEW o \in Places
    PROVE  Entries(o) \in [Users -> Ages]
BY TypingAssumption DEF TypeOK, Entries, Nobody, Ages, Gone, Places

\* An age that is too old stays too old as time passes, and no other becomes Gone.
LEMMA AgedFacts ==
    \A a \in Ages : /\ Aged(a) \in Ages
                    /\ a > Limit => Aged(a) = a
                    /\ Aged(a) # Gone <=> a # Gone
                    /\ Aged(a) >= a
BY TypingAssumption DEF Aged, Ages, Gone

\* Ages that agree still do when both grow.
LEMMA AgedAgree ==
    \A a, b \in Ages : Agree(a, b) => Agree(Aged(a), Aged(b))
BY TypingAssumption DEF Aged, Ages, Gone, Agree

-----------------------------------------------------------------------------
(* Which objects are in use. *)

\* A place that a request holds is in use, and so is the one in place.
LEMMA HeldInUse ==
    /\ current \in InUse
    /\ \A w \in Workers :
           request[w].op \in {"stop", "poll", "clean"} => request[w].object \in InUse
BY DEF InUse

\* A thread in the middle of a typing call holds no object, so that fewer
\* objects are in use than there are.
LEMMA UnusedExists ==
    ASSUME TypeOK, NEW w \in Workers, request[w].op = "type"
    PROVE  Unused \in Objects /\ Unused \notin InUse
<1> DEFINE H == {v \in Workers : request[v].op \in {"stop", "poll", "clean"}}
           T == {request[v].object : v \in H}
           f == [v \in H |-> request[v].object]
<1>1. H \in SUBSET (Workers \ {w})
  OBVIOUS
<1>2. /\ IsFiniteSet(Workers \ {w})
      /\ Cardinality(Workers \ {w}) = Cardinality(Workers) - 1
  BY FS_RemoveElement, TypingAssumption
<1>3. IsFiniteSet(H) /\ Cardinality(H) <= Cardinality(Workers) - 1
  BY <1>1, <1>2, FS_Subset
<1>4. f \in Surjection(H, T)
  BY DEF Surjection
<1>5. IsFiniteSet(T) /\ Cardinality(T) <= Cardinality(H)
  BY <1>3, <1>4, FS_Surjection
<1>6. InUse = T \cup {current}
  BY DEF InUse
<1>7. /\ IsFiniteSet(InUse)
      /\ Cardinality(InUse) <= Cardinality(T) + 1
  <2>1. Cardinality(T) \in Nat
    BY <1>5, FS_CardinalityType
  <2> HIDE DEF T
  <2> QED BY <1>5, <1>6, <2>1, FS_AddElement
<1>8. Cardinality(InUse) < Cardinality(Objects)
  <2>1. /\ Cardinality(InUse) \in Nat /\ Cardinality(T) \in Nat /\ Cardinality(H) \in Nat
        /\ Cardinality(Workers) \in Nat /\ Cardinality(Objects) \in Nat
    BY <1>3, <1>5, <1>7, FS_CardinalityType, TypingAssumption
  <2> HIDE DEF T, H
  <2> QED BY <1>3, <1>5, <1>7, <2>1, TypingAssumption
<1>9. \E o \in Objects : o \notin InUse
  <2> SUFFICES ASSUME Objects \in SUBSET InUse PROVE FALSE
    OBVIOUS
  <2>1. Cardinality(Objects) <= Cardinality(InUse)
    BY <1>7, FS_Subset
  <2> QED BY <1>7, <1>8, <2>1, FS_CardinalityType, TypingAssumption
<1> QED BY <1>9 DEF Unused

\* What is kept: the contents of the objects that are still in use.
LEMMA Kept ==
    ASSUME NEW contents \in [Objects -> [Users -> Ages]], Keep(contents)
    PROVE  /\ objects' \in [Objects -> [Users -> Ages]]
           /\ \A o \in InUse' \cap Objects : objects'[o] = contents[o]
BY TypingAssumption DEF Keep, Nobody, Ages, Gone

-----------------------------------------------------------------------------
(* How requests are overtaken. *)

\* The thread goes on with r; the others keep what they carry.
LEMMA Overtaken ==
    ASSUME TypeOK, NEW w \in Workers, NEW r \in Request \cup {Idle},
           NEW kinds \in SUBSET {"type", "stop", "clean"}, Overtake(w, r, kinds)
    PROVE  /\ request' \in [Workers -> Request \cup {Idle}]
           /\ request'[w] = r
           /\ \A v \in Workers \ {w} :
                 /\ request'[v].op = request[v].op
                 /\ request[v].op \in kinds => request'[v].overtaken = TRUE
                 /\ request[v].op \notin kinds => request'[v] = request[v]
                 /\ request[v].op = "type" => /\ request'[v].user = request[v].user
                                              /\ request'[v].copy = request[v].copy
                 /\ request[v].op \in {"stop", "poll", "clean"} =>
                        request'[v].object = request[v].object
                 /\ request[v].op = "clean" => request'[v].expired = request[v].expired
<1>1. ASSUME NEW v \in Workers \ {w}, request[v].op \in kinds
      PROVE  /\ request'[v] \in Request
             /\ request'[v].op = request[v].op
             /\ request'[v].overtaken = TRUE
             /\ request[v].op = "type" => /\ request'[v].user = request[v].user
                                          /\ request'[v].copy = request[v].copy
             /\ request[v].op \in {"stop", "clean"} => request'[v].object = request[v].object
             /\ request[v].op = "clean" => request'[v].expired = request[v].expired
  <2>1. request'[v] = [request[v] EXCEPT !.overtaken = TRUE]
    BY <1>1 DEF Overtake
  <2>2. request[v] \in Request \cup {Idle}
    BY DEF TypeOK
  <2>3. CASE request[v].op = "type"
    <3>1. request[v] \in [op: {"type"}, user: Users, copy: [Users -> Ages], overtaken: BOOLEAN]
      BY <2>2, <2>3, RequestKinds
    <3> QED BY <2>1, <3>1 DEF Request
  <2>4. CASE request[v].op = "stop"
    <3>1. request[v] \in [op: {"stop"}, user: Users, object: Places, overtaken: BOOLEAN]
      BY <2>2, <2>4, RequestKinds
    <3> QED BY <2>1, <3>1 DEF Request, Places
  <2>5. CASE request[v].op = "clean"
    <3>1. request[v] \in [op: {"clean"}, object: Places, expired: SUBSET Users,
                          overtaken: BOOLEAN]
      BY <2>2, <2>5, RequestKinds
    <3> QED BY <2>1, <3>1 DEF Request, Places
  <2> QED BY <1>1, <2>3, <2>4, <2>5
<1>2. ASSUME NEW v \in Workers \ {w}, request[v].op \notin kinds
      PROVE  request'[v] = request[v]
  BY <1>2 DEF Overtake
<1>3. request'[w] = r
  BY DEF Overtake
<1>4. request' \in [Workers -> Request \cup {Idle}]
  <2>1. \A v \in Workers : request'[v] \in Request \cup {Idle}
    BY <1>1, <1>2, <1>3 DEF TypeOK
  <2> QED BY <2>1 DEF Overtake
<1> QED BY <1>1, <1>2, <1>3, <1>4

-----------------------------------------------------------------------------
(* Every step preserves the invariant. *)

\* The two conjuncts about the polls after a step, object by object.
LEMMA PollsNext ==
    ASSUME TypeOK',
           \A v \in Workers, o \in Places, x \in Users :
               /\ request'[v].op = "clean" /\ request'[v].object = o
               /\ x \in request'[v].expired
               => /\ Entries(o)'[x] > Limit
                  /\ ~request'[v].overtaken => Entries(o)'[x] # Gone
    PROVE  ExpiredStayOld' /\ PollsFailOnlyRaced'
<1>1. ASSUME NEW v \in Workers, request'[v].op = "clean"
      PROVE  request'[v].object \in Places /\ request'[v].expired \in SUBSET Users
  BY <1>1, RequestKinds DEF TypeOK
<1>2. ExpiredStayOld'
  BY <1>1 DEF ExpiredStayOld, Entries
<1>3. PollsFailOnlyRaced'
  BY <1>1 DEF PollsFailOnlyRaced, Keys, Entries
<1> QED BY <1>2, <1>3

\* The same two before it.
LEMMA PollsNow ==
    ASSUME TypeOK, ExpiredStayOld, PollsFailOnlyRaced
    PROVE  \A v \in Workers, o \in Places, x \in Users :
               /\ request[v].op = "clean" /\ request[v].object = o
               /\ x \in request[v].expired
               => /\ Entries(o)[x] > Limit
                  /\ ~request[v].overtaken => Entries(o)[x] # Gone
BY DEF ExpiredStayOld, PollsFailOnlyRaced, Keys

\* A request is begun with what is in place at the moment.
LEMMA BeginStep ==
    ASSUME IInv, NEW w \in Workers, NEW r \in Request, Start(w, r),
           UNCHANGED <<current, objects, said, disturbed>>,
           r.op = "type" => r.copy = Entries(current),
           r.op = "stop" => r.object = current,
           r.op # "clean"
    PROVE  IInv'
<1>1. /\ TypeOK /\ EntriesAgree /\ CopiesAgree /\ StopsReachCurrent /\ ExpiredStayOld
      /\ PollsFailOnlyRaced
  BY DEF IInv
<1>2. \A o : Entries(o)' = Entries(o)
  BY DEF Entries
<1>3. /\ request'[w] = r
      /\ \A v \in Workers \ {w} : request'[v] = request[v]
  BY <1>1 DEF Start, TypeOK
<1>4. TypeOK'
  BY <1>1 DEF TypeOK, Start
<1>5. EntriesAgree'
  BY <1>1, <1>2 DEF EntriesAgree
<1>6. CopiesAgree'
  BY <1>1, <1>3 DEF CopiesAgree, EntriesAgree
<1>7. StopsReachCurrent'
  BY <1>1, <1>3 DEF StopsReachCurrent
<1>8. ExpiredStayOld'
  BY <1>1, <1>2, <1>3 DEF ExpiredStayOld
<1>9. PollsFailOnlyRaced'
  BY <1>1, <1>2, <1>3 DEF PollsFailOnlyRaced, Keys
<1> QED BY <1>4, <1>5, <1>6, <1>7, <1>8, <1>9 DEF IInv

\* A new dictionary is put in place: what it holds of the others is what they
\* said if nothing overtook the call.
LEMMA StoreStep ==
    ASSUME IInv, NEW w \in Workers, Store(w)
    PROVE  IInv'
<1> DEFINE u == request[w].user
           new == [request[w].copy EXCEPT ![u] = 0]
<1>1. /\ TypeOK /\ EntriesAgree /\ CopiesAgree /\ StopsReachCurrent /\ ExpiredStayOld
      /\ PollsFailOnlyRaced
  BY DEF IInv
<1>2. /\ request[w] \in [op: {"type"}, user: Users, copy: [Users -> Ages],
                         overtaken: BOOLEAN]
      /\ request[w].op = "type"
  BY <1>1, RequestKinds DEF Store, TypeOK
<1>3. u \in Users /\ new \in [Users -> Ages] /\ 0 \in Ages
  BY <1>2, TypingAssumption DEF Ages, Gone
<1>4. Unused \in Objects /\ Unused \notin InUse
  BY <1>1, <1>2, UnusedExists
<1>5. /\ current' = Unused
      /\ Overtake(w, Idle, {"type", "stop"})
      /\ Keep([objects EXCEPT ![Unused] = new])
      /\ said' = [said EXCEPT ![u] = 0]
      /\ disturbed' = (disturbed \cup IF request[w].overtaken THEN Users ELSE {}) \ {u}
  BY DEF Store
<1>6. [objects EXCEPT ![Unused] = new] \in [Objects -> [Users -> Ages]]
  BY <1>1, <1>3, <1>4 DEF TypeOK
<1>7. /\ objects' \in [Objects -> [Users -> Ages]]
      /\ \A o \in InUse' \cap Objects : objects'[o] = [objects EXCEPT ![Unused] = new][o]
  BY <1>5, <1>6, Kept
<1>8. Entries(current)' = new
  <2>1. current' \in InUse'
    BY DEF InUse
  <2> QED BY <2>1, <1>1, <1>4, <1>5, <1>7, TypingAssumption DEF Entries, TypeOK
<1>9. /\ request' \in [Workers -> Request \cup {Idle}]
      /\ request'[w] = Idle
      /\ \A v \in Workers \ {w} :
             /\ request'[v].op = request[v].op
             /\ request[v].op \in {"type", "stop"} => request'[v].overtaken = TRUE
             /\ request[v].op \notin {"type", "stop"} => request'[v] = request[v]
  <2>1. Idle \in Request \cup {Idle} /\ {"type", "stop"} \in SUBSET {"type", "stop", "clean"}
    OBVIOUS
  <2> QED BY <1>1, <1>5, <2>1, Overtaken
<1>11. TypeOK'
  <2>1. said' \in [Users -> Ages]
    BY <1>1, <1>3, <1>5 DEF TypeOK
  <2>2. disturbed' \subseteq Users
    BY <1>1, <1>5 DEF TypeOK
  <2> QED BY <1>4, <1>5, <1>7, <1>9, <2>1, <2>2 DEF TypeOK
<1>12. EntriesAgree'
  <2> SUFFICES ASSUME NEW x \in Users, x \notin disturbed'
               PROVE  Agree(new[x], said'[x])
    BY <1>8 DEF EntriesAgree, Agree
  <2>1. CASE x = u
    BY <2>1, <1>1, <1>2, <1>3, <1>5 DEF Agree, TypeOK
  <2>2. CASE x # u
    <3>1. x \notin disturbed /\ request[w].overtaken = FALSE
      BY <2>2, <1>2, <1>5
    <3>2. Agree(request[w].copy[x], said[x])
      BY <3>1, <1>1, <1>2 DEF CopiesAgree
    <3>3. new[x] = request[w].copy[x] /\ said'[x] = said[x]
      BY <2>2, <1>1, <1>2, <1>5 DEF TypeOK
    <3> QED BY <3>2, <3>3
  <2> QED BY <2>1, <2>2
<1>13. CopiesAgree'
  BY <1>9 DEF CopiesAgree, Idle
<1>14. StopsReachCurrent'
  BY <1>9 DEF StopsReachCurrent, Idle
<1>15. ASSUME NEW v \in Workers, NEW o \in Places, NEW x \in Users,
              request'[v].op = "clean", request'[v].object = o, x \in request'[v].expired
       PROVE  /\ Entries(o)'[x] > Limit
              /\ ~request'[v].overtaken => Entries(o)'[x] # Gone
  <2>1. v # w /\ request[v].op = "clean" /\ request'[v] = request[v]
    BY <1>9, <1>15 DEF Idle
  <2>2. o \in InUse /\ o \in InUse'
    BY <1>15, <2>1 DEF InUse
  <2>3. Entries(o)' = Entries(o)
    BY <2>2, <1>1, <1>4, <1>7, <1>15 DEF Entries, Places, TypeOK
  <2> QED BY <1>1, <1>15, <2>1, <2>3, PollsNow
<1>16. ExpiredStayOld' /\ PollsFailOnlyRaced'
  BY <1>11, <1>15, PollsNext
<1> QED BY <1>11, <1>12, <1>13, <1>14, <1>16 DEF IInv

\* A stop that was not overtaken takes the entry out of the dictionary in
\* place; one that was makes its user disturbed.
LEMMA PopStep ==
    ASSUME IInv, NEW w \in Workers, Pop(w)
    PROVE  IInv'
<1> DEFINE u == request[w].user
           d == request[w].object
           contents == [o \in Objects |-> IF o = d THEN [objects[o] EXCEPT ![u] = Gone]
                                                   ELSE objects[o]]
<1>1. /\ TypeOK /\ EntriesAgree /\ CopiesAgree /\ StopsReachCurrent /\ ExpiredStayOld
      /\ PollsFailOnlyRaced
  BY DEF IInv
<1>2. /\ request[w] \in [op: {"stop"}, user: Users, object: Places, overtaken: BOOLEAN]
      /\ request[w].op = "stop"
  BY <1>1, RequestKinds DEF Pop, TypeOK
<1>3. u \in Users /\ d \in Places /\ Gone \in Ages /\ Gone > Limit
  BY <1>2, TypingAssumption DEF Ages, Gone
<1>4. /\ UNCHANGED current
      /\ Overtake(w, Idle, {"type", "clean"})
      /\ Keep(contents)
      /\ said' = [said EXCEPT ![u] = Gone]
      /\ disturbed' = IF request[w].overtaken THEN disturbed \cup {u} ELSE disturbed \ {u}
  BY DEF Pop
<1>5. contents \in [Objects -> [Users -> Ages]]
  BY <1>1, <1>3 DEF TypeOK
<1>6. /\ objects' \in [Objects -> [Users -> Ages]]
      /\ \A o \in InUse' \cap Objects : objects'[o] = contents[o]
  <2> HIDE DEF contents
  <2> QED BY <1>4, <1>5, Kept
\* An entry is still there, as it was, or gone.
<1>7. ASSUME NEW o \in InUse', o \in Places, NEW x \in Users
      PROVE  /\ o # d \/ x # u => Entries(o)'[x] = Entries(o)[x]
             /\ o = d /\ x = u => Entries(o)'[x] = Gone
  <2>1. CASE o = NoObject
    BY <2>1, <1>3 DEF Entries, Nobody
  <2>2. CASE o \in Objects
    <3>1. o # NoObject
      BY <2>2, TypingAssumption
    <3>2. Entries(o)' = contents[o] /\ Entries(o) = objects[o]
      BY <2>2, <3>1, <1>6, <1>7 DEF Entries
    <3>3. objects[o] \in [Users -> Ages]
      BY <1>1, <2>2 DEF TypeOK
    <3> QED BY <2>2, <3>2, <3>3
  <2> QED BY <1>7, <2>1, <2>2 DEF Places
<1>8. /\ request' \in [Workers -> Request \cup {Idle}]
      /\ request'[w] = Idle
      /\ \A v \in Workers \ {w} :
             /\ request'[v].op = request[v].op
             /\ request[v].op \in {"type", "clean"} => request'[v].overtaken = TRUE
             /\ request[v].op \notin {"type", "clean"} => request'[v] = request[v]
             /\ request[v].op = "clean" => /\ request'[v].object = request[v].object
                                           /\ request'[v].expired = request[v].expired
  <2>1. Idle \in Request \cup {Idle} /\ {"type", "clean"} \in SUBSET {"type", "stop", "clean"}
    OBVIOUS
  <2>2. Overtake(w, Idle, {"type", "clean"})
    BY <1>4
  <2>3. /\ request' \in [Workers -> Request \cup {Idle}]
        /\ request'[w] = Idle
        /\ \A v \in Workers \ {w} :
               /\ request'[v].op = request[v].op
               /\ request[v].op \in {"type", "clean"} => request'[v].overtaken = TRUE
               /\ request[v].op \notin {"type", "clean"} => request'[v] = request[v]
    BY <1>1, <2>1, <2>2, Overtaken
  <2>4. \A v \in Workers \ {w} :
            request[v].op = "clean" => request'[v].object = request[v].object
    BY <1>1, <2>1, <2>2, Overtaken
  <2>5. \A v \in Workers \ {w} :
            request[v].op = "clean" => request'[v].expired = request[v].expired
    BY <1>1, <2>1, <2>2, Overtaken
  <2> QED BY <2>3, <2>4, <2>5
<1>9. TypeOK'
  <2>1. said' \in [Users -> Ages]
    BY <1>1, <1>3, <1>4 DEF TypeOK
  <2>2. disturbed' \subseteq Users
    BY <1>1, <1>3, <1>4 DEF TypeOK
  <2> QED BY <1>1, <1>4, <1>6, <1>8, <2>1, <2>2 DEF TypeOK
<1>10. EntriesAgree'
  <2> SUFFICES ASSUME NEW x \in Users, x \notin disturbed'
               PROVE  Agree(Entries(current)'[x], said'[x])
    BY DEF EntriesAgree, Agree
  <2>1. current \in InUse' /\ current \in Places
    BY <1>1, <1>4 DEF InUse, TypeOK, Places
  <2>2. CASE x = u
    <3>1. d = current
      BY <2>2, <1>1, <1>2, <1>4 DEF StopsReachCurrent
    <3>2. Entries(current)'[x] = Gone
      BY <2>1, <2>2, <3>1, <1>4, <1>7
    <3>3. said'[x] = Gone
      BY <2>2, <1>1, <1>4 DEF TypeOK
    <3> QED BY <3>2, <3>3 DEF Agree
  <2>3. CASE x # u
    <3>1. Entries(current)'[x] = Entries(current)[x]
      BY <2>1, <2>3, <1>4, <1>7
    <3>2. said'[x] = said[x] /\ x \notin disturbed
      BY <2>3, <1>1, <1>4 DEF TypeOK
    <3> QED BY <3>1, <3>2, <1>1 DEF EntriesAgree
  <2> QED BY <2>2, <2>3
<1>11. CopiesAgree'
  BY <1>8 DEF CopiesAgree, Idle
<1>12. StopsReachCurrent'
  BY <1>1, <1>4, <1>8 DEF StopsReachCurrent, Idle
<1>13. ASSUME NEW v \in Workers, NEW o \in Places, NEW x \in Users,
              request'[v].op = "clean", request'[v].object = o, x \in request'[v].expired
       PROVE  /\ Entries(o)'[x] > Limit
              /\ request'[v].overtaken = TRUE
  <2>1. v # w /\ request[v].op = "clean"
    BY <1>8, <1>13 DEF Idle
  <2>2. request[v].object = o /\ x \in request[v].expired /\ request'[v].overtaken = TRUE
    BY <1>8, <1>13, <2>1
  <2>3. o \in InUse'
    BY <1>13 DEF InUse
  <2>4. Entries(o)[x] > Limit
    BY <1>1, <1>13, <2>1, <2>2, PollsNow
  <2>5. Entries(o)'[x] = Entries(o)[x] \/ Entries(o)'[x] = Gone
    BY <1>7, <1>13, <2>3
  <2> QED BY <2>2, <2>4, <2>5, <1>3
<1>14. ExpiredStayOld' /\ PollsFailOnlyRaced'
  BY <1>9, <1>13, PollsNext
<1> QED BY <1>9, <1>10, <1>11, <1>12, <1>14 DEF IInv

\* A poll looks at the clock: what it finds expired is there, and too old.
LEMMA ScanStep ==
    ASSUME IInv, NEW w \in Workers, Scan(w)
    PROVE  IInv'
<1> DEFINE o == request[w].object
           r == [op |-> "clean", object |-> o, overtaken |-> FALSE,
                 expired |-> {u \in Users : Entries(o)[u] = Expired}]
<1>1. /\ TypeOK /\ EntriesAgree /\ CopiesAgree /\ StopsReachCurrent /\ ExpiredStayOld
      /\ PollsFailOnlyRaced
  BY DEF IInv
<1>2. o \in Places
  BY <1>1, RequestKinds DEF Scan, TypeOK
<1>3. r \in Request
  BY <1>2 DEF Request, Places
<1>4. /\ request' = [request EXCEPT ![w] = r]
      /\ UNCHANGED <<current, objects, said, disturbed>>
  BY DEF Scan
<1>5. /\ request'[w] = r
      /\ \A v \in Workers \ {w} : request'[v] = request[v]
  BY <1>1, <1>4 DEF TypeOK
<1>6. \A p : Entries(p)' = Entries(p)
  BY <1>4 DEF Entries
<1>7. TypeOK'
  <2> HIDE DEF r
  <2> QED BY <1>1, <1>3, <1>4 DEF TypeOK
<1>8. EntriesAgree'
  BY <1>1, <1>4, <1>6 DEF EntriesAgree
<1>9. CopiesAgree' /\ StopsReachCurrent'
  BY <1>1, <1>4, <1>5 DEF CopiesAgree, StopsReachCurrent
<1>10. ASSUME NEW v \in Workers, NEW p \in Places, NEW x \in Users,
              request'[v].op = "clean", request'[v].object = p, x \in request'[v].expired
       PROVE  /\ Entries(p)'[x] > Limit
              /\ ~request'[v].overtaken => Entries(p)'[x] # Gone
  <2>1. CASE v = w
    <3>1. p = o /\ Entries(p)[x] = Expired
      BY <1>5, <1>10, <2>1
    <3> QED BY <3>1, <1>6, TypingAssumption DEF Expired, Gone
  <2>2. CASE v # w
    BY <1>1, <1>5, <1>6, <1>10, <2>2, PollsNow
  <2> QED BY <2>1, <2>2
<1>11. ExpiredStayOld' /\ PollsFailOnlyRaced'
  BY <1>7, <1>10, PollsNext
<1> QED BY <1>7, <1>8, <1>9, <1>11 DEF IInv

\* Only entries that are too old are deleted; polls that found them too are
\* overtaken.
LEMMA DeleteStep ==
    ASSUME IInv, NEW w \in Workers, NEW u \in Users, Delete(w, u)
    PROVE  IInv'
<1> DEFINE d == request[w].object
           r == [request[w] EXCEPT !.expired = @ \ {u}]
<1>1. /\ TypeOK /\ EntriesAgree /\ CopiesAgree /\ StopsReachCurrent /\ ExpiredStayOld
      /\ PollsFailOnlyRaced
  BY DEF IInv
<1>2. /\ request[w] \in [op: {"clean"}, object: Places, expired: SUBSET Users,
                         overtaken: BOOLEAN]
      /\ request[w].op = "clean"
  BY <1>1, RequestKinds DEF Delete, TypeOK
<1>3. Gone \in Ages /\ Gone > Limit
  BY TypingAssumption DEF Ages, Gone
<1>4. /\ u \in request[w].expired /\ u \in Keys(d)
      /\ objects' = [objects EXCEPT ![d][u] = Gone]
      /\ Overtake(w, r, {"clean"})
      /\ UNCHANGED <<current, said, disturbed>>
  BY DEF Delete
<1>5. d \in Objects /\ d # NoObject
  BY <1>2, <1>4, TypingAssumption DEF Keys, Entries, Nobody, Places
<1>6. /\ r \in Request /\ r.op = "clean" /\ r.object = d /\ r.overtaken = request[w].overtaken
      /\ r.expired = request[w].expired \ {u}
  BY <1>2 DEF Request, Places
\* Only this entry changes.
<1>7. ASSUME NEW o \in Places, NEW x \in Users
      PROVE  /\ o # d \/ x # u => Entries(o)'[x] = Entries(o)[x]
             /\ o = d /\ x = u => Entries(o)'[x] = Gone
  <2>1. CASE o = NoObject
    BY <2>1, <1>5 DEF Entries, Nobody
  <2>2. CASE o \in Objects
    <3>1. o # NoObject
      BY <2>2, TypingAssumption
    <3>2. Entries(o)' = objects'[o] /\ Entries(o) = objects[o]
      BY <3>1 DEF Entries
    <3>3. objects[o] \in [Users -> Ages] /\ objects[d] \in [Users -> Ages]
      BY <1>1, <1>5, <2>2 DEF TypeOK
    <3> QED BY <1>1, <1>4, <1>5, <2>2, <3>2, <3>3 DEF TypeOK
  <2> QED BY <2>1, <2>2 DEF Places
<1>8. /\ request' \in [Workers -> Request \cup {Idle}]
      /\ request'[w] = r
      /\ \A v \in Workers \ {w} :
             /\ request'[v].op = request[v].op
             /\ request[v].op = "clean" => request'[v].overtaken = TRUE
             /\ request[v].op # "clean" => request'[v] = request[v]
             /\ request[v].op = "clean" => request'[v].object = request[v].object
             /\ request[v].op = "clean" => request'[v].expired = request[v].expired
  <2>1. r \in Request \cup {Idle} /\ {"clean"} \in SUBSET {"type", "stop", "clean"}
    BY <1>6
  <2> HIDE DEF r
  <2>2. /\ request' \in [Workers -> Request \cup {Idle}]
        /\ request'[w] = r
        /\ \A v \in Workers \ {w} :
               /\ request'[v].op = request[v].op
               /\ request[v].op \in {"clean"} => request'[v].overtaken = TRUE
               /\ request[v].op \notin {"clean"} => request'[v] = request[v]
    BY <1>1, <1>4, <2>1, Overtaken
  <2>3. \A v \in Workers \ {w} :
            request[v].op = "clean" => request'[v].object = request[v].object
    BY <1>1, <1>4, <2>1, Overtaken
  <2>4. \A v \in Workers \ {w} :
            request[v].op = "clean" => request'[v].expired = request[v].expired
    BY <1>1, <1>4, <2>1, Overtaken
  <2> QED BY <2>2, <2>3, <2>4
<1>9. TypeOK'
  <2>1. objects' \in [Objects -> [Users -> Ages]]
    BY <1>1, <1>3, <1>4, <1>5 DEF TypeOK
  <2> QED BY <1>1, <1>4, <1>8, <2>1 DEF TypeOK
<1>10. EntriesAgree'
  <2> SUFFICES ASSUME NEW x \in Users, x \notin disturbed'
               PROVE  Agree(Entries(current)'[x], said[x])
    BY <1>4 DEF EntriesAgree, Agree
  <2>1. current \in Places /\ current' = current
    BY <1>1, <1>4 DEF TypeOK, Places
  <2>2. Agree(Entries(current)[x], said[x])
    BY <1>1, <1>4 DEF EntriesAgree
  <2>3. CASE current = d /\ x = u
    <3>1. Entries(current)[x] > Limit
      BY <1>1, <1>2, <1>4, <2>1, <2>3, PollsNow
    <3>2. Entries(current)'[x] = Gone
      BY <1>7, <2>1, <2>3
    <3>3. Entries(current)[x] \in Ages /\ said[x] \in Ages
      BY <1>1, <2>1, EntriesType DEF TypeOK
    <3> QED BY <2>2, <3>1, <3>2, <3>3, <1>3, TypingAssumption DEF Agree, Ages, Gone
  <2>4. CASE ~(current = d /\ x = u)
    <3>1. Entries(current)'[x] = Entries(current)[x]
      BY <1>7, <2>1, <2>4
    <3> QED BY <2>2, <3>1
  <2> QED BY <2>3, <2>4
<1>11. CopiesAgree' /\ StopsReachCurrent'
  <2>1. \A v \in Workers : request'[v].op \in {"type", "stop"} => request'[v] = request[v]
    BY <1>6, <1>8
  <2> QED BY <1>1, <1>4, <2>1 DEF CopiesAgree, StopsReachCurrent
<1>12. ASSUME NEW v \in Workers, NEW o \in Places, NEW x \in Users,
              request'[v].op = "clean", request'[v].object = o, x \in request'[v].expired
       PROVE  /\ Entries(o)'[x] > Limit
              /\ ~request'[v].overtaken => Entries(o)'[x] # Gone
  <2>1. CASE v = w
    <3>1. /\ o = d /\ x # u /\ x \in request[w].expired
          /\ request'[v].overtaken = request[w].overtaken
      BY <1>6, <1>8, <1>12, <2>1
    <3>2. Entries(o)'[x] = Entries(o)[x]
      BY <1>7, <3>1
    <3> QED BY <1>1, <1>2, <3>1, <3>2, PollsNow
  <2>2. CASE v # w
    <3>1. /\ request[v].op = "clean" /\ request[v].object = o /\ x \in request[v].expired
          /\ request'[v].overtaken = TRUE
      BY <1>8, <1>12, <2>2
    <3>2. Entries(o)[x] > Limit
      BY <1>1, <3>1, PollsNow
    <3> QED BY <1>3, <1>7, <3>1, <3>2
  <2> QED BY <2>1, <2>2
<1>13. ExpiredStayOld' /\ PollsFailOnlyRaced'
  BY <1>9, <1>12, PollsNext
<1> QED BY <1>9, <1>10, <1>11, <1>13 DEF IInv

\* A poll ends, with an answer or not: what others hold is kept.
LEMMA DoneStep ==
    ASSUME IInv, NEW w \in Workers, request' = [request EXCEPT ![w] = Idle],
           UNCHANGED <<current, said, disturbed>>, Keep(objects)
    PROVE  IInv'
<1>1. /\ TypeOK /\ EntriesAgree /\ CopiesAgree /\ StopsReachCurrent /\ ExpiredStayOld
      /\ PollsFailOnlyRaced
  BY DEF IInv
<1>2. /\ request'[w] = Idle
      /\ \A v \in Workers \ {w} : request'[v] = request[v]
  BY <1>1 DEF TypeOK
<1>3. /\ objects' \in [Objects -> [Users -> Ages]]
      /\ \A o \in InUse' \cap Objects : objects'[o] = objects[o]
  BY <1>1, Kept DEF TypeOK
<1>4. \A o \in InUse' \cap Places : Entries(o)' = Entries(o)
  BY <1>3 DEF Entries, Places
<1>5. TypeOK'
  BY <1>1, <1>3 DEF TypeOK
<1>6. EntriesAgree'
  <2>1. current \in InUse' \cap Places /\ current' = current
    BY <1>1 DEF InUse, TypeOK, Places
  <2>2. Entries(current)' = Entries(current)
    BY <1>3, <2>1 DEF Entries, Places
  <2> QED BY <1>1, <2>2 DEF EntriesAgree
<1>7. CopiesAgree' /\ StopsReachCurrent'
  BY <1>1, <1>2 DEF CopiesAgree, StopsReachCurrent, Idle
<1>8. ASSUME NEW v \in Workers, NEW o \in Places, NEW x \in Users,
             request'[v].op = "clean", request'[v].object = o, x \in request'[v].expired
      PROVE  /\ Entries(o)'[x] > Limit
             /\ ~request'[v].overtaken => Entries(o)'[x] # Gone
  <2>1. request'[v] = request[v]
    BY <1>2, <1>8 DEF Idle
  <2>2. Entries(o)' = Entries(o)
    <3>1. o \in InUse'
      BY <1>8 DEF InUse
    <3> QED BY <1>4, <1>8, <3>1
  <2> QED BY <1>1, <1>8, <2>1, <2>2, PollsNow
<1>9. ExpiredStayOld' /\ PollsFailOnlyRaced'
  BY <1>5, <1>8, PollsNext
<1> QED BY <1>5, <1>6, <1>7, <1>9 DEF IInv

\* Nothing is left over a restart, not even a request.
LEMMA RestartStep ==
    ASSUME IInv, Restart
    PROVE  IInv'
<1>1. TypeOK'
  BY TypingAssumption DEF IInv, TypeOK, Restart, Nobody, Ages, Gone
<1>2. \A w \in Workers : request'[w].op = "idle"
  BY DEF Restart, Idle
<1>3. EntriesAgree' /\ CopiesAgree'
  BY DEF EntriesAgree, CopiesAgree, Restart
<1>4. StopsReachCurrent' /\ ExpiredStayOld' /\ PollsFailOnlyRaced'
  BY <1>2 DEF StopsReachCurrent, ExpiredStayOld, PollsFailOnlyRaced
<1> QED BY <1>1, <1>3, <1>4 DEF IInv

\* Entries, copies and what was said grow old together.
LEMMA TickStep ==
    ASSUME IInv, Tick
    PROVE  IInv'
<1>1. /\ TypeOK /\ EntriesAgree /\ CopiesAgree /\ StopsReachCurrent /\ ExpiredStayOld
      /\ PollsFailOnlyRaced
  BY DEF IInv
<1>2. ASSUME NEW o \in Places, NEW x \in Users
      PROVE  /\ Entries(o)'[x] = Aged(Entries(o)[x])
             /\ Entries(o)[x] \in Ages
  <2>1. Entries(o)[x] \in Ages
    BY <1>1, EntriesType
  <2>2. CASE o = NoObject
    <3>1. Entries(o)[x] = Gone /\ Entries(o)'[x] = Gone
      BY <2>2 DEF Entries, Nobody
    <3>2. Aged(Gone) = Gone
      BY TypingAssumption DEF Aged, Gone
    <3> QED BY <2>1, <3>1, <3>2
  <2>3. CASE o \in Objects
    <3>1. o # NoObject
      BY <2>3, TypingAssumption
    <3>2. objects'[o] = AgedAll(objects[o])
      BY <2>3 DEF Tick
    <3> QED BY <2>1, <3>1, <3>2 DEF Entries, AgedAll
  <2> QED BY <2>1, <2>2, <2>3 DEF Places
<1>3. \A x \in Users : said'[x] = Aged(said[x]) /\ said[x] \in Ages
  BY <1>1 DEF Tick, AgedAll, TypeOK
<1>4. ASSUME NEW v \in Workers, request[v].op = "type"
      PROVE  /\ request'[v] \in Request /\ request'[v].op = "type"
             /\ request'[v].overtaken = request[v].overtaken
             /\ \A x \in Users : /\ request'[v].copy[x] = Aged(request[v].copy[x])
                                 /\ request[v].copy[x] \in Ages
  <2>1. request[v] \in [op: {"type"}, user: Users, copy: [Users -> Ages], overtaken: BOOLEAN]
    BY <1>1, <1>4, RequestKinds DEF TypeOK
  <2>2. request'[v] = [request[v] EXCEPT !.copy = AgedAll(@)]
    BY <1>4 DEF Tick
  <2>3. AgedAll(request[v].copy) \in [Users -> Ages]
    BY <2>1, AgedFacts DEF AgedAll
  <2>4. request'[v] \in [op: {"type"}, user: Users, copy: [Users -> Ages], overtaken: BOOLEAN]
    BY <2>1, <2>2, <2>3
  <2>5. request'[v].copy = AgedAll(request[v].copy)
        /\ request'[v].overtaken = request[v].overtaken
    BY <2>1, <2>2
  <2> QED BY <2>1, <2>4, <2>5 DEF Request, AgedAll
<1>5. ASSUME NEW v \in Workers, request[v].op # "type"
      PROVE  request'[v] = request[v]
  BY <1>5 DEF Tick
<1>6. TypeOK'
  <2>1. request' \in [Workers -> Request \cup {Idle}]
    <3>1. \A v \in Workers : request'[v] \in Request \cup {Idle}
      BY <1>1, <1>4, <1>5 DEF TypeOK
    <3> QED BY <3>1 DEF Tick
  <2>2. said' \in [Users -> Ages]
    BY <1>1, AgedFacts DEF Tick, AgedAll, TypeOK
  <2>3. objects' \in [Objects -> [Users -> Ages]]
    BY <1>1, AgedFacts DEF Tick, AgedAll, TypeOK
  <2> QED BY <1>1, <2>1, <2>2, <2>3 DEF Tick, TypeOK
<1>7. EntriesAgree'
  <2> SUFFICES ASSUME NEW x \in Users, x \notin disturbed
               PROVE  Agree(Entries(current)'[x], said'[x])
    BY DEF EntriesAgree, Agree, Tick
  <2>1. current \in Places /\ current' = current
    BY <1>1 DEF TypeOK, Places, Tick
  <2>2. Entries(current)'[x] = Aged(Entries(current)[x]) /\ Entries(current)[x] \in Ages
    BY <1>2, <2>1
  <2> QED BY <1>1, <1>3, <2>2, AgedAgree DEF EntriesAgree
<1>8. CopiesAgree'
  <2> SUFFICES ASSUME NEW v \in Workers, request'[v].op = "type", ~request'[v].overtaken,
                      NEW x \in Users, x \notin disturbed
               PROVE  Agree(request'[v].copy[x], said'[x])
    BY DEF CopiesAgree, Agree, Tick
  <2>1. request[v].op = "type" /\ ~request[v].overtaken
    BY <1>4, <1>5
  <2>2. Agree(request[v].copy[x], said[x])
    BY <1>1, <2>1 DEF CopiesAgree
  <2> QED BY <1>3, <1>4, <2>1, <2>2, AgedAgree
<1>9. StopsReachCurrent'
  <2>1. \A v \in Workers : request'[v].op = "stop" => request'[v] = request[v]
    BY <1>4, <1>5
  <2> QED BY <1>1, <2>1 DEF StopsReachCurrent, Tick
<1>10. ASSUME NEW v \in Workers, NEW o \in Places, NEW x \in Users,
              request'[v].op = "clean", request'[v].object = o, x \in request'[v].expired
       PROVE  /\ Entries(o)'[x] > Limit
              /\ ~request'[v].overtaken => Entries(o)'[x] # Gone
  <2>1. request'[v] = request[v]
    BY <1>4, <1>5, <1>10
  <2>2. /\ Entries(o)[x] > Limit
        /\ ~request[v].overtaken => Entries(o)[x] # Gone
    BY <1>1, <1>10, <2>1, PollsNow
  <2> QED BY <1>2, <2>1, <2>2, AgedFacts
<1>11. ExpiredStayOld' /\ PollsFailOnlyRaced'
  BY <1>6, <1>10, PollsNext
<1> QED BY <1>6, <1>7, <1>8, <1>9, <1>11 DEF IInv

\* Nobody has said anything at first.
LEMMA InitIInv == Init => IInv
<1> SUFFICES ASSUME Init PROVE IInv
  OBVIOUS
<1>1. \A w \in Workers : request[w].op = "idle"
  BY DEF Init, Idle
<1>2. TypeOK
  BY TypingAssumption DEF Init, TypeOK, Nobody, Ages, Gone
<1>3. EntriesAgree
  BY DEF Init, EntriesAgree, Entries, Agree
<1> QED
  BY <1>1, <1>2, <1>3
     DEF IInv, CopiesAgree, StopsReachCurrent, ExpiredStayOld, PollsFailOnlyRaced

\* Each action is one of the steps above.
LEMMA NextIInv == IInv /\ [Next]_vars => IInv'
<1> SUFFICES ASSUME IInv, [Next]_vars PROVE IInv'
  OBVIOUS
<1>1. ASSUME NEW w \in Workers, NEW u \in Users, BeginType(w, u)
      PROVE  IInv'
  <2> DEFINE r == [op |-> "type", user |-> u, copy |-> Entries(current), overtaken |-> FALSE]
  <2>1. Entries(current) \in [Users -> Ages]
    BY EntriesType DEF IInv, TypeOK, Places
  <2>2. r \in Request /\ r.op = "type" /\ r.copy = Entries(current)
    BY <2>1 DEF Request
  <2>3. Start(w, r) /\ UNCHANGED <<current, objects, said, disturbed>>
    BY <1>1 DEF BeginType
  <2> HIDE DEF r
  <2> QED BY <2>2, <2>3, BeginStep
<1>2. ASSUME NEW w \in Workers, NEW u \in Users, BeginStop(w, u)
      PROVE  IInv'
  <2> DEFINE r == [op |-> "stop", user |-> u, object |-> current, overtaken |-> FALSE]
  <2>1. r \in Request /\ r.op = "stop" /\ r.object = current
    BY DEF Request, IInv, TypeOK
  <2>2. Start(w, r) /\ UNCHANGED <<current, objects, said, disturbed>>
    BY <1>2 DEF BeginStop
  <2> HIDE DEF r
  <2> QED BY <2>1, <2>2, BeginStep
<1>3. ASSUME NEW w \in Workers, BeginPoll(w)
      PROVE  IInv'
  <2> DEFINE r == [op |-> "poll", object |-> current]
  <2>1. r \in Request /\ r.op = "poll"
    BY DEF Request, IInv, TypeOK
  <2>2. Start(w, r) /\ UNCHANGED <<current, objects, said, disturbed>>
    BY <1>3 DEF BeginPoll
  <2> HIDE DEF r
  <2> QED BY <2>1, <2>2, BeginStep
<1>4. ASSUME NEW w \in Workers, Proceed(w)
      PROVE  IInv'
  <2>1. ASSUME Fail(w) \/ Answer(w) PROVE IInv'
    BY <2>1, DoneStep DEF Fail, Answer
  <2> QED BY <1>4, <2>1, StoreStep, PopStep, ScanStep, DeleteStep DEF Proceed
<1>5. CASE UNCHANGED vars
  BY <1>5 DEF IInv, TypeOK, EntriesAgree, CopiesAgree, StopsReachCurrent, ExpiredStayOld,
              PollsFailOnlyRaced, Keys, Entries, vars
<1> QED
  BY <1>1, <1>2, <1>3, <1>4, <1>5, RestartStep, TickStep DEF Next

-----------------------------------------------------------------------------
(* The theorems. *)

\* The invariant of the proofs: typing and get_typing agree on whose dictionary
\* is which and on how old its entries are.
THEOREM Invariance == Spec => []IInv
<1>1. Init => IInv
  BY InitIInv
<1>2. IInv /\ [Next]_vars => IInv'
  BY NextIInv
<1> QED
  BY <1>1, <1>2, PTL DEF Spec

\* The dictionaries and the requests are typed as TypeOK says.
THEOREM TypeCorrect == Spec => []TypeOK
<1>1. IInv => TypeOK
  BY DEF IInv
<1> QED
  BY <1>1, Invariance, PTL

\* typing_users without a lock: who is shown is who said so, unless his call
\* overlapped another typing call or a restart; polls make no difference.
THEOREM Shown == Spec => []ShownAsSaid
<1>1. IInv => ShownAsSaid
  <2> SUFFICES ASSUME IInv, NEW u \in Users \ disturbed
               PROVE  Entries(current)[u] <= Limit <=> said[u] <= Limit
    BY DEF ShownAsSaid
  <2>1. Agree(Entries(current)[u], said[u])
    BY DEF IInv, EntriesAgree
  <2> QED BY <2>1 DEF Agree
<1> QED
  BY <1>1, Invariance, PTL

\* The KeyError of get_typing: its dictionary changed between the look at the
\* clock and the deletions.
THEOREM FailuresRaced == Spec => []PollsFailOnlyRaced
<1>1. IInv => PollsFailOnlyRaced
  BY DEF IInv
<1> QED
  BY <1>1, Invariance, PTL
=============================================================================
