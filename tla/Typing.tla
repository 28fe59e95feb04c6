------------------------------- MODULE Typing -------------------------------
(***************************************************************************)
(* The typing status of one chat room: typing and get_typing of            *)
(* chat/views.py on the dictionary typing_users, which lives in the memory *)
(* of the server process and is shared by its request threads without a    *)
(* lock.  (The rows that both handlers make sure of first are the subject  *)
(* of ChatRooms; the entries of different rooms do not touch.)             *)
(*                                                                         *)
(* typing_users[room_id] is a dictionary object {user: timestamp}.         *)
(* typing(True) puts a new object in its place, typing(False) pops from    *)
(* the object it found there, get_typing deletes old entries from the      *)
(* object it found there.  So which object a thread holds matters.         *)
(***************************************************************************)
EXTENDS Naturals, FiniteSets

CONSTANTS
    Users,      \* the users of the room
    Workers,    \* server threads
    Objects,    \* dictionary objects, more than there are threads
    NoObject,   \* typing_users has no entry for the room
    Limit       \* a timestamp older than this is expired (3 seconds)

ASSUME TypingAssumption ==
    /\ Limit \in Nat /\ NoObject \notin Objects
    /\ IsFiniteSet(Workers) /\ IsFiniteSet(Objects)
    /\ Cardinality(Workers) < Cardinality(Objects)

VARIABLES
    current,    \* typing_users.get(room_id)
    objects,    \* objects[o][u]: the age of u's timestamp in o, or Gone
    request,    \* request[w]: what thread w is in the middle of
    said,       \* history: the age of u's last call if it said typing, or Gone
    disturbed   \* history: users whose last call overlapped another one's effect

vars == <<current, objects, request, said, disturbed>>

\* Ages are kept up to the first expired one, so that time can go on for ever.
Expired == Limit + 1
Gone == Limit + 2
Ages == 0..Gone

\* Mutant: ages are not kept within bounds.
AgedForEver(a) == a + 1

Aged(a) == IF a <= Limit THEN a + 1 ELSE a

Nobody == [u \in Users |-> Gone]
Entries(o) == IF o = NoObject THEN Nobody ELSE objects[o]
Keys(o) == {u \in Users : Entries(o)[u] # Gone}

Idle == [op |-> "idle"]
Request ==
    [op: {"type"}, user: Users, copy: [Users -> Ages], overtaken: BOOLEAN]
        \cup [op: {"stop"}, user: Users, object: Objects \cup {NoObject}, overtaken: BOOLEAN]
        \cup [op: {"poll"}, object: Objects \cup {NoObject}]
        \cup [op: {"clean"}, object: Objects \cup {NoObject}, expired: SUBSET Users,
              overtaken: BOOLEAN]

Start(w, r) == request[w] = Idle /\ request' = [request EXCEPT ![w] = r]

\* Thread w takes effect and ends with r; requests of these kinds were overtaken.
Overtake(w, r, kinds) ==
    request' = [v \in Workers |->
        IF v = w THEN r
        ELSE IF request[v].op \in kinds THEN [request[v] EXCEPT !.overtaken = TRUE]
        ELSE request[v]]

InUse == {current} \cup {request[w].object : w \in {v \in Workers : request[v].op \in
                                                    {"stop", "poll", "clean"}}}

Unused == CHOOSE o \in Objects : o \notin InUse

\* The contents of the objects; one that nobody holds any more is gone.
Keep(contents) == objects' = [o \in Objects |-> IF o \in InUse' THEN contents[o] ELSE Nobody]

Init ==
    /\ current = NoObject
    /\ objects = [o \in Objects |-> Nobody]
    /\ request = [w \in Workers |-> Idle]
    /\ said = Nobody
    /\ disturbed = {}

-----------------------------------------------------------------------------
\* typing, is_typing: the entries are copied into a new dictionary, ...
BeginType(w, u) ==
    /\ Start(w, [op |-> "type", user |-> u, copy |-> Entries(current), overtaken |-> FALSE])
    /\ UNCHANGED <<current, objects, said, disturbed>>

\* Mutants: what others said is dropped; it is stamped anew.
StoreInstead(w, new) ==
    /\ current' = Unused
    /\ Overtake(w, Idle, {"type", "stop"})
    /\ Keep([objects EXCEPT ![Unused] = new])
    /\ said' = [said EXCEPT ![request[w].user] = 0]
    /\ disturbed' = (disturbed \cup IF request[w].overtaken THEN Users ELSE {}) \ {request[w].user}
StoreAlone(w) ==
    /\ request[w].op = "type"
    /\ StoreInstead(w, [Nobody EXCEPT ![request[w].user] = 0])
StoreAllNew(w) ==
    /\ request[w].op = "type"
    /\ StoreInstead(w, [u \in Users |-> IF u = request[w].user \/ request[w].copy[u] # Gone
                                        THEN 0 ELSE Gone])

\* ... stamped, and the new one takes the place of whatever is there by now.
Store(w) ==
    LET r == request[w] IN
    /\ r.op = "type"
    /\ current' = Unused
    /\ Overtake(w, Idle, {"type", "stop"})
    /\ Keep([objects EXCEPT ![Unused] = [r.copy EXCEPT ![r.user] = 0]])
    /\ said' = [said EXCEPT ![r.user] = 0]
    /\ disturbed' = (disturbed \cup IF r.overtaken THEN Users ELSE {}) \ {r.user}

\* typing, not is_typing: the dictionary is looked up, ...
BeginStop(w, u) ==
    /\ Start(w, [op |-> "stop", user |-> u, object |-> current, overtaken |-> FALSE])
    /\ UNCHANGED <<current, objects, said, disturbed>>

\* ... and the entry popped from it, wherever it is by now.
Pop(w) ==
    LET r == request[w] IN
    /\ r.op = "stop"
    /\ UNCHANGED current
    /\ Overtake(w, Idle, {"type", "clean"})
    /\ Keep([o \in Objects |-> IF o = r.object THEN [objects[o] EXCEPT ![r.user] = Gone]
                                               ELSE objects[o]])
    /\ said' = [said EXCEPT ![r.user] = Gone]
    /\ disturbed' = IF r.overtaken THEN disturbed \cup {r.user} ELSE disturbed \ {r.user}

-----------------------------------------------------------------------------
\* get_typing: the dictionary is looked up, ...
BeginPoll(w) ==
    /\ Start(w, [op |-> "poll", object |-> current])
    /\ UNCHANGED <<current, objects, said, disturbed>>

\* Mutant: every user of the room is looked at, in the dictionary or not.
ScanUsers(w) ==
    LET o == request[w].object IN
    /\ request[w].op = "poll"
    /\ request' = [request EXCEPT ![w] = [op |-> "clean", object |-> o, overtaken |-> FALSE,
                       expired |-> {u \in Users : Entries(o)[u] >= Expired}]]
    /\ UNCHANGED <<current, objects, said, disturbed>>

\* ... its items are listed and compared with the clock, ...
Scan(w) ==
    LET o == request[w].object IN
    /\ request[w].op = "poll"
    /\ request' = [request EXCEPT ![w] = [op |-> "clean", object |-> o, overtaken |-> FALSE,
                       expired |-> {u \in Users : Entries(o)[u] = Expired}]]
    /\ UNCHANGED <<current, objects, said, disturbed>>

\* ... the expired ones are deleted one by one, ...
Delete(w, u) ==
    LET r == request[w] IN
    /\ r.op = "clean"
    /\ u \in r.expired \cap Keys(r.object)
    /\ objects' = [objects EXCEPT ![r.object][u] = Gone]
    /\ Overtake(w, [r EXCEPT !.expired = @ \ {u}], {"clean"})
    /\ UNCHANGED <<current, said, disturbed>>

\* ... which raises KeyError if one is not there any more, ...
Fail(w) ==
    LET r == request[w] IN
    /\ r.op = "clean"
    /\ r.expired \ Keys(r.object) # {}
    /\ request' = [request EXCEPT ![w] = Idle]
    /\ UNCHANGED <<current, said, disturbed>>
    /\ Keep(objects)

\* ... and the keys that are left are the answer.
Answer(w) ==
    /\ request[w].op = "clean"
    /\ request[w].expired = {}
    /\ request' = [request EXCEPT ![w] = Idle]
    /\ UNCHANGED <<current, said, disturbed>>
    /\ Keep(objects)

-----------------------------------------------------------------------------
\* The process starts again, with an empty typing_users.
Restart ==
    /\ current' = NoObject
    /\ objects' = [o \in Objects |-> Nobody]
    /\ request' = [w \in Workers |-> Idle]
    /\ disturbed' = Users
    /\ UNCHANGED said

AgedAll(d) == [u \in Users |-> Aged(d[u])]

Tick ==
    /\ objects' = [o \in Objects |-> AgedAll(objects[o])]
    /\ request' = [w \in Workers |-> IF request[w].op = "type"
                                     THEN [request[w] EXCEPT !.copy = AgedAll(@)]
                                     ELSE request[w]]
    /\ said' = AgedAll(said)
    /\ UNCHANGED <<current, disturbed>>

Proceed(w) ==
    \/ Store(w) \/ Pop(w) \/ Scan(w) \/ Fail(w) \/ Answer(w)
    \/ \E u \in Users : Delete(w, u)

Next ==
    \/ \E w \in Workers :
           \/ \E u \in Users : BeginType(w, u) \/ BeginStop(w, u)
           \/ BeginPoll(w)
           \/ Proceed(w)
    \/ Restart
    \/ Tick

Spec == Init /\ [][Next]_vars

\* Time passes, and threads get on with what they have begun.
FairSpec == Spec /\ WF_vars(Tick) /\ \A w \in Workers : WF_vars(Proceed(w))

-----------------------------------------------------------------------------
(* Properties. *)

TypeOK ==
    /\ current \in Objects \cup {NoObject}
    /\ objects \in [Objects -> [Users -> Ages]]
    /\ request \in [Workers -> Request \cup {Idle}]
    /\ said \in [Users -> Ages]
    /\ disturbed \subseteq Users

\* Whether a user is shown as typing is what he said last, for as long as it
\* lasts, unless that call overlapped another typing call or a restart: polls
\* that clean up, whichever object they hold, never make a difference.
ShownAsSaid ==
    \A u \in Users \ disturbed : Entries(current)[u] <= Limit <=> said[u] <= Limit

\* get_typing raises KeyError only if a stop or another poll came between its
\* look at the clock and its deletions.
PollsFailOnlyRaced ==
    \A w \in Workers : request[w].op = "clean" /\ ~request[w].overtaken =>
        request[w].expired \subseteq Keys(request[w].object)

\* A user who no longer says that he is typing is, from some time on, named by
\* no answer, whatever others keep saying.
SilenceIsShown ==
    \A u \in Users :
        <>[](\A w \in Workers : request[w].op = "type" => request[w].user # u) =>
            <>[][\A w \in Workers : Answer(w) => u \notin Keys(request[w].object)]_vars

-----------------------------------------------------------------------------
(* The inductive invariant behind the safety properties. *)

\* Two ages that are the same, or both too old to be shown.
Agree(a, b) == a <= Limit \/ b <= Limit => a = b

\* An entry is as old as the call that it is there for.
EntriesAgree == \A u \in Users \ disturbed : Agree(Entries(current)[u], said[u])

\* So is one in the copy of a call that nothing overtook.
CopiesAgree ==
    \A w \in Workers :
        LET r == request[w] IN
        r.op = "type" /\ ~r.overtaken =>
            \A u \in Users \ disturbed : Agree(r.copy[u], said[u])

\* A stop that nothing overtook pops from the dictionary that is in place.
StopsReachCurrent ==
    \A w \in Workers :
        request[w].op = "stop" /\ ~request[w].overtaken => request[w].object = current

\* What a poll found expired does not become young again.
ExpiredStayOld ==
    \A w \in Workers :
        LET r == request[w] IN
        r.op = "clean" => \A u \in r.expired : Entries(r.object)[u] > Limit

IInv ==
    /\ TypeOK /\ EntriesAgree /\ CopiesAgree /\ StopsReachCurrent /\ ExpiredStayOld
    /\ PollsFailOnlyRaced
=============================================================================
