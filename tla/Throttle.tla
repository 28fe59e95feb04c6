------------------------------ MODULE Throttle ------------------------------
(***************************************************************************)
(* Rate limits: the classes of config/throttling.py, which are             *)
(* SimpleRateThrottles of the REST framework, as the views use them.  A    *)
(* throttle keeps, under a key in the cache, the times of the requests it  *)
(* let through; it reads them, drops those older than its period and, if   *)
(* they are fewer than its rate, writes them back with the time of this    *)
(* one.  Reading and writing are two cache calls, and a key belongs to a   *)
(* scope and a client, not to a view.                                      *)
(*                                                                         *)
(* Time is counted in ticks and kept as ages, the newest first, so that it *)
(* can go on for ever.                                                     *)
(***************************************************************************)
EXTENDS Naturals, Sequences

CONSTANTS
    Requests,   \* records: throttles (the scopes of the view's throttle_classes,
                \* in order), ip, email and user
    Anonymous,  \* the user of a request without one
    Rate,       \* Rate[s]: num_requests of scope s
    Period,     \* Period[s]: its duration in ticks
    Workers

Scopes == UNION {{c.throttles[i] : i \in 1..Len(c.throttles)} : c \in Requests}

ASSUME ThrottleAssumption ==
    /\ \A c \in Requests : c.throttles \in Seq(STRING)
    /\ \A s \in Scopes : Rate[s] \in Nat /\ Period[s] \in Nat \ {0}

VARIABLES
    history,    \* history[k]: ages of the times in the cache under key k
    request,    \* request[w]: the request thread w is checking
    passed,     \* history: passed[k]: ages of the requests k let through, as
                \* long as no two of its checks overlapped
    raced       \* history: keys of which two checks overlapped

throttleVars == <<history, request, passed, raced>>

\* get_cache_key of each class.  None of them ever returns None: LoginView and
\* RegisterView authenticate nobody, and the views of the other throttles
\* refuse a request without a user before they ask their throttles.
GetCacheKey(scope, c) ==
    LET key(ident) == [scope |-> scope, ident |-> ident] IN
    CASE scope = "login" -> key(<<c.ip, c.email>>)
      [] scope = "register" -> key(<<c.ip>>)
      [] scope \in {"burst", "sustained"} -> key(<<IF c.user = Anonymous THEN c.ip ELSE c.user>>)
      [] OTHER -> key(<<c.user>>)

Keys == UNION {{GetCacheKey(c.throttles[i], c) : i \in 1..Len(c.throttles)} : c \in Requests}

Idle == [state |-> "idle"]
\* "next" has its throttle number at before it, "read" is between its two calls.
Scope(r) == r.client.throttles[r.at]
Key(r) == GetCacheKey(Scope(r), r.client)

\* Mutant: < for <=.
OlderKeepsEdge(ages, period) ==
    LET kept == CHOOSE n \in 0..Len(ages) :
                    /\ \A i \in n + 1..Len(ages) : ages[i] + 1 > period
                    /\ n = 0 \/ ages[n] + 1 <= period
    IN [i \in 1..kept |-> ages[i] + 1]

\* What is left of a sequence of ages after a tick: the oldest one is popped
\* from its end as long as it is not younger than the period.
Older(ages, period) ==
    LET kept == CHOOSE n \in 0..Len(ages) :
                    /\ \A i \in n + 1..Len(ages) : ages[i] + 1 >= period
                    /\ n = 0 \/ ages[n] + 1 < period
    IN [i \in 1..kept |-> ages[i] + 1]

ThrottleInit ==
    /\ history = [k \in Keys |-> <<>>]
    /\ request = [w \in Workers |-> Idle]
    /\ passed = [k \in Keys |-> <<>>]
    /\ raced = {}

Step(w, r) == request' = [request EXCEPT ![w] = r]
Advance(w, r) == Step(w, [state |-> "next", client |-> r.client, at |-> r.at + 1])

\* APIView.check_throttles goes through all throttles, also after a refusal.
Start(w, c) ==
    /\ request[w] = Idle
    /\ Step(w, [state |-> "next", client |-> c, at |-> 1])
    /\ UNCHANGED <<history, passed, raced>>

AtThrottle(w) == request[w].state = "next" /\ request[w].at <= Len(request[w].client.throttles)

\* Keys that a request has read and not written yet.
Held(v) == IF request[v].state = "read" THEN {Key(request[v])} ELSE {}

\* Mutant: a refused request counts as well.
RefuseCounts(w) ==
    LET r == request[w] IN
    /\ AtThrottle(w)
    /\ Len(history[Key(r)]) >= Rate[Scope(r)]
    /\ history' = [history EXCEPT ![Key(r)] = SubSeq(<<0>> \o @, 1, Rate[Scope(r)])]
    /\ Advance(w, r)
    /\ UNCHANGED <<passed, raced>>

\* allow_request: too many requests in the period, or ...
Refuse(w) ==
    LET r == request[w] IN
    /\ AtThrottle(w)
    /\ Len(history[Key(r)]) >= Rate[Scope(r)]
    /\ Advance(w, r)
    /\ UNCHANGED <<history, passed, raced>>

\* Mutant: > for >=.
ReadOneMore(w) ==
    LET r == request[w]
        k == Key(r) IN
    /\ AtThrottle(w)
    /\ Len(history[k]) <= Rate[Scope(r)]
    /\ Step(w, [state |-> "read", client |-> r.client, at |-> r.at, history |-> <<0>> \o history[k]])
    /\ raced' = IF \E v \in Workers : k \in Held(v) THEN raced \cup {k} ELSE raced
    /\ UNCHANGED <<history, passed>>

\* ... fewer: the list with this request in front is ready to be written, ...
Read(w) ==
    LET r == request[w]
        k == Key(r) IN
    /\ AtThrottle(w)
    /\ Len(history[k]) < Rate[Scope(r)]
    /\ Step(w, [state |-> "read", client |-> r.client, at |-> r.at,
                history |-> <<0>> \o history[k]])
    /\ raced' = IF \E v \in Workers : k \in Held(v) THEN raced \cup {k} ELSE raced
    /\ UNCHANGED <<history, passed>>

\* ... and throttle_success writes it.
Write(w) ==
    LET r == request[w] IN
    /\ r.state = "read"
    /\ history' = [history EXCEPT ![Key(r)] = r.history]
    /\ passed' = [passed EXCEPT ![Key(r)] = IF Key(r) \in raced THEN <<>>
                                               ELSE IF r.history = <<>> THEN @
                                               ELSE <<Head(r.history)>> \o @]
    /\ Advance(w, r)
    /\ UNCHANGED raced

\* All throttles are through: the view answers, or the answer is 429.
End(w) ==
    /\ request[w].state = "next"
    /\ request[w].at = Len(request[w].client.throttles) + 1
    /\ Step(w, Idle)
    /\ UNCHANGED <<history, passed, raced>>

Tick ==
    /\ history' = [k \in Keys |-> Older(history[k], Period[k.scope])]
    /\ passed' = [k \in Keys |-> Older(passed[k], Period[k.scope])]
    /\ request' = [w \in Workers |->
           IF request[w].state = "read"
           THEN [request[w] EXCEPT !.history = Older(@, Period[Scope(request[w])])]
           ELSE request[w]]
    /\ UNCHANGED raced

ThrottleNext ==
    \/ \E w \in Workers :
           \/ \E c \in Requests : Start(w, c)
           \/ Refuse(w) \/ Read(w) \/ Write(w) \/ End(w)
    \/ Tick

ThrottleSpec == ThrottleInit /\ [][ThrottleNext]_throttleVars
FairThrottleSpec == ThrottleSpec /\ WF_throttleVars(Tick)

-----------------------------------------------------------------------------
(* Properties. *)

Ages(period) == Seq(0..period - 1)
Request ==
    {Idle} \cup [state: {"next"}, client: Requests, at: Nat]
           \cup [state: {"read"}, client: Requests, at: Nat, history: Seq(Nat)]
ThrottleTypeOK ==
    /\ history \in [Keys -> Seq(Nat)] /\ passed \in [Keys -> Seq(Nat)]
    /\ \A k \in Keys : history[k] \in Ages(Period[k.scope]) /\ passed[k] \in Ages(Period[k.scope])
    /\ request \in [Workers -> Request]
    /\ \A w \in Workers :
           /\ request[w].state = "next" => request[w].at \in 1..Len(request[w].client.throttles) + 1
           /\ request[w].state = "read" =>
                  /\ request[w].at \in 1..Len(request[w].client.throttles)
                  /\ request[w].history \in Ages(Period[Scope(request[w])])
    /\ raced \subseteq Keys

\* In no period does a key let more requests through than its rate, as long
\* as no two checks of the key overlap.
LimitKept == \A k \in Keys \ raced : Len(passed[k]) <= Rate[k.scope]

Asked(k, w) == AtThrottle(w) /\ Key(request[w]) = k /\ (Refuse(w) \/ Read(w))
LetThrough(k, w) == AtThrottle(w) /\ Key(request[w]) = k /\ Read(w)

\* A bucket that is asked again and again lets requests through again and again,
\* since it does not count those that it refuses.  This is said of each bucket
\* by itself: a view with two of them answers only a request that both let
\* through, and each counts, and makes wait for, what the other refuses.
BucketsReopen == \A k \in Keys :
    []<><<\E w \in Workers : Asked(k, w)>>_throttleVars =>
        []<><<\E w \in Workers : LetThrough(k, w)>>_throttleVars

-----------------------------------------------------------------------------
(* The inductive invariant behind ThrottleTypeOK and LimitKept. *)

NewestFirst(ages) == \A i, j \in 1..Len(ages) : i <= j => ages[i] <= ages[j]

\* Lists are sorted, which is why popping from the end leaves what is young.
ListsNewestFirst ==
    /\ \A k \in Keys : NewestFirst(history[k]) /\ NewestFirst(passed[k])
    /\ \A w \in Workers : request[w].state = "read" => NewestFirst(request[w].history)

\* Two requests between their two calls for one key are recorded as racing.
OverlapsRaced == \A v, w \in Workers : v # w => Held(v) \cap Held(w) \subseteq raced

\* What a key that was never raced for has in the cache is what it let through.
CacheCounts ==
    \A k \in Keys \ raced : passed[k] = history[k] /\ Len(history[k]) <= Rate[k.scope]

\* A request about to write to such a key has its own time before what is in
\* the cache now, with room for it, unless both are outdated.
ReadsCurrent == \A w \in Workers :
    LET r == request[w]
        k == Key(r) IN
    r.state = "read" /\ k \notin raced =>
        /\ Len(history[k]) < Rate[k.scope]
        /\ IF r.history = <<>> THEN history[k] = <<>>
           ELSE r.history = <<Head(r.history)>> \o history[k]

ThrottleIInv ==
    /\ ThrottleTypeOK
    /\ ListsNewestFirst
    /\ OverlapsRaced
    /\ CacheCounts
    /\ ReadsCurrent
=============================================================================
