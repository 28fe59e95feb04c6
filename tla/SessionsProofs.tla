--------------------------- MODULE SessionsProofs ----------------------------
(***************************************************************************)
(* Theorems about modules Sessions and Sockets, for any users, tokens,     *)
(* threads and connections.                                                *)
(***************************************************************************)
EXTENDS Sockets, TLAPS

\* A busy thread's request is told apart from Idle by its op.
LEMMA BusyRequest ==
  ASSUME TypeOK, NEW w \in Workers
  PROVE  /\ request[w].op \in {"login", "wipe", "register", "save", "delete"}
             => request[w].user \in Users
         /\ request[w].op \in LoggingOut => request[w].token \in Tokens
<1>1. request[w] \in Request \cup {Idle}
  BY DEF TypeOK
<1> QED
  BY <1>1 DEF Request, Idle, LoggingOut

\* Issuing a token adds one token to the issued ones and takes none away.
LEMMA IssueGrows ==
  ASSUME TypeOK, NEW u \in Users, NEW t \in Tokens, Issue(u, t)
  PROVE  /\ owner' \in [Tokens -> Users \cup {NoUser}]
         /\ Issued' = Issued \cup {t}
         /\ t \notin Issued
         /\ outstanding' = outstanding \cup {t}
         /\ alive' = alive \cup {t} /\ access' = access \cup {t}
         /\ UNCHANGED <<detached, blacklisted>>
         /\ alive' \subseteq Tokens /\ access' \subseteq Tokens /\ outstanding' \subseteq Tokens
  BY SessionsAssumption DEF TypeOK, Issue, Issued

\* Deleting rows changes the logouts that hold one of them, and the thread's own request.
LEMMA OrphanedByType ==
  ASSUME TypeOK, NEW w \in Workers, NEW rows, request' = OrphanedBy(w, rows)
  PROVE  /\ request' \in [Workers -> Request \cup {Idle}]
         /\ request'[w] = Idle
         /\ \A v \in Workers \ {w} :
               \/ /\ request'[v] = request[v]
                  /\ request[v].op = "blacklist" => request[v].token \notin rows
               \/ /\ request[v].op = "blacklist"
                  /\ request'[v].op = "orphan" /\ request'[v].token = request[v].token
<1>1. ASSUME NEW v \in Workers
      PROVE  Orphaned(request[v], rows) \in Request \cup {Idle}
  <2>1. request[v] \in Request \cup {Idle}
    BY DEF TypeOK
  <2>2. CASE request[v].op = "blacklist"
    <3>1. request[v].token \in Tokens
      BY <2>2, BusyRequest DEF LoggingOut
    <3>2. [op |-> "orphan", token |-> request[v].token] \in Request
      BY <3>1 DEF Request, LoggingOut
    <3> QED
      BY <2>1, <3>2 DEF Orphaned
  <2> QED
    BY <2>1, <2>2 DEF Orphaned
<1>2. request' \in [Workers -> Request \cup {Idle}] /\ request'[w] = Idle
  BY <1>1 DEF OrphanedBy
<1>3. ASSUME NEW v \in Workers \ {w}
      PROVE  \/ /\ request'[v] = request[v]
                /\ request[v].op = "blacklist" => request[v].token \notin rows
             \/ /\ request[v].op = "blacklist"
                /\ request'[v].op = "orphan" /\ request'[v].token = request[v].token
  <2>1. request'[v] = Orphaned(request[v], rows)
    BY DEF OrphanedBy
  <2> QED
    BY <2>1 DEF Orphaned
<1> QED
  BY <1>2, <1>3

\* No token was issued at first.
LEMMA InitIInv == Init => IInv
  BY DEF Init, IInv, TypeOK, StatusesHaveRows, OnlyIssuedTokens, LoggedOutStaysBlacklisted,
     BlacklistHangsTogether, HeldRowsExist, WipedRowsReturnOwnerless, Issued, Idle, LoggingOut

\* The part of the invariant that is about tokens.
TokensHangTogether ==
  /\ TypeOK
  /\ OnlyIssuedTokens
  /\ LoggedOutStaysBlacklisted
  /\ BlacklistHangsTogether
  /\ HeldRowsExist
  /\ WipedRowsReturnOwnerless

\* Every query of login, logout, refresh and deletion keeps the tables together.
LEMMA NextTokensHangTogether ==
  ASSUME TokensHangTogether, [Next]_vars
  PROVE  TokensHangTogether'
<1> USE DEF TokensHangTogether, OnlyIssuedTokens, LoggedOutStaysBlacklisted, BlacklistHangsTogether,
            HeldRowsExist, WipedRowsReturnOwnerless, LoggingOut
<1>0. TypeOK
  OBVIOUS
<1>1. CASE UNCHANGED vars
  BY <1>1 DEF vars, TypeOK, Issued
<1>2. ASSUME NEW w \in Workers, NEW r \in Request \cup {Idle}, r.op \notin LoggingOut,
             request' = [request EXCEPT ![w] = r]
      PROVE  /\ request' \in [Workers -> Request \cup {Idle}]
             /\ \A v \in Workers : request'[v].op \in LoggingOut => request'[v] = request[v]
  BY <1>2 DEF TypeOK
<1>3. ASSUME NEW w \in Workers, NEW u \in Users, NEW op \in {"save", "delete"},
             NEW status \in [active: BOOLEAN, deleted: BOOLEAN], Load(w, op, u, status)
      PROVE  TokensHangTogether'
  <2> DEFINE r == [op |-> op, user |-> u, status |-> status]
  <2>1. r \in Request \cup {Idle} /\ r.op \notin LoggingOut
    BY DEF Request
  <2>2. request' = [request EXCEPT ![w] = r]
    BY <1>3 DEF Load, Start
  <2> HIDE DEF r
  <2>3. /\ request' \in [Workers -> Request \cup {Idle}]
        /\ \A v \in Workers : request'[v].op \in LoggingOut => request'[v] = request[v]
    BY <1>2, <2>1, <2>2
  <2> QED
    BY <1>3, <2>3 DEF Load, TypeOK, Issued, accounts, tables, history
<1>4. ASSUME NEW w \in Workers, NEW u \in Users,
             \/ BeginVerify(w, u) \/ BeginReactivate(w, u) \/ BeginEdit(w, u) \/ BeginDelete(w, u)
      PROVE  TokensHangTogether'
  <2>1. Status(u) \in [active: BOOLEAN, deleted: BOOLEAN]
    BY DEF Status
  <2>2. [Status(u) EXCEPT !.active = TRUE] \in [active: BOOLEAN, deleted: BOOLEAN]
    BY <2>1
  <2> QED
    BY <1>3, <1>4, <2>1, <2>2 DEF BeginVerify, BeginReactivate, BeginEdit, BeginDelete
<1>5. ASSUME NEW w \in Workers, NEW u \in Users, BeginRegister(w, u)
       PROVE  TokensHangTogether'
  <2> DEFINE r == [op |-> "register", user |-> u, status |-> [active |-> FALSE, deleted |-> FALSE]]
  <2>1. r \in Request \cup {Idle} /\ r.op \notin LoggingOut
    BY DEF Request
  <2>2. request' = [request EXCEPT ![w] = r]
    BY <1>5 DEF BeginRegister, Start
  <2> HIDE DEF r
  <2>3. /\ request' \in [Workers -> Request \cup {Idle}]
        /\ \A v \in Workers : request'[v].op \in LoggingOut => request'[v] = request[v]
    BY <1>2, <2>1, <2>2
  <2> QED
    BY <1>5, <2>3 DEF BeginRegister, TypeOK, Issued, tables, history
<1>6. ASSUME NEW w \in Workers, NEW op \in {"register", "save", "delete"},
              NEW next \in Request \cup {Idle}, next.op \notin LoggingOut, Save(w, op, next)
       PROVE  TokensHangTogether'
  <2>1. request[w].user \in Users
    BY <1>0, <1>6, BusyRequest DEF Save
  <2>2. request' = [request EXCEPT ![w] = next]
    BY <1>6 DEF Save
  <2>3. /\ request' \in [Workers -> Request \cup {Idle}]
        /\ \A v \in Workers : request'[v].op \in LoggingOut => request'[v] = request[v]
    BY <1>2, <1>6, <2>2
  <2> QED
    BY <1>6, <2>1, <2>3 DEF Save, TypeOK, Issued, tables, history
<1>7. ASSUME NEW w \in Workers, SaveRegistered(w) \/ FinishSave(w) \/ SaveDeleted(w)
       PROVE  TokensHangTogether'
  <2>1. Idle \in Request \cup {Idle} /\ Idle.op \notin LoggingOut
    BY DEF Idle
  <2>2. CASE FinishSave(w)
    BY <1>6, <2>1, <2>2 DEF FinishSave
  <2>3. ASSUME request[w].op \in {"register", "delete"}, NEW op \in {"login", "wipe"}
        PROVE  /\ [op |-> op, user |-> request[w].user] \in Request \cup {Idle}
               /\ [op |-> op, user |-> request[w].user].op \notin LoggingOut
    BY <1>0, <2>3, BusyRequest DEF Request
  <2>4. CASE SaveRegistered(w)
    BY <1>6, <2>3, <2>4 DEF SaveRegistered, Save
  <2>5. CASE SaveDeleted(w)
    BY <1>6, <2>3, <2>5 DEF SaveDeleted, Save
  <2> QED
    BY <1>7, <2>2, <2>4, <2>5
<1>8. ASSUME NEW w \in Workers, NEW u \in Users, BeginLogin(w, u)
      PROVE  TokensHangTogether'
  <2>1. request' \in [Workers -> Request \cup {Idle}]
    BY <1>8 DEF BeginLogin, Start, TypeOK, Request
  <2>2. \A v \in Workers : request'[v].op \in LoggingOut => request'[v] = request[v]
    BY <1>8 DEF BeginLogin, Start, TypeOK
  <2> QED
    BY <1>8, <2>1, <2>2 DEF BeginLogin, TypeOK, Issued, accounts, tables, history
<1>9. ASSUME NEW w \in Workers, NEW t \in Tokens, BeginLogout(w, t)
      PROVE  TokensHangTogether'
  <2>1. request' \in [Workers -> Request \cup {Idle}]
    BY <1>9 DEF BeginLogout, Start, TypeOK, Request
  <2>2. \A v \in Workers :
          request'[v].op \in LoggingOut => \/ request'[v] = request[v]
                                           \/ request'[v].token = t /\ request'[v].op = "logout"
    BY <1>9 DEF BeginLogout, Start, TypeOK
  <2> QED
    BY <1>9, <2>1, <2>2 DEF BeginLogout, Accepted, TypeOK, Issued, accounts, tables, history
<1>10. ASSUME NEW w \in Workers, Stop(w)
      PROVE  /\ request' \in [Workers -> Request \cup {Idle}]
             /\ \A v \in Workers : request'[v].op \in LoggingOut => request'[v] = request[v]
  BY <1>10 DEF Stop, TypeOK, Idle
<1>11. ASSUME NEW w \in Workers, NEW t \in Tokens, FinishLogin(w, t)
      PROVE  TokensHangTogether'
  <2>1. request[w].user \in Users
    BY <1>0, <1>11, BusyRequest DEF FinishLogin
  <2> QED
    BY <1>0, <1>10, <1>11, <2>1, IssueGrows DEF FinishLogin, TypeOK, accounts, history
<1>12. ASSUME NEW w \in Workers, FinishDelete(w)
      PROVE  TokensHangTogether'
  <2> DEFINE rows == RowsOf(request[w].user)
  <2>1. /\ request' = OrphanedBy(w, rows)
        /\ outstanding' = outstanding \ rows /\ blacklisted' = blacklisted \ rows
        /\ wiped' = wiped \cup rows
        /\ rows \subseteq outstanding /\ rows \cap detached = {}
        /\ UNCHANGED <<owner, alive, detached, access, loggedOut, registered, active, deleted>>
    BY <1>12 DEF FinishDelete, RowsOf, accounts
  <2> HIDE DEF rows
  <2>2. /\ request' \in [Workers -> Request \cup {Idle}]
        /\ \A v \in Workers :
             \/ request'[v] = Idle
             \/ request'[v] = request[v] /\ (request[v].op = "blacklist" => request[v].token \notin rows)
             \/ /\ request[v].op = "blacklist"
                /\ request'[v].op = "orphan" /\ request'[v].token = request[v].token
    BY <2>1, <1>0, OrphanedByType
  <2>3. Idle.op = "idle"
    BY DEF Idle
  <2>4. TypeOK'
    BY <2>1, <2>2 DEF TypeOK
  <2>5. OnlyIssuedTokens'
    BY <2>1, <2>2, <2>3 DEF Issued
  <2>6. HeldRowsExist'
    BY <2>1, <2>2, <2>3
  <2> QED
    BY <2>1, <2>4, <2>5, <2>6
<1>13. ASSUME NEW w \in Workers, FinishLogout(w)
       PROVE  TokensHangTogether'
  <2>1. request[w].token \in Tokens
    BY <1>0, <1>13, BusyRequest DEF FinishLogout
  <2> QED
    BY <1>10, <1>13, <2>1 DEF FinishLogout, TypeOK, Issued, accounts
<1>14. ASSUME NEW w \in Workers, Abort(w)
       PROVE  TokensHangTogether'
  BY <1>10, <1>14 DEF Abort, TypeOK, Issued, accounts, tables, history
<1>15. ASSUME NEW t \in Tokens, Refresh(t) \/ ExpireAccess(t) \/ ExpireRefresh(t)
       PROVE  TokensHangTogether'
  BY <1>15 DEF Refresh, Accepted, ExpireAccess, ExpireRefresh, TypeOK, Issued, accounts, tables,
     history
<1>16. ASSUME NEW w \in Workers, GetOutstanding(w)
       PROVE  TokensHangTogether'
  <2>1. request[w].token \in Tokens
    BY <1>0, <1>16, BusyRequest DEF GetOutstanding
  <2>2. [op |-> "blacklist", token |-> request[w].token] \in Request
    BY <2>1 DEF Request
  <2>3. /\ request' \in [Workers -> Request \cup {Idle}]
        /\ \A v \in Workers : request'[v] = request[v] \/ request'[v].token = request[w].token
    BY <1>16, <2>2 DEF GetOutstanding, TypeOK
  <2> QED
    BY <1>16, <2>1, <2>3 DEF GetOutstanding, TypeOK, Issued, accounts, history
<1>17. ASSUME NEW t \in Tokens, Forget(t)
       PROVE  TokensHangTogether'
  <2>1. Issued' = Issued \ {t} /\ owner' \in [Tokens -> Users \cup {NoUser}]
    BY <1>17 DEF Forget, TypeOK, Issued
  <2>2. \A v \in Workers : request[v].op \in LoggingOut => request[v].token # t
    BY <1>17 DEF Forget
  <2>3. TypeOK'
    BY <1>17, <2>1 DEF Forget, TypeOK, accounts
  <2>4. alive \cap {t} = {} /\ access \cap {t} = {} /\ UNCHANGED <<alive, access, request>>
    BY <1>17 DEF Forget
  <2>5. /\ outstanding' = outstanding \ {t} /\ detached' = detached \ {t}
        /\ blacklisted' = blacklisted \ {t} /\ loggedOut' = loggedOut \ {t}
        /\ wiped' = wiped \ {t}
    BY <1>17 DEF Forget
  <2>6. OnlyIssuedTokens' /\ HeldRowsExist'
    BY <2>1, <2>2, <2>4, <2>5
  <2>7. LoggedOutStaysBlacklisted'
    BY <2>5
  <2>8. BlacklistHangsTogether' /\ WipedRowsReturnOwnerless'
    BY <2>5
  <2> QED
    BY <2>3, <2>6, <2>7, <2>8
<1> QED
  BY <1>1, <1>4, <1>5, <1>7, <1>8, <1>9, <1>11, <1>12, <1>13, <1>14, <1>15, <1>16,
     <1>17 DEF Next

\* A row is there before its status is, and before a copy of it.
LEMMA NextStatusesHaveRows ==
  ASSUME TypeOK, StatusesHaveRows, [Next]_vars
  PROVE  StatusesHaveRows'
<1> USE DEF StatusesHaveRows
<1>1. CASE UNCHANGED vars
  BY <1>1 DEF vars
<1>2. ASSUME NEW w \in Workers, NEW r, request' = [request EXCEPT ![w] = r],
             r.op \in {"register", "save", "delete"} => r.user \in registered',
             registered \subseteq registered'
      PROVE  \A v \in Workers : request'[v].op \in {"register", "save", "delete"}
                                  => request'[v].user \in registered'
  BY <1>2 DEF TypeOK
<1>3. ASSUME NEW w \in Workers, NEW u \in Users, NEW op, NEW status, Load(w, op, u, status)
      PROVE  StatusesHaveRows'
  <2> DEFINE r == [op |-> op, user |-> u, status |-> status]
  <2>1. r.user \in registered' /\ request' = [request EXCEPT ![w] = r]
    BY <1>3 DEF Load, Start, accounts
  <2> HIDE DEF r
  <2> QED
    BY <1>2, <1>3, <2>1 DEF Load, accounts
<1>4. ASSUME NEW w \in Workers, NEW u \in Users, BeginRegister(w, u)
      PROVE  StatusesHaveRows'
  <2> DEFINE r == [op |-> "register", user |-> u, status |-> [active |-> FALSE, deleted |-> FALSE]]
  <2>1. r.user \in registered' /\ request' = [request EXCEPT ![w] = r]
    BY <1>4 DEF BeginRegister, Start
  <2> HIDE DEF r
  <2> QED
    BY <1>2, <1>4, <2>1 DEF BeginRegister
<1>5. ASSUME NEW w \in Workers, NEW op \in {"register", "save", "delete"}, NEW next,
             next.op \notin {"register", "save", "delete"}, Save(w, op, next)
      PROVE  StatusesHaveRows'
  <2>1. request[w].user \in registered
    BY <1>5 DEF Save
  <2>2. active' \cup deleted' \subseteq active \cup deleted \cup {request[w].user}
    BY <1>5 DEF Save
  <2> QED
    BY <1>2, <1>5, <2>1, <2>2 DEF Save
<1>6. ASSUME NEW w \in Workers, SaveRegistered(w) \/ FinishSave(w) \/ SaveDeleted(w)
      PROVE  StatusesHaveRows'
  BY <1>5, <1>6 DEF SaveRegistered, FinishSave, SaveDeleted, Idle
<1>7. ASSUME NEW w \in Workers,
             \/ \E u \in Users : BeginLogin(w, u)
             \/ \E t \in Tokens : BeginLogout(w, t) \/ FinishLogin(w, t)
             \/ GetOutstanding(w) \/ FinishLogout(w) \/ Abort(w)
      PROVE  StatusesHaveRows'
  <2>1. PICK r : /\ request' = [request EXCEPT ![w] = r]
                 /\ r.op \in {"login", "logout", "blacklist", "idle"}
    BY <1>7 DEF BeginLogin, BeginLogout, Start, FinishLogin, GetOutstanding, FinishLogout, Abort,
       Stop, Idle
  <2>2. UNCHANGED accounts
    BY <1>7 DEF BeginLogin, BeginLogout, FinishLogin, GetOutstanding, FinishLogout, Abort
  <2> QED
    BY <1>2, <2>1, <2>2 DEF accounts
<1>8. ASSUME NEW w \in Workers, FinishDelete(w)
      PROVE  StatusesHaveRows'
  <2>1. request' = OrphanedBy(w, RowsOf(request[w].user))
    BY <1>8 DEF FinishDelete
  <2>2. \A v \in Workers : \/ request'[v] = request[v]
                           \/ request'[v].op \in {"idle", "orphan"}
    BY <2>1, OrphanedByType DEF Idle
  <2> QED
    BY <1>8, <2>2 DEF FinishDelete, accounts
<1>9. ASSUME NEW t \in Tokens, Refresh(t) \/ ExpireAccess(t) \/ ExpireRefresh(t) \/ Forget(t)
      PROVE  StatusesHaveRows'
  BY <1>9 DEF Refresh, ExpireAccess, ExpireRefresh, Forget, accounts
<1> QED
  BY <1>1, <1>3, <1>4, <1>6, <1>7, <1>8, <1>9
     DEF Next, BeginVerify, BeginReactivate, BeginEdit, BeginDelete

LEMMA NextIInv ==
  ASSUME IInv, [Next]_vars
  PROVE  IInv'
  BY NextTokensHangTogether, NextStatusesHaveRows DEF IInv, TokensHangTogether

\* The inductive invariant holds in every reachable state.
THEOREM SessionsIInv == Spec => []IInv
  BY InitIInv, NextIInv, PTL DEF Spec

\* Every table, token set and thread state keeps its type.
THEOREM SessionsTypeCorrect == Spec => []TypeOK
<1>1. IInv => TypeOK
  BY DEF IInv
<1> QED
  BY <1>1, SessionsIInv, PTL

\* A logged-out token stays blacklisted unless an account deletion removed
\* its rows, however logins, logouts and deletions overlap.
THEOREM LogoutHolds == Spec => []LoggedOutStaysBlacklisted
<1>1. IInv => LoggedOutStaysBlacklisted
  BY DEF IInv
<1> QED
  BY <1>1, SessionsIInv, PTL

\* Every blacklisted token keeps its outstanding row through overlapping
\* logouts and deletions.
THEOREM BlacklistHangsTogetherHolds == Spec => []BlacklistHangsTogether
<1>1. IInv => BlacklistHangsTogether
  BY DEF IInv
<1> QED
  BY <1>1, SessionsIInv, PTL

\* A logged-out session without an access token gets no new one, unless an
\* account deletion removed its rows.
THEOREM NoAccessAfterLogoutHolds == Spec => NoAccessAfterLogout
<1>1. ASSUME IInv, [Next]_vars
      PROVE  [\A t \in loggedOut \ (wiped \cup access) : t \in wiped' \/ t \notin access']_vars
  <2> SUFFICES ASSUME Next, NEW t \in loggedOut, t \notin wiped, t \notin access
               PROVE  t \notin access'
    BY <1>1
  <2>1. t \in blacklisted /\ t \in Issued /\ TypeOK
    BY <1>1 DEF IInv, LoggedOutStaysBlacklisted, OnlyIssuedTokens
  <2>2. ASSUME NEW u \in Users, NEW s \in Tokens, Issue(u, s)
        PROVE  t \notin access'
    BY <2>1, <2>2 DEF Issue
  <2>4. CASE \E w \in Workers, s \in Tokens : FinishLogin(w, s)
    <3> PICK w \in Workers, s \in Tokens : FinishLogin(w, s)
      BY <2>4
    <3> QED
      BY <2>1, <2>2, BusyRequest DEF FinishLogin
  <2>5. CASE \E s \in Tokens : Refresh(s)
    BY <2>1, <2>5 DEF Refresh, Accepted
  <2>6. CASE \E s \in Tokens : ExpireAccess(s)
    BY <2>6 DEF ExpireAccess
  <2>7. CASE UNCHANGED access
    BY <2>7
  <2> QED
    BY <2>4, <2>5, <2>6, <2>7 DEF Next, BeginRegister, BeginVerify, BeginReactivate,
       BeginEdit, BeginDelete, Load, SaveRegistered, FinishSave, SaveDeleted, Save,
       BeginLogin, BeginLogout, FinishDelete, GetOutstanding, FinishLogout, Abort, ExpireRefresh,
       Forget
<1> QED
  BY <1>1, SessionsIInv, PTL DEF Spec, NoAccessAfterLogout

\* What a thread holds changes with its request, what the others hold does not.
LEMMA CopiesFollow ==
  ASSUME TypeOK, NEW w \in Workers, NEW r, request' = [request EXCEPT ![w] = r]
  PROVE  /\ Copies[w] = CopyOf(request[w])
         /\ Copies' = [Copies EXCEPT ![w] = CopyOf(r)]
  BY DEF TypeOK, Copies

\* No handler but one that holds a copy of a row changes the rows.
LEMMA TokensLeaveRows ==
  ASSUME TypeOK, NEW w \in Workers, NEW r, request' = [request EXCEPT ![w] = r],
         CopyOf(request[w]) = Idle, CopyOf(r) = Idle, UNCHANGED accounts
  PROVE  UNCHANGED Table!vars
<1>1. Copies' = Copies
  BY CopiesFollow DEF Copies
<1> QED
  BY <1>1 DEF Table!vars, accounts, Statuses, Status

\* A status is what its two columns say.
LEMMA StatusColumns ==
  ASSUME NEW u \in Users
  PROVE  /\ Statuses[u] = Status(u)
         /\ u \in active => Statuses[u].active
         /\ u \in deleted => Statuses[u].deleted
<1>1. Statuses[u] = Status(u)
  BY DEF Statuses
<1>2. (u \in active => Status(u).active) /\ (u \in deleted => Status(u).deleted)
  BY DEF Status
<1> QED
  BY <1>1, <1>2, Zenon

\* Loading a row is AccountStatus's Load, for each of the edits.
LEMMA LoadIsLoad ==
  ASSUME TypeOK, NEW w \in Workers, NEW u \in Users, NEW op \in {"save", "delete"}, NEW status,
         Load(w, op, u, status)
  PROVE  Table!Load(w, u, status)
<1> DEFINE r == [op |-> op, user |-> u, status |-> status]
<1>1. request' = [request EXCEPT ![w] = r]
  BY DEF Load, Start
<1>2. CopyOf(r) = [user |-> u, status |-> status]
  BY DEF CopyOf
<1> HIDE DEF r
<1>3. CopyOf(request[w]) = Idle
  BY DEF Load, Start, CopyOf, Idle
<1>4. Copies[w] = Idle /\ Copies' = [Copies EXCEPT ![w] = [user |-> u, status |-> status]]
  BY <1>1, <1>2, <1>3, CopiesFollow
<1>5. UNCHANGED Statuses
  BY DEF Load, accounts, Statuses, Status
<1> QED
  BY <1>4, <1>5 DEF Table!Load, Table!NoCopy, Table!Copy, Idle, Load, accounts

\* Saving a row writes the status that was loaded and edited.
LEMMA SaveIsSave ==
  ASSUME TypeOK, NEW w \in Workers, NEW op \in {"register", "save", "delete"}, NEW next,
         CopyOf(next) = Idle, Save(w, op, next)
  PROVE  Table!Save(w)
<1> DEFINE r == request[w]
<1>1. r \in Request
  BY DEF TypeOK, Save, Idle
<1>2. r.user \in Users /\ r.status \in [active: BOOLEAN, deleted: BOOLEAN]
  BY <1>1 DEF Request, Save, LoggingOut
<1>3. Copies[w] = [user |-> r.user, status |-> r.status] /\ Copies' = [Copies EXCEPT ![w] = Idle]
  BY CopiesFollow DEF Save, CopyOf
<1>4. Copies[w] # Idle
  BY <1>3 DEF Idle
<1>5. ASSUME NEW u \in Users
      PROVE  Status(u)' = IF u = r.user THEN r.status ELSE Status(u)
  BY <1>2 DEF Save, Status
<1>6. Statuses' = [Statuses EXCEPT ![r.user] = r.status]
  BY <1>2, <1>5 DEF Statuses
<1> QED
  BY <1>3, <1>4, <1>6 DEF Table!Save, Table!NoCopy, Idle, Save

\* A thread that stops gives up what it holds, if anything.
LEMMA AbortIsDrop ==
  ASSUME TypeOK, NEW w \in Workers, Abort(w)
  PROVE  Table!Drop(w) \/ UNCHANGED Table!vars
<1>1. request' = [request EXCEPT ![w] = Idle] /\ UNCHANGED accounts
  BY DEF Abort, Stop
<1>2. CopyOf(Idle) = Idle
  BY DEF CopyOf, Idle
<1>3. CASE CopyOf(request[w]) = Idle
  BY <1>1, <1>2, <1>3, TokensLeaveRows
<1>4. CASE CopyOf(request[w]) # Idle
  <2>1. Copies[w] # Idle /\ Copies' = [Copies EXCEPT ![w] = Idle]
    BY <1>1, <1>2, <1>4, CopiesFollow
  <2> QED
    BY <1>1, <2>1 DEF Table!Drop, Table!NoCopy, Idle, accounts, Statuses, Status
<1> QED
  BY <1>3, <1>4

\* Every step is one of AccountStatus, or leaves rows and copies alone.
LEMMA StepIsStatusStep ==
  ASSUME IInv, [Next]_vars
  PROVE  [Table!Next]_(Table!vars)
<1> USE DEF Table!Next
<1>0. TypeOK /\ deleted \subseteq registered
  BY DEF IInv, StatusesHaveRows
<1>1. CASE UNCHANGED vars
  BY <1>1 DEF vars, Table!vars, Statuses, Status, Copies
<1>2. ASSUME NEW w \in Workers, NEW u \in Users, BeginRegister(w, u)
      PROVE  Table!Next
  <2> DEFINE r == [op |-> "register", user |-> u, status |-> Table!Pending]
  <2>1. request' = [request EXCEPT ![w] = r]
    BY <1>2 DEF BeginRegister, Start, Table!Pending
  <2>2. CopyOf(r) = [user |-> u, status |-> Table!Pending] /\ CopyOf(request[w]) = Idle
    BY <1>2 DEF BeginRegister, Start, CopyOf, Idle
  <2> HIDE DEF r
  <2>3. Copies[w] = Idle /\ Copies' = [Copies EXCEPT ![w] = [user |-> u, status |-> Table!Pending]]
    BY <2>1, <2>2, <1>0, CopiesFollow
  <2>4. ASSUME NEW v \in Users
        PROVE  Status(v)' = IF v = u THEN Table!New ELSE Status(v)
    <3>1. (v \in active)' = (v = u \/ v \in active) /\ (v \in deleted)' = (v \in deleted)
      BY <1>2 DEF BeginRegister
    <3>2. CASE v = u
      <4>1. (v \in active)' = TRUE /\ (v \in deleted)' = FALSE
        BY <1>0, <1>2, <3>1, <3>2 DEF BeginRegister
      <4> QED
        BY <3>2, <4>1, Zenon DEF Status, Table!New
    <3>3. CASE v # u
      BY <3>1, <3>3 DEF Status
    <3> QED
      BY <3>2, <3>3
  <2>5. Statuses' = [Statuses EXCEPT ![u] = Table!New]
    BY <2>4 DEF Statuses
  <2>6. Table!Register(w, u)
    BY <1>2, <2>3, <2>5 DEF BeginRegister, Table!Register, Table!NoCopy, Table!Copy, Idle
  <2> QED
    BY <2>6
<1>3. ASSUME NEW w \in Workers, NEW u \in Users,
             \/ BeginVerify(w, u) \/ BeginReactivate(w, u) \/ BeginEdit(w, u) \/ BeginDelete(w, u)
      PROVE  Table!Next
  <2>1. Statuses[u] = Status(u)
    BY StatusColumns
  <2>2. CASE BeginVerify(w, u)
    <3>1. Table!LoadToVerify(w, u)
      BY <2>1, <2>2, <1>0, LoadIsLoad DEF BeginVerify, Table!LoadToVerify
    <3> QED
      BY <3>1
  <2>3. CASE BeginReactivate(w, u)
    <3>1. Table!Load(w, u, Table!New) /\ u \in deleted
      BY <2>3, <1>0, LoadIsLoad DEF BeginReactivate, Table!New
    <3>2. Statuses[u].deleted
      BY <3>1, StatusColumns
    <3>3. Table!LoadToReactivate(w, u)
      BY <3>1, <3>2, Zenon DEF Table!LoadToReactivate
    <3> QED
      BY <3>3
  <2>4. CASE BeginEdit(w, u)
    <3>1. Table!LoadToEdit(w, u)
      BY <2>1, <2>4, <1>0, LoadIsLoad DEF BeginEdit, Table!LoadToEdit
    <3> QED
      BY <3>1
  <2>5. CASE BeginDelete(w, u)
    <3>1. Table!Load(w, u, Table!Deleted) /\ u \in active
      BY <2>5, <1>0, LoadIsLoad DEF BeginDelete, SignedIn, Table!Deleted
    <3>2. Statuses[u].active
      BY <3>1, StatusColumns
    <3>3. Table!LoadToDelete(w, u)
      BY <3>1, <3>2, Zenon DEF Table!LoadToDelete
    <3> QED
      BY <3>3
  <2> QED
    BY <1>3, <2>2, <2>3, <2>4, <2>5
<1>4. ASSUME NEW w \in Workers, SaveRegistered(w) \/ FinishSave(w) \/ SaveDeleted(w)
      PROVE  Table!Next
  <2>1. ASSUME NEW op \in {"login", "wipe"}
        PROVE  CopyOf([op |-> op, user |-> request[w].user]) = Idle
    BY DEF CopyOf
  <2>2. CopyOf(Idle) = Idle
    BY DEF CopyOf, Idle
  <2> QED
    BY <1>4, <2>1, <2>2, <1>0, SaveIsSave DEF SaveRegistered, FinishSave, SaveDeleted
<1>5. ASSUME NEW w \in Workers, Abort(w)
      PROVE  [Table!Next]_(Table!vars)
  BY <1>5, <1>0, AbortIsDrop
<1>6. ASSUME NEW w \in Workers,
             \/ \E u \in Users : BeginLogin(w, u)
             \/ \E t \in Tokens : BeginLogout(w, t) \/ FinishLogin(w, t)
             \/ GetOutstanding(w) \/ FinishLogout(w)
      PROVE  UNCHANGED Table!vars
  <2>1. PICK r : /\ request' = [request EXCEPT ![w] = r]
                 /\ r.op \in {"login", "logout", "blacklist", "idle"}
    BY <1>6 DEF BeginLogin, BeginLogout, Start, FinishLogin, GetOutstanding, FinishLogout, Stop, Idle
  <2>2. request[w].op \in {"idle", "login", "logout", "blacklist"}
    BY <1>6 DEF BeginLogin, BeginLogout, Start, FinishLogin, GetOutstanding, FinishLogout, Idle
  <2>3. CopyOf(r) = Idle /\ CopyOf(request[w]) = Idle
    BY <2>1, <2>2 DEF CopyOf
  <2>4. UNCHANGED accounts
    BY <1>6 DEF BeginLogin, BeginLogout, FinishLogin, GetOutstanding, FinishLogout
  <2> QED
    BY <2>1, <2>3, <2>4, <1>0, TokensLeaveRows
<1>7. ASSUME NEW w \in Workers, FinishDelete(w)
      PROVE  UNCHANGED Table!vars
  <2>1. CopyOf(Idle) = Idle /\ CopyOf(request[w]) = Idle
    BY <1>7 DEF FinishDelete, CopyOf, Idle
  <2>2. request' = OrphanedBy(w, RowsOf(request[w].user))
    BY <1>7 DEF FinishDelete
  <2>3. ASSUME NEW v \in Workers
        PROVE  CopyOf(request'[v]) = CopyOf(request[v])
    <3>1. CASE v = w
      BY <1>0, <2>1, <2>2, <3>1, OrphanedByType
    <3>2. CASE v # w
      <4>1. \/ request'[v] = request[v]
            \/ request[v].op = "blacklist" /\ request'[v].op = "orphan"
        BY <1>0, <2>2, <3>2, OrphanedByType
      <4> QED
        BY <4>1 DEF CopyOf
    <3> QED
      BY <3>1, <3>2
  <2>4. UNCHANGED Copies
    BY <2>3 DEF Copies
  <2> QED
    BY <1>7, <2>4 DEF FinishDelete, accounts, Table!vars, Statuses, Status
<1>8. ASSUME NEW t \in Tokens, Refresh(t) \/ ExpireAccess(t) \/ ExpireRefresh(t) \/ Forget(t)
      PROVE  UNCHANGED Table!vars
  BY <1>8 DEF Refresh, ExpireAccess, ExpireRefresh, Forget, accounts, Table!vars, Statuses, Status,
     Copies
<1> QED
  BY <1>1, <1>2, <1>3, <1>4, <1>5, <1>6, <1>7, <1>8 DEF Next

\* The rows that sessions read are the table that AccountStatus describes, which
\* the handlers of Accounts implement too.
THEOREM SessionsImplementStatus == Spec => StatusSpec
<1>1. Init => Table!Init
  <2> SUFFICES ASSUME Init
               PROVE  Table!Init
    OBVIOUS
  <2>1. CopyOf(Idle) = Table!NoCopy
    BY DEF CopyOf, Idle, Table!NoCopy
  <2>2. ASSUME NEW u \in Users
        PROVE  Status(u) = Table!Pending
    <3>1. (u \in active) = FALSE /\ (u \in deleted) = FALSE
      BY DEF Init
    <3> QED
      BY <3>1, Zenon DEF Status, Table!Pending
  <2>3. registered = {} /\ request = [w \in Workers |-> Idle]
    BY DEF Init
  <2> QED
    BY <2>1, <2>2, <2>3 DEF Table!Init, Statuses, Copies
<1> QED
  BY <1>1, StepIsStatusStep, SessionsIInv, PTL DEF Spec, StatusSpec, Table!Spec

\* Sockets do to the tokens nothing that sessions do not: with the handshakes
\* and without, the same is true of the token tables.
THEOREM SocketsImplementSessions == SocketsSpec => Spec
<1>1. SocketsInit => Init
  BY DEF SocketsInit
<1>2. [SocketsNext]_socketVars => [Next]_vars
  BY DEF SocketsNext, socketVars, vars, Handshake, Close
<1> QED
  BY <1>1, <1>2, PTL DEF SocketsSpec, Spec

\* The inductive invariant of the token tables holds beside sockets as well.
THEOREM SocketsKeepIInv == SocketsSpec => []IInv
  BY SocketsImplementSessions, SessionsIInv, PTL

\* Beside sockets, too, rows are loaded, edited and saved as AccountStatus says.
THEOREM SocketsImplementStatus == SocketsSpec => StatusSpec
  BY SocketsImplementSessions, SessionsImplementStatus, PTL

=============================================================================
