------------------------------ MODULE Sessions ------------------------------
(***************************************************************************)
(* Refresh and access tokens: LoginView, LogoutView, RegisterView and      *)
(* DeleteAccountView of accounts/views.py, and the token_blacklist tables  *)
(* and refresh endpoint of rest_framework_simplejwt as they are used       *)
(* there.  What a WebSocket does with an access token is added by Sockets. *)
(*                                                                         *)
(* A refresh token is valid by its signature and expiry alone, unless a    *)
(* BlacklistedToken row names its jti; that row hangs off an               *)
(* OutstandingToken row and is deleted with it (CASCADE).  Login, logout   *)
(* and account deletion are several queries each, so each is a Begin...    *)
(* action of one server thread, a Finish... action, and one for each query *)
(* between them.  Account rows are loaded, edited and saved as a whole,    *)
(* which is the subject of module Accounts; here a row says who is active  *)
(* and who is deleted, so that a save overtaken by another brings back an  *)
(* older status.                                                           *)
(*                                                                         *)
(* Tokens is a finite set of names for jtis, of which the program has no   *)
(* end: Forget gives the name of a token that is no longer of use to       *)
(* anybody back, for a later login.                                        *)
(***************************************************************************)
EXTENDS Naturals, FiniteSets

CONSTANTS
    Users,
    Tokens,     \* refresh tokens, by jti
    Workers,    \* server threads
    NoUser      \* the owner of a token that was not issued yet

ASSUME SessionsAssumption == NoUser \notin Users

VARIABLES
    registered,     \* users with an account row
    active,         \* users with is_active
    deleted,        \* users with is_deleted
    owner,          \* owner[t]: the user_id claim of refresh token t
    alive,          \* refresh tokens not past their exp claim
    outstanding,    \* tokens with an OutstandingToken row
    detached,       \* those among them whose row has no user
    blacklisted,    \* tokens with a BlacklistedToken row
    access,         \* refresh tokens that have an unexpired access token
    request,        \* request[w]: what thread w is in the middle of
    loggedOut,      \* history: tokens whose logout was answered with success
    wiped           \* history: tokens whose rows an account deletion removed

accounts == <<registered, active, deleted>>
tables == <<outstanding, detached, blacklisted>>
history == <<loggedOut, wiped>>
vars == <<registered, active, deleted, owner, alive, outstanding, detached, blacklisted,
          access, request, loggedOut, wiped>>

\* What the row of u says.
Status(u) == [active |-> u \in active, deleted |-> u \in deleted]

\* "register", "save" and "delete" are about to save a row with the given
\* status, "login" to issue a token and "wipe" to remove a deleted user's.
\* "logout" is about to look for the token's OutstandingToken row, "blacklist"
\* holds that row, and "orphan" holds one that was deleted meanwhile.
Idle == [op |-> "idle"]
LoggingOut == {"logout", "blacklist", "orphan"}
Request ==
    [op: {"register", "save", "delete"}, user: Users, status: [active: BOOLEAN, deleted: BOOLEAN]]
    \cup [op: {"login", "wipe"}, user: Users]
    \cup [op: LoggingOut, token: Tokens]

Issued == {t \in Tokens : owner[t] # NoUser}

\* The user has an access token that JWTAuthentication accepts.
SignedIn(u) == u \in active /\ \E t \in access : owner[t] = u

\* Mutant: the blacklist is not looked at.
AcceptedUnlessExpired(t) == t \in Issued /\ t \in alive

\* What RefreshToken(...) checks of a presented refresh token.
Accepted(t) == t \in Issued /\ t \in alive /\ t \notin blacklisted

Init ==
    /\ registered = {} /\ active = {} /\ deleted = {}
    /\ owner = [t \in Tokens |-> NoUser]
    /\ alive = {} /\ access = {}
    /\ outstanding = {} /\ detached = {} /\ blacklisted = {}
    /\ request = [w \in Workers |-> Idle]
    /\ loggedOut = {} /\ wiped = {}

\* RefreshToken.for_user(u) and its first access token.
Issue(u, t) ==
    /\ t \notin Issued
    /\ owner' = [owner EXCEPT ![t] = u]
    /\ alive' = alive \cup {t}
    /\ access' = access \cup {t}
    /\ outstanding' = outstanding \cup {t}
    /\ UNCHANGED <<detached, blacklisted>>

Start(w, r) ==
    /\ request[w] = Idle
    /\ request' = [request EXCEPT ![w] = r]

Stop(w) == request' = [request EXCEPT ![w] = Idle]

-----------------------------------------------------------------------------
(* Accounts. *)

\* A handler loads the row of u and holds it with the status as edited.
Load(w, op, u, status) ==
    /\ u \in registered
    /\ Start(w, [op |-> op, user |-> u, status |-> status])
    /\ UNCHANGED <<owner, alive, access>>
    /\ UNCHANGED accounts /\ UNCHANGED tables /\ UNCHANGED history

\* Mutant: is_active is left alone.
DeleteKeepsActive(w, u) ==
    SignedIn(u) /\ Load(w, "delete", u, [active |-> TRUE, deleted |-> TRUE])

\* VerifyEmailView, ReactivateAccountView, DeleteAccountView, and the handlers
\* that edit other columns.
BeginVerify(w, u) == Load(w, "save", u, [Status(u) EXCEPT !.active = TRUE])
BeginReactivate(w, u) ==
    u \in deleted /\ Load(w, "save", u, [active |-> TRUE, deleted |-> FALSE])
BeginDelete(w, u) ==
    SignedIn(u) /\ Load(w, "delete", u, [active |-> FALSE, deleted |-> TRUE])
BeginEdit(w, u) == Load(w, "save", u, Status(u))

\* user.save(), after which the thread goes on with next.
Save(w, op, next) ==
    LET r == request[w] IN
    /\ r.op = op
    /\ active' = IF r.status.active THEN active \cup {r.user} ELSE active \ {r.user}
    /\ deleted' = IF r.status.deleted THEN deleted \cup {r.user} ELSE deleted \ {r.user}
    /\ request' = [request EXCEPT ![w] = next]
    /\ UNCHANGED <<registered, owner, alive, access>>
    /\ UNCHANGED tables /\ UNCHANGED history

FinishSave(w) == Save(w, "save", Idle)

\* RegisterView: the row is created active and saved again inactive, then the
\* client gets its tokens.
BeginRegister(w, u) ==
    /\ u \notin registered
    /\ Start(w, [op |-> "register", user |-> u, status |-> [active |-> FALSE, deleted |-> FALSE]])
    /\ registered' = registered \cup {u}
    /\ active' = active \cup {u}
    /\ UNCHANGED <<deleted, owner, alive, access>>
    /\ UNCHANGED tables /\ UNCHANGED history

SaveRegistered(w) == Save(w, "register", [op |-> "login", user |-> request[w].user])

\* DeleteAccountView: the row is saved first, ...
SaveDeleted(w) == Save(w, "delete", [op |-> "wipe", user |-> request[w].user])

\* The OutstandingToken rows of u, and what becomes of the requests when thread
\* w deletes some: a logout that holds one of them is left without.
RowsOf(u) == {t \in outstanding \ detached : owner[t] = u}
Orphaned(r, rows) ==
    IF r.op = "blacklist" /\ r.token \in rows THEN [op |-> "orphan", token |-> r.token] ELSE r
OrphanedBy(w, rows) ==
    [v \in Workers |-> IF v = w THEN Idle ELSE Orphaned(request[v], rows)]

\* Mutant: without CASCADE.
DeleteLeavesBlacklist(w) ==
    /\ request[w].op = "wipe"
    /\ LET rows == RowsOf(request[w].user) IN
           /\ outstanding' = outstanding \ rows
           /\ wiped' = wiped \cup rows
           /\ request' = OrphanedBy(w, rows)
    /\ UNCHANGED <<owner, alive, detached, blacklisted, access, loggedOut>>
    /\ UNCHANGED accounts

\* ... then OutstandingToken.objects.filter(user=user).delete(), which takes
\* the BlacklistedToken rows along.
FinishDelete(w) ==
    /\ request[w].op = "wipe"
    /\ LET rows == RowsOf(request[w].user) IN
           /\ outstanding' = outstanding \ rows
           /\ blacklisted' = blacklisted \ rows
           /\ wiped' = wiped \cup rows
           /\ request' = OrphanedBy(w, rows)
    /\ UNCHANGED <<owner, alive, detached, access, loggedOut>> /\ UNCHANGED accounts

-----------------------------------------------------------------------------
(* Tokens. *)

\* Mutant: deactivated users may log in.
LoginAny(w, u) ==
    /\ u \in registered
    /\ Start(w, [op |-> "login", user |-> u])
    /\ UNCHANGED <<owner, alive, access>>
    /\ UNCHANGED accounts /\ UNCHANGED tables /\ UNCHANGED history

\* LoginView: the user is loaded and found active, then a token is issued.
BeginLogin(w, u) ==
    /\ u \in active
    /\ Start(w, [op |-> "login", user |-> u])
    /\ UNCHANGED <<owner, alive, access>>
    /\ UNCHANGED accounts /\ UNCHANGED tables /\ UNCHANGED history

\* The same ends a registration.
FinishLogin(w, t) ==
    /\ request[w].op = "login"
    /\ Issue(request[w].user, t)
    /\ Stop(w)
    /\ UNCHANGED accounts /\ UNCHANGED history

\* LogoutView, open to any authenticated user for any refresh token:
\* RefreshToken(...) checks the token, ...
BeginLogout(w, t) ==
    /\ \E u \in Users : SignedIn(u)
    /\ Accepted(t)
    /\ Start(w, [op |-> "logout", token |-> t])
    /\ UNCHANGED <<owner, alive, access>>
    /\ UNCHANGED accounts /\ UNCHANGED tables /\ UNCHANGED history

\* ... blacklist() gets the OutstandingToken row with its jti, or creates one,
\* which has no user, ...
GetOutstanding(w) ==
    /\ request[w].op = "logout"
    /\ LET t == request[w].token IN
           /\ outstanding' = outstanding \cup {t}
           /\ detached' = IF t \in outstanding THEN detached ELSE detached \cup {t}
           /\ request' = [request EXCEPT ![w] = [op |-> "blacklist", token |-> t]]
    /\ UNCHANGED <<owner, alive, blacklisted, access>>
    /\ UNCHANGED accounts /\ UNCHANGED history

\* Mutant: the token is not blacklisted.
LogoutOnlyAnswers(w) ==
    /\ request[w].op = "blacklist"
    /\ loggedOut' = loggedOut \cup {request[w].token}
    /\ Stop(w)
    /\ UNCHANGED <<owner, alive, outstanding, detached, blacklisted, access, wiped>>
    /\ UNCHANGED accounts

\* ... and gets or creates the BlacklistedToken of that row, which fails when
\* the row is gone ("orphan").
FinishLogout(w) ==
    /\ request[w].op = "blacklist"
    /\ LET t == request[w].token IN
           /\ blacklisted' = blacklisted \cup {t}
           /\ loggedOut' = loggedOut \cup {t}
    /\ Stop(w)
    /\ UNCHANGED <<owner, alive, outstanding, detached, access, wiped>> /\ UNCHANGED accounts

\* A thread that dies, or fails, between two of its queries.
Abort(w) ==
    /\ request[w] # Idle
    /\ Stop(w)
    /\ UNCHANGED <<owner, alive, access>>
    /\ UNCHANGED accounts /\ UNCHANGED tables /\ UNCHANGED history

\* TokenRefreshView: neither the user row nor the outstanding row is read, and
\* with ROTATE_REFRESH_TOKENS False the refresh token stays as it is.
Refresh(t) ==
    /\ Accepted(t)
    /\ access' = access \cup {t}
    /\ UNCHANGED <<owner, alive, request>>
    /\ UNCHANGED accounts /\ UNCHANGED tables /\ UNCHANGED history

ExpireAccess(t) ==
    /\ t \in access
    /\ access' = access \ {t}
    /\ UNCHANGED <<owner, alive, request>>
    /\ UNCHANGED accounts /\ UNCHANGED tables /\ UNCHANGED history

ExpireRefresh(t) ==
    /\ t \in alive
    /\ alive' = alive \ {t}
    /\ UNCHANGED <<owner, access, request>>
    /\ UNCHANGED accounts /\ UNCHANGED tables /\ UNCHANGED history

\* An expired token without an access token, which no thread is about to log
\* out: its rows stay in the tables, where nothing that happens depends on them.
Forget(t) ==
    /\ t \in Issued \ (alive \cup access)
    /\ \A w \in Workers : request[w].op \in LoggingOut => request[w].token # t
    /\ owner' = [owner EXCEPT ![t] = NoUser]
    /\ outstanding' = outstanding \ {t}
    /\ detached' = detached \ {t}
    /\ blacklisted' = blacklisted \ {t}
    /\ loggedOut' = loggedOut \ {t}
    /\ wiped' = wiped \ {t}
    /\ UNCHANGED <<alive, access, request>> /\ UNCHANGED accounts

-----------------------------------------------------------------------------
Next ==
    \/ \E w \in Workers, u \in Users :
           \/ BeginRegister(w, u) \/ BeginVerify(w, u) \/ BeginReactivate(w, u)
           \/ BeginEdit(w, u) \/ BeginDelete(w, u) \/ BeginLogin(w, u)
    \/ \E w \in Workers, t \in Tokens : BeginLogout(w, t) \/ FinishLogin(w, t)
    \/ \E w \in Workers :
           \/ SaveRegistered(w) \/ FinishSave(w) \/ SaveDeleted(w)
           \/ FinishDelete(w) \/ GetOutstanding(w) \/ FinishLogout(w) \/ Abort(w)
    \/ \E t \in Tokens : Refresh(t) \/ ExpireAccess(t) \/ ExpireRefresh(t) \/ Forget(t)

Spec == Init /\ [][Next]_vars

-----------------------------------------------------------------------------
(* Properties. *)

TypeOK ==
    /\ registered \subseteq Users /\ active \subseteq Users /\ deleted \subseteq Users
    /\ owner \in [Tokens -> Users \cup {NoUser}]
    /\ alive \subseteq Tokens /\ access \subseteq Tokens
    /\ outstanding \subseteq Tokens /\ detached \subseteq Tokens /\ blacklisted \subseteq Tokens
    /\ request \in [Workers -> Request \cup {Idle}]
    /\ loggedOut \subseteq Tokens /\ wiped \subseteq Tokens

\* A token that was logged out stays blacklisted, whatever logins, logouts and
\* deletions overlap, unless an account deletion removed its rows.
LoggedOutStaysBlacklisted == loggedOut \ wiped \subseteq blacklisted

\* Every BlacklistedToken row has its OutstandingToken row (OneToOne, CASCADE).
BlacklistHangsTogether == blacklisted \cup detached \subseteq outstanding

\* A row that an account deletion removed comes back only through a logout
\* that was in flight, and then without a user: no later deletion of the account
\* finds it, whether or not the logout went on to blacklist it.
WipedRowsReturnOwnerless == wiped \cap outstanding \subseteq detached

\* Once logged out and out of access tokens, a session gets no new access
\* token, except after an account deletion removed its rows.
NoAccessAfterLogout ==
    [][\A t \in loggedOut \ (wiped \cup access) : t \in wiped' \/ t \notin access']_vars

\* The rows of the accounts are loaded, edited and saved as AccountStatus says
\* that they are, as module Accounts does it with all their columns.
Statuses == [u \in Users |-> Status(u)]
CopyOf(r) ==
    IF r.op \in {"register", "save", "delete"} THEN [user |-> r.user, status |-> r.status] ELSE Idle
Copies == [w \in Workers |-> CopyOf(request[w])]
Table == INSTANCE AccountStatus WITH status <- Statuses, copy <- Copies
StatusSpec == Table!Spec

-----------------------------------------------------------------------------
(* The inductive invariant behind the properties above. *)

\* Nothing is in the tables, or being logged out, before it was issued.
OnlyIssuedTokens ==
    /\ loggedOut \cup wiped \cup outstanding \cup alive \cup access \subseteq Issued
    /\ \A w \in Workers : request[w].op \in LoggingOut => request[w].token \in Issued

\* A row that a logout holds, and that no deletion took from it, is there.
HeldRowsExist ==
    \A w \in Workers : request[w].op = "blacklist" => request[w].token \in outstanding

\* Only users with a row have a status, or requests about it.
StatusesHaveRows ==
    /\ active \cup deleted \subseteq registered
    /\ \A w \in Workers :
           request[w].op \in {"register", "save", "delete"} => request[w].user \in registered

IInv ==
    /\ TypeOK
    /\ StatusesHaveRows
    /\ OnlyIssuedTokens
    /\ LoggedOutStaysBlacklisted
    /\ BlacklistHangsTogether
    /\ HeldRowsExist
    /\ WipedRowsReturnOwnerless
=============================================================================
