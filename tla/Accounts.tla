------------------------------ MODULE Accounts ------------------------------
(***************************************************************************)
(* The account rows of accounts/models.py and the request handlers of      *)
(* accounts/views.py that write them.                                      *)
(*                                                                         *)
(* Every handler loads one User object, edits it in memory and calls       *)
(* user.save(), which writes ALL columns of the object back.  There is no  *)
(* transaction around the two and no row lock, and the server runs         *)
(* requests concurrently, so a handler is two actions here: a Begin...     *)
(* action (load, checks, edit in memory) and a Finish... action (the       *)
(* save, the mail task and the answer).  In between other handlers may     *)
(* load and save the same row.                                             *)
(*                                                                         *)
(* Sessions and tokens are the subject of module Sessions; an              *)
(* authenticated handler is one that finds its user active here.           *)
(***************************************************************************)
EXTENDS Naturals, FiniteSets

CONSTANTS
    Users,      \* primary keys of accounts that may be registered
    Workers,    \* server threads, each with at most one request in flight
    Emails,     \* e-mail addresses
    Passwords,  \* passwords that pass validate_password
    MaxToken    \* bound: at most this many uuid4 / random-string tokens

ASSUME AccountsAssumption ==
    /\ MaxToken \in Nat
    /\ Emails # {}
    /\ Passwords # {}

VARIABLES
    registered,     \* users that have a row in the table
    row,            \* row[u]: the columns of u that some property depends on
    lastToken,      \* the last value of uuid.uuid4() / get_random_string(64)
    request,        \* request[w]: the handler thread w is in the middle of
    mailed,         \* links handed to the broker, for a mail that clients may get
    clicked,        \* history: users whose verification link was accepted
    chosen,         \* history: the password the last "success" answer confirmed
    consumed,       \* history: mailed reset tokens a "success" answer was given for
    clobbered       \* history: users some save of whom undid a newer save

records == <<registered, row, lastToken, request, mailed>>
history == <<clicked, chosen, consumed, clobbered>>
vars == <<registered, row, lastToken, request, mailed, clicked, chosen, consumed, clobbered>>

-----------------------------------------------------------------------------
(* Data. *)

NoToken == 0                    \* the empty string: the default of password_reset_token
Tokens == 1..MaxToken

Row == [email: Emails, password: Passwords,
        is_active: BOOLEAN, email_verified: BOOLEAN, is_deleted: BOOLEAN,
        email_verification_token: Tokens \cup {NoToken},
        password_reset_token: Tokens \cup {NoToken}]

\* The column defaults of the User model.
NewRow(e, p, t) ==
    [email |-> e, password |-> p, is_active |-> TRUE, email_verified |-> FALSE,
     is_deleted |-> FALSE, email_verification_token |-> t, password_reset_token |-> NoToken]

\* Stands in row for a user without a row; never read.
Blank == [email |-> CHOOSE e \in Emails : TRUE, password |-> CHOOSE p \in Passwords : TRUE,
          is_active |-> FALSE, email_verified |-> FALSE, is_deleted |-> FALSE,
          email_verification_token |-> NoToken, password_reset_token |-> NoToken]

Ops == {"register", "profile", "delete", "reactivate", "verify", "resend", "forgot",
        "reset", "password"}

\* A handler in flight: the edited object it is about to save, the token it
\* was called with, and whether the row was saved by another since its load.
Request == [op: Ops, user: Users, object: Row, token: Tokens \cup {NoToken}, stale: BOOLEAN]
Idle == [op |-> "idle"]

Link == [kind: {"verify", "reset"}, email: Emails, token: Tokens, owner: Users]

Taken(e, u) == \E other \in registered \ {u} : row[other].email = e

-----------------------------------------------------------------------------
(* The two halves of a handler. *)

\* Thread w loads u, passes the checks of op and holds the edited object.
Load(w, op, u, object, token) ==
    /\ request[w] = Idle
    /\ u \in registered
    /\ request' = [request EXCEPT ![w] = [op |-> op, user |-> u, object |-> object,
                                          token |-> token, stale |-> FALSE]]
    /\ UNCHANGED <<registered, row, mailed>>
    /\ UNCHANGED history

\* What a save of u does to the requests still in flight: their copy is old.
Overtaken(u, w) ==
    [v \in Workers |-> IF v = w THEN Idle
                       ELSE IF request[v] # Idle /\ request[v].user = u
                            THEN [request[v] EXCEPT !.stale = TRUE]
                            ELSE request[v]]

\* user.save(): every column is written; a duplicate e-mail is an IntegrityError.
Save(w, op) ==
    LET r == request[w] IN
    /\ r # Idle
    /\ r.op = op
    /\ ~Taken(r.object.email, r.user)
    /\ row' = [row EXCEPT ![r.user] = r.object]
    /\ request' = Overtaken(r.user, w)
    /\ clobbered' = IF r.stale THEN clobbered \cup {r.user} ELSE clobbered
    /\ UNCHANGED <<registered, lastToken>>

\* task.delay(); nothing is handed over when the process stops after the save
\* or the broker is down.  What becomes of the task is told by Onboarding.
Mail(kind, u, object, token) ==
    \/ mailed' = mailed \cup {[kind |-> kind, email |-> object.email,
                               token |-> token, owner |-> u]}
    \/ mailed' = mailed

\* n tokens that no one has seen; the bound on tokens is in this guard.
Draw(n) == lastToken + n <= MaxToken /\ lastToken' = lastToken + n

Init ==
    /\ registered = {}
    /\ row = [u \in Users |-> Blank]
    /\ lastToken = 0
    /\ request = [w \in Workers |-> Idle]
    /\ mailed = {}
    /\ clicked = {}
    /\ chosen = [u \in Users |-> Blank.password]
    /\ consumed = {}
    /\ clobbered = {}

-----------------------------------------------------------------------------
(* RegisterView.  The row is committed by create_user with is_active at its *)
(* default, True, and deactivated by a second save.                         *)

BeginRegister(w, u, e, p) ==
    LET object == NewRow(e, p, lastToken + 1) IN
    /\ request[w] = Idle
    /\ u \notin registered
    /\ ~Taken(e, u)
    /\ Draw(2)
    /\ registered' = registered \cup {u}
    /\ row' = [row EXCEPT ![u] = object]
    /\ chosen' = [chosen EXCEPT ![u] = p]
    /\ request' = [request EXCEPT ![w] =
           [op |-> "register", user |-> u, token |-> NoToken, stale |-> FALSE,
            object |-> [object EXCEPT !.is_active = FALSE,
                                      !.email_verification_token = lastToken + 2]]]
    /\ UNCHANGED <<mailed, clicked, consumed, clobbered>>

FinishRegister(w) ==
    LET r == request[w] IN
    /\ Save(w, "register")
    /\ Mail("verify", r.user, r.object, r.object.email_verification_token)
    /\ UNCHANGED <<clicked, chosen, consumed>>

-----------------------------------------------------------------------------
(* Handlers behind IsAuthenticated: JWTAuthentication loads request.user     *)
(* and refuses an inactive one.                                              *)

\* UpdateOnlineStatusView, UpdateProfileView and UpdateProfilePhotoView: of
\* the columns they edit only the e-mail address is modelled.
BeginProfile(w, u, e) ==
    /\ row[u].is_active
    /\ Load(w, "profile", u, [row[u] EXCEPT !.email = e], NoToken)
    /\ UNCHANGED lastToken

FinishProfile(w) ==
    /\ Save(w, "profile")
    /\ UNCHANGED <<mailed, clicked, chosen, consumed>>

\* Mutant: is_active is left alone.
DeleteKeepsActive(w, u) ==
    /\ row[u].is_active
    /\ Load(w, "delete", u, [row[u] EXCEPT !.is_deleted = TRUE], NoToken)
    /\ UNCHANGED lastToken

BeginDelete(w, u) ==
    /\ row[u].is_active
    /\ Load(w, "delete", u, [row[u] EXCEPT !.is_deleted = TRUE, !.is_active = FALSE], NoToken)
    /\ UNCHANGED lastToken

FinishDelete(w) ==
    /\ Save(w, "delete")
    /\ UNCHANGED <<mailed, clicked, chosen, consumed>>

BeginResend(w, u) ==
    /\ row[u].is_active
    /\ ~row[u].email_verified
    /\ Draw(1)
    /\ Load(w, "resend", u, [row[u] EXCEPT !.email_verification_token = lastToken + 1], NoToken)

\* Mutant: update_fields leaves the new token out.
ResendOnlyMails(w) ==
    LET r == request[w] IN
    /\ r # Idle /\ r.op = "resend"
    /\ request' = Overtaken(r.user, w)
    /\ Mail("verify", r.user, r.object, r.object.email_verification_token)
    /\ UNCHANGED <<registered, row, lastToken, clobbered, clicked, chosen, consumed>>

FinishResend(w) ==
    LET r == request[w] IN
    /\ Save(w, "resend")
    /\ Mail("verify", r.user, r.object, r.object.email_verification_token)
    /\ UNCHANGED <<clicked, chosen, consumed>>

BeginUpdatePassword(w, u, old, new) ==
    /\ row[u].is_active
    /\ row[u].password = old
    /\ Load(w, "password", u, [row[u] EXCEPT !.password = new], NoToken)
    /\ UNCHANGED lastToken

FinishUpdatePassword(w) ==
    LET r == request[w] IN
    /\ Save(w, "password")
    /\ chosen' = [chosen EXCEPT ![r.user] = r.object.password]
    /\ UNCHANGED <<mailed, clicked, consumed>>

-----------------------------------------------------------------------------
(* Handlers open to anyone who has the link, the password or the address.    *)

\* Mutants: whoever knows the password counts as verified; is_deleted is not asked.
ReactivateVerifies(w, u, e, p) ==
    /\ row[u].email = e /\ row[u].is_deleted /\ row[u].password = p
    /\ Load(w, "reactivate", u, [row[u] EXCEPT !.is_deleted = FALSE, !.is_active = TRUE,
                                               !.email_verified = TRUE], NoToken)
    /\ UNCHANGED lastToken

ReactivateAny(w, u, e, p) ==
    /\ row[u].email = e /\ row[u].password = p
    /\ Load(w, "reactivate", u, [row[u] EXCEPT !.is_deleted = FALSE, !.is_active = TRUE], NoToken)
    /\ UNCHANGED lastToken

BeginReactivate(w, u, e, p) ==
    /\ row[u].email = e
    /\ row[u].is_deleted
    /\ row[u].password = p
    /\ Load(w, "reactivate", u, [row[u] EXCEPT !.is_deleted = FALSE, !.is_active = TRUE], NoToken)
    /\ UNCHANGED lastToken

FinishReactivate(w) ==
    /\ Save(w, "reactivate")
    /\ UNCHANGED <<mailed, clicked, chosen, consumed>>

BeginVerify(w, u, link) ==
    /\ link.kind = "verify"
    /\ row[u].email = link.email
    /\ row[u].email_verification_token = link.token
    /\ Load(w, "verify", u, [row[u] EXCEPT !.email_verified = TRUE, !.is_active = TRUE],
            link.token)
    /\ UNCHANGED lastToken

FinishVerify(w) ==
    /\ Save(w, "verify")
    /\ clicked' = clicked \cup {request[w].user}
    /\ UNCHANGED <<mailed, chosen, consumed>>

\* Mutant: asking for a reset already drops the old password.
ForgotDropsPassword(w, u, e) ==
    /\ row[u].email = e
    /\ Draw(1)
    /\ Load(w, "forgot", u, [row[u] EXCEPT !.password_reset_token = lastToken + 1,
                                           !.password = Blank.password], NoToken)

BeginForgot(w, u, e) ==
    /\ row[u].email = e
    /\ Draw(1)
    /\ Load(w, "forgot", u, [row[u] EXCEPT !.password_reset_token = lastToken + 1], NoToken)

FinishForgot(w) ==
    LET r == request[w] IN
    /\ Save(w, "forgot")
    /\ Mail("reset", r.user, r.object, r.object.password_reset_token)
    /\ UNCHANGED <<clicked, chosen, consumed>>

\* Mutant: the token is not cleared.
ResetKeepsToken(w, u, e, token, new) ==
    /\ row[u].email = e /\ row[u].password_reset_token = token
    /\ Load(w, "reset", u, [row[u] EXCEPT !.password = new], token)
    /\ UNCHANGED lastToken

\* Mutant: whoever resets the password has shown that the address is his.
ResetActivates(w, u, e, token, new) ==
    /\ row[u].email = e /\ row[u].password_reset_token = token
    /\ Load(w, "reset", u, [row[u] EXCEPT !.password = new, !.password_reset_token = NoToken,
                                           !.is_active = TRUE], token)
    /\ UNCHANGED lastToken

\* The token of the request is compared and nothing else: the empty one
\* matches while no reset is asked for.
BeginReset(w, u, e, token, new) ==
    /\ row[u].email = e
    /\ row[u].password_reset_token = token
    /\ Load(w, "reset", u, [row[u] EXCEPT !.password = new, !.password_reset_token = NoToken],
            token)
    /\ UNCHANGED lastToken

FinishReset(w) ==
    LET r == request[w] IN
    /\ Save(w, "reset")
    /\ chosen' = [chosen EXCEPT ![r.user] = r.object.password]
    /\ consumed' = consumed \cup ({r.token} \ {NoToken})
    /\ UNCHANGED <<mailed, clicked>>

\* A handler that ends before its save: the process dies, validate_password
\* refuses, or the save raises IntegrityError.
Abort(w) ==
    /\ request[w] # Idle
    /\ request' = [request EXCEPT ![w] = Idle]
    /\ UNCHANGED <<registered, row, lastToken, mailed>>
    /\ UNCHANGED history

-----------------------------------------------------------------------------
\* Reset tokens that a request can carry.
ResetTokens(links) == {NoToken} \cup {link.token : link \in {l \in links : l.kind = "reset"}}

\* The links are those that clients have got.
Begin(w, links) ==
    \E u \in Users :
        \/ \E e \in Emails, p \in Passwords : BeginRegister(w, u, e, p)
        \/ \E e \in Emails : BeginProfile(w, u, e)
        \/ BeginDelete(w, u)
        \/ BeginResend(w, u)
        \/ \E old, new \in Passwords : BeginUpdatePassword(w, u, old, new)
        \/ \E e \in Emails, p \in Passwords : BeginReactivate(w, u, e, p)
        \/ \E link \in links : BeginVerify(w, u, link)
        \/ \E e \in Emails : BeginForgot(w, u, e)
        \/ \E e \in Emails, token \in ResetTokens(links), new \in Passwords :
               BeginReset(w, u, e, token, new)

Finish(w) ==
    \/ FinishRegister(w)
    \/ FinishProfile(w)
    \/ FinishDelete(w)
    \/ FinishResend(w)
    \/ FinishUpdatePassword(w)
    \/ FinishReactivate(w)
    \/ FinishVerify(w)
    \/ FinishForgot(w)
    \/ FinishReset(w)

Next == \E w \in Workers : Begin(w, mailed) \/ Finish(w) \/ Abort(w)

Spec == Init /\ [][Next]_vars

-----------------------------------------------------------------------------
(* Properties. *)

TypeOK ==
    /\ registered \subseteq Users
    /\ row \in [Users -> Row]
    /\ lastToken \in 0..MaxToken
    /\ request \in [Workers -> Request \cup {Idle}]
    /\ mailed \subseteq Link
    /\ clicked \subseteq Users
    /\ chosen \in [Users -> Passwords]
    /\ consumed \subseteq Tokens
    /\ clobbered \subseteq Users

\* An account is marked verified only after a link mailed for it was followed,
\* whatever full-row saves of other handlers are in flight (VerifyEmailView).
VerifiedByLink ==
    \A u \in registered : row[u].email_verified => u \in clicked

\* A link mailed for one account never opens another: tokens of different
\* users stay apart in the rows and in every stale copy still to be saved.
LinksOpenOwnAccount ==
    \A u \in registered, link \in mailed :
        (\/ row[u].email_verification_token = link.token
         \/ row[u].password_reset_token = link.token) => link.owner = u

\* The token of a reset link that changed the password is spent, unless a save
\* that was already in flight undid a newer one (PasswordResetConfirmView).
\* The empty token, which is in no link, is never spent.
ResetLinkSpent ==
    \A u \in registered \ clobbered : row[u].password_reset_token \notin consumed

\* The password in the row is the one the last successful answer confirmed,
\* unless a save that was already in flight undid a newer one.
PasswordAsConfirmed ==
    \A u \in registered \ clobbered : row[u].password = chosen[u]

\* A soft-deleted account that is usable without reactivation is a verified
\* one, whatever saves overlap: an account that never was verified, deleted, is
\* not made usable by a stale copy or by a handler for something else.
DeletedUsableOnlyByLink ==
    \A u \in registered : row[u].is_deleted /\ row[u].is_active => row[u].email_verified

\* The handlers implement the one-step edits of AccountService: a save whose
\* object is not stale is an edit of the row as it is at the save.
Service == INSTANCE AccountService WITH account <- row, damaged <- clobbered
ServiceSpec == Service!Spec

\* Of what the handlers do, AccountStatus tells what Sessions depends on.
StatusOf(r) == [active |-> r.is_active, deleted |-> r.is_deleted]
CopyOf(r) == IF r = Idle THEN Idle ELSE [user |-> r.user, status |-> StatusOf(r.object)]
Statuses == [u \in Users |-> StatusOf(row[u])]
Copies == [w \in Workers |-> CopyOf(request[w])]
Table == INSTANCE AccountStatus WITH status <- Statuses, copy <- Copies
StatusSpec == Table!Spec

-----------------------------------------------------------------------------
(* The inductive invariant behind the properties above. *)

Busy(w) == request[w] # Idle
TokensOf(r) == {r.email_verification_token, r.password_reset_token}

\* Handlers that draw a token, and the token no one else has seen so far.
Drawing(w) == Busy(w) /\ request[w].op \in {"register", "resend", "forgot"}
Drawn(w) ==
    IF request[w].op = "forgot" THEN request[w].object.password_reset_token
                                ELSE request[w].object.email_verification_token

\* The edit of each handler, as a relation between the row and the object.
IsEdit(op, old, new) ==
    \/ /\ op = "register"
       /\ old.is_active /\ ~old.email_verified
       /\ new = [old EXCEPT !.is_active = FALSE,
                            !.email_verification_token = new.email_verification_token]
    \/ /\ op = "profile"
       /\ old.is_active
       /\ new = [old EXCEPT !.email = new.email]
    \/ /\ op = "delete"
       /\ old.is_active
       /\ new = [old EXCEPT !.is_deleted = TRUE, !.is_active = FALSE]
    \/ /\ op = "reactivate"
       /\ old.is_deleted
       /\ new = [old EXCEPT !.is_deleted = FALSE, !.is_active = TRUE]
    \/ /\ op = "verify"
       /\ old.email_verification_token # NoToken
       /\ new = [old EXCEPT !.email_verified = TRUE, !.is_active = TRUE]
    \/ /\ op = "resend"
       /\ old.is_active /\ ~old.email_verified
       /\ new = [old EXCEPT !.email_verification_token = new.email_verification_token]
    \/ /\ op = "forgot"
       /\ new = [old EXCEPT !.password_reset_token = new.password_reset_token]
    \/ /\ op = "reset"
       /\ new = [old EXCEPT !.password = new.password, !.password_reset_token = NoToken]
    \/ /\ op = "password"
       /\ old.is_active
       /\ new = [old EXCEPT !.password = new.password]

\* A request is always about a registered user.
RequestsHaveRows == \A w \in Workers : Busy(w) => request[w].user \in registered

\* A request that no save has overtaken holds an edit of the row as it is now.
FreshIsEdit ==
    \A w \in Workers :
        Busy(w) /\ ~request[w].stale => IsEdit(request[w].op, row[request[w].user], request[w].object)

\* Every token in use has been drawn.
TokensDrawn ==
    /\ \A u \in Users : \A t \in TokensOf(row[u]) : t <= lastToken
    /\ \A w \in Workers : Busy(w) => \A t \in TokensOf(request[w].object) : t <= lastToken
    /\ \A link \in mailed : link.token <= lastToken

\* A drawn token is known to its handler only, until the handler saves.
DrawnIsPrivate ==
    \A w \in Workers : Drawing(w) =>
        /\ Drawn(w) # NoToken
        /\ \A u \in Users : Drawn(w) \notin TokensOf(row[u])
        /\ \A v \in Workers \ {w} : Busy(v) => Drawn(w) \notin TokensOf(request[v].object)
        /\ \A link \in mailed : link.token # Drawn(w)

\* A token, other than the empty one, that a handler was called with came from
\* a link mailed to its user.
PresentedWasMailed ==
    \A w \in Workers : Busy(w) /\ request[w].token # NoToken =>
        \E link \in mailed : link.token = request[w].token /\ link.owner = request[w].user

\* A mailed token is only ever found in copies of its owner's row.
MailedStaysHome ==
    \A link \in mailed :
        /\ \A u \in Users : link.token \in TokensOf(row[u]) => link.owner = u
        /\ \A w \in Workers :
               Busy(w) /\ link.token \in TokensOf(request[w].object) => link.owner = request[w].user

\* Only mailed tokens are ever consumed.
ConsumedWasMailed == \A t \in consumed : \E link \in mailed : link.token = t

\* Outside VerifyEmailView no object is marked verified without a click.
VerifiedCopies ==
    \A w \in Workers :
        Busy(w) /\ request[w].op # "verify" /\ request[w].object.email_verified
            => request[w].user \in clicked

\* No object that is about to be saved makes a deleted account usable, unless
\* the account is verified.
DeletedUsable(r) == r.is_deleted /\ r.is_active => r.email_verified
DeletedUsableCopies == \A w \in Workers : Busy(w) => DeletedUsable(request[w].object)

IInv ==
    /\ TypeOK
    /\ RequestsHaveRows
    /\ FreshIsEdit
    /\ TokensDrawn
    /\ DrawnIsPrivate
    /\ PresentedWasMailed
    /\ MailedStaysHome
    /\ ConsumedWasMailed
    /\ VerifiedCopies
    /\ VerifiedByLink
    /\ DeletedUsableCopies
    /\ DeletedUsableOnlyByLink
    /\ PasswordAsConfirmed
    /\ ResetLinkSpent
=============================================================================
