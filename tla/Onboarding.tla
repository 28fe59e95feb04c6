----------------------------- MODULE Onboarding -----------------------------
(***************************************************************************)
(* Accounts together with the mails that open them: the Celery tasks       *)
(* send_verification_email and send_password_reset_email of                *)
(* notify/tasks.py between the handlers that queue them and the clients    *)
(* that follow the links.                                                  *)
(*                                                                         *)
(* A link that a handler hands to the broker (mailed) is carried by a task *)
(* until its mail arrives (mailbox).  The broker hands a task to a worker  *)
(* and forgets it (early acknowledgement), so a worker that dies takes the *)
(* task with it; a send that raises is retried at most MaxRetries times.   *)
(***************************************************************************)
EXTENDS Accounts

CONSTANT MaxRetries     \* max_retries of the tasks

ASSUME OnboardingAssumption == MaxRetries \in Nat

VARIABLES
    tasks,      \* mail tasks waiting or running
    mailbox     \* links whose mail arrived

onboardingVars == <<registered, row, lastToken, request, mailed, clicked, chosen, consumed,
                    clobbered, tasks, mailbox>>

Task == [link: Link, retries: 0..MaxRetries]

\* The links that tasks carry.
Underway == {task.link : task \in tasks}

OnboardingInit == Init /\ tasks = {} /\ mailbox = {}

\* A thread goes on: clients follow links that they have got, and whatever a
\* handler hands over is a new task.
Handle(w) ==
    /\ Begin(w, mailbox) \/ Finish(w) \/ Abort(w)
    /\ tasks' = tasks \cup [link: mailed' \ mailed, retries: {0}]
    /\ UNCHANGED mailbox

-----------------------------------------------------------------------------
(* The worker runs a task.                                                  *)

\* send_mail may have handed the mail over before it raises, or the worker dies.
MayArrive(task) == mailbox' \in {mailbox, mailbox \cup {task.link}}

Send(task) ==
    /\ tasks' = tasks \ {task}
    /\ mailbox' = mailbox \cup {task.link}

\* Mutant: max_retries is not looked at.
RetryAlways(task) ==
    /\ tasks' = (tasks \ {task}) \cup {[task EXCEPT !.retries = @ + 1]}
    /\ MayArrive(task)

Retry(task) ==
    /\ task.retries < MaxRetries
    /\ tasks' = (tasks \ {task}) \cup {[task EXCEPT !.retries = @ + 1]}
    /\ MayArrive(task)

GiveUp(task) ==
    /\ task.retries = MaxRetries
    /\ tasks' = tasks \ {task}
    /\ MayArrive(task)

\* The worker process dies with the acknowledged task.
LoseTask(task) ==
    /\ tasks' = tasks \ {task}
    /\ MayArrive(task)

RunTask ==
    /\ \E task \in tasks : Send(task) \/ Retry(task) \/ GiveUp(task) \/ LoseTask(task)
    /\ UNCHANGED vars

OnboardingNext == RunTask \/ \E w \in Workers : Handle(w)

OnboardingSpec == OnboardingInit /\ [][OnboardingNext]_onboardingVars

-----------------------------------------------------------------------------
(* Properties. *)

TokenFor(kind, r) ==
    IF kind = "verify" THEN r.email_verification_token ELSE r.password_reset_token

\* Of the links of one kind mailed for an account only the newest can lead on,
\* in whatever order their mails arrive, unless a save that was already in
\* flight undid a newer one (ResendVerificationEmailView, ForgotPasswordView).
NewestLinkOnly ==
    \A link \in mailbox, newer \in mailed :
        LET u == link.owner IN
        /\ u \in registered \ clobbered
        /\ newer.owner = u /\ newer.kind = link.kind /\ newer.token > link.token
        => TokenFor(link.kind, row[u]) # link.token

\* What a row or an object says: the account is pending, and no mail with its
\* verification token has arrived or is on its way.
Locked(r) ==
    /\ ~r.is_active /\ ~r.is_deleted
    /\ \A link \in mailbox \cup Underway :
           link.kind = "verify" => link.token # r.email_verification_token

\* u is locked out, and no handler in flight holds a copy that would let him
\* in or has another mail to send.
LockedOut(u) ==
    /\ u \in registered
    /\ Locked(row[u])
    /\ \A w \in Workers : Busy(w) /\ request[w].user = u =>
           /\ Locked(request[w].object)
           /\ request[w].op \notin {"register", "resend"}

\* A pending account that lost its mail has lost it for good: no handler that
\* is open to it, a password reset by mail included, brings another one on its
\* way or lets the account in.  (A handler that loaded the row before it was
\* deactivated does, see LockedOut.)
LostMailIsFinal == [][\A u \in Users : LockedOut(u) => LockedOut(u)']_onboardingVars

-----------------------------------------------------------------------------
(* The inductive invariant behind them, beside IInv of Accounts. *)

OnboardingTypeOK ==
    /\ tasks \subseteq Task
    /\ mailbox \subseteq Link

\* Mails and tasks carry links that were handed over, one task each.
MailsWereQueued ==
    /\ mailbox \cup Underway \subseteq mailed
    /\ \A t1, t2 \in tasks : t1.link = t2.link => t1 = t2

\* No link is newer than the token in the row, unless none is asked for.
TokensInOrder ==
    \A u \in registered \ clobbered, link \in mailed : link.owner = u =>
        LET token == TokenFor(link.kind, row[u]) IN link.token <= token \/ token = NoToken

\* What a handler is about to mail is newer than any link of its user, unless
\* a save has overtaken it.
DrawnIsNewest ==
    \A w \in Workers : Drawing(w) /\ ~request[w].stale =>
        \A link \in mailed : link.owner = request[w].user => link.token < Drawn(w)

OnboardingIInv ==
    /\ OnboardingTypeOK
    /\ MailsWereQueued
    /\ TokensInOrder
    /\ DrawnIsNewest
=============================================================================
