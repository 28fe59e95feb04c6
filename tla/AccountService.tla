--------------------------- MODULE AccountService ---------------------------
(***************************************************************************)
(* What the account endpoints promise: every request edits the account as  *)
(* it is at that moment, in one step.  The only exception is Overwrite, a  *)
(* save that undoes a newer one; the account is then on record as          *)
(* damaged.  Accounts implements this specification.                       *)
(***************************************************************************)
CONSTANTS Users, Emails, Passwords, Tokens, NoToken

VARIABLES
    registered,     \* users with an account
    account,        \* the columns of each account
    damaged         \* users an overlapping request has overwritten

vars == <<registered, account, damaged>>

Columns == [email: Emails, password: Passwords,
            is_active: BOOLEAN, email_verified: BOOLEAN, is_deleted: BOOLEAN,
            email_verification_token: Tokens \cup {NoToken},
            password_reset_token: Tokens \cup {NoToken}]

\* Tokens that no account holds.
Unused ==
    {t \in Tokens : \A u \in registered : /\ account[u].email_verification_token # t
                                          /\ account[u].password_reset_token # t}

Init ==
    /\ registered = {}
    /\ account \in [Users -> Columns]
    /\ damaged = {}

Create(u) ==
    /\ u \notin registered
    /\ registered' = registered \cup {u}
    /\ \E e \in Emails, p \in Passwords, t \in Unused :
           account' = [account EXCEPT ![u] =
               [email |-> e, password |-> p, is_active |-> TRUE, email_verified |-> FALSE,
                is_deleted |-> FALSE, email_verification_token |-> t,
                password_reset_token |-> NoToken]]
    /\ UNCHANGED damaged

Edit(u, columns) ==
    /\ u \in registered
    /\ account' = [account EXCEPT ![u] = columns]
    /\ UNCHANGED <<registered, damaged>>

\* The second half of registration.
Deactivate(u) ==
    /\ account[u].is_active
    /\ ~account[u].email_verified
    /\ \E t \in Unused : Edit(u, [account[u] EXCEPT !.is_active = FALSE,
                                                    !.email_verification_token = t])

ChangeAddress(u) ==
    /\ account[u].is_active
    /\ \E e \in Emails : Edit(u, [account[u] EXCEPT !.email = e])

SoftDelete(u) ==
    /\ account[u].is_active
    /\ Edit(u, [account[u] EXCEPT !.is_deleted = TRUE, !.is_active = FALSE])

Reactivate(u) ==
    /\ account[u].is_deleted
    /\ Edit(u, [account[u] EXCEPT !.is_deleted = FALSE, !.is_active = TRUE])

Verify(u) ==
    /\ account[u].email_verification_token # NoToken
    /\ Edit(u, [account[u] EXCEPT !.email_verified = TRUE, !.is_active = TRUE])

Resend(u) ==
    /\ account[u].is_active
    /\ ~account[u].email_verified
    /\ \E t \in Unused : Edit(u, [account[u] EXCEPT !.email_verification_token = t])

Forgot(u) ==
    \E t \in Unused : Edit(u, [account[u] EXCEPT !.password_reset_token = t])

\* Also while no reset is asked for.
Reset(u) ==
    \E p \in Passwords : Edit(u, [account[u] EXCEPT !.password = p,
                                                    !.password_reset_token = NoToken])

UpdatePassword(u) ==
    /\ account[u].is_active
    /\ \E p \in Passwords : Edit(u, [account[u] EXCEPT !.password = p])

\* A save of an old copy over a newer row.
Overwrite(u) ==
    /\ u \in registered
    /\ \E columns \in Columns : account' = [account EXCEPT ![u] = columns]
    /\ damaged' = damaged \cup {u}
    /\ UNCHANGED registered

Next ==
    \E u \in Users :
        \/ Create(u)
        \/ Deactivate(u)
        \/ ChangeAddress(u)
        \/ SoftDelete(u)
        \/ Reactivate(u)
        \/ Verify(u)
        \/ Resend(u)
        \/ Forgot(u)
        \/ Reset(u)
        \/ UpdatePassword(u)
        \/ Overwrite(u)

Spec == Init /\ [][Next]_vars
=============================================================================
