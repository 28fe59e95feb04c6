--------------------------- MODULE AccountStatus ---------------------------
(***************************************************************************)
(* Whether accounts are active and deleted (User.is_active and             *)
(* User.is_deleted), as accounts/views.py changes it: a server thread      *)
(* loads a row, edits its copy in one of four ways, and saves it, whatever *)
(* the row says by then.  Accounts has this with all the columns of a row, *)
(* Sessions with the tokens that depend on it; both implement it.          *)
(***************************************************************************)
CONSTANTS
    Users,
    Workers     \* server threads

VARIABLES
    registered,     \* users with a row
    status,         \* status[u]: what the row of u says
    copy            \* copy[w]: the edited copy that thread w has still to save

vars == <<registered, status, copy>>

New == [active |-> TRUE, deleted |-> FALSE]
Pending == [active |-> FALSE, deleted |-> FALSE]
Deleted == [active |-> FALSE, deleted |-> TRUE]

NoCopy == [op |-> "idle"]
Copy(u, s) == [user |-> u, status |-> s]

Init ==
    /\ registered = {}
    /\ status = [u \in Users |-> Pending]
    /\ copy = [w \in Workers |-> NoCopy]

\* RegisterView: the row is created active, its copy is about to deactivate it.
Register(w, u) ==
    /\ copy[w] = NoCopy
    /\ u \notin registered
    /\ registered' = registered \cup {u}
    /\ status' = [status EXCEPT ![u] = New]
    /\ copy' = [copy EXCEPT ![w] = Copy(u, Pending)]

Load(w, u, s) ==
    /\ copy[w] = NoCopy
    /\ u \in registered
    /\ copy' = [copy EXCEPT ![w] = Copy(u, s)]
    /\ UNCHANGED <<registered, status>>

\* The edits: of other columns only, by VerifyEmailView, by DeleteAccountView,
\* which is open to active users, and by ReactivateAccountView.
LoadToEdit(w, u) == Load(w, u, status[u])
LoadToVerify(w, u) == Load(w, u, [status[u] EXCEPT !.active = TRUE])
LoadToDelete(w, u) == status[u].active /\ Load(w, u, Deleted)
LoadToReactivate(w, u) == status[u].deleted /\ Load(w, u, New)

\* user.save() of the copy.
Save(w) ==
    /\ copy[w] # NoCopy
    /\ status' = [status EXCEPT ![copy[w].user] = copy[w].status]
    /\ copy' = [copy EXCEPT ![w] = NoCopy]
    /\ UNCHANGED registered

\* The request ends without its save.
Drop(w) ==
    /\ copy[w] # NoCopy
    /\ copy' = [copy EXCEPT ![w] = NoCopy]
    /\ UNCHANGED <<registered, status>>

Next ==
    \E w \in Workers :
        \/ \E u \in Users :
               \/ Register(w, u) \/ LoadToEdit(w, u) \/ LoadToVerify(w, u)
               \/ LoadToDelete(w, u) \/ LoadToReactivate(w, u)
        \/ Save(w)
        \/ Drop(w)

Spec == Init /\ [][Next]_vars
=============================================================================
