--------------------- MODULE AccountsAndOnboardingProofs ---------------------
(***************************************************************************)
(* Theorems about modules Accounts and Onboarding, for any users, threads, *)
(* token bound and number of retries.                                      *)
(***************************************************************************)
EXTENDS Onboarding, TLAPS

\* The row that stands for none is typed like one.
LEMMA BlankIsRow == Blank \in Row
  BY AccountsAssumption DEF Blank, Row, NoToken

\* An idle thread is told apart from a busy one by the record itself.
LEMMA BusyIsRequest ==
  ASSUME TypeOK, NEW w \in Workers, request[w] # Idle
  PROVE  request[w] \in Request
  BY DEF TypeOK

\* Loading keeps every variable in its type when the edited object is a row.
LEMMA LoadTypeOK ==
  ASSUME TypeOK, NEW w \in Workers, NEW op \in Ops, NEW u \in Users, NEW object \in Row,
         NEW token \in Tokens \cup {NoToken}, lastToken' \in 0..MaxToken,
         Load(w, op, u, object, token)
  PROVE  TypeOK'
  BY DEF TypeOK, Load, Request, history

\* Requests whose copies became stale are still requests.
LEMMA OvertakenType ==
  ASSUME TypeOK, NEW w \in Workers, NEW u \in Users
  PROVE  Overtaken(u, w) \in [Workers -> Request \cup {Idle}]
<1> SUFFICES ASSUME NEW v \in Workers, v # w, request[v] # Idle
             PROVE  [request[v] EXCEPT !.stale = TRUE] \in Request
  BY DEF Overtaken, TypeOK
<1> QED
  BY BusyIsRequest DEF Request

\* A save writes a row and leaves every request a request.
LEMMA SaveTypeOK ==
  ASSUME TypeOK, NEW w \in Workers, NEW op \in Ops, Save(w, op)
  PROVE  /\ registered' \subseteq Users
         /\ row' \in [Users -> Row]
         /\ lastToken' \in 0..MaxToken
         /\ request' \in [Workers -> Request \cup {Idle}]
         /\ clobbered' \subseteq Users
         /\ request[w].user \in Users
         /\ request[w].object \in Row
         /\ request[w].token \in Tokens \cup {NoToken}
<1>1. request[w] \in Request
  BY BusyIsRequest DEF Save
<1>2. /\ request[w].user \in Users
      /\ request[w].object \in Row
      /\ request[w].token \in Tokens \cup {NoToken}
  BY <1>1 DEF Request
<1>3. request' \in [Workers -> Request \cup {Idle}]
  BY <1>2, OvertakenType DEF Save
<1>4. row' \in [Users -> Row]
  BY <1>2 DEF Save, TypeOK
<1> QED
  BY <1>2, <1>3, <1>4 DEF Save, TypeOK

\* A mail task adds at most one well-formed link.
LEMMA MailType ==
  ASSUME TypeOK, NEW kind \in {"verify", "reset"}, NEW u \in Users, NEW object \in Row,
         NEW token \in Tokens, Mail(kind, u, object, token)
  PROVE  mailed' \subseteq Link
<1>1. [kind |-> kind, email |-> object.email, token |-> token, owner |-> u] \in Link
  BY DEF Link, Row
<1> QED
  BY <1>1 DEF Mail, TypeOK

\* No account is registered at first, and no request is on its way.
LEMMA InitTypeOK == Init => TypeOK
  BY BlankIsRow, AccountsAssumption DEF Init, TypeOK, Row

\* Every half of every handler keeps the types.
LEMMA NextTypeOK ==
  ASSUME IInv, [Next]_vars
  PROVE  TypeOK'
<1> TypeOK
  BY DEF IInv
<1>1. CASE UNCHANGED vars
  BY <1>1 DEF vars, TypeOK
<1>2. ASSUME NEW w \in Workers, NEW u \in Users, NEW e \in Emails, NEW p \in Passwords,
             BeginRegister(w, u, e, p)
      PROVE  TypeOK'
  <2> DEFINE object == NewRow(e, p, lastToken + 1)
             edited == [object EXCEPT !.is_active = FALSE,
                                      !.email_verification_token = lastToken + 2]
             r == [op |-> "register", user |-> u, token |-> NoToken, stale |-> FALSE,
                   object |-> edited]
  <2>1. /\ lastToken' \in 0..MaxToken
        /\ lastToken + 1 \in Tokens
        /\ lastToken + 2 \in Tokens
    BY <1>2, AccountsAssumption DEF BeginRegister, Draw, TypeOK, Tokens
  <2>2. object \in Row /\ edited \in Row
    BY <2>1 DEF Row, NewRow
  <2>3. r \in Request
    BY <2>2 DEF Request, Ops
  <2>4. row' = [row EXCEPT ![u] = object] /\ request' = [request EXCEPT ![w] = r]
    BY <1>2 DEF BeginRegister
  <2>5. row' \in [Users -> Row] /\ request' \in [Workers -> Request \cup {Idle}]
    BY <2>2, <2>3, <2>4 DEF TypeOK
  <2> QED
    BY <1>2, <2>1, <2>5 DEF BeginRegister, TypeOK
<1>3. ASSUME NEW w \in Workers, NEW u \in Users, NEW e \in Emails, BeginProfile(w, u, e)
      PROVE  TypeOK'
  <2>1. [row[u] EXCEPT !.email = e] \in Row
    BY DEF TypeOK, Row
  <2> QED
    BY <1>3, <2>1, LoadTypeOK DEF BeginProfile, Ops, TypeOK
<1>4. ASSUME NEW w \in Workers, NEW u \in Users, BeginDelete(w, u)
      PROVE  TypeOK'
  <2>1. [row[u] EXCEPT !.is_deleted = TRUE, !.is_active = FALSE] \in Row
    BY DEF TypeOK, Row
  <2> QED
    BY <1>4, <2>1, LoadTypeOK DEF BeginDelete, Ops, TypeOK
<1>5. ASSUME NEW w \in Workers, NEW u \in Users, BeginResend(w, u)
      PROVE  TypeOK'
  <2>1. lastToken' \in 0..MaxToken /\ lastToken + 1 \in Tokens
    BY <1>5 DEF BeginResend, Draw, TypeOK, Tokens
  <2>2. [row[u] EXCEPT !.email_verification_token = lastToken + 1] \in Row
    BY <2>1 DEF TypeOK, Row
  <2> QED
    BY <1>5, <2>1, <2>2, LoadTypeOK DEF BeginResend, Ops
<1>6. ASSUME NEW w \in Workers, NEW u \in Users, NEW old \in Passwords, NEW new \in Passwords,
             BeginUpdatePassword(w, u, old, new)
      PROVE  TypeOK'
  <2>1. [row[u] EXCEPT !.password = new] \in Row
    BY DEF TypeOK, Row
  <2> QED
    BY <1>6, <2>1, LoadTypeOK DEF BeginUpdatePassword, Ops, TypeOK
<1>7. ASSUME NEW w \in Workers, NEW u \in Users, NEW e \in Emails, NEW p \in Passwords,
             BeginReactivate(w, u, e, p)
      PROVE  TypeOK'
  <2>1. [row[u] EXCEPT !.is_deleted = FALSE, !.is_active = TRUE] \in Row
    BY DEF TypeOK, Row
  <2> QED
    BY <1>7, <2>1, LoadTypeOK DEF BeginReactivate, Ops, TypeOK
<1>8. ASSUME NEW w \in Workers, NEW u \in Users, NEW link \in mailed, BeginVerify(w, u, link)
      PROVE  TypeOK'
  <2>1. [row[u] EXCEPT !.email_verified = TRUE, !.is_active = TRUE] \in Row
    BY DEF TypeOK, Row
  <2>2. link.token \in Tokens
    BY DEF TypeOK, Link
  <2> QED
    BY <1>8, <2>1, <2>2, LoadTypeOK DEF BeginVerify, Ops, TypeOK
<1>9. ASSUME NEW w \in Workers, NEW u \in Users, NEW e \in Emails, BeginForgot(w, u, e)
      PROVE  TypeOK'
  <2>1. lastToken' \in 0..MaxToken /\ lastToken + 1 \in Tokens
    BY <1>9, AccountsAssumption DEF BeginForgot, Draw, TypeOK, Tokens
  <2>2. [row[u] EXCEPT !.password_reset_token = lastToken + 1] \in Row
    BY <2>1 DEF TypeOK, Row
  <2> QED
    BY <1>9, <2>1, <2>2, LoadTypeOK DEF BeginForgot, Ops
<1>10. ASSUME NEW w \in Workers, NEW u \in Users, NEW e \in Emails,
              NEW token \in ResetTokens(mailed), NEW new \in Passwords,
              BeginReset(w, u, e, token, new)
       PROVE  TypeOK'
  <2>1. [row[u] EXCEPT !.password = new, !.password_reset_token = NoToken] \in Row
    BY DEF TypeOK, Row
  <2>2. token \in Tokens \cup {NoToken}
    BY DEF TypeOK, Link, ResetTokens
  <2> QED
    BY <1>10, <2>1, <2>2, LoadTypeOK DEF BeginReset, Ops, TypeOK
<1>11. ASSUME NEW w \in Workers, FinishProfile(w)
       PROVE  TypeOK'
  BY <1>11, SaveTypeOK DEF FinishProfile, Ops, TypeOK
<1>12. ASSUME NEW w \in Workers, FinishDelete(w)
       PROVE  TypeOK'
  BY <1>12, SaveTypeOK DEF FinishDelete, Ops, TypeOK
<1>13. ASSUME NEW w \in Workers, FinishReactivate(w)
       PROVE  TypeOK'
  BY <1>13, SaveTypeOK DEF FinishReactivate, Ops, TypeOK
<1>14. ASSUME NEW w \in Workers, FinishVerify(w)
       PROVE  TypeOK'
  BY <1>14, SaveTypeOK DEF FinishVerify, Ops, TypeOK
<1>15. ASSUME NEW w \in Workers, FinishUpdatePassword(w)
       PROVE  TypeOK'
  <2>1. request[w].object.password \in Passwords
    BY <1>15, SaveTypeOK DEF FinishUpdatePassword, Ops, Row
  <2> QED
    BY <1>15, <2>1, SaveTypeOK DEF FinishUpdatePassword, Ops, TypeOK
<1>16. ASSUME NEW w \in Workers, FinishRegister(w)
       PROVE  TypeOK'
  <2>1. request[w].user \in Users /\ request[w].object \in Row
    BY <1>16, SaveTypeOK DEF FinishRegister, Ops
  <2>2. request[w].object.email_verification_token \in Tokens
    BY <1>16, <2>1 DEF FinishRegister, Save, IInv, DrawnIsPrivate, Drawing, Drawn, Busy, Row
  <2>3. mailed' \subseteq Link
    BY <1>16, <2>1, <2>2, MailType DEF FinishRegister
  <2> QED
    BY <1>16, <2>3, SaveTypeOK DEF FinishRegister, Ops, TypeOK
<1>17. ASSUME NEW w \in Workers, FinishResend(w)
       PROVE  TypeOK'
  <2>1. request[w].user \in Users /\ request[w].object \in Row
    BY <1>17, SaveTypeOK DEF FinishResend, Ops
  <2>2. request[w].object.email_verification_token \in Tokens
    BY <1>17, <2>1 DEF FinishResend, Save, IInv, DrawnIsPrivate, Drawing, Drawn, Busy, Row
  <2>3. mailed' \subseteq Link
    BY <1>17, <2>1, <2>2, MailType DEF FinishResend
  <2> QED
    BY <1>17, <2>3, SaveTypeOK DEF FinishResend, Ops, TypeOK
<1>18. ASSUME NEW w \in Workers, FinishForgot(w)
       PROVE  TypeOK'
  <2>1. request[w].user \in Users /\ request[w].object \in Row
    BY <1>18, SaveTypeOK DEF FinishForgot, Ops
  <2>2. request[w].object.password_reset_token \in Tokens
    BY <1>18, <2>1 DEF FinishForgot, Save, IInv, DrawnIsPrivate, Drawing, Drawn, Busy, Row
  <2>3. mailed' \subseteq Link
    BY <1>18, <2>1, <2>2, MailType DEF FinishForgot
  <2> QED
    BY <1>18, <2>3, SaveTypeOK DEF FinishForgot, Ops, TypeOK
<1>19. ASSUME NEW w \in Workers, FinishReset(w)
       PROVE  TypeOK'
  <2>1. request[w].object \in Row /\ request[w].token \in Tokens \cup {NoToken}
    BY <1>19, SaveTypeOK DEF FinishReset, Ops
  <2>2. request[w].object.password \in Passwords
    BY <2>1 DEF Row
  <2>3. chosen' \in [Users -> Passwords] /\ consumed' \subseteq Tokens
    BY <1>19, <2>1, <2>2 DEF FinishReset, TypeOK
  <2> QED
    BY <1>19, <2>3, SaveTypeOK DEF FinishReset, Ops, TypeOK
<1>20. ASSUME NEW w \in Workers, Abort(w)
       PROVE  TypeOK'
  BY <1>20 DEF Abort, TypeOK, history
<1> QED
  BY <1>1, <1>2, <1>3, <1>4, <1>5, <1>6, <1>7, <1>8, <1>9, <1>10, <1>11, <1>12,
     <1>13, <1>14, <1>15, <1>16, <1>17, <1>18, <1>19, <1>20 DEF Next, Begin, Finish

-----------------------------------------------------------------------------
(* What the two kinds of step have in common.  A handler that loads holds an *)
(* edit of the current row; a handler that saves writes its object, reveals  *)
(* its drawn token at most in a mail, and updates the history.               *)

LoadStep(w, u, r) ==
    /\ request[w] = Idle
    /\ u \in registered
    /\ r \in Request
    /\ r.user = u
    /\ ~r.stale
    /\ request' = [request EXCEPT ![w] = r]
    /\ UNCHANGED <<registered, row, mailed, clicked, chosen, consumed, clobbered>>
    /\ IsEdit(r.op, row[u], r.object)
    /\ lastToken' \in Nat
    /\ lastToken <= lastToken'
    /\ r.op \notin {"register", "resend", "forgot"} =>
           TokensOf(r.object) \subseteq TokensOf(row[u]) \cup {NoToken}
    /\ r.op \in {"resend", "forgot"} => lastToken' = lastToken + 1
    /\ r.op = "resend" => r.object.email_verification_token = lastToken + 1
    /\ r.op = "forgot" => r.object.password_reset_token = lastToken + 1
    /\ r.op # "register"
    /\ r.token # NoToken => \E link \in mailed : /\ link.token = r.token
                                                 /\ r.token \in TokensOf(row[u])

SaveStep(w) ==
    LET r == request[w] IN
    /\ Busy(w)
    /\ row' = [row EXCEPT ![r.user] = r.object]
    /\ request' = Overtaken(r.user, w)
    /\ clobbered' = IF r.stale THEN clobbered \cup {r.user} ELSE clobbered
    /\ UNCHANGED <<registered, lastToken>>
    /\ \/ mailed' = mailed
       \/ /\ Drawing(w)
          /\ \E link \in Link : /\ link.kind = IF r.op = "forgot" THEN "reset" ELSE "verify"
                                /\ link.token = Drawn(w)
                                /\ link.owner = r.user
                                /\ mailed' = mailed \cup {link}
    /\ clicked' = IF r.op = "verify" THEN clicked \cup {r.user} ELSE clicked
    /\ chosen' = IF r.op \in {"reset", "password"}
                 THEN [chosen EXCEPT ![r.user] = r.object.password] ELSE chosen
    /\ consumed' = IF r.op = "reset" THEN consumed \cup ({r.token} \ {NoToken}) ELSE consumed

\* A profile edit loads the row and changes the address.
LEMMA ProfileLoads ==
  ASSUME IInv, NEW w \in Workers, NEW u \in Users, NEW e \in Emails, BeginProfile(w, u, e)
  PROVE  \E r : LoadStep(w, u, r)
<1> DEFINE object == [row[u] EXCEPT !.email = e]
           r == [op |-> "profile", user |-> u, object |-> object, token |-> NoToken, stale |-> FALSE]
<1>1. row[u] \in Row /\ lastToken \in 0..MaxToken
  BY DEF IInv, TypeOK
<1>2. object \in Row /\ r \in Request
  BY <1>1 DEF Row, Request, Ops
<1>3. IsEdit("profile", row[u], object)
  BY <1>1, BeginProfile(w, u, e) DEF BeginProfile, IsEdit, Row
<1>4. TokensOf(object) \subseteq TokensOf(row[u])
  BY <1>1 DEF Row, TokensOf
<1>5. LoadStep(w, u, r)
  BY <1>1, <1>2, <1>3, <1>4, AccountsAssumption DEF BeginProfile, Load, LoadStep, history
<1> QED
  BY <1>5

\* A deletion loads the row and marks it deleted and inactive.
LEMMA DeleteLoads ==
  ASSUME IInv, NEW w \in Workers, NEW u \in Users, BeginDelete(w, u)
  PROVE  \E r : LoadStep(w, u, r)
<1> DEFINE object == [row[u] EXCEPT !.is_deleted = TRUE, !.is_active = FALSE]
           r == [op |-> "delete", user |-> u, object |-> object, token |-> NoToken, stale |-> FALSE]
<1>1. row[u] \in Row /\ lastToken \in 0..MaxToken
  BY DEF IInv, TypeOK
<1>2. object \in Row /\ r \in Request
  BY <1>1 DEF Row, Request, Ops
<1>3. IsEdit("delete", row[u], object)
  BY <1>1, BeginDelete(w, u) DEF BeginDelete, IsEdit, Row
<1>4. TokensOf(object) \subseteq TokensOf(row[u])
  BY <1>1 DEF Row, TokensOf
<1>5. LoadStep(w, u, r)
  BY <1>1, <1>2, <1>3, <1>4, AccountsAssumption DEF BeginDelete, Load, LoadStep, history
<1> QED
  BY <1>5

\* A resend loads the row and draws a verification token.
LEMMA ResendLoads ==
  ASSUME IInv, NEW w \in Workers, NEW u \in Users, BeginResend(w, u)
  PROVE  \E r : LoadStep(w, u, r)
<1> DEFINE object == [row[u] EXCEPT !.email_verification_token = lastToken + 1]
           r == [op |-> "resend", user |-> u, object |-> object, token |-> NoToken, stale |-> FALSE]
<1>1. row[u] \in Row /\ lastToken \in 0..MaxToken
  BY DEF IInv, TypeOK
<1>2. /\ lastToken' = lastToken + 1
      /\ lastToken + 1 \in Tokens
      /\ lastToken' \in Nat
      /\ lastToken <= lastToken'
  BY <1>1, BeginResend(w, u), AccountsAssumption DEF BeginResend, Draw, Tokens
<1>3. object \in Row /\ r \in Request
  BY <1>1, <1>2 DEF Row, Request, Ops
<1>4. IsEdit("resend", row[u], object)
  BY <1>1, BeginResend(w, u) DEF BeginResend, IsEdit, Row
<1>5. object.email_verification_token = lastToken + 1
  BY <1>1 DEF Row
<1>6. LoadStep(w, u, r)
  BY <1>1, <1>2, <1>3, <1>4, <1>5 DEF BeginResend, Load, LoadStep, history
<1> QED
  BY <1>6

\* A password change loads the row and replaces the password.
LEMMA UpdatePasswordLoads ==
  ASSUME IInv, NEW w \in Workers, NEW u \in Users,
         NEW old \in Passwords, NEW new \in Passwords, BeginUpdatePassword(w, u, old, new)
  PROVE  \E r : LoadStep(w, u, r)
<1> DEFINE object == [row[u] EXCEPT !.password = new]
           r == [op |-> "password", user |-> u, object |-> object, token |-> NoToken, stale |-> FALSE]
<1>1. row[u] \in Row /\ lastToken \in 0..MaxToken
  BY DEF IInv, TypeOK
<1>2. object \in Row /\ r \in Request
  BY <1>1 DEF Row, Request, Ops
<1>3. IsEdit("password", row[u], object)
  BY <1>1, BeginUpdatePassword(w, u, old, new) DEF BeginUpdatePassword, IsEdit, Row
<1>4. TokensOf(object) \subseteq TokensOf(row[u])
  BY <1>1 DEF Row, TokensOf
<1>5. LoadStep(w, u, r)
  BY <1>1, <1>2, <1>3, <1>4, AccountsAssumption DEF BeginUpdatePassword, Load, LoadStep, history
<1> QED
  BY <1>5

\* A reactivation loads the row of a deleted account.
LEMMA ReactivateLoads ==
  ASSUME IInv, NEW w \in Workers, NEW u \in Users,
         NEW e \in Emails, NEW p \in Passwords, BeginReactivate(w, u, e, p)
  PROVE  \E r : LoadStep(w, u, r)
<1> DEFINE object == [row[u] EXCEPT !.is_deleted = FALSE, !.is_active = TRUE]
           r == [op |-> "reactivate", user |-> u, object |-> object, token |-> NoToken, stale |-> FALSE]
<1>1. row[u] \in Row /\ lastToken \in 0..MaxToken
  BY DEF IInv, TypeOK
<1>2. object \in Row /\ r \in Request
  BY <1>1 DEF Row, Request, Ops
<1>3. IsEdit("reactivate", row[u], object)
  BY <1>1, BeginReactivate(w, u, e, p) DEF BeginReactivate, IsEdit, Row
<1>4. TokensOf(object) \subseteq TokensOf(row[u])
  BY <1>1 DEF Row, TokensOf
<1>5. LoadStep(w, u, r)
  BY <1>1, <1>2, <1>3, <1>4, AccountsAssumption DEF BeginReactivate, Load, LoadStep, history
<1> QED
  BY <1>5

\* A verification loads the row that has the token presented.
LEMMA VerifyLoads ==
  ASSUME IInv, NEW w \in Workers, NEW u \in Users,
         NEW link \in mailed, BeginVerify(w, u, link)
  PROVE  \E r : LoadStep(w, u, r)
<1> DEFINE object == [row[u] EXCEPT !.email_verified = TRUE, !.is_active = TRUE]
           r == [op |-> "verify", user |-> u, object |-> object, token |-> link.token, stale |-> FALSE]
<1>1. row[u] \in Row /\ lastToken \in 0..MaxToken
  BY DEF IInv, TypeOK
<1>2. link.token \in Tokens /\ link.token # NoToken /\ link.token \in TokensOf(row[u])
  BY BeginVerify(w, u, link) DEF BeginVerify, IInv, TypeOK, Link, Tokens, NoToken, TokensOf
<1>3. object \in Row /\ r \in Request
  BY <1>1, <1>2 DEF Row, Request, Ops
<1>4. IsEdit("verify", row[u], object)
  BY <1>1, <1>2, BeginVerify(w, u, link) DEF BeginVerify, IsEdit, Row
<1>5. TokensOf(object) \subseteq TokensOf(row[u]) \cup {NoToken}
  BY <1>1 DEF Row, TokensOf
<1>6. LoadStep(w, u, r)
  BY <1>1, <1>2, <1>3, <1>4, <1>5, AccountsAssumption DEF BeginVerify, Load, LoadStep, history
<1> QED
  BY <1>6

\* A reset request loads the row and draws a reset token.
LEMMA ForgotLoads ==
  ASSUME IInv, NEW w \in Workers, NEW u \in Users,
         NEW e \in Emails, BeginForgot(w, u, e)
  PROVE  \E r : LoadStep(w, u, r)
<1> DEFINE object == [row[u] EXCEPT !.password_reset_token = lastToken + 1]
           r == [op |-> "forgot", user |-> u, object |-> object, token |-> NoToken, stale |-> FALSE]
<1>1. row[u] \in Row /\ lastToken \in 0..MaxToken
  BY DEF IInv, TypeOK
<1>2. /\ lastToken' = lastToken + 1
      /\ lastToken + 1 \in Tokens
      /\ lastToken' \in Nat
      /\ lastToken <= lastToken'
  BY <1>1, BeginForgot(w, u, e), AccountsAssumption DEF BeginForgot, Draw, Tokens
<1>3. object \in Row /\ r \in Request
  BY <1>1, <1>2 DEF Row, Request, Ops
<1>4. IsEdit("forgot", row[u], object)
  BY <1>1, BeginForgot(w, u, e) DEF BeginForgot, IsEdit, Row
<1>5. object.password_reset_token = lastToken + 1
  BY <1>1 DEF Row
<1>6. LoadStep(w, u, r)
  BY <1>1, <1>2, <1>3, <1>4, <1>5 DEF BeginForgot, Load, LoadStep, history
<1> QED
  BY <1>6

\* A reset loads the row that has the token presented.
LEMMA ResetLoads ==
  ASSUME IInv, NEW w \in Workers, NEW u \in Users, NEW e \in Emails,
         NEW token \in ResetTokens(mailed), NEW new \in Passwords,
         BeginReset(w, u, e, token, new)
  PROVE  \E r : LoadStep(w, u, r)
<1> DEFINE object == [row[u] EXCEPT !.password = new, !.password_reset_token = NoToken]
           r == [op |-> "reset", user |-> u, object |-> object, token |-> token, stale |-> FALSE]
<1>1. row[u] \in Row /\ lastToken \in 0..MaxToken
  BY DEF IInv, TypeOK
<1>2. /\ token \in Tokens \cup {NoToken}
      /\ token # NoToken => \E link \in mailed : link.token = token
  BY DEF ResetTokens, IInv, TypeOK, Link
<1>3. token \in TokensOf(row[u])
  BY BeginReset(w, u, e, token, new) DEF BeginReset, TokensOf
<1>4. object \in Row /\ r \in Request
  BY <1>1, <1>2 DEF Row, Request, Ops
<1>5. IsEdit("reset", row[u], object)
  BY <1>1 DEF IsEdit, Row
<1>6. TokensOf(object) \subseteq TokensOf(row[u]) \cup {NoToken}
  BY <1>1 DEF Row, TokensOf
<1>7. LoadStep(w, u, r)
  BY <1>1, <1>2, <1>3, <1>4, <1>5, <1>6, AccountsAssumption DEF BeginReset, Load, LoadStep, history
<1> QED
  BY <1>7

\* The second half of every handler saves the object it loaded.
LEMMA FinishSaves ==
  ASSUME IInv, NEW w \in Workers, Finish(w)
  PROVE  SaveStep(w)
<1> USE DEF SaveStep, Save, Busy
<1>1. ASSUME NEW op \in Ops, Save(w, op), op \in {"register", "resend", "forgot"},
             Mail(IF op = "forgot" THEN "reset" ELSE "verify", request[w].user, request[w].object,
                  Drawn(w))
      PROVE  \/ mailed' = mailed
             \/ \E link \in Link : /\ link.kind = IF op = "forgot" THEN "reset" ELSE "verify"
                                   /\ link.token = Drawn(w)
                                   /\ link.owner = request[w].user
                                   /\ mailed' = mailed \cup {link}
  <2>1. request[w].user \in Users /\ request[w].object \in Row
    BY <1>1, SaveTypeOK DEF IInv
  <2>2. Drawn(w) \in Tokens
    BY <1>1, <2>1 DEF IInv, DrawnIsPrivate, Drawing, Drawn, Row
  <2> DEFINE link == [kind |-> IF op = "forgot" THEN "reset" ELSE "verify",
                      email |-> request[w].object.email, token |-> Drawn(w),
                      owner |-> request[w].user]
  <2>3. link \in Link
    BY <2>1, <2>2 DEF Link, Row
  <2> QED
    BY <1>1, <2>3 DEF Mail
<1>2. CASE FinishRegister(w)
  BY <1>1, <1>2 DEF FinishRegister, Drawing, Drawn, Ops
<1>3. CASE FinishProfile(w)
  BY <1>3 DEF FinishProfile
<1>4. CASE FinishDelete(w)
  BY <1>4 DEF FinishDelete
<1>5. CASE FinishResend(w)
  BY <1>1, <1>5 DEF FinishResend, Drawing, Drawn, Ops
<1>6. CASE FinishUpdatePassword(w)
  BY <1>6 DEF FinishUpdatePassword
<1>7. CASE FinishReactivate(w)
  BY <1>7 DEF FinishReactivate
<1>8. CASE FinishVerify(w)
  BY <1>8 DEF FinishVerify
<1>9. CASE FinishForgot(w)
  BY <1>1, <1>9 DEF FinishForgot, Drawing, Drawn, Ops
<1>10. CASE FinishReset(w)
  BY <1>10 DEF FinishReset
<1> QED
  BY <1>2, <1>3, <1>4, <1>5, <1>6, <1>7, <1>8, <1>9, <1>10 DEF Finish

\* What a thread does is one of four kinds of step.
LEMMA HandlerKinds ==
  ASSUME IInv, NEW w \in Workers, Begin(w, mailed) \/ Finish(w) \/ Abort(w)
  PROVE  \/ \E u \in Users, r \in Request : LoadStep(w, u, r)
         \/ \E u \in Users, e \in Emails, p \in Passwords : BeginRegister(w, u, e, p)
         \/ SaveStep(w)
         \/ Abort(w)
<1>1. ASSUME NEW u \in Users, NEW r, LoadStep(w, u, r)
      PROVE  r \in Request
  BY <1>1 DEF LoadStep
<1>2. CASE Begin(w, mailed)
  BY <1>1, <1>2, ProfileLoads, DeleteLoads, ResendLoads, UpdatePasswordLoads, ReactivateLoads,
     VerifyLoads, ForgotLoads, ResetLoads DEF Begin
<1> QED
  BY <1>2, FinishSaves

LEMMA StepKinds ==
  ASSUME IInv, Next
  PROVE  \E w \in Workers :
           \/ \E u \in Users, r \in Request : LoadStep(w, u, r)
           \/ \E u \in Users, e \in Emails, p \in Passwords : BeginRegister(w, u, e, p)
           \/ SaveStep(w)
           \/ Abort(w)
  BY HandlerKinds DEF Next

\* After a step the other threads hold what they held, but for staleness.
LEMMA OthersKeep ==
  ASSUME IInv, NEW w \in Workers, NEW v \in Workers, v # w,
         \/ \E u \in Users, r \in Request : LoadStep(w, u, r)
         \/ \E u \in Users, e \in Emails, p \in Passwords : BeginRegister(w, u, e, p)
         \/ SaveStep(w)
         \/ Abort(w)
  PROVE  /\ Busy(v)' <=> Busy(v)
         /\ Drawing(v)' <=> Drawing(v)
         /\ Busy(v) => /\ request[v] \in Request
                       /\ request'[v].op = request[v].op
                       /\ request'[v].user = request[v].user
                       /\ request'[v].object = request[v].object
                       /\ request'[v].token = request[v].token
                       /\ ~request'[v].stale => ~request[v].stale
         /\ Drawing(v) => Drawn(v)' = Drawn(v)
<1>1. TypeOK
  BY DEF IInv
<1>2. CASE request'[v] = request[v]
  BY <1>1, <1>2, BusyIsRequest DEF Busy, Drawing, Drawn
<1>3. CASE SaveStep(w) /\ Busy(v) /\ request'[v] = [request[v] EXCEPT !.stale = TRUE]
  <2>1. request[v] \in Request /\ request'[v] \in Request
    BY <1>1, <1>3, BusyIsRequest DEF Busy, Request
  <2>2. request'[v] # Idle
    BY <2>1, <1>3 DEF Request, Idle, Ops
  <2> QED
    BY <1>3, <2>1, <2>2 DEF Busy, Drawing, Drawn, Request
<1>4. SaveStep(w) =>
        \/ request'[v] = request[v]
        \/ Busy(v) /\ request'[v] = [request[v] EXCEPT !.stale = TRUE]
  BY <1>1 DEF SaveStep, Overtaken, Busy
<1>5. ~SaveStep(w) => request'[v] = request[v]
  BY <1>1 DEF LoadStep, BeginRegister, Abort, TypeOK
<1> QED
  BY <1>2, <1>3, <1>4, <1>5

\* A request that is not overtaken by a save is about another user's row.
LEMMA SaveOvertakes ==
  ASSUME IInv, NEW w \in Workers, NEW v \in Workers, SaveStep(w), Busy(v)', ~request'[v].stale
  PROVE  v # w /\ request[v].user # request[w].user /\ Busy(v)
<1>1. TypeOK
  BY DEF IInv
<1>2. v # w /\ Busy(v)
  BY <1>1 DEF SaveStep, Overtaken, Busy, TypeOK
<1>3. request[v] \in Request
  BY <1>1, <1>2, BusyIsRequest DEF Busy
<1> QED
  BY <1>2, <1>3 DEF SaveStep, Overtaken, Busy, Request

\* What an edit leaves alone.
LEMMA EditKeeps ==
  ASSUME NEW old \in Row, NEW new \in Row, NEW op, IsEdit(op, old, new)
  PROVE  /\ op \notin {"reset", "password"} => new.password = old.password
         /\ op \notin {"reset", "forgot"} => new.password_reset_token = old.password_reset_token
         /\ op = "reset" => new.password_reset_token = NoToken
         /\ op \notin {"register", "resend"} =>
                new.email_verification_token = old.email_verification_token
  BY DEF IsEdit, Row

\* The tokens in a freshly loaded object are the row's, or newly drawn.
LEMMA LoadTokens ==
  ASSUME IInv, NEW w \in Workers, NEW u \in Users, NEW r \in Request, LoadStep(w, u, r),
         NEW t \in TokensOf(r.object)
  PROVE  \/ t \in TokensOf(row[u]) \cup {NoToken}
         \/ /\ r.op \in {"resend", "forgot"}
            /\ t = lastToken + 1
            /\ lastToken' = lastToken + 1
<1>1. row[u] \in Row /\ r.object \in Row /\ r.op \in Ops
  BY DEF IInv, TypeOK, Request
<1>2. IsEdit(r.op, row[u], r.object)
  BY DEF LoadStep
<1>3. CASE r.op \notin {"register", "resend", "forgot"}
  BY <1>3 DEF LoadStep
<1>4. CASE r.op \in {"resend", "forgot"}
  BY <1>1, <1>2, <1>4, EditKeeps DEF LoadStep, TokensOf
<1> QED
  BY <1>3, <1>4 DEF LoadStep

-----------------------------------------------------------------------------
(* Each conjunct of the invariant, step kind by step kind. *)

LEMMA NextRequestsHaveRows ==
  ASSUME IInv, Next
  PROVE  RequestsHaveRows'
<1>1. PICK w \in Workers :
           \/ \E u \in Users, r \in Request : LoadStep(w, u, r)
           \/ \E u \in Users, e \in Emails, p \in Passwords : BeginRegister(w, u, e, p)
           \/ SaveStep(w)
           \/ Abort(w)
  BY StepKinds
<1> SUFFICES ASSUME NEW v \in Workers, Busy(v)'
             PROVE  request'[v].user \in registered'
  BY DEF RequestsHaveRows, Busy
<1>2. registered \subseteq registered'
  BY <1>1 DEF LoadStep, BeginRegister, SaveStep, Abort
<1>3. CASE v # w
  BY <1>1, <1>2, <1>3, OthersKeep DEF IInv, RequestsHaveRows
<1>4. CASE v = w
  <2>1. CASE \E u \in Users, r \in Request : LoadStep(w, u, r)
    BY <1>4, <2>1 DEF LoadStep, IInv, TypeOK
  <2>2. CASE \E u \in Users, e \in Emails, p \in Passwords : BeginRegister(w, u, e, p)
    BY <1>4, <2>2 DEF BeginRegister, IInv, TypeOK
  <2>3. CASE SaveStep(w)
    BY <1>4, <2>3 DEF SaveStep, Overtaken, Busy
  <2>4. CASE Abort(w)
    BY <1>4, <2>4 DEF Abort, Busy, IInv, TypeOK
  <2> QED
    BY <1>1, <2>1, <2>2, <2>3, <2>4
<1> QED
  BY <1>3, <1>4

\* A save makes the other copies of its row stale; a load is fresh.
LEMMA NextFreshIsEdit ==
  ASSUME IInv, Next
  PROVE  FreshIsEdit'
<1>1. PICK w \in Workers :
           \/ \E u \in Users, r \in Request : LoadStep(w, u, r)
           \/ \E u \in Users, e \in Emails, p \in Passwords : BeginRegister(w, u, e, p)
           \/ SaveStep(w)
           \/ Abort(w)
  BY StepKinds
<1> SUFFICES ASSUME NEW v \in Workers, Busy(v)', ~request'[v].stale
             PROVE  IsEdit(request'[v].op, row'[request'[v].user], request'[v].object)
  BY DEF FreshIsEdit, Busy, IsEdit
<1>2. TypeOK /\ RequestsHaveRows /\ FreshIsEdit
  BY DEF IInv
<1>3. CASE \E u \in Users, r \in Request : LoadStep(w, u, r)
  <2>1. CASE v = w
    BY <1>2, <1>3, <2>1 DEF LoadStep, TypeOK
  <2>2. CASE v # w
    BY <1>2, <1>3, <2>2, OthersKeep DEF LoadStep, FreshIsEdit
  <2> QED
    BY <2>1, <2>2
<1>4. CASE \E u \in Users, e \in Emails, p \in Passwords : BeginRegister(w, u, e, p)
  <2> PICK u \in Users, e \in Emails, p \in Passwords : BeginRegister(w, u, e, p)
    BY <1>4
  <2>1. CASE v = w
    <3> DEFINE object == NewRow(e, p, lastToken + 1)
               edited == [object EXCEPT !.is_active = FALSE,
                                        !.email_verification_token = lastToken + 2]
    <3>1. row'[u] = object
      BY <1>2 DEF BeginRegister, TypeOK
    <3>2. request'[w] = [op |-> "register", user |-> u, token |-> NoToken, stale |-> FALSE,
                         object |-> edited]
      BY <1>2 DEF BeginRegister, TypeOK
    <3>3. IsEdit("register", object, edited)
      BY DEF IsEdit, NewRow
    <3> QED
      BY <2>1, <3>1, <3>2, <3>3
  <2>2. CASE v # w
    <3>1. Busy(v) /\ ~request[v].stale /\ request[v].user # u
      BY <1>2, <1>4, <2>2, OthersKeep DEF RequestsHaveRows, BeginRegister
    <3>2. row'[request[v].user] = row[request[v].user]
      BY <1>2, <3>1 DEF BeginRegister, TypeOK
    <3> QED
      BY <1>2, <1>4, <2>2, <3>1, <3>2, OthersKeep DEF FreshIsEdit
  <2> QED
    BY <2>1, <2>2
<1>5. CASE SaveStep(w)
  <2>1. v # w /\ request[v].user # request[w].user /\ Busy(v)
    BY <1>5, SaveOvertakes
  <2>2. row'[request[v].user] = row[request[v].user]
    BY <1>2, <1>5, <2>1, BusyIsRequest DEF SaveStep, TypeOK, Request, Busy
  <2> QED
    BY <1>2, <1>5, <2>1, <2>2, OthersKeep DEF FreshIsEdit
<1>6. CASE Abort(w)
  <2>1. v # w
    BY <1>2, <1>6 DEF Abort, Busy, TypeOK
  <2> QED
    BY <1>2, <1>6, <2>1, OthersKeep DEF Abort, FreshIsEdit
<1> QED
  BY <1>1, <1>3, <1>4, <1>5, <1>6


\* A copy claims a verification only where a link brought one about.
LEMMA NextVerifiedCopies ==
  ASSUME IInv, Next
  PROVE  VerifiedCopies'
<1>1. PICK w \in Workers :
           \/ \E u \in Users, r \in Request : LoadStep(w, u, r)
           \/ \E u \in Users, e \in Emails, p \in Passwords : BeginRegister(w, u, e, p)
           \/ SaveStep(w)
           \/ Abort(w)
  BY StepKinds
<1>2. TypeOK /\ RequestsHaveRows /\ VerifiedCopies /\ VerifiedByLink
  BY DEF IInv
<1>3. clicked \subseteq clicked'
  BY <1>1 DEF LoadStep, BeginRegister, SaveStep, Abort, history
<1> SUFFICES ASSUME NEW v \in Workers, Busy(v)', request'[v].op # "verify",
                    request'[v].object.email_verified
             PROVE  request'[v].user \in clicked'
  BY DEF VerifiedCopies, Busy
<1>4. CASE v # w
  BY <1>1, <1>2, <1>3, <1>4, OthersKeep DEF VerifiedCopies
<1>5. CASE v = w
  <2>1. CASE \E u \in Users, r \in Request : LoadStep(w, u, r)
    <3> PICK u \in Users, r \in Request : LoadStep(w, u, r)
      BY <2>1
    <3>1. r = request'[v] /\ u \in registered /\ r.user = u /\ row[u] \in Row
      BY <1>2, <1>5 DEF LoadStep, TypeOK
    <3>2. r.object.email_verified = row[u].email_verified
      BY <3>1 DEF LoadStep, IsEdit, Row
    <3> QED
      BY <1>2, <1>3, <3>1, <3>2 DEF VerifiedByLink
  <2>2. CASE \E u \in Users, e \in Emails, p \in Passwords : BeginRegister(w, u, e, p)
    BY <1>2, <1>5, <2>2 DEF BeginRegister, TypeOK, NewRow
  <2>3. CASE SaveStep(w)
    BY <1>5, <2>3 DEF SaveStep, Overtaken, Busy
  <2>4. CASE Abort(w)
    BY <1>2, <1>5, <2>4 DEF Abort, Busy, TypeOK
  <2> QED
    BY <1>1, <2>1, <2>2, <2>3, <2>4
<1> QED
  BY <1>4, <1>5


\* The rows follow: they are saved copies.
LEMMA NextVerifiedByLink ==
  ASSUME IInv, Next
  PROVE  VerifiedByLink'
<1>1. PICK w \in Workers :
           \/ \E u \in Users, r \in Request : LoadStep(w, u, r)
           \/ \E u \in Users, e \in Emails, p \in Passwords : BeginRegister(w, u, e, p)
           \/ SaveStep(w)
           \/ Abort(w)
  BY StepKinds
<1>2. TypeOK /\ RequestsHaveRows /\ VerifiedCopies /\ VerifiedByLink
  BY DEF IInv
<1> SUFFICES ASSUME NEW u \in registered', row'[u].email_verified
             PROVE  u \in clicked'
  BY DEF VerifiedByLink
<1>3. CASE \E v \in Users, r \in Request : LoadStep(w, v, r)
  BY <1>2, <1>3 DEF LoadStep, VerifiedByLink
<1>4. CASE \E v \in Users, e \in Emails, p \in Passwords : BeginRegister(w, v, e, p)
  BY <1>2, <1>4 DEF BeginRegister, TypeOK, NewRow, VerifiedByLink
<1>5. CASE SaveStep(w)
  <2>1. request[w] \in Request
    BY <1>2, <1>5, BusyIsRequest DEF SaveStep, Busy
  <2>2. CASE u = request[w].user
    BY <1>2, <1>5, <2>1, <2>2 DEF SaveStep, VerifiedCopies, TypeOK, Request
  <2>3. CASE u # request[w].user
    BY <1>2, <1>5, <2>1, <2>3 DEF SaveStep, VerifiedByLink, TypeOK, Request
  <2> QED
    BY <2>2, <2>3
<1>6. CASE Abort(w)
  BY <1>2, <1>6 DEF Abort, VerifiedByLink, history
<1> QED
  BY <1>1, <1>3, <1>4, <1>5, <1>6

\* No edit makes a deleted account usable, unless the account is verified.
LEMMA EditKeepsDeletedUsable ==
  ASSUME NEW op, NEW old \in Row, NEW new \in Row, IsEdit(op, old, new), DeletedUsable(old)
  PROVE  DeletedUsable(new)
BY DEF IsEdit, DeletedUsable, Row

\* Neither does a save of a copy that is not: the copies in flight stay sound.
LEMMA NextDeletedUsableCopies ==
  ASSUME IInv, Next
  PROVE  DeletedUsableCopies'
<1>1. PICK w \in Workers :
           \/ \E u \in Users, r \in Request : LoadStep(w, u, r)
           \/ \E u \in Users, e \in Emails, p \in Passwords : BeginRegister(w, u, e, p)
           \/ SaveStep(w)
           \/ Abort(w)
  BY StepKinds
<1>2. TypeOK /\ DeletedUsableCopies /\ DeletedUsableOnlyByLink
  BY DEF IInv
<1> SUFFICES ASSUME NEW v \in Workers, Busy(v)'
             PROVE  DeletedUsable(request'[v].object)
  BY DEF DeletedUsableCopies, Busy
<1>3. CASE v # w
  BY <1>1, <1>2, <1>3, OthersKeep DEF DeletedUsableCopies
<1>4. CASE v = w
  <2>1. CASE \E u \in Users, r \in Request : LoadStep(w, u, r)
    <3> PICK u \in Users, r \in Request : LoadStep(w, u, r)
      BY <2>1
    <3>1. r = request'[v] /\ u \in registered /\ row[u] \in Row /\ r.object \in Row
      BY <1>2, <1>4 DEF LoadStep, TypeOK, Request
    <3>2. IsEdit(r.op, row[u], r.object) /\ DeletedUsable(row[u])
      BY <1>2, <3>1 DEF LoadStep, DeletedUsableOnlyByLink, DeletedUsable
    <3> QED
      BY <3>1, <3>2, EditKeepsDeletedUsable
  <2>2. CASE \E u \in Users, e \in Emails, p \in Passwords : BeginRegister(w, u, e, p)
    BY <1>2, <1>4, <2>2 DEF BeginRegister, TypeOK, NewRow, DeletedUsable
  <2>3. CASE SaveStep(w)
    BY <1>4, <2>3 DEF SaveStep, Overtaken, Busy
  <2>4. CASE Abort(w)
    BY <1>2, <1>4, <2>4 DEF Abort, Busy, TypeOK
  <2> QED
    BY <1>1, <2>1, <2>2, <2>3, <2>4
<1> QED
  BY <1>3, <1>4

\* A deleted account becomes usable through none of the handlers, stale saves
\* included, unless it is verified.
LEMMA NextDeletedUsableOnlyByLink ==
  ASSUME IInv, Next
  PROVE  DeletedUsableOnlyByLink'
<1>1. PICK w \in Workers :
           \/ \E u \in Users, r \in Request : LoadStep(w, u, r)
           \/ \E u \in Users, e \in Emails, p \in Passwords : BeginRegister(w, u, e, p)
           \/ SaveStep(w)
           \/ Abort(w)
  BY StepKinds
<1>2. TypeOK /\ DeletedUsableCopies /\ DeletedUsableOnlyByLink
  BY DEF IInv
<1> SUFFICES ASSUME NEW u \in registered'
             PROVE  DeletedUsable(row'[u])
  BY DEF DeletedUsableOnlyByLink, DeletedUsable
<1>3. CASE \E v \in Users, r \in Request : LoadStep(w, v, r)
  BY <1>2, <1>3 DEF LoadStep, DeletedUsableOnlyByLink, DeletedUsable
<1>4. CASE \E v \in Users, e \in Emails, p \in Passwords : BeginRegister(w, v, e, p)
  BY <1>2, <1>4 DEF BeginRegister, TypeOK, NewRow, DeletedUsableOnlyByLink, DeletedUsable
<1>5. CASE SaveStep(w)
  <2>1. request[w] \in Request
    BY <1>2, <1>5, BusyIsRequest DEF SaveStep, Busy
  <2>2. CASE u = request[w].user
    BY <1>2, <1>5, <2>1, <2>2 DEF SaveStep, DeletedUsableCopies, TypeOK, Request
  <2>3. CASE u # request[w].user
    BY <1>2, <1>5, <2>1, <2>3 DEF SaveStep, DeletedUsableOnlyByLink, DeletedUsable, TypeOK, Request
  <2> QED
    BY <2>2, <2>3
<1>6. CASE Abort(w)
  BY <1>2, <1>6 DEF Abort, DeletedUsableOnlyByLink, DeletedUsable
<1> QED
  BY <1>1, <1>3, <1>4, <1>5, <1>6

\* The password saved is the one confirmed, unless the copy is stale.
LEMMA NextPasswordAsConfirmed ==
  ASSUME IInv, Next
  PROVE  PasswordAsConfirmed'
<1>1. PICK w \in Workers :
           \/ \E u \in Users, r \in Request : LoadStep(w, u, r)
           \/ \E u \in Users, e \in Emails, p \in Passwords : BeginRegister(w, u, e, p)
           \/ SaveStep(w)
           \/ Abort(w)
  BY StepKinds
<1>2. TypeOK /\ FreshIsEdit /\ PasswordAsConfirmed
  BY DEF IInv
<1> SUFFICES ASSUME NEW u \in registered', u \notin clobbered'
             PROVE  row'[u].password = chosen'[u]
  BY DEF PasswordAsConfirmed
<1>3. CASE \E v \in Users, r \in Request : LoadStep(w, v, r)
  BY <1>2, <1>3 DEF LoadStep, PasswordAsConfirmed
<1>4. CASE \E v \in Users, e \in Emails, p \in Passwords : BeginRegister(w, v, e, p)
  BY <1>2, <1>4 DEF BeginRegister, TypeOK, NewRow, PasswordAsConfirmed
<1>5. CASE SaveStep(w)
  <2>1. request[w] \in Request
    BY <1>2, <1>5, BusyIsRequest DEF SaveStep, Busy
  <2>2. CASE u # request[w].user
    BY <1>2, <1>5, <2>1, <2>2 DEF SaveStep, PasswordAsConfirmed, TypeOK, Request
  <2>3. CASE u = request[w].user
    <3>1. ~request[w].stale /\ u \notin clobbered /\ u \in registered /\ u \in Users
      BY <1>2, <1>5, <2>1, <2>3 DEF SaveStep, Request, TypeOK
    <3>2. row'[u] = request[w].object
      BY <1>2, <1>5, <2>3, <3>1 DEF SaveStep, TypeOK
    <3>3. CASE request[w].op \in {"reset", "password"}
      BY <1>2, <1>5, <2>3, <3>1, <3>2, <3>3 DEF SaveStep, TypeOK
    <3>4. CASE request[w].op \notin {"reset", "password"}
      <4>1. row[u] \in Row /\ request[w].object \in Row
        BY <1>2, <2>1, <3>1 DEF TypeOK, Request
      <4>2. IsEdit(request[w].op, row[u], request[w].object)
        BY <1>2, <1>5, <2>3, <3>1 DEF SaveStep, FreshIsEdit
      <4>3. request[w].object.password = row[u].password
        BY <3>4, <4>1, <4>2, EditKeeps
      <4> QED
        BY <1>2, <1>5, <3>1, <3>2, <3>4, <4>3 DEF SaveStep, PasswordAsConfirmed
    <3> QED
      BY <3>3, <3>4
  <2> QED
    BY <2>2, <2>3
<1>6. CASE Abort(w)
  BY <1>2, <1>6 DEF Abort, PasswordAsConfirmed, history
<1> QED
  BY <1>1, <1>3, <1>4, <1>5, <1>6

\* The tokens of a registration are drawn past all others.
LEMMA RegisterTokens ==
  ASSUME IInv, NEW w \in Workers, NEW u \in Users, NEW e \in Emails, NEW p \in Passwords,
         BeginRegister(w, u, e, p)
  PROVE  /\ lastToken' = lastToken + 2
         /\ lastToken \in Nat
         /\ row'[u] \in Row
         /\ TokensOf(row'[u]) = {lastToken + 1, NoToken}
         /\ \A v \in Users \ {u} : row'[v] = row[v]
         /\ request'[w] \in Request
         /\ request'[w].op = "register"
         /\ request'[w].user = u
         /\ request'[w].token = NoToken
         /\ request'[w].object.email_verification_token = lastToken + 2
         /\ TokensOf(request'[w].object) = {lastToken + 2, NoToken}
         /\ \A v \in Workers \ {w} : request'[v] = request[v]
         /\ UNCHANGED <<mailed, clicked, consumed, clobbered>>
<1> DEFINE object == NewRow(e, p, lastToken + 1)
           edited == [object EXCEPT !.is_active = FALSE,
                                    !.email_verification_token = lastToken + 2]
           r == [op |-> "register", user |-> u, token |-> NoToken, stale |-> FALSE,
                 object |-> edited]
<1>1. TypeOK
  BY DEF IInv
<1>2. /\ lastToken' = lastToken + 2
      /\ lastToken \in Nat
      /\ lastToken + 1 \in Tokens
      /\ lastToken + 2 \in Tokens
  BY <1>1, AccountsAssumption DEF BeginRegister, Draw, TypeOK, Tokens
<1>3. object \in Row /\ edited \in Row
  BY <1>2 DEF Row, NewRow, Tokens, NoToken
<1>4. TokensOf(object) = {lastToken + 1, NoToken} /\ TokensOf(edited) = {lastToken + 2, NoToken}
  BY DEF TokensOf, NewRow
<1>5. r \in Request
  BY <1>3 DEF Request, Ops
<1>6. row' = [row EXCEPT ![u] = object] /\ request' = [request EXCEPT ![w] = r]
  BY DEF BeginRegister
<1>7. edited.email_verification_token = lastToken + 2
  BY DEF NewRow
<1> QED
  BY <1>1, <1>2, <1>3, <1>4, <1>5, <1>6, <1>7 DEF BeginRegister, TypeOK

\* Every token in sight is a number no larger than the last one drawn.
LEMMA TokenBound ==
  ASSUME IInv
  PROVE  /\ lastToken \in Nat
         /\ \A u \in Users : \A t \in TokensOf(row[u]) : t \in Nat /\ t <= lastToken
         /\ \A w \in Workers :
                Busy(w) => \A t \in TokensOf(request[w].object) : t \in Nat /\ t <= lastToken
         /\ \A link \in mailed : link.token \in Tokens /\ link.token \in Nat /\ link.token <= lastToken
<1>1. TypeOK /\ TokensDrawn /\ lastToken \in Nat
  BY AccountsAssumption DEF IInv, TypeOK
<1>2. \A r \in Row : \A t \in TokensOf(r) : t \in Nat
  BY AccountsAssumption DEF TokensOf, Row, Tokens, NoToken
<1>3. ASSUME NEW w \in Workers, Busy(w)
      PROVE  request[w].object \in Row
  BY <1>1, <1>3, BusyIsRequest DEF Busy, Request
<1>4. \A link \in mailed : link.token \in Tokens /\ link.token \in Nat
  BY <1>1, AccountsAssumption DEF TypeOK, Link, Tokens
<1> QED
  BY <1>1, <1>2, <1>3, <1>4 DEF TokensDrawn, TypeOK

\* A save moves the object of w into the row of its user.
LEMMA SaveRow ==
  ASSUME IInv, NEW w \in Workers, SaveStep(w), NEW u \in Users
  PROVE  /\ request[w] \in Request
         /\ u = request[w].user => row'[u] = request[w].object
         /\ u # request[w].user => row'[u] = row[u]
         /\ ~Busy(w)'
         /\ Busy(w)
<1>1. TypeOK
  BY DEF IInv
<1> QED
  BY <1>1, BusyIsRequest DEF SaveStep, Busy, TypeOK, Request, Overtaken


\* Every token in a row, a copy or a link was drawn before.
LEMMA NextTokensDrawn ==
  ASSUME IInv, Next
  PROVE  TokensDrawn'
<1>1. PICK w \in Workers :
           \/ \E u \in Users, r \in Request : LoadStep(w, u, r)
           \/ \E u \in Users, e \in Emails, p \in Passwords : BeginRegister(w, u, e, p)
           \/ SaveStep(w)
           \/ Abort(w)
  BY StepKinds
<1>2. TypeOK
  BY DEF IInv
<1>3. CASE \E u \in Users, r \in Request : LoadStep(w, u, r)
  <2> PICK u \in Users, r \in Request : LoadStep(w, u, r)
    BY <1>3
  <2>1. /\ lastToken' \in Nat
        /\ lastToken <= lastToken'
        /\ UNCHANGED <<row, mailed>>
        /\ request'[w] = r
    BY <1>2 DEF LoadStep, TypeOK
  <2>2. \A t \in TokensOf(r.object) : t <= lastToken'
    BY <2>1, TokenBound, LoadTokens DEF NoToken
  <2>3. ASSUME NEW v \in Workers, v # w, Busy(v)', NEW t \in TokensOf(request'[v].object)
        PROVE  t <= lastToken'
    BY <1>3, <2>1, <2>3, OthersKeep, TokenBound
  <2> QED
    BY <2>1, <2>2, <2>3, TokenBound DEF TokensDrawn, Busy
<1>4. CASE \E u \in Users, e \in Emails, p \in Passwords : BeginRegister(w, u, e, p)
  <2> PICK u \in Users, e \in Emails, p \in Passwords : BeginRegister(w, u, e, p)
    BY <1>4
  <2>1. \A v \in Users : \A t \in TokensOf(row'[v]) : t <= lastToken'
    BY RegisterTokens, TokenBound DEF NoToken
  <2>2. \A v \in Workers : Busy(v)' => \A t \in TokensOf(request'[v].object) : t <= lastToken'
    BY RegisterTokens, TokenBound DEF NoToken, Busy
  <2>3. \A link \in mailed' : link.token <= lastToken'
    BY RegisterTokens, TokenBound
  <2> QED
    BY <2>1, <2>2, <2>3 DEF TokensDrawn, Busy
<1>5. CASE SaveStep(w)
  <2>1. lastToken' = lastToken
    BY <1>5 DEF SaveStep
  <2>2. \A u \in Users : \A t \in TokensOf(row'[u]) : t <= lastToken
    BY <1>5, SaveRow, TokenBound
  <2>3. ASSUME NEW v \in Workers, Busy(v)', NEW t \in TokensOf(request'[v].object)
        PROVE  t <= lastToken
    <3>1. v # w
      BY <1>2, <1>5, <2>3 DEF SaveStep, Overtaken, Busy
    <3> QED
      BY <1>5, <2>3, <3>1, OthersKeep, TokenBound
  <2>4. ASSUME NEW link \in mailed'
        PROVE  link.token <= lastToken
    <3>1. Drawing(w) => Drawn(w) <= lastToken
      BY TokenBound DEF Drawing, Drawn, TokensOf
    <3> QED
      BY <1>5, <2>4, <3>1, TokenBound DEF SaveStep
  <2> QED
    BY <2>1, <2>2, <2>3, <2>4 DEF TokensDrawn, Busy
<1>6. CASE Abort(w)
  <2>1. UNCHANGED <<row, lastToken, mailed>> /\ ~Busy(w)'
    BY <1>2, <1>6 DEF Abort, Busy, TypeOK
  <2>2. ASSUME NEW v \in Workers, Busy(v)', NEW t \in TokensOf(request'[v].object)
        PROVE  t <= lastToken
    BY <1>6, <2>1, <2>2, OthersKeep, TokenBound
  <2> QED
    BY <2>1, <2>2, TokenBound DEF TokensDrawn, Busy
<1> QED
  BY <1>1, <1>3, <1>4, <1>5, <1>6


\* A token drawn and not yet saved is in nobody else's hands.
LEMMA NextDrawnIsPrivate ==
  ASSUME IInv, Next
  PROVE  DrawnIsPrivate'
<1>1. PICK w \in Workers :
           \/ \E u \in Users, r \in Request : LoadStep(w, u, r)
           \/ \E u \in Users, e \in Emails, p \in Passwords : BeginRegister(w, u, e, p)
           \/ SaveStep(w)
           \/ Abort(w)
  BY StepKinds
<1>2. TypeOK /\ DrawnIsPrivate
  BY DEF IInv
<1> SUFFICES ASSUME NEW x \in Workers, Drawing(x)'
             PROVE  /\ Drawn(x)' # NoToken
                    /\ \A u \in Users : Drawn(x)' \notin TokensOf(row'[u])
                    /\ \A v \in Workers \ {x} : Busy(v)' => Drawn(x)' \notin TokensOf(request'[v].object)
                    /\ \A link \in mailed' : link.token # Drawn(x)'
  BY DEF DrawnIsPrivate, Busy
<1>3. CASE \E u \in Users, r \in Request : LoadStep(w, u, r)
  <2> PICK u \in Users, r \in Request : LoadStep(w, u, r)
    BY <1>3
  <2>1. request'[w] = r /\ UNCHANGED <<row, mailed>>
    BY <1>2 DEF LoadStep, TypeOK
  <2>2. CASE x = w
    <3>1. Drawn(x)' = lastToken + 1
      BY <2>1, <2>2 DEF LoadStep, Drawing, Drawn
    <3>2. \A v \in Workers \ {x} : Busy(v)' => Drawn(x)' \notin TokensOf(request'[v].object)
      BY <1>3, <2>2, <3>1, OthersKeep, TokenBound
    <3> QED
      BY <2>1, <3>1, <3>2, TokenBound DEF NoToken
  <2>3. CASE x # w
    <3>1. Drawing(x) /\ Drawn(x)' = Drawn(x) /\ Busy(x)
      BY <1>3, <2>3, OthersKeep DEF Drawing
    <3>2. Drawn(x) \in Nat /\ Drawn(x) <= lastToken
      BY <3>1, TokenBound DEF Drawn, TokensOf
    <3>3. Drawn(x) \notin TokensOf(r.object)
      BY <1>2, <2>3, <3>1, <3>2, LoadTokens, TokenBound DEF DrawnIsPrivate
    <3>4. ASSUME NEW v \in Workers \ {x}, Busy(v)'
          PROVE  Drawn(x) \notin TokensOf(request'[v].object)
      BY <1>2, <1>3, <2>1, <3>1, <3>3, <3>4, OthersKeep DEF DrawnIsPrivate
    <3> QED
      BY <1>2, <2>1, <3>1, <3>4 DEF DrawnIsPrivate
  <2> QED
    BY <2>2, <2>3
<1>4. CASE \E u \in Users, e \in Emails, p \in Passwords : BeginRegister(w, u, e, p)
  <2> PICK u \in Users, e \in Emails, p \in Passwords : BeginRegister(w, u, e, p)
    BY <1>4
  <2>1. CASE x = w
    <3>1. Drawn(x)' = lastToken + 2
      BY <2>1, RegisterTokens DEF Drawn
    <3>2. \A v \in Users : Drawn(x)' \notin TokensOf(row'[v])
      BY <3>1, RegisterTokens, TokenBound DEF NoToken
    <3>3. \A v \in Workers \ {x} : Busy(v)' => Drawn(x)' \notin TokensOf(request'[v].object)
      BY <2>1, <3>1, RegisterTokens, TokenBound DEF Busy
    <3> QED
      BY <3>1, <3>2, <3>3, RegisterTokens, TokenBound DEF NoToken
  <2>2. CASE x # w
    <3>1. Drawing(x) /\ Drawn(x)' = Drawn(x) /\ Busy(x)
      BY <1>4, <2>2, OthersKeep DEF Drawing
    <3>2. Drawn(x) \in Nat /\ Drawn(x) <= lastToken /\ Drawn(x) # NoToken
      BY <1>2, <3>1, TokenBound DEF Drawn, TokensOf, DrawnIsPrivate
    <3>3. \A v \in Users : Drawn(x) \notin TokensOf(row'[v])
      BY <1>2, <3>1, <3>2, RegisterTokens DEF DrawnIsPrivate
    <3>4. ASSUME NEW v \in Workers \ {x}, Busy(v)'
          PROVE  Drawn(x) \notin TokensOf(request'[v].object)
      BY <1>2, <3>1, <3>2, <3>4, RegisterTokens DEF DrawnIsPrivate, Busy
    <3> QED
      BY <1>2, <3>1, <3>2, <3>3, <3>4, RegisterTokens DEF DrawnIsPrivate
  <2> QED
    BY <2>1, <2>2
<1>5. CASE SaveStep(w)
  <2>1. x # w
    BY <1>2, <1>5 DEF SaveStep, Overtaken, Busy, Drawing
  <2>2. Drawing(x) /\ Drawn(x)' = Drawn(x) /\ Busy(x) /\ Busy(w)
    BY <1>5, <2>1, OthersKeep DEF Drawing, SaveStep
  <2>3. Drawn(x) \notin TokensOf(request[w].object)
    BY <1>2, <2>1, <2>2 DEF DrawnIsPrivate
  <2>4. \A u \in Users : Drawn(x) \notin TokensOf(row'[u])
    BY <1>2, <1>5, <2>2, <2>3, SaveRow DEF DrawnIsPrivate
  <2>5. ASSUME NEW v \in Workers \ {x}, Busy(v)'
        PROVE  Drawn(x) \notin TokensOf(request'[v].object)
    <3>1. v # w
      BY <1>2, <1>5, <2>5 DEF SaveStep, Overtaken, Busy
    <3> QED
      BY <1>2, <1>5, <2>2, <2>5, <3>1, OthersKeep DEF DrawnIsPrivate
  <2>6. Drawing(w) => Drawn(w) \in TokensOf(request[w].object)
    BY DEF Drawn, TokensOf
  <2>7. \A link \in mailed' : link.token # Drawn(x)
    BY <1>2, <1>5, <2>2, <2>3, <2>6 DEF DrawnIsPrivate, SaveStep
  <2> QED
    BY <1>2, <2>2, <2>4, <2>5, <2>7 DEF DrawnIsPrivate
<1>6. CASE Abort(w)
  <2>1. UNCHANGED <<row, lastToken, mailed>> /\ ~Busy(w)'
    BY <1>2, <1>6 DEF Abort, Busy, TypeOK
  <2>2. x # w
    BY <2>1 DEF Drawing, Busy
  <2>3. Drawing(x) /\ Drawn(x)' = Drawn(x)
    BY <1>6, <2>2, OthersKeep
  <2>4. ASSUME NEW v \in Workers \ {x}, Busy(v)'
        PROVE  Drawn(x) \notin TokensOf(request'[v].object)
    BY <1>2, <1>6, <2>1, <2>3, <2>4, OthersKeep DEF DrawnIsPrivate
  <2> QED
    BY <1>2, <2>1, <2>3, <2>4 DEF DrawnIsPrivate
<1> QED
  BY <1>1, <1>3, <1>4, <1>5, <1>6

\* Mail is never taken back, and a thread that saves or aborts is idle after.
LEMMA MailGrows ==
  ASSUME IInv, NEW w \in Workers,
         \/ \E u \in Users, r \in Request : LoadStep(w, u, r)
         \/ \E u \in Users, e \in Emails, p \in Passwords : BeginRegister(w, u, e, p)
         \/ SaveStep(w)
         \/ Abort(w)
  PROVE  /\ mailed \subseteq mailed'
         /\ SaveStep(w) \/ Abort(w) => ~Busy(w)'
<1>1. TypeOK
  BY DEF IInv
<1> QED
  BY <1>1 DEF LoadStep, BeginRegister, SaveStep, Abort, Busy, Overtaken, TypeOK


\* A token that a request presents was in a link.
LEMMA NextPresentedWasMailed ==
  ASSUME IInv, Next
  PROVE  PresentedWasMailed'
<1>1. PICK w \in Workers :
           \/ \E u \in Users, r \in Request : LoadStep(w, u, r)
           \/ \E u \in Users, e \in Emails, p \in Passwords : BeginRegister(w, u, e, p)
           \/ SaveStep(w)
           \/ Abort(w)
  BY StepKinds
<1>2. TypeOK /\ PresentedWasMailed /\ MailedStaysHome
  BY DEF IInv
<1> SUFFICES ASSUME NEW v \in Workers, Busy(v)'
             PROVE  request'[v].token # NoToken =>
                        \E link \in mailed' : /\ link.token = request'[v].token
                                              /\ link.owner = request'[v].user
  BY DEF PresentedWasMailed, Busy
<1>3. mailed \subseteq mailed'
  BY <1>1, MailGrows
<1>4. CASE v # w
  <2>1. /\ Busy(v)
        /\ request'[v].op = request[v].op
        /\ request'[v].user = request[v].user
        /\ request'[v].token = request[v].token
    BY <1>1, <1>4, OthersKeep
  <2> QED
    BY <1>2, <1>3, <2>1 DEF PresentedWasMailed
<1>5. CASE v = w
  <2>1. CASE \E u \in Users, r \in Request : LoadStep(w, u, r)
    <3> PICK u \in Users, r \in Request : LoadStep(w, u, r)
      BY <2>1
    <3>1. request'[v] = r /\ r.user = u /\ mailed' = mailed
      BY <1>2, <1>5 DEF LoadStep, TypeOK
    <3> QED
      BY <1>2, <3>1 DEF LoadStep, MailedStaysHome
  <2>2. CASE \E u \in Users, e \in Emails, p \in Passwords : BeginRegister(w, u, e, p)
    BY <1>5, <2>2, RegisterTokens
  <2>3. CASE SaveStep(w) \/ Abort(w)
    BY <1>5, <2>3, MailGrows
  <2> QED
    BY <1>1, <2>1, <2>2, <2>3
<1> QED
  BY <1>4, <1>5


\* A mailed token stays in rows and copies of its owner.
LEMMA NextMailedStaysHome ==
  ASSUME IInv, Next
  PROVE  MailedStaysHome'
<1>1. PICK w \in Workers :
           \/ \E u \in Users, r \in Request : LoadStep(w, u, r)
           \/ \E u \in Users, e \in Emails, p \in Passwords : BeginRegister(w, u, e, p)
           \/ SaveStep(w)
           \/ Abort(w)
  BY StepKinds
<1>2. TypeOK /\ MailedStaysHome /\ DrawnIsPrivate
  BY DEF IInv
<1> SUFFICES ASSUME NEW link \in mailed'
             PROVE  /\ \A u \in Users : link.token \in TokensOf(row'[u]) => link.owner = u
                    /\ \A v \in Workers :
                           Busy(v)' /\ link.token \in TokensOf(request'[v].object)
                               => link.owner = request'[v].user
  BY DEF MailedStaysHome, Busy
<1>3. CASE \E u \in Users, r \in Request : LoadStep(w, u, r)
  <2> PICK u \in Users, r \in Request : LoadStep(w, u, r)
    BY <1>3
  <2>1. request'[w] = r /\ r.user = u /\ UNCHANGED <<row, mailed>>
    BY <1>2 DEF LoadStep, TypeOK
  <2>2. link.token \in TokensOf(r.object) => link.owner = u
    BY <1>2, <2>1, LoadTokens, TokenBound DEF MailedStaysHome, Tokens, NoToken
  <2>3. ASSUME NEW v \in Workers, v # w, Busy(v)', link.token \in TokensOf(request'[v].object)
        PROVE  link.owner = request'[v].user
    BY <1>2, <1>3, <2>1, <2>3, OthersKeep DEF MailedStaysHome
  <2> QED
    BY <1>2, <2>1, <2>2, <2>3 DEF MailedStaysHome
<1>4. CASE \E u \in Users, e \in Emails, p \in Passwords : BeginRegister(w, u, e, p)
  <2> PICK u \in Users, e \in Emails, p \in Passwords : BeginRegister(w, u, e, p)
    BY <1>4
  <2>1. link \in mailed /\ link.token \in Nat /\ link.token <= lastToken /\ link.token # NoToken
    BY RegisterTokens, TokenBound DEF Tokens, NoToken
  <2>2. link.token \notin {lastToken + 1, lastToken + 2, NoToken}
    BY <2>1, TokenBound
  <2>3. \A v \in Users : link.token \in TokensOf(row'[v]) => link.owner = v
    BY <1>2, <2>1, <2>2, RegisterTokens DEF MailedStaysHome
  <2>4. ASSUME NEW v \in Workers, Busy(v)', link.token \in TokensOf(request'[v].object)
        PROVE  link.owner = request'[v].user
    BY <1>2, <2>1, <2>2, <2>4, RegisterTokens DEF MailedStaysHome, Busy
  <2> QED
    BY <2>3, <2>4
<1>5. CASE SaveStep(w)
  <2>1. CASE link \in mailed
    <3>1. \A u \in Users : link.token \in TokensOf(row'[u]) => link.owner = u
      BY <1>2, <1>5, <2>1, SaveRow DEF MailedStaysHome
    <3>2. ASSUME NEW v \in Workers, Busy(v)', link.token \in TokensOf(request'[v].object)
          PROVE  link.owner = request'[v].user
      <4>1. v # w
        BY <1>5, <3>2, MailGrows
      <4> QED
        BY <1>2, <1>5, <2>1, <3>2, <4>1, OthersKeep DEF MailedStaysHome
    <3> QED
      BY <3>1, <3>2
  <2>2. CASE link \notin mailed
    <3>1. Drawing(w) /\ link.token = Drawn(w) /\ link.owner = request[w].user
      BY <1>5, <2>2 DEF SaveStep
    <3>2. \A u \in Users : link.token \in TokensOf(row'[u]) => link.owner = u
      BY <1>2, <1>5, <3>1, SaveRow DEF DrawnIsPrivate
    <3>3. ASSUME NEW v \in Workers, Busy(v)', link.token \in TokensOf(request'[v].object)
          PROVE  FALSE
      <4>1. v # w
        BY <1>5, <3>3, MailGrows
      <4> QED
        BY <1>2, <1>5, <3>1, <3>3, <4>1, OthersKeep DEF DrawnIsPrivate
    <3> QED
      BY <3>2, <3>3
  <2> QED
    BY <2>1, <2>2
<1>6. CASE Abort(w)
  <2>1. UNCHANGED <<row, mailed>>
    BY <1>6 DEF Abort
  <2>2. ASSUME NEW v \in Workers, Busy(v)', link.token \in TokensOf(request'[v].object)
        PROVE  link.owner = request'[v].user
    <3>1. v # w
      BY <1>6, <2>2, MailGrows
    <3> QED
      BY <1>2, <1>6, <2>1, <2>2, <3>1, OthersKeep DEF MailedStaysHome
  <2> QED
    BY <1>2, <2>1, <2>2 DEF MailedStaysHome
<1> QED
  BY <1>1, <1>3, <1>4, <1>5, <1>6


\* A reset link that was used was mailed.
LEMMA NextConsumedWasMailed ==
  ASSUME IInv, Next
  PROVE  ConsumedWasMailed'
<1>1. PICK w \in Workers :
           \/ \E u \in Users, r \in Request : LoadStep(w, u, r)
           \/ \E u \in Users, e \in Emails, p \in Passwords : BeginRegister(w, u, e, p)
           \/ SaveStep(w)
           \/ Abort(w)
  BY StepKinds
<1>2. ConsumedWasMailed /\ PresentedWasMailed
  BY DEF IInv
<1>3. mailed \subseteq mailed'
  BY <1>1, MailGrows
<1>4. SaveStep(w) => \A t \in consumed' : t \in consumed \/ \E link \in mailed : link.token = t
  BY <1>2 DEF SaveStep, PresentedWasMailed
<1>5. ~SaveStep(w) => consumed' = consumed
  BY <1>1 DEF LoadStep, BeginRegister, Abort, history
<1> QED
  BY <1>2, <1>3, <1>4, <1>5 DEF ConsumedWasMailed


\* A used reset token is in no row, unless a stale copy was saved.
LEMMA NextResetLinkSpent ==
  ASSUME IInv, Next
  PROVE  ResetLinkSpent'
<1>1. PICK w \in Workers :
           \/ \E u \in Users, r \in Request : LoadStep(w, u, r)
           \/ \E u \in Users, e \in Emails, p \in Passwords : BeginRegister(w, u, e, p)
           \/ SaveStep(w)
           \/ Abort(w)
  BY StepKinds
<1>2. TypeOK /\ ResetLinkSpent /\ FreshIsEdit /\ RequestsHaveRows
  BY DEF IInv
<1>3. ConsumedWasMailed /\ PresentedWasMailed /\ MailedStaysHome /\ DrawnIsPrivate
  BY DEF IInv
<1> SUFFICES ASSUME NEW u \in registered', u \notin clobbered'
             PROVE  row'[u].password_reset_token \notin consumed'
  BY DEF ResetLinkSpent
<1>4. NoToken \notin consumed
  BY <1>2 DEF TypeOK, Tokens, NoToken
<1>5. CASE \E v \in Users, r \in Request : LoadStep(w, v, r)
  BY <1>2, <1>5 DEF LoadStep, ResetLinkSpent
<1>6. CASE \E v \in Users, e \in Emails, p \in Passwords : BeginRegister(w, v, e, p)
  <2> PICK x \in Users, e \in Emails, p \in Passwords : BeginRegister(w, x, e, p)
    BY <1>6
  <2>1. CASE u # x
    BY <1>2, <2>1, RegisterTokens DEF ResetLinkSpent, BeginRegister, TypeOK
  <2>2. CASE u = x
    BY <1>2, <1>4, <2>2 DEF BeginRegister, TypeOK, NewRow
  <2> QED
    BY <2>1, <2>2
<1>7. CASE SaveStep(w)
  <2>1. request[w] \in Request /\ Busy(w) /\ request[w].user \in registered /\ u \in registered
    BY <1>2, <1>7, SaveRow DEF SaveStep, RequestsHaveRows, TypeOK
  <2>2. request[w].op # "reset" => consumed' = consumed
    BY <1>7 DEF SaveStep
  <2>3. request[w].op = "reset" => consumed' = consumed \cup ({request[w].token} \ {NoToken})
    BY <1>7 DEF SaveStep
  <2>4. CASE u # request[w].user
    <3>1. row'[u] = row[u] /\ row[u].password_reset_token \notin consumed
      BY <1>2, <1>7, <2>1, <2>4, SaveRow DEF TypeOK, SaveStep, ResetLinkSpent
    <3>2. CASE request[w].op = "reset" /\ request[w].token # NoToken
      <4>1. PICK link \in mailed : /\ link.token = request[w].token
                                   /\ link.owner = request[w].user
        BY <1>3, <2>1, <3>2 DEF PresentedWasMailed
      <4>2. request[w].token \notin TokensOf(row[u])
        BY <1>2, <1>3, <2>1, <2>4, <4>1 DEF MailedStaysHome, TypeOK
      <4> QED
        BY <2>3, <3>1, <3>2, <4>2 DEF TokensOf
    <3> QED
      BY <2>2, <2>3, <3>1, <3>2
  <2>5. CASE u = request[w].user
    <3>1. /\ ~request[w].stale
          /\ u \notin clobbered
          /\ row[u] \in Row
          /\ request[w].object \in Row
          /\ row'[u] = request[w].object
      BY <1>2, <1>7, <2>1, <2>5, SaveRow DEF SaveStep, TypeOK, Request
    <3>2. IsEdit(request[w].op, row[u], request[w].object)
      BY <1>2, <2>1, <2>5, <3>1 DEF FreshIsEdit
    <3>3. row[u].password_reset_token \notin consumed
      BY <1>2, <2>1, <3>1 DEF ResetLinkSpent
    <3>4. CASE request[w].op = "reset"
      <4>1. request[w].object.password_reset_token = NoToken
        BY <3>1, <3>2, <3>4, EditKeeps
      <4> QED
        BY <1>4, <2>3, <3>1, <3>4, <4>1
    <3>5. CASE request[w].op = "forgot"
      <4>1. Drawing(w) /\ Drawn(w) = request[w].object.password_reset_token
        BY <2>1, <3>5 DEF Drawing, Drawn
      <4>2. Drawn(w) \notin consumed
        BY <1>3, <4>1 DEF DrawnIsPrivate, ConsumedWasMailed
      <4> QED
        BY <2>2, <3>1, <3>5, <4>1, <4>2
    <3>6. CASE request[w].op \notin {"reset", "forgot"}
      BY <2>2, <3>1, <3>2, <3>3, <3>6, EditKeeps
    <3> QED
      BY <3>4, <3>5, <3>6
  <2> QED
    BY <2>4, <2>5
<1>8. CASE Abort(w)
  BY <1>2, <1>8 DEF Abort, ResetLinkSpent, history
<1> QED
  BY <1>1, <1>5, <1>6, <1>7, <1>8

-----------------------------------------------------------------------------
(* The theorems. *)

LEMMA InitIInv == Init => IInv
<1> SUFFICES ASSUME Init
             PROVE  IInv
  OBVIOUS
<1>1. TypeOK
  BY InitTypeOK
<1>2. \A u \in Users : TokensOf(row[u]) = {NoToken}
  BY BlankIsRow DEF Init, TokensOf, Blank, Row
<1>3. \A w \in Workers : ~Busy(w)
  BY DEF Init, Busy
<1> QED
  BY <1>1, <1>2, <1>3 DEF Init, IInv, RequestsHaveRows, FreshIsEdit, TokensDrawn, DrawnIsPrivate,
     Drawing, PresentedWasMailed, MailedStaysHome, ConsumedWasMailed, VerifiedCopies,
     VerifiedByLink, DeletedUsableCopies, DeletedUsableOnlyByLink, PasswordAsConfirmed,
     ResetLinkSpent, NoToken

\* Nothing changes where nothing happens.
LEMMA StutterIInv ==
  ASSUME IInv, UNCHANGED vars
  PROVE  IInv'
<1> USE DEF vars
<1>1. TypeOK'
  BY NextTypeOK
<1>2. RequestsHaveRows' /\ FreshIsEdit' /\ TokensDrawn'
  BY DEF IInv, RequestsHaveRows, FreshIsEdit, TokensDrawn, Busy
<1>3. DrawnIsPrivate' /\ PresentedWasMailed' /\ MailedStaysHome'
  BY DEF IInv, DrawnIsPrivate, PresentedWasMailed, MailedStaysHome, Busy, Drawing, Drawn
<1>4. ConsumedWasMailed' /\ VerifiedCopies' /\ VerifiedByLink' /\ PasswordAsConfirmed' /\ ResetLinkSpent'
  BY DEF IInv, ConsumedWasMailed, VerifiedCopies, VerifiedByLink, PasswordAsConfirmed,
     ResetLinkSpent, Busy
<1>5. DeletedUsableCopies' /\ DeletedUsableOnlyByLink'
  BY DEF IInv, DeletedUsableCopies, DeletedUsableOnlyByLink, Busy
<1> QED
  BY <1>1, <1>2, <1>3, <1>4, <1>5 DEF IInv

\* The parts together.
LEMMA NextIInv ==
  ASSUME IInv, [Next]_vars
  PROVE  IInv'
  BY NextTypeOK, NextRequestsHaveRows, NextFreshIsEdit, NextTokensDrawn, NextDrawnIsPrivate,
     NextPresentedWasMailed, NextMailedStaysHome, NextConsumedWasMailed, NextVerifiedCopies,
     NextVerifiedByLink, NextDeletedUsableCopies, NextDeletedUsableOnlyByLink,
     NextPasswordAsConfirmed, NextResetLinkSpent, StutterIInv DEF IInv

\* The inductive invariant holds in every reachable state of the handlers.
THEOREM IInvInvariant == Spec => []IInv
<1>1. IInv /\ [Next]_vars => IInv'
  BY NextIInv
<1> QED
  BY <1>1, InitIInv, PTL DEF Spec

\* Every column, request, link and history set keeps its type.
THEOREM TypeCorrect == Spec => []TypeOK
<1>1. IInv => TypeOK
  BY DEF IInv
<1> QED
  BY <1>1, IInvInvariant, PTL

\* The password in a row is the one last confirmed to the user, unless a save
\* that was already in flight undid a newer one.
THEOREM PasswordAsConfirmedInvariant == Spec => []PasswordAsConfirmed
<1>1. IInv => PasswordAsConfirmed
  BY DEF IInv
<1> QED
  BY <1>1, IInvInvariant, PTL

\* A soft-deleted account that is usable without reactivation is verified: no
\* stale copy of any handler makes it usable otherwise.
THEOREM DeletedUsableOnlyByLinkInvariant == Spec => []DeletedUsableOnlyByLink
<1>1. IInv => DeletedUsableOnlyByLink
  BY DEF IInv
<1> QED
  BY <1>1, IInvInvariant, PTL

\* A reset link that changed the password opens nothing any more, with the
\* same exception.
THEOREM ResetLinkSpentInvariant == Spec => []ResetLinkSpent
<1>1. IInv => ResetLinkSpent
  BY DEF IInv
<1> QED
  BY <1>1, IInvInvariant, PTL

\* No account is marked verified unless a link mailed for it was followed.
THEOREM VerifiedByLinkInvariant == Spec => []VerifiedByLink
<1>1. IInv => VerifiedByLink
  BY DEF IInv
<1> QED
  BY <1>1, IInvInvariant, PTL

\* A link mailed for one account opens no other.
THEOREM LinksOpenOwnAccountInvariant == Spec => []LinksOpenOwnAccount
<1>1. IInv => LinksOpenOwnAccount
  BY DEF IInv, TypeOK, MailedStaysHome, LinksOpenOwnAccount, TokensOf
<1> QED
  BY <1>1, IInvInvariant, PTL

-----------------------------------------------------------------------------
(* The handlers implement AccountService. *)

LEMMA ColumnsAreRows == Service!Columns = Row
  BY DEF Service!Columns, Row

\* A save by a request nobody has overtaken is one edit of the service.
LEMMA FreshSaveIsEdit ==
  ASSUME IInv, NEW w \in Workers, SaveStep(w), ~request[w].stale
  PROVE  Service!Next
<1> DEFINE u == request[w].user
           object == request[w].object
           op == request[w].op
<1>1. TypeOK /\ FreshIsEdit /\ RequestsHaveRows /\ DrawnIsPrivate
  BY DEF IInv
<1>2. /\ request[w] \in Request
      /\ Busy(w)
      /\ u \in registered
      /\ u \in Users
      /\ row[u] \in Row
      /\ object \in Row
      /\ op \in Ops
  BY <1>1, BusyIsRequest DEF SaveStep, RequestsHaveRows, TypeOK, Busy, Request
<1>3. IsEdit(op, row[u], object)
  BY <1>1, <1>2 DEF FreshIsEdit
<1>4. /\ row' = [row EXCEPT ![u] = object]
      /\ UNCHANGED <<registered, clobbered>>
  BY DEF SaveStep
<1>5. Service!Edit(u, object)
  BY <1>2, <1>4 DEF Service!Edit
<1>6. op \in {"register", "resend", "forgot"} => Drawn(w) \in Service!Unused
  <2> SUFFICES ASSUME op \in {"register", "resend", "forgot"}
               PROVE  Drawn(w) \in Service!Unused
    OBVIOUS
  <2>1. Drawn(w) \in Tokens
    BY <1>1, <1>2 DEF DrawnIsPrivate, Drawing, Drawn, Row
  <2>2. \A v \in registered : Drawn(w) \notin TokensOf(row[v])
    BY <1>1, <1>2 DEF DrawnIsPrivate, Drawing, TypeOK
  <2> QED
    BY <2>1, <2>2 DEF Service!Unused, TokensOf
<1>7. CASE op = "register"
  <2>1. object = [row[u] EXCEPT !.is_active = FALSE, !.email_verification_token = Drawn(w)]
    BY <1>3, <1>7 DEF IsEdit, Drawn
  <2>2. Service!Deactivate(u)
    BY <1>3, <1>5, <1>6, <1>7, <2>1 DEF Service!Deactivate, IsEdit
  <2> QED
    BY <1>2, <2>2 DEF Service!Next
<1>8. CASE op = "profile"
  <2>1. object.email \in Emails
    BY <1>2 DEF Row
  <2>2. Service!ChangeAddress(u)
    BY <1>3, <1>5, <1>8, <2>1 DEF Service!ChangeAddress, IsEdit
  <2> QED
    BY <1>2, <2>2 DEF Service!Next
<1>9. CASE op = "delete"
  <2>1. Service!SoftDelete(u)
    BY <1>3, <1>5, <1>9 DEF Service!SoftDelete, IsEdit
  <2> QED
    BY <1>2, <2>1 DEF Service!Next
<1>10. CASE op = "reactivate"
  <2>1. Service!Reactivate(u)
    BY <1>3, <1>5, <1>10 DEF Service!Reactivate, IsEdit
  <2> QED
    BY <1>2, <2>1 DEF Service!Next
<1>11. CASE op = "verify"
  <2>1. Service!Verify(u)
    BY <1>3, <1>5, <1>11 DEF Service!Verify, IsEdit
  <2> QED
    BY <1>2, <2>1 DEF Service!Next
<1>12. CASE op = "resend"
  <2>1. object = [row[u] EXCEPT !.email_verification_token = Drawn(w)]
    BY <1>3, <1>12 DEF IsEdit, Drawn
  <2>2. Service!Resend(u)
    BY <1>3, <1>5, <1>6, <1>12, <2>1 DEF Service!Resend, IsEdit
  <2> QED
    BY <1>2, <2>2 DEF Service!Next
<1>13. CASE op = "forgot"
  <2>1. object = [row[u] EXCEPT !.password_reset_token = Drawn(w)]
    BY <1>3, <1>13 DEF IsEdit, Drawn
  <2>2. Service!Forgot(u)
    BY <1>3, <1>5, <1>6, <1>13, <2>1 DEF Service!Forgot
  <2> QED
    BY <1>2, <2>2 DEF Service!Next
<1>14. CASE op = "reset"
  <2>1. object.password \in Passwords
    BY <1>2 DEF Row
  <2>2. Service!Reset(u)
    BY <1>3, <1>5, <1>14, <2>1 DEF Service!Reset, IsEdit
  <2> QED
    BY <1>2, <2>2 DEF Service!Next
<1>15. CASE op = "password"
  <2>1. object.password \in Passwords
    BY <1>2 DEF Row
  <2>2. Service!UpdatePassword(u)
    BY <1>3, <1>5, <1>15, <2>1 DEF Service!UpdatePassword, IsEdit
  <2> QED
    BY <1>2, <2>2 DEF Service!Next
<1> QED
  BY <1>2, <1>7, <1>8, <1>9, <1>10, <1>11, <1>12, <1>13, <1>14, <1>15 DEF Ops

\* A save by an overtaken request is recorded as an overwrite.
LEMMA StaleSaveIsOverwrite ==
  ASSUME IInv, NEW w \in Workers, SaveStep(w), request[w].stale
  PROVE  Service!Next
<1> DEFINE u == request[w].user
<1>1. request[w] \in Request /\ u \in registered /\ u \in Users
  BY BusyIsRequest DEF IInv, SaveStep, RequestsHaveRows, TypeOK, Busy
<1>2. request[w].object \in Service!Columns
  BY <1>1, ColumnsAreRows DEF Request
<1>3. Service!Overwrite(u)
  BY <1>1, <1>2 DEF SaveStep, Service!Overwrite
<1> QED
  BY <1>1, <1>3 DEF Service!Next

\* The first save of a registration is the service's creation of the account.
LEMMA RegisterIsCreate ==
  ASSUME IInv, NEW w \in Workers, NEW u \in Users, NEW e \in Emails, NEW p \in Passwords,
         BeginRegister(w, u, e, p)
  PROVE  Service!Next
<1> DEFINE object == NewRow(e, p, lastToken + 1)
<1>1. object = [email |-> e, password |-> p, is_active |-> TRUE, email_verified |-> FALSE,
                is_deleted |-> FALSE, email_verification_token |-> lastToken + 1,
                password_reset_token |-> NoToken]
  BY DEF NewRow
<1>2. lastToken + 1 \in Tokens
  BY AccountsAssumption DEF BeginRegister, Draw, IInv, TypeOK, Tokens
<1>3. \A v \in registered : lastToken + 1 \notin TokensOf(row[v])
  BY TokenBound DEF IInv, TypeOK
<1>4. lastToken + 1 \in Service!Unused
  BY <1>2, <1>3 DEF Service!Unused, TokensOf
<1>5. Service!Create(u)
  BY <1>1, <1>4 DEF BeginRegister, Service!Create
<1> QED
  BY <1>5 DEF Service!Next

\* Every step of the handlers is one edit, one overwrite of a newer save, or
\* no change of the accounts at all.
THEOREM AccountsImplementService == Spec => ServiceSpec
<1>1. Init => Service!Init
  <2> SUFFICES ASSUME Init
               PROVE  Service!Init
    OBVIOUS
  <2>1. row \in [Users -> Service!Columns]
    BY InitTypeOK, ColumnsAreRows DEF TypeOK
  <2> QED
    BY <2>1 DEF Init, Service!Init
<1>2. IInv /\ [Next]_vars => [Service!Next]_(Service!vars)
  <2> SUFFICES ASSUME IInv, Next
               PROVE  Service!Next \/ UNCHANGED Service!vars
    BY DEF vars, Service!vars
  <2>1. PICK w \in Workers :
           \/ \E u \in Users, r \in Request : LoadStep(w, u, r)
           \/ \E u \in Users, e \in Emails, p \in Passwords : BeginRegister(w, u, e, p)
           \/ SaveStep(w)
           \/ Abort(w)
    BY StepKinds
  <2>2. CASE (\E u \in Users, r \in Request : LoadStep(w, u, r)) \/ Abort(w)
    BY <2>2 DEF LoadStep, Abort, history, Service!vars
  <2>3. CASE \E u \in Users, e \in Emails, p \in Passwords : BeginRegister(w, u, e, p)
    BY <2>3, RegisterIsCreate
  <2>4. CASE SaveStep(w)
    BY <2>4, FreshSaveIsEdit, StaleSaveIsOverwrite
  <2> QED
    BY <2>1, <2>2, <2>3, <2>4
<1> QED
  BY <1>1, <1>2, IInvInvariant, PTL DEF Spec, ServiceSpec, Service!Spec

-----------------------------------------------------------------------------
(* The columns that sessions depend on. *)

\* Statuses and copies are what the columns of rows and objects say.
LEMMA StatusColumns ==
  ASSUME TypeOK
  PROVE  /\ \A u \in Users : /\ Statuses[u] = StatusOf(row[u])
                             /\ Statuses[u].active = row[u].is_active
                             /\ Statuses[u].deleted = row[u].is_deleted
         /\ \A w \in Workers : Copies[w] = CopyOf(request[w])
         /\ \A w \in Workers : request[w] # Idle => Copies[w] # Idle
<1>1. \A u \in Users : Statuses[u] = StatusOf(row[u])
  BY DEF Statuses
<1>2. \A u \in Users : StatusOf(row[u]).active = row[u].is_active
                      /\ StatusOf(row[u]).deleted = row[u].is_deleted
  BY DEF StatusOf
<1>3. \A w \in Workers : Copies[w] = CopyOf(request[w])
  BY DEF Copies
<1>4. \A w \in Workers : request[w] # Idle => CopyOf(request[w]) # Idle
  BY DEF CopyOf, Idle
<1> QED
  BY <1>1, <1>2, <1>3, <1>4, Zenon

\* What the edits do to the two columns.
StatusEdit(old, new) ==
  \/ new.is_active = old.is_active /\ new.is_deleted = old.is_deleted
  \/ new.is_active = TRUE /\ new.is_deleted = old.is_deleted
  \/ old.is_active /\ new.is_active = FALSE /\ new.is_deleted = TRUE
  \/ old.is_deleted /\ new.is_active = TRUE /\ new.is_deleted = FALSE

LEMMA EditStatus ==
  ASSUME NEW op, NEW old \in Row, NEW new \in Row, IsEdit(op, old, new), op # "register"
  PROVE  StatusEdit(old, new)
  BY DEF IsEdit, Row, StatusEdit

\* A handler that loads does to its copy one of the four edits.
LEMMA LoadIsStatusLoad ==
  ASSUME IInv, NEW w \in Workers, NEW u \in Users, NEW r \in Request, LoadStep(w, u, r)
  PROVE  Table!Next
<1> DEFINE s == StatusOf(r.object)
<1>1. TypeOK /\ row[u] \in Row /\ r.object \in Row /\ r # Idle /\ r.op # "register"
  BY DEF IInv, TypeOK, Request, Idle, Ops, LoadStep
<1>2. Copies[w] = Idle
  BY <1>1, StatusColumns DEF LoadStep, CopyOf
<1>3. CopyOf(r) = [user |-> u, status |-> s]
  BY <1>1 DEF CopyOf, LoadStep
<1>4. Copies' = [Copies EXCEPT ![w] = CopyOf(r)]
  BY <1>1 DEF Copies, LoadStep, TypeOK
<1>5. UNCHANGED <<registered, Statuses>>
  BY DEF LoadStep, Statuses
<1>6. Table!Load(w, u, s)
  BY <1>2, <1>3, <1>4, <1>5 DEF Table!Load, Table!NoCopy, Table!Copy, Idle, LoadStep
<1>7. Statuses[u] = StatusOf(row[u])
  BY <1>1, StatusColumns
<1>8. IsEdit(r.op, row[u], r.object)
  BY DEF LoadStep
<1>9. CASE r.object.is_active = row[u].is_active /\ r.object.is_deleted = row[u].is_deleted
  <2>1. s = Statuses[u]
    BY <1>7, <1>9 DEF StatusOf
  <2>2. Table!LoadToEdit(w, u)
    BY <1>6, <2>1, Zenon DEF Table!LoadToEdit
  <2> QED
    BY <2>2 DEF Table!Next
<1>10. CASE r.object.is_active = TRUE /\ r.object.is_deleted = row[u].is_deleted
  <2>1. Statuses[u] \in [active: BOOLEAN, deleted: BOOLEAN] /\ s \in [active: BOOLEAN, deleted: BOOLEAN]
    BY <1>1, <1>7 DEF StatusOf, Row
  <2>2. s.active = TRUE /\ s.deleted = Statuses[u].deleted
    BY <1>7, <1>10 DEF StatusOf
  <2>3. s = [Statuses[u] EXCEPT !.active = TRUE]
    BY <2>1, <2>2
  <2>4. Table!LoadToVerify(w, u)
    BY <1>6, <2>3, Zenon DEF Table!LoadToVerify
  <2> QED
    BY <2>4 DEF Table!Next
<1>11. CASE row[u].is_active /\ r.object.is_active = FALSE /\ r.object.is_deleted = TRUE
  <2>1. s = Table!Deleted
    BY <1>11, Zenon DEF StatusOf, Table!Deleted
  <2>2. Statuses[u].active
    BY <1>1, <1>11, StatusColumns, Zenon
  <2>3. Table!LoadToDelete(w, u)
    BY <1>6, <2>1, <2>2, Zenon DEF Table!LoadToDelete
  <2> QED
    BY <2>3 DEF Table!Next
<1>12. CASE row[u].is_deleted /\ r.object.is_active = TRUE /\ r.object.is_deleted = FALSE
  <2>1. s = Table!New
    BY <1>12, Zenon DEF StatusOf, Table!New
  <2>2. Statuses[u].deleted
    BY <1>1, <1>12, StatusColumns, Zenon
  <2>3. Table!LoadToReactivate(w, u)
    BY <1>6, <2>1, <2>2, Zenon DEF Table!LoadToReactivate
  <2> QED
    BY <2>3 DEF Table!Next
<1>13. StatusEdit(row[u], r.object)
  BY <1>1, <1>8, EditStatus
<1> QED
  BY <1>9, <1>10, <1>11, <1>12, <1>13, Zenon DEF StatusEdit

\* The first save of a registration, with the copy of the second.
LEMMA RegisterIsStatusRegister ==
  ASSUME IInv, NEW w \in Workers, NEW u \in Users, NEW e \in Emails, NEW p \in Passwords,
         BeginRegister(w, u, e, p)
  PROVE  Table!Next
<1> DEFINE object == NewRow(e, p, lastToken + 1)
           r == [op |-> "register", user |-> u, token |-> NoToken, stale |-> FALSE,
                 object |-> [object EXCEPT !.is_active = FALSE,
                                           !.email_verification_token = lastToken + 2]]
<1>1. TypeOK
  BY DEF IInv
<1>2. row' = [row EXCEPT ![u] = object] /\ request' = [request EXCEPT ![w] = r]
  BY DEF BeginRegister
<1>3. StatusOf(object) = Table!New /\ StatusOf(r.object) = Table!Pending
  BY DEF NewRow, StatusOf, Table!New, Table!Pending
<1>4. CopyOf(r) = [user |-> u, status |-> StatusOf(r.object)] /\ CopyOf(request[w]) = Idle
  BY DEF CopyOf, Idle, BeginRegister
<1> HIDE DEF object, r
<1>5. Copies[w] = Idle /\ Copies' = [Copies EXCEPT ![w] = CopyOf(r)]
  BY <1>1, <1>2, <1>4, StatusColumns DEF Copies, TypeOK
<1>6. Statuses' = [Statuses EXCEPT ![u] = StatusOf(object)]
  BY <1>1, <1>2 DEF Statuses, TypeOK
<1>7. Table!Register(w, u)
  BY <1>3, <1>4, <1>5, <1>6 DEF BeginRegister, Table!Register, Table!NoCopy, Table!Copy, Idle
<1> QED
  BY <1>7 DEF Table!Next

\* A save writes the status of the copy, overtaken or not; the copies of others
\* are as they were.
LEMMA SaveIsStatusSave ==
  ASSUME IInv, NEW w \in Workers, SaveStep(w)
  PROVE  Table!Next
<1> DEFINE r == request[w]
<1>1. TypeOK /\ r # Idle /\ r \in Request
  BY BusyIsRequest DEF IInv, SaveStep, Busy
<1>2. r.user \in Users
  BY <1>1 DEF Request
<1>3. Copies[w] # Idle /\ Copies[w] = [user |-> r.user, status |-> StatusOf(r.object)]
  BY <1>1, StatusColumns DEF CopyOf
<1>4. CopyOf(Idle) = Idle
  BY DEF CopyOf
<1>5. ASSUME NEW v \in Workers, v # w
      PROVE  CopyOf(request'[v]) = CopyOf(request[v])
  <2>1. CASE request'[v] = request[v]
    BY <2>1
  <2>2. CASE request[v] # Idle /\ request'[v] = [request[v] EXCEPT !.stale = TRUE]
    <3>1. request[v] \in Request /\ request'[v] \in Request
      BY <1>1, <2>2, BusyIsRequest DEF Request
    <3>2. request'[v] # Idle
      BY <3>1, <2>2 DEF Request, Idle, Ops
    <3>3. request'[v].user = request[v].user /\ request'[v].object = request[v].object
      BY <3>1, <2>2 DEF Request
    <3> QED
      BY <2>2, <3>2, <3>3 DEF CopyOf
  <2> QED
    BY <1>5, <2>1, <2>2 DEF SaveStep, Overtaken
<1>6. request'[w] = Idle
  BY DEF SaveStep, Overtaken
<1>7. Copies' = [Copies EXCEPT ![w] = Idle]
  BY <1>4, <1>5, <1>6 DEF Copies
<1>8. Statuses' = [Statuses EXCEPT ![r.user] = StatusOf(r.object)]
  BY <1>1, <1>2 DEF SaveStep, Statuses, TypeOK
<1>9. Table!Save(w)
  BY <1>3, <1>7, <1>8 DEF Table!Save, Table!NoCopy, Idle, SaveStep
<1> QED
  BY <1>9 DEF Table!Next

\* The handlers load, edit and save the two columns that sessions depend on as
\* AccountStatus says, which Sessions implements too.
THEOREM AccountsImplementStatus == Spec => StatusSpec
<1>1. Init => Table!Init
  <2> SUFFICES ASSUME Init
               PROVE  Table!Init
    OBVIOUS
  <2>1. StatusOf(Blank) = Table!Pending /\ CopyOf(Idle) = Table!NoCopy
    BY DEF StatusOf, Blank, Table!Pending, CopyOf, Idle, Table!NoCopy
  <2>2. registered = {} /\ row = [u \in Users |-> Blank] /\ request = [w \in Workers |-> Idle]
    BY DEF Init
  <2> QED
    BY <2>1, <2>2 DEF Table!Init, Statuses, Copies
<1>2. IInv /\ [Next]_vars => [Table!Next]_(Table!vars)
  <2> SUFFICES ASSUME IInv, [Next]_vars
               PROVE  Table!Next \/ UNCHANGED Table!vars
    OBVIOUS
  <2>1. CASE UNCHANGED vars
    BY <2>1 DEF vars, Table!vars, Statuses, Copies
  <2>2. ASSUME NEW w \in Workers, Abort(w)
        PROVE  Table!Next
    <3>1. TypeOK /\ CopyOf(Idle) = Idle
      BY DEF IInv, CopyOf
    <3>2. Copies[w] # Idle /\ Copies' = [Copies EXCEPT ![w] = Idle]
      BY <2>2, <3>1, StatusColumns DEF Abort, Copies, TypeOK
    <3>3. Table!Drop(w)
      BY <2>2, <3>2 DEF Abort, history, Statuses, Table!Drop, Table!NoCopy, Idle
    <3> QED
      BY <3>3 DEF Table!Next
  <2>3. CASE Next
    <3>1. PICK w \in Workers :
             \/ \E u \in Users, r \in Request : LoadStep(w, u, r)
             \/ \E u \in Users, e \in Emails, p \in Passwords : BeginRegister(w, u, e, p)
             \/ SaveStep(w)
             \/ Abort(w)
      BY <2>3, StepKinds
    <3> QED
      BY <2>2, <3>1, LoadIsStatusLoad, RegisterIsStatusRegister, SaveIsStatusSave
  <2> QED
    BY <2>1, <2>3
<1> QED
  BY <1>1, <1>2, IInvInvariant, PTL DEF Spec, StatusSpec, Table!Spec

-----------------------------------------------------------------------------
(* Onboarding: the same handlers with the mails between them. *)

\* A client that has some of the links can do no more than one that has all.
LEMMA BeginFromMailbox ==
  ASSUME mailbox \subseteq mailed, NEW w \in Workers, Begin(w, mailbox)
  PROVE  Begin(w, mailed)
<1>1. ResetTokens(mailbox) \subseteq ResetTokens(mailed)
  BY DEF ResetTokens
<1> QED
  BY <1>1 DEF Begin

LEMMA HandleKinds ==
  ASSUME IInv, MailsWereQueued, NEW w \in Workers, Handle(w)
  PROVE  \/ \E u \in Users, r \in Request : LoadStep(w, u, r)
         \/ \E u \in Users, e \in Emails, p \in Passwords : BeginRegister(w, u, e, p)
         \/ SaveStep(w)
         \/ Abort(w)
  BY BeginFromMailbox, HandlerKinds DEF Handle, MailsWereQueued

\* Every step is one of Accounts, or leaves what Accounts speaks of alone.
LEMMA StepIsAccountsStep ==
  ASSUME OnboardingIInv, [OnboardingNext]_onboardingVars
  PROVE  [Next]_vars
<1>1. MailsWereQueued
  BY DEF OnboardingIInv
<1>2. ASSUME NEW w \in Workers, Handle(w)
      PROVE  Next
  BY <1>1, <1>2, BeginFromMailbox DEF Handle, MailsWereQueued, Next
<1>3. CASE RunTask
  BY <1>3 DEF RunTask
<1>4. CASE UNCHANGED onboardingVars
  BY <1>4 DEF onboardingVars, vars
<1> QED
  BY <1>2, <1>3, <1>4 DEF OnboardingNext

\* What a worker does to the tasks and mailboxes.
LEMMA TaskStep ==
  ASSUME OnboardingTypeOK, RunTask
  PROVE  /\ UNCHANGED vars
         /\ \E task \in tasks :
                /\ mailbox' = mailbox \/ mailbox' = mailbox \cup {task.link}
                /\ \/ tasks' = tasks \ {task}
                   \/ \E again \in Task :
                          again.link = task.link /\ tasks' = (tasks \ {task}) \cup {again}
<1>1. PICK task \in tasks : Send(task) \/ Retry(task) \/ GiveUp(task) \/ LoseTask(task)
  BY DEF RunTask
<1>2. ASSUME Retry(task)
      PROVE  \E again \in Task :
                 again.link = task.link /\ tasks' = (tasks \ {task}) \cup {again}
  <2> DEFINE again == [task EXCEPT !.retries = @ + 1]
  <2>1. task \in Task
    BY DEF OnboardingTypeOK
  <2>2. again \in Task /\ again.link = task.link
    BY <1>2, <2>1, OnboardingAssumption DEF Retry, Task
  <2> QED
    BY <1>2, <2>2 DEF Retry
<1> QED
  BY <1>1, <1>2 DEF Send, Retry, GiveUp, LoseTask, MayArrive, RunTask

LEMMA NextOnboardingTypeOK ==
  ASSUME IInv, OnboardingIInv, OnboardingNext
  PROVE  OnboardingTypeOK'
<1>1. OnboardingTypeOK
  BY DEF OnboardingIInv
<1>2. CASE RunTask
  <2>1. PICK task \in tasks :
            /\ mailbox' = mailbox \/ mailbox' = mailbox \cup {task.link}
            /\ \/ tasks' = tasks \ {task}
               \/ \E again \in Task :
                      again.link = task.link /\ tasks' = (tasks \ {task}) \cup {again}
    BY <1>1, <1>2, TaskStep
  <2>2. task.link \in Link
    BY <1>1 DEF OnboardingTypeOK, Task
  <2> QED
    BY <1>1, <2>1, <2>2 DEF OnboardingTypeOK
<1>3. ASSUME NEW w \in Workers, Handle(w)
      PROVE  OnboardingTypeOK'
  <2>1. TypeOK'
    BY StepIsAccountsStep, NextTypeOK
  <2>2. [link: mailed' \ mailed, retries: {0}] \subseteq Task
    BY <2>1, OnboardingAssumption DEF TypeOK, Task
  <2> QED
    BY <1>1, <1>3, <2>2 DEF Handle, OnboardingTypeOK
<1> QED
  BY <1>2, <1>3 DEF OnboardingNext

\* A link that is handed over is new, so no task carries it yet.
LEMMA NextMailsWereQueued ==
  ASSUME IInv, OnboardingIInv, OnboardingNext
  PROVE  MailsWereQueued'
<1>1. OnboardingTypeOK /\ MailsWereQueued
  BY DEF OnboardingIInv
<1>2. CASE RunTask
  <2>1. PICK task \in tasks :
            /\ mailbox' = mailbox \/ mailbox' = mailbox \cup {task.link}
            /\ \/ tasks' = tasks \ {task}
               \/ \E again \in Task :
                      again.link = task.link /\ tasks' = (tasks \ {task}) \cup {again}
    BY <1>1, <1>2, TaskStep
  <2>2. mailed' = mailed
    BY <1>2 DEF RunTask, vars
  <2>3. \A t1, t2 \in tasks' : t1.link = t2.link => t1 = t2
    BY <1>1, <2>1 DEF MailsWereQueued
  <2>4. (mailbox \cup Underway)' \subseteq mailbox \cup Underway
    BY <2>1 DEF Underway
  <2> QED
    BY <1>1, <2>2, <2>3, <2>4 DEF MailsWereQueued
<1>3. ASSUME NEW w \in Workers, Handle(w)
      PROVE  MailsWereQueued'
  <2>1. mailed \subseteq mailed'
    BY <1>1, <1>3, HandleKinds, MailGrows
  <2>2. \A task \in tasks' : task \in tasks \/ task.link \in mailed' \ mailed
    BY <1>3 DEF Handle
  <2>3. \A task \in tasks : task.link \in mailed
    BY <1>1 DEF MailsWereQueued, Underway
  <2>4. (mailbox \cup Underway)' \subseteq mailed'
    BY <1>1, <1>3, <2>1, <2>2, <2>3 DEF Handle, MailsWereQueued, Underway
  <2>5. ASSUME NEW t1 \in tasks', NEW t2 \in tasks', t1.link = t2.link
        PROVE  t1 = t2
    <3>1. CASE t1 \in tasks /\ t2 \in tasks
      BY <1>1, <2>5, <3>1 DEF MailsWereQueued
    <3>2. CASE t1 \notin tasks /\ t2 \notin tasks
      <4>1. /\ t1 \in [link: mailed' \ mailed, retries: {0}]
            /\ t2 \in [link: mailed' \ mailed, retries: {0}]
        BY <1>3, <3>2 DEF Handle
      <4> QED
        BY <2>5, <4>1
    <3> QED
      BY <2>2, <2>3, <2>5, <3>1, <3>2
  <2> QED
    BY <2>4, <2>5 DEF MailsWereQueued
<1> QED
  BY <1>2, <1>3 DEF OnboardingNext

\* Where the row of a user is loaded or saved, the newest links stay the ones
\* that it names.
LEMMA NextTokensInOrder ==
  ASSUME IInv, OnboardingIInv, Next
  PROVE  TokensInOrder'
<1>1. PICK w \in Workers :
           \/ \E u \in Users, r \in Request : LoadStep(w, u, r)
           \/ \E u \in Users, e \in Emails, p \in Passwords : BeginRegister(w, u, e, p)
           \/ SaveStep(w)
           \/ Abort(w)
  BY StepKinds
<1>2. TypeOK /\ FreshIsEdit /\ TokensInOrder /\ DrawnIsNewest
  BY DEF IInv, OnboardingIInv
<1> SUFFICES ASSUME NEW u \in registered', u \notin clobbered', NEW link \in mailed',
                    link.owner = u
             PROVE  \/ link.token <= TokenFor(link.kind, row'[u])
                    \/ TokenFor(link.kind, row'[u]) = NoToken
  BY DEF TokensInOrder, TokenFor
<1>3. CASE \E v \in Users, r \in Request : LoadStep(w, v, r)
  BY <1>2, <1>3 DEF LoadStep, TokensInOrder
<1>4. CASE \E v \in Users, e \in Emails, p \in Passwords : BeginRegister(w, v, e, p)
  <2> PICK x \in Users, e \in Emails, p \in Passwords : BeginRegister(w, x, e, p)
    BY <1>4
  <2>1. CASE u # x
    BY <1>2, <2>1, RegisterTokens DEF TokensInOrder, BeginRegister, TypeOK
  <2>2. CASE u = x
    <3>1. link \in mailed /\ link.token \in Nat /\ link.token <= lastToken /\ lastToken \in Nat
      BY TokenBound, RegisterTokens
    <3>2. TokenFor(link.kind, row'[u]) \in {lastToken + 1, NoToken}
      BY <2>2, RegisterTokens DEF TokensOf, TokenFor
    <3> QED
      BY <3>1, <3>2
  <2> QED
    BY <2>1, <2>2
<1>5. CASE SaveStep(w)
  <2>1. /\ request[w] \in Request /\ Busy(w)
        /\ u \in registered /\ u \in Users /\ u \notin clobbered
    BY <1>2, <1>5, SaveRow DEF SaveStep, TypeOK
  <2>2. \/ link \in mailed
        \/ /\ Drawing(w)
           /\ link.kind = IF request[w].op = "forgot" THEN "reset" ELSE "verify"
           /\ link.token = Drawn(w)
           /\ link.owner = request[w].user
    BY <1>5 DEF SaveStep
  <2>3. CASE u # request[w].user
    BY <1>2, <1>5, <2>1, <2>2, <2>3, SaveRow DEF TokensInOrder
  <2>4. CASE u = request[w].user
    <3>1. /\ ~request[w].stale
          /\ row[u] \in Row
          /\ request[w].object \in Row
          /\ row'[u] = request[w].object
      BY <1>2, <1>5, <2>1, <2>4, SaveRow DEF SaveStep, TypeOK, Request
    <3>2. IsEdit(request[w].op, row[u], request[w].object)
      BY <1>2, <2>1, <2>4, <3>1 DEF FreshIsEdit
    <3>3. CASE link \notin mailed
      <4>1. link.token = TokenFor(link.kind, request[w].object)
        BY <2>2, <3>3 DEF Drawn, TokenFor
      <4>2. link.token \in Nat
        BY <2>1, <2>2, <3>3, TokenBound DEF Drawing, Drawn, TokensOf
      <4> QED
        BY <3>1, <4>1, <4>2
    <3>4. CASE link \in mailed /\ request[w].op \in {"register", "resend"} /\ link.kind = "verify"
      <4>1. Drawing(w) /\ Drawn(w) = request[w].object.email_verification_token
        BY <2>1, <3>4 DEF Drawing, Drawn
      <4>2. link.token < Drawn(w)
        BY <1>2, <2>4, <3>1, <3>4, <4>1 DEF DrawnIsNewest
      <4>3. link.token \in Nat /\ Drawn(w) \in Nat
        BY <2>1, <3>4, <4>1, TokenBound DEF TokensOf
      <4> QED
        BY <3>1, <3>4, <4>1, <4>2, <4>3 DEF TokenFor
    <3>5. CASE link \in mailed /\ request[w].op = "forgot" /\ link.kind # "verify"
      <4>1. Drawing(w) /\ Drawn(w) = request[w].object.password_reset_token
        BY <2>1, <3>5 DEF Drawing, Drawn
      <4>2. link.token < Drawn(w)
        BY <1>2, <2>4, <3>1, <3>5, <4>1 DEF DrawnIsNewest
      <4>3. link.token \in Nat /\ Drawn(w) \in Nat
        BY <2>1, <3>5, <4>1, TokenBound DEF TokensOf
      <4> QED
        BY <3>1, <3>5, <4>1, <4>2, <4>3 DEF TokenFor
    <3>6. CASE request[w].op = "reset" /\ link.kind # "verify"
      BY <3>1, <3>2, <3>6, EditKeeps DEF TokenFor
    <3>7. CASE /\ link \in mailed
               /\ TokenFor(link.kind, request[w].object) = TokenFor(link.kind, row[u])
      BY <1>2, <2>1, <3>1, <3>7 DEF TokensInOrder
    <3> QED
      BY <3>1, <3>2, <3>3, <3>4, <3>5, <3>6, <3>7, EditKeeps DEF TokenFor
  <2> QED
    BY <2>3, <2>4
<1>6. CASE Abort(w)
  BY <1>2, <1>6 DEF Abort, TokensInOrder, history
<1> QED
  BY <1>1, <1>3, <1>4, <1>5, <1>6

\* A token is drawn past all links, and its handler is overtaken by any save
\* of its user's row.
LEMMA NextDrawnIsNewest ==
  ASSUME IInv, OnboardingIInv, Next
  PROVE  DrawnIsNewest'
<1>1. PICK w \in Workers :
           \/ \E u \in Users, r \in Request : LoadStep(w, u, r)
           \/ \E u \in Users, e \in Emails, p \in Passwords : BeginRegister(w, u, e, p)
           \/ SaveStep(w)
           \/ Abort(w)
  BY StepKinds
<1>2. TypeOK /\ DrawnIsNewest
  BY DEF IInv, OnboardingIInv
<1> SUFFICES ASSUME NEW x \in Workers, Drawing(x)', ~request'[x].stale,
                    NEW link \in mailed', link.owner = request'[x].user
             PROVE  link.token < Drawn(x)'
  BY DEF DrawnIsNewest
<1>3. CASE x # w
  <2>1. /\ Drawing(x) /\ Busy(x) /\ Busy(x)'
        /\ Drawn(x)' = Drawn(x)
        /\ request'[x].user = request[x].user
        /\ ~request[x].stale
    BY <1>1, <1>3, OthersKeep DEF Drawing
  <2>2. link \in mailed
    <3>1. CASE SaveStep(w)
      <4>1. request[x].user # request[w].user
        BY <2>1, <3>1, SaveOvertakes
      <4> QED
        BY <2>1, <3>1, <4>1 DEF SaveStep
    <3>2. CASE ~SaveStep(w)
      BY <1>1, <3>2 DEF LoadStep, BeginRegister, Abort
    <3> QED
      BY <3>1, <3>2
  <2> QED
    BY <1>2, <2>1, <2>2 DEF DrawnIsNewest
<1>4. CASE x = w
  <2>1. CASE \E u \in Users, r \in Request : LoadStep(w, u, r)
    <3> PICK u \in Users, r \in Request : LoadStep(w, u, r)
      BY <2>1
    <3>1. request'[w] = r /\ mailed' = mailed
      BY <1>2 DEF LoadStep, TypeOK
    <3>2. Drawn(x)' = lastToken + 1
      BY <1>4, <3>1 DEF LoadStep, Drawing, Drawn
    <3> QED
      BY <3>1, <3>2, TokenBound
  <2>2. CASE \E u \in Users, e \in Emails, p \in Passwords : BeginRegister(w, u, e, p)
    <3> PICK u \in Users, e \in Emails, p \in Passwords : BeginRegister(w, u, e, p)
      BY <2>2
    <3>1. Drawn(x)' = lastToken + 2 /\ mailed' = mailed
      BY <1>4, RegisterTokens DEF Drawn
    <3> QED
      BY <3>1, TokenBound
  <2>3. CASE SaveStep(w) \/ Abort(w)
    BY <1>4, <2>3, MailGrows DEF Drawing
  <2> QED
    BY <1>1, <2>1, <2>2, <2>3
<1> QED
  BY <1>3, <1>4

\* The two invariants together are inductive.
LEMMA NextOnboardingIInv ==
  ASSUME IInv, OnboardingIInv, [OnboardingNext]_onboardingVars
  PROVE  IInv' /\ OnboardingIInv'
<1>1. [Next]_vars
  BY StepIsAccountsStep
<1>2. IInv'
  BY <1>1, NextIInv
<1>3. TokensInOrder' /\ DrawnIsNewest'
  <2>1. CASE Next
    BY <2>1, NextTokensInOrder, NextDrawnIsNewest
  <2>2. CASE UNCHANGED vars
    BY <2>2 DEF OnboardingIInv, TokensInOrder, DrawnIsNewest, vars, Drawing, Drawn, Busy, TokenFor
  <2> QED
    BY <1>1, <2>1, <2>2
<1>4. OnboardingTypeOK' /\ MailsWereQueued'
  <2>1. CASE UNCHANGED onboardingVars
    BY <2>1 DEF OnboardingIInv, OnboardingTypeOK, MailsWereQueued, Underway, onboardingVars
  <2> QED
    BY <2>1, NextOnboardingTypeOK, NextMailsWereQueued
<1> QED
  BY <1>2, <1>3, <1>4 DEF OnboardingIInv

LEMMA BothInvariant == OnboardingSpec => [](IInv /\ OnboardingIInv)
<1>1. OnboardingInit => IInv /\ OnboardingIInv
  <2> SUFFICES ASSUME OnboardingInit
               PROVE  IInv /\ OnboardingIInv
    OBVIOUS
  <2>1. IInv
    BY InitIInv DEF OnboardingInit
  <2>2. OnboardingTypeOK /\ MailsWereQueued
    BY DEF OnboardingInit, OnboardingTypeOK, MailsWereQueued, Underway
  <2>3. TokensInOrder /\ DrawnIsNewest
    BY DEF OnboardingInit, Init, TokensInOrder, DrawnIsNewest, Drawing, Busy
  <2> QED
    BY <2>1, <2>2, <2>3 DEF OnboardingIInv
<1>2. IInv /\ OnboardingIInv /\ [OnboardingNext]_onboardingVars => IInv' /\ OnboardingIInv'
  BY NextOnboardingIInv
<1> QED
  BY <1>1, <1>2, PTL DEF OnboardingSpec

\* Mails and tasks are those of links handed over, one task each, retried at
\* most MaxRetries times, and no link is newer than what the row names.
THEOREM OnboardingInvariance == OnboardingSpec => []OnboardingIInv
  BY BothInvariant, PTL

\* Of the links of one kind that were mailed for an account only the newest
\* can lead on, whatever the mails overtake, unless a stale copy was saved.
THEOREM OnlyNewestLeadsOn == OnboardingSpec => []NewestLinkOnly
<1>1. ASSUME IInv, OnboardingIInv
      PROVE  NewestLinkOnly
  <2> SUFFICES ASSUME NEW link \in mailbox, NEW newer \in mailed,
                      link.owner \in registered \ clobbered, newer.owner = link.owner,
                      newer.kind = link.kind, newer.token > link.token,
                      TokenFor(link.kind, row[link.owner]) = link.token
               PROVE  FALSE
    BY DEF NewestLinkOnly
  <2>1. link \in mailed
    BY <1>1 DEF OnboardingIInv, MailsWereQueued
  <2>2. link.token \in Tokens /\ link.token \in Nat /\ newer.token \in Nat
    BY <1>1, <2>1, TokenBound
  <2>3. newer.token <= link.token \/ link.token = NoToken
    BY <1>1 DEF OnboardingIInv, TokensInOrder
  <2> QED
    BY <2>2, <2>3 DEF Tokens, NoToken
<1> QED
  BY <1>1, BothInvariant, PTL

\* The mails between the handlers add nothing to what handlers do: every
\* behaviour of Onboarding is one of Accounts, so its theorems hold there too.
THEOREM OnboardingImplementsAccounts == OnboardingSpec => Spec
<1>1. OnboardingInit => Init
  BY DEF OnboardingInit
<1>2. OnboardingIInv /\ [OnboardingNext]_onboardingVars => [Next]_vars
  BY StepIsAccountsStep
<1> QED
  BY <1>1, <1>2, OnboardingInvariance, PTL DEF OnboardingSpec, Spec

\* VerifyEmailView loads a row whose token is in a mail that arrived.
LEMMA VerifyFromMailbox ==
  ASSUME TypeOK, NEW w \in Workers, NEW r, Begin(w, mailbox),
         request' = [request EXCEPT ![w] = r], r.op = "verify"
  PROVE  \E link \in mailbox : /\ link.kind = "verify"
                               /\ row[r.user].email_verification_token = link.token
<1>1. request'[w] = r
  BY DEF TypeOK
<1>2. ASSUME NEW op, NEW u, NEW object, NEW token, Load(w, op, u, object, token)
      PROVE  r.op = op /\ r.user = u
  BY <1>1, <1>2 DEF Load, TypeOK
<1>3. \A u, e, p : ~BeginRegister(w, u, e, p)
  BY <1>1 DEF BeginRegister, TypeOK
<1>4. \A u, e : ~BeginProfile(w, u, e) /\ ~BeginForgot(w, u, e)
  BY <1>2 DEF BeginProfile, BeginForgot
<1>5. \A u : ~BeginDelete(w, u) /\ ~BeginResend(w, u)
  BY <1>2 DEF BeginDelete, BeginResend
<1>6. \A u, old, new : ~BeginUpdatePassword(w, u, old, new)
  BY <1>2 DEF BeginUpdatePassword
<1>7. \A u, e, p : ~BeginReactivate(w, u, e, p)
  BY <1>2 DEF BeginReactivate
<1>8. \A u, e, token, new : ~BeginReset(w, u, e, token, new)
  BY <1>2 DEF BeginReset
<1>9. PICK u \in Users, link \in mailbox : BeginVerify(w, u, link)
  BY <1>3, <1>4, <1>5, <1>6, <1>7, <1>8 DEF Begin
<1>10. r.user = u
  BY <1>2, <1>9 DEF BeginVerify
<1> QED
  BY <1>9, <1>10 DEF BeginVerify

\* No handler that a locked out user can reach lets him in.
LEMMA LockedLoads ==
  ASSUME IInv, OnboardingIInv, NEW w \in Workers, Begin(w, mailbox), NEW u \in Users, LockedOut(u),
         NEW r \in Request, LoadStep(w, u, r)
  PROVE  Locked(r.object) /\ r.op \notin {"register", "resend"}
<1>1. /\ TypeOK
      /\ row[u] \in Row /\ r.object \in Row /\ r.op \in Ops /\ r.user = u
      /\ IsEdit(r.op, row[u], r.object)
      /\ request' = [request EXCEPT ![w] = r]
      /\ r.op # "register"
  BY DEF IInv, TypeOK, LoadStep, Request
<1>2. Locked(row[u])
  BY DEF LockedOut
<1>3. r.op # "verify"
  <2> SUFFICES ASSUME r.op = "verify"
               PROVE  FALSE
    OBVIOUS
  <2>1. PICK link \in mailbox : /\ link.kind = "verify"
                                /\ row[u].email_verification_token = link.token
    BY <1>1, VerifyFromMailbox
  <2> QED
    BY <1>2, <2>1 DEF Locked
<1>4. r.op \in {"forgot", "reset"}
  BY <1>1, <1>2, <1>3 DEF IsEdit, Locked
<1>5. /\ r.object.is_active = row[u].is_active
      /\ r.object.is_deleted = row[u].is_deleted
      /\ r.object.email_verification_token = row[u].email_verification_token
  BY <1>1, <1>4 DEF IsEdit, Row
<1> QED
  BY <1>2, <1>4, <1>5 DEF Locked

\* What Locked says of r after a step.
LockedNext(r) ==
    /\ ~r.is_active /\ ~r.is_deleted
    /\ \A link \in (mailbox \cup Underway)' :
           link.kind = "verify" => link.token # r.email_verification_token

\* Who is locked stays so unless a link with his token is mailed.
LEMMA LockedStays ==
  ASSUME NEW r, Locked(r), NEW w \in Workers, Handle(w),
         \A link \in mailed' \ mailed :
             link.kind = "verify" => link.token # r.email_verification_token
  PROVE  LockedNext(r)
<1>1. (mailbox \cup Underway)' \subseteq mailbox \cup Underway \cup (mailed' \ mailed)
  BY DEF Handle, Underway
<1> QED
  BY <1>1 DEF Locked, LockedNext

\* A thread keeps a user locked out who is.
LEMMA HandleKeepsLocked ==
  ASSUME IInv, OnboardingIInv, NEW w \in Workers, Handle(w), NEW u \in Users, LockedOut(u)
  PROVE  LockedOut(u)'
<1>1. /\ TypeOK /\ DrawnIsPrivate /\ MailsWereQueued
      /\ u \in registered
      /\ Locked(row[u])
      /\ \A v \in Workers : Busy(v) /\ request[v].user = u =>
             Locked(request[v].object) /\ request[v].op \notin {"register", "resend"}
  BY DEF IInv, OnboardingIInv, LockedOut
<1>2. \/ \E x \in Users, r \in Request : LoadStep(w, x, r)
      \/ \E x \in Users, e \in Emails, p \in Passwords : BeginRegister(w, x, e, p)
      \/ SaveStep(w)
      \/ Abort(w)
  BY <1>1, HandleKinds
<1> SUFFICES /\ u \in registered'
             /\ LockedNext(row'[u])
             /\ \A v \in Workers : Busy(v)' /\ request'[v].user = u =>
                    LockedNext(request'[v].object) /\ request'[v].op \notin {"register", "resend"}
  BY DEF LockedOut, Locked, LockedNext, Busy
<1>3. ASSUME mailed' = mailed, NEW r, Locked(r)
      PROVE  LockedNext(r)
  BY <1>3, LockedStays
<1>4. ASSUME NEW v \in Workers, v # w, Busy(v)', request'[v].user = u
      PROVE  /\ Busy(v)
             /\ request[v].user = u
             /\ request'[v].object = request[v].object
             /\ request'[v].op = request[v].op
             /\ Locked(request[v].object)
             /\ request'[v].op \notin {"register", "resend"}
  BY <1>1, <1>2, <1>4, OthersKeep
<1>5. CASE \E x \in Users, r \in Request : LoadStep(w, x, r)
  <2> PICK x \in Users, r \in Request : LoadStep(w, x, r)
    BY <1>5
  <2>1. /\ request'[w] = r /\ r.user = x
        /\ UNCHANGED <<registered, row, mailed>>
        /\ request[w] = Idle
    BY <1>1 DEF LoadStep, TypeOK
  <2>2. Begin(w, mailbox)
    BY <2>1 DEF Handle, Finish, FinishRegister, FinishProfile, FinishDelete, FinishResend,
                FinishUpdatePassword, FinishReactivate, FinishVerify, FinishForgot, FinishReset,
                Save, Abort
  <2>3. x = u => Locked(r.object) /\ r.op \notin {"register", "resend"}
    BY <2>2, LockedLoads
  <2> QED
    BY <1>1, <1>3, <1>4, <2>1, <2>3
<1>6. CASE \E x \in Users, e \in Emails, p \in Passwords : BeginRegister(w, x, e, p)
  <2> PICK x \in Users, e \in Emails, p \in Passwords : BeginRegister(w, x, e, p)
    BY <1>6
  <2>1. x # u /\ registered' = registered \cup {x}
    BY <1>1 DEF BeginRegister
  <2>2. row'[u] = row[u] /\ request'[w].user = x /\ mailed' = mailed
    BY <2>1, RegisterTokens
  <2> QED
    BY <1>1, <1>3, <1>4, <2>1, <2>2
<1>7. CASE SaveStep(w)
  <2>1. Busy(w) /\ ~Busy(w)' /\ registered' = registered /\ request[w] \in Request
    BY <1>7, SaveRow DEF SaveStep
  <2>2. \A link \in mailed' \ mailed :
            /\ Drawing(w)
            /\ link.kind = IF request[w].op = "forgot" THEN "reset" ELSE "verify"
            /\ link.token = Drawn(w)
    BY <1>7 DEF SaveStep
  <2>3. ASSUME NEW v \in Workers, v # w, Busy(v)', request'[v].user = u
        PROVE  LockedNext(request'[v].object)
    <3>1. Drawing(w) => Drawn(w) # request[v].object.email_verification_token
      BY <1>1, <1>4, <2>3 DEF DrawnIsPrivate, TokensOf
    <3> QED
      BY <1>4, <2>2, <2>3, <3>1, LockedStays
  <2>4. CASE request[w].user # u
    <3>1. row'[u] = row[u]
      BY <1>7, <2>4, SaveRow
    <3>2. Drawing(w) => Drawn(w) # row[u].email_verification_token
      BY <1>1 DEF DrawnIsPrivate, TokensOf
    <3>3. LockedNext(row[u])
      BY <1>1, <2>2, <3>2, LockedStays
    <3> QED
      BY <1>1, <1>4, <2>1, <2>3, <3>1, <3>3
  <2>5. CASE request[w].user = u
    <3>1. row'[u] = request[w].object
      BY <1>7, <2>5, SaveRow
    <3>2. Locked(request[w].object) /\ request[w].op \notin {"register", "resend"}
      BY <1>1, <2>1, <2>5
    <3>3. \A link \in mailed' \ mailed : link.kind # "verify"
      BY <2>2, <3>2 DEF Drawing
    <3>4. LockedNext(request[w].object)
      BY <3>2, <3>3, LockedStays
    <3> QED
      BY <1>1, <1>4, <2>1, <2>3, <3>1, <3>4
  <2> QED
    BY <2>4, <2>5
<1>8. CASE Abort(w)
  <2>1. ~Busy(w)' /\ UNCHANGED <<registered, row, mailed>>
    BY <1>1, <1>8 DEF Abort, Busy, TypeOK
  <2> QED
    BY <1>1, <1>3, <1>4, <2>1
<1> QED
  BY <1>2, <1>5, <1>6, <1>7, <1>8

\* A pending account that lost its mail, and that no handler in flight has an
\* older copy of, stays pending and without one: no step of any handler open
\* to it brings another mail or lets it in.
THEOREM LostMailStaysLost == OnboardingSpec => LostMailIsFinal
<1>1. ASSUME IInv, OnboardingIInv, [OnboardingNext]_onboardingVars
      PROVE  [\A u \in Users : LockedOut(u) => LockedOut(u)']_onboardingVars
  <2> SUFFICES ASSUME OnboardingNext, NEW u \in Users, LockedOut(u)
               PROVE  LockedOut(u)'
    BY <1>1
  <2>1. CASE RunTask
    <3>1. (mailbox \cup Underway)' \subseteq mailbox \cup Underway
      BY <1>1, <2>1, TaskStep DEF OnboardingIInv, Underway
    <3>2. UNCHANGED <<registered, row, request>>
      BY <2>1 DEF RunTask, vars
    <3> QED
      BY <3>1, <3>2 DEF LockedOut, Locked, Busy
  <2>2. ASSUME NEW w \in Workers, Handle(w)
        PROVE  LockedOut(u)'
    BY <1>1, <2>2, HandleKeepsLocked
  <2> QED
    BY <2>1, <2>2 DEF OnboardingNext
<1> QED
  BY <1>1, BothInvariant, PTL DEF OnboardingSpec, LostMailIsFinal
=============================================================================
