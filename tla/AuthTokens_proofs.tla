--------------------------- MODULE AuthTokens_proofs ---------------------------
(***************************************************************************)
(* Theorems about AuthTokens, for every set of accounts, tokens and        *)
(* workers and every bound.                                                *)
(*                                                                         *)
(* All rest on what a handler may hold at each of its statements (Fits);   *)
(* that tokens work once, on an unspared token having one holder (OnceAt); *)
(* that old credentials go, on no step interrupting a replacement unseen.  *)
(***************************************************************************)
EXTENDS AuthTokens, TLAPS

\* What a handler holds before each of its statements.
Fits(r) ==
    /\ r.step \in {"revoke"} => r.op = "refresh"
    /\ r.step \in {"issue"} => r.op \in {"login", "refresh"}
    /\ r.step \in {"session"} => r.op = "login"
    /\ r.step \in {"password"} => r.op \in {"reset", "change"} /\ r.password \in Password
    /\ r.step \in {"dropToken"} => r.op \in {"reset", "verify"}
    /\ r.step \in {"verified"} => r.op = "verify"
    /\ r.step \in {"revokeAll"} => r.op \in {"reset", "change", "revoke"}
    /\ r.op \in {"refresh", "reset", "verify"} => r.token \in Tokens
    /\ r.op \notin {"refresh", "reset", "verify"} => r.token = Nobody

Holding == \A w \in Workers : Fits(req[w])

Typed == TypeOK /\ Holding

-----------------------------------------------------------------------------
\* Typing of the records.

\* An idle worker's record is a request that fits.
LEMMA IdleFits == Idle \in Request /\ Fits(Idle)
<1>1. (CHOOSE e \in Emails : TRUE) \in Emails
  BY ConstantsOK
<1>2. 0 \in Versions
  BY ConstantsOK DEF Versions
<1>3. QED
  BY <1>1, <1>2 DEF Idle, Request, Steps, Ops, Fits

\* Putting a request that fits in a worker's hands keeps types and holdings.
LEMMA Handed ==
  ASSUME Typed, NEW w \in Workers, NEW r \in Request, Fits(r), req' = [req EXCEPT ![w] = r]
  PROVE  /\ req' \in [Workers -> Request] /\ Holding'
         /\ req'[w] = r /\ \A v \in Workers \ {w} : req'[v] = req[v]
<1>1. /\ req' \in [Workers -> Request]
      /\ req'[w] = r /\ \A v \in Workers \ {w} : req'[v] = req[v]
  BY DEF Typed, TypeOK
<1>2. Holding'
  BY <1>1 DEF Holding, Typed
<1>3. QED
  BY <1>1, <1>2

\* A handler that returns.
LEMMA Finished ==
  ASSUME Typed, NEW w \in Workers, Finish(w)
  PROVE  /\ req' \in [Workers -> Request] /\ Holding'
         /\ req'[w] = Idle /\ \A v \in Workers \ {w} : req'[v] = req[v]
BY IdleFits, Handed DEF Finish

\* A handler that goes on to a statement its operation has.
LEMMA Gone ==
  ASSUME Typed, NEW w \in Workers, NEW step \in {"issue", "session", "dropToken", "revokeAll", "dropSession"},
         Goto(w, step),
         step = "issue" => req[w].op = "refresh",
         step = "session" => req[w].op = "login",
         step = "dropToken" => req[w].op \in {"reset", "verify"},
         step = "revokeAll" => req[w].op \in {"reset", "change", "revoke"}
  PROVE  /\ req' \in [Workers -> Request] /\ Holding'
         /\ req'[w] = [req[w] EXCEPT !.step = step]
         /\ req'[w].step = step /\ req'[w].op = req[w].op /\ req'[w].owner = req[w].owner
         /\ req'[w].token = req[w].token
         /\ \A v \in Workers \ {w} : req'[v] = req[v]
<1> DEFINE r == [req[w] EXCEPT !.step = step]
<1>1. req[w] \in Request /\ Fits(req[w])
  BY DEF Typed, TypeOK, Holding
<1>2. /\ r \in Request /\ r.step = step /\ r.op = req[w].op /\ r.owner = req[w].owner
      /\ r.token = req[w].token
  BY <1>1 DEF Request, Steps
<1>3. Fits(r)
  BY <1>1, <1>2 DEF Fits
<1>4. req' = [req EXCEPT ![w] = r]
  BY DEF Goto
<1> HIDE DEF r
<1>5. QED
  BY <1>2, <1>3, <1>4, Handed DEF r

\* A handler that begins with what its operation needs.
LEMMA Begun ==
  ASSUME Typed, NEW w \in Workers, NEW step \in Steps, NEW op \in Ops, NEW e \in Emails,
         NEW version \in Versions, NEW t \in Tokens \cup {Nobody}, NEW p \in Password \cup {Nobody},
         Begin(w, step, op, e, version, t, p),
         step \notin {"session", "dropToken"},
         step = "revoke" => op = "refresh",
         step = "issue" => op \in {"login", "refresh"},
         step = "password" => op \in {"reset", "change"} /\ p \in Password,
         step = "verified" => op = "verify",
         step = "revokeAll" => op = "revoke",
         op \in {"refresh", "reset", "verify"} <=> t \in Tokens
  PROVE  /\ req' \in [Workers -> Request] /\ Holding'
         /\ req'[w].step = step /\ req'[w].op = op /\ req'[w].owner = e /\ req'[w].token = t
         /\ \A v \in Workers \ {w} : req'[v] = req[v]
<1> DEFINE r == [step |-> step, op |-> op, owner |-> e, version |-> version, token |-> t, password |-> p]
<1>1. r \in Request
  BY DEF Request
<1>2. /\ r.step = step /\ r.op = op /\ r.owner = e /\ r.version = version /\ r.token = t
      /\ r.password = p
  OBVIOUS
<1>3. req' = [req EXCEPT ![w] = r]
  BY DEF Begin
<1> HIDE DEF r
<1>4. Fits(r)
  BY <1>2 DEF Fits
<1>5. QED
  BY <1>1, <1>2, <1>3, <1>4, Handed

\* Tokens stay tokens when one is drawn or some are killed.
LEMMA TokenTyping ==
  ASSUME TypeOK
  PROVE  /\ \A t \in Tokens, kind \in Kinds, e \in Emails, v \in Versions :
               New(t, kind, e, v) => token' \in [Tokens -> Token]
         /\ \A ts : Kill(ts) => token' \in [Tokens -> Token]
<1>1. ASSUME NEW t \in Tokens, NEW kind \in Kinds, NEW e \in Emails, NEW v \in Versions,
             New(t, kind, e, v)
      PROVE  token' \in [Tokens -> Token]
  <2>1. [kind |-> kind, owner |-> e, version |-> v] \in Token
    BY DEF Token
  <2>2. QED
    BY <1>1, <2>1 DEF New, TypeOK
<1>2. ASSUME NEW ts, Kill(ts)
      PROVE  token' \in [Tokens -> Token]
  <2>1. 0 \in Versions /\ "dead" \in Kinds
    BY ConstantsOK DEF Versions, Kinds
  <2>2. \A t \in Tokens : /\ token[t] \in Token
                          /\ [token[t] EXCEPT !.kind = "dead", !.version = 0] \in Token
    BY <2>1 DEF TypeOK, Token
  <2>3. QED
    BY <1>2, <2>2 DEF Kill
<1>3. QED
  BY <1>1, <1>2

\* What counts a token's work stays a count.
LEMMA CountTyping ==
  ASSUME TypeOK, NEW t, Count(t)
  PROVE  uses' \in [Tokens -> 0 .. 2]
<1>1. \A n \in 0 .. 2 : (IF n = 0 THEN 1 ELSE 2) \in 0 .. 2
  OBVIOUS
<1>2. uses' = [uses EXCEPT ![t] = IF uses[t] = 0 THEN 1 ELSE 2]
  BY DEF Count
<1>3. QED
  BY <1>1, <1>2 DEF TypeOK

\* What the request of a typed state is made of.
LEMMA RequestTyping ==
  ASSUME Typed, NEW w \in Workers
  PROVE  /\ req[w] \in Request /\ Fits(req[w])
         /\ req[w].owner \in Emails /\ req[w].version \in Versions
         /\ req[w].token \in Tokens \cup {Nobody} /\ req[w].password \in Password \cup {Nobody}
         /\ account[req[w].owner] \in Account
BY DEF Typed, TypeOK, Request, Holding

-----------------------------------------------------------------------------
\* Types and holdings are kept, handler by handler.

\* Register.
LEMMA RegisterKeeps ==
  ASSUME Typed, NEW w \in Workers, NEW e \in Emails, Register(w, e)
  PROVE  Typed'
<1>1. PICK p \in Password :
        /\ account' = [account EXCEPT ![e] = [password |-> Trim(p), verified |-> FALSE, version |-> 0]]
        /\ chosen' = [chosen EXCEPT ![e] = p]
  BY DEF Register
<1>2. 0 \in Versions
  BY ConstantsOK DEF Versions
<1>3. Trim(p) \in Password
  BY DEF Trim, Password
<1>4. [password |-> Trim(p), verified |-> FALSE, version |-> 0] \in Account
  BY <1>2, <1>3 DEF Account
<1>5. account' \in [Emails -> Account] /\ chosen' \in [Emails -> Password \cup {Nobody}]
  BY <1>1, <1>4 DEF Typed, TypeOK
<1>6. Begin(w, "storeVerify", "register", e, 0, Nobody, Nobody) /\ Nobody \notin Tokens
  BY ConstantsOK DEF Register
<1>7. req' \in [Workers -> Request] /\ Holding'
  BY <1>2, <1>6, Begun DEF Steps, Ops
<1>8. QED
  BY <1>5, <1>7 DEF Register, Typed, TypeOK

\* Handlers that begin without writing, or with a token they have looked up.
LEMMA BeginKeeps ==
  ASSUME Typed, NEW w \in Workers,
         \/ \E e \in Emails : Login(w, e) \/ ChangePassword(w, e) \/ RevokeAllSessions(w, e)
         \/ \E e \in Emails, t \in Tokens : Logout(w, t, e)
         \/ \E t \in Tokens : RefreshToken(w, t) \/ ResetPassword(w, t) \/ VerifyEmail(w, t)
  PROVE  Typed'
<1>1. 0 \in Versions /\ Nobody \notin Tokens
  BY ConstantsOK DEF Versions
<1>2. /\ \A e \in Emails : account[e] \in Account /\ account[e].version \in Versions
      /\ \A t \in Tokens : token[t].owner \in Emails /\ token[t].version \in Versions
  BY DEF Typed, TypeOK, Account, Token
<1>3. req' \in [Workers -> Request] /\ Holding'
  <2>1. ASSUME NEW e \in Emails, Login(w, e)
        PROVE  req' \in [Workers -> Request] /\ Holding'
    <3>1. Begin(w, "issue", "login", e, account[e].version, Nobody, Nobody)
      BY <2>1 DEF Login
    <3>2. QED
      BY <1>1, <1>2, <3>1, Begun DEF Steps, Ops
  <2>2. ASSUME NEW e \in Emails, ChangePassword(w, e)
        PROVE  req' \in [Workers -> Request] /\ Holding'
    <3>1. PICK p \in Password : Begin(w, "password", "change", e, 0, Nobody, p)
      BY <2>2 DEF ChangePassword
    <3>2. QED
      BY <1>1, <3>1, Begun DEF Steps, Ops
  <2>3. ASSUME NEW e \in Emails, RevokeAllSessions(w, e)
        PROVE  req' \in [Workers -> Request] /\ Holding'
    <3>1. Begin(w, "revokeAll", "revoke", e, 0, Nobody, Nobody)
      BY <2>3 DEF RevokeAllSessions
    <3>2. QED
      BY <1>1, <3>1, Begun DEF Steps, Ops
  <2>4. ASSUME NEW e \in Emails, NEW t \in Tokens, Logout(w, t, e)
        PROVE  req' \in [Workers -> Request] /\ Holding'
    <3>1. Begin(w, "dropSession", "logout", e, 0, Nobody, Nobody)
      BY <2>4 DEF Logout
    <3>2. QED
      BY <1>1, <3>1, Begun DEF Steps, Ops
  <2>5. ASSUME NEW t \in Tokens, RefreshToken(w, t)
        PROVE  req' \in [Workers -> Request] /\ Holding'
    <3>1. Begin(w, "revoke", "refresh", token[t].owner, token[t].version, t, Nobody)
      BY <2>5 DEF RefreshToken
    <3>2. QED
      BY <1>2, <3>1, Begun DEF Steps, Ops
  <2>6. ASSUME NEW t \in Tokens, ResetPassword(w, t)
        PROVE  req' \in [Workers -> Request] /\ Holding'
    <3>1. PICK p \in Password : Begin(w, "password", "reset", token[t].owner, 0, t, p)
      BY <2>6 DEF ResetPassword
    <3>2. QED
      BY <1>1, <1>2, <3>1, Begun DEF Steps, Ops
  <2>7. ASSUME NEW t \in Tokens, VerifyEmail(w, t)
        PROVE  req' \in [Workers -> Request] /\ Holding'
    <3>1. Begin(w, "verified", "verify", token[t].owner, 0, t, Nobody)
      BY <2>7 DEF VerifyEmail
    <3>2. QED
      BY <1>1, <1>2, <3>1, Begun DEF Steps, Ops
  <2>8. QED
    BY <2>1, <2>2, <2>3, <2>4, <2>5, <2>6, <2>7
<1>4. token' \in [Tokens -> Token] /\ spared' \subseteq Tokens
  <2>1. CASE \E e \in Emails, t \in Tokens : Logout(w, t, e)
    BY <2>1, TokenTyping DEF Logout, ghosts, Typed, TypeOK
  <2>2. CASE ~ \E e \in Emails, t \in Tokens : Logout(w, t, e)
    BY <2>2 DEF Login, ChangePassword, RevokeAllSessions, RefreshToken, ResetPassword, VerifyEmail,
                Hold, ghosts, Typed, TypeOK
  <2>3. QED
    BY <2>1, <2>2
<1>5. UNCHANGED <<account, session, chosen, uses, late>>
  BY DEF Login, ChangePassword, RevokeAllSessions, Logout, RefreshToken, ResetPassword, VerifyEmail,
         Hold, ghosts
<1>6. QED
  BY <1>3, <1>4, <1>5 DEF Typed, TypeOK

\* Steps that draw a token.
LEMMA DrawKeeps ==
  ASSUME Typed, NEW w \in Workers, StoreVerify(w) \/ Issue(w)
  PROVE  Typed'
<1>1. req[w] \in Request /\ Fits(req[w]) /\ req[w].owner \in Emails /\ req[w].version \in Versions
  BY RequestTyping
<1>2. CASE StoreVerify(w)
  <2>1. 0 \in Versions
    BY ConstantsOK DEF Versions
  <2>2. token' \in [Tokens -> Token]
    BY <1>1, <1>2, <2>1, TokenTyping DEF StoreVerify, Typed, Kinds
  <2>3. QED
    BY <1>2, <2>2, Finished DEF StoreVerify, ghosts, Typed, TypeOK
<1>3. CASE Issue(w)
  <2>1. PICK t \in Tokens : /\ New(t, "refresh", req[w].owner, req[w].version)
                            /\ late' = IF Outdated(w) THEN late \cup {t} ELSE late
    BY <1>3 DEF Issue
  <2>2. token' \in [Tokens -> Token] /\ late' \subseteq Tokens \cup Emails
    BY <1>1, <2>1, TokenTyping DEF Typed, TypeOK, Kinds
  <2>3. CASE req[w].op = "login"
    BY <1>3, <2>2, <2>3, Gone DEF Issue, Typed, TypeOK
  <2>4. CASE req[w].op # "login"
    BY <1>3, <2>2, <2>4, Finished, CountTyping DEF Issue, Typed, TypeOK
  <2>5. QED
    BY <2>3, <2>4
<1>4. QED
  BY <1>2, <1>3

\* Steps that revoke or delete.
LEMMA KillKeeps ==
  ASSUME Typed, NEW w \in Workers, Revoke(w) \/ DropToken(w) \/ RevokeAll(w)
  PROVE  Typed'
<1>1. token' \in [Tokens -> Token]
  BY TokenTyping DEF Revoke, DropToken, RevokeAll, Typed
<1>2. Fits(req[w])
  BY RequestTyping
<1>3. req' \in [Workers -> Request] /\ Holding'
  <2>1. CASE Revoke(w)
    BY <1>2, <2>1, Gone DEF Revoke, Fits
  <2>2. CASE RevokeAll(w)
    BY <2>2, Gone DEF RevokeAll
  <2>3. CASE DropToken(w)
    BY <2>3, Gone, Finished DEF DropToken
  <2>4. QED
    BY <2>1, <2>2, <2>3
<1>4. QED
  BY <1>1, <1>3 DEF Revoke, DropToken, RevokeAll, ghosts, Typed, TypeOK

\* Steps on the session.
LEMMA SessionKeeps ==
  ASSUME Typed, NEW w \in Workers, StoreSession(w) \/ DropSession(w)
  PROVE  Typed'
<1>1. req[w].owner \in Emails /\ req[w].version \in Versions
  BY RequestTyping
<1>2. req' \in [Workers -> Request] /\ Holding'
  BY Finished DEF StoreSession, DropSession
<1>3. late' \subseteq Tokens \cup Emails
  BY <1>1 DEF StoreSession, DropSession, Typed, TypeOK
<1>4. session' \in [Emails -> Versions \cup {Nobody}]
  BY <1>1 DEF StoreSession, DropSession, Typed, TypeOK
<1>5. QED
  BY <1>2, <1>3, <1>4 DEF StoreSession, DropSession, Typed, TypeOK

\* The statements on the account.
LEMMA AccountKeeps ==
  ASSUME Typed, NEW w \in Workers, UpdatePassword(w) \/ MarkVerified(w)
  PROVE  Typed'
<1> DEFINE e == req[w].owner
<1>1. e \in Emails /\ account[e] \in Account /\ Fits(req[w])
  BY RequestTyping
<1>2. CASE UpdatePassword(w)
  <2>1. req[w].password \in Password /\ req[w].op \in {"reset", "change"}
    BY <1>1, <1>2 DEF UpdatePassword, Fits
  <2>2. account[e].version + 1 \in Versions
    BY <1>1, <1>2, ConstantsOK DEF UpdatePassword, Account, Versions
  <2>3. [account[e] EXCEPT !.password = req[w].password, !.version = account[e].version + 1] \in Account
    BY <1>1, <2>1, <2>2 DEF Account
  <2>4. account' = [account EXCEPT ![e] =
           [account[e] EXCEPT !.password = req[w].password, !.version = account[e].version + 1]]
    BY <1>1, <1>2 DEF UpdatePassword, Typed, TypeOK
  <2>5. account' \in [Emails -> Account] /\ chosen' \in [Emails -> Password \cup {Nobody}]
    <3>1. account' \in [Emails -> Account]
      BY <2>3, <2>4 DEF Typed, TypeOK
    <3>2. chosen' = [chosen EXCEPT ![e] = req[w].password]
      BY <1>2 DEF UpdatePassword
    <3>3. QED
      BY <2>1, <3>1, <3>2 DEF Typed, TypeOK
  <2>6. req' \in [Workers -> Request] /\ Holding' /\ uses' \in [Tokens -> 0 .. 2]
    <3>1. CASE req[w].op = "reset"
      BY <1>2, <3>1, Gone, CountTyping DEF UpdatePassword, Typed
    <3>2. CASE req[w].op # "reset"
      BY <1>2, <2>1, <3>2, Gone DEF UpdatePassword, Typed, TypeOK
    <3>3. QED
      BY <3>1, <3>2
  <2>7. QED
    BY <1>2, <2>5, <2>6 DEF UpdatePassword, Typed, TypeOK
<1>3. CASE MarkVerified(w)
  <2>1. [account[e] EXCEPT !.verified = TRUE] \in Account
    BY <1>1 DEF Account
  <2>2. account' \in [Emails -> Account]
    BY <1>1, <1>3, <2>1 DEF MarkVerified, Typed, TypeOK
  <2>3. req[w].op = "verify"
    BY <1>1, <1>3 DEF MarkVerified, Fits
  <2>4. req' \in [Workers -> Request] /\ Holding' /\ uses' \in [Tokens -> 0 .. 2]
    BY <1>3, <2>3, Gone, CountTyping DEF MarkVerified, Typed
  <2>5. QED
    BY <1>3, <2>2, <2>4 DEF MarkVerified, Typed, TypeOK
<1>4. QED
  BY <1>2, <1>3

\* Errors, dropped or returned.
LEMMA FailKeeps ==
  ASSUME Typed, NEW w \in Workers, FailOn(w) \/ Stop(w)
  PROVE  Typed'
<1>1. req[w].owner \in Emails /\ Fits(req[w])
  BY RequestTyping
<1>2. CASE FailOn(w)
  <2>1. req' \in [Workers -> Request] /\ Holding'
    <3>1. CASE req[w].step = "dropToken"
      BY <1>2, <3>1, Gone DEF FailOn
    <3>2. CASE req[w].step = "revokeAll"
      BY <1>2, <3>2, Gone DEF FailOn
    <3>3. QED
      BY <1>2, <3>1, <3>2 DEF FailOn
  <2>2. req[w].step = "dropToken" => req[w].token \in Tokens
    BY <1>1 DEF Fits
  <2>3. spared' \subseteq Tokens /\ late' \subseteq Tokens \cup Emails
    BY <1>2, <2>2 DEF FailOn, Mine, Typed, TypeOK
  <2>4. QED
    BY <1>2, <2>1, <2>3 DEF FailOn, Typed, TypeOK
<1>3. CASE Stop(w)
  <2>1. req[w].step = "dropToken" => req[w].token \in Tokens
    BY <1>1 DEF Fits
  <2>2. spared' \subseteq Tokens
    BY <1>3, <2>1 DEF Stop, Typed, TypeOK
  <2>3. late' \subseteq Tokens \cup Emails
    BY <1>1, <1>3 DEF Stop, Mine, Typed, TypeOK
  <2>4. QED
    BY <1>3, <2>2, <2>3, Finished DEF Stop, Typed, TypeOK
<1>4. QED
  BY <1>2, <1>3

\* The steps of no worker.
LEMMA OutsideKeeps ==
  ASSUME Typed,
         \/ \E e \in Emails : ForgotPassword(e) \/ ExpireSession(e)
         \/ \E t \in Tokens : Expire(t)
  PROVE  Typed'
<1>1. 0 \in Versions
  BY ConstantsOK DEF Versions
<1>2. token' \in [Tokens -> Token]
  BY <1>1, TokenTyping DEF ForgotPassword, ExpireSession, Expire, Typed, TypeOK, Kinds
<1>3. session' \in [Emails -> Versions \cup {Nobody}]
  BY DEF ForgotPassword, ExpireSession, Expire, Typed, TypeOK
<1>4. UNCHANGED <<account, req, ghosts>>
  BY DEF ForgotPassword, ExpireSession, Expire
<1>5. Holding'
  BY <1>4 DEF Holding, Typed
<1>6. QED
  BY <1>2, <1>3, <1>4, <1>5 DEF ghosts, Typed, TypeOK

\* Every step keeps types and holdings.
LEMMA NextKeeps == Typed /\ [Next]_vars => Typed'
<1> SUFFICES ASSUME Typed, [Next]_vars PROVE Typed'
  OBVIOUS
<1>1. CASE \E w \in Workers : Arrive(w)
  BY <1>1, RegisterKeeps, BeginKeeps DEF Arrive
<1>2. CASE \E w \in Workers : Continue(w)
  BY <1>2, DrawKeeps, KillKeeps, SessionKeeps, AccountKeeps DEF Continue
<1>3. CASE \E w \in Workers : FailOn(w) \/ Stop(w)
  BY <1>3, FailKeeps
<1>4. CASE \/ \E e \in Emails : ForgotPassword(e) \/ ExpireSession(e)
           \/ \E t \in Tokens : Expire(t)
  BY <1>4, OutsideKeeps
<1>5. CASE UNCHANGED vars
  BY <1>5 DEF vars, Typed, TypeOK, Holding
<1>6. QED
  BY <1>1, <1>2, <1>3, <1>4, <1>5 DEF Next

\* The service starts with no accounts, no tokens and idle workers.
LEMMA InitTyped == Init => Typed
<1> SUFFICES ASSUME Init PROVE Typed
  OBVIOUS
<1> DEFINE fresh == [password |-> Nobody, verified |-> FALSE, version |-> 0]
           free  == [kind |-> "free", owner |-> CHOOSE e \in Emails : TRUE, version |-> 0]
<1>1. 0 \in Versions /\ (CHOOSE e \in Emails : TRUE) \in Emails
  BY ConstantsOK DEF Versions
<1>2. fresh \in Account /\ free \in Token
  BY <1>1 DEF Account, Token, Kinds
<1>3. req \in [Workers -> Request] /\ Holding
  BY IdleFits DEF Init, Holding
<1>4. account = [e \in Emails |-> fresh] /\ token = [t \in Tokens |-> free]
  BY DEF Init
<1> HIDE DEF fresh, free
<1>5. account \in [Emails -> Account] /\ token \in [Tokens -> Token]
  BY <1>2, <1>4
<1>6. /\ session \in [Emails -> Versions \cup {Nobody}]
      /\ chosen \in [Emails -> Password \cup {Nobody}]
      /\ uses \in [Tokens -> 0 .. 2]
      /\ spared = {} /\ late = {}
  BY DEF Init
<1>7. QED
  BY <1>3, <1>5, <1>6 DEF Typed, TypeOK

\* Every reachable state is well typed, and every handler holds what its next
\* statement needs: a token of the kind it works on, a password to store.
THEOREM TypeCorrect == Spec => [](TypeOK /\ Holding)
<1>1. Typed => TypeOK /\ Holding
  BY DEF Typed
<1>2. QED
  BY InitTyped, NextKeeps, <1>1, PTL DEF Spec

-----------------------------------------------------------------------------
\* What an owner typed opens the account.

\* The steps that write an account or what its owner chose.
LEMMA AccountWriters ==
  ASSUME [Next]_vars
  PROVE  \/ \E w \in Workers : \/ \E e \in Emails : Register(w, e)
                               \/ UpdatePassword(w) \/ MarkVerified(w)
         \/ UNCHANGED <<account, chosen>>
<1>1. CASE \E w \in Workers : Arrive(w)
  BY <1>1 DEF Arrive, Login, ChangePassword, RevokeAllSessions, Logout, RefreshToken, ResetPassword,
              VerifyEmail, Hold, ghosts
<1>2. CASE \E w \in Workers : Continue(w)
  BY <1>2 DEF Continue, StoreVerify, Revoke, Issue, StoreSession, DropToken, RevokeAll, DropSession, ghosts
<1>3. CASE \E w \in Workers : FailOn(w) \/ Stop(w)
  BY <1>3 DEF FailOn, Stop
<1>4. CASE \/ \E e \in Emails : ForgotPassword(e) \/ ExpireSession(e)
           \/ \E t \in Tokens : Expire(t)
  BY <1>4 DEF ForgotPassword, ExpireSession, Expire, ghosts
<1>5. CASE UNCHANGED vars
  BY <1>5 DEF vars
<1>6. QED
  BY <1>1, <1>2, <1>3, <1>4, <1>5 DEF Next

\* Of a password without blanks around it, trimming takes nothing.
LEMMA TrimPlain == \A p \in Password : p.padded \/ Trim(p) = p
BY DEF Password, Trim

LEMMA OpensKept == Typed /\ ChosenPasswordOpens /\ [Next]_vars => ChosenPasswordOpens'
<1> SUFFICES ASSUME Typed, ChosenPasswordOpens, [Next]_vars, NEW e \in Emails, Exists(e)'
             PROVE  \/ account'[e].password = Trim(chosen'[e])
                    \/ account'[e].version > 0 /\ chosen'[e].padded
  BY DEF ChosenPasswordOpens, Trim
<1> USE DEF Exists
<1>1. ASSUME NEW w \in Workers, NEW a \in Emails, Register(w, a)
      PROVE  account'[e].password = Trim(chosen'[e]) \/ (account'[e].version > 0 /\ chosen'[e].padded)
  <2>1. PICK p \in Password :
          /\ account' = [account EXCEPT ![a] = [password |-> Trim(p), verified |-> FALSE, version |-> 0]]
          /\ chosen' = [chosen EXCEPT ![a] = p]
    BY <1>1 DEF Register
  <2>2. CASE a = e
    <3>1. account'[e].password = Trim(p) /\ chosen'[e] = p
      BY <2>1, <2>2 DEF Typed, TypeOK
    <3>2. QED
      BY <3>1
  <2>3. CASE a # e
    <3>1. account'[e] = account[e] /\ chosen'[e] = chosen[e]
      BY <2>1, <2>3 DEF Typed, TypeOK
    <3>2. QED
      BY <3>1 DEF ChosenPasswordOpens
  <2>4. QED
    BY <2>2, <2>3
<1>2. ASSUME NEW w \in Workers, UpdatePassword(w)
      PROVE  account'[e].password = Trim(chosen'[e]) \/ (account'[e].version > 0 /\ chosen'[e].padded)
  <2>1. req[w].owner \in Emails /\ req[w].password \in Password
    BY <1>2, RequestTyping DEF UpdatePassword, Fits
  <2>2. CASE req[w].owner = e
    <3>1. account[e].version \in Nat
      BY ConstantsOK DEF Typed, TypeOK, Account, Versions
    <3>2. account'[e] = [account[e] EXCEPT !.password = req[w].password, !.version = account[e].version + 1]
      BY <1>2, <2>1, <2>2 DEF UpdatePassword, Typed, TypeOK
    <3>3. /\ account'[e].password = req[w].password /\ account'[e].version = account[e].version + 1
          /\ chosen'[e] = req[w].password
      BY <1>2, <2>1, <2>2, <3>2 DEF UpdatePassword, Typed, TypeOK, Account
    <3>4. account'[e].version > 0
      BY <3>1, <3>3
    <3>5. QED
      BY <2>1, <3>3, <3>4, TrimPlain
  <2>3. CASE req[w].owner # e
    <3>1. account'[e] = account[e] /\ chosen'[e] = chosen[e]
      BY <1>2, <2>1, <2>3 DEF UpdatePassword, Typed, TypeOK
    <3>2. QED
      BY <3>1 DEF ChosenPasswordOpens
  <2>4. QED
    BY <2>2, <2>3
<1>3. ASSUME NEW w \in Workers, MarkVerified(w)
      PROVE  account'[e].password = Trim(chosen'[e]) \/ (account'[e].version > 0 /\ chosen'[e].padded)
  <2>1. account'[e].password = account[e].password /\ account'[e].version = account[e].version
    BY <1>3 DEF MarkVerified, Typed, TypeOK, Account
  <2>2. chosen' = chosen
    BY <1>3 DEF MarkVerified
  <2>3. QED
    BY <2>1, <2>2 DEF ChosenPasswordOpens
<1>4. CASE UNCHANGED <<account, chosen>>
  BY <1>4 DEF ChosenPasswordOpens
<1>5. QED
  BY <1>1, <1>2, <1>3, <1>4, AccountWriters

\* What an owner typed on registering opens the account, blanks and all; what was
\* typed on a later change does so unless it has blanks around it (Register and
\* Login trim, UpdatePassword does not).
THEOREM ChosenOpens == Spec => []ChosenPasswordOpens
<1>1. Init => ChosenPasswordOpens
  BY DEF Init, ChosenPasswordOpens, Exists
<1>2. QED
  BY InitTyped, NextKeeps, <1>1, OpensKept, PTL DEF Spec

-----------------------------------------------------------------------------
\* Tokens do their work once.

\* Worker w has token t in hand; before what the token is for.
Holds(w, t) == Busy(w) /\ req[w].token = t
Before(w, t) == Holds(w, t) /\ req[w].step \in {"revoke", "issue", "password", "verified"}

\* A token that was not spared has one holder at most, who has not used it before its
\* work is done; once used it is dead, or its holder is about to delete it.
OnceAt(t) ==
    \/ t \in spared
    \/ /\ uses[t] <= 1
       /\ \A v, w \in Workers : Holds(v, t) /\ Holds(w, t) => v = w
       /\ \A w \in Workers : Before(w, t) => uses[t] = 0
       /\ uses[t] >= 1 => \/ token[t].kind = "dead"
                          \/ \E w \in Workers : Holds(w, t) /\ req[w].step = "dropToken"
       /\ \A w \in Workers : Holds(w, t) /\ req[w].step = "issue" => token[t].kind = "dead"

Once == \A t \in Tokens : OnceAt(t)

\* What no step undoes: a dead token stays dead, a spared one spared.
Lasting(t) == /\ token[t].kind = "dead" => token'[t].kind = "dead"
              /\ t \in spared => t \in spared'

\* A step of a worker that has not got the token in hand, before or after.
LEMMA ElsewhereKeeps ==
  ASSUME NEW t \in Tokens, OnceAt(t), Lasting(t), uses'[t] = uses[t], NEW w \in Workers,
         \A v \in Workers \ {w} : req'[v] = req[v],
         ~Holds(w, t), ~Holds(w, t)'
  PROVE  OnceAt(t)'
<1>1. \A v \in Workers \ {w} : /\ Holds(v, t)' <=> Holds(v, t)
                               /\ Before(v, t)' <=> Before(v, t)
                               /\ req'[v].step = req[v].step
  BY DEF Holds, Before, Busy
<1>2. ~Before(w, t) /\ ~Before(w, t)'
  BY DEF Before
<1>3. QED
  BY <1>1, <1>2 DEF OnceAt, Lasting

\* A token found by a lookup: nobody else has it, or it is spared.
LEMMA FoundKeeps ==
  ASSUME Typed, NEW t \in Tokens, OnceAt(t), NEW w \in Workers, ~Busy(w), Hold(w, t),
         token' = token, token[t].kind # "dead",
         req'[w].step # "issue", \A v \in Workers \ {w} : req'[v] = req[v]
  PROVE  OnceAt(t)'
<1>1. CASE t \in spared'
  BY <1>1 DEF OnceAt
<1>2. CASE t \notin spared'
  <2>1. t \notin spared /\ uses' = uses /\ \A v \in Workers : ~Holds(v, t)
    BY <1>2 DEF Hold, Holds, Busy
  <2>2. uses[t] = 0
    BY <2>1 DEF OnceAt, Typed, TypeOK
  <2>3. \A v \in Workers \ {w} : ~Holds(v, t)'
    BY <2>1 DEF Holds, Busy
  <2>4. QED
    BY <2>1, <2>2, <2>3 DEF OnceAt, Before
<1>3. QED
  BY <1>1, <1>2

\* The token a request has in hand is not spared and has done nothing yet: the
\* step that does its work leaves it dead, or its holder about to delete it.
LEMMA WorkKeeps ==
  ASSUME Typed, NEW t \in Tokens, OnceAt(t), Lasting(t), NEW w \in Workers, Before(w, t), Count(t),
         \A v \in Workers \ {w} : req'[v] = req[v],
         ~Before(w, t)',
         \/ token[t].kind = "dead"
         \/ Holds(w, t)' /\ req'[w].step = "dropToken"
  PROVE  OnceAt(t)'
<1>1. CASE t \in spared
  BY <1>1 DEF OnceAt, Lasting
<1>2. CASE t \notin spared
  <2>1. uses[t] = 0 /\ Holds(w, t)
    BY <1>2 DEF OnceAt, Before
  <2>2. uses'[t] = 1
    BY <2>1 DEF Count, Typed, TypeOK
  <2>3. \A v \in Workers \ {w} : ~Holds(v, t)'
    BY <1>2, <2>1 DEF OnceAt, Holds, Busy
  <2>4. QED
    BY <2>2, <2>3 DEF OnceAt, Lasting, Before
<1>3. QED
  BY <1>1, <1>2

\* A step of the holder that does not do the work, and does not leave a used token
\* alive behind.
LEMMA HolderKeeps ==
  ASSUME Typed, NEW t \in Tokens, OnceAt(t), Lasting(t), NEW w \in Workers, Holds(w, t), uses'[t] = uses[t],
         \A v \in Workers \ {w} : req'[v] = req[v],
         Before(w, t)' => Before(w, t),
         req[w].step = "dropToken" => token'[t].kind = "dead" \/ t \in spared',
         req'[w].step = "issue" => token'[t].kind = "dead"
  PROVE  OnceAt(t)'
<1>1. CASE t \in spared'
  BY <1>1 DEF OnceAt
<1>2. CASE t \notin spared'
  <2>1. t \notin spared
    BY <1>2 DEF Lasting
  <2>2. \A v \in Workers \ {w} : ~Holds(v, t) /\ ~Holds(v, t)'
    BY <2>1 DEF OnceAt, Holds, Busy
  <2>3. \A v \in Workers : Before(v, t)' => uses'[t] = 0
    BY <2>1, <2>2 DEF OnceAt, Before
  <2>4. uses'[t] >= 1 => token'[t].kind = "dead"
    BY <1>2, <2>1, <2>2 DEF OnceAt, Lasting
  <2>5. QED
    BY <2>1, <2>2, <2>3, <2>4 DEF OnceAt
<1>3. QED
  BY <1>1, <1>2

\* No step revives a token or takes one out of the spared.
LEMMA AllLast ==
  ASSUME Typed, NEW t \in Tokens, Next
  PROVE  Lasting(t)
<1>1. ASSUME NEW s \in Tokens, NEW kind, NEW e, NEW v, New(s, kind, e, v)
      PROVE  token[t].kind = "dead" => token'[t].kind = "dead"
  BY <1>1 DEF New, Typed, TypeOK
<1>2. ASSUME NEW ts, Kill(ts)
      PROVE  token[t].kind = "dead" => token'[t].kind = "dead"
  BY <1>2 DEF Kill, Typed, TypeOK, Token
<1>3. CASE \E w \in Workers : Arrive(w)
  <2>1. CASE \E w \in Workers, e \in Emails, s \in Tokens : Logout(w, s, e)
    BY <1>2, <2>1 DEF Logout, ghosts, Lasting
  <2>2. CASE ~ \E w \in Workers, e \in Emails, s \in Tokens : Logout(w, s, e)
    BY <1>3, <2>2 DEF Arrive, Register, Login, ChangePassword, RevokeAllSessions, RefreshToken,
                      ResetPassword, VerifyEmail, Hold, ghosts, Lasting
  <2>3. QED
    BY <2>1, <2>2
<1>4. CASE \E w \in Workers : Continue(w)
  <2>1. ASSUME NEW w \in Workers, StoreVerify(w) \/ Issue(w)
        PROVE  Lasting(t)
    BY <1>1, <2>1 DEF StoreVerify, Issue, ghosts, Lasting
  <2>2. ASSUME NEW w \in Workers, Revoke(w) \/ DropToken(w) \/ RevokeAll(w)
        PROVE  Lasting(t)
    BY <1>2, <2>2 DEF Revoke, DropToken, RevokeAll, ghosts, Lasting
  <2>3. ASSUME NEW w \in Workers, StoreSession(w) \/ UpdatePassword(w) \/ DropSession(w) \/ MarkVerified(w)
        PROVE  Lasting(t)
    BY <2>3 DEF StoreSession, UpdatePassword, DropSession, MarkVerified, Lasting
  <2>4. QED
    BY <1>4, <2>1, <2>2, <2>3 DEF Continue
<1>5. CASE \E w \in Workers : FailOn(w) \/ Stop(w)
  BY <1>5 DEF FailOn, Stop, Lasting
<1>6. CASE \/ \E e \in Emails : ForgotPassword(e) \/ ExpireSession(e)
           \/ \E s \in Tokens : Expire(s)
  <2>1. ASSUME NEW e \in Emails, ForgotPassword(e)
        PROVE  Lasting(t)
    BY <1>1, <2>1 DEF ForgotPassword, ghosts, Lasting
  <2>2. ASSUME NEW e \in Emails, ExpireSession(e)
        PROVE  Lasting(t)
    BY <2>2 DEF ExpireSession, ghosts, Lasting
  <2>3. ASSUME NEW s \in Tokens, Expire(s)
        PROVE  Lasting(t)
    BY <1>2, <2>3 DEF Expire, ghosts, Lasting
  <2>4. QED
    BY <1>6, <2>1, <2>2, <2>3
<1>7. QED
  BY <1>3, <1>4, <1>5, <1>6 DEF Next

\* Of a request that begins, the token in hand is the one it was given.
LEMMA BeginHolds ==
  ASSUME Typed, NEW w \in Workers, NEW step \in Steps, NEW op \in Ops, NEW e \in Emails,
         NEW version \in Versions, NEW s \in Tokens \cup {Nobody}, NEW p \in Password \cup {Nobody},
         Begin(w, step, op, e, version, s, p), NEW t \in Tokens
  PROVE  /\ ~Busy(w) /\ ~Holds(w, t)
         /\ req'[w].step = step /\ req'[w].token = s
         /\ \A v \in Workers \ {w} : req'[v] = req[v]
         /\ s # t => ~Holds(w, t)'
<1> DEFINE r == [step |-> step, op |-> op, owner |-> e, version |-> version, token |-> s, password |-> p]
<1>1. r.step = step /\ r.token = s
  OBVIOUS
<1>2. ~Busy(w) /\ req' = [req EXCEPT ![w] = r]
  BY DEF Begin
<1> HIDE DEF r
<1>3. req'[w] = r /\ \A v \in Workers \ {w} : req'[v] = req[v]
  BY <1>2 DEF Typed, TypeOK
<1>4. QED
  BY <1>1, <1>2, <1>3 DEF Holds, Busy

\* The beginnings.
LEMMA ArriveOnce ==
  ASSUME Typed, NEW t \in Tokens, OnceAt(t), Lasting(t), NEW w \in Workers, Arrive(w)
  PROVE  OnceAt(t)'
<1>1. 0 \in Versions /\ Nobody \notin Tokens /\ Nobody # t
  BY ConstantsOK DEF Versions
<1>2. /\ \A e \in Emails : account[e].version \in Versions
      /\ \A s \in Tokens : token[s].owner \in Emails /\ token[s].version \in Versions
  BY DEF Typed, TypeOK, Account, Token
<1>3. ASSUME NEW e \in Emails,
             Register(w, e) \/ Login(w, e) \/ ChangePassword(w, e) \/ RevokeAllSessions(w, e)
               \/ \E s \in Tokens : Logout(w, s, e)
      PROVE  OnceAt(t)'
  <2>1. uses' = uses
    BY <1>3 DEF Register, Login, ChangePassword, RevokeAllSessions, Logout, ghosts
  <2>2. PICK step \in Steps, op \in Ops, version \in Versions, p \in Password \cup {Nobody} :
          Begin(w, step, op, e, version, Nobody, p)
    <3>1. CASE Register(w, e)
      BY <1>1, <3>1 DEF Register, Steps, Ops
    <3>2. CASE Login(w, e)
      BY <1>1, <1>2, <3>2 DEF Login, Steps, Ops
    <3>3. CASE ChangePassword(w, e)
      BY <1>1, <3>3 DEF ChangePassword, Steps, Ops
    <3>4. CASE RevokeAllSessions(w, e)
      BY <1>1, <3>4 DEF RevokeAllSessions, Steps, Ops
    <3>5. CASE \E s \in Tokens : Logout(w, s, e)
      BY <1>1, <3>5 DEF Logout, Steps, Ops
    <3>6. QED
      BY <1>3, <3>1, <3>2, <3>3, <3>4, <3>5
  <2>3. QED
    BY <1>1, <2>1, <2>2, BeginHolds, ElsewhereKeeps
<1>4. ASSUME NEW s \in Tokens, RefreshToken(w, s) \/ ResetPassword(w, s) \/ VerifyEmail(w, s)
      PROVE  OnceAt(t)'
  <2>1. /\ Hold(w, s) /\ token' = token /\ token[s].kind # "dead" /\ uses' = uses
    BY <1>4 DEF RefreshToken, ResetPassword, VerifyEmail, Hold
  <2>2. PICK step \in Steps, op \in Ops, version \in Versions, p \in Password \cup {Nobody} :
          step # "issue" /\ Begin(w, step, op, token[s].owner, version, s, p)
    <3>1. CASE RefreshToken(w, s)
      BY <1>2, <3>1 DEF RefreshToken, Steps, Ops
    <3>2. CASE ResetPassword(w, s)
      BY <1>1, <3>2 DEF ResetPassword, Steps, Ops
    <3>3. CASE VerifyEmail(w, s)
      BY <1>1, <3>3 DEF VerifyEmail, Steps, Ops
    <3>4. QED
      BY <1>4, <3>1, <3>2, <3>3
  <2>3. /\ ~Busy(w) /\ ~Holds(w, t) /\ req'[w].step # "issue"
        /\ \A v \in Workers \ {w} : req'[v] = req[v]
        /\ s # t => ~Holds(w, t)'
    BY <1>2, <2>2, BeginHolds
  <2>4. CASE s = t
    BY <2>1, <2>3, <2>4, FoundKeeps
  <2>5. CASE s # t
    BY <2>1, <2>3, <2>5, ElsewhereKeeps
  <2>6. QED
    BY <2>4, <2>5
<1>5. QED
  BY <1>3, <1>4 DEF Arrive

\* Deleting or revoking the token in hand leaves it dead.
LEMMA KillsOwn ==
  ASSUME Typed, NEW t \in Tokens, NEW w \in Workers, Holds(w, t), DropToken(w) \/ Revoke(w)
  PROVE  token'[t].kind = "dead"
<1>1. Kill({t})
  BY DEF DropToken, Revoke, Holds
<1>2. token'[t] = [token[t] EXCEPT !.kind = "dead", !.version = 0] /\ token[t] \in Token
  BY <1>1 DEF Kill, Typed, TypeOK
<1>3. QED
  BY <1>2 DEF Token

\* The statements that do no token's work.
LEMMA OtherOnce ==
  ASSUME Typed, NEW t \in Tokens, OnceAt(t), Lasting(t), NEW w \in Workers,
         \/ StoreVerify(w) \/ Revoke(w) \/ StoreSession(w) \/ DropToken(w) \/ RevokeAll(w) \/ DropSession(w)
  PROVE  OnceAt(t)'
<1>1. Fits(req[w]) /\ Nobody \notin Tokens /\ uses' = uses
  BY RequestTyping, ConstantsOK
     DEF StoreVerify, Revoke, StoreSession, DropToken, RevokeAll, DropSession, ghosts
<1>2. CASE Finish(w)
  <2>1. req'[w] = Idle /\ \A v \in Workers \ {w} : req'[v] = req[v]
    BY <1>2, Finished
  <2>2. ~Holds(w, t)'
    BY <2>1 DEF Holds, Busy, Idle
  <2>3. CASE Holds(w, t)
    <3>1. req[w].step = "dropToken" => token'[t].kind = "dead"
      BY <2>3, KillsOwn DEF StoreVerify, Revoke, StoreSession, RevokeAll, DropSession
    <3>2. QED
      BY <1>1, <2>1, <2>2, <2>3, <3>1, HolderKeeps DEF Before, Idle
  <2>4. CASE ~Holds(w, t)
    BY <1>1, <2>1, <2>2, <2>4, ElsewhereKeeps
  <2>5. QED
    BY <2>3, <2>4
<1>3. CASE Revoke(w)
  <2>1. /\ req'[w].step = "issue" /\ req'[w].token = req[w].token
        /\ \A v \in Workers \ {w} : req'[v] = req[v]
    BY <1>1, <1>3, Gone DEF Revoke, Fits
  <2>2. CASE Holds(w, t)
    <3>1. token'[t].kind = "dead"
      BY <1>3, <2>2, KillsOwn
    <3>2. Before(w, t)
      BY <1>3, <2>2 DEF Revoke, Before
    <3>3. QED
      BY <1>1, <1>3, <2>1, <2>2, <3>1, <3>2, HolderKeeps DEF Revoke
  <2>3. CASE ~Holds(w, t)
    <3>1. ~Holds(w, t)'
      BY <1>3, <2>1, <2>3 DEF Revoke, Holds, Busy
    <3>2. QED
      BY <1>1, <2>1, <2>3, <3>1, ElsewhereKeeps
  <2>4. QED
    BY <2>2, <2>3
<1>4. ASSUME \/ DropToken(w) /\ req[w].op = "reset"
             \/ RevokeAll(w)
      PROVE  OnceAt(t)'
  <2>1. /\ req'[w].step \in {"revokeAll", "dropSession"} /\ req'[w].token = req[w].token
        /\ \A v \in Workers \ {w} : req'[v] = req[v]
    BY <1>4, Gone DEF DropToken, RevokeAll
  <2>2. CASE Holds(w, t)
    <3>1. req[w].step = "dropToken" => token'[t].kind = "dead"
      BY <1>4, <2>2, KillsOwn DEF RevokeAll
    <3>2. ~Before(w, t)'
      BY <2>1 DEF Before
    <3>3. QED
      BY <1>1, <2>1, <2>2, <3>1, <3>2, HolderKeeps
  <2>3. CASE ~Holds(w, t)
    <3>1. ~Holds(w, t)'
      BY <1>4, <2>1, <2>3 DEF DropToken, RevokeAll, Holds, Busy
    <3>2. QED
      BY <1>1, <2>1, <2>3, <3>1, ElsewhereKeeps
  <2>4. QED
    BY <2>2, <2>3
<1>5. QED
  BY <1>2, <1>3, <1>4 DEF StoreVerify, StoreSession, DropToken, DropSession

\* The statements that do a token's work, if it is theirs.
LEMMA WorkOnce ==
  ASSUME Typed, NEW t \in Tokens, OnceAt(t), Lasting(t), NEW w \in Workers,
         Issue(w) \/ UpdatePassword(w) \/ MarkVerified(w)
  PROVE  OnceAt(t)'
<1>1. Fits(req[w]) /\ Nobody \notin Tokens
  BY RequestTyping, ConstantsOK
<1>2. /\ \A v \in Workers \ {w} : req'[v] = req[v]
      /\ \/ req'[w] = Idle
         \/ req'[w].token = req[w].token /\ req'[w].step \in {"session", "dropToken", "revokeAll"}
  <2>1. CASE Finish(w)
    BY <2>1, Finished
  <2>2. CASE Issue(w) /\ ~Finish(w)
    BY <2>2, Gone DEF Issue
  <2>3. CASE UpdatePassword(w)
    BY <1>1, <2>3, Gone DEF UpdatePassword, Fits
  <2>4. CASE MarkVerified(w)
    BY <1>1, <2>4, Gone DEF MarkVerified, Fits
  <2>5. QED
    BY <2>1, <2>2, <2>3, <2>4
<1>3. ~Before(w, t)'
  BY <1>2 DEF Before, Holds, Busy, Idle
<1>4. CASE Holds(w, t)
  <2>1. req[w].token = t /\ req[w].op \in {"refresh", "reset", "verify"} /\ Before(w, t)
    BY <1>1, <1>4 DEF Holds, Before, Fits, Issue, UpdatePassword, MarkVerified
  <2>2. Count(t)
    BY <1>1, <2>1 DEF Issue, UpdatePassword, MarkVerified, Fits
  <2>3. CASE t \in spared
    BY <2>3 DEF Lasting, OnceAt
  <2>4. CASE t \notin spared /\ Issue(w)
    <3>1. token[t].kind = "dead"
      BY <1>4, <2>4 DEF OnceAt, Issue
    <3>2. QED
      BY <1>2, <1>3, <2>1, <2>2, <3>1, WorkKeeps
  <2>5. CASE UpdatePassword(w) \/ MarkVerified(w)
    <3>1. Goto(w, "dropToken")
      BY <1>1, <2>1, <2>5 DEF UpdatePassword, MarkVerified, Fits
    <3>2. req'[w].step = "dropToken" /\ req'[w].token = t
      BY <1>1, <2>1, <2>5, <3>1, Gone DEF UpdatePassword, MarkVerified, Fits
    <3>3. Holds(w, t)'
      BY <3>2 DEF Holds, Busy
    <3>4. QED
      BY <1>2, <1>3, <2>1, <2>2, <3>2, <3>3, WorkKeeps
  <2>6. QED
    BY <2>3, <2>4, <2>5
<1>5. CASE ~Holds(w, t)
  <2>1. req[w].token # t
    BY <1>5 DEF Holds, Busy, Issue, UpdatePassword, MarkVerified
  <2>2. ~Holds(w, t)'
    BY <1>2, <2>1 DEF Holds, Busy, Idle
  <2>3. uses'[t] = uses[t]
    BY <2>1 DEF Issue, UpdatePassword, MarkVerified, Count, Typed, TypeOK
  <2>4. QED
    BY <1>2, <1>5, <2>2, <2>3, ElsewhereKeeps
<1>6. QED
  BY <1>4, <1>5

\* Errors: a token whose removal fails is spared.
LEMMA FailOnce ==
  ASSUME Typed, NEW t \in Tokens, OnceAt(t), Lasting(t), NEW w \in Workers, FailOn(w) \/ Stop(w)
  PROVE  OnceAt(t)'
<1>1. uses' = uses /\ Busy(w)
  BY DEF FailOn, Stop, Busy
<1>2. /\ \A v \in Workers \ {w} : req'[v] = req[v]
      /\ \/ req'[w] = Idle
         \/ req'[w].token = req[w].token /\ req'[w].step \in {"revokeAll", "dropSession"}
  <2>1. CASE FailOn(w)
    BY <2>1, Gone DEF FailOn
  <2>2. CASE Stop(w)
    BY <2>2, Finished DEF Stop
  <2>3. QED
    BY <2>1, <2>2
<1>3. ~Before(w, t)' /\ req'[w].step # "issue"
  BY <1>2 DEF Before, Holds, Busy, Idle
<1>4. CASE Holds(w, t)
  <2>1. req[w].step = "dropToken" => t \in spared'
    BY <1>4 DEF Holds, FailOn, Stop
  <2>2. QED
    BY <1>1, <1>2, <1>3, <1>4, <2>1, HolderKeeps
<1>5. CASE ~Holds(w, t)
  <2>1. ~Holds(w, t)'
    BY <1>1, <1>2, <1>5 DEF Holds, Busy, Idle
  <2>2. QED
    BY <1>1, <1>2, <1>5, <2>1, ElsewhereKeeps
<1>6. QED
  BY <1>4, <1>5

LEMMA OnceKept == Typed /\ Once /\ [Next]_vars => Once'
<1> SUFFICES ASSUME Typed, Once, [Next]_vars, NEW t \in Tokens
             PROVE  OnceAt(t)'
  BY DEF Once
<1>1. OnceAt(t)
  BY DEF Once
<1>2. CASE UNCHANGED <<req, uses, spared, token>>
  BY <1>1, <1>2 DEF OnceAt, Holds, Before, Busy
<1>3. CASE Next
  <2>1. Lasting(t)
    BY <1>3, AllLast
  <2>2. CASE \E w \in Workers : Arrive(w)
    BY <1>1, <2>1, <2>2, ArriveOnce
  <2>3. CASE \E w \in Workers : Continue(w)
    BY <1>1, <2>1, <2>3, OtherOnce, WorkOnce DEF Continue
  <2>4. CASE \E w \in Workers : FailOn(w) \/ Stop(w)
    BY <1>1, <2>1, <2>4, FailOnce
  <2>5. CASE UNCHANGED <<req, ghosts>>
    <3>1. uses' = uses /\ spared' = spared /\ req' = req
      BY <2>5 DEF ghosts
    <3>2. QED
      BY <1>1, <2>1, <3>1 DEF OnceAt, Lasting, Holds, Before, Busy
  <2>6. QED
    BY <1>3, <2>2, <2>3, <2>4, <2>5 DEF Next, ForgotPassword, ExpireSession, Expire
<1>4. QED
  BY <1>2, <1>3 DEF vars

\* A refresh token is exchanged once, a reset or verification token does its work
\* once (RefreshToken, ResetPassword, VerifyEmail), unless two requests found it at
\* the same time or its removal failed: however many requests, whichever stop.
THEOREM WorkOnceOnly == Spec => []TokensWorkOnce
<1>1. ASSUME Init PROVE Once
  <2>1. \A w \in Workers : ~Busy(w)
    BY <1>1 DEF Init, Busy, Idle
  <2>2. \A t \in Tokens : uses[t] = 0
    BY <1>1 DEF Init
  <2>3. QED
    BY <2>1, <2>2 DEF Once, OnceAt, Holds, Before
<1>2. Once => TokensWorkOnce
  BY DEF Once, OnceAt, TokensWorkOnce
<1>3. QED
  BY InitTyped, NextKeeps, <1>1, <1>2, OnceKept, PTL DEF Spec

-----------------------------------------------------------------------------
\* No credential of a replaced password is left.

Early == {"dropToken", "revokeAll"}
Later == {"dropToken", "revokeAll", "dropSession"}

\* An address without an account has replaced no password.
Fresh == \A e \in Emails : Exists(e) \/ account[e].version = 0

\* The two halves of OldCredentialsGone, for one address.
TokensGone(e) ==
    \A t \in Mine(e) : token[t].version = account[e].version \/ Replacing(e, Early) \/ t \in late
SessionGone(e) == session[e] \in {Nobody, account[e].version} \/ Replacing(e, Later) \/ e \in late

LEMMA Halves == OldCredentialsGone <=> \A e \in Emails : TokensGone(e) /\ SessionGone(e)
BY DEF OldCredentialsGone, TokensGone, SessionGone, Early, Later

\* The request that is replacing a password is still doing so if no other one
\* moved, or if it moved on to a statement that counts.
LEMMA ReplacingKept ==
  ASSUME NEW w \in Workers, NEW S, NEW e,
         \A v \in Workers \ {w} : req'[v] = req[v],
         Replaced(w) /\ req[w].step \in S /\ req[w].owner = e
           => Replaced(w)' /\ req'[w].step \in S /\ req'[w].owner = e,
         Replacing(e, S)
  PROVE  Replacing(e, S)'
<1>1. PICK v \in Workers : Replaced(v) /\ req[v].owner = e /\ req[v].step \in S
  BY DEF Replacing
<1>2. CASE v = w
  BY <1>1, <1>2 DEF Replacing
<1>3. CASE v # w
  <2>1. req'[v] = req[v]
    BY <1>3
  <2>2. Replaced(v)' /\ req'[v].owner = e /\ req'[v].step \in S
    BY <1>1, <2>1 DEF Replaced
  <2>3. QED
    BY <2>2 DEF Replacing
<1>4. QED
  BY <1>2, <1>3

\* A step that draws or kills tokens: of those that were left, none is new.
LEMMA MineAfter ==
  ASSUME Typed, NEW e \in Emails, NEW t \in Tokens, t \in Mine(e)'
  PROVE  /\ \A ts : Kill(ts) => t \in Mine(e) /\ t \notin ts /\ token'[t] = token[t]
         /\ \A s \in Tokens, kind \in Kinds, a \in Emails, v \in Versions :
              New(s, kind, a, v) => \/ t \in Mine(e) /\ token'[t] = token[t]
                                    \/ t = s /\ kind = "refresh" /\ a = e /\ token'[t].version = v
         /\ token' = token => t \in Mine(e)
<1>1. token'[t].kind = "refresh" /\ token'[t].owner = e
  BY DEF Mine
<1>2. ASSUME NEW ts, Kill(ts)
      PROVE  t \in Mine(e) /\ t \notin ts /\ token'[t] = token[t]
  <2>1. token'[t] = IF t \in ts THEN [token[t] EXCEPT !.kind = "dead", !.version = 0] ELSE token[t]
    BY <1>2 DEF Kill
  <2>2. token[t] \in Token
    BY DEF Typed, TypeOK
  <2>3. t \notin ts
    BY <1>1, <2>1, <2>2 DEF Token
  <2>4. QED
    BY <1>1, <2>1, <2>3 DEF Mine
<1>3. ASSUME NEW s \in Tokens, NEW kind \in Kinds, NEW a \in Emails, NEW v \in Versions, New(s, kind, a, v)
      PROVE  \/ t \in Mine(e) /\ token'[t] = token[t]
             \/ t = s /\ kind = "refresh" /\ a = e /\ token'[t].version = v
  <2>1. CASE t = s
    <3>1. token'[t] = [kind |-> kind, owner |-> a, version |-> v]
      BY <1>3, <2>1 DEF New, Typed, TypeOK
    <3>2. QED
      BY <1>1, <2>1, <3>1
  <2>2. CASE t # s
    BY <1>1, <1>3, <2>2 DEF New, Mine, Typed, TypeOK
  <2>3. QED
    BY <2>1, <2>2
<1>4. ASSUME token' = token
      PROVE  t \in Mine(e)
  BY <1>1, <1>4 DEF Mine
<1>5. QED
  BY <1>2, <1>3, <1>4

\* A step that leaves the versions of the accounts alone, adds no outdated token or
\* session that is not late, and interrupts no replacement.
LEMMA QuietKeeps ==
  ASSUME Typed, NEW e \in Emails, TokensGone(e), SessionGone(e),
         account'[e].version = account[e].version,
         \A t \in Mine(e)' : \/ t \in Mine(e) /\ token'[t] = token[t]
                             \/ token'[t].version = account[e].version \/ t \in late',
         session'[e] \in {session[e], Nobody, account[e].version} \/ e \in late',
         late \cap Tokens \subseteq late',
         e \in late => e \in late' \/ session'[e] \in {Nobody, account[e].version},
         Replacing(e, Early) => Replacing(e, Early)' \/ Mine(e)' \subseteq late',
         Replacing(e, Later) => Replacing(e, Later)' \/ e \in late' \/ session'[e] = Nobody
  PROVE  TokensGone(e)' /\ SessionGone(e)'
<1>1. ASSUME NEW t \in Mine(e)'
      PROVE  token'[t].version = account'[e].version \/ Replacing(e, Early)' \/ t \in late'
  BY <1>1 DEF TokensGone, Mine
<1>2. TokensGone(e)'
  BY <1>1 DEF TokensGone
<1>3. SessionGone(e)'
  BY DEF SessionGone
<1>4. QED
  BY <1>2, <1>3

\* The account's versions are not the business of most steps.
LEMMA VersionsStay ==
  ASSUME Typed, Fresh, [Next]_vars, ~ \E w \in Workers : UpdatePassword(w)
  PROVE  \A e \in Emails : account'[e].version = account[e].version
<1>1. ASSUME NEW w \in Workers, NEW a \in Emails, Register(w, a)
      PROVE  \A e \in Emails : account'[e].version = account[e].version
  <2>1. PICK p \in Password :
          account' = [account EXCEPT ![a] = [password |-> Trim(p), verified |-> FALSE, version |-> 0]]
    BY <1>1 DEF Register
  <2>2. account[a].version = 0
    BY <1>1 DEF Register, Fresh
  <2>3. QED
    BY <2>1, <2>2 DEF Typed, TypeOK
<1>2. ASSUME NEW w \in Workers, MarkVerified(w)
      PROVE  \A e \in Emails : account'[e].version = account[e].version
  BY <1>2 DEF MarkVerified, Typed, TypeOK, Account
<1>3. QED
  BY <1>1, <1>2, AccountWriters

\* An address without an account keeps version 0: passwords are replaced where there is one.
LEMMA FreshKept == Typed /\ Fresh /\ [Next]_vars => Fresh'
<1> SUFFICES ASSUME Typed, Fresh, [Next]_vars, NEW e \in Emails, ~Exists(e)'
             PROVE  account'[e].version = 0
  BY DEF Fresh
<1>1. account'[e].password = Nobody
  BY DEF Exists
<1>2. ASSUME NEW w \in Workers, UpdatePassword(w)
      PROVE  account'[e].version = 0
  <2>1. req[w].owner \in Emails /\ req[w].password \in Password
    BY <1>2, RequestTyping DEF UpdatePassword, Fits
  <2>2. req[w].owner # e
    BY <1>1, <1>2, <2>1, NobodyOK DEF UpdatePassword, Typed, TypeOK, Account
  <2>3. account'[e] = account[e]
    BY <1>2, <2>1, <2>2 DEF UpdatePassword, Typed, TypeOK
  <2>4. QED
    BY <1>1, <2>3 DEF Fresh, Exists
<1>3. ASSUME ~ \E w \in Workers : UpdatePassword(w)
      PROVE  account'[e].version = 0
  <2>1. account'[e].version = account[e].version
    BY <1>3, VersionsStay
  <2>2. account[e].password = Nobody
    <3>1. ASSUME NEW w \in Workers, NEW a \in Emails, Register(w, a)
          PROVE  account[e].password = Nobody
      <4>1. PICK p \in Password :
              account' = [account EXCEPT ![a] = [password |-> Trim(p), verified |-> FALSE, version |-> 0]]
        BY <3>1 DEF Register
      <4>2. Trim(p) # Nobody
        BY NobodyOK DEF Trim, Password
      <4>3. a # e
        BY <1>1, <4>1, <4>2 DEF Typed, TypeOK
      <4>4. QED
        BY <1>1, <4>1, <4>3 DEF Typed, TypeOK
    <3>2. ASSUME NEW w \in Workers, MarkVerified(w)
          PROVE  account[e].password = Nobody
      BY <1>1, <3>2 DEF MarkVerified, Typed, TypeOK, Account
    <3>3. QED
      BY <1>1, <1>3, <3>1, <3>2, AccountWriters
  <2>3. QED
    BY <2>1, <2>2 DEF Fresh, Exists
<1>4. QED
  BY <1>2, <1>3

\* The beginnings: an idle worker was replacing nothing.
LEMMA ArriveGone ==
  ASSUME Typed, Fresh, NEW e \in Emails, TokensGone(e), SessionGone(e), NEW w \in Workers, Arrive(w)
  PROVE  TokensGone(e)' /\ SessionGone(e)'
<1>1. /\ ~Busy(w) /\ session' = session /\ late' = late
      /\ \A v \in Workers \ {w} : req'[v] = req[v]
  BY DEF Arrive, Register, Login, ChangePassword, RevokeAllSessions, Logout, RefreshToken, ResetPassword,
         VerifyEmail, Begin, Hold, ghosts, Typed, TypeOK
<1>2. ~Replaced(w)
  BY <1>1 DEF Replaced, Busy
<1>3. \A S : Replacing(e, S) => Replacing(e, S)'
  BY <1>1, <1>2, ReplacingKept
<1>4. account'[e].version = account[e].version
  <2>1. Next /\ ~ \E v \in Workers : UpdatePassword(v)
    <3>1. ASSUME NEW v \in Workers, UpdatePassword(v)
          PROVE  FALSE
      <4>1. v # w
        BY <1>1, <3>1 DEF UpdatePassword, Busy
      <4>2. req[v].step = "password" /\ req'[v].step # "password"
        BY <3>1, RequestTyping, Gone DEF UpdatePassword, Fits
      <4>3. QED
        BY <1>1, <4>1, <4>2
    <3>2. QED
      BY <3>1 DEF Next
  <2>2. QED
    BY <2>1, VersionsStay
<1>5. \A t \in Mine(e)' : t \in Mine(e) /\ token'[t] = token[t]
  <2>1. token' = token \/ \E ts : Kill(ts)
    BY DEF Arrive, Register, Login, ChangePassword, RevokeAllSessions, Logout, RefreshToken, ResetPassword,
           VerifyEmail, ghosts
  <2>2. ASSUME NEW t \in Mine(e)'
        PROVE  t \in Mine(e) /\ token'[t] = token[t]
    <3>1. t \in Tokens
      BY <2>2 DEF Mine
    <3>2. QED
      BY <2>1, <2>2, <3>1, MineAfter
  <2>3. QED
    BY <2>2
<1>6. QED
  BY <1>1, <1>3, <1>4, <1>5, QuietKeeps

\* The statements of requests that replace no password.
LEMMA PlainGone ==
  ASSUME Typed, NEW e \in Emails, TokensGone(e), SessionGone(e), NEW w \in Workers,
         \/ StoreVerify(w) \/ Revoke(w) \/ Issue(w) \/ StoreSession(w) \/ MarkVerified(w)
  PROVE  TokensGone(e)' /\ SessionGone(e)'
<1>1. ~Replaced(w) /\ Emails \cap Tokens = {}
  BY ConstantsOK DEF StoreVerify, Revoke, Issue, StoreSession, MarkVerified, Replaced
<1>2. /\ req[w].owner \in Emails /\ req[w].version \in Versions /\ 0 \in Versions
      /\ Fits(req[w])
  BY RequestTyping, ConstantsOK DEF Versions
<1>3. \A v \in Workers \ {w} : req'[v] = req[v]
  BY DEF StoreVerify, Revoke, Issue, StoreSession, MarkVerified, Goto, Finish, Typed, TypeOK
<1>4. \A S : Replacing(e, S) => Replacing(e, S)'
  BY <1>1, <1>3, ReplacingKept
<1>5. account'[e].version = account[e].version
  BY DEF StoreVerify, Revoke, Issue, StoreSession, MarkVerified, Typed, TypeOK, Account
<1>6. ASSUME NEW t \in Mine(e)'
      PROVE  \/ t \in Mine(e) /\ token'[t] = token[t]
             \/ token'[t].version = account[e].version \/ t \in late'
  <2>1. t \in Tokens
    BY <1>6 DEF Mine
  <2>2. CASE StoreVerify(w)
    <3>1. PICK s \in Tokens : New(s, "verify", req[w].owner, 0)
      BY <2>2 DEF StoreVerify
    <3>2. QED
      BY <1>2, <1>6, <2>1, <3>1, MineAfter DEF Kinds
  <2>3. CASE Revoke(w)
    BY <1>6, <2>1, <2>3, MineAfter DEF Revoke
  <2>4. CASE Issue(w)
    <3>1. PICK s \in Tokens : /\ New(s, "refresh", req[w].owner, req[w].version)
                              /\ late' = IF Outdated(w) THEN late \cup {s} ELSE late
      BY <2>4 DEF Issue
    <3>2. \/ t \in Mine(e) /\ token'[t] = token[t]
          \/ t = s /\ req[w].owner = e /\ token'[t].version = req[w].version
      BY <1>2, <1>6, <2>1, <3>1, MineAfter DEF Kinds
    <3>3. QED
      BY <3>1, <3>2 DEF Outdated
  <2>5. CASE StoreSession(w) \/ MarkVerified(w)
    BY <1>6, <2>1, <2>5, MineAfter DEF StoreSession, MarkVerified
  <2>6. QED
    BY <2>2, <2>3, <2>4, <2>5
<1>7. /\ session'[e] \in {session[e], Nobody, account[e].version} \/ e \in late'
      /\ late \cap Tokens \subseteq late'
      /\ e \in late => e \in late' \/ session'[e] \in {Nobody, account[e].version}
  <2>1. CASE StoreSession(w)
    BY <1>1, <1>2, <2>1 DEF StoreSession, Outdated, Typed, TypeOK
  <2>2. CASE Issue(w)
    BY <2>2 DEF Issue
  <2>3. CASE StoreVerify(w) \/ Revoke(w) \/ MarkVerified(w)
    BY <2>3 DEF StoreVerify, Revoke, MarkVerified, ghosts
  <2>4. QED
    BY <2>1, <2>2, <2>3
<1>8. QED
  BY <1>4, <1>5, <1>6, <1>7, QuietKeeps

\* The replacement itself: its request is on its way to what is outdated now.
LEMMA UpdateGone ==
  ASSUME Typed, NEW e \in Emails, TokensGone(e), SessionGone(e), NEW w \in Workers, UpdatePassword(w)
  PROVE  TokensGone(e)' /\ SessionGone(e)'
<1>1. /\ req[w].owner \in Emails /\ Fits(req[w]) /\ req[w].step = "password"
      /\ req[w].op \in {"reset", "change"}
      /\ token' = token /\ session' = session /\ late' = late
  BY RequestTyping DEF UpdatePassword, Fits
<1>2. /\ req'[w].step \in {"dropToken", "revokeAll"}
      /\ req'[w].op = req[w].op /\ req'[w].owner = req[w].owner
      /\ \A v \in Workers \ {w} : req'[v] = req[v]
  <2>1. CASE Goto(w, "dropToken") /\ req[w].op = "reset"
    BY <2>1, Gone
  <2>2. CASE Goto(w, "revokeAll")
    BY <1>1, <2>2, Gone
  <2>3. QED
    BY <2>1, <2>2 DEF UpdatePassword
<1>3. CASE req[w].owner = e
  <2>1. Replaced(w)' /\ req'[w].owner = e /\ req'[w].step \in Early
    BY <1>1, <1>2, <1>3 DEF Replaced, Early
  <2>2. Replacing(e, Early)' /\ Replacing(e, Later)'
    BY <2>1 DEF Replacing, Early, Later
  <2>3. QED
    BY <2>2 DEF TokensGone, SessionGone
<1>4. CASE req[w].owner # e
  <2>1. account'[e].version = account[e].version
    BY <1>1, <1>4 DEF UpdatePassword, Typed, TypeOK
  <2>2. ~Replaced(w)
    BY <1>1 DEF Replaced
  <2>3. \A S : Replacing(e, S) => Replacing(e, S)'
    BY <1>2, <2>2, ReplacingKept
  <2>4. \A t \in Mine(e)' : t \in Mine(e) /\ token'[t] = token[t]
    BY <1>1 DEF Mine
  <2>5. QED
    BY <1>1, <2>1, <2>3, <2>4, QuietKeeps
<1>5. QED
  BY <1>3, <1>4

\* The statements on the way to what is outdated.
LEMMA RevocationGone ==
  ASSUME Typed, NEW e \in Emails, TokensGone(e), SessionGone(e), NEW w \in Workers,
         DropToken(w) \/ RevokeAll(w) \/ DropSession(w)
  PROVE  TokensGone(e)' /\ SessionGone(e)'
<1>1. /\ req[w].owner \in Emails /\ Fits(req[w]) /\ Emails \cap Tokens = {}
      /\ account' = account
  BY RequestTyping, ConstantsOK DEF DropToken, RevokeAll, DropSession
<1>2. \A v \in Workers \ {w} : req'[v] = req[v]
  BY DEF DropToken, RevokeAll, DropSession, Goto, Finish, Typed, TypeOK
<1>3. CASE DropToken(w)
  <2>1. Replaced(w) => /\ req'[w].step = "revokeAll" /\ req'[w].op = req[w].op
                       /\ req'[w].owner = req[w].owner
    BY <1>1, <1>3, Gone DEF DropToken, Replaced, Fits
  <2>2. Replaced(w) => Replaced(w)' /\ req'[w].owner = req[w].owner /\ req'[w].step \in Early \cap Later
    BY <2>1 DEF Replaced, Early, Later
  <2>3. /\ Replacing(e, Early) => Replacing(e, Early)'
        /\ Replacing(e, Later) => Replacing(e, Later)'
    BY <1>2, <2>2, ReplacingKept
  <2>4. \A t \in Mine(e)' : t \in Mine(e) /\ token'[t] = token[t]
    BY <1>3, MineAfter DEF DropToken, Mine
  <2>5. session' = session /\ late' = late
    BY <1>3 DEF DropToken, ghosts
  <2>6. QED
    BY <1>1, <2>3, <2>4, <2>5, QuietKeeps
<1>4. CASE RevokeAll(w)
  <2>1. /\ req'[w].step = "dropSession" /\ req'[w].op = req[w].op /\ req'[w].owner = req[w].owner
        /\ session' = session /\ late' = late
    BY <1>4, Gone DEF RevokeAll, ghosts
  <2>2. Replaced(w) => Replaced(w)' /\ req'[w].owner = req[w].owner /\ req'[w].step \in Later
    BY <2>1 DEF Replaced, Later
  <2>3. Replacing(e, Later) => Replacing(e, Later)'
    BY <1>2, <2>2, ReplacingKept
  <2>4. \A t \in Mine(e)' : t \in Mine(e) /\ t \notin Mine(req[w].owner) /\ token'[t] = token[t]
    BY <1>4, MineAfter DEF RevokeAll, Mine
  <2>5. Replacing(e, Early) => Replacing(e, Early)' \/ Mine(e)' \subseteq late'
    <3>1. CASE req[w].owner = e
      BY <2>4, <3>1
    <3>2. CASE req[w].owner # e
      BY <1>2, <3>2, ReplacingKept
    <3>3. QED
      BY <3>1, <3>2
  <2>6. QED
    BY <1>1, <2>1, <2>3, <2>4, <2>5, QuietKeeps
<1>5. CASE DropSession(w)
  <2>1. req[w].step = "dropSession" /\ token' = token
    BY <1>5 DEF DropSession
  <2>2. Replacing(e, Early) => Replacing(e, Early)'
    BY <1>2, <2>1, ReplacingKept DEF Early
  <2>3. /\ req[w].owner = e => session'[e] = Nobody
        /\ req[w].owner # e => session'[e] = session[e] /\ (e \in late => e \in late')
        /\ late \cap Tokens \subseteq late'
    BY <1>1, <1>5 DEF DropSession, Typed, TypeOK
  <2>4. Replacing(e, Later) => Replacing(e, Later)' \/ session'[e] = Nobody
    <3>1. CASE req[w].owner = e
      BY <2>3, <3>1
    <3>2. CASE req[w].owner # e
      BY <1>2, <3>2, ReplacingKept
    <3>3. QED
      BY <3>1, <3>2
  <2>5. \A t \in Mine(e)' : t \in Mine(e) /\ token'[t] = token[t]
    BY <2>1 DEF Mine
  <2>6. QED
    BY <1>1, <2>2, <2>3, <2>4, <2>5, QuietKeeps
<1>6. QED
  BY <1>3, <1>4, <1>5

\* Errors: what a replacement did not get to is late.
LEMMA FailGone ==
  ASSUME Typed, NEW e \in Emails, TokensGone(e), SessionGone(e), NEW w \in Workers, FailOn(w) \/ Stop(w)
  PROVE  TokensGone(e)' /\ SessionGone(e)'
<1>1. /\ account' = account /\ token' = token /\ session' = session /\ late \subseteq late'
  BY DEF FailOn, Stop
<1>2. \A v \in Workers \ {w} : req'[v] = req[v]
  BY DEF FailOn, Stop, Goto, Finish, Typed, TypeOK
<1>3. Mine(e)' = Mine(e)
  BY <1>1 DEF Mine
<1>4. \A S : ~Replaced(w) \/ req[w].owner # e => (Replacing(e, S) => Replacing(e, S)')
  BY <1>2, ReplacingKept
<1>5. ASSUME Replaced(w), req[w].owner = e
      PROVE  /\ Replacing(e, Early) => Replacing(e, Early)' \/ Mine(e)' \subseteq late'
             /\ Replacing(e, Later) => Replacing(e, Later)' \/ e \in late'
  <2>1. CASE FailOn(w)
    <3>1. /\ req'[w].op = req[w].op /\ req'[w].owner = req[w].owner
          /\ \/ req[w].step = "dropToken" /\ req'[w].step = "revokeAll"
             \/ req[w].step = "revokeAll" /\ req'[w].step = "dropSession" /\ late' = late \cup Mine(e)
      BY <1>5, <2>1, Gone DEF FailOn
    <3>2. Replaced(w)' /\ req'[w].step \in Later
      BY <1>5, <3>1 DEF Replaced, Later
    <3>3. Replacing(e, Later) => Replacing(e, Later)'
      BY <1>2, <1>5, <3>1, <3>2, ReplacingKept
    <3>4. CASE req'[w].step = "revokeAll"
      <4>1. Replacing(e, Early) => Replacing(e, Early)'
        BY <1>2, <1>5, <3>1, <3>2, <3>4, ReplacingKept DEF Early
      <4>2. QED
        BY <3>3, <4>1
    <3>5. CASE late' = late \cup Mine(e)
      BY <1>3, <3>3, <3>5
    <3>6. QED
      BY <3>1, <3>4, <3>5
  <2>2. CASE Stop(w) /\ req[w].step = "dropSession"
    <3>1. e \in late'
      BY <1>5, <2>2 DEF Stop
    <3>2. Replacing(e, Early) => Replacing(e, Early)'
      BY <1>2, <2>2, ReplacingKept DEF Early
    <3>3. QED
      BY <3>1, <3>2
  <2>3. CASE Stop(w) /\ req[w].step # "dropSession"
    BY <1>3, <1>5, <2>3 DEF Stop
  <2>4. QED
    BY <2>1, <2>2, <2>3
<1>6. /\ Replacing(e, Early) => Replacing(e, Early)' \/ Mine(e)' \subseteq late'
      /\ Replacing(e, Later) => Replacing(e, Later)' \/ e \in late'
  BY <1>4, <1>5
<1>7. QED
  BY <1>1, <1>3, <1>6, QuietKeeps

\* The steps of no worker.
LEMMA OutsideGone ==
  ASSUME Typed, NEW e \in Emails, TokensGone(e), SessionGone(e),
         \/ \E a \in Emails : ForgotPassword(a) \/ ExpireSession(a)
         \/ \E t \in Tokens : Expire(t)
  PROVE  TokensGone(e)' /\ SessionGone(e)'
<1>1. account' = account /\ req' = req /\ late' = late /\ 0 \in Versions
  <2>1. UNCHANGED <<account, req, ghosts>>
    BY DEF ForgotPassword, ExpireSession, Expire
  <2>2. QED
    BY <2>1, ConstantsOK DEF ghosts, Versions
<1>2. session'[e] \in {session[e], Nobody}
  BY DEF ForgotPassword, ExpireSession, Expire, Typed, TypeOK
<1>3. \A S : Replacing(e, S) => Replacing(e, S)'
  BY <1>1 DEF Replacing, Replaced
<1>4. ASSUME NEW t \in Mine(e)'
      PROVE  t \in Mine(e) /\ token'[t] = token[t]
  <2>1. t \in Tokens
    BY <1>4 DEF Mine
  <2>2. CASE \E a \in Emails : ForgotPassword(a)
    <3>1. PICK a \in Emails, s \in Tokens : New(s, "reset", a, 0)
      BY <2>2 DEF ForgotPassword
    <3>2. QED
      BY <1>1, <1>4, <2>1, <3>1, MineAfter DEF Kinds
  <2>3. CASE \E a \in Emails : ExpireSession(a)
    BY <1>4, <2>1, <2>3, MineAfter DEF ExpireSession
  <2>4. CASE \E s \in Tokens : Expire(s)
    BY <1>4, <2>1, <2>4, MineAfter DEF Expire
  <2>5. QED
    BY <2>2, <2>3, <2>4
<1>5. QED
  BY <1>1, <1>2, <1>3, <1>4, QuietKeeps

LEMMA GoneKept == Typed /\ Fresh /\ OldCredentialsGone /\ [Next]_vars => OldCredentialsGone'
<1> SUFFICES ASSUME Typed, Fresh, OldCredentialsGone, [Next]_vars
             PROVE  OldCredentialsGone'
  OBVIOUS
<1>1. ASSUME NEW e \in Emails
      PROVE  TokensGone(e)' /\ SessionGone(e)'
  <2>1. TokensGone(e) /\ SessionGone(e)
    BY Halves
  <2>2. CASE \E w \in Workers : Arrive(w)
    BY <2>1, <2>2, ArriveGone
  <2>3. CASE \E w \in Workers : Continue(w)
    BY <2>1, <2>3, PlainGone, UpdateGone, RevocationGone DEF Continue
  <2>4. CASE \E w \in Workers : FailOn(w) \/ Stop(w)
    BY <2>1, <2>4, FailGone
  <2>5. CASE \/ \E a \in Emails : ForgotPassword(a) \/ ExpireSession(a)
             \/ \E t \in Tokens : Expire(t)
    BY <2>1, <2>5, OutsideGone
  <2>6. CASE UNCHANGED vars
    BY <2>1, <2>6 DEF vars, TokensGone, SessionGone, Mine, Replacing, Replaced
  <2>7. QED
    BY <2>2, <2>3, <2>4, <2>5, <2>6 DEF Next
<1>2. QED
  BY <1>1 DEF OldCredentialsGone, TokensGone, SessionGone, Early, Later

\* When a password has been replaced (ResetPassword, ChangePassword), no refresh
\* token and no session of an earlier one is left, except while the request that
\* replaced it is on its way to them, or stored late, or spared by a failure.
THEOREM OldGone == Spec => []OldCredentialsGone
<1>1. ASSUME Init PROVE Fresh /\ OldCredentialsGone
  <2>1. Fresh
    BY <1>1 DEF Init, Fresh
  <2>2. \A e \in Emails : Mine(e) = {} /\ session[e] = Nobody
    BY <1>1 DEF Init, Mine
  <2>3. QED
    BY <2>1, <2>2 DEF OldCredentialsGone
<1>2. Typed /\ (Fresh /\ OldCredentialsGone) /\ [Next]_vars => (Fresh /\ OldCredentialsGone)'
  BY FreshKept, GoneKept
<1>3. QED
  BY InitTyped, NextKeeps, <1>1, <1>2, PTL DEF Spec
=============================================================================
