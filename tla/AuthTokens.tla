------------------------------- MODULE AuthTokens -------------------------------
(***************************************************************************)
(* auth-service: accounts and refresh tokens in Postgres; verification     *)
(* tokens, reset tokens and the session in Redis.  A handler of            *)
(* internal/service/auth_service.go is a chain of statements and commands  *)
(* with no transaction around them, and many of their errors are dropped.  *)
(* One action here is one of them, with the code up to the next.           *)
(*                                                                         *)
(* Not here: e-mails; the access token, which is checked against a key and *)
(* the clock alone; `is_active`, which is TRUE from the INSERT on, for     *)
(* nothing calls SetActive; the requests' form, checked before any of it.  *)
(***************************************************************************)
EXTENDS Naturals

CONSTANTS Emails,     \* addresses accounts are registered under
          Words,      \* what a password can be, outer blanks aside
          Tokens,     \* what uuid.New() hands out, each once
          Workers,    \* requests the server can be serving at one time
          Nobody,     \* no password, no session, no token
          MaxVersion  \* bound: how often a password is replaced

ASSUME ConstantsOK == /\ MaxVersion \in Nat /\ Emails # {} /\ Emails \cap Tokens = {}
                      /\ Nobody \notin Nat \cup Tokens

VARIABLES account,  \* auth_users
          token,    \* refresh_tokens, and the keys verify:... and reset:...
          session,  \* the keys auth:session:..., by the password version behind them
          req,      \* what each worker is doing
          chosen,   \* the password each owner set last, as typed (ghost)
          uses,     \* how often a token has done what it is for, 2 for more than once (ghost)
          spared,   \* tokens two requests held, or whose removal failed (ghost)
          late      \* tokens, and e-mails of sessions, stored when their password was
                    \* replaced already, or spared by a failing revocation (ghost)

vars == <<account, token, session, req, chosen, uses, spared, late>>
ghosts == <<chosen, uses, spared, late>>

-----------------------------------------------------------------------------

\* A password as typed; strings.TrimSpace takes the blanks around it away.
Password == [word : Words, padded : BOOLEAN]
Trim(p) == [p EXCEPT !.padded = FALSE]

ASSUME NobodyOK == Nobody \notin Password

Versions == 0 .. MaxVersion
Account == [password : Password \cup {Nobody}, verified : BOOLEAN, version : Versions]

\* "dead" is revoked, deleted or expired: none of the lookups tells them apart.
\* version: of the password that was checked for the token, or for its ancestor, while it lives.
Kinds == {"free", "dead", "refresh", "reset", "verify"}
Token == [kind : Kinds, owner : Emails, version : Versions]

\* Where a handler stands: before which statement.
Steps == {"idle", "storeVerify", "revoke", "issue", "session",
          "password", "dropToken", "revokeAll", "dropSession", "verified"}
Ops == {"register", "login", "refresh", "logout", "verify", "reset", "change", "revoke"}
Request == [step : Steps, op : Ops, owner : Emails, version : Versions,
            token : Tokens \cup {Nobody}, password : Password \cup {Nobody}]

Idle == [step |-> "idle", op |-> "login", owner |-> CHOOSE e \in Emails : TRUE,
         version |-> 0, token |-> Nobody, password |-> Nobody]

TypeOK == /\ account \in [Emails -> Account]
          /\ token \in [Tokens -> Token]
          /\ session \in [Emails -> Versions \cup {Nobody}]
          /\ req \in [Workers -> Request]
          /\ chosen \in [Emails -> Password \cup {Nobody}]
          /\ uses \in [Tokens -> 0 .. 2]
          /\ spared \subseteq Tokens
          /\ late \subseteq Tokens \cup Emails

Exists(e) == account[e].password # Nobody
Busy(w) == req[w].step # "idle"

-----------------------------------------------------------------------------
\* Steps the handlers share.

Begin(w, step, op, e, version, t, password) ==
    /\ ~Busy(w)
    /\ req' = [req EXCEPT ![w] = [step |-> step, op |-> op, owner |-> e, version |-> version,
                                  token |-> t, password |-> password]]

Goto(w, step) == req' = [req EXCEPT ![w].step = step]
Finish(w) == req' = [req EXCEPT ![w] = Idle]

\* A lookup has found token t: it is spared if another request has it in hand.
Hold(w, t) == /\ spared' = IF \E v \in Workers \ {w} : Busy(v) /\ req[v].token = t
                           THEN spared \cup {t} ELSE spared
              /\ UNCHANGED <<chosen, uses, late>>

New(t, kind, e, version) ==
    /\ token[t].kind = "free"
    /\ token' = [token EXCEPT ![t] = [kind |-> kind, owner |-> e, version |-> version]]

Kill(ts) == token' = [t \in Tokens |-> IF t \in ts THEN [token[t] EXCEPT !.kind = "dead", !.version = 0] ELSE token[t]]

Count(t) == uses' = [uses EXCEPT ![t] = IF @ = 0 THEN 1 ELSE 2]

Mine(e) == {t \in Tokens : token[t].kind = "refresh" /\ token[t].owner = e}
Outdated(w) == req[w].version # account[req[w].owner].version

-----------------------------------------------------------------------------
\* Register: the INSERT, on which a second account of the address fails; then the
\* verification token and the e-mail, whose errors are dropped.

\* Mutation: the password is hashed as typed.
RegisterAsTyped(w, e) ==
    /\ ~Exists(e)
    /\ \E p \in Password :
         /\ account' = [account EXCEPT ![e] = [password |-> p, verified |-> FALSE, version |-> 0]]
         /\ chosen' = [chosen EXCEPT ![e] = p]
    /\ Begin(w, "storeVerify", "register", e, 0, Nobody, Nobody)
    /\ UNCHANGED <<token, session, uses, spared, late>>

Register(w, e) ==
    /\ ~Exists(e)
    /\ \E p \in Password :
         /\ account' = [account EXCEPT ![e] = [password |-> Trim(p), verified |-> FALSE, version |-> 0]]
         /\ chosen' = [chosen EXCEPT ![e] = p]
    /\ Begin(w, "storeVerify", "register", e, 0, Nobody, Nobody)
    /\ UNCHANGED <<token, session, uses, spared, late>>

StoreVerify(w) == /\ req[w].step = "storeVerify"
                  /\ \E t \in Tokens : New(t, "verify", req[w].owner, 0)
                  /\ Finish(w)
                  /\ UNCHANGED <<account, session, ghosts>>

\* Login: both sides trim, the account's password as it was stored.
Login(w, e) == /\ \E p \in Password : account[e].password = Trim(p)
               /\ Begin(w, "issue", "login", e, account[e].version, Nobody, Nobody)
               /\ UNCHANGED <<account, token, session, ghosts>>

\* RefreshToken: found, not revoked, not expired; revoked; replaced.

\* Mutation: the token is exchanged and left alone.
RefreshTokenKept(w, t) ==
    /\ token[t].kind = "refresh"
    /\ Begin(w, "issue", "refresh", token[t].owner, token[t].version, t, Nobody)
    /\ Hold(w, t)
    /\ UNCHANGED <<account, token, session>>

RefreshToken(w, t) ==
    /\ token[t].kind = "refresh"
    /\ Begin(w, "revoke", "refresh", token[t].owner, token[t].version, t, Nobody)
    /\ Hold(w, t)
    /\ UNCHANGED <<account, token, session>>

\* The UPDATE succeeds whether or not it revoked anything.
Revoke(w) == /\ req[w].step = "revoke"
             /\ Kill({req[w].token})
             /\ Goto(w, "issue")
             /\ UNCHANGED <<account, session, ghosts>>

\* issueTokenPair; a login goes on to the session.
Issue(w) == /\ req[w].step = "issue"
            /\ \E t \in Tokens : /\ New(t, "refresh", req[w].owner, req[w].version)
                                /\ late' = IF Outdated(w) THEN late \cup {t} ELSE late
            /\ IF req[w].op = "login" THEN Goto(w, "session") /\ UNCHANGED uses
                                      ELSE Finish(w) /\ Count(req[w].token)
            /\ UNCHANGED <<account, session, chosen, spared>>

StoreSession(w) == LET e == req[w].owner
                   IN  /\ req[w].step = "session"
                       /\ session' = [session EXCEPT ![e] = req[w].version]
                       /\ late' = IF Outdated(w) THEN late \cup {e} ELSE late \ {e}
                       /\ Finish(w)
                       /\ UNCHANGED <<account, token, chosen, uses, spared>>

\* Logout: any token, known or not; then the session of the user the request names.
Logout(w, t, e) ==
    /\ Kill({t} \cap {s \in Tokens : token[s].kind = "refresh"})
    /\ Begin(w, "dropSession", "logout", e, 0, Nobody, Nobody)
    /\ UNCHANGED <<account, session, ghosts>>

\* ForgotPassword: one SET for an address that has an account.
ForgotPassword(e) ==
    /\ Exists(e)
    /\ \E t \in Tokens : New(t, "reset", e, 0)
    /\ UNCHANGED <<account, session, req, ghosts>>

\* ResetPassword and ChangePassword: the password is stored as typed.
ResetPassword(w, t) ==
    /\ token[t].kind = "reset"
    /\ \E p \in Password : Begin(w, "password", "reset", token[t].owner, 0, t, p)
    /\ Hold(w, t)
    /\ UNCHANGED <<account, token, session>>

ChangePassword(w, e) ==
    /\ Exists(e)
    /\ \E p \in Password : Begin(w, "password", "change", e, 0, Nobody, p)
    /\ UNCHANGED <<account, token, session, ghosts>>

UpdatePassword(w) ==
    LET e == req[w].owner
    IN  /\ req[w].step = "password"
        /\ account[e].version < MaxVersion
        /\ account' = [account EXCEPT ![e].password = req[w].password, ![e].version = @ + 1]
        /\ chosen' = [chosen EXCEPT ![e] = req[w].password]
        /\ IF req[w].op = "reset" THEN Count(req[w].token) /\ Goto(w, "dropToken")
                                  ELSE UNCHANGED uses /\ Goto(w, "revokeAll")
        /\ UNCHANGED <<token, session, spared, late>>

\* DEL of the reset or verification token; user-service, told of a verification under
\* the account's id, has no row of that id.
DropToken(w) ==
    /\ req[w].step = "dropToken"
    /\ Kill({req[w].token})
    /\ IF req[w].op = "reset" THEN Goto(w, "revokeAll") ELSE Finish(w)
    /\ UNCHANGED <<account, session, ghosts>>

RevokeAllSessions(w, e) ==
    /\ Exists(e)
    /\ Begin(w, "revokeAll", "revoke", e, 0, Nobody, Nobody)
    /\ UNCHANGED <<account, token, session, ghosts>>

\* Mutation: a change of password revokes nothing.
RevokeAllSkipped(w) ==
    /\ req[w].step = "revokeAll"
    /\ Goto(w, "dropSession")
    /\ UNCHANGED <<account, token, session, ghosts>>

RevokeAll(w) ==
    /\ req[w].step = "revokeAll"
    /\ Kill(Mine(req[w].owner))
    /\ Goto(w, "dropSession")
    /\ UNCHANGED <<account, session, ghosts>>

DropSession(w) ==
    /\ req[w].step = "dropSession"
    /\ session' = [session EXCEPT ![req[w].owner] = Nobody]
    /\ late' = late \ {req[w].owner}
    /\ Finish(w)
    /\ UNCHANGED <<account, token, chosen, uses, spared>>

VerifyEmail(w, t) ==
    /\ token[t].kind = "verify"
    /\ Begin(w, "verified", "verify", token[t].owner, 0, t, Nobody)
    /\ Hold(w, t)
    /\ UNCHANGED <<account, token, session>>

MarkVerified(w) == /\ req[w].step = "verified"
                   /\ account' = [account EXCEPT ![req[w].owner].verified = TRUE]
                   /\ Count(req[w].token)
                   /\ Goto(w, "dropToken")
                   /\ UNCHANGED <<token, session, chosen, spared, late>>

-----------------------------------------------------------------------------
\* The environment: failing statements, a dying process, lifetimes.

\* Errors that are dropped: a reset or a change goes on to what is left of it.
FailOn(w) ==
    /\ \/ /\ req[w].step = "dropToken" /\ req[w].op = "reset"
          /\ Goto(w, "revokeAll")
          /\ spared' = spared \cup {req[w].token}
          /\ UNCHANGED late
       \/ /\ req[w].step = "revokeAll" /\ req[w].op # "revoke"
          /\ Goto(w, "dropSession")
          /\ late' = late \cup Mine(req[w].owner)
          /\ UNCHANGED spared
    /\ UNCHANGED <<account, token, session, chosen, uses>>

Replaced(w) == /\ req[w].op \in {"reset", "change"}
               /\ req[w].step \in {"dropToken", "revokeAll", "dropSession"}

\* Errors that are returned, and those of a last statement; the process dies.
Stop(w) ==
    /\ Busy(w)
    /\ Finish(w)
    /\ spared' = IF req[w].step = "dropToken" THEN spared \cup {req[w].token} ELSE spared
    /\ late' = CASE ~Replaced(w) -> late
                 [] Replaced(w) /\ req[w].step = "dropSession" -> late \cup {req[w].owner}
                 [] OTHER -> late \cup Mine(req[w].owner) \cup {req[w].owner}
    /\ UNCHANGED <<account, token, session, chosen, uses>>

\* A token or a session lives its time out.
Expire(t) == /\ token[t].kind \in {"refresh", "reset", "verify"}
             /\ Kill({t})
             /\ UNCHANGED <<account, session, req, ghosts>>

ExpireSession(e) == /\ session[e] # Nobody
                    /\ session' = [session EXCEPT ![e] = Nobody]
                    /\ UNCHANGED <<account, token, req, ghosts>>

-----------------------------------------------------------------------------

Init == /\ account = [e \in Emails |-> [password |-> Nobody, verified |-> FALSE, version |-> 0]]
        /\ token = [t \in Tokens |-> [kind |-> "free", owner |-> CHOOSE e \in Emails : TRUE, version |-> 0]]
        /\ session = [e \in Emails |-> Nobody]
        /\ req = [w \in Workers |-> Idle]
        /\ chosen = [e \in Emails |-> Nobody]
        /\ uses = [t \in Tokens |-> 0]
        /\ spared = {} /\ late = {}

Arrive(w) == \/ \E e \in Emails : \/ Register(w, e) \/ Login(w, e) \/ ChangePassword(w, e)
                                  \/ RevokeAllSessions(w, e)
                                  \/ \E t \in Tokens : Logout(w, t, e)
             \/ \E t \in Tokens : RefreshToken(w, t) \/ ResetPassword(w, t) \/ VerifyEmail(w, t)

Continue(w) == \/ StoreVerify(w) \/ Revoke(w) \/ Issue(w) \/ StoreSession(w)
               \/ UpdatePassword(w) \/ DropToken(w) \/ RevokeAll(w) \/ DropSession(w)
               \/ MarkVerified(w)

Next == \/ \E w \in Workers : Arrive(w) \/ Continue(w) \/ FailOn(w) \/ Stop(w)
        \/ \E e \in Emails : ForgotPassword(e) \/ ExpireSession(e)
        \/ \E t \in Tokens : Expire(t)

Spec == Init /\ [][Next]_vars

-----------------------------------------------------------------------------
\* Properties.

\* A refresh token is exchanged once, a reset or verification token does its work
\* once, unless two requests found it at the same time or its removal failed.
TokensWorkOnce == \A t \in Tokens : uses[t] <= 1 \/ t \in spared

Replacing(e, steps) == \E w \in Workers : Replaced(w) /\ req[w].owner = e /\ req[w].step \in steps

\* When a password has been replaced, no refresh token and no session that goes
\* back to an earlier one is left, except while the request that replaced it is on
\* its way to them, or when one was stored only afterwards by a request that had
\* been under way, or when the revocation failed.
OldCredentialsGone ==
    \A e \in Emails :
        /\ \A t \in Mine(e) : \/ token[t].version = account[e].version
                              \/ Replacing(e, {"dropToken", "revokeAll"})
                              \/ t \in late
        /\ \/ session[e] \in {Nobody, account[e].version}
           \/ Replacing(e, {"dropToken", "revokeAll", "dropSession"})
           \/ e \in late

\* What an owner typed on registering opens the account, blanks and all; what was
\* typed on a later change does so unless it has blanks around it.
ChosenPasswordOpens ==
    \A e \in Emails : Exists(e) => \/ account[e].password = Trim(chosen[e])
                                   \/ account[e].version > 0 /\ chosen[e].padded
=============================================================================
