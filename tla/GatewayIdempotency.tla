-------------------------- MODULE GatewayIdempotency --------------------------
(***************************************************************************)
(* api-gateway: IdempotencyMiddleware (internal/middleware/idempotency.go) *)
(* in front of the handlers that call the services.  Each member of        *)
(* Requests is one POST, PATCH or PUT; a retry is another member that      *)
(* carries the same key.                                                   *)
(*                                                                         *)
(* An answer is the number of the backend call it came from, and its       *)
(* status.  All handlers answer a JSON object, which is what the           *)
(* middleware can read back.  The key `...:processing` is written and      *)
(* deleted and never read, so it is no part of the state.                  *)
(***************************************************************************)
EXTENDS Naturals, FiniteSets

CONSTANTS Requests,  \* the mutating HTTP requests clients send
          Keys,      \* values of the Idempotency-Key header
          Faults     \* what may go wrong: a subset of AllFaults

AllFaults == {"redis", "torn", "crash", "expiry"}

ASSUME FaultsOK == Faults \subseteq AllFaults

VARIABLES phase,    \* where the gateway is with each request
          key,      \* the key each request carries
          stored,   \* the answers in Redis, per key
          answer,   \* the answer each client has got
          effects,  \* backend calls that changed something, per key (ghost)
          sound,    \* backend calls that answered 2xx, per key (ghost)
          excused   \* why a key may have taken effect twice (ghost)

vars == <<phase, key, stored, answer, effects, sound, excused>>

-----------------------------------------------------------------------------

Phases == {"new", "look", "call", "store", "done"}
Statuses == {0, 200, 201, 400, 500}
Reasons == AllFaults \cup {"overlap"}

\* An answer: its status, 0 for none yet; the backend call it is from, 0 for none;
\* and whether the handler gave it or it was read back from Redis.
None == [status |-> 0, call |-> 0, from |-> "handler"]
Answer == [status : Statuses, call : Nat, from : {"handler", "redis"}]

TypeOK == /\ phase \in [Requests -> Phases]
          /\ key \in [Requests -> Keys]
          /\ stored \in [Keys -> Answer]
          /\ answer \in [Requests -> Answer]
          /\ effects \in [Keys -> Nat]
          /\ sound \in [Keys -> SUBSET Nat]
          /\ excused \in [Keys -> SUBSET Reasons]

\* Request r has found nothing stored for k and has yet to store its answer.
Working(r, k) == key[r] = k /\ phase[r] \in {"call", "store"}

Excuse(k, reasons) == excused' = [excused EXCEPT ![k] = @ \cup reasons]
Goto(r, p) == phase' = [phase EXCEPT ![r] = p]
Reply(r, status, call, from) ==
    answer' = [answer EXCEPT ![r] = [status |-> status, call |-> call, from |-> from]]

-----------------------------------------------------------------------------

\* A request arrives with the key its client chose.
Arrive(r) == /\ phase[r] = "new"
             /\ \E k \in Keys : key' = [key EXCEPT ![r] = k]
             /\ Goto(r, "look")
             /\ UNCHANGED <<stored, answer, effects, sound, excused>>

\* A request without the header is refused.
Refuse(r) == /\ phase[r] = "new"
             /\ Goto(r, "done")
             /\ Reply(r, 400, 0, "handler")
             /\ UNCHANGED <<key, stored, effects, sound, excused>>

\* GET of the key finds an answer: its body is sent again, with status 200.
Hit(r) == /\ phase[r] = "look"
          /\ stored[key[r]] # None
          /\ Goto(r, "done")
          /\ Reply(r, 200, stored[key[r]].call, "redis")
          /\ UNCHANGED <<key, stored, effects, sound, excused>>

\* GET finds nothing or fails; the request goes on to the handler either way.
Miss(r) ==
    /\ phase[r] = "look"
    /\ \/ stored[key[r]] = None /\ LET others == {q \in Requests : Working(q, key[r])}
                                   IN  Excuse(key[r], IF others = {} THEN {} ELSE {"overlap"})
       \/ "redis" \in Faults /\ Excuse(key[r], {"redis"})
    /\ Goto(r, "call")
    /\ UNCHANGED <<key, stored, answer, effects, sound>>

\* The handler's call succeeds; the client sees the answer.
Succeed(r) ==
    /\ phase[r] = "call"
    /\ effects' = [effects EXCEPT ![key[r]] = @ + 1]
    /\ sound' = [sound EXCEPT ![key[r]] = @ \cup {effects'[key[r]]}]
    /\ \E status \in {200, 201} : Reply(r, status, effects'[key[r]], "handler")
    /\ Goto(r, "store")
    /\ UNCHANGED <<key, stored, excused>>

\* The service refuses the call, or cannot be reached: an error, and no effect.
Reject(r) == /\ phase[r] = "call"
             /\ \E status \in {400, 500} : Reply(r, status, 0, "handler")
             /\ Goto(r, "done")
             /\ UNCHANGED <<key, stored, effects, sound, excused>>

\* Mutation: answers are stored whatever their status.
TornStored(r) == /\ "torn" \in Faults
                 /\ phase[r] = "call"
                 /\ effects' = [effects EXCEPT ![key[r]] = @ + 1]
                 /\ Reply(r, 500, effects'[key[r]], "handler")
                 /\ Excuse(key[r], {"torn"})
                 /\ Goto(r, "store")
                 /\ UNCHANGED <<key, stored, sound>>

\* The call takes effect and yet answers an error: a later statement of the
\* handler failed (DocumentService's Fail), or the answer was lost.
Torn(r) == /\ "torn" \in Faults
           /\ phase[r] = "call"
           /\ effects' = [effects EXCEPT ![key[r]] = @ + 1]
           /\ Reply(r, 500, effects'[key[r]], "handler")
           /\ Excuse(key[r], {"torn"})
           /\ Goto(r, "done")
           /\ UNCHANGED <<key, stored, sound>>

\* Mutation: only status 200 is taken for a success.
StoreOnly200(r) ==
    /\ phase[r] = "store"
    /\ IF answer[r].status = 200
       THEN stored' = [stored EXCEPT ![key[r]] = answer[r]]
       ELSE UNCHANGED stored
    /\ Goto(r, "done")
    /\ UNCHANGED <<key, answer, effects, sound, excused>>

\* SET of the answer, the error of which is ignored.
Store(r) == /\ phase[r] = "store"
            /\ \/ stored' = [stored EXCEPT ![key[r]] = answer[r]] /\ UNCHANGED excused
               \/ "redis" \in Faults /\ Excuse(key[r], {"redis"}) /\ UNCHANGED stored
            /\ Goto(r, "done")
            /\ UNCHANGED <<key, answer, effects, sound>>

\* The gateway dies, or the handler panics: the request goes no further.  When the
\* call was under way it may have taken effect.
Crash(r) == /\ "crash" \in Faults
            /\ phase[r] \in {"look", "call", "store"}
            /\ IF phase[r] = "look"
               THEN UNCHANGED <<effects, excused>>
               ELSE /\ Excuse(key[r], {"crash"})
                    /\ \E n \in IF phase[r] = "call" THEN {0, 1} ELSE {0} :
                          effects' = [effects EXCEPT ![key[r]] = @ + n]
            /\ Goto(r, "done")
            /\ UNCHANGED <<key, stored, answer, sound>>

\* Twenty-four hours later.
Expire(k) == /\ "expiry" \in Faults
             /\ stored[k] # None
             /\ stored' = [stored EXCEPT ![k] = None]
             /\ Excuse(k, {"expiry"})
             /\ UNCHANGED <<phase, key, answer, effects, sound>>

-----------------------------------------------------------------------------

Init == /\ phase = [r \in Requests |-> "new"]
        /\ key \in [Requests -> Keys]
        /\ stored = [k \in Keys |-> None]
        /\ answer = [r \in Requests |-> None]
        /\ effects = [k \in Keys |-> 0]
        /\ sound = [k \in Keys |-> {}]
        /\ excused = [k \in Keys |-> {}]

Serve(r) == Hit(r) \/ Miss(r) \/ Succeed(r) \/ Reject(r) \/ Torn(r) \/ Store(r)

Next == \/ \E r \in Requests : Arrive(r) \/ Refuse(r) \/ Serve(r) \/ Crash(r)
        \/ \E k \in Keys : Expire(k)

Spec == Init /\ [][Next]_vars

-----------------------------------------------------------------------------

\* A key takes effect twice only when two requests with it overlapped, a call took
\* effect but failed, Redis failed, the gateway died, or the day was over: a retry
\* after a normal answer never repeats the operation.
OnceUnlessExcused == \A k \in Keys : excused[k] = {} => effects[k] <= 1

\* What is replayed as a success is the answer of a call for this key that did
\* succeed; an error is never replayed.
ReplayIsSound == \A r \in Requests : answer[r].from = "redis" => answer[r].call \in sound[key[r]]

-----------------------------------------------------------------------------
\* README.md:306: "Duplicate requests with the same key return the cached response
\* without calling the backend."

\* No key takes effect twice, with nothing going wrong.
DuplicatesSpared == \A k \in Keys : effects[k] <= 1

=============================================================================
