----------------------------- MODULE Gateway_proofs -----------------------------
(***************************************************************************)
(* Theorems about the gateway: first of GatewayIdempotency, for any number *)
(* of requests and keys and whatever may go wrong; then of                 *)
(* GatewayRateLimit, for any number of handlers, any limit and any window  *)
(* longer than the lag of a handler; then of Doors, whatever a body leaves *)
(* out of what it may give.                                                *)
(***************************************************************************)
EXTENDS GatewayIdempotency, GatewayRateLimit, Doors, FiniteSetTheorems, TLAPS

-----------------------------------------------------------------------------
\* The inductive invariant: an unexcused key is worked on by one request at most,
\* and once it has taken effect its answer is stored or about to be.

OneAtWork(k) == \A r, q \in Requests : Working(r, k) /\ Working(q, k) => r = q

NotYet(k) == \A r \in Requests : key[r] = k /\ phase[r] = "call" => effects[k] = 0

Kept(k) == effects[k] # 0 =>
    \/ stored[k] # None
    \/ \E r \in Requests : key[r] = k /\ phase[r] = "store"

Once == \A k \in Keys : excused[k] = {} =>
    effects[k] <= 1 /\ OneAtWork(k) /\ NotYet(k) /\ Kept(k)

\* What is stored, or about to be, is the answer of a call that succeeded.
StoredIsSound == \A k \in Keys : stored[k] # None => stored[k].call \in sound[k]

StoringIsSound == \A r \in Requests : phase[r] = "store" =>
    answer[r].status # 0 /\ answer[r].call \in sound[key[r]]

\* Before its answer a request has none.
Unanswered == \A r \in Requests : phase[r] \in {"new", "look", "call"} => answer[r] = None

Inv == /\ TypeOK /\ Once /\ StoredIsSound /\ StoringIsSound /\ Unanswered /\ ReplayIsSound

-----------------------------------------------------------------------------

LEMMA NoneTyped == None \in Answer /\ None.from = "handler"
BY DEF None, Answer, Statuses

LEMMA InvInit == Init => Inv
<1> SUFFICES ASSUME Init PROVE Inv
  OBVIOUS
<1>1. TypeOK
  BY NoneTyped DEF Init, TypeOK, Phases
<1>2. Once
  BY DEF Init, Once, OneAtWork, NotYet, Kept, Working
<1>3. StoredIsSound /\ StoringIsSound /\ Unanswered /\ ReplayIsSound
  BY NoneTyped DEF Init, StoredIsSound, StoringIsSound, Unanswered, ReplayIsSound
<1>4. QED
  BY <1>1, <1>2, <1>3 DEF Inv

\* A step of request r that changes nothing but its key, its phase and its answer,
\* and after which it is not at work, cannot break what is said of the keys.
LEMMA SteppingAside ==
  ASSUME Inv, NEW r \in Requests, phase[r] # "store",
         phase' \in [Requests -> Phases], phase'[r] \in {"look", "done"},
         answer' \in [Requests -> Answer],
         phase'[r] = "look" => answer'[r] = None,
         answer'[r].from = "redis" => answer'[r].call \in sound[key'[r]],
         key' \in [Requests -> Keys],
         \A q \in Requests \ {r} :
            key'[q] = key[q] /\ phase'[q] = phase[q] /\ answer'[q] = answer[q],
         UNCHANGED <<stored, effects, sound, excused>>
  PROVE  Inv'
<1>1. TypeOK'
  BY DEF Inv, TypeOK
<1>2. \A q \in Requests, k \in Keys : Working(q, k)' => Working(q, k)
  BY DEF Working
<1>3. Once'
  BY <1>2 DEF Inv, Once, OneAtWork, NotYet, Kept
<1>4. StoredIsSound' /\ ReplayIsSound'
  BY DEF Inv, StoredIsSound, ReplayIsSound
<1>5. StoringIsSound' /\ Unanswered'
  BY DEF Inv, StoringIsSound, Unanswered
<1>6. QED
  BY <1>1, <1>3, <1>4, <1>5 DEF Inv

LEMMA InvNext == Inv /\ [Next]_vars => Inv'
<1> SUFFICES ASSUME Inv, [Next]_vars PROVE Inv'
  OBVIOUS
<1>1. ASSUME NEW r \in Requests, Arrive(r) PROVE Inv'
  <2>1. PICK k \in Keys : key' = [key EXCEPT ![r] = k]
    BY <1>1 DEF Arrive
  <2>2. /\ phase[r] = "new" /\ phase' = [phase EXCEPT ![r] = "look"]
        /\ UNCHANGED <<stored, answer, effects, sound, excused>>
    BY <1>1 DEF Arrive, Goto
  <2>3. /\ phase' \in [Requests -> Phases] /\ phase'[r] = "look"
        /\ answer' \in [Requests -> Answer] /\ answer'[r] = None /\ key' \in [Requests -> Keys]
    BY <2>1, <2>2 DEF Inv, TypeOK, Unanswered, Phases
  <2>4. answer'[r].from # "redis"
    BY <2>3, NoneTyped
  <2>5. \A q \in Requests \ {r} :
           key'[q] = key[q] /\ phase'[q] = phase[q] /\ answer'[q] = answer[q]
    BY <2>1, <2>2 DEF Inv, TypeOK
  <2>6. QED
    BY <2>2, <2>3, <2>4, <2>5, SteppingAside
<1>2. ASSUME NEW r \in Requests, Refuse(r) \/ Reject(r) \/ Hit(r) PROVE Inv'
  <2>1. /\ phase[r] # "store" /\ phase' = [phase EXCEPT ![r] = "done"]
        /\ UNCHANGED <<key, stored, effects, sound, excused>>
    BY <1>2 DEF Refuse, Reject, Hit, Goto
  <2>2. \E status \in Statuses, call \in Nat, from \in {"handler", "redis"} :
          /\ Reply(r, status, call, from)
          /\ from = "redis" => call \in sound[key[r]]
    <3>1. CASE Refuse(r) \/ Reject(r)
      BY <3>1 DEF Refuse, Reject, Statuses
    <3>2. CASE Hit(r)
      <4>1. /\ stored[key[r]].call \in Nat /\ stored[key[r]].call \in sound[key[r]]
        BY <3>2 DEF Hit, Inv, TypeOK, StoredIsSound, Answer
      <4>2. QED
        BY <3>2, <4>1 DEF Hit, Statuses
    <3>3. QED
      BY <1>2, <3>1, <3>2
  <2>3. PICK status \in Statuses, call \in Nat, from \in {"handler", "redis"} :
          /\ Reply(r, status, call, from)
          /\ from = "redis" => call \in sound[key[r]]
    BY <2>2
  <2>4. [status |-> status, call |-> call, from |-> from] \in Answer
    BY DEF Answer
  <2>5. /\ answer' \in [Requests -> Answer]
        /\ answer'[r].from = "redis" => answer'[r].call \in sound[key'[r]]
        /\ \A q \in Requests \ {r} : answer'[q] = answer[q]
    BY <2>1, <2>3, <2>4 DEF Reply, Inv, TypeOK
  <2>6. /\ phase' \in [Requests -> Phases] /\ phase'[r] = "done" /\ key' \in [Requests -> Keys]
        /\ \A q \in Requests \ {r} : key'[q] = key[q] /\ phase'[q] = phase[q]
    BY <2>1 DEF Inv, TypeOK, Phases
  <2>7. QED
    BY <2>1, <2>5, <2>6, SteppingAside
<1>3. ASSUME NEW r \in Requests, Miss(r) PROVE Inv'
  <2>1. /\ phase[r] = "look" /\ phase' = [phase EXCEPT ![r] = "call"] /\ key[r] \in Keys
        /\ UNCHANGED <<key, stored, answer, effects, sound>>
    BY <1>3 DEF Miss, Goto, Inv, TypeOK
  <2>2. PICK reasons \in SUBSET Reasons :
          /\ excused' = [excused EXCEPT ![key[r]] = @ \cup reasons]
          /\ reasons = {} => /\ stored[key[r]] = None
                             /\ \A q \in Requests : ~Working(q, key[r])
    <3>1. CASE stored[key[r]] = None /\ Excuse(key[r], IF {q \in Requests : Working(q, key[r])} = {}
                                                      THEN {} ELSE {"overlap"})
      <4>1. CASE {q \in Requests : Working(q, key[r])} = {}
        BY <3>1, <4>1 DEF Excuse
      <4>2. CASE {q \in Requests : Working(q, key[r])} # {}
        BY <3>1, <4>2 DEF Excuse, Reasons
      <4>3. QED
        BY <4>1, <4>2
    <3>2. CASE Excuse(key[r], {"redis"})
      BY <3>2 DEF Excuse, Reasons, AllFaults
    <3>3. QED
      BY <1>3, <3>1, <3>2 DEF Miss
  <2>3. TypeOK'
    BY <2>1, <2>2 DEF Inv, TypeOK, Phases
  <2>4. /\ phase'[r] = "call" /\ \A q \in Requests \ {r} : phase'[q] = phase[q]
        /\ \A k \in Keys \ {key[r]} : excused'[k] = excused[k]
        /\ excused'[key[r]] = excused[key[r]] \cup reasons
    BY <2>1, <2>2 DEF Inv, TypeOK
  <2>5. \A q \in Requests, k \in Keys : Working(q, k)' => Working(q, k) \/ (q = r /\ k = key[r])
    <3>1. \A k \in Keys : Working(r, k)' => k = key[r]
      BY <2>1 DEF Working
    <3>2. \A q \in Requests \ {r}, k \in Keys : Working(q, k)' => Working(q, k)
      BY <2>1, <2>4 DEF Working
    <3>3. QED
      BY <3>1, <3>2
  <2>6. Once'
    <3> SUFFICES ASSUME NEW k \in Keys, excused'[k] = {}
                 PROVE  effects[k] <= 1 /\ OneAtWork(k)' /\ NotYet(k)' /\ Kept(k)'
      BY <2>1 DEF Once
    <3>1. excused[k] = {} /\ (k = key[r] => reasons = {})
      BY <2>4
    <3>2. effects[k] <= 1 /\ OneAtWork(k) /\ NotYet(k) /\ Kept(k)
      BY <3>1 DEF Inv, Once
    <3>3. k = key[r] => effects[k] = 0
      BY <2>2, <3>1, <3>2 DEF Kept, Working
    <3>4. OneAtWork(k)'
      BY <2>2, <2>5, <3>1, <3>2 DEF OneAtWork
    <3>5. NotYet(k)'
      BY <2>1, <2>4, <3>2, <3>3 DEF NotYet
    <3>6. Kept(k)'
      BY <2>1, <2>4, <3>2 DEF Kept
    <3>7. QED
      BY <3>2, <3>4, <3>5, <3>6
  <2>7. StoredIsSound' /\ ReplayIsSound'
    BY <2>1 DEF Inv, StoredIsSound, ReplayIsSound
  <2>8. StoringIsSound' /\ Unanswered'
    BY <2>1, <2>4 DEF Inv, StoringIsSound, Unanswered
  <2>9. QED
    BY <2>3, <2>6, <2>7, <2>8 DEF Inv
<1>4. ASSUME NEW r \in Requests, Succeed(r) PROVE Inv'
  <2> DEFINE k == key[r]
             n == effects[k] + 1
  <2>1. PICK status \in {200, 201} : Reply(r, status, effects'[k], "handler")
    BY <1>4 DEF Succeed
  <2>2. k \in Keys /\ effects[k] \in Nat /\ phase[r] = "call"
    BY <1>4 DEF Succeed, Inv, TypeOK
  <2>3. effects' = [effects EXCEPT ![k] = n] /\ effects'[k] = n
    BY <1>4, <2>2 DEF Succeed, Inv, TypeOK
  <2>4. /\ sound' = [sound EXCEPT ![k] = sound[k] \cup {n}]
        /\ phase' = [phase EXCEPT ![r] = "store"]
        /\ answer' = [answer EXCEPT ![r] = [status |-> status, call |-> n, from |-> "handler"]]
        /\ UNCHANGED <<key, stored, excused>>
    BY <1>4, <2>1, <2>3 DEF Succeed, Goto, Reply
  <2>5. [status |-> status, call |-> n, from |-> "handler"] \in Answer
    BY <2>2 DEF Answer, Statuses
  <2>6. TypeOK'
    BY <2>2, <2>3, <2>4, <2>5 DEF Inv, TypeOK, Phases
  <2>7. /\ phase'[r] = "store" /\ answer'[r].status # 0 /\ answer'[r].call = n
        /\ answer'[r].from = "handler"
        /\ \A q \in Requests \ {r} : phase'[q] = phase[q] /\ answer'[q] = answer[q]
        /\ n \in sound'[k] /\ \A l \in Keys : sound[l] \subseteq sound'[l]
        /\ \A l \in Keys \ {k} : effects'[l] = effects[l]
    BY <2>2, <2>3, <2>4 DEF Inv, TypeOK
  <2>8. \A q \in Requests, l \in Keys : Working(q, l)' <=> Working(q, l)
    BY <2>2, <2>4, <2>7 DEF Working
  <2>9. Working(r, k) /\ \A l \in Keys : Working(r, l) => l = k
    BY <2>2 DEF Working
  <2> HIDE DEF k, n
  <2>10. Once'
    <3> SUFFICES ASSUME NEW l \in Keys, excused[l] = {}
                 PROVE  effects'[l] <= 1 /\ OneAtWork(l)' /\ NotYet(l)' /\ Kept(l)'
      BY <2>4 DEF Once
    <3>1. effects[l] <= 1 /\ OneAtWork(l) /\ NotYet(l) /\ Kept(l)
      BY DEF Inv, Once
    <3>2. OneAtWork(l)'
      BY <2>8, <3>1 DEF OneAtWork
    <3>3. CASE l = k
      <4>1. \A q \in Requests : key[q] = k /\ phase[q] = "call" => q = r
        BY <2>2, <2>9, <3>1, <3>3 DEF OneAtWork, Working
      <4>2. effects[k] = 0
        BY <2>2, <3>1, <3>3 DEF NotYet, k
      <4>3. effects'[l] <= 1
        BY <2>3, <3>3, <4>2 DEF n
      <4>4. NotYet(l)'
        BY <2>4, <2>7, <3>3, <4>1 DEF NotYet
      <4>5. Kept(l)'
        BY <2>4, <2>7, <3>3 DEF Kept, k
      <4>6. QED
        BY <3>2, <4>3, <4>4, <4>5
    <3>4. CASE l # k
      BY <2>4, <2>7, <3>1, <3>2, <3>4 DEF NotYet, Kept, k
    <3>5. QED
      BY <3>3, <3>4
  <2>11. StoredIsSound'
    BY <2>4, <2>7 DEF Inv, StoredIsSound
  <2>12. StoringIsSound'
    BY <2>4, <2>7 DEF Inv, TypeOK, StoringIsSound, k
  <2>13. Unanswered' /\ ReplayIsSound'
    BY <2>4, <2>7 DEF Inv, TypeOK, Unanswered, ReplayIsSound
  <2>14. QED
    BY <2>6, <2>10, <2>11, <2>12, <2>13 DEF Inv
<1>5. ASSUME NEW r \in Requests, Torn(r) \/ Crash(r) PROVE Inv'
  <2> DEFINE k == key[r]
  <2>1. PICK n \in {0, 1}, reasons \in SUBSET Reasons, a \in Answer :
          /\ effects' = [effects EXCEPT ![k] = @ + n]
          /\ excused' = [excused EXCEPT ![k] = @ \cup reasons]
          /\ answer' = [answer EXCEPT ![r] = a]
          /\ reasons = {} => n = 0 /\ phase[r] = "look"
          /\ a.from = "redis" => a = answer[r]
          /\ phase[r] # "new"
    <3>1. k \in Keys /\ effects[k] \in Nat /\ answer[r] \in Answer
      BY DEF Inv, TypeOK
    <3>2. CASE Torn(r)
      <4>1. [status |-> 500, call |-> effects[k] + 1, from |-> "handler"] \in Answer
        BY <3>1 DEF Answer, Statuses
      <4>2. effects' = [effects EXCEPT ![k] = @ + 1] /\ effects'[k] = effects[k] + 1
        BY <3>1, <3>2 DEF Torn, Inv, TypeOK
      <4>3. /\ answer' = [answer EXCEPT ![r] = [status |-> 500, call |-> effects[k] + 1, from |-> "handler"]]
            /\ excused' = [excused EXCEPT ![k] = @ \cup {"torn"}]
            /\ phase[r] = "call"
        BY <3>2, <4>2 DEF Torn, Excuse, Reply
      <4>4. {"torn"} \in SUBSET Reasons /\ {"torn"} # {}
        BY DEF Reasons, AllFaults
      <4>5. PICK n \in {0, 1} : n = 1
        OBVIOUS
      <4>6. PICK reasons \in SUBSET Reasons : reasons = {"torn"}
        BY <4>4
      <4>7. PICK a \in Answer : a = [status |-> 500, call |-> effects[k] + 1, from |-> "handler"]
        BY <4>1
      <4>8. a.from = "handler" /\ reasons # {}
        BY <4>4, <4>6, <4>7
      <4> HIDE DEF k
      <4>9. /\ effects' = [effects EXCEPT ![k] = @ + n]
            /\ excused' = [excused EXCEPT ![k] = @ \cup reasons]
            /\ answer' = [answer EXCEPT ![r] = a]
            /\ reasons = {} => n = 0 /\ phase[r] = "look"
            /\ a.from = "redis" => a = answer[r]
            /\ phase[r] # "new"
        BY <4>2, <4>3, <4>5, <4>6, <4>7, <4>8
      <4>10. QED
        BY <4>9
    <3>3. CASE Crash(r)
      <4>1. answer' = [answer EXCEPT ![r] = answer[r]]
        BY <3>3 DEF Crash, Inv, TypeOK
      <4>2. CASE phase[r] = "look"
        <5>1. effects' = [effects EXCEPT ![k] = @ + 0]
          BY <3>1, <3>3, <4>2 DEF Crash, Inv, TypeOK
        <5>2. excused' = [excused EXCEPT ![k] = @ \cup {}]
          BY <3>1, <3>3, <4>2 DEF Crash, Inv, TypeOK
        <5>3. QED
          BY <3>1, <4>1, <4>2, <5>1, <5>2
      <4>3. CASE phase[r] # "look"
        <5>1. PICK n \in {0, 1} : effects' = [effects EXCEPT ![k] = @ + n]
          BY <3>3, <4>3 DEF Crash
        <5>2. /\ excused' = [excused EXCEPT ![k] = @ \cup {"crash"}] /\ {"crash"} # {}
              /\ {"crash"} \in SUBSET Reasons /\ phase[r] # "new"
          BY <3>3, <4>3 DEF Crash, Excuse, Reasons, AllFaults
        <5>3. QED
          BY <3>1, <4>1, <5>1, <5>2
      <4>4. QED
        BY <4>2, <4>3
    <3>4. QED
      BY <1>5, <3>2, <3>3
  <2>2. k \in Keys /\ effects[k] \in Nat
    BY DEF Inv, TypeOK
  <2>3. phase' = [phase EXCEPT ![r] = "done"] /\ UNCHANGED <<key, stored, sound>>
    BY <1>5 DEF Torn, Crash, Goto
  <2>4. TypeOK'
    BY <2>1, <2>2, <2>3 DEF Inv, TypeOK, Phases
  <2>5. /\ phase'[r] = "done" /\ answer'[r] = a
        /\ \A q \in Requests \ {r} : phase'[q] = phase[q] /\ answer'[q] = answer[q]
        /\ excused'[k] = excused[k] \cup reasons /\ effects'[k] = effects[k] + n
        /\ \A l \in Keys \ {k} : excused'[l] = excused[l] /\ effects'[l] = effects[l]
    BY <2>1, <2>2, <2>3 DEF Inv, TypeOK
  <2>6. \A q \in Requests, l \in Keys : Working(q, l)' => Working(q, l)
    BY <2>3, <2>5 DEF Working
  <2>7. \A q \in Requests : key[q] # k /\ phase[q] = "store" => phase'[q] = "store"
    BY <2>5 DEF k
  <2> HIDE DEF k
  <2>8. Once'
    <3> SUFFICES ASSUME NEW l \in Keys, excused'[l] = {}
                 PROVE  effects'[l] <= 1 /\ OneAtWork(l)' /\ NotYet(l)' /\ Kept(l)'
      BY DEF Once
    <3>1. excused[l] = {} /\ (l = k => reasons = {})
      BY <2>5
    <3>2. effects[l] <= 1 /\ OneAtWork(l) /\ NotYet(l) /\ Kept(l)
      BY <3>1 DEF Inv, Once
    <3>3. effects'[l] = effects[l]
      BY <2>1, <2>2, <2>5, <3>1
    <3>4. OneAtWork(l)' /\ NotYet(l)'
      BY <2>3, <2>5, <2>6, <3>2, <3>3 DEF OneAtWork, NotYet
    <3>5. \A q \in Requests : key[q] = l /\ phase[q] = "store" => phase'[q] = "store"
      BY <2>1, <2>5, <2>7, <3>1
    <3>6. Kept(l)'
      BY <2>3, <3>2, <3>3, <3>5 DEF Kept
    <3>7. QED
      BY <3>2, <3>3, <3>4, <3>6
  <2>9. StoredIsSound'
    BY <2>3 DEF Inv, StoredIsSound
  <2>10. StoringIsSound' /\ Unanswered'
    BY <2>3, <2>5 DEF Inv, StoringIsSound, Unanswered
  <2>11. ReplayIsSound'
    BY <2>1, <2>3, <2>5 DEF Inv, ReplayIsSound
  <2>12. QED
    BY <2>4, <2>8, <2>9, <2>10, <2>11 DEF Inv
<1>6. ASSUME NEW r \in Requests, Store(r) PROVE Inv'
  <2> DEFINE k == key[r]
  <2>1. /\ phase[r] = "store" /\ phase' = [phase EXCEPT ![r] = "done"] /\ k \in Keys
        /\ UNCHANGED <<key, answer, effects, sound>>
        /\ answer[r] \in Answer /\ answer[r] # None /\ answer[r].call \in sound[k]
    BY <1>6 DEF Store, Goto, Inv, TypeOK, StoringIsSound, None
  <2>2. \/ stored' = [stored EXCEPT ![k] = answer[r]] /\ excused' = excused
        \/ stored' = stored /\ excused' = [excused EXCEPT ![k] = @ \cup {"redis"}]
    BY <1>6 DEF Store, Excuse
  <2>3. TypeOK'
    BY <2>1, <2>2 DEF Inv, TypeOK, Phases, Reasons, AllFaults
  <2>4. /\ phase'[r] = "done" /\ \A q \in Requests \ {r} : phase'[q] = phase[q]
        /\ \A l \in Keys \ {k} : stored'[l] = stored[l] /\ excused'[l] = excused[l]
        /\ \/ stored'[k] = answer[r] /\ excused'[k] = excused[k]
           \/ stored'[k] = stored[k] /\ excused'[k] # {}
    <3>1. /\ phase \in [Requests -> Phases] /\ k \in Keys
          /\ stored \in [Keys -> Answer] /\ excused \in [Keys -> SUBSET Reasons]
      BY <2>1 DEF Inv, TypeOK
    <3> HIDE DEF k
    <3>2. phase'[r] = "done" /\ \A q \in Requests \ {r} : phase'[q] = phase[q]
      BY <2>1, <3>1
    <3>3. CASE stored' = [stored EXCEPT ![k] = answer[r]] /\ excused' = excused
      BY <3>1, <3>2, <3>3
    <3>4. CASE stored' = stored /\ excused' = [excused EXCEPT ![k] = @ \cup {"redis"}]
      BY <3>1, <3>2, <3>4
    <3>5. QED
      BY <2>2, <3>3, <3>4
  <2>5. \A q \in Requests, l \in Keys : Working(q, l)' => Working(q, l)
    BY <2>1, <2>4 DEF Working
  <2>6. \A q \in Requests : key[q] # k /\ phase[q] = "store" => phase'[q] = "store"
    BY <2>4 DEF k
  <2> HIDE DEF k
  <2>7. Once'
    <3> SUFFICES ASSUME NEW l \in Keys, excused'[l] = {}
                 PROVE  effects[l] <= 1 /\ OneAtWork(l)' /\ NotYet(l)' /\ Kept(l)'
      BY <2>1 DEF Once
    <3>1. excused[l] = {} /\ (l = k => stored'[l] # None)
      BY <2>1, <2>4
    <3>2. effects[l] <= 1 /\ OneAtWork(l) /\ NotYet(l) /\ Kept(l)
      BY <3>1 DEF Inv, Once
    <3>3. OneAtWork(l)' /\ NotYet(l)'
      BY <2>1, <2>4, <2>5, <3>2 DEF OneAtWork, NotYet
    <3>4. Kept(l)'
      BY <2>1, <2>4, <2>6, <3>1, <3>2 DEF Kept
    <3>5. QED
      BY <3>2, <3>3, <3>4
  <2>8. StoredIsSound'
    BY <2>1, <2>4 DEF Inv, StoredIsSound
  <2>9. StoringIsSound' /\ Unanswered' /\ ReplayIsSound'
    BY <2>1, <2>4 DEF Inv, StoringIsSound, Unanswered, ReplayIsSound
  <2>10. QED
    BY <2>3, <2>7, <2>8, <2>9 DEF Inv
<1>7. ASSUME NEW k \in Keys, Expire(k) PROVE Inv'
  <2>1. /\ stored' = [stored EXCEPT ![k] = None]
        /\ excused' = [excused EXCEPT ![k] = @ \cup {"expiry"}]
        /\ UNCHANGED <<phase, key, answer, effects, sound>>
    BY <1>7 DEF Expire, Excuse
  <2>2. TypeOK'
    BY <2>1, NoneTyped DEF Inv, TypeOK, Reasons, AllFaults
  <2>3. /\ excused'[k] # {} /\ stored'[k] = None
        /\ \A l \in Keys \ {k} : stored'[l] = stored[l] /\ excused'[l] = excused[l]
    BY <2>1 DEF Inv, TypeOK
  <2>4. Once'
    BY <2>1, <2>3 DEF Inv, Once, OneAtWork, NotYet, Kept, Working
  <2>5. StoredIsSound' /\ StoringIsSound' /\ Unanswered' /\ ReplayIsSound'
    BY <2>1, <2>3 DEF Inv, StoredIsSound, StoringIsSound, Unanswered, ReplayIsSound
  <2>6. QED
    BY <2>2, <2>4, <2>5 DEF Inv
<1>8. CASE UNCHANGED vars
  BY <1>8 DEF vars, Inv, TypeOK, Once, OneAtWork, NotYet, Kept, Working, StoredIsSound,
              StoringIsSound, Unanswered, ReplayIsSound
<1>9. QED
  BY <1>1, <1>2, <1>3, <1>4, <1>5, <1>6, <1>7, <1>8 DEF Next, Serve

LEMMA InvAlways == Spec => []Inv
BY InvInit, InvNext, PTL DEF Spec

-----------------------------------------------------------------------------

\* Every reachable state is well typed.
THEOREM TypeCorrect == Spec => []TypeOK
<1>1. Inv => TypeOK
  BY DEF Inv
<1>2. QED
  BY <1>1, InvAlways, PTL

\* An idempotency key takes effect at most once, whatever is retried, unless one
\* of the named reasons applies to it.
THEOREM KeysTakeEffectOnce == Spec => []OnceUnlessExcused
<1>1. Inv => OnceUnlessExcused
  BY DEF Inv, Once, OnceUnlessExcused
<1>2. QED
  BY <1>1, InvAlways, PTL

\* What the middleware replays is the answer of a call for the same key that
\* succeeded.
THEOREM ReplaysAreSound == Spec => []ReplayIsSound
<1>1. Inv => ReplayIsSound
  BY DEF Inv
<1>2. QED
  BY <1>1, InvAlways, PTL

-----------------------------------------------------------------------------
\* The inductive invariant.  The set holds only seconds that let requests through,
\* and what a handler is about to count lies within reach of the time it has read.

\* A handler lags behind the clock by MaxLag at most.
Lagging == \A h \in Handlers : ~At(h, "idle") =>
    work[h].now <= clock /\ clock <= work[h].now + MaxLag

Recorded == \A s \in members : s <= clock /\ s \in passed

\* Nothing older than a handler's window is in the set between its two commands:
\* what the others add is younger, since the lag is shorter than the window.
Trimmed == failed = {} => \A h \in Handlers : At(h, "count") =>
    \A s \in members : work[h].now - Window < s

LimiterInv == LimiterTypeOK /\ Lagging /\ Recorded /\ Trimmed

USE LimitOK, WindowOK, LifetimeOK, BoundsOK

-----------------------------------------------------------------------------

LEMMA BusyFinite ==
  ASSUME LimiterTypeOK, NEW t \in Int, NEW length \in Int
  PROVE  IsFiniteSet(Busy(t, length))
<1>1. IsFiniteSet(Seconds)
  BY FS_Interval DEF Seconds
<1>2. Busy(t, length) \subseteq Seconds
  BY DEF Busy, LimiterTypeOK
<1>3. QED
  BY <1>1, <1>2, FS_Subset

\* A handler that counts Limit seconds or more has cause to refuse.
LEMMA CountIsCause ==
  ASSUME LimiterInv, NEW h \in Handlers, At(h, "count"), Cardinality(members) >= Limit
  PROVE  /\ Cardinality(Busy(work[h].now + MaxLag, Reach)) >= Limit
         /\ failed = {} => Limit <= Window + MaxLag
<1> DEFINE t == work[h].now
<1>1. t \in Seconds /\ t <= clock /\ clock <= t + MaxLag
  BY DEF LimiterInv, LimiterTypeOK, Lagging, At
<1>2. IsFiniteSet(members) /\ Cardinality(members) \in Nat
  <2>1. IsFiniteSet(Seconds)
    BY FS_Interval DEF Seconds
  <2>2. IsFiniteSet(members)
    BY <2>1, FS_Subset DEF LimiterInv, LimiterTypeOK
  <2>3. QED
    BY <2>2, FS_CardinalityType
<1>3. Reach \in Int /\ t + MaxLag \in Int
  BY <1>1 DEF Reach, Seconds
<1>4. members \subseteq Busy(t + MaxLag, Reach)
  <2> SUFFICES ASSUME NEW s \in members PROVE s \in Busy(t + MaxLag, Reach)
    OBVIOUS
  <2>1. s \in Seconds /\ s <= t + MaxLag /\ s \in passed
    BY <1>1 DEF LimiterInv, LimiterTypeOK, Recorded, Seconds
  <2>2. t + MaxLag - Reach < s
    BY <1>1, <2>1 DEF LimiterInv, Trimmed, Reach, Seconds
  <2>3. PICK u \in Int : u = t + MaxLag
    BY <1>3
  <2>4. PICK r \in Int : r = Reach
    BY <1>3
  <2>5. s <= u /\ u - r < s
    BY <1>1, <1>3, <2>1, <2>2, <2>3, <2>4 DEF Seconds
  <2>6. s \in Busy(u, r)
    BY <2>1, <2>5 DEF Busy
  <2>7. QED
    BY <2>3, <2>4, <2>6
<1>5. IsFiniteSet(Busy(t + MaxLag, Reach))
  BY <1>3, BusyFinite DEF LimiterInv
<1>6. Cardinality(members) <= Cardinality(Busy(t + MaxLag, Reach))
  BY <1>4, <1>5, FS_Subset
<1>7. ASSUME failed = {} PROVE Limit <= Window + MaxLag
  <2> DEFINE low == t - Window + 1
             high == t + MaxLag
  <2>1. low \in Int /\ high \in Int /\ low <= high
    BY <1>1 DEF Seconds
  <2>2. members \subseteq low .. high
    BY <1>1, <1>7 DEF LimiterInv, LimiterTypeOK, Recorded, Trimmed, Seconds
  <2>3. high - low + 1 = Window + MaxLag
    BY <1>1 DEF Seconds
  <2> HIDE DEF low, high
  <2>4. Cardinality(low .. high) = high - low + 1 /\ IsFiniteSet(low .. high)
    BY <2>1, FS_Interval
  <2>5. Cardinality(members) <= Cardinality(low .. high)
    BY <2>2, <2>4, FS_Subset
  <2>6. QED
    BY <1>2, <2>3, <2>4, <2>5
<1>8. Cardinality(Busy(t + MaxLag, Reach)) \in Nat
  BY <1>5, FS_CardinalityType
<1> HIDE DEF t
<1>9. QED
  BY <1>2, <1>6, <1>7, <1>8 DEF t

LEMMA LimiterInvInit == LimiterInit => LimiterInv
<1> SUFFICES ASSUME LimiterInit PROVE LimiterInv
  OBVIOUS
<1>1. LimiterTypeOK
  BY DEF LimiterInit, LimiterTypeOK, Idle, Steps, Seconds
<1>2. Lagging /\ Recorded /\ Trimmed
  BY DEF LimiterInit, Lagging, Recorded, Trimmed, At, Idle
<1>3. QED
  BY <1>1, <1>2 DEF LimiterInv

LEMMA LimiterInvNext == LimiterInv /\ [LimiterNext]_limiterVars => LimiterInv'
<1> SUFFICES ASSUME LimiterInv, [LimiterNext]_limiterVars PROVE LimiterInv'
  OBVIOUS
<1>1. CASE Tick
  <2>1. /\ clock < MaxTime /\ clock' = clock + 1 /\ members' \subseteq members /\ expires' \in Nat
        /\ \A h \in Handlers : ~At(h, "idle") => clock < work[h].now + MaxLag
        /\ UNCHANGED <<work, passed, failed>>
    BY <1>1 DEF Tick, Keep, LimiterInv, LimiterTypeOK
  <2>2. LimiterTypeOK'
    BY <2>1 DEF LimiterInv, LimiterTypeOK, Seconds
  <2>3. Lagging'
    <3> SUFFICES ASSUME NEW h \in Handlers, ~At(h, "idle")
                 PROVE  work[h].now <= clock' /\ clock' <= work[h].now + MaxLag
      BY <2>1 DEF Lagging, At
    <3>1. work[h].now \in Int /\ clock \in Int
      BY DEF LimiterInv, LimiterTypeOK, Seconds
    <3>2. work[h].now <= clock /\ clock < work[h].now + MaxLag
      BY <2>1 DEF LimiterInv, Lagging
    <3>3. QED
      BY <2>1, <3>1, <3>2
  <2>4. Recorded' /\ Trimmed'
    BY <2>1 DEF LimiterInv, LimiterTypeOK, Recorded, Trimmed, At, Seconds
  <2>5. QED
    BY <2>2, <2>3, <2>4 DEF LimiterInv
<1>2. ASSUME NEW h \in Handlers, Enter(h) PROVE LimiterInv'
  <2>1. work' = [work EXCEPT ![h] = [step |-> "trim", now |-> clock]]
        /\ UNCHANGED <<clock, members, expires, passed, failed>>
    BY <1>2 DEF Enter
  <2>2. LimiterTypeOK'
    BY <2>1 DEF LimiterInv, LimiterTypeOK, Steps
  <2>3. Lagging' /\ Recorded' /\ Trimmed'
    BY <2>1 DEF LimiterInv, LimiterTypeOK, Lagging, Recorded, Trimmed, At, Seconds
  <2>4. QED
    BY <2>2, <2>3 DEF LimiterInv
<1>3. ASSUME NEW h \in Handlers, Trim(h) PROVE LimiterInv'
  <2>1. /\ At(h, "trim") /\ work' = [work EXCEPT ![h] = [step |-> "count", now |-> work[h].now]]
        /\ members' \subseteq members /\ expires' \in Nat /\ failed' \subseteq Seconds
        /\ failed' = {} => failed = {} /\ \A s \in members' : work[h].now - Window < s
        /\ UNCHANGED <<clock, passed>>
    <3>1. At(h, "trim") /\ MoveTo(h, "count") /\ UNCHANGED <<clock, passed>> /\ work[h].now \in Seconds
      BY <1>3 DEF Trim, LimiterInv, LimiterTypeOK
    <3>2. CASE Keep({s \in members : s > work[h].now - Window}) /\ UNCHANGED failed
      <4>1. expires' \in Nat /\ failed' \subseteq Seconds
        BY <3>2 DEF Keep, LimiterInv, LimiterTypeOK
      <4>2. members' = {s \in members : s > work[h].now - Window}
        BY <3>2 DEF Keep
      <4>3. \A s \in members' : work[h].now - Window < s
        BY <3>1, <4>2 DEF LimiterInv, LimiterTypeOK, Seconds
      <4>4. QED
        BY <3>1, <3>2, <4>1, <4>2, <4>3 DEF MoveTo
    <3>3. CASE Failing(h) /\ UNCHANGED <<members, expires>>
      BY <3>1, <3>3 DEF Failing, MoveTo, LimiterInv, LimiterTypeOK
    <3>4. QED
      BY <1>3, <3>2, <3>3 DEF Trim
  <2>2. LimiterTypeOK'
    BY <2>1 DEF LimiterInv, LimiterTypeOK, Steps
  <2>3. Lagging' /\ Recorded'
    BY <2>1 DEF LimiterInv, LimiterTypeOK, Lagging, Recorded, At
  <2>4. Trimmed'
    BY <2>1 DEF LimiterInv, LimiterTypeOK, Trimmed, At
  <2>5. QED
    BY <2>2, <2>3, <2>4 DEF LimiterInv
<1>4. ASSUME NEW h \in Handlers, Count(h) PROVE LimiterInv'
  <2>1. /\ At(h, "count") /\ UNCHANGED <<clock, members, expires, passed>>
        /\ failed' \subseteq Seconds /\ (failed' = {} => failed = {})
        /\ \/ work' = [work EXCEPT ![h] = Idle]
           \/ work' = [work EXCEPT ![h] = [step |-> "add", now |-> work[h].now]]
    BY <1>4 DEF Count, Failing, MoveTo, LimiterInv, LimiterTypeOK
  <2>2. Idle \in [step : Steps, now : Seconds]
        /\ [step |-> "add", now |-> work[h].now] \in [step : Steps, now : Seconds]
    BY DEF Idle, Steps, Seconds, LimiterInv, LimiterTypeOK
  <2>3. LimiterTypeOK'
    BY <2>1, <2>2 DEF LimiterInv, LimiterTypeOK
  <2>4. Lagging' /\ Recorded' /\ Trimmed'
    BY <2>1 DEF LimiterInv, LimiterTypeOK, Lagging, Recorded, Trimmed, At, Idle
  <2>5. QED
    BY <2>3, <2>4 DEF LimiterInv
<1>5. ASSUME NEW h \in Handlers, Add(h) PROVE LimiterInv'
  <2> DEFINE t == work[h].now
  <2>1. /\ At(h, "add") /\ t \in Seconds /\ t <= clock /\ clock <= t + MaxLag
        /\ members' \subseteq members \cup {t} /\ expires' \in Nat
        /\ passed' = passed \cup {t}
        /\ failed' \subseteq Seconds /\ (failed' = {} => failed = {})
        /\ work' = [work EXCEPT ![h] = Idle]
        /\ UNCHANGED clock
    <3>1. At(h, "add") /\ t \in Seconds /\ passed' = passed \cup {t}
          /\ work' = [work EXCEPT ![h] = Idle] /\ UNCHANGED clock
      BY <1>5 DEF Add, LimiterInv, LimiterTypeOK
    <3>2. t <= clock /\ clock <= t + MaxLag
      BY <3>1 DEF LimiterInv, Lagging, At
    <3>3. clock + Lifetime \in Nat
      BY DEF LimiterInv, LimiterTypeOK, Seconds
    <3>4. members' \subseteq members \cup {t} /\ expires' \in Nat
      BY <1>5, <3>3 DEF Add, LimiterInv, LimiterTypeOK
    <3>5. failed' \subseteq Seconds /\ (failed' = {} => failed = {})
      BY <1>5, <3>1 DEF Add, Failing, LimiterInv, LimiterTypeOK
    <3>6. QED
      BY <3>1, <3>2, <3>4, <3>5
  <2> HIDE DEF t
  <2>2. LimiterTypeOK'
    BY <2>1 DEF LimiterInv, LimiterTypeOK, Idle, Steps, Seconds
  <2>3. Lagging'
    BY <2>1 DEF LimiterInv, LimiterTypeOK, Lagging, At, Idle
  <2>4. Recorded'
    BY <2>1 DEF LimiterInv, LimiterTypeOK, Recorded, Seconds
  <2>5. Trimmed'
    <3> SUFFICES ASSUME failed = {}, NEW g \in Handlers, At(g, "count")', NEW s \in members'
                 PROVE  work'[g].now - Window < s
      BY <2>1 DEF Trimmed
    <3>1. g # h /\ work'[g] = work[g] /\ At(g, "count")
      BY <2>1 DEF LimiterInv, LimiterTypeOK, At, Idle
    <3>2. work[g].now \in Seconds /\ work[g].now <= clock
      BY <3>1 DEF LimiterInv, LimiterTypeOK, Lagging, At
    <3>3. CASE s = t
      BY <2>1, <3>1, <3>2, <3>3 DEF LimiterInv, LimiterTypeOK, Seconds
    <3>4. CASE s # t
      BY <2>1, <3>1, <3>4 DEF LimiterInv, Trimmed
    <3>5. QED
      BY <3>3, <3>4
  <2>6. QED
    BY <2>2, <2>3, <2>4, <2>5 DEF LimiterInv
<1>6. CASE UNCHANGED limiterVars
  BY <1>6 DEF limiterVars, LimiterInv, LimiterTypeOK, Lagging, Recorded, Trimmed, At
<1>7. QED
  BY <1>1, <1>2, <1>3, <1>4, <1>5, <1>6 DEF LimiterNext

LEMMA LimiterInvAlways == LimiterSpec => []LimiterInv
BY LimiterInvInit, LimiterInvNext, PTL DEF LimiterSpec

\* Only Count answers 429, and only when it has counted.
LEMMA RefusalCounts ==
  ASSUME LimiterInv, [LimiterNext]_limiterVars, NEW h \in Handlers, Refused(h)
  PROVE  Cardinality(members) >= Limit
<1>1. At(h, "count") /\ work'[h].step = "idle"
  BY DEF Refused, At
<1>2. ~Tick /\ ~UNCHANGED limiterVars
  BY <1>1 DEF Tick, limiterVars, At
<1>3. PICK g \in Handlers : Enter(g) \/ Trim(g) \/ Count(g) \/ Add(g)
  BY <1>2 DEF LimiterNext
<1>4. g = h
  BY <1>1, <1>3 DEF Enter, Trim, Count, Add, MoveTo, At, LimiterInv, LimiterTypeOK
<1>5. Count(h)
  BY <1>1, <1>3, <1>4 DEF Enter, Trim, Add, At
<1>6. ~MoveTo(h, "add")
  BY <1>1 DEF MoveTo, LimiterInv, LimiterTypeOK
<1>7. QED
  BY <1>5, <1>6 DEF Count

-----------------------------------------------------------------------------

\* Every reachable state is well typed.
THEOREM LimiterTypeCorrect == LimiterSpec => []LimiterTypeOK
<1>1. LimiterInv => LimiterTypeOK
  BY DEF LimiterInv
<1>2. QED
  BY <1>1, LimiterInvAlways, PTL

\* The middleware with a limit above the seconds of its window, as the default of
\* 100 a minute is, refuses nobody as long as no command fails.
THEOREM DefaultLimitNeverRefuses == LimiterSpec => NeverRefuses
<1>1. ASSUME LimiterInv, [LimiterNext]_limiterVars
      PROVE  [failed = {} /\ Limit > Window + MaxLag => \A h \in Handlers : ~Refused(h)]_limiterVars
  <2> SUFFICES ASSUME failed = {}, Limit > Window + MaxLag, NEW h \in Handlers, Refused(h)
               PROVE  FALSE
    OBVIOUS
  <2>1. At(h, "count") /\ Cardinality(members) >= Limit
    BY <1>1, RefusalCounts DEF Refused
  <2>2. Limit <= Window + MaxLag
    BY <1>1, <2>1, CountIsCause
  <2>3. QED
    BY <2>2
<1>2. QED
  BY <1>1, LimiterInvAlways, PTL DEF LimiterSpec, NeverRefuses

\* A request is refused only when Limit different seconds in reach have seen
\* requests let through.
THEOREM RefusalsHaveCause == LimiterSpec => RefusedWithCause
<1>1. ASSUME LimiterInv, [LimiterNext]_limiterVars
      PROVE  [\A h \in Handlers : Refused(h) =>
                 Cardinality(Busy(work[h].now + MaxLag, Reach)) >= Limit]_limiterVars
  <2> SUFFICES ASSUME NEW h \in Handlers, Refused(h)
               PROVE  Cardinality(Busy(work[h].now + MaxLag, Reach)) >= Limit
    OBVIOUS
  <2>1. At(h, "count") /\ Cardinality(members) >= Limit
    BY <1>1, RefusalCounts DEF Refused
  <2>2. QED
    BY <1>1, <2>1, CountIsCause
<1>2. QED
  BY <1>1, LimiterInvAlways, PTL DEF LimiterSpec, RefusedWithCause

-----------------------------------------------------------------------------
\* Why the busy seconds of a window are bounded.  What was let through in the window is
\* still in the set, so a handler that counts less than Limit sees all of it; what it
\* cannot see is what the other handlers have been promised and not yet added.

StillIn == \A s \in passed \ failed :
            s <= clock /\ (clock - Window < s => s \in members /\ s + Lifetime <= expires)

Span == Window - MaxLag
Waiting == {work[h].now : h \in {g \in Handlers : At(g, "add")}}
Admitted == (passed \cup Waiting) \ failed
Promised(t) == {s \in Admitted : t - Span < s /\ s <= t}
Bounded == \A t \in Seconds : Cardinality(Promised(t)) < Limit + Cardinality(Handlers)

LEMMA StillInNext == ASSUME LimiterInv, StillIn, [LimiterNext]_limiterVars PROVE StillIn'
<1>1. clock \in Int /\ clock <= MaxTime /\ passed \subseteq Int /\ expires \in Nat
  BY DEF LimiterInv, LimiterTypeOK, Seconds
<1>2. CASE Tick
  <2>1. /\ clock' = clock + 1 /\ UNCHANGED <<passed, failed>>
        /\ \/ 0 < expires /\ expires <= clock + 1
           \/ UNCHANGED <<members, expires>>
    BY <1>2 DEF Tick
  <2>2. ASSUME NEW s \in passed \ failed
        PROVE  s <= clock' /\ (clock' - Window < s => s \in members' /\ s + Lifetime <= expires')
    <3>1. s \in Int /\ s <= clock /\ (clock - Window < s => s \in members /\ s + Lifetime <= expires)
      BY <1>1 DEF StillIn
    <3>2. clock + 1 - Window < s => s \in members /\ s + Lifetime <= expires /\ ~(expires <= clock + 1)
      BY <1>1, <3>1
    <3>3. QED
      BY <1>1, <2>1, <3>1, <3>2
  <2>3. QED
    BY <2>1, <2>2 DEF StillIn
<1>3. ASSUME NEW h \in Handlers, Enter(h) \/ Count(h)
      PROVE  StillIn'
  <2>1. UNCHANGED <<clock, members, expires, passed>> /\ failed \subseteq failed'
    BY <1>3 DEF Enter, Count, Failing
  <2>2. QED
    BY <2>1 DEF StillIn
<1>4. ASSUME NEW h \in Handlers, Trim(h)
      PROVE  StillIn'
  <2>1. /\ UNCHANGED <<clock, passed>> /\ failed \subseteq failed'
        /\ \/ Keep({s \in members : s > work[h].now - Window})
           \/ UNCHANGED <<members, expires>>
    BY <1>4 DEF Trim, Failing
  <2>2. work[h].now \in Int /\ work[h].now <= clock
    BY <1>4 DEF Trim, At, LimiterInv, LimiterTypeOK, Lagging, Seconds
  <2>3. ASSUME NEW s \in passed \ failed
        PROVE  s <= clock /\ (clock - Window < s => s \in members' /\ s + Lifetime <= expires')
    <3>1. s \in Int /\ s <= clock /\ (clock - Window < s => s \in members /\ s + Lifetime <= expires)
      BY <1>1 DEF StillIn
    <3>2. clock - Window < s => s \in {r \in members : r > work[h].now - Window}
      BY <1>1, <2>2, <3>1
    <3>3. QED
      BY <2>1, <3>1, <3>2 DEF Keep
  <2>4. QED
    BY <2>1, <2>3 DEF StillIn
<1>5. ASSUME NEW h \in Handlers, Add(h)
      PROVE  StillIn'
  <2>1. /\ UNCHANGED clock /\ failed \subseteq failed' /\ passed' = passed \cup {work[h].now}
        /\ members \subseteq members' /\ expires' \in {expires, clock + Lifetime}
        /\ \/ work[h].now \in members' /\ expires' = clock + Lifetime
           \/ work[h].now \in failed'
    BY <1>5 DEF Add, Failing
  <2>2. work[h].now \in Int /\ work[h].now <= clock
    BY <1>5 DEF Add, At, LimiterInv, LimiterTypeOK, Lagging, Seconds
  <2>3. ASSUME NEW s \in passed' \ failed'
        PROVE  s <= clock /\ (clock - Window < s => s \in members' /\ s + Lifetime <= expires')
    <3>1. CASE s \in passed
      <4>1. s \in Int /\ s <= clock /\ (clock - Window < s => s \in members /\ s + Lifetime <= expires)
        BY <1>1, <2>1, <2>3, <3>1 DEF StillIn
      <4>2. s + Lifetime <= clock + Lifetime
        BY <1>1, <4>1
      <4>3. QED
        BY <2>1, <4>1, <4>2
    <3>2. CASE s = work[h].now
      <4>1. s \in members' /\ expires' = clock + Lifetime
        BY <2>1, <2>3, <3>2
      <4>2. QED
        BY <1>1, <2>2, <3>2, <4>1
    <3>3. QED
      BY <2>1, <2>3, <3>1, <3>2
  <2>4. QED
    BY <2>1, <2>3 DEF StillIn
<1>6. CASE UNCHANGED limiterVars
  BY <1>6 DEF limiterVars, StillIn
<1>7. QED
  BY <1>2, <1>3, <1>4, <1>5, <1>6 DEF LimiterNext

\* Everything that is counted is a set of seconds.
LEMMA PromisedFinite ==
  ASSUME LimiterTypeOK
  PROVE  /\ IsFiniteSet(members) /\ Waiting \subseteq Seconds /\ Admitted \subseteq Seconds
         /\ \A t \in Seconds : IsFiniteSet(Promised(t)) /\ Cardinality(Promised(t)) \in Nat
<1>1. IsFiniteSet(Seconds)
  BY FS_Interval DEF Seconds
<1>2. members \subseteq Seconds /\ Waiting \subseteq Seconds /\ Admitted \subseteq Seconds
  BY DEF LimiterTypeOK, Waiting, Admitted
<1>3. \A t \in Seconds : Promised(t) \subseteq Seconds
  BY <1>2 DEF Promised
<1>4. QED
  BY <1>1, <1>2, <1>3, FS_Subset, FS_CardinalityType

\* There are no more seconds waiting to be added than handlers.
LEMMA WaitingBounded ==
  ASSUME IsFiniteSet(Handlers), NEW jobs, NEW waiting,
         waiting = {jobs[h].now : h \in {g \in Handlers : jobs[g].step = "add"}}
  PROVE  IsFiniteSet(waiting) /\ Cardinality(waiting) <= Cardinality(Handlers)
<1> DEFINE adders == {g \in Handlers : jobs[g].step = "add"}
           second == [h \in adders |-> jobs[h].now]
<1>1. adders \in SUBSET Handlers
  OBVIOUS
<1>2. IsFiniteSet(adders) /\ Cardinality(adders) <= Cardinality(Handlers)
  <2> HIDE DEF adders
  <2>1. QED
    BY <1>1, FS_Subset
<1>3. second \in Surjection(adders, waiting)
  <2>1. second \in [adders -> waiting]
    OBVIOUS
  <2>2. \A s \in waiting : \E h \in adders : second[h] = s
    OBVIOUS
  <2>3. QED
    BY <2>1, <2>2 DEF Surjection
<1> HIDE DEF adders, second
<1>4. IsFiniteSet(waiting) /\ Cardinality(waiting) <= Cardinality(adders)
  BY <1>2, <1>3, FS_Surjection
<1>5. Cardinality(waiting) \in Nat /\ Cardinality(adders) \in Nat /\ Cardinality(Handlers) \in Nat
  BY <1>2, <1>4, FS_CardinalityType
<1>6. QED
  BY <1>2, <1>4, <1>5

\* A step that admits no second keeps the bound.
LEMMA AdmitsNone ==
  ASSUME LimiterTypeOK, IsFiniteSet(Handlers), Bounded, Admitted' \subseteq Admitted
  PROVE  Bounded'
<1>1. \A t \in Seconds : Promised(t)' \in SUBSET Promised(t)
  BY DEF Promised
<1>2. ASSUME NEW t \in Seconds
      PROVE  Cardinality(Promised(t)') < Limit + Cardinality(Handlers)
  <2>1. IsFiniteSet(Promised(t)) /\ Cardinality(Promised(t)) \in Nat
    BY PromisedFinite
  <2>2. IsFiniteSet(Promised(t)') /\ Cardinality(Promised(t)') <= Cardinality(Promised(t))
    BY <1>1, <2>1, FS_Subset
  <2>3. Cardinality(Promised(t)') \in Nat /\ Cardinality(Handlers) \in Nat
    BY <2>2, FS_CardinalityType
  <2>4. Cardinality(Promised(t)) < Limit + Cardinality(Handlers)
    BY DEF Bounded
  <2>5. QED
    BY <2>1, <2>2, <2>3, <2>4
<1>3. QED
  BY <1>2 DEF Bounded

\* A handler goes on to add the second it came in.
LEMMA CountBounded ==
  ASSUME LimiterInv, LimiterInv', StillIn, Bounded, IsFiniteSet(Handlers), NEW h \in Handlers, At(h, "count"),
         Cardinality(members) < Limit, MoveTo(h, "add"),
         UNCHANGED <<clock, members, expires, passed, failed>>
  PROVE  Bounded'
<1> SUFFICES ASSUME NEW t \in Seconds
             PROVE  Cardinality(Promised(t)') < Limit + Cardinality(Handlers)
  BY DEF Bounded
<1>1. PICK u \in Seconds : u = work[h].now
  BY DEF LimiterInv, LimiterTypeOK
<1>2. u \in Int /\ t \in Int /\ clock \in Int /\ u <= clock /\ clock <= u + MaxLag
  BY <1>1 DEF LimiterInv, LimiterTypeOK, Lagging, Seconds, At
<1>3. Waiting' \subseteq Waiting \cup {u}
  <2>1. work'[h].now = u /\ \A g \in Handlers \ {h} : work'[g] = work[g]
    BY <1>1 DEF MoveTo, LimiterInv, LimiterTypeOK
  <2>2. QED
    BY <2>1 DEF Waiting, At
<1>4. CASE t - Span < u /\ u <= t
  <2>1. \A s \in passed \ failed : s \in Int /\ (t - Span < s => s \in members)
    BY <1>2, <1>4 DEF LimiterInv, LimiterTypeOK, Seconds, StillIn, Span
  <2>2. Promised(t)' \in SUBSET (members \cup Waiting')
    BY <2>1 DEF Promised, Admitted, Span
  <2>3. IsFiniteSet(members)
    BY PromisedFinite DEF LimiterInv
  <2>4. IsFiniteSet(Waiting') /\ Cardinality(Waiting') <= Cardinality(Handlers)
    <3>1. Waiting' = {work'[g].now : g \in {f \in Handlers : work'[f].step = "add"}}
      BY DEF Waiting, At
    <3>2. QED
      BY <3>1, WaitingBounded
  <2>5. /\ IsFiniteSet(members \cup Waiting')
        /\ Cardinality(members \cup Waiting')
             = Cardinality(members) + Cardinality(Waiting') - Cardinality(members \cap Waiting')
        /\ IsFiniteSet(members \cap Waiting')
    BY <2>3, <2>4, FS_Union, FS_Intersection
  <2>6. /\ Cardinality(members) \in Nat /\ Cardinality(Waiting') \in Nat
        /\ Cardinality(members \cap Waiting') \in Nat /\ Cardinality(Handlers) \in Nat
    BY <2>3, <2>4, <2>5, FS_CardinalityType
  <2>7. Cardinality(Promised(t)') <= Cardinality(members \cup Waiting') /\ IsFiniteSet(Promised(t)')
    BY <2>2, <2>5, FS_Subset
  <2>8. Cardinality(Promised(t)') \in Nat
    BY <2>7, FS_CardinalityType
  <2>9. QED
    BY <2>4, <2>5, <2>6, <2>7, <2>8
<1>5. CASE ~(t - Span < u /\ u <= t)
  <2>1. Promised(t)' \in SUBSET Promised(t)
    BY <1>3, <1>5 DEF Promised, Admitted, Span
  <2>2. IsFiniteSet(Promised(t)) /\ Cardinality(Promised(t)) \in Nat
    BY PromisedFinite DEF LimiterInv
  <2>3. IsFiniteSet(Promised(t)') /\ Cardinality(Promised(t)') <= Cardinality(Promised(t))
    BY <2>1, <2>2, FS_Subset
  <2>4. Cardinality(Promised(t)') \in Nat /\ Cardinality(Handlers) \in Nat
    BY <2>3, FS_CardinalityType
  <2>5. Cardinality(Promised(t)) < Limit + Cardinality(Handlers)
    BY DEF Bounded
  <2>6. QED
    BY <2>2, <2>3, <2>4, <2>5
<1>6. QED
  BY <1>4, <1>5

LEMMA BoundedNext ==
  ASSUME LimiterInv, LimiterInv', StillIn, Bounded, IsFiniteSet(Handlers), [LimiterNext]_limiterVars
  PROVE  Bounded'
<1>1. LimiterTypeOK
  BY DEF LimiterInv
<1>2. CASE Tick \/ UNCHANGED limiterVars
  BY <1>1, <1>2, AdmitsNone DEF Tick, limiterVars, Admitted, Waiting, At
<1>3. ASSUME NEW h \in Handlers, NEW step \in {"trim", "count", "idle"}, NEW now,
             work' = [work EXCEPT ![h] = [step |-> step, now |-> now]]
      PROVE  Waiting' \subseteq Waiting /\ (work[h].step = "add" => work[h].now \in Waiting)
  BY <1>3 DEF Waiting, At, LimiterInv, LimiterTypeOK
<1>4. ASSUME NEW h \in Handlers, Enter(h) \/ Trim(h)
      PROVE  Bounded'
  <2>1. Waiting' \subseteq Waiting /\ UNCHANGED passed /\ failed \subseteq failed'
    BY <1>3, <1>4 DEF Enter, Trim, MoveTo, Failing
  <2>2. QED
    BY <1>1, <2>1, AdmitsNone DEF Admitted
<1>5. ASSUME NEW h \in Handlers, Add(h)
      PROVE  Bounded'
  <2>1. /\ work' = [work EXCEPT ![h] = [step |-> "idle", now |-> 0]] /\ work[h].step = "add"
        /\ passed' = passed \cup {work[h].now} /\ failed \subseteq failed'
    BY <1>5 DEF Add, Idle, Failing, At
  <2>2. Waiting' \subseteq Waiting /\ work[h].now \in Waiting
    BY <1>3, <2>1
  <2>3. QED
    BY <1>1, <2>1, <2>2, AdmitsNone DEF Admitted
<1>6. ASSUME NEW h \in Handlers, Count(h)
      PROVE  Bounded'
  <2>1. CASE work' = [work EXCEPT ![h] = Idle] /\ UNCHANGED failed
    <3>1. Waiting' \subseteq Waiting
      BY <1>3, <2>1 DEF Idle
    <3>2. QED
      BY <1>1, <1>6, <2>1, <3>1, AdmitsNone DEF Admitted, Count
  <2>2. CASE Cardinality(members) < Limit /\ MoveTo(h, "add") /\ UNCHANGED failed
    BY <1>6, <2>2, CountBounded DEF Count
  <2>3. CASE Failing(h) /\ MoveTo(h, "add")
    <3>1. work'[h].now = work[h].now /\ \A g \in Handlers \ {h} : work'[g] = work[g]
      BY <2>3 DEF MoveTo, LimiterInv, LimiterTypeOK
    <3>2. Waiting' \subseteq Waiting \cup {work[h].now}
      BY <3>1 DEF Waiting, At
    <3>3. failed' = failed \cup {work[h].now} /\ UNCHANGED passed
      BY <1>6, <2>3 DEF Failing, Count
    <3>4. QED
      BY <1>1, <3>2, <3>3, AdmitsNone DEF Admitted
  <2>4. QED
    BY <1>6, <2>1, <2>2, <2>3 DEF Count
<1>7. QED
  BY <1>2, <1>4, <1>5, <1>6 DEF LimiterNext

\* With finitely many requests worked on at a time, and at least one, the different
\* seconds of a window in which requests are let through stay below Limit and that
\* number together, seconds with failing commands apart.
THEOREM SecondsBounded ==
  ASSUME IsFiniteSet(Handlers), Handlers # {}
  PROVE  LimiterSpec => []BusySecondsBounded
<1>1. LimiterInit => StillIn /\ Bounded
  <2> SUFFICES ASSUME LimiterInit PROVE StillIn /\ Bounded
    OBVIOUS
  <2>1. StillIn
    BY DEF LimiterInit, StillIn
  <2>2. \A t \in Seconds : Promised(t) = {}
    BY DEF LimiterInit, Promised, Admitted, Waiting, At, Idle
  <2>3. Cardinality({}) = 0 /\ Cardinality(Handlers) \in Nat /\ Cardinality(Handlers) # 0
    BY FS_EmptySet, FS_CardinalityType
  <2>4. QED
    BY <2>1, <2>2, <2>3 DEF Bounded
<1>2. LimiterInv /\ LimiterInv' /\ StillIn /\ Bounded /\ [LimiterNext]_limiterVars => StillIn' /\ Bounded'
  BY StillInNext, BoundedNext
<1>3. LimiterInv /\ Bounded => BusySecondsBounded
  <2> SUFFICES ASSUME LimiterInv, Bounded, NEW t \in Seconds
               PROVE  Cardinality(Busy(t, Window - MaxLag) \ failed) < Limit + Cardinality(Handlers)
    BY DEF BusySecondsBounded
  <2> DEFINE busy == Busy(t, Window - MaxLag) \ failed
  <2>1. busy \in SUBSET Promised(t)
    BY DEF Busy, Promised, Admitted, Span
  <2> HIDE DEF busy
  <2>2. IsFiniteSet(Promised(t)) /\ Cardinality(Promised(t)) \in Nat
    BY PromisedFinite DEF LimiterInv
  <2>3. IsFiniteSet(busy) /\ Cardinality(busy) <= Cardinality(Promised(t))
    BY <2>1, <2>2, FS_Subset
  <2>4. Cardinality(busy) \in Nat /\ Cardinality(Handlers) \in Nat
    BY <2>3, FS_CardinalityType
  <2>5. Cardinality(Promised(t)) < Limit + Cardinality(Handlers)
    BY DEF Bounded
  <2>6. Cardinality(busy) < Limit + Cardinality(Handlers)
    BY <2>2, <2>3, <2>4, <2>5
  <2>7. QED
    BY <2>6 DEF busy
<1>4. QED
  BY <1>1, <1>2, <1>3, LimiterInvAlways, PTL DEF LimiterSpec

-----------------------------------------------------------------------------
\* The doors.  A door is described by tables, so the argument has two halves: what
\* every row of every table satisfies (ServerTables, PageTables, GatewayTables, which
\* GatewayAsked, ServerAsked and PageAsked say of a request), and an invariant that
\* each layer preserves because of it (DoorsInv).  The first half depends on no
\* instance, the second on no number of left out fields.

\* What two tables together hold, and what a rule does to a table of names.

LEMMA TogetherParts ==
  /\ \A f, g, n : n \in DOMAIN f => Together(f, g)[n] = f[n]
  /\ \A f, g, n : n \in DOMAIN g /\ n \notin DOMAIN f => Together(f, g)[n] = g[n]
  /\ \A f, g, n : n \in DOMAIN Together(f, g) <=> n \in DOMAIN f \/ n \in DOMAIN g
  BY DEF Together

LEMMA RuledParts ==
  /\ DOMAIN NoRule = {}
  /\ \A F, r, names : DOMAIN Ruled(F, r, names) = F \cup DOMAIN names
  /\ \A F, r, names : \A f \in F : Ruled(F, r, names)[f] = r
  /\ \A F, r, names : \A f \in DOMAIN names \ F : Ruled(F, r, names)[f] = names[f]
  BY DEF NoRule, Ruled, Together

\* The operators that build a row put into it what their names say.
RouteIs(route, fields) == route.fields = fields
FormIs(form, needs, may) == form.needs = needs /\ form.may = may

LEMMA RouteParts ==
  /\ \A verb, fields : RouteIs(Route(verb, fields), fields)
  /\ \A verb, fields, roles : RouteIs(For(roles, Route(verb, fields)), fields)
  BY DEF RouteIs, Route, For

LEMMA FormParts == \A needs, may : FormIs(Form(needs, may), needs, may)
  BY DEF FormIs, Form

\* A row of the gateway's handlers, and what is done with it to make another.
HandlerIs(row, passes, names, actor, fails, parses) ==
    /\ row.passes = passes /\ row.names = names
    /\ row.actor = actor /\ row.fails = fails /\ row.parses = parses

IsHandler(row) == row = [passes |-> row.passes, names |-> row.names, actor |-> row.actor,
                         fails |-> row.fails, done |-> row.done, parses |-> row.parses]

LEMMA HandlerSteps ==
  /\ \A fields : IsHandler(Passes(fields)) /\ HandlerIs(Passes(fields), fields, NoRule, "nobody", 500, {})
  /\ \A row, F, r : IsHandler(row) =>
        /\ IsHandler(Naming(F, r, row))
        /\ HandlerIs(Naming(F, r, row), row.passes, Ruled(F, r, row.names), row.actor, row.fails, row.parses)
  /\ \A row, who : IsHandler(row) =>
        /\ IsHandler(As(who, row))
        /\ HandlerIs(As(who, row), row.passes, row.names, who, row.fails, row.parses)
  /\ \A row, code : IsHandler(row) =>
        /\ IsHandler(Answering(code, row))
        /\ HandlerIs(Answering(code, row), row.passes, row.names, row.actor, code, row.parses)
  /\ \A row : IsHandler(row) =>
        /\ IsHandler(Creating(row))
        /\ HandlerIs(Creating(row), row.passes, row.names, row.actor, row.fails, row.parses)
  /\ \A row, T : IsHandler(row) =>
        HandlerIs(Parsing(T, row), row.passes, row.names, row.actor, row.fails, T)
<1>1. \A fields : IsHandler(Passes(fields)) /\ HandlerIs(Passes(fields), fields, NoRule, "nobody", 500, {})
  BY DEF Passes, IsHandler, HandlerIs
<1>2. ASSUME NEW row, NEW F, NEW r, IsHandler(row)
      PROVE  /\ IsHandler(Naming(F, r, row))
             /\ HandlerIs(Naming(F, r, row), row.passes, Ruled(F, r, row.names), row.actor, row.fails, row.parses)
  BY <1>2 DEF Naming, IsHandler, HandlerIs
<1>3. ASSUME NEW row, NEW who, IsHandler(row)
      PROVE  /\ IsHandler(As(who, row))
             /\ HandlerIs(As(who, row), row.passes, row.names, who, row.fails, row.parses)
  BY <1>3 DEF As, IsHandler, HandlerIs
<1>4. ASSUME NEW row, NEW code, IsHandler(row)
      PROVE  /\ IsHandler(Answering(code, row))
             /\ HandlerIs(Answering(code, row), row.passes, row.names, row.actor, code, row.parses)
  BY <1>4 DEF Answering, IsHandler, HandlerIs
<1>5. ASSUME NEW row, IsHandler(row)
      PROVE  /\ IsHandler(Creating(row))
             /\ HandlerIs(Creating(row), row.passes, row.names, row.actor, row.fails, row.parses)
  BY <1>5 DEF Creating, IsHandler, HandlerIs
<1>6. ASSUME NEW row, NEW T, IsHandler(row)
      PROVE  HandlerIs(Parsing(T, row), row.passes, row.names, row.actor, row.fails, T)
  BY <1>6 DEF Parsing, IsHandler, HandlerIs
<1>7. QED
  BY <1>1, <1>2, <1>3, <1>4, <1>5, <1>6

LEMMA HandlerParts ==
  /\ \A f : HandlerIs(Passes(f), f, NoRule, "nobody", 500, {})
  /\ \A f : HandlerIs(Creating(Passes(f)), f, NoRule, "nobody", 500, {})
  /\ \A f, c : HandlerIs(Answering(c, Passes(f)), f, NoRule, "nobody", c, {})
  /\ \A f, w : HandlerIs(As(w, Passes(f)), f, NoRule, w, 500, {})
  /\ \A f, w : HandlerIs(As(w, Creating(Passes(f))), f, NoRule, w, 500, {})
  /\ \A f, F, r : HandlerIs(Naming(F, r, Passes(f)), f, Ruled(F, r, NoRule), "nobody", 500, {})
  /\ \A f, F, r, G, q : HandlerIs(Naming(G, q, Naming(F, r, Passes(f))), f,
                                  Ruled(G, q, Ruled(F, r, NoRule)), "nobody", 500, {})
  /\ \A f, F, r : HandlerIs(Creating(Naming(F, r, Passes(f))), f, Ruled(F, r, NoRule), "nobody", 500, {})
  /\ \A f, F, r, w : HandlerIs(As(w, Naming(F, r, Passes(f))), f, Ruled(F, r, NoRule), w, 500, {})
  /\ \A f, F, r, w : HandlerIs(As(w, Creating(Naming(F, r, Passes(f)))), f, Ruled(F, r, NoRule), w, 500, {})
  BY HandlerSteps DEF HandlerIs

\* And one that parses texts itself.
LEMMA ParserParts ==
  /\ \A f, T : HandlerIs(Parsing(T, Passes(f)), f, NoRule, "nobody", 500, T)
  /\ \A f, w, T : HandlerIs(Parsing(T, As(w, Passes(f))), f, NoRule, w, 500, T)
  /\ \A f, F, r, T : HandlerIs(Parsing(T, Naming(F, r, Passes(f))), f, Ruled(F, r, NoRule), "nobody", 500, T)
  /\ \A f, F, r, w, T : HandlerIs(Parsing(T, As(w, Naming(F, r, Passes(f)))), f, Ruled(F, r, NoRule), w, 500, T)
  /\ \A f, F, r, w, T : HandlerIs(Parsing(T, As(w, Creating(Naming(F, r, Passes(f))))), f,
                                  Ruled(F, r, NoRule), w, 500, T)
  BY HandlerSteps DEF HandlerIs

\* A row of a gRPC server.
ServerIs(row, reads, needs, names, clears) ==
    row.reads = reads /\ row.needs = needs /\ row.names = names /\ row.clears = clears

IsServer(row) == row = [reads |-> row.reads, needs |-> row.needs, names |-> row.names, clears |-> row.clears]

LEMMA ServerSteps ==
  /\ \A f, n : IsServer(Reads(f, n)) /\ ServerIs(Reads(f, n), f, n, NoRule, {})
  /\ \A row, F, r : IsServer(row) =>
        /\ IsServer(Turning(F, r, row))
        /\ ServerIs(Turning(F, r, row), row.reads, row.needs, Ruled(F, r, row.names), row.clears)
  /\ \A row, c : IsServer(row) =>
        IsServer(Clearing(c, row)) /\ ServerIs(Clearing(c, row), row.reads, row.needs, row.names, c)
<1>1. \A f, n : IsServer(Reads(f, n)) /\ ServerIs(Reads(f, n), f, n, NoRule, {})
  BY DEF Reads, IsServer, ServerIs
<1>2. ASSUME NEW row, NEW F, NEW r, IsServer(row)
      PROVE  /\ IsServer(Turning(F, r, row))
             /\ ServerIs(Turning(F, r, row), row.reads, row.needs, Ruled(F, r, row.names), row.clears)
  BY <1>2 DEF Turning, IsServer, ServerIs
<1>3. ASSUME NEW row, NEW c, IsServer(row)
      PROVE  IsServer(Clearing(c, row)) /\ ServerIs(Clearing(c, row), row.reads, row.needs, row.names, c)
  BY <1>3 DEF Clearing, IsServer, ServerIs
<1>4. QED
  BY <1>1, <1>2, <1>3

LEMMA ServerParts ==
  /\ \A f, n : ServerIs(Reads(f, n), f, n, NoRule, {})
  /\ \A f, n, F, r : ServerIs(Turning(F, r, Reads(f, n)), f, n, Ruled(F, r, NoRule), {})
  /\ \A f, n, F, r, G, q : ServerIs(Turning(G, q, Turning(F, r, Reads(f, n))), f, n,
                                    Ruled(G, q, Ruled(F, r, NoRule)), {})
  /\ \A f, n, c : ServerIs(Clearing(c, Reads(f, n)), f, n, NoRule, c)
  BY ServerSteps DEF ServerIs

\* A row of a service's HTTP handlers.
PageIs(row, names, clears, code, parses) ==
    row.names = names /\ row.clears = clears /\ row.code = code /\ row.parses = parses

IsPage(row) == row = [path |-> row.path, reads |-> row.reads, needs |-> row.needs, names |-> row.names,
                      clears |-> row.clears, code |-> row.code, done |-> row.done, parses |-> row.parses]

LEMMA PageSteps ==
  /\ \A p, n, m : IsPage(Binds(p, n, m)) /\ PageIs(Binds(p, n, m), NoRule, {}, 0, {})
  /\ \A row, c : IsPage(row) =>
        IsPage(Coded(c, row)) /\ PageIs(Coded(c, row), row.names, row.clears, c, row.parses)
  /\ \A row : IsPage(row) =>
        IsPage(Made(row)) /\ PageIs(Made(row), row.names, row.clears, row.code, row.parses)
  /\ \A row, F, r : IsPage(row) =>
        /\ IsPage(Turning(F, r, row))
        /\ PageIs(Turning(F, r, row), Ruled(F, r, row.names), row.clears, row.code, row.parses)
  /\ \A row, f : IsPage(row) =>
        IsPage(Clearing(f, row)) /\ PageIs(Clearing(f, row), row.names, f, row.code, row.parses)
  /\ \A row : IsPage(row) =>
        IsPage(NoContent(row)) /\ PageIs(NoContent(row), row.names, row.clears, row.code, row.parses)
  /\ \A row, T : IsPage(row) => PageIs(Parsing(T, row), row.names, row.clears, row.code, T)
<1>1. \A p, n, m : IsPage(Binds(p, n, m)) /\ PageIs(Binds(p, n, m), NoRule, {}, 0, {})
  BY DEF Binds, IsPage, PageIs
<1>2. ASSUME NEW row, NEW c, IsPage(row)
      PROVE  IsPage(Coded(c, row)) /\ PageIs(Coded(c, row), row.names, row.clears, c, row.parses)
  BY <1>2 DEF Coded, IsPage, PageIs
<1>3. ASSUME NEW row, IsPage(row)
      PROVE  IsPage(Made(row)) /\ PageIs(Made(row), row.names, row.clears, row.code, row.parses)
  BY <1>3 DEF Made, IsPage, PageIs
<1>4. ASSUME NEW row, NEW F, NEW r, IsPage(row)
      PROVE  /\ IsPage(Turning(F, r, row))
             /\ PageIs(Turning(F, r, row), Ruled(F, r, row.names), row.clears, row.code, row.parses)
  BY <1>4 DEF Turning, IsPage, PageIs
<1>5. ASSUME NEW row, NEW f, IsPage(row)
      PROVE  IsPage(Clearing(f, row)) /\ PageIs(Clearing(f, row), row.names, f, row.code, row.parses)
  BY <1>5 DEF Clearing, IsPage, PageIs
<1>6. ASSUME NEW row, IsPage(row)
      PROVE  IsPage(NoContent(row)) /\ PageIs(NoContent(row), row.names, row.clears, row.code, row.parses)
  BY <1>6 DEF NoContent, IsPage, PageIs
<1>7. ASSUME NEW row, NEW T, IsPage(row)
      PROVE  PageIs(Parsing(T, row), row.names, row.clears, row.code, T)
  BY <1>7 DEF Parsing, IsPage, PageIs
<1>8. QED
  BY <1>1, <1>2, <1>3, <1>4, <1>5, <1>6, <1>7

LEMMA PageParts ==
  /\ \A p, n, m : PageIs(Binds(p, n, m), NoRule, {}, 0, {})
  /\ \A p, n, m : PageIs(Made(Binds(p, n, m)), NoRule, {}, 0, {})
  /\ \A p, n, m, c : PageIs(Coded(c, Binds(p, n, m)), NoRule, {}, c, {})
  /\ \A p, n, m : PageIs(NoContent(Binds(p, n, m)), NoRule, {}, 0, {})
  /\ \A p, n, m, f : PageIs(Clearing(f, Binds(p, n, m)), NoRule, f, 0, {})
  /\ \A p, n, m, F, r : PageIs(Turning(F, r, Binds(p, n, m)), Ruled(F, r, NoRule), {}, 0, {})
  /\ \A p, n, m, F, r : PageIs(Made(Turning(F, r, Binds(p, n, m))), Ruled(F, r, NoRule), {}, 0, {})
  /\ \A p, n, m, F, r, c : PageIs(Coded(c, Turning(F, r, Binds(p, n, m))), Ruled(F, r, NoRule), {}, c, {})
  /\ \A p, n, m, F, r, c : PageIs(Coded(c, Made(Turning(F, r, Binds(p, n, m)))), Ruled(F, r, NoRule), {}, c, {})
  BY PageSteps DEF PageIs

\* And one that parses texts itself.
LEMMA PageParserParts ==
  /\ \A p, n, m, T : PageIs(Parsing(T, Binds(p, n, m)), NoRule, {}, 0, T)
  /\ \A p, n, m, c, T : PageIs(Parsing(T, Coded(c, Binds(p, n, m))), NoRule, {}, c, T)
  /\ \A p, n, m, F, r, T : PageIs(Parsing(T, Turning(F, r, Binds(p, n, m))), Ruled(F, r, NoRule), {}, 0, T)
  /\ \A p, n, m, F, r, c, T : PageIs(Parsing(T, Coded(c, Turning(F, r, Binds(p, n, m)))),
                                     Ruled(F, r, NoRule), {}, c, T)
  BY PageSteps DEF PageIs

-----------------------------------------------------------------------------
\* What the rows do with names.  The fields a layer turns by a list of its own, where
\* every list has all the names of the domain.
Turned == {<<"user", "role">>, <<"document", "status">>, <<"task", "status">>, <<"task", "priority">>,
           <<"calendar", "event_type">>, <<"mail", "category">>, <<"mail", "status">>}

\* What each layer may do with a name it has no case for.
GatewayRules == {"unset", "raw", "refused"}
ServerRules == {"unset", "raw", "reminder", "reminder_if_given", "employee", "system", "queued",
                "categoryFromProto"}
PageRules == {"unset", "raw", "employee", "system"}

\* A rule does no harm to a name of the domain: a page goes by the domain's own list,
\* another layer leaves the name alone or goes by a list that has them all.
NameOk(s, f, rule, rules) ==
    /\ rule \in rules
    /\ \/ rules = PageRules
       \/ rule = "raw" /\ s # "notification"
       \/ rule = "categoryFromProto" /\ s = "notification"
       \/ rule \notin {"raw", "categoryFromProto"} /\ <<s, f>> \in Turned

NamesOk(s, names, rules) == \A f \in DOMAIN names : NameOk(s, f, names[f], rules)

FieldsOk(s, F, rule, rules) == \A f \in F : NameOk(s, f, rule, rules)

\* A table of names is sound when the rules it was built from are.
LEMMA NamesParts ==
  /\ \A s, rules : NamesOk(s, NoRule, rules)
  /\ \A s, rules, F, r, names : NamesOk(s, names, rules) /\ FieldsOk(s, F, r, rules)
                                    => NamesOk(s, Ruled(F, r, names), rules)
<1>1. \A s, rules : NamesOk(s, NoRule, rules)
  BY RuledParts DEF NamesOk
<1>2. ASSUME NEW s, NEW rules, NEW F, NEW r, NEW names, NamesOk(s, names, rules), FieldsOk(s, F, r, rules),
             NEW f, f \in DOMAIN Ruled(F, r, names)
      PROVE  NameOk(s, f, Ruled(F, r, names)[f], rules)
  <2>1. CASE f \in F
    <3>1. Ruled(F, r, names)[f] = r
      BY <2>1, RuledParts
    <3>2. NameOk(s, f, r, rules)
      BY <1>2, <2>1 DEF FieldsOk
    <3>3. QED
      BY <3>1, <3>2
  <2>2. CASE f \in DOMAIN names \ F
    <3>1. Ruled(F, r, names)[f] = names[f]
      BY <2>2, RuledParts
    <3>2. NameOk(s, f, names[f], rules)
      BY <1>2, <2>2 DEF NamesOk
    <3>3. QED
      BY <3>1, <3>2
  <2>3. f \in F \cup DOMAIN names
    <3>1. DOMAIN Ruled(F, r, names) = F \cup DOMAIN names
      BY RuledParts
    <3>2. QED
      BY <1>2, <3>1
  <2>4. QED
    BY <2>1, <2>2, <2>3
<1>3. QED
  BY <1>1, <1>2 DEF NamesOk

\* The gateway turns no name of a notification.
LEMMA NoTypesAtGateway == \A s, f, rule : NameOk(s, f, rule, GatewayRules) => s # "notification"
<1>1. GatewayRules # PageRules
  <2>1. "employee" \in PageRules /\ "employee" \notin GatewayRules
    BY DEF GatewayRules, PageRules
  <2>2. QED
    BY <2>1
<1>2. \A f : <<"notification", f>> \notin Turned
  BY DEF Turned
<1>3. \A rule \in GatewayRules : rule # "categoryFromProto"
  BY DEF GatewayRules
<1>4. QED
  BY <1>1, <1>2, <1>3 DEF NameOk

\* And the rules the three layers use are.
LEMMA GatewayNames ==
  /\ \A s, F : s # "notification" => FieldsOk(s, F, "raw", GatewayRules)
  /\ FieldsOk("user", {"role"}, "unset", GatewayRules)
  /\ FieldsOk("document", {"status"}, "unset", GatewayRules)
  /\ FieldsOk("document", {"status"}, "refused", GatewayRules)
  /\ FieldsOk("task", {"status"}, "refused", GatewayRules)
  /\ FieldsOk("task", {"status", "priority"}, "unset", GatewayRules)
  /\ FieldsOk("calendar", {"event_type"}, "unset", GatewayRules)
  /\ FieldsOk("mail", {"category", "status"}, "unset", GatewayRules)
  BY DEF FieldsOk, NameOk, GatewayRules, Turned

LEMMA ServerNames ==
  /\ \A s, F : s # "notification" => FieldsOk(s, F, "raw", ServerRules)
  /\ FieldsOk("user", {"role"}, "employee", ServerRules)
  /\ FieldsOk("user", {"role"}, "unset", ServerRules)
  /\ FieldsOk("document", {"status"}, "unset", ServerRules)
  /\ FieldsOk("task", {"priority"}, "unset", ServerRules)
  /\ FieldsOk("task", {"status"}, "unset", ServerRules)
  /\ FieldsOk("task", {"status", "priority"}, "unset", ServerRules)
  /\ FieldsOk("calendar", {"event_type"}, "reminder", ServerRules)
  /\ FieldsOk("calendar", {"event_type"}, "reminder_if_given", ServerRules)
  /\ FieldsOk("notification", {"category"}, "categoryFromProto", ServerRules)
  /\ FieldsOk("mail", {"category"}, "system", ServerRules)
  /\ FieldsOk("mail", {"status"}, "queued", ServerRules)
  BY DEF FieldsOk, NameOk, ServerRules, Turned

LEMMA PageNames ==
  /\ \A s, F : FieldsOk(s, F, "raw", PageRules)
  /\ \A s, F : FieldsOk(s, F, "unset", PageRules)
  /\ \A s, F : FieldsOk(s, F, "employee", PageRules)
  /\ \A s, F : FieldsOk(s, F, "system", PageRules)
  BY DEF FieldsOk, NameOk, PageRules

-----------------------------------------------------------------------------
\* The rows of the gRPC servers: what they need they read, what they write unasked is
\* an update that writes a row as a whole, and what they do with names is sound.
WrittenWhole(s, op) == Rewrites([service |-> s, op |-> op])

ServerRow(s, op, row) == /\ row.needs \subseteq row.reads
                         /\ row.clears = {} \/ WrittenWhole(s, op)
                         /\ NamesOk(s, row.names, ServerRules)

LEMMA ServerRowParts ==
  /\ \A s, op, f, n : n \subseteq f => ServerRow(s, op, Reads(f, n))
  /\ \A s, op, f, n, F, r : n \subseteq f /\ FieldsOk(s, F, r, ServerRules)
         => ServerRow(s, op, Turning(F, r, Reads(f, n)))
  /\ \A s, op, f, n, F, r, G, q : n \subseteq f /\ FieldsOk(s, F, r, ServerRules) /\ FieldsOk(s, G, q, ServerRules)
         => ServerRow(s, op, Turning(G, q, Turning(F, r, Reads(f, n))))
  /\ \A s, op, f, n, c : n \subseteq f /\ WrittenWhole(s, op) => ServerRow(s, op, Clearing(c, Reads(f, n)))
  BY NamesParts, ServerParts DEF ServerIs, ServerRow

\* Row by row.
LEMMA AuthServerRows == \A op \in DOMAIN AuthServer : ServerRow("auth", op, AuthServer[op])
  BY ServerRowParts, ServerNames DEF WrittenWhole, Rewrites, Is, Mine, AuthServer
LEMMA UserServerRows == \A op \in DOMAIN UserServer : ServerRow("user", op, UserServer[op])
  BY ServerRowParts, ServerNames DEF WrittenWhole, Rewrites, Is, Mine, UserServer
LEMMA UserAdminRows == \A op \in DOMAIN UserAdmin : ServerRow("user", op, UserAdmin[op])
  BY ServerRowParts, ServerNames DEF WrittenWhole, Rewrites, Is, Mine, UserAdmin
LEMMA DocumentServerBasicsRows ==
  \A op \in DOMAIN DocumentServerBasics : ServerRow("document", op, DocumentServerBasics[op])
  BY ServerRowParts, ServerNames DEF WrittenWhole, Rewrites, Is, Mine, DocumentServerBasics
LEMMA DocumentServerMovesRows ==
  \A op \in DOMAIN DocumentServerMoves : ServerRow("document", op, DocumentServerMoves[op])
  BY ServerRowParts, ServerNames DEF WrittenWhole, Rewrites, Is, Mine, DocumentServerMoves
LEMMA TaskServerBasicsRows ==
  \A op \in DOMAIN TaskServerBasics : ServerRow("task", op, TaskServerBasics[op])
  BY ServerRowParts, ServerNames DEF WrittenWhole, Rewrites, Is, Mine, TaskServerBasics
LEMMA TaskServerMovesRows ==
  \A op \in DOMAIN TaskServerMoves : ServerRow("task", op, TaskServerMoves[op])
  BY ServerRowParts, ServerNames DEF WrittenWhole, Rewrites, Is, Mine, TaskServerMoves
LEMMA CalendarServerViewsRows ==
  \A op \in DOMAIN CalendarServerViews : ServerRow("calendar", op, CalendarServerViews[op])
  BY ServerRowParts, ServerNames DEF WrittenWhole, Rewrites, Is, CalendarServerViews
LEMMA CalendarServerChangesRows ==
  \A op \in DOMAIN CalendarServerChanges : ServerRow("calendar", op, CalendarServerChanges[op])
  BY ServerRowParts, ServerNames DEF WrittenWhole, Rewrites, Is, CalendarServerChanges
LEMMA NotificationServerRows ==
  \A op \in DOMAIN NotificationServer : ServerRow("notification", op, NotificationServer[op])
  BY ServerRowParts, ServerNames DEF WrittenWhole, Rewrites, Is, Mine, NotificationServer
LEMMA NotificationChoicesServerRows ==
  \A op \in DOMAIN NotificationChoicesServer : ServerRow("notification", op, NotificationChoicesServer[op])
  BY ServerRowParts, ServerNames DEF WrittenWhole, Rewrites, Is, Mine, NotificationChoicesServer
LEMMA MailServerRows == \A op \in DOMAIN MailServer : ServerRow("mail", op, MailServer[op])
  BY ServerRowParts, ServerNames DEF WrittenWhole, Rewrites, Is, Mine, MailServer
LEMMA MailTemplatesServerRows ==
  \A op \in DOMAIN MailTemplatesServer : ServerRow("mail", op, MailTemplatesServer[op])
  BY ServerRowParts, ServerNames DEF WrittenWhole, Rewrites, Is, Mine, MailTemplatesServer

\* So every row of every server is sound.
LEMMA ServerTables ==
  ASSUME NEW s \in DOMAIN Servers, NEW op \in DOMAIN Servers[s]
  PROVE  ServerRow(s, op, Servers[s][op])
<1>1. CASE s = "auth"
  BY <1>1, AuthServerRows, TogetherParts DEF Servers
<1>2. CASE s = "user"
  BY <1>2, UserServerRows, UserAdminRows, TogetherParts DEF Servers
<1>3. CASE s = "document"
  BY <1>3, DocumentServerBasicsRows, DocumentServerMovesRows, TogetherParts DEF Servers
<1>4. CASE s = "task"
  BY <1>4, TaskServerBasicsRows, TaskServerMovesRows, TogetherParts DEF Servers
<1>5. CASE s = "calendar"
  BY <1>5, CalendarServerViewsRows, CalendarServerChangesRows, TogetherParts DEF Servers
<1>6. CASE s = "notification"
  BY <1>6, NotificationServerRows, NotificationChoicesServerRows, TogetherParts DEF Servers
<1>7. CASE s = "mail"
  BY <1>7, MailServerRows, MailTemplatesServerRows, TogetherParts DEF Servers
<1>8. QED
  BY <1>1, <1>2, <1>3, <1>4, <1>5, <1>6, <1>7 DEF Servers

-----------------------------------------------------------------------------
\* The rows of the HTTP handlers: as those of the servers, a fixed code is one of a
\* failure, or the operation is known to blame the caller, and no text is dropped that is
\* to be stored.
PageBlamed == Blamed([door |-> "http"])
Owned(code) == code \in 500 .. 599

PageRow(s, op, row) ==
    /\ row.clears = {} \/ WrittenWhole(s, op)
    /\ NamesOk(s, row.names, PageRules)
    /\ IF row.code = 0 THEN s \in {"user", "notification", "mail"} ELSE Owned(row.code) \/ op \in PageBlamed
    /\ op \in Keeps => row.parses = {}

LEMMA PageRowParts ==
  /\ \A s, op, p, n, m : s \in {"user", "notification", "mail"} => PageRow(s, op, Binds(p, n, m))
  /\ \A s, op, p, n, m : s \in {"user", "notification", "mail"} => PageRow(s, op, Made(Binds(p, n, m)))
  /\ \A s, op, p, n, m : s \in {"user", "notification", "mail"} => PageRow(s, op, NoContent(Binds(p, n, m)))
  /\ \A s, op, p, n, m, f : s \in {"user", "notification", "mail"} /\ WrittenWhole(s, op)
         => PageRow(s, op, Clearing(f, Binds(p, n, m)))
  /\ \A s, op, p, n, m, F, r : s \in {"user", "notification", "mail"} /\ FieldsOk(s, F, r, PageRules)
         => PageRow(s, op, Turning(F, r, Binds(p, n, m)))
  /\ \A s, op, p, n, m, F, r : s \in {"user", "notification", "mail"} /\ FieldsOk(s, F, r, PageRules)
         => PageRow(s, op, Made(Turning(F, r, Binds(p, n, m))))
  /\ \A s, op, p, n, m : PageRow(s, op, Coded(500, Binds(p, n, m)))
  /\ \A s, op, p, n, m, c : op \in PageBlamed /\ c \in {400, 401, 404} => PageRow(s, op, Coded(c, Binds(p, n, m)))
  /\ \A s, op, p, n, m, F, r : FieldsOk(s, F, r, PageRules)
         => PageRow(s, op, Coded(500, Turning(F, r, Binds(p, n, m))))
  /\ \A s, op, p, n, m, F, r, c : FieldsOk(s, F, r, PageRules) /\ op \in PageBlamed /\ c \in {400, 401, 404}
         => PageRow(s, op, Coded(c, Turning(F, r, Binds(p, n, m))))
  /\ \A s, op, p, n, m, F, r : FieldsOk(s, F, r, PageRules)
         => PageRow(s, op, Coded(500, Made(Turning(F, r, Binds(p, n, m)))))
  BY NamesParts, PageParts DEF PageIs, PageRow, Owned

LEMMA PageParserRowParts ==
  /\ \A s, op, p, n, m, T : s \in {"user", "notification", "mail"} /\ op \notin Keeps
         => PageRow(s, op, Parsing(T, Binds(p, n, m)))
  /\ \A s, op, p, n, m, T : op \notin Keeps => PageRow(s, op, Parsing(T, Coded(500, Binds(p, n, m))))
  /\ \A s, op, p, n, m, F, r, T : s \in {"user", "notification", "mail"} /\ FieldsOk(s, F, r, PageRules)
                                     /\ op \notin Keeps
         => PageRow(s, op, Parsing(T, Turning(F, r, Binds(p, n, m))))
  /\ \A s, op, p, n, m, F, r, T : FieldsOk(s, F, r, PageRules) /\ op \notin Keeps
         => PageRow(s, op, Parsing(T, Coded(500, Turning(F, r, Binds(p, n, m)))))
  BY NamesParts, PageParserParts DEF PageIs, PageRow, Owned

\* Row by row.
LEMMA AuthRegistrationRows ==
  \A op \in DOMAIN AuthRegistration : PageRow("auth", op, AuthRegistration[op])
  BY PageRowParts, PageNames DEF WrittenWhole, Rewrites, Is, PageBlamed, Blamed, AuthRegistration
LEMMA AuthCredentialsRows ==
  \A op \in DOMAIN AuthCredentials : PageRow("auth", op, AuthCredentials[op])
  BY PageRowParts, PageNames DEF WrittenWhole, Rewrites, Is, PageBlamed, Blamed, AuthCredentials
LEMMA UserProfilesRows == \A op \in DOMAIN UserProfiles : PageRow("user", op, UserProfiles[op])
  BY PageRowParts, PageParserRowParts, PageNames
     DEF WrittenWhole, Rewrites, Is, PageBlamed, Blamed, Keeps, UserProfiles
LEMMA UserChecksRows == \A op \in DOMAIN UserChecks : PageRow("user", op, UserChecks[op])
  BY PageRowParts, PageNames DEF WrittenWhole, Rewrites, Is, PageBlamed, Blamed, UserChecks
LEMMA DocumentRecordsRows ==
  \A op \in DOMAIN DocumentRecords : PageRow("document", op, DocumentRecords[op])
  BY PageRowParts, PageParserRowParts, PageNames
     DEF WrittenWhole, Rewrites, Is, PageBlamed, Blamed, Keeps, DocumentRecords
LEMMA DocumentWorkflowRows ==
  \A op \in DOMAIN DocumentWorkflow : PageRow("document", op, DocumentWorkflow[op])
  BY PageRowParts, PageParserRowParts, PageNames
     DEF WrittenWhole, Rewrites, Is, PageBlamed, Blamed, Keeps, DocumentWorkflow
LEMMA DocumentReportsRows ==
  \A op \in DOMAIN DocumentReports : PageRow("document", op, DocumentReports[op])
  BY PageRowParts, PageNames DEF WrittenWhole, Rewrites, Is, PageBlamed, Blamed, DocumentReports
LEMMA TaskRecordsRows == \A op \in DOMAIN TaskRecords : PageRow("task", op, TaskRecords[op])
  BY PageRowParts, PageNames DEF WrittenWhole, Rewrites, Is, PageBlamed, Blamed, TaskRecords
LEMMA TaskWorkflowRows == \A op \in DOMAIN TaskWorkflow : PageRow("task", op, TaskWorkflow[op])
  BY PageRowParts, PageParserRowParts, PageNames
     DEF WrittenWhole, Rewrites, Is, PageBlamed, Blamed, Keeps, TaskWorkflow
LEMMA TaskReportsRows == \A op \in DOMAIN TaskReports : PageRow("task", op, TaskReports[op])
  BY PageRowParts, PageNames DEF WrittenWhole, Rewrites, Is, PageBlamed, Blamed, TaskReports
LEMMA CalendarRecordsRows ==
  \A op \in DOMAIN CalendarRecords : PageRow("calendar", op, CalendarRecords[op])
  BY PageRowParts, PageNames DEF WrittenWhole, Rewrites, Is, PageBlamed, Blamed, CalendarRecords
LEMMA CalendarPagesRows ==
  \A op \in DOMAIN CalendarPages : PageRow("calendar", op, CalendarPages[op])
  BY PageRowParts, PageParserRowParts, PageNames
     DEF WrittenWhole, Rewrites, Is, PageBlamed, Blamed, Keeps, CalendarPages
LEMMA CalendarReportsRows ==
  \A op \in DOMAIN CalendarReports : PageRow("calendar", op, CalendarReports[op])
  BY PageRowParts, PageNames DEF WrittenWhole, Rewrites, Is, PageBlamed, Blamed, CalendarReports
LEMMA NotificationSendingRows ==
  \A op \in DOMAIN NotificationSending : PageRow("notification", op, NotificationSending[op])
  BY PageRowParts, PageNames DEF WrittenWhole, Rewrites, Is, PageBlamed, Blamed, NotificationSending
LEMMA NotificationReadingRows ==
  \A op \in DOMAIN NotificationReading : PageRow("notification", op, NotificationReading[op])
  BY PageRowParts, PageParserRowParts, PageNames
     DEF WrittenWhole, Rewrites, Is, PageBlamed, Blamed, Keeps, NotificationReading
LEMMA NotificationSettingsRows ==
  \A op \in DOMAIN NotificationSettings : PageRow("notification", op, NotificationSettings[op])
  BY PageRowParts, PageNames DEF WrittenWhole, Rewrites, Is, PageBlamed, Blamed, NotificationSettings
LEMMA MailSendingRows == \A op \in DOMAIN MailSending : PageRow("mail", op, MailSending[op])
  BY PageRowParts, PageParserRowParts, PageNames
     DEF WrittenWhole, Rewrites, Is, PageBlamed, Blamed, Keeps, MailSending
LEMMA MailTemplatePagesRows ==
  \A op \in DOMAIN MailTemplatePages : PageRow("mail", op, MailTemplatePages[op])
  BY PageRowParts, PageParserRowParts, PageNames
     DEF WrittenWhole, Rewrites, Is, PageBlamed, Blamed, Keeps, MailTemplatePages

\* So every row of every page is sound.
LEMMA PageTables ==
  ASSUME NEW s \in DOMAIN Pages, NEW op \in DOMAIN Pages[s]
  PROVE  PageRow(s, op, Pages[s][op])
<1>1. CASE s = "auth"
  BY <1>1, AuthRegistrationRows, AuthCredentialsRows, TogetherParts DEF Pages
<1>2. CASE s = "user"
  BY <1>2, UserProfilesRows, UserChecksRows, TogetherParts DEF Pages
<1>3. CASE s = "document"
  BY <1>3, DocumentRecordsRows, DocumentWorkflowRows, DocumentReportsRows, TogetherParts DEF Pages
<1>4. CASE s = "task"
  BY <1>4, TaskRecordsRows, TaskWorkflowRows, TaskReportsRows, TogetherParts DEF Pages
<1>5. CASE s = "calendar"
  BY <1>5, CalendarRecordsRows, CalendarPagesRows, CalendarReportsRows, TogetherParts DEF Pages
<1>6. CASE s = "notification"
  BY <1>6, NotificationSendingRows, NotificationReadingRows, NotificationSettingsRows, TogetherParts
     DEF Pages
<1>7. CASE s = "mail"
  BY <1>7, MailSendingRows, MailTemplatePagesRows, TogetherParts DEF Pages
<1>8. QED
  BY <1>1, <1>2, <1>3, <1>4, <1>5, <1>6, <1>7 DEF Pages

-----------------------------------------------------------------------------
\* The rows of the gateway: what a handler does with names, the code of a failure and the
\* texts it may drop: of what is to be stored, the dates only.
GatewayBlamed == Blamed([door |-> "gateway"])

HandlerRow(s, op, row) ==
    /\ NamesOk(s, row.names, GatewayRules)
    /\ Owned(row.fails) \/ op \in GatewayBlamed
    /\ op \in Keeps => row.parses \subseteq Dates

LEMMA HandlerRowParts ==
  /\ \A s, op, f : HandlerRow(s, op, Passes(f))
  /\ \A s, op, f : HandlerRow(s, op, Creating(Passes(f)))
  /\ \A s, op, f, c : c \in {200, 401, 404} /\ op \in GatewayBlamed => HandlerRow(s, op, Answering(c, Passes(f)))
  /\ \A s, op, f, w : HandlerRow(s, op, As(w, Passes(f)))
  /\ \A s, op, f, w : HandlerRow(s, op, As(w, Creating(Passes(f))))
  /\ \A s, op, f, F, r : FieldsOk(s, F, r, GatewayRules)
         => HandlerRow(s, op, Naming(F, r, Passes(f)))
  /\ \A s, op, f, F, r, G, q : FieldsOk(s, F, r, GatewayRules) /\ FieldsOk(s, G, q, GatewayRules)
         => HandlerRow(s, op, Naming(G, q, Naming(F, r, Passes(f))))
  /\ \A s, op, f, F, r : FieldsOk(s, F, r, GatewayRules)
         => HandlerRow(s, op, Creating(Naming(F, r, Passes(f))))
  /\ \A s, op, f, F, r, w : FieldsOk(s, F, r, GatewayRules)
         => HandlerRow(s, op, As(w, Naming(F, r, Passes(f))))
  /\ \A s, op, f, F, r, w : FieldsOk(s, F, r, GatewayRules)
         => HandlerRow(s, op, As(w, Creating(Naming(F, r, Passes(f)))))
  BY NamesParts, HandlerParts, RuledParts DEF HandlerIs, HandlerRow, Owned

Droppable(op, T) == op \notin Keeps \/ T \subseteq Dates

LEMMA ParserRowParts ==
  /\ \A s, op, f, T : Droppable(op, T) => HandlerRow(s, op, Parsing(T, Passes(f)))
  /\ \A s, op, f, w, T : Droppable(op, T) => HandlerRow(s, op, Parsing(T, As(w, Passes(f))))
  /\ \A s, op, f, F, r, T : FieldsOk(s, F, r, GatewayRules) /\ Droppable(op, T)
         => HandlerRow(s, op, Parsing(T, Naming(F, r, Passes(f))))
  /\ \A s, op, f, F, r, w, T : FieldsOk(s, F, r, GatewayRules) /\ Droppable(op, T)
         => HandlerRow(s, op, Parsing(T, As(w, Naming(F, r, Passes(f)))))
  /\ \A s, op, f, F, r, w, T : FieldsOk(s, F, r, GatewayRules) /\ Droppable(op, T)
         => HandlerRow(s, op, Parsing(T, As(w, Creating(Naming(F, r, Passes(f))))))
  BY NamesParts, ParserParts, RuledParts DEF HandlerIs, HandlerRow, Owned, Droppable

\* Row by row.
LEMMA UserHandlersRows == \A op \in DOMAIN UserHandlers : HandlerRow("user", op, UserHandlers[op])
  BY HandlerRowParts, ParserRowParts, GatewayNames
     DEF GatewayBlamed, Blamed, Droppable, Keeps, Dates, UserHandlers
LEMMA DocumentBasicsRows ==
  \A op \in DOMAIN DocumentBasics : HandlerRow("document", op, DocumentBasics[op])
  BY HandlerRowParts, ParserRowParts, GatewayNames
     DEF GatewayBlamed, Blamed, Droppable, Keeps, Dates, DocumentBasics
LEMMA DocumentMovesRows ==
  \A op \in DOMAIN DocumentMoves : HandlerRow("document", op, DocumentMoves[op])
  BY HandlerRowParts, GatewayNames DEF GatewayBlamed, Blamed, DocumentMoves
LEMMA TaskBasicsRows == \A op \in DOMAIN TaskBasics : HandlerRow("task", op, TaskBasics[op])
  BY HandlerRowParts, ParserRowParts, GatewayNames
     DEF GatewayBlamed, Blamed, Droppable, Keeps, Dates, TaskBasics
LEMMA TaskMovesRows == \A op \in DOMAIN TaskMoves : HandlerRow("task", op, TaskMoves[op])
  BY HandlerRowParts, GatewayNames DEF GatewayBlamed, Blamed, TaskMoves
LEMMA CalendarViewsRows ==
  \A op \in DOMAIN CalendarViews : HandlerRow("calendar", op, CalendarViews[op])
  BY HandlerRowParts, ParserRowParts, GatewayNames
     DEF GatewayBlamed, Blamed, Droppable, Keeps, Dates, CalendarViews
LEMMA CalendarNewRows == \A op \in DOMAIN CalendarNew : HandlerRow("calendar", op, CalendarNew[op])
  BY HandlerRowParts, ParserRowParts, GatewayNames
     DEF GatewayBlamed, Blamed, Droppable, Keeps, Dates, CalendarNew
LEMMA CalendarChangesRows ==
  \A op \in DOMAIN CalendarChanges : HandlerRow("calendar", op, CalendarChanges[op])
  BY HandlerRowParts, ParserRowParts, GatewayNames
     DEF GatewayBlamed, Blamed, Droppable, Keeps, Dates, CalendarChanges
LEMMA NotificationInboxDoorRows ==
  \A op \in DOMAIN NotificationInboxDoor : HandlerRow("notification", op, NotificationInboxDoor[op])
  BY HandlerRowParts, ParserRowParts, GatewayNames
     DEF GatewayBlamed, Blamed, Droppable, Keeps, Dates, NotificationInboxDoor
LEMMA NotificationChoicesRows ==
  \A op \in DOMAIN NotificationChoices : HandlerRow("notification", op, NotificationChoices[op])
  BY HandlerRowParts, GatewayNames DEF GatewayBlamed, Blamed, NotificationChoices
LEMMA MailJobsDoorRows == \A op \in DOMAIN MailJobsDoor : HandlerRow("mail", op, MailJobsDoor[op])
  BY HandlerRowParts, ParserRowParts, GatewayNames
     DEF GatewayBlamed, Blamed, Droppable, Keeps, Dates, MailJobsDoor
LEMMA MailTemplatesDoorRows ==
  \A op \in DOMAIN MailTemplatesDoor : HandlerRow("mail", op, MailTemplatesDoor[op])
  BY HandlerRowParts, ParserRowParts, GatewayNames
     DEF GatewayBlamed, Blamed, Droppable, Keeps, Dates, MailTemplatesDoor
LEMMA AuthSessionsRows == \A op \in DOMAIN AuthSessions : HandlerRow("auth", op, AuthSessions[op])
  BY HandlerRowParts, GatewayNames DEF GatewayBlamed, Blamed, AuthSessions
LEMMA AuthPasswordsRows ==
  \A op \in DOMAIN AuthPasswords : HandlerRow("auth", op, AuthPasswords[op])
  BY HandlerRowParts, GatewayNames DEF GatewayBlamed, Blamed, AuthPasswords

\* A handler and the server behind it are two tables written apart.  Between them, what
\* the route and the form let in gets through but for what is known to be lost, a name
\* the handler turns is one the server turns, and where the server reads an actor the
\* handler puts one down that it may.
Lost(s, op) == InVain([door |-> "gateway", service |-> s, op |-> op])

Signing(s, op, who) ==
    \/ s = "auth"
    \/ who = "caller"
    \/ who = "named_or_caller" /\ op \in {"CreateEvent", "SendEmail"}
    \/ who = "named_by_an_admin" /\ op = "GetNotificationHistory"
    \/ who = "named" /\ op = "SubmitMailJob"

Passage(s, op, route, form, row, server) ==
    /\ (route.fields \cup form.needs \cup form.may) \ (DOMAIN row.names \cup Lost(s, op) \cup {"actor"})
           \subseteq row.passes \cap server.reads
    /\ DOMAIN row.names \subseteq DOMAIN server.names
    /\ "actor" \in server.reads => Signing(s, op, row.actor)

\* The fields a table of names speaks of.
LEMMA RuledDomains ==
  /\ DOMAIN NoRule = {}
  /\ \A F, r, f : f \in DOMAIN Ruled(F, r, NoRule) <=> f \in F
  /\ \A F, r, G, q, f : f \in DOMAIN Ruled(G, q, Ruled(F, r, NoRule)) <=> f \in F \/ f \in G
  BY DEF NoRule, Ruled, Together

\* Row by row again.
LEMMA UserHandlersPass ==
  ASSUME NEW op \in DOMAIN UserHandlers, op # "BanUser", NEW h, h = UserHandlers[op],
         NEW rt, rt = UserRoutes[op],
         NEW fm, fm = FormOf("user", op), NEW sv, sv = UserServer[op]
  PROVE  op \in DOMAIN UserServer /\ Passage("user", op, rt, fm, h, sv)
  BY RouteParts, FormParts, HandlerParts, ParserParts, ServerParts, RuledDomains
     DEF Passage, Signing, Lost, InVain, Is, RouteIs, FormIs, HandlerIs, ServerIs, FormOf, NoForm,
         UserRoutes, UserForms, UserHandlers, UserServer, Paged

LEMMA BanUserPasses ==
  ASSUME NEW op \in DOMAIN UserHandlers, op = "BanUser", NEW h, h = UserHandlers[op],
         NEW rt, rt = UserRoutes[op],
         NEW fm, fm = FormOf("user", op), NEW sv, sv = UserAdmin[op]
  PROVE  op \in DOMAIN UserAdmin /\ Passage("user", op, rt, fm, h, sv)
  BY RouteParts, FormParts, HandlerParts, ServerParts, RuledDomains
     DEF Passage, Signing, Lost, InVain, Is, RouteIs, FormIs, HandlerIs, ServerIs, FormOf, NoForm,
         UserRoutes, UserForms, UserHandlers, UserAdmin, Paged

LEMMA DocumentBasicsPass ==
  ASSUME NEW op \in DOMAIN DocumentBasics, NEW h, h = DocumentBasics[op], NEW rt, rt = DocumentRoutes[op],
         NEW fm, fm = FormOf("document", op), NEW sv, sv = DocumentServerBasics[op]
  PROVE  op \in DOMAIN DocumentServerBasics /\ Passage("document", op, rt, fm, h, sv)
  BY RouteParts, FormParts, HandlerParts, ParserParts, ServerParts, RuledDomains
     DEF Passage, Signing, Lost, InVain, Is, RouteIs, FormIs, HandlerIs, ServerIs, FormOf, NoForm,
         DocumentRoutes, DocumentForms, DocumentBasics, DocumentServerBasics, Paged

LEMMA DocumentMovesPass ==
  ASSUME NEW op \in DOMAIN DocumentMoves, NEW h, h = DocumentMoves[op], NEW rt, rt = DocumentRoutes[op],
         NEW fm, fm = FormOf("document", op), NEW sv, sv = DocumentServerMoves[op]
  PROVE  op \in DOMAIN DocumentServerMoves /\ Passage("document", op, rt, fm, h, sv)
<1>1. CASE op = "FilterDocuments"
  BY <1>1, RouteParts, FormParts, HandlerParts, ServerParts, RuledDomains
     DEF Passage, Signing, Lost, InVain, Is, RouteIs, FormIs, HandlerIs, ServerIs, FormOf, NoForm,
         DocumentRoutes, DocumentForms, DocumentMoves, DocumentServerMoves, Paged
<1>2. CASE op = "ExportDocuments"
  BY <1>2, RouteParts, FormParts, HandlerParts, ServerParts, RuledDomains
     DEF Passage, Signing, Lost, InVain, Is, RouteIs, FormIs, HandlerIs, ServerIs, FormOf, NoForm,
         DocumentRoutes, DocumentForms, DocumentMoves, DocumentServerMoves, Paged
<1>3. CASE op \notin {"FilterDocuments", "ExportDocuments"}
  BY <1>3, RouteParts, FormParts, HandlerParts, ServerParts, RuledDomains
     DEF Passage, Signing, Lost, InVain, Is, RouteIs, FormIs, HandlerIs, ServerIs, FormOf, NoForm,
         DocumentRoutes, DocumentForms, DocumentMoves, DocumentServerMoves, Paged
<1>4. QED
  BY <1>1, <1>2, <1>3

LEMMA TaskBasicsPass ==
  ASSUME NEW op \in DOMAIN TaskBasics, NEW h, h = TaskBasics[op], NEW rt, rt = TaskRoutes[op],
         NEW fm, fm = FormOf("task", op), NEW sv, sv = TaskServerBasics[op]
  PROVE  op \in DOMAIN TaskServerBasics /\ Passage("task", op, rt, fm, h, sv)
  BY RouteParts, FormParts, HandlerParts, ParserParts, ServerParts, RuledDomains
     DEF Passage, Signing, Lost, InVain, Is, RouteIs, FormIs, HandlerIs, ServerIs, FormOf, NoForm,
         TaskRoutes, TaskForms, TaskBasics, TaskServerBasics, Paged

LEMMA TaskMovesPass ==
  ASSUME NEW op \in DOMAIN TaskMoves, NEW h, h = TaskMoves[op], NEW rt, rt = TaskRoutes[op],
         NEW fm, fm = FormOf("task", op), NEW sv, sv = TaskServerMoves[op]
  PROVE  op \in DOMAIN TaskServerMoves /\ Passage("task", op, rt, fm, h, sv)
  BY RouteParts, FormParts, HandlerParts, ServerParts, RuledDomains
     DEF Passage, Signing, Lost, InVain, Is, RouteIs, FormIs, HandlerIs, ServerIs, FormOf, NoForm,
         TaskRoutes, TaskForms, TaskMoves, TaskServerMoves, Paged

LEMMA CalendarViewsPass ==
  ASSUME NEW op \in DOMAIN CalendarViews, op # "GetEventStats", NEW h, h = CalendarViews[op],
         NEW rt, rt = CalendarRoutes[op],
         NEW fm, fm = FormOf("calendar", op), NEW sv, sv = CalendarServerViews[op]
  PROVE  op \in DOMAIN CalendarServerViews /\ Passage("calendar", op, rt, fm, h, sv)
  BY RouteParts, FormParts, HandlerParts, ParserParts, ServerParts, RuledDomains
     DEF Passage, Signing, Lost, InVain, Is, RouteIs, FormIs, HandlerIs, ServerIs, FormOf, NoForm,
         CalendarRoutes, CalendarForms, CalendarViews, CalendarServerViews

LEMMA EventStatsPass ==
  ASSUME NEW op \in DOMAIN CalendarViews, op = "GetEventStats", NEW h, h = CalendarViews[op],
         NEW rt, rt = CalendarRoutes[op],
         NEW fm, fm = FormOf("calendar", op), NEW sv, sv = CalendarServerChanges[op]
  PROVE  op \in DOMAIN CalendarServerChanges /\ Passage("calendar", op, rt, fm, h, sv)
  BY RouteParts, FormParts, HandlerParts, ServerParts, RuledDomains
     DEF Passage, Signing, Lost, InVain, Is, RouteIs, FormIs, HandlerIs, ServerIs, FormOf, NoForm,
         CalendarRoutes, CalendarForms, CalendarViews, CalendarServerChanges

LEMMA CalendarNewPasses ==
  ASSUME NEW op \in DOMAIN CalendarNew, NEW h, h = CalendarNew[op], NEW rt, rt = CalendarRoutes[op],
         NEW fm, fm = FormOf("calendar", op), NEW sv, sv = CalendarServerViews[op]
  PROVE  op \in DOMAIN CalendarServerViews /\ Passage("calendar", op, rt, fm, h, sv)
  BY RouteParts, FormParts, HandlerParts, ParserParts, ServerParts, RuledDomains
     DEF Passage, Signing, Lost, InVain, Is, RouteIs, FormIs, HandlerIs, ServerIs, FormOf, NoForm,
         CalendarRoutes, CalendarForms, CalendarNew, CalendarServerViews

LEMMA CalendarChangesPass ==
  ASSUME NEW op \in DOMAIN CalendarChanges, NEW h, h = CalendarChanges[op],
         NEW rt, rt = CalendarRoutes[op],
         NEW fm, fm = FormOf("calendar", op), NEW sv, sv = CalendarServerChanges[op]
  PROVE  op \in DOMAIN CalendarServerChanges /\ Passage("calendar", op, rt, fm, h, sv)
  BY RouteParts, FormParts, HandlerParts, ParserParts, ServerParts, RuledDomains
     DEF Passage, Signing, Lost, InVain, Is, RouteIs, FormIs, HandlerIs, ServerIs, FormOf, NoForm,
         CalendarRoutes, CalendarForms, CalendarChanges, CalendarServerChanges

LEMMA NotificationInboxPass ==
  ASSUME NEW op \in DOMAIN NotificationInboxDoor, NEW h, h = NotificationInboxDoor[op],
         NEW rt, rt = NotificationRoutes[op],
         NEW fm, fm = FormOf("notification", op), NEW sv, sv = NotificationServer[op]
  PROVE  op \in DOMAIN NotificationServer /\ Passage("notification", op, rt, fm, h, sv)
  BY RouteParts, FormParts, HandlerParts, ParserParts, ServerParts, RuledDomains
     DEF Passage, Signing, Lost, InVain, Is, RouteIs, FormIs, HandlerIs, ServerIs, FormOf, NoForm,
         NotificationRoutes, NotificationForms, NotificationInboxDoor, NotificationServer, Flags,
         Booleans, Mine

LEMMA NotificationUpkeepPass ==
  ASSUME NEW op \in DOMAIN NotificationChoices, op \in {"DeleteNotification", "GetTemplate"},
         NEW h, h = NotificationChoices[op], NEW rt, rt = NotificationRoutes[op],
         NEW fm, fm = FormOf("notification", op), NEW sv, sv = NotificationServer[op]
  PROVE  op \in DOMAIN NotificationServer /\ Passage("notification", op, rt, fm, h, sv)
  BY RouteParts, FormParts, HandlerParts, ServerParts, RuledDomains
     DEF Passage, Signing, Lost, InVain, Is, RouteIs, FormIs, HandlerIs, ServerIs, FormOf, NoForm,
         NotificationRoutes, NotificationForms, NotificationChoices, NotificationServer, Flags, Booleans,
         Mine

LEMMA NotificationChoicesPass ==
  ASSUME NEW op \in DOMAIN NotificationChoices, op \notin {"DeleteNotification", "GetTemplate"},
         NEW h, h = NotificationChoices[op], NEW rt, rt = NotificationRoutes[op],
         NEW fm, fm = FormOf("notification", op), NEW sv, sv = NotificationChoicesServer[op]
  PROVE  op \in DOMAIN NotificationChoicesServer /\ Passage("notification", op, rt, fm, h, sv)
  BY RouteParts, FormParts, HandlerParts, ServerParts, RuledDomains
     DEF Passage, Signing, Lost, InVain, Is, RouteIs, FormIs, HandlerIs, ServerIs, FormOf, NoForm,
         NotificationRoutes, NotificationForms, NotificationChoices, NotificationChoicesServer, Flags,
         Booleans, Mine

LEMMA MailJobsPass ==
  ASSUME NEW op \in DOMAIN MailJobsDoor, NEW h, h = MailJobsDoor[op], NEW rt, rt = MailRoutes[op],
         NEW fm, fm = FormOf("mail", op), NEW sv, sv = MailServer[op]
  PROVE  op \in DOMAIN MailServer /\ Passage("mail", op, rt, fm, h, sv)
<1>1. CASE op \in {"SubmitMailJob", "ListMailJobs"}
  BY <1>1, RouteParts, FormParts, ParserParts, ServerParts, RuledDomains
     DEF Passage, Signing, Lost, InVain, Is, RouteIs, FormIs, HandlerIs, ServerIs, FormOf, NoForm,
         MailRoutes, MailForms, MailJobsDoor, MailServer, Letter, Mail, Mine
<1>2. CASE op \notin {"SubmitMailJob", "ListMailJobs"}
  BY <1>2, RouteParts, FormParts, HandlerParts, ServerParts, RuledDomains
     DEF Passage, Signing, Lost, InVain, Is, RouteIs, FormIs, HandlerIs, ServerIs, FormOf, NoForm,
         MailRoutes, MailForms, MailJobsDoor, MailServer, Letter, Mail, Mine
<1>3. QED
  BY <1>1, <1>2

LEMMA MailTemplatesPass ==
  ASSUME NEW op \in DOMAIN MailTemplatesDoor, NEW h, h = MailTemplatesDoor[op],
         NEW rt, rt = MailRoutes[op],
         NEW fm, fm = FormOf("mail", op), NEW sv, sv = MailTemplatesServer[op]
  PROVE  op \in DOMAIN MailTemplatesServer /\ Passage("mail", op, rt, fm, h, sv)
<1>1. CASE op = "GetStats"
  BY <1>1, RouteParts, FormParts, ParserParts, ServerParts, RuledDomains
     DEF Passage, Signing, Lost, InVain, Is, RouteIs, FormIs, HandlerIs, ServerIs, FormOf, NoForm,
         MailRoutes, MailForms, MailTemplatesDoor, MailTemplatesServer, Letter, Mail, Mine
<1>2. CASE op # "GetStats"
  BY <1>2, RouteParts, FormParts, HandlerParts, ServerParts, RuledDomains
     DEF Passage, Signing, Lost, InVain, Is, RouteIs, FormIs, HandlerIs, ServerIs, FormOf, NoForm,
         MailRoutes, MailForms, MailTemplatesDoor, MailTemplatesServer, Letter, Mail, Mine
<1>3. QED
  BY <1>1, <1>2

LEMMA AuthSessionsPass ==
  ASSUME NEW op \in DOMAIN AuthSessions, NEW h, h = AuthSessions[op], NEW rt, rt = AuthRoutes[op],
         NEW fm, fm = FormOf("auth", op), NEW sv, sv = AuthServer[op]
  PROVE  op \in DOMAIN AuthServer /\ Passage("auth", op, rt, fm, h, sv)
  BY RouteParts, FormParts, HandlerParts, ServerParts, RuledDomains
     DEF Passage, Signing, Lost, InVain, Is, RouteIs, FormIs, HandlerIs, ServerIs, FormOf, NoForm,
         AuthRoutes, AuthForms, AuthSessions, AuthServer, Mine

LEMMA AuthPasswordsPass ==
  ASSUME NEW op \in DOMAIN AuthPasswords, NEW h, h = AuthPasswords[op], NEW rt, rt = AuthRoutes[op],
         NEW fm, fm = FormOf("auth", op), NEW sv, sv = AuthServer[op]
  PROVE  op \in DOMAIN AuthServer /\ Passage("auth", op, rt, fm, h, sv)
  BY RouteParts, FormParts, HandlerParts, ServerParts, RuledDomains
     DEF Passage, Signing, Lost, InVain, Is, RouteIs, FormIs, HandlerIs, ServerIs, FormOf, NoForm,
         AuthRoutes, AuthForms, AuthPasswords, AuthServer, Mine

\* Every route has its handler.
LEMMA RoutesHandled ==
  /\ \A op \in DOMAIN AuthRoutes : op \in DOMAIN AuthSessions \/ op \in DOMAIN AuthPasswords
  /\ \A op \in DOMAIN UserRoutes : op \in DOMAIN UserHandlers
  /\ \A op \in DOMAIN DocumentRoutes : op \in DOMAIN DocumentBasics \/ op \in DOMAIN DocumentMoves
  /\ \A op \in DOMAIN TaskRoutes : op \in DOMAIN TaskBasics \/ op \in DOMAIN TaskMoves
  /\ \A op \in DOMAIN CalendarRoutes : \/ op \in DOMAIN CalendarViews
                                       \/ op \in DOMAIN CalendarNew \/ op \in DOMAIN CalendarChanges
  /\ \A op \in DOMAIN NotificationRoutes : op \in DOMAIN NotificationInboxDoor \/ op \in DOMAIN NotificationChoices
  /\ \A op \in DOMAIN MailRoutes : op \in DOMAIN MailJobsDoor \/ op \in DOMAIN MailTemplatesDoor
<1>1. \A op \in DOMAIN AuthRoutes : op \in DOMAIN AuthSessions \/ op \in DOMAIN AuthPasswords
  BY DEF AuthRoutes, AuthSessions, AuthPasswords
<1>2. \A op \in DOMAIN UserRoutes : op \in DOMAIN UserHandlers
  BY DEF UserRoutes, UserHandlers
<1>3. \A op \in DOMAIN DocumentRoutes : op \in DOMAIN DocumentBasics \/ op \in DOMAIN DocumentMoves
  BY DEF DocumentRoutes, DocumentBasics, DocumentMoves
<1>4. \A op \in DOMAIN TaskRoutes : op \in DOMAIN TaskBasics \/ op \in DOMAIN TaskMoves
  BY DEF TaskRoutes, TaskBasics, TaskMoves
<1>5. \A op \in DOMAIN CalendarRoutes : \/ op \in DOMAIN CalendarViews
                                        \/ op \in DOMAIN CalendarNew \/ op \in DOMAIN CalendarChanges
  BY DEF CalendarRoutes, CalendarViews, CalendarNew, CalendarChanges
<1>6. \A op \in DOMAIN NotificationRoutes : op \in DOMAIN NotificationInboxDoor \/ op \in DOMAIN NotificationChoices
  BY DEF NotificationRoutes, NotificationInboxDoor, NotificationChoices
<1>7. \A op \in DOMAIN MailRoutes : op \in DOMAIN MailJobsDoor \/ op \in DOMAIN MailTemplatesDoor
  BY DEF MailRoutes, MailJobsDoor, MailTemplatesDoor
<1>8. QED
  BY <1>1, <1>2, <1>3, <1>4, <1>5, <1>6, <1>7

\* No method is in both tables of a service.
LEMMA ServersApart ==
  /\ \A op \in DOMAIN UserAdmin : op \notin DOMAIN UserServer
  /\ \A op \in DOMAIN DocumentServerMoves : op \notin DOMAIN DocumentServerBasics
  /\ \A op \in DOMAIN TaskServerMoves : op \notin DOMAIN TaskServerBasics
  /\ \A op \in DOMAIN CalendarServerChanges : op \notin DOMAIN CalendarServerViews
  /\ \A op \in DOMAIN NotificationChoicesServer : op \notin DOMAIN NotificationServer
  /\ \A op \in DOMAIN MailTemplatesServer : op \notin DOMAIN MailServer
<1>1. \A op \in DOMAIN UserAdmin : op \notin DOMAIN UserServer
  BY DEF UserAdmin, UserServer
<1>2. \A op \in DOMAIN DocumentServerMoves : op \notin DOMAIN DocumentServerBasics
  BY DEF DocumentServerMoves, DocumentServerBasics
<1>3. \A op \in DOMAIN TaskServerMoves : op \notin DOMAIN TaskServerBasics
  BY DEF TaskServerMoves, TaskServerBasics
<1>4. \A op \in DOMAIN CalendarServerChanges : op \notin DOMAIN CalendarServerViews
  BY DEF CalendarServerChanges, CalendarServerViews
<1>5. \A op \in DOMAIN NotificationChoicesServer : op \notin DOMAIN NotificationServer
  BY DEF NotificationChoicesServer, NotificationServer
<1>6. \A op \in DOMAIN MailTemplatesServer : op \notin DOMAIN MailServer
  BY DEF MailTemplatesServer, MailServer
<1>7. QED
  BY <1>1, <1>2, <1>3, <1>4, <1>5, <1>6

\* So every route of the gateway is sound from its form to the server.
RouteSound(s, op) ==
    /\ op \in DOMAIN GatewayHandlers[s] /\ op \in DOMAIN Servers[s]
    /\ HandlerRow(s, op, GatewayHandlers[s][op])
    /\ Passage(s, op, Routes[s][op], FormOf(s, op), GatewayHandlers[s][op], Servers[s][op])

LEMMA GatewayTables ==
  ASSUME NEW s \in DOMAIN Routes, NEW op \in DOMAIN Routes[s]
  PROVE  RouteSound(s, op)
<1>1. CASE s = "auth"
  BY <1>1, AuthSessionsRows, AuthPasswordsRows, AuthSessionsPass, AuthPasswordsPass, RoutesHandled,
     TogetherParts
     DEF RouteSound, Routes, GatewayHandlers, Servers
<1>2. CASE s = "user"
  BY <1>2, UserHandlersRows, UserHandlersPass, BanUserPasses, RoutesHandled, ServersApart, TogetherParts
     DEF RouteSound, Routes, GatewayHandlers, Servers
<1>3. CASE s = "document"
  BY <1>3, DocumentBasicsRows, DocumentMovesRows, DocumentBasicsPass, DocumentMovesPass, RoutesHandled,
     ServersApart, TogetherParts
     DEF RouteSound, Routes, GatewayHandlers, Servers
<1>4. CASE s = "task"
  BY <1>4, TaskBasicsRows, TaskMovesRows, TaskBasicsPass, TaskMovesPass, RoutesHandled, ServersApart,
     TogetherParts
     DEF RouteSound, Routes, GatewayHandlers, Servers
<1>5. CASE s = "calendar"
  BY <1>5, CalendarViewsRows, CalendarNewRows, CalendarChangesRows, CalendarViewsPass, EventStatsPass,
     CalendarNewPasses, CalendarChangesPass, RoutesHandled, ServersApart, TogetherParts
     DEF RouteSound, Routes, GatewayHandlers, Servers
<1>6. CASE s = "notification"
  BY <1>6, NotificationInboxDoorRows, NotificationChoicesRows, NotificationInboxPass,
     NotificationUpkeepPass, NotificationChoicesPass, RoutesHandled, ServersApart, TogetherParts
     DEF RouteSound, Routes, GatewayHandlers, Servers
<1>7. CASE s = "mail"
  BY <1>7, MailJobsDoorRows, MailTemplatesDoorRows, MailJobsPass, MailTemplatesPass, RoutesHandled,
     ServersApart, TogetherParts
     DEF RouteSound, Routes, GatewayHandlers, Servers
<1>8. QED
  BY <1>1, <1>2, <1>3, <1>4, <1>5, <1>6, <1>7 DEF Routes

-----------------------------------------------------------------------------
\* The requests: what one may give, and the name it may carry, by its door.
Fields(q) ==
    CASE q.door = "gateway" -> (Routes[q.service][q.op].fields \cup FormOf(q.service, q.op).needs
                                   \cup FormOf(q.service, q.op).may) \ DOMAIN GatewayHandlers[q.service][q.op].names
      [] q.door = "grpc" -> Servers[q.service][q.op].reads
      [] OTHER -> q.gives

Rows(q) == CASE q.door = "gateway" -> Routes [] q.door = "grpc" -> Servers [] OTHER -> Pages

NamesIn(q) == CASE q.door = "gateway" -> GatewayHandlers[q.service][q.op].names
                [] q.door = "grpc" -> Servers[q.service][q.op].names
                [] OTHER -> Pages[q.service][q.op].names

Fits(q) ==
    /\ q.door \in {"gateway", "grpc", "http"}
    /\ q.service \in DOMAIN Rows(q) /\ q.op \in DOMAIN Rows(q)[q.service]
    /\ q.gives \subseteq Fields(q)
    /\ q.field # "none" => q.field \in DOMAIN NamesIn(q) /\ q.word \in Words(q)

AskingFrom(q, door, service, op, fields, named) ==
    /\ q.door = door /\ q.service = service /\ q.op = op
    /\ q.gives \subseteq fields
    /\ q.field # "none" => /\ q.field \in named
                           /\ q.word \in Words([door |-> door, service |-> service, field |-> q.field])

\* A request is made of what it was asked with, whatever MaxLeftOut and MaxGarbled are.
LEMMA AskParts ==
  ASSUME NEW door, NEW service, NEW op, NEW gives, NEW field, NEW word, NEW callers, NEW keys,
         NEW q \in Ask(door, service, op, gives, field, word, callers, keys)
  PROVE  /\ q.door = door /\ q.service = service /\ q.op = op /\ q.field = field /\ q.word = word
         /\ q.gives \in gives
<1> DEFINE abouts == IF op = "CreateNotification" THEN {"nothing", "task", "document"} ELSE {"nothing"}
           Of(g) == {[door |-> door, service |-> service, op |-> op, gives |-> g, garbled |-> b,
                      field |-> field, word |-> word, caller |-> c, keyed |-> k, about |-> a] :
                        b \in Garbles(door, g), c \in callers, k \in keys, a \in abouts}
<1>1. \E g \in gives : q \in Of(g)
  BY DEF Ask
<1>2. QED
  BY <1>1

LEMMA AskingParts ==
  ASSUME NEW door, NEW service, NEW op, NEW path, NEW needs, NEW may, NEW named, NEW callers, NEW keys,
         NEW q \in Asking(door, service, op, path, needs, may, named, callers, keys)
  PROVE  AskingFrom(q, door, service, op, path \cup ((needs \cup may) \ named), named)
<1> DEFINE gives == {path \cup body : body \in Choices(needs \ named, may \ named)}
           words(f) == Words([door |-> door, service |-> service, field |-> f])
           Of(f) == {Ask(door, service, op, gives, f, w, callers, keys) : w \in words(f)}
           All == {UNION Of(f) : f \in named}
<1>1. \A g \in gives : g \subseteq path \cup ((needs \cup may) \ named)
  BY DEF Choices
<1>2. \/ q \in Ask(door, service, op, gives, "none", "unset", callers, keys)
      \/ \E f \in named : \E w \in words(f) : q \in Ask(door, service, op, gives, f, w, callers, keys)
  <2>1. q \in Ask(door, service, op, gives, "none", "unset", callers, keys) \/ q \in UNION All
    BY DEF Asking
  <2> HIDE DEF gives, words
  <2>2. QED
    BY <2>1
<1> HIDE DEF gives, words, Of, All
<1>3. CASE q \in Ask(door, service, op, gives, "none", "unset", callers, keys)
  BY <1>1, <1>3, AskParts DEF AskingFrom
<1>4. CASE \E f \in named : \E w \in words(f) : q \in Ask(door, service, op, gives, f, w, callers, keys)
  BY <1>1, <1>4, AskParts DEF AskingFrom, words
<1>5. QED
  BY <1>2, <1>3, <1>4

LEMMA AskedFits == \A q \in Asked : Fits(q)
<1> SUFFICES ASSUME NEW q \in Asked PROVE Fits(q)
  OBVIOUS
<1>1. \/ \E s \in DOMAIN Routes : \E op \in DOMAIN Routes[s] : q \in Through(s, op)
      \/ \E s \in DOMAIN Servers : \E op \in DOMAIN Servers[s] : q \in Straight(s, op)
      \/ \E s \in DOMAIN Pages : \E op \in DOMAIN Pages[s] : q \in Beside(s, op)
  BY DEF Asked
<1>2. ASSUME NEW s \in DOMAIN Routes, NEW op \in DOMAIN Routes[s], q \in Through(s, op)
      PROVE  Fits(q)
  <2>1. AskingFrom(q, "gateway", s, op,
                   (Routes[s][op].fields \ DOMAIN GatewayHandlers[s][op].names)
                     \cup ((FormOf(s, op).needs \cup (FormOf(s, op).may
                              \cup (Routes[s][op].fields \cap DOMAIN GatewayHandlers[s][op].names)))
                           \ DOMAIN GatewayHandlers[s][op].names),
                   DOMAIN GatewayHandlers[s][op].names)
    BY <1>2, AskingParts DEF Through
  <2>2. QED
    BY <2>1 DEF AskingFrom, Fits, Fields, Rows, NamesIn, Words
<1>3. ASSUME NEW s \in DOMAIN Servers, NEW op \in DOMAIN Servers[s], q \in Straight(s, op)
      PROVE  Fits(q)
  <2>1. AskingFrom(q, "grpc", s, op,
                   {} \cup ((Servers[s][op].needs \cup (Servers[s][op].reads \ Servers[s][op].needs))
                            \ DOMAIN Servers[s][op].names),
                   DOMAIN Servers[s][op].names)
    BY <1>3, AskingParts DEF Straight
  <2>2. Servers[s][op].needs \subseteq Servers[s][op].reads
    BY ServerTables DEF ServerRow
  <2>3. QED
    BY <2>1, <2>2 DEF AskingFrom, Fits, Fields, Rows, NamesIn, Words
<1>4. ASSUME NEW s \in DOMAIN Pages, NEW op \in DOMAIN Pages[s], q \in Beside(s, op)
      PROVE  Fits(q)
  <2>1. \E fields : AskingFrom(q, "http", s, op, fields, DOMAIN Pages[s][op].names)
    BY <1>4, AskingParts DEF Beside
  <2>2. QED
    BY <2>1 DEF AskingFrom, Fits, Fields, Rows, NamesIn, Words
<1>5. QED
  BY <1>1, <1>2, <1>3, <1>4

-----------------------------------------------------------------------------
\* The names: a layer's lists have every name of the domain.
Tabled(tables) ==
    /\ DOMAIN tables \ {"notification"} = {"user", "document", "task", "calendar", "mail"}
    /\ DOMAIN tables["user"] = {"role"} /\ Roles \subseteq tables["user"]["role"]
    /\ DOMAIN tables["document"] = {"status"} /\ DocumentStatuses \subseteq tables["document"]["status"]
    /\ DOMAIN tables["task"] = {"status", "priority"}
    /\ TaskStatuses \subseteq tables["task"]["status"] /\ TaskPriorities \subseteq tables["task"]["priority"]
    /\ DOMAIN tables["calendar"] = {"event_type"} /\ EventTypes \subseteq tables["calendar"]["event_type"]
    /\ DOMAIN tables["mail"] = {"category", "status"}
    /\ MailCategories \subseteq tables["mail"]["category"] /\ JobStatuses \subseteq tables["mail"]["status"]

LEMMA GatewayTabled == Tabled(GatewayKnows)
  BY DEF Tabled, GatewayKnows, Roles, DocumentStatuses, TaskStatuses, TaskPriorities, EventTypes,
         NotificationCategories, MailCategories, JobStatuses, userRole, DocumentStatusMap, TaskStatusMap,
         TaskPriorityMap, eventTypeMap, mailCategory, mailStatus

LEMMA ServerTabled == Tabled(ServerKnows)
  BY DEF Tabled, ServerKnows, Roles, DocumentStatuses, TaskStatuses, TaskPriorities, EventTypes,
         NotificationCategories, MailCategories, JobStatuses, protoRoleToDomain, statusFromProto,
         taskStatusFromProto, taskPriorityFromProto, protoEventTypeToDomain, protoCategoryToDomain,
         protoStatusToDomain

LEMMA ShownTabled == Tabled(ServerShows)
  BY DEF Tabled, ServerShows, Roles, DocumentStatuses, TaskStatuses, TaskPriorities, EventTypes,
         NotificationCategories, MailCategories, JobStatuses, domainToProtoRole, statusToProto,
         taskStatusToProto, taskPriorityToProto, domainEventTypeToProto, toProtoCategory, toProtoStatus

\* The domain itself.
LEMMA DomainRows ==
  /\ Domain["user"]["role"] = Roles
  /\ Domain["document"]["status"] = DocumentStatuses
  /\ Domain["task"]["status"] = TaskStatuses
  /\ Domain["task"]["priority"] = TaskPriorities
  /\ Domain["calendar"]["event_type"] = EventTypes
  /\ Domain["mail"]["category"] = MailCategories
  /\ Domain["mail"]["status"] = JobStatuses
  BY DEF Domain

\* So a layer that turns a field by a list knows the name a request carries.
Known(tables, q) == q.word \in Table(tables, q) \/ q.word = "bogus"

LEMMA TurnedNames ==
  ASSUME NEW q, q.word \in Words(q), <<q.service, q.field>> \in Turned,
         NEW tables, Tabled(tables)
  PROVE  Known(tables, q)
<1>1. CASE q.service = "user" /\ q.field = "role"
  BY <1>1, DomainRows DEF Tabled, Known, Table, Words
<1>2. CASE q.service = "document" /\ q.field = "status"
  BY <1>2, DomainRows DEF Tabled, Known, Table, Words
<1>3. CASE q.service = "task" /\ q.field = "status"
  BY <1>3, DomainRows DEF Tabled, Known, Table, Words
<1>4. CASE q.service = "task" /\ q.field = "priority"
  BY <1>4, DomainRows DEF Tabled, Known, Table, Words
<1>5. CASE q.service = "calendar" /\ q.field = "event_type"
  BY <1>5, DomainRows DEF Tabled, Known, Table, Words
<1>6. CASE q.service = "mail" /\ q.field = "category"
  BY <1>6, DomainRows DEF Tabled, Known, Table, Words
<1>7. CASE q.service = "mail" /\ q.field = "status"
  BY <1>7, DomainRows DEF Tabled, Known, Table, Words
<1>8. QED
  BY <1>1, <1>2, <1>3, <1>4, <1>5, <1>6, <1>7 DEF Turned

\* A field no layer turns by a list has none.
LEMMA UnturnedNames ==
  ASSUME NEW q, q.service # "notification", <<q.service, q.field>> \notin Turned,
         NEW tables, Tabled(tables)
  PROVE  Table(tables, q) = {}
  BY DEF Turned, Tabled, Table

\* categoryFromProto loses no type but that of a system message with a telling title,
\* and protoTypeFromCategory gives it back.
LEMMA TypesKept ==
  ASSUME NEW type \in NotificationTypes, NEW about
  PROVE  \/ protoTypeFromCategory(categoryFromProto(type, about)) = type
         \/ type = "system" /\ about \in {"task", "document"}
  BY DEF NotificationTypes, protoTypeFromCategory, categoryFromProto

\* What may have become of a name once the gateway is through with it, and once the
\* server is.
Typed(q) == q.service = "notification" /\ q.door = "grpc"
Defaults == {"unset", "reminder", "employee", "system", "queued"}

Carried(q, word) == IF q.word = "bogus" THEN word \in {"unset", "bogus"} ELSE word = q.word
Arrived(q, word) == IF Typed(q) THEN word = categoryFromProto(q.word, q.about)
                    ELSE IF q.word = "bogus" THEN word \in Defaults \cup {"bogus"} ELSE word = q.word

\* A gateway handler that does not refuse a name carries it on.
LEMMA GatewayCarries ==
  ASSUME NEW q, q.word \in Words(q), NEW rule, NameOk(q.service, q.field, rule, GatewayRules),
         NEW word, word = Named(rule, Table(GatewayKnows, q), q.word), word # "refused" \/ q.word # "bogus"
  PROVE  Carried(q, word)
<1>1. rule \in GatewayRules /\ (rule = "raw" \/ <<q.service, q.field>> \in Turned)
  BY DEF NameOk, GatewayRules, PageRules
<1>2. CASE rule = "raw"
  BY <1>2 DEF Named, Carried
<1>3. CASE <<q.service, q.field>> \in Turned
  <2>1. Known(GatewayKnows, q)
    BY <1>3, TurnedNames, GatewayTabled
  <2>2. QED
    BY <1>1, <2>1 DEF Known, Named, Carried, GatewayRules
<1>4. QED
  BY <1>1, <1>2, <1>3

\* And a server hands it to its service.
LEMMA ServerArrives ==
  ASSUME NEW q, q.word \in Words(q), q.field # "none", q.door # "http",
         q.service = "notification" => q.door = "grpc",
         NEW row, q.field \in DOMAIN row.names, NameOk(q.service, q.field, row.names[q.field], ServerRules),
         NEW word, Carried(q, word), q.door = "grpc" => word = q.word
  PROVE  Arrived(q, ServerWord(row, q, word))
<1> DEFINE rule == row.names[q.field]
<1>1. ServerWord(row, q, word) = IF rule = "categoryFromProto" THEN categoryFromProto(word, q.about)
                                 ELSE Named(rule, Table(ServerKnows, q), word)
  BY DEF ServerWord
<1>2. /\ rule \in ServerRules
      /\ \/ rule = "raw" /\ q.service # "notification"
         \/ rule = "categoryFromProto" /\ q.service = "notification"
         \/ rule \notin {"raw", "categoryFromProto"} /\ <<q.service, q.field>> \in Turned
  BY DEF NameOk, ServerRules, PageRules
<1> HIDE DEF rule
<1>3. CASE q.service = "notification"
  BY <1>1, <1>2, <1>3 DEF Arrived, Typed, Carried, Turned
<1>4. CASE rule = "raw" /\ q.service # "notification"
  BY <1>1, <1>4 DEF Named, Arrived, Typed, Carried, Defaults
<1>5. CASE rule \notin {"raw", "categoryFromProto"} /\ <<q.service, q.field>> \in Turned
  <2>1. Known(ServerKnows, q)
    BY <1>5, TurnedNames, ServerTabled
  <2>2. q.service # "notification"
    BY <1>5 DEF Turned
  <2>3. ServerWord(row, q, word) = Named(rule, Table(ServerKnows, q), word)
    BY <1>1, <1>5
  <2>4. CASE q.word = "bogus"
    <3>1. word \in {"unset", "bogus"}
      BY <2>4 DEF Carried
    <3>2. Named(rule, Table(ServerKnows, q), word) \in Defaults \cup {"bogus"}
      BY <1>2, <1>5, <3>1 DEF Named, ServerRules, Defaults
    <3>3. QED
      BY <2>2, <2>3, <2>4, <3>2 DEF Arrived, Typed
  <2>5. CASE q.word # "bogus"
    <3>1. word = q.word /\ word \in Table(ServerKnows, q)
      BY <2>1, <2>5 DEF Known, Carried
    <3>2. Named(rule, Table(ServerKnows, q), word) = word
      BY <3>1 DEF Named
    <3>3. QED
      BY <2>2, <2>3, <2>5, <3>1, <3>2 DEF Arrived, Typed
  <2>6. QED
    BY <2>4, <2>5
<1>6. QED
  BY <1>2, <1>3, <1>4, <1>5 DEF Turned

-----------------------------------------------------------------------------
\* The inductive invariant.  The properties speak of an answered request; that each
\* layer kept to its part is what must be known on the way.
GatewaySteps == {"token", "limit", "key", "role", "handler"}

\* A request that went through.
WentThrough(r) == r.step = "answered" /\ r.cause = "done"

\* The fields of a request that are to reach the service.
Arrives(q) == q.gives \ (InVain(q) \cup Unread(q) \cup {"actor"})

\* Whose name a service may act in, and the code a failure may be answered with.
ActsRight(q, who) ==
    \/ who = "caller"
    \/ who = "named" /\ (q.op \in {"CreateEvent", "SendEmail", "SubmitMailJob"} \/ q.service = "auth")
    \/ who = "named" /\ q.op = "GetNotificationHistory" /\ q.caller = "admin"
    \/ who = "nobody" /\ (q.op = "SubmitMailJob" \/ q.service = "auth")

Acted(q) == q.door = "gateway" /\ "actor" \in Servers[q.service][q.op].reads

AnswersFor(q, code) ==
    \/ code \in (IF q.door = "grpc" THEN {Unknown, Internal} ELSE 500 .. 599)
    \/ q.op \in Blamed(q)
    \/ q.door = "gateway" /\ q.service # "auth" /\ code = 401

IsRequest(r) == r = [step |-> r.step, asked |-> r.asked, holds |-> r.holds, word |-> r.word, actor |-> r.actor,
                     blanks |-> r.blanks, code |-> r.code, cause |-> r.cause]

\* Where a request of each door can be.
AtDoor(r) ==
    \/ r.step \in GatewaySteps \ {"handler"} /\ r.asked.door = "gateway" /\ r.asked.service # "auth"
    \/ r.step = "handler" /\ r.asked.door = "gateway"
    \/ r.step = "server" /\ r.asked.door \in {"gateway", "grpc"}
    \/ r.step = "page" /\ r.asked.door = "http"
    \/ r.step \in {"service", "answered"}

\* What each step knows of the name, of the actor and of a failure.
WordStands(r) ==
    r.asked.field # "none" =>
        /\ r.step \in GatewaySteps \cup {"page"} => r.word = r.asked.word
        /\ r.step = "server" => /\ Carried(r.asked, r.word)
                                /\ r.asked.door = "grpc" => r.word = r.asked.word
        /\ r.step = "service" \/ WentThrough(r) => Arrived(r.asked, r.word)
        /\ WentThrough(r) /\ r.word = "bogus" => r.asked.op \notin Stores

ActorStands(r) ==
    Acted(r.asked) /\ (r.step \in {"server", "service"} \/ WentThrough(r)) => ActsRight(r.asked, r.actor)

FailureStands(r) == r.step = "answered" /\ r.cause = "failed" => AnswersFor(r.asked, r.code)

Stands(r) ==
    /\ IsRequest(r)
    /\ r.asked \in Asked
    /\ AtDoor(r)
    /\ Arrives(r.asked) \subseteq r.holds
    /\ r.blanks = {} \/ Rewrites(r.asked)
    /\ WordStands(r)
    /\ ActorStands(r)
    /\ FailureStands(r)

DoorsInv == request.step = "none" \/ Stands(request)

-----------------------------------------------------------------------------
\* What the tables say of a request.

\* Of one through the gateway.
LEMMA GatewayAsked ==
  ASSUME NEW q \in Asked, q.door = "gateway",
         NEW row, row = GatewayHandlers[q.service][q.op],
         NEW server, server = Servers[q.service][q.op]
  PROVE  /\ Arrives(q) \subseteq row.passes \cap server.reads
         /\ q.garbled \subseteq row.parses => Arrives(q) \cap q.garbled = {}
         /\ q.field # "none" => /\ q.word \in Words(q)
                                /\ q.field \in DOMAIN row.names /\ q.field \in DOMAIN server.names
                                /\ NameOk(q.service, q.field, row.names[q.field], GatewayRules)
                                /\ NameOk(q.service, q.field, server.names[q.field], ServerRules)
         /\ server.clears = {} \/ Rewrites(q)
         /\ "actor" \in server.reads => Signing(q.service, q.op, row.actor)
         /\ AnswersFor(q, row.fails)
<1>1. /\ q.service \in DOMAIN Routes /\ q.op \in DOMAIN Routes[q.service]
      /\ q.gives \subseteq (Routes[q.service][q.op].fields \cup FormOf(q.service, q.op).needs
                               \cup FormOf(q.service, q.op).may) \ DOMAIN row.names
      /\ q.field # "none" => q.field \in DOMAIN row.names /\ q.word \in Words(q)
  BY AskedFits DEF Fits, Fields, Rows, NamesIn
<1>2. /\ q.op \in DOMAIN GatewayHandlers[q.service] /\ q.op \in DOMAIN Servers[q.service]
      /\ HandlerRow(q.service, q.op, row)
      /\ Passage(q.service, q.op, Routes[q.service][q.op], FormOf(q.service, q.op), row, server)
  BY <1>1, GatewayTables DEF RouteSound
<1>3. q.service \in DOMAIN Servers
  BY <1>1 DEF Routes, Servers
<1>4. ServerRow(q.service, q.op, server)
  BY <1>2, <1>3, ServerTables
<1>5. InVain(q) = Lost(q.service, q.op)
  BY DEF InVain, Lost, Is
<1>6. Arrives(q) \subseteq row.passes \cap server.reads
  BY <1>1, <1>2, <1>5 DEF Arrives, Passage
<1>7. q.field # "none" => /\ q.word \in Words(q)
                          /\ q.field \in DOMAIN row.names /\ q.field \in DOMAIN server.names
                          /\ NameOk(q.service, q.field, row.names[q.field], GatewayRules)
                          /\ NameOk(q.service, q.field, server.names[q.field], ServerRules)
  <2>1. DOMAIN row.names \subseteq DOMAIN server.names
    BY <1>2 DEF Passage
  <2>2. NamesOk(q.service, row.names, GatewayRules) /\ NamesOk(q.service, server.names, ServerRules)
    BY <1>2, <1>4 DEF HandlerRow, ServerRow
  <2>3. QED
    BY <1>1, <2>1, <2>2 DEF NamesOk
<1>8. server.clears = {} \/ Rewrites(q)
  BY <1>4 DEF ServerRow, WrittenWhole, Rewrites, Is
<1>9. AnswersFor(q, row.fails)
  <2>1. GatewayBlamed = Blamed(q)
    BY DEF GatewayBlamed, Blamed
  <2>2. QED
    BY <1>2, <2>1 DEF HandlerRow, AnswersFor, Owned
<1>10. q.garbled \subseteq row.parses => Arrives(q) \cap q.garbled = {}
  BY <1>2 DEF HandlerRow, Arrives, Unread
<1>11. QED
  BY <1>2, <1>6, <1>7, <1>8, <1>9, <1>10 DEF Passage

\* Of one straight to a server.
LEMMA ServerAsked ==
  ASSUME NEW q \in Asked, q.door = "grpc", NEW server, server = Servers[q.service][q.op]
  PROVE  /\ Arrives(q) \subseteq server.reads
         /\ q.field # "none" => /\ q.word \in Words(q)
                                /\ q.field \in DOMAIN server.names
                                /\ NameOk(q.service, q.field, server.names[q.field], ServerRules)
         /\ server.clears = {} \/ Rewrites(q)
         /\ q.service \in DOMAIN GrpcCodes
<1>1. /\ q.service \in DOMAIN Servers /\ q.op \in DOMAIN Servers[q.service]
      /\ q.gives \subseteq server.reads
      /\ q.field # "none" => q.field \in DOMAIN server.names /\ q.word \in Words(q)
  BY AskedFits DEF Fits, Fields, Rows, NamesIn
<1>2. ServerRow(q.service, q.op, server)
  BY <1>1, ServerTables
<1>3. q.service \in DOMAIN GrpcCodes
  BY <1>1 DEF Servers, GrpcCodes
<1>4. Arrives(q) \subseteq server.reads
  BY <1>1 DEF Arrives
<1>5. QED
  BY <1>1, <1>2, <1>3, <1>4 DEF ServerRow, NamesOk, WrittenWhole, Rewrites, Is

\* Of one to a page.
LEMMA PageAsked ==
  ASSUME NEW q \in Asked, q.door = "http", NEW row, row = Pages[q.service][q.op]
  PROVE  /\ q.field # "none" => /\ q.word \in Words(q)
                                /\ q.field \in DOMAIN row.names
                                /\ row.names[q.field] \in PageRules
         /\ row.clears = {} \/ Rewrites(q)
         /\ IF row.code = 0 THEN q.service \in {"user", "notification", "mail"} ELSE AnswersFor(q, row.code)
         /\ q.garbled \subseteq row.parses => Arrives(q) \cap q.garbled = {}
<1>1. /\ q.service \in DOMAIN Pages /\ q.op \in DOMAIN Pages[q.service]
      /\ q.field # "none" => q.field \in DOMAIN row.names /\ q.word \in Words(q)
  BY AskedFits DEF Fits, Fields, Rows, NamesIn
<1>2. PageRow(q.service, q.op, row)
  BY <1>1, PageTables
<1>3. row.code # 0 => AnswersFor(q, row.code)
  BY <1>2 DEF PageRow, AnswersFor, Owned, PageBlamed, Blamed
<1>4. q.garbled \subseteq row.parses => Arrives(q) \cap q.garbled = {}
  BY <1>2 DEF PageRow, Arrives, Unread
<1>5. QED
  BY <1>1, <1>2, <1>3, <1>4 DEF PageRow, NamesOk, NameOk, WrittenWhole, Rewrites, Is

\* A page hands the name to its service.
LEMMA PageArrives ==
  ASSUME NEW q, q.door = "http", q.word \in Words(q), q.field # "none",
         NEW rule \in PageRules
  PROVE  Arrived(q, Named(rule, Domain[q.service][q.field], q.word))
<1>1. q.word \in Domain[q.service][q.field] \/ q.word = "bogus"
  BY DEF Words
<1>2. QED
  BY <1>1 DEF Arrived, Typed, Named, Defaults, PageRules

\* A handler that may put an actor down puts down one the service may act for.
LEMMA SignedRight ==
  ASSUME NEW q, NEW who, Signing(q.service, q.op, who)
  PROVE  ActsRight(q, Signs(who, q))
  BY DEF Signing, ActsRight, Signs

\* A server's code for a failure is one of a failure, and so is a page's.
LEMMA FailureCodes ==
  /\ \A s \in DOMAIN GrpcCodes : GrpcCodes[s]["failed"] \in {Unknown, Internal}
  /\ \A s \in {"user", "notification", "mail"} : s \in DOMAIN PageCodes /\ PageCodes[s]["failed"] = 500
<1>1. \A s \in DOMAIN GrpcCodes : GrpcCodes[s]["failed"] \in {Unknown, Internal}
  BY DEF GrpcCodes, authMapError, userMapError, documentToGRPCError, taskToGRPCError, domainErrToStatus,
         notificationMapErr, mailErrors
<1>2. \A s \in {"user", "notification", "mail"} : s \in DOMAIN PageCodes /\ PageCodes[s]["failed"] = 500
  BY DEF PageCodes, handleServiceError, handleError, handleErr
<1>3. QED
  BY <1>1, <1>2

-----------------------------------------------------------------------------
\* The steps.  An answer that is not of success, and a step of the middleware.
LEMMA RespondStands ==
  ASSUME Stands(request), NEW code, NEW cause, Respond(code, cause), cause # "done",
         cause = "failed" => AnswersFor(request.asked, code)
  PROVE  Stands(request')
<1>1. IsRequest(request)
  BY DEF Stands
<1>2. /\ IsRequest(request')
      /\ request'.step = "answered" /\ request'.asked = request.asked /\ request'.holds = request.holds
      /\ request'.blanks = request.blanks /\ request'.code = code /\ request'.cause = cause
  BY <1>1 DEF IsRequest, Respond
<1>3. QED
  BY <1>2 DEF Stands, AtDoor, WordStands, ActorStands, FailureStands, WentThrough, GatewaySteps

LEMMA OnwardStands ==
  ASSUME Stands(request), NEW step \in GatewaySteps, Onward(step),
         request.step \in GatewaySteps \ {"handler"}
  PROVE  Stands(request')
<1>1. IsRequest(request)
  BY DEF Stands
<1>2. /\ IsRequest(request')
      /\ request'.step = step /\ request'.asked = request.asked /\ request'.holds = request.holds
      /\ request'.blanks = request.blanks /\ request'.word = request.word
  BY <1>1 DEF IsRequest, Onward
<1>3. request.asked.door = "gateway" /\ request.asked.service # "auth"
  BY DEF Stands, AtDoor, GatewaySteps
<1>4. request.asked.field # "none" => request.word = request.asked.word
  BY DEF Stands, WordStands
<1>5. QED
  BY <1>2, <1>3, <1>4
     DEF Stands, AtDoor, WordStands, ActorStands, FailureStands, WentThrough, GatewaySteps

\* A request comes in.
LEMMA TakeStands ==
  ASSUME Take
  PROVE  Stands(request')
<1>1. PICK q \in Asked :
         request' = [step |-> CASE q.door = "grpc" -> "server" [] q.door = "http" -> "page"
                                [] q.door = "gateway" /\ q.service = "auth" -> "handler" [] OTHER -> "token",
                     asked |-> q, holds |-> q.gives, word |-> q.word,
                     actor |-> IF "actor" \in q.gives THEN "named" ELSE "nobody",
                     blanks |-> {}, code |-> 0, cause |-> "none"]
  BY DEF Take
<1> DEFINE step == CASE q.door = "grpc" -> "server" [] q.door = "http" -> "page"
                     [] q.door = "gateway" /\ q.service = "auth" -> "handler" [] OTHER -> "token"
<1>2. /\ IsRequest(request') /\ request'.step = step /\ request'.asked = q /\ request'.holds = q.gives
      /\ request'.word = q.word /\ request'.blanks = {} /\ request'.cause = "none"
  BY <1>1 DEF IsRequest
<1>3. q.door \in {"gateway", "grpc", "http"}
  BY AskedFits DEF Fits
<1>4. \/ q.door = "gateway" /\ q.service # "auth" /\ step = "token"
      \/ q.door = "gateway" /\ step = "handler"
      \/ q.door = "grpc" /\ step = "server"
      \/ q.door = "http" /\ step = "page"
  BY <1>3
<1> HIDE DEF step
<1>5. AtDoor(request')
  BY <1>2, <1>4 DEF AtDoor, GatewaySteps
<1>6. WordStands(request')
  BY <1>2, <1>4 DEF WordStands, WentThrough, Carried
<1>7. ActorStands(request') /\ FailureStands(request')
  BY <1>2, <1>4 DEF ActorStands, FailureStands, WentThrough, Acted
<1>8. QED
  BY <1>2, <1>5, <1>6, <1>7 DEF Stands, Arrives

\* JWTMiddleware, the rate limit, the idempotency key and the role check.
LEMMA MiddlewareStands ==
  ASSUME Stands(request), CheckToken \/ PassLimit \/ RequireKey \/ CheckRole
  PROVE  Stands(request')
<1>1. CASE CheckToken
  <2>1. request.asked.door = "gateway" /\ request.asked.service # "auth"
    BY <1>1 DEF CheckToken, AtStep, Stands, AtDoor
  <2>2. AnswersFor(request.asked, 401)
    BY <2>1 DEF AnswersFor
  <2>3. Onward("limit") \/ Respond(401, "unauthorized") \/ Respond(401, "failed")
    BY <1>1 DEF CheckToken
  <2>4. QED
    BY <1>1, <2>2, <2>3, OnwardStands, RespondStands DEF CheckToken, AtStep, GatewaySteps
<1>2. CASE PassLimit
  BY <1>2, OnwardStands, RespondStands DEF PassLimit, AtStep, GatewaySteps
<1>3. CASE RequireKey
  BY <1>3, OnwardStands, RespondStands DEF RequireKey, AtStep, GatewaySteps
<1>4. CASE CheckRole
  BY <1>4, OnwardStands, RespondStands DEF CheckRole, AtStep, GatewaySteps
<1>5. QED
  BY <1>1, <1>2, <1>3, <1>4

\* A gateway handler: what it passes on is what is to arrive, the name is carried on
\* and the actor signed.
LEMMA HandleStands ==
  ASSUME Stands(request), Handle
  PROVE  Stands(request')
<1> DEFINE q == request.asked
           row == GatewayHandlers[q.service][q.op]
           server == Servers[q.service][q.op]
           rule == IF q.field = "none" THEN "unset" ELSE row.names[q.field]
           word == Named(rule, Table(GatewayKnows, q), q.word)
<1>1. /\ IsRequest(request) /\ q \in Asked /\ q.door = "gateway" /\ request.step = "handler"
      /\ Arrives(q) \subseteq request.holds
      /\ request.blanks = {} \/ Rewrites(q)
  BY DEF Handle, AtStep, Stands, AtDoor, GatewaySteps
<1>2. \/ Respond(400, "invalid")
      \/ /\ q.field = "none" \/ word # "refused"
         /\ q.garbled \subseteq row.parses
         /\ request' = [request EXCEPT !.step = "server", !.holds = (@ \cap row.passes) \ q.garbled,
                                       !.word = word, !.actor = Signs(row.actor, q)]
  BY DEF Handle, Row
<1>3. CASE Respond(400, "invalid")
  BY <1>3, RespondStands
<1>4. CASE /\ q.field = "none" \/ word # "refused"
           /\ q.garbled \subseteq row.parses
           /\ request' = [request EXCEPT !.step = "server", !.holds = (@ \cap row.passes) \ q.garbled,
                                         !.word = word, !.actor = Signs(row.actor, q)]
  <2>1. /\ Arrives(q) \subseteq row.passes /\ Arrives(q) \cap q.garbled = {}
        /\ q.field # "none" => /\ q.word \in Words(q)
                               /\ NameOk(q.service, q.field, row.names[q.field], GatewayRules)
        /\ "actor" \in server.reads => Signing(q.service, q.op, row.actor)
    BY <1>1, <1>4, GatewayAsked
  <2>2. q.field # "none" => Carried(q, word)
    BY <1>4, <2>1, GatewayCarries
  <2> HIDE DEF word, row
  <2>3. /\ IsRequest(request') /\ request'.step = "server" /\ request'.asked = q
        /\ request'.holds = (request.holds \cap row.passes) \ q.garbled /\ request'.word = word
        /\ request'.actor = Signs(row.actor, q) /\ request'.blanks = request.blanks
    BY <1>1, <1>4 DEF IsRequest
  <2> HIDE DEF q
  <2>4. WordStands(request')
    BY <1>1, <2>2, <2>3 DEF WordStands, WentThrough, GatewaySteps
  <2>5. ActorStands(request')
    BY <1>1, <2>1, <2>3, SignedRight DEF ActorStands, Acted
  <2>6. QED
    BY <1>1, <2>1, <2>3, <2>4, <2>5 DEF Stands, AtDoor, FailureStands
<1>5. QED
  BY <1>2, <1>3, <1>4

\* A gRPC server, behind the gateway or asked straight.
LEMMA ServerStands ==
  ASSUME Stands(request), ServerReads
  PROVE  Stands(request')
<1> DEFINE q == request.asked
           handler == GatewayHandlers[q.service][q.op]
           row == Servers[q.service][q.op]
           word == ServerWord(row, q, request.word)
           actor == IF "actor" \in row.reads THEN request.actor ELSE "nobody"
<1>1. /\ IsRequest(request) /\ q \in Asked /\ q.door \in {"gateway", "grpc"} /\ request.step = "server"
      /\ Arrives(q) \subseteq request.holds
      /\ q.field # "none" => Carried(q, request.word) /\ (q.door = "grpc" => request.word = q.word)
      /\ Acted(q) => ActsRight(q, request.actor)
  BY DEF ServerReads, AtStep, Stands, AtDoor, GatewaySteps, WordStands, ActorStands
<1>2. \/ Respond(IF q.door = "gateway" THEN handler.fails ELSE InvalidArgument, "invalid")
      \/ request' = [request EXCEPT !.step = "service", !.holds = @ \cap row.reads, !.word = word,
                                    !.blanks = row.clears \ q.gives, !.actor = actor]
  BY DEF ServerReads, Row, Blanks
<1>3. CASE Respond(IF q.door = "gateway" THEN handler.fails ELSE InvalidArgument, "invalid")
  BY <1>3, RespondStands
<1>4. CASE request' = [request EXCEPT !.step = "service", !.holds = @ \cap row.reads, !.word = word,
                                      !.blanks = row.clears \ q.gives, !.actor = actor]
  <2>1. /\ Arrives(q) \subseteq row.reads
        /\ q.field # "none" => /\ q.word \in Words(q)
                               /\ q.field \in DOMAIN row.names
                               /\ NameOk(q.service, q.field, row.names[q.field], ServerRules)
        /\ row.clears = {} \/ Rewrites(q)
    BY <1>1, GatewayAsked, ServerAsked
  <2>2. q.field # "none" /\ q.service = "notification" => q.door = "grpc"
    <3>1. q.field # "none" /\ q.door = "gateway"
              => NameOk(q.service, q.field, handler.names[q.field], GatewayRules)
      BY <1>1, GatewayAsked
    <3>2. QED
      BY <1>1, <3>1, NoTypesAtGateway
  <2>3. q.field # "none" => Arrived(q, word)
    BY <1>1, <2>1, <2>2, ServerArrives
  <2>4. Acted(q) => ActsRight(q, actor)
    BY <1>1 DEF Acted
  <2> HIDE DEF word, row, actor
  <2>5. /\ IsRequest(request') /\ request'.step = "service" /\ request'.asked = q
        /\ request'.holds = request.holds \cap row.reads /\ request'.word = word
        /\ request'.actor = actor /\ request'.blanks = row.clears \ q.gives
    BY <1>1, <1>4 DEF IsRequest
  <2> HIDE DEF q
  <2>6. WordStands(request')
    BY <2>3, <2>5 DEF WordStands, WentThrough, GatewaySteps
  <2>7. ActorStands(request')
    BY <2>4, <2>5 DEF ActorStands
  <2>8. request'.blanks = {} \/ Rewrites(q)
    BY <2>1, <2>5
  <2>9. QED
    BY <1>1, <2>1, <2>5, <2>6, <2>7, <2>8 DEF Stands, AtDoor, FailureStands
<1>5. QED
  BY <1>2, <1>3, <1>4

\* The service is out of reach.
LEMMA UnreachableStands ==
  ASSUME Stands(request), Unreachable
  PROVE  Stands(request')
<1>1. request.asked \in Asked /\ request.asked.door = "gateway"
  BY DEF Unreachable, Stands
<1>2. AnswersFor(request.asked, Row(GatewayHandlers).fails)
  BY <1>1, GatewayAsked DEF Row
<1>3. QED
  BY <1>2, RespondStands DEF Unreachable

\* An HTTP handler of a service.
LEMMA PageStands ==
  ASSUME Stands(request), PageReads
  PROVE  Stands(request')
<1> DEFINE q == request.asked
           row == Pages[q.service][q.op]
           word == IF q.field = "none" THEN "unset"
                   ELSE Named(row.names[q.field], Domain[q.service][q.field], request.word)
<1>1. /\ IsRequest(request) /\ q \in Asked /\ q.door = "http" /\ request.step = "page"
      /\ Arrives(q) \subseteq request.holds
      /\ q.field # "none" => request.word = q.word
  BY DEF PageReads, AtStep, Stands, AtDoor, GatewaySteps, WordStands
<1>2. \/ Respond(400, "invalid")
      \/ /\ q.garbled \subseteq row.parses
         /\ request' = [request EXCEPT !.step = "service", !.blanks = row.clears \ q.gives,
                                       !.holds = @ \ q.garbled, !.word = word]
  BY DEF PageReads, Row, Blanks
<1>3. CASE Respond(400, "invalid")
  BY <1>3, RespondStands
<1>4. CASE /\ q.garbled \subseteq row.parses
           /\ request' = [request EXCEPT !.step = "service", !.blanks = row.clears \ q.gives,
                                         !.holds = @ \ q.garbled, !.word = word]
  <2>1. /\ q.field # "none" => q.word \in Words(q) /\ row.names[q.field] \in PageRules
        /\ row.clears = {} \/ Rewrites(q)
        /\ Arrives(q) \cap q.garbled = {}
    BY <1>1, <1>4, PageAsked
  <2>2. q.field # "none" => Arrived(q, word)
    BY <1>1, <2>1, PageArrives
  <2> HIDE DEF word, row
  <2>3. /\ IsRequest(request') /\ request'.step = "service" /\ request'.asked = q
        /\ request'.holds = request.holds \ q.garbled /\ request'.word = word
        /\ request'.blanks = row.clears \ q.gives
    BY <1>1, <1>4 DEF IsRequest
  <2> HIDE DEF q
  <2>4. WordStands(request')
    BY <2>2, <2>3 DEF WordStands, WentThrough, GatewaySteps
  <2>5. ActorStands(request')
    BY <1>1, <2>3 DEF ActorStands, Acted
  <2>6. request'.blanks = {} \/ Rewrites(q)
    BY <2>1, <2>3
  <2>7. QED
    BY <1>1, <2>1, <2>3, <2>4, <2>5, <2>6 DEF Stands, AtDoor, FailureStands
<1>5. QED
  BY <1>2, <1>3, <1>4

\* The service answers.
LEMMA DecideStands ==
  ASSUME Stands(request), Decide
  PROVE  Stands(request')
<1> DEFINE q == request.asked
           refuses == request.word = "bogus" /\ q.op \in Stores
<1>1. /\ IsRequest(request) /\ q \in Asked /\ request.step = "service"
      /\ q.door \in {"gateway", "grpc", "http"}
  BY AskedFits DEF Decide, AtStep, Stands, Fits
<1>2. \/ \E code : ~refuses /\ Respond(code, "done")
      \/ \E kind : (refuses => kind = "invalid") /\ Respond(CodeOf(kind), kind)
  BY DEF Decide
<1>3. ASSUME NEW kind, kind # "done", Respond(CodeOf(kind), kind)
      PROVE  Stands(request')
  <2>1. AnswersFor(q, CodeOf("failed"))
    <3>1. CASE q.door = "gateway"
      BY <1>1, <3>1, GatewayAsked DEF CodeOf, Row
    <3>2. CASE q.door = "grpc"
      BY <1>1, <3>2, ServerAsked, FailureCodes DEF CodeOf, AnswersFor
    <3>3. CASE q.door = "http"
      <4>1. IF Pages[q.service][q.op].code = 0 THEN q.service \in {"user", "notification", "mail"}
            ELSE AnswersFor(q, Pages[q.service][q.op].code)
        BY <1>1, <3>3, PageAsked
      <4>2. CodeOf("failed") = IF Pages[q.service][q.op].code # 0 THEN Pages[q.service][q.op].code
                               ELSE PageCodes[q.service]["failed"]
        BY <3>3 DEF CodeOf, Row
      <4>3. 500 \in 500 .. 599
        OBVIOUS
      <4>4. CASE Pages[q.service][q.op].code = 0
        <5>1. CodeOf("failed") = 500
          BY <4>1, <4>2, <4>4, FailureCodes
        <5>2. QED
          BY <3>3, <4>3, <5>1 DEF AnswersFor
      <4>5. CASE Pages[q.service][q.op].code # 0
        BY <4>1, <4>2, <4>5
      <4>6. QED
        BY <4>4, <4>5
    <3>4. QED
      BY <1>1, <3>1, <3>2, <3>3
  <2>2. QED
    BY <1>3, <2>1, RespondStands
<1>4. ASSUME NEW code, Respond(code, "done"), ~refuses
      PROVE  Stands(request')
  <2>1. /\ IsRequest(request')
        /\ request'.step = "answered" /\ request'.asked = q /\ request'.holds = request.holds
        /\ request'.word = request.word /\ request'.actor = request.actor
        /\ request'.blanks = request.blanks /\ request'.cause = "done"
    BY <1>1, <1>4 DEF IsRequest, Respond
  <2>2. WordStands(request')
    BY <1>1, <1>4, <2>1 DEF Stands, WordStands, WentThrough, GatewaySteps
  <2>3. ActorStands(request')
    BY <1>1, <2>1 DEF Stands, ActorStands
  <2>4. QED
    BY <2>1, <2>2, <2>3 DEF Stands, AtDoor, FailureStands
<1>5. ASSUME Respond(CodeOf("done"), "done"), ~refuses
      PROVE  Stands(request')
  BY <1>4, <1>5
<1>6. ASSUME NEW kind, refuses => kind = "invalid", Respond(CodeOf(kind), kind)
      PROVE  Stands(request')
  BY <1>3, <1>5, <1>6
<1>7. QED
  BY <1>2, <1>4, <1>6

-----------------------------------------------------------------------------
\* Whatever comes in through whichever door, each layer has kept to its part: what was
\* given is still held, nothing is written unasked but by the two updates known to, the
\* name and the actor are what the layers so far may have made of them, and a failure
\* is answered for.
THEOREM DoorsInvariant == DoorsSpec => []DoorsInv
<1>1. DoorsInit => DoorsInv
  BY DEF DoorsInit, DoorsInv, NoRequest
<1>2. DoorsInv /\ [DoorsNext]_doorsVars => DoorsInv'
  <2> SUFFICES ASSUME DoorsInv, [DoorsNext]_doorsVars PROVE DoorsInv'
    OBVIOUS
  <2>1. CASE Take
    BY <2>1, TakeStands DEF DoorsInv
  <2>2. ASSUME Stands(request), DoorsNext, ~Take, ~Leave PROVE Stands(request')
    BY <2>2, MiddlewareStands, HandleStands, ServerStands, UnreachableStands, PageStands, DecideStands
       DEF DoorsNext
  <2>3. CASE Leave
    BY <2>3 DEF Leave, NoRequest, DoorsInv
  <2>4. ASSUME request.step = "none", DoorsNext PROVE Take
    BY <2>4 DEF DoorsNext, CheckToken, PassLimit, RequireKey, CheckRole, Handle, ServerReads, Unreachable,
                PageReads, Decide, Leave, AtStep
  <2>5. CASE UNCHANGED doorsVars
    BY <2>5 DEF DoorsInv, doorsVars
  <2>6. QED
    BY <2>1, <2>2, <2>3, <2>4, <2>5 DEF DoorsInv
<1>3. QED
  BY <1>1, <1>2, PTL DEF DoorsSpec

\* A request that is done has gone through.
LEMMA DoneThrough == DoorsInv /\ Done => Stands(request) /\ WentThrough(request)
  BY DEF DoorsInv, Done, AtStep, WentThrough

\* What a request that is done gave has reached the service through every layer, but
\* for the fields known to be lost (the file, the tags and the responsible of a new
\* document, a new user's password, the path's id of a user's update, a template's name)
\* and for a text nobody could read: any of a question, and of what is stored a date
\* given at the gateway, which its handlers drop while the request succeeds.
THEOREM FieldsArrive == DoorsSpec => []GivenFieldsArrive
<1>1. DoorsInv => GivenFieldsArrive
  BY DoneThrough DEF GivenFieldsArrive, Stands, Arrives
<1>2. QED
  BY <1>1, DoorsInvariant, PTL

\* No update but that of the notification preferences and of a mail template writes a
\* field its request left out.
THEOREM OmittedStay == DoorsSpec => []OmittedFieldsStay
<1>1. DoorsInv => OmittedFieldsStay
  BY DoneThrough DEF OmittedFieldsStay, Stands
<1>2. QED
  BY <1>1, DoorsInvariant, PTL

\* Through the gateway a service acts in the caller's name, but where the handlers take
\* the person from the request or the route has no middleware.
THEOREM ActorsAreCallers == DoorsSpec => []ActorIsCaller
<1>1. DoorsInv => ActorIsCaller
  BY DoneThrough DEF ActorIsCaller, Stands, ActorStands, Acted, ActsRight
<1>2. QED
  BY <1>1, DoorsInvariant, PTL

\* A service's failure is answered with a code of a failure, but for the token check and
\* the operations whose handlers answer every error alike.
THEOREM FailuresOwned == DoorsSpec => []FailuresAreOwned
<1>1. DoorsInv => FailuresAreOwned
  BY DEF DoorsInv, FailuresAreOwned, AtStep, Stands, FailureStands, AnswersFor
<1>2. QED
  BY <1>1, DoorsInvariant, PTL

\* A name of a service's domain reaches the service as itself and is shown as itself,
\* whichever lists the layers between turn it by; another never gets into a row.
THEOREM NamesArrive == DoorsSpec => []NamedValuesArrive
<1>1. ASSUME DoorsInv, Done, request.asked.field # "none"
      PROVE  NamedValuesArrive
  <2> DEFINE q == request.asked
  <2>1. /\ q \in Asked /\ Arrived(q, request.word)
        /\ request.word = "bogus" => q.op \notin Stores
    BY <1>1, DoneThrough DEF Stands, WordStands
  <2>2. q.word \in Words(q) /\ q.door \in {"gateway", "grpc", "http"}
    BY <1>1, <2>1, AskedFits DEF Fits
  <2>3. CASE q.word = "bogus"
    BY <2>1, <2>3 DEF NamedValuesArrive, Arrived, Typed, Defaults
  <2>4. CASE q.word # "bogus" /\ Typed(q)
    <3>1. q.word \in NotificationTypes
      BY <2>2, <2>4 DEF Words, Typed
    <3>2. request.word = categoryFromProto(q.word, q.about)
      BY <2>1, <2>4 DEF Arrived
    <3>3. protoTypeFromCategory(request.word) = q.word \/ (q.word = "system" /\ q.about # "nothing")
      BY <3>1, <3>2, TypesKept
    <3>4. QED
      BY <2>4, <3>3 DEF NamedValuesArrive, Typed, Shown
  <2>5. CASE q.word # "bogus" /\ ~Typed(q)
    <3>1. request.word = q.word
      BY <2>1, <2>5 DEF Arrived
    <3>2. q.door = "gateway" => q.service # "notification"
      <4>1. q.door = "gateway"
                => NameOk(q.service, q.field, GatewayHandlers[q.service][q.op].names[q.field], GatewayRules)
        BY <1>1, <2>1, GatewayAsked
      <4>2. QED
        BY <4>1, NoTypesAtGateway
    <3>3. HasShown(q) => Shown(q, request.word) = q.word
      <4>1. SUFFICES ASSUME HasShown(q) PROVE Shown(q, request.word) = q.word
        OBVIOUS
      <4>2. q.service # "notification" /\ Table(ServerShows, q) # {}
        BY <2>2, <2>5, <3>2, <4>1 DEF HasShown, Typed
      <4>3. <<q.service, q.field>> \in Turned
        BY <4>2, UnturnedNames, ShownTabled
      <4>4. q.word \in Table(ServerShows, q)
        BY <2>2, <2>5, <4>3, TurnedNames, ShownTabled DEF Known
      <4>5. QED
        BY <3>1, <4>2, <4>4 DEF Shown
    <3>4. QED
      BY <2>5, <3>1, <3>3 DEF NamedValuesArrive, Typed
  <2>6. QED
    BY <2>3, <2>4, <2>5
<1>2. DoorsInv => NamedValuesArrive
  BY <1>1 DEF NamedValuesArrive
<1>3. QED
  BY <1>2, DoorsInvariant, PTL

=============================================================================
