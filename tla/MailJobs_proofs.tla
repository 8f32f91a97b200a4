---------------------------- MODULE MailJobs_proofs ----------------------------
(***************************************************************************)
(* Theorems about MailJobs, for every set of job ids, every number of      *)
(* consumers and any number of messages per job id.                        *)
(***************************************************************************)
EXTENDS MailJobs, TLAPS

-----------------------------------------------------------------------------
\* The inductive invariant.  Ownership begins with the INSERT, which the UNIQUE
\* job_id grants once, so what an owner has done is what was ever done for the job.

\* The attempts a handler's copy of the job shows at each step.
AttemptsSoFar == \A c \in Consumers :
    /\ worker[c].step \in {"dedup", "create", "process"} => worker[c].attempts = 0
    /\ worker[c].step \in {"send", "recordSent", "recordFailed"} => worker[c].attempts = 1

\* An owner's row is there and not final, and no other consumer owns the job.
Ownership == \A c \in Consumers, j \in Jobs : Owns(c, j) =>
    /\ row[j].status \in {"queued", "processing"}
    /\ \A d \in Consumers : Owns(d, j) => c = d

\* A mail was sent only for a row that is there, and only by an owner that has
\* gone on to record it as sent.
Sending == \A j \in Jobs :
    /\ accepted[j] <= 1
    /\ accepted[j] = 1 => Exists(j)
    /\ \A c \in Consumers : Owns(c, j) /\ ~At(c, "recordSent") => accepted[j] = 0

\* A message is in flight only if it was published.
Published == \A j \in Jobs : inFlight[j] <= published[j]

Inv == TypeOK /\ Published /\ AttemptsSoFar /\ Ownership /\ Sending /\ FailedSentNothing

-----------------------------------------------------------------------------
\* Steps of one consumer.

\* A consumer that drops out, or goes on to a step at which it owns nothing,
\* leaves the other parts of the invariant as they were.
LEMMA Leaving ==
  ASSUME Inv, NEW c \in Consumers, NEW w \in Work,
         w.step \in {"idle", "dedup", "create"}, w.step # "idle" => w.job \in Jobs /\ w.attempts = 0,
         worker' = [worker EXCEPT ![c] = w],
         UNCHANGED <<row, accepted>>, submitted \subseteq submitted'
  PROVE  /\ worker' \in [Consumers -> Work]
         /\ \A d \in Consumers : worker'[d].step # "idle" => worker'[d].job \in Jobs
         /\ AttemptsSoFar' /\ Ownership' /\ Sending' /\ FailedSentNothing'
<1>1. worker'[c] = w /\ \A d \in Consumers \ {c} : worker'[d] = worker[d]
  BY DEF Inv, TypeOK
<1>2. \A d \in Consumers, j \in Jobs : Owns(d, j)' => Owns(d, j) /\ d # c
  BY <1>1 DEF Owns
<1>3. worker' \in [Consumers -> Work]
  BY DEF Inv, TypeOK
<1>4. \A d \in Consumers : worker'[d].step # "idle" => worker'[d].job \in Jobs
  BY <1>1 DEF Inv, TypeOK
<1>5. AttemptsSoFar'
  BY <1>1 DEF Inv, AttemptsSoFar
<1>6. Ownership'
  BY <1>2 DEF Inv, Ownership
<1>7. Sending'
  BY <1>1, <1>2 DEF Inv, Sending, At, Exists
<1>8. FailedSentNothing'
  BY DEF Inv, FailedSentNothing
<1>9. QED
  BY <1>3, <1>4, <1>5, <1>6, <1>7, <1>8

LEMMA IdleIsWork == Idle \in Work
BY DEF Idle, Work, Steps

\* Dropping out of the handler, whatever the reason.
LEMMA Finishing ==
  ASSUME Inv, NEW c \in Consumers, Finish(c), UNCHANGED <<row, accepted>>,
         submitted \subseteq submitted'
  PROVE  /\ worker' \in [Consumers -> Work]
         /\ \A d \in Consumers : worker'[d].step # "idle" => worker'[d].job \in Jobs
         /\ AttemptsSoFar' /\ Ownership' /\ Sending' /\ FailedSentNothing'
<1>1. Idle.step = "idle"
  BY DEF Idle
<1>2. QED
  BY <1>1, IdleIsWork, Leaving DEF Finish

\* A consumer that goes on without touching the row.
LEMMA GoingOn ==
  ASSUME Inv, NEW c \in Consumers, At(c, "send"), NEW step \in {"recordSent", "recordFailed"},
         Goto(c, step), UNCHANGED <<row, submitted>>
  PROVE  /\ worker' \in [Consumers -> Work]
         /\ \A d \in Consumers : worker'[d].step # "idle" => worker'[d].job \in Jobs
         /\ AttemptsSoFar' /\ Ownership'
         /\ \A d \in Consumers, j \in Jobs : Owns(d, j)' <=> Owns(d, j)
         /\ At(c, step)' /\ \A d \in Consumers \ {c} : worker'[d] = worker[d]
<1>1. worker[c] \in Work /\ [worker[c] EXCEPT !.step = step] \in Work
  BY DEF Inv, TypeOK, Work, Steps
<1>2. /\ worker'[c].step = step /\ worker'[c].job = worker[c].job
      /\ worker'[c].attempts = worker[c].attempts
      /\ \A d \in Consumers \ {c} : worker'[d] = worker[d]
  BY <1>1 DEF Goto, Inv, TypeOK, Work
<1>3. \A d \in Consumers, j \in Jobs : Owns(d, j)' <=> Owns(d, j)
  BY <1>2 DEF Owns, At
<1>4. worker' \in [Consumers -> Work]
  BY <1>1 DEF Goto, Inv, TypeOK
<1>5. \A d \in Consumers : worker'[d].step # "idle" => worker'[d].job \in Jobs
  BY <1>2 DEF Inv, TypeOK, At
<1>6. AttemptsSoFar'
  BY <1>2 DEF Inv, AttemptsSoFar, At
<1>7. Ownership'
  BY <1>3 DEF Inv, Ownership
<1>8. QED
  BY <1>2, <1>3, <1>4, <1>5, <1>6, <1>7 DEF At

-----------------------------------------------------------------------------

LEMMA InvInit == Init => Inv
<1> SUFFICES ASSUME Init PROVE Inv
  OBVIOUS
<1>1. TypeOK
  BY IdleIsWork, ConstantsOK DEF Init, TypeOK, NoRow, Row, Idle
<1>2. \A c \in Consumers : worker[c].step = "idle"
  BY DEF Init, Idle
<1>3. Published /\ AttemptsSoFar /\ Ownership /\ Sending
  BY <1>2 DEF Init, Published, AttemptsSoFar, Ownership, Sending, Owns
<1>4. FailedSentNothing
  BY DEF Init, FailedSentNothing
<1>5. QED
  BY <1>1, <1>3, <1>4 DEF Inv

\* The handler's actions.
LEMMA InvHandle == ASSUME Inv, NEW c \in Consumers, Handle(c) PROVE Inv'
<1>1. CASE MarkDedup(c)
  <2>1. CASE worker[c].job \in seen
    BY <1>1, <2>1, Finishing DEF MarkDedup, Inv, TypeOK, Published
  <2>2. CASE worker[c].job \notin seen
    <3>1. /\ worker[c].job \in Jobs /\ worker[c].attempts = 0
          /\ [worker[c] EXCEPT !.step = "create"] \in Work
      BY <1>1 DEF MarkDedup, At, Inv, TypeOK, AttemptsSoFar, Work, Steps
    <3>2. /\ [worker[c] EXCEPT !.step = "create"].step = "create"
          /\ [worker[c] EXCEPT !.step = "create"].job \in Jobs
          /\ [worker[c] EXCEPT !.step = "create"].attempts = 0
      BY <3>1 DEF Inv, TypeOK, Work
    <3>3. /\ worker' \in [Consumers -> Work]
          /\ \A d \in Consumers : worker'[d].step # "idle" => worker'[d].job \in Jobs
          /\ AttemptsSoFar' /\ Ownership' /\ Sending' /\ FailedSentNothing'
      <4> DEFINE w == [worker[c] EXCEPT !.step = "create"]
      <4>1. w \in Work /\ w.step = "create" /\ w.job \in Jobs /\ w.attempts = 0
        BY <3>1, <3>2
      <4>2. worker' = [worker EXCEPT ![c] = w] /\ UNCHANGED <<row, accepted, submitted>>
        BY <1>1, <2>2 DEF MarkDedup, Goto
      <4> HIDE DEF w
      <4>3. QED
        BY <4>1, <4>2, Leaving
    <3>4. seen' \subseteq Jobs
      BY <1>1, <2>2, <3>1 DEF MarkDedup, Inv, TypeOK
    <3>5. QED
      BY <1>1, <3>3, <3>4 DEF MarkDedup, Inv, TypeOK, Published
  <2>3. QED
    BY <2>1, <2>2
<1>2. CASE CreateJob(c)
  <2>1. CASE Exists(worker[c].job)
    BY <1>2, <2>1, Finishing DEF CreateJob, Inv, TypeOK, Published
  <2>2. CASE ~Exists(worker[c].job)
    <3> DEFINE j == worker[c].job
    <3>1. /\ j \in Jobs /\ worker[c].attempts = 0
          /\ [worker[c] EXCEPT !.step = "process"] \in Work
      BY <1>2 DEF CreateJob, At, Inv, TypeOK, AttemptsSoFar, Work, Steps
    <3>2. [status |-> "queued", attempts |-> 0] \in Row
      BY DEF Row, JobStatuses
    <3>3. row[j].status = "none" /\ accepted[j] = 0
      BY <2>2, <3>1 DEF Exists, Inv, Sending, TypeOK
    <3>4. \A d \in Consumers : ~Owns(d, j)
      BY <3>1, <3>3 DEF Inv, Ownership
    <3>5. /\ worker'[c].step = "process" /\ worker'[c].job = j /\ worker'[c].attempts = 0
          /\ \A d \in Consumers \ {c} : worker'[d] = worker[d]
          /\ row' = [row EXCEPT ![j] = [status |-> "queued", attempts |-> 0]]
          /\ row'[j].status = "queued" /\ \A k \in Jobs \ {j} : row'[k] = row[k]
          /\ UNCHANGED <<published, inFlight, seen, accepted, submitted, dropped>>
      BY <1>2, <2>2, <3>1 DEF CreateJob, Goto, Inv, TypeOK, Work
    <3>6. TypeOK'
      BY <1>2, <2>2, <3>1, <3>2, <3>5 DEF CreateJob, Goto, Inv, TypeOK
    <3> HIDE DEF j
    <3>7. /\ \A k \in Jobs : Owns(c, k)' <=> k = j
          /\ \A d \in Consumers \ {c}, k \in Jobs : Owns(d, k)' <=> Owns(d, k)
      <4>1. \A k \in Jobs : Owns(c, k)' <=> k = j
        BY <3>5 DEF Owns
      <4>2. \A d \in Consumers \ {c}, k \in Jobs : Owns(d, k)' <=> Owns(d, k)
        BY <3>5 DEF Owns
      <4>3. QED
        BY <4>1, <4>2
    <3>8. AttemptsSoFar'
      BY <3>5 DEF Inv, AttemptsSoFar
    <3>9. Ownership'
      <4> SUFFICES ASSUME NEW d \in Consumers, NEW k \in Jobs, Owns(d, k)'
                   PROVE  /\ row'[k].status \in {"queued", "processing"}
                          /\ \A e \in Consumers : Owns(e, k)' => d = e
        BY DEF Ownership
      <4>1. CASE d = c
        BY <4>1, <3>4, <3>5, <3>7
      <4>2. CASE d # c
        BY <4>2, <3>1, <3>4, <3>5, <3>7 DEF Inv, Ownership
      <4>3. QED
        BY <4>1, <4>2
    <3>10. Sending'
      BY <3>1, <3>3, <3>4, <3>5, <3>7 DEF Inv, Sending, Exists, At
    <3>11. FailedSentNothing'
      BY <3>1, <3>5 DEF Inv, FailedSentNothing
    <3>12. QED
      BY <3>5, <3>6, <3>8, <3>9, <3>10, <3>11 DEF Inv, Published
  <2>3. QED
    BY <2>1, <2>2
<1>3. CASE MarkProcessing(c)
  <2> DEFINE j == worker[c].job
  <2>1. PICK step \in {"send", "recordFailed"} :
          worker' = [worker EXCEPT ![c] = [@ EXCEPT !.step = step, !.attempts = row'[j].attempts]]
    BY <1>3 DEF MarkProcessing
  <2>2. j \in Jobs /\ worker[c].attempts = 0 /\ worker[c] \in Work
    BY <1>3 DEF MarkProcessing, At, Inv, TypeOK, AttemptsSoFar
  <2>3. /\ row' = [row EXCEPT ![j] = [status |-> "processing", attempts |-> 1]]
        /\ UNCHANGED <<published, inFlight, seen, accepted, submitted, dropped>>
    BY <1>3, <2>2 DEF MarkProcessing, WriteStatus
  <2>4. [status |-> "processing", attempts |-> 1] \in Row
    BY DEF Row, JobStatuses
  <2>5. row' \in [Jobs -> Row] /\ row'[j].status = "processing" /\ row'[j].attempts = 1
        /\ \A k \in Jobs \ {j} : row'[k] = row[k]
    BY <2>2, <2>3, <2>4 DEF Inv, TypeOK
  <2>6. [worker[c] EXCEPT !.step = step, !.attempts = row'[j].attempts] \in Work
    <3>1. \A n \in 0 .. 2 : [worker[c] EXCEPT !.step = step, !.attempts = n] \in Work
      BY <2>2 DEF Work, Steps
    <3>2. row'[j].attempts \in 0 .. 2
      BY <2>5
    <3>3. QED
      BY <3>1, <3>2
  <2>7. /\ worker'[c].step = step /\ worker'[c].job = j /\ worker'[c].attempts = 1
        /\ \A d \in Consumers \ {c} : worker'[d] = worker[d]
        /\ worker' \in [Consumers -> Work]
    BY <2>1, <2>2, <2>5, <2>6 DEF Inv, TypeOK, Work
  <2>8. TypeOK'
    BY <2>2, <2>3, <2>5, <2>7 DEF Inv, TypeOK
  <2>9. Owns(c, j) /\ At(c, "process")
    BY <1>3 DEF MarkProcessing, At, Owns
  <2> HIDE DEF j
  <2>10. \A d \in Consumers, k \in Jobs : Owns(d, k)' <=> Owns(d, k)
    BY <2>7, <2>9 DEF Owns
  <2>11. accepted[j] = 0
    BY <2>2, <2>9 DEF Inv, Sending, At
  <2>12. AttemptsSoFar'
    BY <2>7 DEF Inv, AttemptsSoFar
  <2>13. Ownership'
    BY <2>5, <2>10 DEF Inv, Ownership
  <2>14. Sending'
    BY <2>2, <2>3, <2>5, <2>7, <2>10, <2>11 DEF Inv, Sending, Exists, At, Owns
  <2>15. FailedSentNothing'
    BY <2>2, <2>3, <2>5 DEF Inv, FailedSentNothing
  <2>16. QED
    BY <2>3, <2>8, <2>12, <2>13, <2>14, <2>15 DEF Inv, Published
<1>4. CASE SendAccepted(c)
  <2> DEFINE j == worker[c].job
  <2>1. /\ worker' \in [Consumers -> Work]
        /\ \A d \in Consumers : worker'[d].step # "idle" => worker'[d].job \in Jobs
        /\ AttemptsSoFar' /\ Ownership'
        /\ \A d \in Consumers, k \in Jobs : Owns(d, k)' <=> Owns(d, k)
        /\ At(c, "recordSent")' /\ \A d \in Consumers \ {c} : worker'[d] = worker[d]
    BY <1>4, GoingOn DEF SendAccepted
  <2>2. j \in Jobs /\ Owns(c, j) /\ ~At(c, "recordSent")
    BY <1>4 DEF SendAccepted, At, Owns, Inv, TypeOK
  <2>3. accepted[j] = 0 /\ row[j].status \in {"queued", "processing"}
    BY <2>2 DEF Inv, Sending, Ownership
  <2>4. accepted' = [accepted EXCEPT ![j] = 1]
    BY <1>4, <2>3 DEF SendAccepted
  <2>5. UNCHANGED <<published, inFlight, seen, row, submitted, dropped>>
    BY <1>4 DEF SendAccepted
  <2> HIDE DEF j
  <2>6. TypeOK'
    BY <2>1, <2>4, <2>5 DEF Inv, TypeOK
  <2>7. Sending'
    <3>1. accepted'[j] = 1 /\ \A k \in Jobs \ {j} : accepted'[k] = accepted[k]
      BY <2>2, <2>4 DEF Inv, TypeOK
    <3>2. \A d \in Consumers : Owns(d, j) => d = c
      BY <2>2 DEF Inv, Ownership
    <3>3. \A d \in Consumers, k \in Jobs : Owns(d, k)' /\ ~At(d, "recordSent")' => d # c
      BY <2>1
    <3>4. \A d \in Consumers, k \in Jobs : Owns(d, k)' /\ ~At(d, "recordSent")' => accepted'[k] = 0
      BY <2>1, <3>1, <3>2, <3>3 DEF Inv, Sending, At
    <3>5. QED
      BY <2>3, <2>5, <3>1, <3>4 DEF Inv, Sending, Exists
  <2>8. FailedSentNothing'
    BY <2>2, <2>3, <2>4, <2>5 DEF Inv, TypeOK, FailedSentNothing
  <2>9. QED
    BY <2>1, <2>5, <2>6, <2>7, <2>8 DEF Inv, Published
<1>5. ASSUME SendRefused(c) \/ SendRefusedAtClose(c) PROVE Inv'
  <2>1. PICK step \in {"recordFailed", "recordSent"} : Goto(c, step)
    BY <1>5 DEF SendRefused, SendRefusedAtClose
  <2>2. At(c, "send") /\ UNCHANGED <<published, inFlight, seen, row, accepted, submitted, dropped>>
    BY <1>5 DEF SendRefused, SendRefusedAtClose
  <2>3. /\ worker' \in [Consumers -> Work]
        /\ \A d \in Consumers : worker'[d].step # "idle" => worker'[d].job \in Jobs
        /\ AttemptsSoFar' /\ Ownership'
        /\ \A d \in Consumers, k \in Jobs : Owns(d, k)' <=> Owns(d, k)
        /\ \A d \in Consumers \ {c} : worker'[d] = worker[d]
    BY <2>1, <2>2, GoingOn
  <2>4. Sending'
    BY <2>2, <2>3 DEF Inv, Sending, Exists, At
  <2>5. QED
    BY <2>2, <2>3, <2>4 DEF Inv, TypeOK, FailedSentNothing, Published
<1>6. CASE Record(c)
  <2> DEFINE j == worker[c].job
             final == IF At(c, "recordSent") THEN "sent" ELSE "failed"
  <2>1. j \in Jobs /\ worker[c].attempts = 1 /\ Owns(c, j)
    BY <1>6 DEF Record, Owns, Inv, TypeOK, AttemptsSoFar
  <2>2. /\ row' = [row EXCEPT ![j] = [status |-> final, attempts |-> 2]]
        /\ UNCHANGED <<published, inFlight, seen, accepted, submitted, dropped>>
    BY <1>6, <2>1 DEF Record, WriteStatus
  <2>3. row' \in [Jobs -> Row]
    BY <2>1, <2>2 DEF Inv, TypeOK, Row, JobStatuses
  <2>4. row'[j].status = final /\ \A k \in Jobs \ {j} : row'[k] = row[k]
    BY <2>1, <2>2 DEF Inv, TypeOK
  <2>5. worker' = [worker EXCEPT ![c] = Idle]
    BY <1>6 DEF Record, Finish
  <2>6. worker'[c].step = "idle" /\ worker'[c] \in Work /\ \A d \in Consumers \ {c} : worker'[d] = worker[d]
    BY <2>5, IdleIsWork DEF Inv, TypeOK, Idle
  <2>7. TypeOK'
    BY <2>2, <2>3, <2>5, <2>6, IdleIsWork DEF Inv, TypeOK
  <2>8. final = "failed" => accepted[j] = 0
    BY <2>1 DEF Inv, Sending
  <2>9. final \in {"sent", "failed"}
    OBVIOUS
  <2> HIDE DEF j, final
  <2>10. \A d \in Consumers, k \in Jobs : Owns(d, k)' => Owns(d, k) /\ d # c /\ k # j
    BY <2>1, <2>6 DEF Inv, Ownership, Owns
  <2>11. AttemptsSoFar'
    BY <2>6 DEF Inv, AttemptsSoFar
  <2>12. Ownership'
    BY <2>4, <2>10 DEF Inv, Ownership
  <2>13. Sending'
    BY <2>1, <2>2, <2>4, <2>6, <2>9, <2>10 DEF Inv, Sending, Exists, At
  <2>14. FailedSentNothing'
    BY <2>2, <2>4, <2>8 DEF Inv, FailedSentNothing
  <2>15. QED
    BY <2>2, <2>7, <2>11, <2>12, <2>13, <2>14 DEF Inv, Published
<1>7. QED
  BY <1>1, <1>2, <1>3, <1>4, <1>5, <1>6 DEF Handle

LEMMA InvNext == Inv /\ [Next]_vars => Inv'
<1> SUFFICES ASSUME Inv, [Next]_vars PROVE Inv'
  OBVIOUS
<1>1. ASSUME NEW j \in Jobs, Publish(j) PROVE Inv'
  <2>1. /\ published' = [published EXCEPT ![j] = published[j] + 1]
        /\ inFlight' = [inFlight EXCEPT ![j] = inFlight[j] + 1]
        /\ UNCHANGED <<seen, row, worker, accepted, submitted, dropped>>
    BY <1>1 DEF Publish
  <2>2. published[j] + 1 \in 0 .. MaxCopies /\ inFlight[j] + 1 \in 0 .. MaxCopies
    BY <1>1, ConstantsOK DEF Publish, Inv, TypeOK, Published
  <2>3. TypeOK' /\ Published'
    BY <2>1, <2>2 DEF Inv, TypeOK, Published
  <2>4. QED
    BY <2>1, <2>3 DEF Inv, AttemptsSoFar, Ownership, Sending, FailedSentNothing, Owns, At, Exists
<1>2. ASSUME NEW j \in Jobs, Lose(j) PROVE Inv'
  <2>1. inFlight' = [inFlight EXCEPT ![j] = inFlight[j] - 1] /\ inFlight[j] > 0
        /\ UNCHANGED <<published, seen, row, worker, accepted, submitted, dropped>>
    BY <1>2 DEF Lose
  <2>2. TypeOK' /\ Published'
    BY <2>1, ConstantsOK DEF Inv, TypeOK, Published
  <2>3. QED
    BY <2>1, <2>2 DEF Inv, AttemptsSoFar, Ownership, Sending, FailedSentNothing, Owns, At, Exists
<1>3. ASSUME NEW j \in Jobs, Submit(j) PROVE Inv'
  <2>1. PICK status \in JobStatuses : row' = [row EXCEPT ![j] = [status |-> status, attempts |-> 0]]
    BY <1>3 DEF Submit
  <2>2. /\ ~Exists(j) /\ submitted' = submitted \cup {j}
        /\ UNCHANGED <<published, inFlight, seen, worker, accepted, dropped>>
    BY <1>3 DEF Submit
  <2>3. /\ row' \in [Jobs -> Row] /\ row'[j].status = status
        /\ \A k \in Jobs \ {j} : row'[k] = row[k]
    BY <2>1 DEF Inv, TypeOK, Row
  <2>4. TypeOK' /\ Published'
    BY <2>2, <2>3 DEF Inv, TypeOK, Published
  <2>5. (\A c \in Consumers : ~Owns(c, j)) /\ status # "none" /\ accepted[j] # 1
    BY <2>2 DEF Inv, Ownership, Sending, Exists, JobStatuses
  <2>6. Ownership'
    BY <2>2, <2>3, <2>5 DEF Inv, Ownership, Owns
  <2>7. Sending'
    BY <2>2, <2>3, <2>5 DEF Inv, Sending, Owns, At, Exists
  <2>8. QED
    BY <2>2, <2>3, <2>4, <2>6, <2>7 DEF Inv, AttemptsSoFar, FailedSentNothing
<1>4. ASSUME NEW j \in Jobs, Expire(j) PROVE Inv'
  BY <1>4 DEF Expire, Inv, TypeOK, Published, AttemptsSoFar, Ownership, Sending, FailedSentNothing, Owns, At, Exists
<1>5. ASSUME NEW j \in Jobs, NEW c \in Consumers, Deliver(c, j) PROVE Inv'
  <2> DEFINE w == [step |-> "dedup", job |-> j, attempts |-> 0]
  <2>1. w \in Work /\ w.step = "dedup" /\ w.job \in Jobs /\ w.attempts = 0
    BY DEF Work, Steps
  <2>2. /\ worker' = [worker EXCEPT ![c] = w] /\ inFlight[j] > 0
        /\ inFlight' = [inFlight EXCEPT ![j] = inFlight[j] - 1]
        /\ UNCHANGED <<published, seen, row, accepted, submitted, dropped>>
    BY <1>5 DEF Deliver
  <2> HIDE DEF w
  <2>3. /\ worker' \in [Consumers -> Work]
        /\ \A d \in Consumers : worker'[d].step # "idle" => worker'[d].job \in Jobs
        /\ AttemptsSoFar' /\ Ownership' /\ Sending' /\ FailedSentNothing'
    BY <2>1, <2>2, Leaving
  <2>4. QED
    BY <2>2, <2>3, ConstantsOK DEF Inv, TypeOK, Published
<1>6. ASSUME NEW c \in Consumers, Fail(c) \/ Crash(c) PROVE Inv'
  <2>1. worker[c].job \in Jobs /\ Finish(c) /\ dropped' = dropped \cup {worker[c].job}
        /\ UNCHANGED <<published, inFlight, seen, row, accepted, submitted>>
    BY <1>6 DEF Fail, Crash, Busy, Inv, TypeOK
  <2>2. QED
    BY <2>1, Finishing DEF Inv, TypeOK, Published
<1>7. CASE UNCHANGED vars
  BY <1>7 DEF vars, Inv, TypeOK, Published, AttemptsSoFar, Ownership, Sending, FailedSentNothing, Owns, At, Exists
<1>8. QED
  BY <1>1, <1>2, <1>3, <1>4, <1>5, <1>6, <1>7, InvHandle DEF Next

LEMMA InvAlways == Spec => []Inv
BY InvInit, InvNext, PTL DEF Spec

-----------------------------------------------------------------------------

\* Every reachable state is well typed.
THEOREM TypeCorrect == Spec => []TypeOK
<1>1. Inv => TypeOK
  BY DEF Inv
<1>2. QED
  BY <1>1, InvAlways, PTL

\* However often HandleQueuedJob is handed a job id, by however many consumers,
\* and whatever fails, crashes or expires in between, SMTP takes one mail for it.
THEOREM OneMailPerJob == Spec => []AtMostOneMail
<1>1. Inv => AtMostOneMail
  BY DEF Inv, Sending, AtMostOneMail
<1>2. QED
  BY <1>1, InvAlways, PTL

\* A job HandleQueuedJob recorded as failed sent nothing.
THEOREM FailedMeansUnsent == Spec => []FailedSentNothing
<1>1. Inv => FailedSentNothing
  BY DEF Inv
<1>2. QED
  BY <1>1, InvAlways, PTL

\* No step rewrites a row whose status is final.
THEOREM FinalRowsStay == Spec => FinalStays
<1>1. ASSUME Inv, [Next]_vars
      PROVE  [\A j \in Jobs : row[j].status \in Final => row'[j] = row[j]]_row
  <2> SUFFICES ASSUME row' # row, NEW j \in Jobs, row[j].status \in Final
               PROVE  row'[j] = row[j]
    OBVIOUS
  <2>1. Exists(j) /\ \A c \in Consumers : ~Owns(c, j)
    BY <1>1 DEF Inv, Ownership, Exists, Final
  <2>2. ASSUME NEW k \in Jobs, Submit(k) PROVE row'[j] = row[j]
    BY <2>1, <2>2 DEF Submit
  <2>3. ASSUME NEW c \in Consumers, CreateJob(c) PROVE row'[j] = row[j]
    <3>1. worker[c].job # j /\ \E r : row' = [row EXCEPT ![worker[c].job] = r]
      BY <2>1, <2>3 DEF CreateJob
    <3>2. QED
      BY <1>1, <3>1 DEF Inv, TypeOK
  <2>4. ASSUME NEW c \in Consumers, MarkProcessing(c) \/ Record(c) PROVE row'[j] = row[j]
    <3>1. worker[c].job # j
      BY <2>1, <2>4 DEF MarkProcessing, Record, At, Owns
    <3>2. PICK r : row' = [row EXCEPT ![worker[c].job] = r]
      BY <2>4 DEF MarkProcessing, Record, WriteStatus
    <3>3. QED
      BY <1>1, <3>1, <3>2 DEF Inv, TypeOK
  <2>5. ASSUME NEW c \in Consumers,
               MarkDedup(c) \/ SendAccepted(c) \/ SendRefused(c) \/ SendRefusedAtClose(c)
                 \/ Fail(c) \/ Crash(c)
        PROVE  FALSE
    BY <2>5 DEF MarkDedup, SendAccepted, SendRefused, SendRefusedAtClose, Fail, Crash
  <2>6. ASSUME NEW k \in Jobs,
               Publish(k) \/ Lose(k) \/ Expire(k) \/ \E c \in Consumers : Deliver(c, k)
        PROVE  FALSE
    BY <2>6 DEF Publish, Lose, Expire, Deliver
  <2>7. Next
    BY <1>1 DEF vars
  <2>8. QED
    BY <2>2, <2>3, <2>4, <2>5, <2>6, <2>7 DEF Next, Handle
<1>2. QED
  BY <1>1, InvAlways, PTL DEF Spec, FinalStays

-----------------------------------------------------------------------------
\* Why a stalled job is explained: only the INSERT and the UPDATE to processing leave
\* a row short of final, and their consumer goes on owning it; it gives the job up by
\* recording it or by being cut short.

\* What a step of consumer c has to say of each row, the other consumers standing still.
LEMMA Explaining ==
  ASSUME StalledIsExplained, NEW c \in Consumers,
         \A d \in Consumers \ {c} : worker'[d] = worker[d],
         submitted \subseteq submitted', dropped \subseteq dropped',
         \A j \in Jobs : \/ row'[j].status \notin {"queued", "processing"}
                         \/ Owns(c, j)' \/ j \in submitted' \/ j \in dropped'
                         \/ row'[j] = row[j] /\ ~Owns(c, j)
  PROVE  StalledIsExplained'
<1> SUFFICES ASSUME NEW j \in Jobs, row'[j] = row[j], row[j].status \in {"queued", "processing"},
                    ~Owns(c, j)
             PROVE  (\E d \in Consumers : Owns(d, j)') \/ j \in submitted' \/ j \in dropped'
  BY DEF StalledIsExplained
<1>1. \A d \in Consumers \ {c} : Owns(d, j) => Owns(d, j)'
  BY DEF Owns
<1>2. QED
  BY <1>1 DEF StalledIsExplained

\* A consumer that stays an owner, or owns nothing, and leaves the rows alone.
LEMMA StillOwns ==
  ASSUME Inv, StalledIsExplained, NEW c \in Consumers,
         \A d \in Consumers \ {c} : worker'[d] = worker[d], UNCHANGED <<row, submitted, dropped>>,
         \A j \in Jobs : Owns(c, j) => Owns(c, j)'
  PROVE  StalledIsExplained'
BY Explaining

LEMMA Left ==
  ASSUME Inv, NEW c \in Consumers, Finish(c)
  PROVE  \A d \in Consumers \ {c} : worker'[d] = worker[d]
BY DEF Inv, TypeOK, Finish

LEMMA HandleExplains ==
  ASSUME Inv, StalledIsExplained, NEW c \in Consumers, Handle(c)
  PROVE  StalledIsExplained'
<1> DEFINE k == worker[c].job
<1>1. ASSUME NEW step, Goto(c, step)
      PROVE  /\ worker'[c].step = step /\ worker'[c].job = worker[c].job
             /\ \A d \in Consumers \ {c} : worker'[d] = worker[d]
  BY <1>1 DEF Goto, Inv, TypeOK, Work
<1>2. CASE MarkDedup(c)
  <2>1. \A d \in Consumers \ {c} : worker'[d] = worker[d]
    BY <1>1, <1>2, Left DEF MarkDedup
  <2>2. \A j \in Jobs : ~Owns(c, j)
    BY <1>2 DEF MarkDedup, At, Owns
  <2>3. QED
    BY <1>2, <2>1, <2>2, StillOwns DEF MarkDedup
<1>3. CASE CreateJob(c)
  <2>1. \A j \in Jobs : ~Owns(c, j)
    BY <1>3 DEF CreateJob, At, Owns
  <2>2. k \in Jobs
    BY <1>3 DEF CreateJob, At, Inv, TypeOK
  <2>3. CASE Exists(k)
    BY <1>3, <2>1, <2>3, Left, StillOwns DEF CreateJob
  <2>4. CASE ~Exists(k)
    <3>1. Goto(c, "process") /\ row' = [row EXCEPT ![k] = [status |-> "queued", attempts |-> 0]]
      BY <1>3, <2>4 DEF CreateJob
    <3>2. Owns(c, k)'
      BY <1>1, <3>1 DEF Owns
    <3>3. \A j \in Jobs \ {k} : row'[j] = row[j]
      BY <3>1 DEF Inv, TypeOK
    <3>4. QED
      BY <1>1, <1>3, <2>1, <3>1, <3>2, <3>3, Explaining DEF CreateJob
  <2>5. QED
    BY <2>3, <2>4
<1>4. CASE MarkProcessing(c)
  <2> DEFINE n == row'[k].attempts
  <2>1. PICK step \in {"send", "recordFailed"} :
          worker' = [worker EXCEPT ![c] = [@ EXCEPT !.step = step, !.attempts = n]]
    BY <1>4 DEF MarkProcessing
  <2> HIDE DEF n
  <2>2. /\ worker'[c].step = step /\ worker'[c].job = k
        /\ \A d \in Consumers \ {c} : worker'[d] = worker[d]
    BY <2>1 DEF Inv, TypeOK, Work
  <2>3. Owns(c, k)' /\ \A j \in Jobs \ {k} : ~Owns(c, j)
    BY <2>2 DEF Owns
  <2>4. \A j \in Jobs \ {k} : row'[j] = row[j]
    BY <1>4 DEF MarkProcessing, WriteStatus, Inv, TypeOK
  <2>5. QED
    BY <1>4, <2>2, <2>3, <2>4, Explaining DEF MarkProcessing
<1>5. CASE SendAccepted(c) \/ SendRefused(c) \/ SendRefusedAtClose(c)
  <2>1. /\ worker'[c].step \in {"recordSent", "recordFailed"} /\ worker'[c].job = k
        /\ \A d \in Consumers \ {c} : worker'[d] = worker[d]
    BY <1>1, <1>5 DEF SendAccepted, SendRefused, SendRefusedAtClose
  <2>2. \A j \in Jobs : Owns(c, j) => Owns(c, j)'
    BY <2>1 DEF Owns
  <2>3. QED
    BY <1>5, <2>1, <2>2, StillOwns DEF SendAccepted, SendRefused, SendRefusedAtClose
<1>6. CASE Record(c)
  <2>1. \A j \in Jobs \ {k} : row'[j] = row[j] /\ ~Owns(c, j)
    BY <1>6 DEF Record, WriteStatus, Owns, Inv, TypeOK
  <2>2. k \in Jobs => row'[k].status \in {"sent", "failed"}
    BY <1>6 DEF Record, WriteStatus, Inv, TypeOK
  <2>3. QED
    BY <1>6, <2>1, <2>2, Left, Explaining DEF Record
<1>7. QED
  BY <1>2, <1>3, <1>4, <1>5, <1>6 DEF Handle

LEMMA StepExplains ==
  ASSUME Inv, StalledIsExplained, [Next]_vars PROVE StalledIsExplained'
<1>1. ASSUME UNCHANGED <<row, worker, dropped>>, submitted \subseteq submitted'
      PROVE  StalledIsExplained'
  BY <1>1 DEF StalledIsExplained, Owns
<1>2. ASSUME NEW j \in Jobs, Submit(j)
      PROVE  StalledIsExplained'
  <2>1. \A i \in Jobs \ {j} : row'[i] = row[i]
    BY <1>2 DEF Submit, Inv, TypeOK
  <2>2. \A i \in Jobs, c \in Consumers : Owns(c, i) => Owns(c, i)'
    BY <1>2 DEF Submit, Owns
  <2>3. QED
    BY <1>2, <2>1, <2>2 DEF Submit, StalledIsExplained
<1>3. ASSUME NEW c \in Consumers, NEW j \in Jobs, Deliver(c, j)
      PROVE  StalledIsExplained'
  <2>1. \A d \in Consumers \ {c} : worker'[d] = worker[d]
    BY <1>3 DEF Deliver, Inv, TypeOK
  <2>2. \A i \in Jobs : ~Owns(c, i)
    BY <1>3 DEF Deliver, Busy, Owns
  <2>3. QED
    BY <1>3, <2>1, <2>2, StillOwns DEF Deliver
<1>4. ASSUME NEW c \in Consumers, Fail(c) \/ Crash(c)
      PROVE  StalledIsExplained'
  <2>1. \A j \in Jobs : Owns(c, j) => j \in dropped'
    BY <1>4 DEF Fail, Crash, Owns
  <2>2. QED
    BY <1>4, <2>1, Left, Explaining DEF Fail, Crash
<1>5. QED
  BY <1>1, <1>2, <1>3, <1>4, HandleExplains DEF Next, vars, Publish, Lose, Expire

\* A job never stalls unnoticed: while its row is queued or processing some consumer is
\* at work on it, unless a caller submitted it or its handling was cut short.
THEOREM StalledAreExplained == Spec => []StalledIsExplained
<1>1. Init => StalledIsExplained
  BY DEF Init, NoRow, StalledIsExplained
<1>2. Inv /\ StalledIsExplained /\ [Next]_vars => StalledIsExplained'
  BY StepExplains
<1>3. QED
  BY <1>1, <1>2, InvAlways, PTL DEF Spec

-----------------------------------------------------------------------------
\* Why the log is kept: an owner's row is one the service entered, and its status is
\* where the owner is.

Paced ==
    /\ \A j \in submitted : Exists(j)
    /\ \A c \in Consumers, j \in Jobs : Owns(c, j) =>
           /\ j \notin submitted
           /\ row[j].status = IF At(c, "process") THEN "queued" ELSE "processing"

\* A step at which no consumer comes to own a job, and the rows that are owned, and who
\* submitted them, stay.
LEMMA PaceStands ==
  ASSUME Paced, \A j \in submitted' : Exists(j)',
         \A c \in Consumers, j \in Jobs : Owns(c, j)' =>
             /\ Owns(c, j) /\ (At(c, "process")' <=> At(c, "process"))
             /\ row'[j] = row[j] /\ (j \in submitted' <=> j \in submitted)
  PROVE  Paced'
BY DEF Paced

\* What a consumer does to its own entry when it goes to another step.
LEMMA Stepping ==
  ASSUME TypeOK, NEW c \in Consumers, NEW step, Goto(c, step)
  PROVE  /\ worker'[c].step = step /\ worker'[c].job = worker[c].job
         /\ \A d \in Consumers \ {c} : worker'[d] = worker[d]
BY DEF Goto, TypeOK, Work

LEMMA Stopping ==
  ASSUME TypeOK, NEW c \in Consumers, Finish(c)
  PROVE  /\ \A j \in Jobs : ~Owns(c, j)'
         /\ \A d \in Consumers \ {c} : worker'[d] = worker[d]
BY DEF Finish, TypeOK, Idle, Owns

\* The UPDATE changes the row of the consumer's job alone.
LEMMA Written ==
  ASSUME TypeOK, NEW c \in Consumers, worker[c].job \in Jobs, NEW status, WriteStatus(c, status)
  PROVE  row'[worker[c].job].status = status /\ \A j \in Jobs \ {worker[c].job} : row'[j] = row[j]
BY DEF WriteStatus, TypeOK

\* No row goes away.
LEMMA EnteredStay ==
  ASSUME Inv, Paced, [Next]_vars
  PROVE  \A j \in submitted' : Exists(j)'
<1> SUFFICES ASSUME NEW j \in submitted' PROVE Exists(j)'
  OBVIOUS
<1>1. CASE UNCHANGED <<row, submitted>>
  BY <1>1 DEF Paced, Exists
<1>2. ASSUME NEW k \in Jobs, Submit(k)
      PROVE  Exists(j)'
  BY <1>2 DEF Submit, Exists, Paced, JobStatuses, Inv, TypeOK
<1>3. ASSUME NEW k \in Jobs, NEW r \in Row, r.status # "none", row' = [row EXCEPT ![k] = r], UNCHANGED submitted
      PROVE  Exists(j)'
  BY <1>3 DEF Exists, Paced, Inv, TypeOK
<1>4. ASSUME NEW c \in Consumers, CreateJob(c) \/ MarkProcessing(c) \/ Record(c), row' # row
      PROVE  \E k \in Jobs, r \in Row : r.status # "none" /\ row' = [row EXCEPT ![k] = r] /\ UNCHANGED submitted
  <2>1. worker[c].job \in Jobs /\ worker[c].attempts + 1 \in 1 .. 2 /\ UNCHANGED submitted
    BY <1>4 DEF CreateJob, MarkProcessing, Record, At, Inv, TypeOK, AttemptsSoFar
  <2>2. PICK status \in {"queued", "processing", "sent", "failed"}, n \in 0 .. 2 :
          row' = [row EXCEPT ![worker[c].job] = [status |-> status, attempts |-> n]]
    BY <1>4, <2>1 DEF CreateJob, MarkProcessing, Record, WriteStatus, At, Inv, AttemptsSoFar
  <2>3. [status |-> status, attempts |-> n] \in Row /\ [status |-> status, attempts |-> n].status # "none"
    BY DEF Row, JobStatuses
  <2>4. QED
    BY <2>1, <2>2, <2>3
<1>5. ASSUME NEW c \in Consumers, Handle(c) \/ Fail(c) \/ Crash(c)
      PROVE  CreateJob(c) \/ MarkProcessing(c) \/ Record(c) \/ UNCHANGED <<row, submitted>>
  BY <1>5 DEF Handle, MarkDedup, SendAccepted, SendRefused, SendRefusedAtClose, Fail, Crash
<1>6. ASSUME NEW c \in Consumers, CreateJob(c) \/ MarkProcessing(c) \/ Record(c)
      PROVE  Exists(j)'
  <2>1. UNCHANGED submitted
    BY <1>6 DEF CreateJob, MarkProcessing, Record
  <2>2. CASE row' = row
    BY <1>1, <2>1, <2>2
  <2>3. CASE row' # row
    BY <1>3, <1>4, <1>6, <2>3
  <2>4. QED
    BY <2>2, <2>3
<1>7. QED
  BY <1>1, <1>2, <1>5, <1>6 DEF Next, vars, Publish, Lose, Expire, Deliver

LEMMA PaceKept ==
  ASSUME Inv, Paced, [Next]_vars
  PROVE  Paced'
<1>1. ASSUME UNCHANGED <<row, worker, submitted>>
      PROVE  Paced'
  BY <1>1 DEF Paced, Owns, At, Exists
<1>2. ASSUME NEW k \in Jobs, Submit(k)
      PROVE  Paced'
  <2>1. /\ ~Exists(k) /\ submitted' = submitted \cup {k} /\ UNCHANGED worker
        /\ \A j \in Jobs \ {k} : row'[j] = row[j]
    BY <1>2 DEF Submit, Inv, TypeOK
  <2>2. \A c \in Consumers : ~Owns(c, k)
    BY <2>1 DEF Inv, Ownership, Exists
  <2>3. \A c \in Consumers, j \in Jobs : Owns(c, j)' => Owns(c, j) /\ j # k
    BY <2>1, <2>2 DEF Owns
  <2>4. \A c \in Consumers : At(c, "process")' <=> At(c, "process")
    BY <2>1 DEF At
  <2>5. QED
    BY <2>1, <2>3, <2>4, EnteredStay, PaceStands
<1>3. ASSUME NEW c \in Consumers,
             \/ \E k \in Jobs : Deliver(c, k)
             \/ MarkDedup(c) \/ Fail(c) \/ Crash(c) \/ (CreateJob(c) /\ Exists(worker[c].job))
      PROVE  Paced'
  <2>1. UNCHANGED <<row, submitted>>
    BY <1>3 DEF Deliver, MarkDedup, Fail, Crash, CreateJob
  <2>2. (\A j \in Jobs : ~Owns(c, j)') /\ \A d \in Consumers \ {c} : worker'[d] = worker[d]
    <3>1. CASE \E k \in Jobs : Deliver(c, k)
      BY <3>1 DEF Deliver, Inv, TypeOK, Owns
    <3>2. CASE Finish(c)
      BY <3>2, Stopping DEF Inv
    <3>3. CASE Goto(c, "create")
      BY <3>3, Stepping DEF Inv, Owns
    <3>4. QED
      BY <1>3, <3>1, <3>2, <3>3 DEF MarkDedup, Fail, Crash, CreateJob
  <2>3. QED
    BY <2>1, <2>2, EnteredStay, PaceStands DEF Owns, At
<1>4. ASSUME NEW c \in Consumers, CreateJob(c), ~Exists(worker[c].job)
      PROVE  Paced'
  <2> DEFINE k == worker[c].job
  <2>1. k \in Jobs
    BY <1>4 DEF CreateJob, At, Inv, TypeOK
  <2>2. /\ Goto(c, "process") /\ UNCHANGED submitted
        /\ row' = [row EXCEPT ![k] = [status |-> "queued", attempts |-> 0]]
    BY <1>4 DEF CreateJob
  <2>3. row'[k].status = "queued" /\ \A j \in Jobs \ {k} : row'[j] = row[j]
    BY <2>1, <2>2 DEF Inv, TypeOK
  <2>4. \A d \in Consumers : ~Owns(d, k)
    BY <1>4, <2>1 DEF Inv, Ownership, Exists
  <2>5. k \notin submitted
    BY <1>4, <2>1 DEF Paced
  <2>6. QED
    BY <2>2, <2>3, <2>4, <2>5, EnteredStay, Stepping DEF Inv, Paced, Owns, At
<1>5. ASSUME NEW c \in Consumers, MarkProcessing(c)
      PROVE  Paced'
  <2> DEFINE k == worker[c].job
             n == row'[k].attempts
  <2>1. k \in Jobs /\ Owns(c, k) /\ \A d \in Consumers : Owns(d, k) => d = c
    BY <1>5 DEF MarkProcessing, At, Owns, Inv, TypeOK, Ownership
  <2>2. WriteStatus(c, "processing") /\ UNCHANGED submitted
    BY <1>5 DEF MarkProcessing
  <2>3. row'[k].status = "processing" /\ \A j \in Jobs \ {k} : row'[j] = row[j]
    BY <2>1, <2>2, Written DEF Inv
  <2>4. PICK step \in {"send", "recordFailed"} :
          worker' = [worker EXCEPT ![c] = [@ EXCEPT !.step = step, !.attempts = n]]
    BY <1>5 DEF MarkProcessing
  <2> HIDE DEF n
  <2>5. /\ worker'[c].step = step /\ worker'[c].job = k
        /\ \A d \in Consumers \ {c} : worker'[d] = worker[d]
    BY <2>4 DEF Inv, TypeOK, Work
  <2>6. QED
    BY <2>1, <2>2, <2>3, <2>5, EnteredStay DEF Paced, Owns, At
<1>6. ASSUME NEW c \in Consumers, SendAccepted(c) \/ SendRefused(c) \/ SendRefusedAtClose(c)
      PROVE  Paced'
  <2>1. PICK step \in {"recordSent", "recordFailed"} : Goto(c, step)
    BY <1>6 DEF SendAccepted, SendRefused, SendRefusedAtClose
  <2>2. At(c, "send") /\ UNCHANGED <<row, submitted>>
    BY <1>6 DEF SendAccepted, SendRefused, SendRefusedAtClose
  <2>3. QED
    BY <2>1, <2>2, Stepping, EnteredStay, PaceStands DEF Inv, Owns, At
<1>7. ASSUME NEW c \in Consumers, Record(c)
      PROVE  Paced'
  <2> DEFINE k == worker[c].job
  <2>1. k \in Jobs /\ \A d \in Consumers : Owns(d, k) => d = c
    BY <1>7 DEF Record, Owns, Inv, TypeOK, Ownership
  <2>2. Finish(c) /\ UNCHANGED submitted /\ \A j \in Jobs \ {k} : row'[j] = row[j]
    BY <1>7, <2>1, Written DEF Record, Inv
  <2>3. (\A j \in Jobs : ~Owns(c, j)') /\ \A d \in Consumers \ {c} : worker'[d] = worker[d]
    BY <2>2, Stopping DEF Inv
  <2>4. QED
    BY <2>1, <2>2, <2>3, EnteredStay, PaceStands DEF Owns, At
<1>8. ASSUME NEW c \in Consumers, Handle(c) PROVE Paced'
  <2>1. CASE CreateJob(c)
    BY <1>3, <1>4, <2>1
  <2>2. QED
    BY <1>3, <1>5, <1>6, <1>7, <1>8, <2>1 DEF Handle
<1>9. ASSUME NEW k \in Jobs, Publish(k) \/ Lose(k) \/ Expire(k) PROVE Paced'
  BY <1>1, <1>9 DEF Publish, Lose, Expire
<1>10. QED
  BY <1>1, <1>2, <1>3, <1>8, <1>9 DEF Next, vars

-----------------------------------------------------------------------------
\* Each statement is a step of the log, or none.

\* The log's steps, of the rows themselves: what each does to one job, the others
\* staying as they are.
SameElsewhere(k) == \A j \in Jobs \ {k} : row'[j].status = row[j].status

LEMMA LogStands ==
  ASSUME \A j \in Jobs : row'[j].status = row[j].status, UNCHANGED <<submitted, accepted>>
  PROVE  UNCHANGED Log!vars
BY DEF Log!vars

LEMMA MoveIsMove ==
  ASSUME NEW k \in Jobs, k \notin submitted, NEW from, NEW to,
         row[k].status = from, row'[k].status = to, SameElsewhere(k),
         UNCHANGED <<submitted, accepted>>
  PROVE  Log!Move(k, from, to)
BY DEF Log!Move, SameElsewhere

LEMMA GiveIsGive ==
  ASSUME NEW k \in Jobs, row[k].status = "none", row'[k].status \in JobStatuses, SameElsewhere(k),
         submitted' = submitted \cup {k}, UNCHANGED accepted
  PROVE  Log!Give(k)
BY DEF Log!Give, SameElsewhere

LEMMA HandleIsLogged ==
  ASSUME Inv, Paced, NEW c \in Consumers, Handle(c)
  PROVE  Log!Next \/ UNCHANGED Log!vars
<1> DEFINE k == worker[c].job
<1>1. CASE MarkDedup(c) \/ SendRefused(c) \/ SendRefusedAtClose(c) \/ (CreateJob(c) /\ Exists(k))
  BY <1>1, LogStands DEF MarkDedup, SendRefused, SendRefusedAtClose, CreateJob
<1>2. CASE CreateJob(c) /\ ~Exists(k)
  <2>1. k \in Jobs /\ k \notin submitted
    BY <1>2 DEF CreateJob, At, Inv, TypeOK, Paced
  <2>2. /\ row' = [row EXCEPT ![k] = [status |-> "queued", attempts |-> 0]]
        /\ UNCHANGED <<submitted, accepted>>
    BY <1>2 DEF CreateJob
  <2>3. row[k].status = "none" /\ row'[k].status = "queued" /\ SameElsewhere(k)
    BY <1>2, <2>1, <2>2 DEF Exists, SameElsewhere, Inv, TypeOK
  <2>4. Log!Move(k, "none", "queued")
    BY <2>1, <2>2, <2>3, MoveIsMove
  <2>5. QED
    BY <2>1, <2>4 DEF Log!Next
<1>3. CASE MarkProcessing(c)
  <2>1. k \in Jobs /\ Owns(c, k) /\ At(c, "process")
    BY <1>3 DEF MarkProcessing, At, Owns, Inv, TypeOK
  <2>2. row[k].status = "queued" /\ k \notin submitted
    BY <2>1 DEF Paced
  <2>3. row'[k].status = "processing" /\ SameElsewhere(k) /\ UNCHANGED <<submitted, accepted>>
    BY <1>3, <2>1, Written DEF MarkProcessing, SameElsewhere, Inv
  <2>4. Log!Move(k, "queued", "processing")
    BY <2>1, <2>2, <2>3, MoveIsMove
  <2>5. QED
    BY <2>1, <2>4 DEF Log!Next
<1>4. CASE SendAccepted(c)
  <2>1. k \in Jobs /\ Owns(c, k) /\ ~At(c, "process") /\ ~At(c, "recordSent")
    BY <1>4 DEF SendAccepted, At, Owns, Inv, TypeOK
  <2>2. row[k].status = "processing" /\ k \notin submitted /\ accepted[k] = 0
    BY <2>1 DEF Paced, Inv, Sending
  <2>3. accepted' = [accepted EXCEPT ![k] = 1] /\ UNCHANGED <<row, submitted>>
    BY <1>4, <2>2 DEF SendAccepted
  <2>4. Log!Mail(k)
    BY <2>1, <2>2, <2>3 DEF Log!Mail
  <2>5. QED
    BY <2>1, <2>4 DEF Log!Next
<1>5. CASE Record(c)
  <2>1. k \in Jobs /\ Owns(c, k) /\ ~At(c, "process")
    BY <1>5 DEF Record, At, Owns, Inv, TypeOK
  <2>2. /\ row[k].status = "processing" /\ k \notin submitted
        /\ ~At(c, "recordSent") => accepted[k] = 0
    BY <2>1 DEF Paced, Inv, Sending
  <2>3. PICK to \in {"sent", "failed"} : WriteStatus(c, to) /\ (to = "failed" => ~At(c, "recordSent"))
    BY <1>5 DEF Record
  <2>4. row'[k].status = to /\ SameElsewhere(k) /\ UNCHANGED <<submitted, accepted>>
    BY <1>5, <2>1, <2>3, Written DEF Record, SameElsewhere, Inv
  <2>5. Log!Move(k, "processing", to)
    BY <2>1, <2>2, <2>4, MoveIsMove
  <2>6. QED
    BY <2>1, <2>2, <2>3, <2>5 DEF Log!Next
<1>6. CASE CreateJob(c)
  BY <1>1, <1>2, <1>6
<1>7. QED
  BY <1>1, <1>3, <1>4, <1>5, <1>6 DEF Handle

LEMMA StepIsLogged ==
  ASSUME Inv, Paced, [Next]_vars
  PROVE  [Log!Next]_Log!vars
<1>1. ASSUME NEW k \in Jobs, Submit(k)
      PROVE  Log!Next
  <2>1. PICK s \in JobStatuses : row' = [row EXCEPT ![k] = [status |-> s, attempts |-> 0]]
    BY <1>1 DEF Submit
  <2>2. row[k].status = "none" /\ row'[k].status = s /\ SameElsewhere(k)
    BY <1>1, <2>1 DEF Submit, Exists, SameElsewhere, Inv, TypeOK
  <2>3. Log!Give(k)
    BY <1>1, <2>2, GiveIsGive DEF Submit
  <2>4. QED
    BY <2>3 DEF Log!Next
<1>2. CASE UNCHANGED <<row, submitted, accepted>>
  BY <1>2, LogStands
<1>3. QED
  BY <1>1, <1>2, HandleIsLogged DEF Next, vars, Publish, Lose, Expire, Deliver, Fail, Crash

\* Whatever is published twice, lost, taken up twice, cut short or forgotten by Redis, the
\* statements of the consumers and of SubmitMailJob are the steps of MailLog: a row goes
\* from queued to processing to sent or failed and no other way, a mail leaves once while
\* it is processing, and never for a job a caller submitted.
THEOREM LogIsKept == Spec => KeepsLog
<1>1. Init => Paced
  BY DEF Init, Paced, Owns, Idle
<1>2. Inv /\ Paced /\ [Next]_vars => Paced'
  BY PaceKept
<1>3. Init => Log!Init
  <2> SUFFICES ASSUME Init PROVE Log!Init
    OBVIOUS
  <2>1. \A j \in Jobs : row[j].status = "none"
    BY DEF Init, NoRow
  <2>2. [j \in Jobs |-> row[j].status] = [j \in Jobs |-> "none"]
    BY <2>1
  <2>3. QED
    BY <2>2 DEF Init, Log!Init
<1>4. Inv /\ Paced /\ [Next]_vars => [Log!Next]_Log!vars
  BY StepIsLogged
<1>5. QED
  BY <1>1, <1>2, <1>3, <1>4, InvAlways, PTL DEF Spec, KeepsLog, Log!Spec
=============================================================================
