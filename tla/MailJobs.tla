------------------------------- MODULE MailJobs -------------------------------
(***************************************************************************)
(* mail-service: the consumers of the NATS mail subject running            *)
(* HandleQueuedJob (internal/service/auth_service.go), the Redis key that  *)
(* marks a job id as seen, and the table `mail_jobs`.  One action is one   *)
(* Redis command, SQL statement or SMTP session with the code up to the    *)
(* next one.                                                               *)
(*                                                                         *)
(* Modelled as worker/consumer.go has it: app.go constructs no Consumer,   *)
(* which the constant Consumers can say by being empty.  Not here: the     *)
(* hourly counters and the log events, whose errors are ignored; template  *)
(* lookup, which falls back on built-in templates; SendEmail and           *)
(* SendBulkEmail, which send at once and touch neither table nor keys.     *)
(***************************************************************************)
EXTENDS Naturals, FiniteSets

CONSTANTS Jobs,       \* job ids
          Consumers,  \* members of the queue group, one message at a time each
          NoJob,      \* what an idle consumer works on
          MaxCopies   \* bound: messages published with one job id

ASSUME ConstantsOK == NoJob \notin Jobs /\ MaxCopies \in Nat

VARIABLES published,  \* messages ever published per job id
          inFlight,   \* messages NATS has not delivered or dropped yet
          seen,       \* job ids whose deduplication key is in Redis
          row,        \* the table `mail_jobs`
          worker,     \* what each consumer is doing
          accepted,   \* mails the SMTP server has taken, per job id (ghost)
          submitted,  \* job ids whose row SubmitMailJob inserted (ghost)
          dropped     \* job ids whose handling was cut short (ghost)

vars == <<published, inFlight, seen, row, worker, accepted, submitted, dropped>>

-----------------------------------------------------------------------------

JobStatuses == {"queued", "processing", "sent", "failed", "bounced", "cancelled"}
Final == {"sent", "failed", "bounced", "cancelled"}

\* attempts: as HandleQueuedJob writes it; a submitted row may start anywhere,
\* and nothing reads it, so it starts at 0 here.
NoRow == [status |-> "none", attempts |-> 0]
Row == [status : JobStatuses \cup {"none"}, attempts : 0 .. 2]

Steps == {"idle", "dedup", "create", "process", "send", "recordSent", "recordFailed"}
Idle == [step |-> "idle", job |-> NoJob, attempts |-> 0]
Work == [step : Steps, job : Jobs \cup {NoJob}, attempts : 0 .. 2]

TypeOK == /\ published \in [Jobs -> 0 .. MaxCopies]
          /\ inFlight \in [Jobs -> 0 .. MaxCopies]
          /\ seen \subseteq Jobs
          /\ row \in [Jobs -> Row]
          /\ worker \in [Consumers -> Work]
          /\ \A c \in Consumers : worker[c].step # "idle" => worker[c].job \in Jobs
          /\ accepted \in [Jobs -> Nat]
          /\ submitted \subseteq Jobs
          /\ dropped \subseteq Jobs

Busy(c) == worker[c].step # "idle"
Exists(j) == row[j].status # "none"

\* Consumer c has inserted the row of job j and not finished with it.
Owns(c, j) == worker[c].job = j /\ worker[c].step \in {"process", "send", "recordSent", "recordFailed"}

At(c, step) == worker[c].step = step
Goto(c, step) == worker' = [worker EXCEPT ![c] = [@ EXCEPT !.step = step]]
Finish(c) == worker' = [worker EXCEPT ![c] = Idle]

-----------------------------------------------------------------------------
\* The publishers and NATS.  Core NATS keeps nothing: a message nobody is there
\* to take is dropped, and a publisher may publish a job id again.  PublishEmailJob
\* without a connection answers success and publishes nothing: no step here.

Publish(j) == /\ published[j] < MaxCopies
              /\ published' = [published EXCEPT ![j] = @ + 1]
              /\ inFlight' = [inFlight EXCEPT ![j] = @ + 1]
              /\ UNCHANGED <<seen, row, worker, accepted, submitted, dropped>>

Lose(j) == /\ inFlight[j] > 0
           /\ inFlight' = [inFlight EXCEPT ![j] = @ - 1]
           /\ UNCHANGED <<published, seen, row, worker, accepted, submitted, dropped>>

\* The subscription's callback takes the next message.
Deliver(c, j) == /\ ~Busy(c)
                 /\ inFlight[j] > 0
                 /\ inFlight' = [inFlight EXCEPT ![j] = @ - 1]
                 /\ worker' = [worker EXCEPT ![c] = [step |-> "dedup", job |-> j, attempts |-> 0]]
                 /\ UNCHANGED <<published, seen, row, accepted, submitted, dropped>>

-----------------------------------------------------------------------------
\* HandleQueuedJob.

\* SET NX of the deduplication key.  When the key is there the handler answers
\* with the stored job, or with "not found", and does nothing.
MarkDedup(c) ==
    /\ At(c, "dedup")
    /\ IF worker[c].job \in seen
       THEN Finish(c) /\ UNCHANGED seen
       ELSE Goto(c, "create") /\ seen' = seen \cup {worker[c].job}
    /\ UNCHANGED <<published, inFlight, row, accepted, submitted, dropped>>

\* Mutation: the INSERT gives way to an existing row instead of failing.
CreateJobUpserting(c) ==
    /\ At(c, "create")
    /\ row' = [row EXCEPT ![worker[c].job] = [status |-> "queued", attempts |-> 0]]
    /\ Goto(c, "process")
    /\ UNCHANGED <<published, inFlight, seen, accepted, submitted, dropped>>

\* The INSERT fails when a row has the job id already (job_id is UNIQUE): the
\* handler returns the error.
CreateJob(c) ==
    /\ At(c, "create")
    /\ IF Exists(worker[c].job)
       THEN Finish(c) /\ UNCHANGED row
       ELSE /\ row' = [row EXCEPT ![worker[c].job] = [status |-> "queued", attempts |-> 0]]
            /\ Goto(c, "process")
    /\ UNCHANGED <<published, inFlight, seen, accepted, submitted, dropped>>

\* UPDATE of the row: the status, and one attempt more than the handler's copy.
WriteStatus(c, status) ==
    row' = [row EXCEPT ![worker[c].job] = [status |-> status, attempts |-> worker[c].attempts + 1]]

\* The row is marked processing; then the body is rendered, which may fail.
MarkProcessing(c) ==
    /\ At(c, "process")
    /\ WriteStatus(c, "processing")
    /\ \E step \in {"send", "recordFailed"} :
         worker' = [worker EXCEPT ![c] = [@ EXCEPT !.step = step, !.attempts = row'[worker[c].job].attempts]]
    /\ UNCHANGED <<published, inFlight, seen, accepted, submitted, dropped>>

\* The server takes the mail.
SendAccepted(c) ==
    /\ At(c, "send")
    /\ accepted' = [accepted EXCEPT ![worker[c].job] = @ + 1]
    /\ Goto(c, "recordSent")
    /\ UNCHANGED <<published, inFlight, seen, row, submitted, dropped>>

\* The session fails while the handler still looks at the result.
SendRefused(c) ==
    /\ At(c, "send")
    /\ Goto(c, "recordFailed")
    /\ UNCHANGED <<published, inFlight, seen, row, accepted, submitted, dropped>>

\* Send writes the text into a buffer and returns nil; the deferred Close of the
\* DATA writer flushes it and reads the server's answer, which is discarded.
SendRefusedAtClose(c) ==
    /\ At(c, "send")
    /\ Goto(c, "recordSent")
    /\ UNCHANGED <<published, inFlight, seen, row, accepted, submitted, dropped>>

\* Mutation: a failed session is only logged.
RecordForgetsFailed(c) ==
    /\ worker[c].step \in {"recordSent", "recordFailed"}
    /\ IF At(c, "recordSent") THEN WriteStatus(c, "sent") ELSE UNCHANGED row
    /\ Finish(c)
    /\ UNCHANGED <<published, inFlight, seen, accepted, submitted, dropped>>

\* Mutation: a delivered mail is recorded as failed.
RecordAlwaysFailed(c) ==
    /\ worker[c].step \in {"recordSent", "recordFailed"}
    /\ WriteStatus(c, "failed")
    /\ Finish(c)
    /\ UNCHANGED <<published, inFlight, seen, accepted, submitted, dropped>>

Record(c) ==
    /\ worker[c].step \in {"recordSent", "recordFailed"}
    /\ WriteStatus(c, IF At(c, "recordSent") THEN "sent" ELSE "failed")
    /\ Finish(c)
    /\ UNCHANGED <<published, inFlight, seen, accepted, submitted, dropped>>

\* A statement fails and the handler returns the error, which the consumer logs:
\* nothing is undone and the message is not delivered again.
Fail(c) ==
    /\ worker[c].step \in {"dedup", "create", "recordSent"}
    /\ dropped' = dropped \cup {worker[c].job}
    /\ Finish(c)
    /\ UNCHANGED <<published, inFlight, seen, row, accepted, submitted>>

\* The process dies: killed, or by itself when the UPDATE to processing or to
\* failed fails, since the handler then uses the nil job the UPDATE returned.
Crash(c) ==
    /\ Busy(c)
    /\ dropped' = dropped \cup {worker[c].job}
    /\ Finish(c)
    /\ UNCHANGED <<published, inFlight, seen, row, accepted, submitted>>

-----------------------------------------------------------------------------

\* SubmitMailJob stores a row with the status the caller names; nothing reads
\* the table for work.
Submit(j) == /\ ~Exists(j)
             /\ \E status \in JobStatuses : row' = [row EXCEPT ![j] = [status |-> status, attempts |-> 0]]
             /\ submitted' = submitted \cup {j}
             /\ UNCHANGED <<published, inFlight, seen, worker, accepted, dropped>>

\* Twenty-four hours after it was set the key is gone; no handling lasts that long.
Expire(j) == /\ j \in seen
             /\ \A c \in Consumers : worker[c].job # j
             /\ seen' = seen \ {j}
             /\ UNCHANGED <<published, inFlight, row, worker, accepted, submitted, dropped>>

-----------------------------------------------------------------------------

Init == /\ published = [j \in Jobs |-> 0]
        /\ inFlight = [j \in Jobs |-> 0]
        /\ seen = {}
        /\ row = [j \in Jobs |-> NoRow]
        /\ worker = [c \in Consumers |-> Idle]
        /\ accepted = [j \in Jobs |-> 0]
        /\ submitted = {}
        /\ dropped = {}

Handle(c) == \/ MarkDedup(c)    \/ CreateJob(c)   \/ MarkProcessing(c)
             \/ SendAccepted(c) \/ SendRefused(c) \/ SendRefusedAtClose(c)
             \/ Record(c)

Next == \/ \E j \in Jobs : \/ Publish(j) \/ Lose(j) \/ Submit(j) \/ Expire(j)
                           \/ \E c \in Consumers : Deliver(c, j)
        \/ \E c \in Consumers : Handle(c) \/ Fail(c) \/ Crash(c)

\* A subscribed consumer's handler runs on: every statement returns.  Nothing makes
\* the SMTP server answer: the timeout is on connecting alone, the session has none.
Fairness == \A c \in Consumers : WF_vars(~At(c, "send") /\ Handle(c))

Spec == Init /\ [][Next]_vars /\ Fairness

-----------------------------------------------------------------------------
\* What holds of every interleaving, redelivery, crash and expired key.

\* However often a job id is published, redelivered or retried after a crash, the
\* recipient gets at most one mail for it.
AtMostOneMail == \A j \in Jobs : accepted[j] <= 1

\* A job recorded as failed sent nothing (unless a caller submitted it as failed).
FailedSentNothing ==
    \A j \in Jobs : row[j].status = "failed" /\ j \notin submitted => accepted[j] = 0

\* The consumers together keep the promise of MailLog: every row and every mail goes
\* through the statuses one at a time, in order and once.
Log == INSTANCE MailLog WITH Statuses <- JobStatuses, status <- [j \in Jobs |-> row[j].status],
                             given <- submitted, mails <- accepted
KeepsLog == Log!Spec

\* A row that is not final has an owner working on it, was submitted by a caller,
\* or had its handling cut short: jobs do not stall while all goes well.
StalledIsExplained ==
    \A j \in Jobs : row[j].status \in {"queued", "processing"} =>
        (\E c \in Consumers : Owns(c, j)) \/ j \in submitted \/ j \in dropped

\* A final status is never rewritten, by redelivery, expiry or a late consumer.
FinalStays == [][\A j \in Jobs : row[j].status \in Final => row'[j] = row[j]]_row

\* A job a consumer has begun reaches a final status unless its handling is cut
\* short or the SMTP server leaves the session hanging for good: rendering errors
\* and refused mails end it too.
JobsFinish ==
    \A j \in Jobs :
        \/ row[j].status \in {"queued", "processing"}
               ~> row[j].status \in Final \/ j \in dropped \/ j \in submitted
        \/ <>[](\E c \in Consumers : Owns(c, j) /\ At(c, "send"))

=============================================================================
