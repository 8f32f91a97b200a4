# DocflowWeb in TLA+

DocflowWeb is a document workflow system: eight Go services behind one HTTP
gateway, with PostgreSQL and Redis behind each and NATS between two of them.
This directory holds a specification of its backend, model-checked with TLC; its
safety is also proved with TLAPS. It is written against the source in `src/`; every
definition that stands for code is listed with its file and lines in
`PROJECT.json` ("map").

- [The system](#the-system): components, state, operations, what is hard
- [The modules](#the-modules): what models what, and how closely
- [The runs](#the-runs): what TLC checks, on which instances, and why those
- [Fairness](#fairness)
- [The proofs](#the-proofs)
- [Where code and documents part](#where-code-and-documents-part)
- [Not modelled](#not-modelled) and [the plan](#the-plan)

## The system

Requests come from the browser (`api-gateway/web`) over HTTP to the gateway,
which turns each into one gRPC call. Each service also has HTTP handlers of its
own. Services own a database each and call each other over gRPC;
notification-service hands mail to mail-service through a NATS subject. Nothing
uses transactions across statements, row versions or locks in the database:
nearly every operation is a chain of autocommitted statements and Redis commands
with a decision in between that rests on what was read before. That is where the
interesting behaviour is, and it is what the modules follow: **one action is one
statement or command, with the code up to the next one**.

| component | state it keeps | operations that change it | what makes it correct |
|---|---|---|---|
| api-gateway, idempotency (`middleware/idempotency.go`) | Redis: answers by `Idempotency-Key`, 24 h | look up, call the service, store a 2xx answer | a key takes effect once; only a success of that key is replayed |
| api-gateway, rate limit (`middleware/ratelimit.go`) | Redis: a sorted set per address and route | trim, count, add, expire | nobody is refused without cause; what gets through is bounded |
| api-gateway, routes, handlers, clients | none | - | what a caller gives reaches the service, in the caller's name |
| gRPC servers and HTTP handlers of the services | none | - | nothing is lost, invented or cleared on the way; names keep their meaning; failures are owned |
| document-service | tables `documents`, `document_history` | create, update, delete, assign, change status, archive, the overdue sweep | the status table is kept; the history tells how a document came to its state; archived is final |
| task-service | tables `tasks`, `task_history` | create, update, delete, assign, change status, the overdue sweep | a status changes as the table allows from what its writer read; the history tells of it |
| notification-service, inbox | tables `notifications`, `notification_preferences`; Redis copies of the unread count and of the preferences | create, mark read, mark all read, delete, read and update preferences, queue mail | a cached count is never older than its lifetime; no mail against the preferences; a row flagged as mailed had its job taken by a publisher |
| notification-service, hub (`service/hub.go`) | channels of the open streams, in memory | subscribe, unsubscribe, publish, send | no send on a closed channel; each note once, in order, unless a full channel misses it; nobody waits for a slow reader |
| mail-service | table `mail_jobs`; Redis: a key per job seen, 24 h | take a job from NATS, log it, send it, record the result; submit | one mail per job id; the log says what happened |
| auth-service | tables `auth_users`, `refresh_tokens`; Redis: verification and reset tokens, sessions | register, log in, refresh, log out, verify, reset and change passwords, revoke | a token works once; a replaced password takes its credentials along; the password chosen opens the account |
| user-service | table `users`; Redis: the profile by id and by e-mail | create, update, verify, ban, delete, cached reads, the polling WatchUser | a cached profile is explained; no update takes back another; a watcher comes to see the profile |
| calendar-service | table `events` | create, update, delete, reads by day, week and month | no edit is taken back; an event ends after it starts; weeks are ISO weeks |
| web frontend | browser state | issues gateway calls with a fresh idempotency key | - |

What is hard to test here, with the line where it bites and the properties that
watch it, is the list "hazards" in `PROJECT.json`. In short: a decision on a row
another request has changed since (every handler that reads, decides and writes
by id alone); a chain of statements cut by an error or a restart; a cache filled
with what was true before the invalidation; a message delivered again, lost, or
taken up by a second consumer; errors that are dropped; the sweep that meets the
rest; a lock held over a channel send; and, in the doors, a field that one of four
hand-written conversions forgets, an absent field taken for an empty value, a
name one table has and the next has not.

## The modules

| module | models | about |
|---|---|---|
| `DocumentStatus` | `domain/document.go`, the sweep's WHERE clause | statuses, the transition table, what the sweep may take |
| `DocumentLifecycle` | what document-service promises | abstract: every request atomic |
| `DocumentService` | all handlers of document-service that write | statement by statement, racing, failing, restarting |
| `TaskService` | all handlers of task-service that write | the same, with its own table, deletes and sweep |
| `AuthTokens` | the handlers of auth-service | accounts, tokens and sessions across Postgres and Redis |
| `UserDirectory` | user-service's repository and WatchUser | the row, its two cached copies, the polling stream |
| `CalendarEvents` | calendar-service's events | updates that read, merge and write |
| `CalendarWeeks` | its ranges by day, week and month | an algorithm, with the calendar as the reference |
| `MailLog` | what mail-service promises of a job | abstract: its entry in the log, its one mail |
| `MailJobs` | mail-service's consumer and `SubmitMailJob` | NATS, the deduplication key, the row, the SMTP session |
| `NotificationInbox` | one user's notifications, counter and preferences | statement by statement, with a clock |
| `NotificationHub` | `Hub` and the stream handlers | the RWMutex, the channels, publishers and streams |
| `GatewayIdempotency` | `IdempotencyMiddleware` and the call behind it | command by command |
| `GatewayRateLimit` | `RateLimitMiddleware` | command by command, with a clock |
| `GatewayDoors` | the gateway's routes, handlers, clients and stateless middleware | tables: what each handler binds, passes on, answers |
| `GrpcDoors`, `HttpDoors` | the services' gRPC servers and HTTP handlers | tables: what each method reads, needs, converts, clears, answers |
| `Tables` | - | how those tables are put together from their parts |
| `Doors` | the layers composed | a request through the gateway, straight to a server, or to a page |
| `MC...` | - | what the configurations instantiate, with the symmetry sets where a run may use one |
| `..._proofs` | - | theorems and their proofs: `Gateway_proofs` has those of the two middlewares with state and of the doors, `Notification_proofs` those of the inbox and of the hub, `Calendar_proofs` those of the events and of the weeks |

Conventions: VARIABLES marked *ghost* record what happened for the properties
and decide nothing. Definitions headed *Mutation* are what a plausible slip in
the code would make of the definition that follows; the specification never uses
them, they show that each property can fail (`PROJECT.json`, "mutants").

**DocumentService.** `rows` is the table with the columns the handlers decide on
or write together (status, title for the text columns, responsible, deadline,
is_overdue, archived_at); `history[d]` is the trail of the two fields with values
of their own; `req[w]` is a handler in progress: the statement it is about to
run and what it has read. `Arrive` is a handler up to its first write (reading
the row and the guards in one action: nothing but the read is a statement),
`Continue` one statement more. `Fail` lets any statement fail, `Crash` ends all
handlers, `Tick` moves the clock deadlines are compared with. `unrecorded`
remembers, as a ghost, entries that a failure lost; `contended` keeps the documents
that two requests, or a request and the sweep, worked on at one time. A deleted row takes its
history along (the foreign key cascades), and a write to it finds no row
(`Vanished`). `RecordAgrees` is three questions in one: the status trail replays
the status, the responsible trail the responsible, an overdue row has a deadline.

`ChangesFollowReading` is about the races themselves: every write of a status is
lawful from the status its writer read, and where that is no longer the row's the
document is contended. So the archived document that becomes assigned and the
assigned one that is deleted are in the model, with the two writers it takes.

**TaskService** is built alike. What differs is the code: a task may be deleted
while it is open, by a statement that no longer asks; the sweep goes on when an
insert fails (`FailMark`). `Begin` and the sweep add to `contended`.

**AuthTokens.** A token is a refresh token, a reset token or a verification token;
"dead" is revoked, deleted or expired, between which no lookup tells a difference.
Passwords are words with or without blanks around them, for `Register` and `Login`
trim what `ResetPassword` and `ChangePassword` do not. `version` counts how often
an account's password was replaced, and tokens and sessions carry the version that
was checked for them. `FailOn` is an error the handler drops, `Stop` one it returns
(or a crash). The ghosts say which tokens two requests found at one time or whose
removal failed (`spared`), and what was stored, or left, when its password had been
replaced (`late`).

**UserDirectory.** `cache` holds the two keys of a profile; a read that misses
fills both from the row it read before, a writer deletes or sets keys after the
row. `wanted` replays the columns as the requests named them; `unsure` keys may be
wrong since a fill came late or a delete was lost; `contended` addresses had two
requests at one time, which a request counts for that asked for an id before a
row with it was inserted. The stream's polls are reads
like any other.

**CalendarEvents** and **CalendarWeeks.** An update reads the row, merges what it was
given into the reading and writes every column back. `wanted` is what the edits make
of an event one after the other; `overtaken` has the events written from a reading
that another write had overtaken, until an edit gives both bounds; `lopsided` those
whose last bound to be given was given alone. There is no cache: `app.go` takes the
constructor without one, and the repository has no implementation of `EventCache` to
give the other. Times are days; `CalendarWeeks` has Go's date arithmetic (a day of
month 0 or 13 rolls over) and lets the days of a century come one by one. The content of
`WeeksTile` is its half about weeks, stated with ISO's rule and not Go's arithmetic;
that a day lies in the range of its month and of no other is nearly the definition.

**MailJobs.** `app.go` of mail-service constructs no `Consumer`: the module is about the
consumer package as it stands, subscribed twice as the queue group is meant for, and
about `SubmitMailJob`, which is wired. A message may be published again, lost, and delivered to any idle
consumer. `MarkDedup`, `CreateJob`, `MarkProcessing`, the three ends of an SMTP
session (taken; refused where `Send` sees it; refused at the writer's deferred
close, which `Send` does not see) and `Record` follow `HandleQueuedJob`. `Crash`
includes the handler's own: it uses the nil job of a failed UPDATE.

**GatewayIdempotency.** `Hit`, `Miss`, the call (`Succeed`, `Reject`, `Torn`) and
`Store`. `Torn` is a call that took effect and yet answers an error, which
DocumentService's handlers do when a later statement fails. `excused[k]` collects
why key k may have taken effect more than once.

**GatewayRateLimit.** The sorted set's members are unix seconds, so it is a set
of seconds; `Trim`, `Count`, `Add` with the second the handler read on arrival.
Each of them may fail, which the code ignores; the ghost `failed` keeps the
seconds of requests that met a failure. `Tick` moves the clock, never past a
handler by more than `MaxLag`, and lets Redis drop the set when it expires.

**NotificationInbox.** Users share nothing, so the module has one. Redis entries
carry the instant they expire. A handler holds what it has read (`count`,
`wish`) between two statements; `MaxLag` bounds how long that can be.
`shouldQueueEmail` is reduced to whether the preferences allow the mail; a
category that is never mailed, like a recipient not found, is a `Fail` at "mail".
`publisher` is chosen when the process starts: NATS, or the `NoopPublisher` where no
URL is set or nobody answers (`app.go:67`), which reports success and keeps nothing.
`jobs` are those handed to NATS, `unsent` those the other took (`DiscardJob`).
"Handed to" is `conn.Publish`, which buffers: that NATS has the job is not known to the
service, nor said here.

**NotificationHub.** Subscribe and unsubscribe are one step each since they hold
the write lock throughout; a publisher holds the read lock from `Publish` to
`Release` and hands its note to one channel after the other in any order (Go's
map order). `Send` is the handler's receive together with the send to the client. Its
definitions carry `Hub` in their names where the inbox has a namesake, so that one
module can hold theorems about both halves of the service.

**Doors.** A request is the set of fields it gives, at most one of them by a name
("status", "role", ...) of which each value is tried, and a value no table has. It
gives what its door needs, or all its door knows but for `MaxLeftOut` fields, and up to
`MaxGarbled` of the dates and numbers among them in a text nobody can read
(`garbled`). A handler that parses such a field itself drops what it cannot read and goes on
(`Parsing`: `time.Parse` and `strconv.Atoi` with the error dropped); one that binds JSON to a
type refuses the request. The three tables say of every operation of every service what its layer binds, needs,
passes on, converts, clears and answers; `Doors` runs a request through them: token
check, roles, limit, idempotency key, handler, server, service, and the answer
back. The properties are about the composition, and what they except is written
out: `InVain` lists the fields that are lost without a word, `Unread` the texts that
are (any of a question; of what is stored, a date given at the gateway), `Blamed`
the operations that answer any failure as the caller's.

How they belong together: the document handlers' partial failures are the
`Torn` calls of the gateway; the inbox's `jobs` are what MailJobs' `Publish`
publishes; `CreateNotification` and `MarkNotificationRead` end in the hub's
`Publish`; the operations of `Doors` end in the `Arrive` of a service.
DocumentService's and TaskService's own calls to notification-service and
calendar-service are wired to no-op clients (`internal/app/app.go`) and change
nothing.

## The runs

Ten runs pass; two are violations the code shows of what its documentation says.
States are distinct states found.

| run (cfg) | question | instance | states |
|---|---|---|---|
| DocumentRaces | What survives any interleaving of handlers with failures and restarts? A shown status is in the trail, about to be, or lost to a failed insert; the trail looks lawful; a status follows from what its writer read, and a reading is overtaken only where two met. | 1 document, 2 workers, 1 user, a deadline that passes | 2.5 M |
| DocumentAlone | Without overlap, still with failures and restarts: the trail replays status and responsible, an overdue document has a deadline, and the handlers implement `DocumentLifecycle`. | 1 document, 1 worker, 2 users, 3 recorded changes | 0.6 M |
| DocumentSweptDraft | violation, see below | 1 document, 1 worker | - |
| Tasks | The same for tasks that race: no change escapes the trail, an uncontended task's trail replays it, a status follows from what its writer read. | 1 task, 2 workers, 2 users, 3 recorded changes, a deadline that passes | 1.1 M |
| Auth | Tokens work once, a replaced password leaves no older credential, a chosen password opens the account, each with its exceptions. | 1 account, 3 tokens, 2 requests, 1 replacement | 1.3 M |
| Users | Cached copies are explained, updates survive, a watcher catches up. | 1 profile, 2 requests and a stream | 0.4 M |
| Calendar | Edits stay but for an overtaken reading written back; an event ends before it starts only by that or by one bound moved alone; each day of a century lies in its ISO week and month and in no other, and the default week misses today on certain days only. | 1 event, 3 days, 2 requests; 37 001 days | 0.2 M |
| MailJobs | One mail per job id; the consumers implement `MailLog`: statuses in order, a mail only while processing, none of what failed; a row stalls only with a reason; a job taken up reaches a final status unless it is dropped or SMTP falls silent. | 2 jobs, 2 consumers, 2 copies of each message | 0.1 M |
| Gateway | A key takes effect once unless excused and only its success is replayed; the busy seconds of a window are bounded, whatever fails; every request any door can be given, through every layer. | 3 requests on 2 keys; 2 handlers, limit 2, window 6 s; all operations, 1 field left out, 1 text unreadable | 1.4 M |
| IdempotencyOverlap | violation, see below | 2 requests, 1 key, no faults | - |
| Inbox | Two at a time with all faults: the age of the cached count and of the preference a mail was queued on; the job of a flagged row was taken, by NATS or by the publisher that stands in for it. One at a time and nothing failing: the count is right, defaults never replace a choice. | 2 notes or 1, 2 handlers, lifetime 2, lag 1 | 2.9 M |
| Hub | No send on a closed channel; every note accounted for; publishers and ending streams finish though no client reads. | 1 user, 2 streams, 2 publishers, 3 notes, channels of 2 | 0.3 M |

**Why these bounds.** Handlers of one service meet only in the rows, keys and
channels they share, and a race needs two of them on one row: two workers and one
document, task, account, profile, event, job or user contain every pair of handlers
in every interleaving. A third party appears where the property needs one: a third
request for a replay of a replay, a third token for a refresh next to a reset, a
third note to overflow a channel of two. `MaxTrail` cuts a row's life after two or
three recorded changes, with a handler in flight on each; `MaxVersion = 1` is one
replaced password, which is what "older" takes; `MaxRequests = 2` in Users is one
pair, with the stream's polls on top. Clocks run until a lifetime, a window and
every lag have passed once with time left for what follows them: `MaxTime = 8` with
a window of 6 lets a set expire and fill again. `MaxFailures = 2` is one failure for
each handler. `MaxCopies = 2` is a redelivery. A century from 2001 has every kind of
year (starting on each weekday, leap or not, and 2100, which is not). The doors have
every operation, with everything it can be given, all but one field of it
(`MaxLeftOut = 1`), or only what it needs, and at most one text unreadable
(`MaxGarbled = 1`); the layers look at each field for itself, so a field that goes astray does so in one of these. Model values are symmetric where the cfg says so, never
under liveness. The bounds appear in guards (`Begin`, `Admit`, `Publish`, `Failing`,
`Tick`, `Arrive`, `UpdatePassword`, `Choices`, `Garbles`) and in no other place; the proofs hold for all
of them.

`CHECK_DEADLOCK FALSE` stands where a model's finitely many requests, notes, tokens,
days, seconds or copies are used up.

## Fairness

- `MailJobs`: weak fairness of the handler's steps except SMTP. `sender/smtp.go`
  puts its timeout on the dial alone, so a server that falls silent keeps the
  session; `JobsFinish` says so in its second disjunct.
- `NotificationHub`: weak fairness of each publisher (its `select` has a default)
  and of `Unsubscribe`. Go's RWMutex makes a waiting writer's turn come, and the
  model's notes are finite, so weak fairness is all it takes. `Send` has none:
  nothing makes a client read.
- `UserDirectory`: weak fairness of each handler's next statement, of the stream's
  poll (WatchUser runs on a ticker) and of the expiry of the cached copies, which
  Redis owes after five minutes. `WatcherCatchesUp` needs the last: a copy whose
  delete was lost is served until then. The poll's fairness is that of a client that
  reads: `stream.Send` blocks when one does not, and such a stream catches up with
  nothing.
- The other modules state safety only.

## The proofs

TLAPS checks the following for every value of the constants their modules allow:
any number of documents, tasks, accounts, tokens, profiles, notes, streams, jobs,
events, days, handlers, fields left out, unreadable texts, any bound. A theorem is stated of the specification a run
checks (the calendar's and the gateway's runs interleave two or three of them).
Each proof is an inductive invariant with `Init => Inv` and
`Inv /\ [Next]_vars => Inv'`, one lemma per action or kind of action, a property of
steps follows from the invariant and the step. TLC has evaluated these invariants
on the runs' instances (of tasks on a smaller one), but for `UserReplays` of the
documents, which quantifies over every value there is. Every invariant and every
action property of a passing run is a theorem. `FinalRowsStay`,
`FailedMeansUnsent` (which `LogIsKept` has in it), `ArchivedAreStamped`,
`NoWayBackToDraft`, `StreamsInOrder` and the two about refusals state properties that
no run spends its time on.

| module | theorems | along what |
|---|---|---|
| `DocumentService_proofs` | `TypeCorrect`, `TrailIsLawful`, `StatusIsAccountedFor`, `ChangesFollow`, `ArchivedAreStamped`, `NoWayBackToDraft` | `TrailLawful` is not inductive: the entry a handler will insert depends on what it read long before. `PendingLawful` says that the old and new status a handler carries are lawful from the moment it reads them, whatever the row becomes. `StatusAccountedFor` is inductive with the typing: recording never forgets an entry and a worker who leaves its entry unwritten blames it. `Onward`: what a handler is about to write is never "draft". `ChangesFollow`: a status read by a handler about to write it and no longer the row's makes the document contended, for the writer in between was on it at the same time. |
| | `RecordsAgree`, `LifecycleFollowed` | For requests that do not overlap (`Exclusive`, the hypothesis of both). `Agrees`: two handlers are on different documents (`Separate`); what a handler has read is still so and what it wrote still stands (`Holds`); the entry it has to insert joins up with the trail, or the trail is blamed (`StatusReplays`, `UserReplays`). `StepFollows` is the refinement: with `Holds`, each UPDATE is the lifecycle's step from the status the row has (`MoveIsMove` and its like), every other statement a stutter. |
| `TaskService_proofs` | `TypeCorrect`, `ChangesFollow`, `StatusIsAccountedFor`, `TrailReplaysTask` | `Holding`: what a handler carries at each of its statements (a status the table allows from the one read, an open task to delete), whatever the row has become since. `Tracked`: two handlers on one task, or a status read and overtaken, make the task contended. The lemma `Settles` is the point of it: whoever changes a status is on that task, so every other holder of an old reading met it there. `Replays`, on top: the trail of an uncontended task joins, and the entry still owed joins it to the row. |
| `AuthTokens_proofs` | `TypeCorrect`, `WorkOnceOnly`, `OldGone`, `ChosenOpens` | `Fits`: what a handler holds at each statement. `OnceAt`: an unspared token has one holder at most, who has not used it before its turn, and a used one is dead or about to be deleted by that holder. `OldCredentialsGone` is inductive with the typing and `Fresh` (an address without an account has version 0): the lemma `QuietKeeps` says what a step must leave alone, and one lemma per kind of step shows that it does. |
| `UserDirectory_proofs` | `TypeCorrect`, `CopiesExplained`, `NoEditLost` | `CacheFits`, `Holding`: a copy, in Redis or in a request, names a row that was in the table and sits under its own keys; id and e-mail of a row never change, so an old copy still leads to the right row. `KeysExplained` is inductive on top. `Survival`: one request at most is about an uncontended address (`Alone`), and then what Redis keeps of it and what the request holds have the row's columns (`CachedFresh`, `HeldFresh`), so the update merges into what is there. |
| `CalendarEvents`, in `Calendar_proofs` | `CalendarTypeCorrect`, `EditsAreKept`, `EndsFollowStarts` | A span still fresh is the row's (nobody wrote since), so the merge of an edit into it is the merge into what the edits so far make of the event; a span that is not has its event blamed when it is written, unless both bounds are given. A span read ends after it starts or its event is blamed, which the merge carries to the row. |
| `CalendarWeeks`, in `Calendar_proofs` | `WeeksTileForEver`, `DefaultWeekExplained` | Arithmetic for every day from 2001 on, and not for the century the run turns through: the years are told apart by counting spans of 400, 100, 4 and 1 years (`DayHasYear`), the months by their first days, a week by its Monday (`WeekNumber`), and the first Mondays of two years are at least 359 days apart (`FirstMondaysDiffer`). |
| `MailJobs_proofs` | `TypeCorrect`, `OneMailPerJob`, `FailedMeansUnsent`, `FinalRowsStay`, `StalledAreExplained`, `LogIsKept` | `Ownership`: at most one consumer is past the INSERT for a job, and the row is then not final; `Sending`: a mail was taken only if the owner is about to record it, or no owner is left and the row is past "queued". The deduplication key is not needed: the row's uniqueness is what guarantees one mail. `StalledIsExplained` follows an owner until it records, or is cut short and `dropped` has the job. `LogIsKept` is the refinement, without a hypothesis: `Paced` says that an owner's row was entered by the service and is where the owner is, so each UPDATE is the log's next step. |
| `NotificationInbox`, in `Notification_proofs` | `TypeCorrect`, `CountStaysRecent`, `MailStaysWanted`, `FlaggedOnlyIfQueued` | `Right`: whatever a handler holds was true when it read it, less than a lag ago, or a lifetime more if it came from Redis. `CountFits`, `PrefsFit`: the same of what Redis holds, whose expiry is a lifetime after it was set. The ages add up to the bounds the properties name. |
| | `CountTellsTheTruth`, `ChoiceIsKept` | `Settled`, while requests come one after the other and nothing fails (`Calm`): the handler under way counted what is there, and one about to store the defaults found no row and there is none. |
| `NotificationHub`, in `Notification_proofs` | `HubTypeCorrect`, `NoSendOnClosed`, `StreamsInOrder`, `NothingUnaccounted` | `SubscribedAreOpen`, `ClosedAreGone`, `RestingHasNone`: the channels in the hub are open, and closing waits until no publisher has any. `InFlightIsLast`: a note still being handed out comes before nothing, so it may go to the end of every channel. `Accounts`: a note in flight is one publisher's (`OwnNotes`), so handing it over moves it once, and received, missed and in flight add up to what is due (`Adds`, counted with the library's facts on finite sets). |
| `GatewayIdempotency`, in `Gateway_proofs` | `TypeCorrect`, `KeysTakeEffectOnce`, `ReplaysAreSound` | `Once`: while a key is unexcused, its calls, the one request past the lookup and the stored answer exclude each other; `StoredIsSound` and `StoringIsSound` carry a success from the call to the replay. |
| `GatewayRateLimit`, in `Gateway_proofs` | `LimiterTypeCorrect`, `RefusalsHaveCause`, `DefaultLimitNeverRefuses`, `SecondsBounded` | `Recorded`: every member is a second that let a request through; `Trimmed`, `Lagging`: while no command has failed, what a handler counts lies within the window and its lag. `DefaultLimitNeverRefuses` is about limits above the window's seconds, which no run has. `StillIn` and `Bounded`: what was let through is in the set as long as it matters, so a handler that counts less than the limit has missed only what the others were promised and have not yet added. |
| `Doors`, in `Gateway_proofs` | `DoorsInvariant`, `FieldsArrive`, `OmittedStay`, `NamesArrive`, `ActorsAreCallers`, `FailuresOwned` | Two halves. The tables, row by row and then as a whole: a page or a server reads what it needs, writes unasked only in an update that `Rewrites` (`ServerTables`, `PageTables`); a handler of the gateway and the server behind it, written apart, fit (`GatewayTables`): what form and route let in gets through both but for `InVain`, a name the one turns the other turns, and where the server reads an actor the handler puts down one it may; the lists of names have every name of the domain, there and back (`TurnedNames`, `TypesKept`). The layers: `DoorsInv` says of a request at each step what has become of its fields, name, actor and failure so far (`WordStands`, `ActorStands`, `FailureStands`), which each layer keeps by its row. Which of its fields a body leaves out plays no part (`AskedFits`), and of what is to be stored a row drops dates alone (`HandlerRow`), a page nothing (`PageRow`). |

They rest on the named assumptions of the modules, which TLC evaluates in the
runs: times and bounds are naturals and there is a document, a title, a task, an
e-mail, an id (`ConstantsOK` of each module, `DaysOK`, `TimesOK`, `ChoicesOK`,
`BoundsOK`, `CapacityOK`, `LimitOK`, `FaultsOK`, `MaxLeftOutAssumption`, `MaxGarbledAssumption`); the values that stand for "none"
are no values (`ConstantsOK`, `NobodyOK`, `NoNoteOK`); e-mails are no tokens; what is
counted is finite (the notifications of `IdsOK`, the events of `ConstantsOK`); a
handler of the gateway is faster than the window is long (`WindowOK`), and Redis
keeps the set longer than the window (`LifetimeOK`: 120 seconds and 60 in the code). Three theorems have a hypothesis
of their own: `RecordsAgree` and `LifecycleFollowed` that requests on a document
never overlap, as in the run that checks them, and `SecondsBounded` that the
handlers are finitely many and at least one (the bound is "less than the limit and
the handlers together": with neither, nothing is less).

**Only model-checked.** Liveness, which needs fairness and ENABLED, and those are
beyond the prover: `JobsFinish`, `PublishersFinish`, `StreamsEnd`,
`WatcherCatchesUp`. What the two "violation" runs refute is false. Nothing here
needed induction over data (a trail is compared entry by entry, a week by division)
or a RECURSIVE operator, neither of which the prover could follow.

## Where code and documents part

Two runs are marked "violation": their property states what `src/README.md` says
and TLC shows a behaviour of the code against it; `PROJECT.json` ("findings") has
the lines.

1. The sweep takes a **draft** past its deadline to overdue, which the transition
   table does not have (DocumentSweptDraft).
2. Overlapping duplicates of a request both reach the service
   (IdempotencyOverlap).

Other things the models contain and no run is spent on (paths below
`src/services/`, README lines of `src/README.md`):

- Two status changes that read the same row can take it where the table does not
  lead, from archived to assigned for instance, and a document assigned meanwhile may
  be deleted as the draft it was: `TransitionsEnforced` holds only of requests that do
  not overlap. A task done meanwhile may be deleted, or marked overdue by a sweep.
  `ChangesFollowReading`, of documents and of tasks, says exactly when.
- A status whose history insert fails stays without an entry: the last case of
  `StatusAccountedFor`.
- A job whose INSERT fails is in no log and dropped ever after: one of the reasons
  in `StalledIsExplained`. A mail the server refuses only at the deferred close of
  the writer is recorded as sent (`mail-service/internal/sender/smtp.go:109`;
  README:86 says the log shows the delivery).
- The rate limit counts seconds, not requests, so any number of requests pass in
  one second (`BusySecondsBounded` bounds the seconds), and the default of 100 a
  minute never refuses anybody (`DefaultLimitNeverRefuses`; README:302).
- A gateway handler drops a date that is not RFC 3339 and answers success: a document
  gets no deadline, an event stays where it was (`Unread`,
  `api-gateway/internal/handlers/document.go:60`, `calendar.go:43` and `207`,
  `mail.go:284`). The services' own HTTP handlers refuse such a body.
- Where NATS is not set or not reached at the start, every mail job is dropped, queueing
  answers success and the row is flagged as mailed (`DiscardJob`; `app.go:67` and
  `messaging/publisher.go:22` of notification-service).
- A first look at the preferences may overwrite a choice saved meanwhile with the
  defaults: `ChoiceStays` holds only of requests that do not overlap.
- A password replaced by one with blanks around it opens the account never: Login
  trims (`ChosenPasswordOpens`).
- Refresh tokens are in Postgres, not in Redis (README:62). The directory's row of a
  new account gets an id of its own, so `VerifyUserEmail` with the account's id
  finds nothing.
- `user_repository.go:279` names a conflict target that the shipped schema's partial
  index does not provide (`migrations/0001_init.sql:22`), so its INSERT is refused;
  `CheckExists` (`user_repository.go:202`) fails on every call. UserDirectory models
  the insert as it is meant, or nothing of that table could be said.
- The calendar has no month cache, only an interface for one (README:80 says five
  minutes); an update writes back both bounds as it read them (`EditsKept`); moving one
  bound of an event alone is compared with nothing (`EndFollowsStart`); week 53 is
  taken of every year; the week asked for when none is named pairs an ISO week with
  the calendar year (`DefaultWeekHoldsToday`).
- The gateway asks for a document's file and drops it, with the tags and the
  responsible (`InVain`); it answers 500 for most refusals of a service, and 401 for
  a failing auth service.
- Ids are abstract in the models, where the code compares them as text: `VerifyEmail`
  and `Ban` delete the Redis key of the id as it was typed
  (`user_repository.go:369`, `385`, `516`), so a UUID in upper case finds its row and leaves
  the cached copy; the auth service's `DeleteSession` does not trim the user id its
  neighbours trim (`auth_repository.go:236`).
- Mail templates are seeded again at each start over what was edited.

## Not modelled

- **Answers of reads**: lists, pages, counts, statistics and the CSV export change
  nothing, and what they answer is SQL over one statement. How a request for them
  gets through is in Doors.
- **mail-service, partly**: `SendEmail` and `SendBulkEmail` (one SMTP session, no
  state), the template table (one upsert), the hourly counters and statistics.
- **notification-service, partly**: `SendEmail` and `SendBulkEmail` publish and keep
  nothing; the templates are one upsert at the start; the scheduler logs a line a
  day.
- **The formats**: what a readable time or number is, page sizes, validation of texts and the proto
  encoding are abstracted in Doors to a field that can be read or not, and arrives or does not.
- **The access token** depends on a key and the clock alone; Doors takes it for good
  or bad.
- **Calls to no-op clients** of document-service and task-service.
- **Configuration, metrics, logging, schemas, the shared message struct, the
  browser's code**: read once, written only, or already in the actions that meet
  them.

## The plan

Done: every service with state of its own, the gateway's middlewares, all doors, and
theorems for every safety property.
Left:

1. The mail pipeline: NotificationInbox's jobs, the NATS subject and MailJobs
   composed, with the promise "a flagged notification is mailed at most once", which
   would follow from `FlaggedIsQueued` and `LogIsKept`.
2. More promises stated as abstract specifications the way `DocumentLifecycle` and
   `MailLog` are: a task's lifecycle under contention, the directory as one atomic profile.
3. Converses worth a theorem: that a ghost which excuses (`contended`, `unsure`,
   `excused`) is only ever set by the steps its comment names.
