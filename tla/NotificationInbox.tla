--------------------------- MODULE NotificationInbox ---------------------------
(***************************************************************************)
(* notification-service: one user's notifications, unread counter and mail *)
(* preferences.  Postgres has the rows and the preferences, Redis a copy   *)
(* of the counter and of the preferences with a lifetime.  A request is a  *)
(* chain of statements and Redis commands, and one action is one of them   *)
(* with the code up to the next.  Users share nothing, so one is enough.   *)
(*                                                                         *)
(* Not here: the stream to the browser (hub.go), the history listing and   *)
(* the templates, none of which touches this state.                        *)
(***************************************************************************)
EXTENDS Integers, FiniteSets

CONSTANTS Ids,      \* identifiers of notifications, each created once
          Handlers,   \* requests for this user served at one time
          Requests,   \* what is asked: "inbox", "prefs" or both
          Settings,   \* the settings a behaviour may have: whether the user's requests
                      \* exclude each other, what goes wrong, which notifications come
          TTL,        \* lifetime of a cached value
          MaxLag,     \* time a handler may take between two statements
          MaxTime     \* bound: the clock stops here

ASSUME IdsOK == IsFiniteSet(Ids) /\ Ids # {}
ASSUME TimesOK == TTL \in Nat \ {0} /\ MaxLag \in Nat /\ MaxTime \in Nat
ASSUME ChoicesOK == /\ Requests \subseteq {"inbox", "prefs"}
                    /\ Settings \subseteq [exclusive : BOOLEAN, notes : SUBSET Ids,
                                             faults : SUBSET {"redis", "sql", "nats", "crash"}]

VARIABLES setting,      \* the one this behaviour has
          clock,
          rows,         \* `notifications`: each row's read and deleted marks
          flagged,      \* the rows with sent_email
          prefs,        \* `notification_preferences`: whether mail is wanted
          countCache,   \* notif:unread:{user}
          prefsCache,   \* notif:prefs:{user}
          work,         \* where each handler is, with what it has read
          publisher,    \* what this process hands mail jobs to
          jobs,         \* notifications whose mail job was handed to NATS (ghost)
          unsent,       \* those whose mail job the NoopPublisher took (ghost)
          chosen,       \* what UpdatePreferences last wrote (ghost)
          trueAt,       \* the last instant each count was the true one (ghost)
          wantedAt      \* the last instant the preferences allowed mail (ghost)

db == <<rows, flagged, prefs>>
ghosts == <<jobs, unsent, chosen, trueAt, wantedAt>>
vars == <<setting, clock, rows, flagged, prefs, countCache, prefsCache, work, publisher, jobs, unsent, chosen, trueAt, wantedAt>>

-----------------------------------------------------------------------------

Times == 0 .. MaxTime
Counts == 0 .. Cardinality(Ids)
Wishes == {"none", "on", "off"}

\* Redis drops a value when its lifetime is over.
CountEntry == [count : Counts, until : 0 .. MaxTime + TTL]
PrefsEntry == [wish : {"on", "off"}, until : 0 .. MaxTime + TTL]
NoCount == [count |-> 0, until |-> 0]
NoPrefs == [wish |-> "on", until |-> 0]
Cached(entry) == clock < entry.until

Steps == {"idle", "forget", "count", "fillCount", "ask", "load", "seed", "fillPrefs", "mail", "flag"}

\* creates: the request is CreateNotification and goes on; at: time of the last step.
Work == [step : Steps, creates : {"yes", "no"}, note : Ids, count : Counts,
         wish : Wishes, at : Times]

\* A process that finds no NATS when it starts goes on without, until it ends.
Brokers == {"nats", "noop"}
Found == IF "nats" \in setting.faults THEN Brokers ELSE {"nats"}

Idle == [step |-> "idle", creates |-> "no", note |-> CHOOSE n \in Ids : TRUE,
         count |-> 0, wish |-> "none", at |-> 0]

TypeOK == /\ setting \in Settings
          /\ clock \in Times
          /\ rows \in [Ids -> {"none", "unread", "read", "deleted"}]
          /\ flagged \subseteq Ids
          /\ prefs \in Wishes
          /\ countCache \in CountEntry
          /\ prefsCache \in PrefsEntry
          /\ work \in [Handlers -> Work]
          /\ publisher \in Brokers
          /\ jobs \subseteq Ids /\ unsent \subseteq Ids
          /\ chosen \in Wishes
          /\ trueAt \in [Counts -> Times \cup {-1}]
          /\ wantedAt \in Times

\* The notifications whose mail job a publisher took.
Taken == jobs \cup unsent

At(h, step) == work[h].step = step
Busy(h) == ~At(h, "idle")
Unread == Cardinality({n \in Ids : rows[n] = "unread"})

Begin(h, w) == work' = [work EXCEPT ![h] = [w EXCEPT !.at = clock]]
Goto(h, step) == work' = [work EXCEPT ![h] = [@ EXCEPT !.step = step, !.at = clock]]
Finish(h) == work' = [work EXCEPT ![h] = Idle]
Free(h) == ~Busy(h) /\ (setting.exclusive => \A g \in Handlers : ~Busy(g))

\* Writes the rows, remembering when each count was true.
Write(new) == /\ rows' = new
              /\ trueAt' = [trueAt EXCEPT ![Unread'] = clock]

-----------------------------------------------------------------------------
\* The rows.  Every write is followed by the DEL of the counter.

CreateNotification(h, n) ==
    /\ "inbox" \in Requests /\ Free(h)
    /\ n \in setting.notes /\ rows[n] = "none"
    /\ Write([rows EXCEPT ![n] = "unread"])
    /\ Begin(h, [Idle EXCEPT !.step = "forget", !.creates = "yes", !.note = n])
    /\ UNCHANGED <<clock, flagged, prefs, countCache, prefsCache, jobs, unsent, chosen, wantedAt>>

MarkRead(h, n) ==
    /\ "inbox" \in Requests /\ Free(h)
    /\ rows[n] \in {"unread", "read"}
    /\ Write([rows EXCEPT ![n] = "read"])
    /\ Begin(h, [Idle EXCEPT !.step = "forget"])
    /\ UNCHANGED <<clock, flagged, prefs, countCache, prefsCache, jobs, unsent, chosen, wantedAt>>

\* Mutation: the counter is not invalidated.
MarkAllReadQuietly(h) ==
    /\ "inbox" \in Requests /\ Free(h)
    /\ Write([n \in Ids |-> IF rows[n] = "unread" THEN "read" ELSE rows[n]])
    /\ UNCHANGED <<clock, flagged, prefs, countCache, prefsCache, work, jobs, unsent, chosen, wantedAt>>

MarkAllRead(h) ==
    /\ "inbox" \in Requests /\ Free(h)
    /\ Write([n \in Ids |-> IF rows[n] = "unread" THEN "read" ELSE rows[n]])
    /\ Begin(h, [Idle EXCEPT !.step = "forget"])
    /\ UNCHANGED <<clock, flagged, prefs, countCache, prefsCache, jobs, unsent, chosen, wantedAt>>

Delete(h, n) ==
    /\ "inbox" \in Requests /\ Free(h)
    /\ rows[n] \in {"unread", "read"}
    /\ Write([rows EXCEPT ![n] = "deleted"])
    /\ Begin(h, [Idle EXCEPT !.step = "forget"])
    /\ UNCHANGED <<clock, flagged, prefs, countCache, prefsCache, jobs, unsent, chosen, wantedAt>>

\* InvalidateUnreadCountCache, whose error is ignored; only a creation goes on.
Forget(h) ==
    /\ At(h, "forget")
    /\ \/ countCache' = NoCount
       \/ "redis" \in setting.faults /\ UNCHANGED countCache
    /\ IF work[h].creates = "yes" THEN Goto(h, "ask") ELSE Finish(h)
    /\ UNCHANGED <<clock, db, prefsCache, ghosts>>

-----------------------------------------------------------------------------
\* GetUnreadCount: the counter, or else SELECT COUNT and SET.

MissCount(h) ==
    /\ "inbox" \in Requests /\ Free(h)
    /\ ~Cached(countCache) \/ "redis" \in setting.faults
    /\ Begin(h, [Idle EXCEPT !.step = "count"])
    /\ UNCHANGED <<clock, db, countCache, prefsCache, ghosts>>

SelectCount(h) ==
    /\ At(h, "count")
    /\ Begin(h, [Idle EXCEPT !.step = "fillCount", !.count = Unread])
    /\ UNCHANGED <<clock, db, countCache, prefsCache, ghosts>>

\* Mutation: the counter is stored without a lifetime.
FillCountForever(h) ==
    /\ At(h, "fillCount")
    /\ \/ countCache' = [count |-> work[h].count, until |-> MaxTime + TTL]
       \/ "redis" \in setting.faults /\ UNCHANGED countCache
    /\ Finish(h)
    /\ UNCHANGED <<clock, db, prefsCache, ghosts>>

\* SetUnreadCountCache.
FillCount(h) ==
    /\ At(h, "fillCount")
    /\ \/ countCache' = [count |-> work[h].count, until |-> clock + TTL]
       \/ "redis" \in setting.faults /\ UNCHANGED countCache
    /\ Finish(h)
    /\ UNCHANGED <<clock, db, prefsCache, ghosts>>

-----------------------------------------------------------------------------
\* GetPreferences, asked for or by a creation, and UpdatePreferences.

\* What follows once the preferences are known: a creation queues the mail.
Decide(h, wish) ==
    IF work[h].creates = "yes" /\ wish = "on" THEN Goto(h, "mail") ELSE Finish(h)

GetPreferences(h) ==
    /\ "prefs" \in Requests /\ Free(h)
    /\ Begin(h, [Idle EXCEPT !.step = "ask"])
    /\ UNCHANGED <<clock, db, countCache, prefsCache, ghosts>>

AskPrefs(h) ==
    /\ At(h, "ask")
    /\ \/ Cached(prefsCache) /\ Decide(h, prefsCache.wish)
       \/ ~Cached(prefsCache) /\ Goto(h, "load")
       \/ "redis" \in setting.faults /\ Goto(h, "load")
    /\ UNCHANGED <<clock, db, countCache, prefsCache, ghosts>>

\* Mutation: no defaults are put in the place of a missing row.
LoadPrefsUnseeded(h) ==
    /\ At(h, "load")
    /\ Begin(h, [work[h] EXCEPT !.step = "fillPrefs", !.wish = prefs])
    /\ UNCHANGED <<clock, db, countCache, prefsCache, ghosts>>

\* Mutation: a cache miss is taken for a missing row.
LoadPrefsBlind(h) ==
    /\ At(h, "load")
    /\ Begin(h, [work[h] EXCEPT !.step = "seed", !.wish = "on"])
    /\ UNCHANGED <<clock, db, countCache, prefsCache, ghosts>>

LoadPrefs(h) ==
    /\ At(h, "load")
    /\ Begin(h, [work[h] EXCEPT !.step = IF prefs = "none" THEN "seed" ELSE "fillPrefs",
                                !.wish = IF prefs = "none" THEN "on" ELSE prefs])
    /\ UNCHANGED <<clock, db, countCache, prefsCache, ghosts>>

\* No row was found: the defaults are upserted, over whatever is there by now.
SeedPrefs(h) ==
    /\ At(h, "seed")
    /\ prefs' = "on"
    /\ wantedAt' = clock
    /\ Goto(h, "fillPrefs")
    /\ UNCHANGED <<clock, rows, flagged, countCache, prefsCache, jobs, unsent, chosen, trueAt>>

\* The upsert's error is ignored and the defaults are answered.
SeedFails(h) ==
    /\ At(h, "seed") /\ "sql" \in setting.faults
    /\ Decide(h, "on")
    /\ UNCHANGED <<clock, db, countCache, prefsCache, ghosts>>

UpdatePreferences(h, wish) ==
    /\ "prefs" \in Requests /\ Free(h)
    /\ prefs' = wish /\ chosen' = wish
    /\ wantedAt' = IF wish = "on" THEN clock ELSE wantedAt
    /\ Begin(h, [Idle EXCEPT !.step = "fillPrefs", !.wish = wish])
    /\ UNCHANGED <<clock, rows, flagged, countCache, prefsCache, jobs, unsent, trueAt>>

\* Mutation: the preferences are cached without a lifetime.
FillPrefsForever(h) ==
    /\ At(h, "fillPrefs")
    /\ \/ prefsCache' = [wish |-> work[h].wish, until |-> MaxTime + TTL]
       \/ "redis" \in setting.faults /\ UNCHANGED prefsCache
    /\ Decide(h, work[h].wish)
    /\ UNCHANGED <<clock, db, countCache, ghosts>>

\* setPrefsCache.
FillPrefs(h) ==
    /\ At(h, "fillPrefs")
    /\ \/ prefsCache' = [wish |-> work[h].wish, until |-> clock + TTL]
       \/ "redis" \in setting.faults /\ UNCHANGED prefsCache
    /\ Decide(h, work[h].wish)
    /\ UNCHANGED <<clock, db, countCache, ghosts>>

-----------------------------------------------------------------------------
\* The end of CreateNotification: PublishEmailJob and SetEmailQueued.

\* Mutation: the row is flagged even when publishing fails.
PublishJobUnchecked(h) ==
    /\ At(h, "mail") /\ publisher = "nats"
    /\ \/ jobs' = jobs \cup {work[h].note}
       \/ UNCHANGED jobs
    /\ Goto(h, "flag")
    /\ UNCHANGED <<clock, db, countCache, prefsCache, unsent, chosen, trueAt, wantedAt>>

\* The NATS connection takes the job.
PublishJob(h) ==
    /\ At(h, "mail") /\ publisher = "nats"
    /\ jobs' = jobs \cup {work[h].note}
    /\ Goto(h, "flag")
    /\ UNCHANGED <<clock, db, countCache, prefsCache, unsent, chosen, trueAt, wantedAt>>

\* The NoopPublisher answers as if it had published.
DiscardJob(h) ==
    /\ At(h, "mail") /\ publisher = "noop"
    /\ unsent' = unsent \cup {work[h].note}
    /\ Goto(h, "flag")
    /\ UNCHANGED <<clock, db, countCache, prefsCache, jobs, chosen, trueAt, wantedAt>>

SetEmailQueued(h) ==
    /\ At(h, "flag")
    /\ flagged' = IF rows[work[h].note] = "deleted" THEN flagged ELSE flagged \cup {work[h].note}
    /\ Finish(h)
    /\ UNCHANGED <<clock, rows, prefs, countCache, prefsCache, ghosts>>

-----------------------------------------------------------------------------

\* A statement or publishing fails, the recipient is not found, or the category is
\* never mailed: the handler ends.
Fail(h) == /\ \/ At(h, "mail")
              \/ "sql" \in setting.faults /\ work[h].step \in {"count", "load", "flag"}
           /\ Finish(h)
           /\ UNCHANGED <<clock, db, countCache, prefsCache, ghosts>>

\* The process ends; the next one tries NATS anew.
Crash == /\ "crash" \in setting.faults
         /\ work' = [h \in Handlers |-> Idle]
         /\ publisher' \in Found
         /\ UNCHANGED <<clock, db, countCache, prefsCache, ghosts>>

Tick == /\ clock < MaxTime
        /\ \A h \in Handlers : Busy(h) => clock < work[h].at + MaxLag
        /\ clock' = clock + 1
        /\ countCache' = IF clock + 1 < countCache.until THEN countCache ELSE NoCount
        /\ prefsCache' = IF clock + 1 < prefsCache.until THEN prefsCache ELSE NoPrefs
        /\ trueAt' = [trueAt EXCEPT ![Unread] = clock + 1]
        /\ wantedAt' = IF prefs = "off" THEN wantedAt ELSE clock + 1
        /\ UNCHANGED <<db, work, jobs, unsent, chosen>>

-----------------------------------------------------------------------------

Init == /\ setting \in Settings
        /\ clock = 0
        /\ rows = [n \in Ids |-> "none"]
        /\ flagged = {}
        /\ prefs = "none"
        /\ countCache = NoCount
        /\ prefsCache = NoPrefs
        /\ work = [h \in Handlers |-> Idle]
        /\ publisher \in Found
        /\ jobs = {} /\ unsent = {}
        /\ chosen = "none"
        /\ trueAt = [c \in Counts |-> IF c = 0 THEN 0 ELSE -1]
        /\ wantedAt = 0

Step(h) == \/ \E n \in Ids : CreateNotification(h, n) \/ MarkRead(h, n) \/ Delete(h, n)
           \/ MarkAllRead(h) \/ Forget(h)
           \/ MissCount(h) \/ SelectCount(h) \/ FillCount(h)
           \/ GetPreferences(h) \/ AskPrefs(h) \/ LoadPrefs(h) \/ SeedPrefs(h) \/ SeedFails(h)
           \/ \E wish \in {"on", "off"} : UpdatePreferences(h, wish)
           \/ FillPrefs(h)
           \/ PublishJob(h) \/ DiscardJob(h) \/ SetEmailQueued(h)
           \/ Fail(h)

Next == /\ UNCHANGED setting
        /\ \/ UNCHANGED publisher /\ ((\E h \in Handlers : Step(h)) \/ Tick)
           \/ Crash

Spec == Init /\ [][Next]_vars

-----------------------------------------------------------------------------
\* What holds of every interleaving, failing command and restart.

\* However reads race with writes and invalidations fail, a cached counter was the
\* true one less than a lifetime and a lag ago: staleness is bounded.
CountIsRecent ==
    Cached(countCache) => clock - trueAt[countCache.count] < TTL + MaxLag

\* A mail is queued only if the preferences allowed mail less than a lifetime and
\* two lags ago: switching mail off takes effect in bounded time.
MailWasWanted ==
    [][jobs' # jobs => clock - wantedAt < TTL + 2 * MaxLag]_jobs

\* A notification flagged sent_email had its mail job handed to NATS, or was created
\* by a process that found no NATS when it started, whose jobs go nowhere: a job that
\* could not be published leaves no flag.
FlaggedIsQueued == flagged \subseteq Taken

-----------------------------------------------------------------------------
\* What holds when the user's requests do not overlap and nothing fails.

Calm == setting.exclusive /\ setting.faults = {}

\* Whoever reads the counter between requests reads the truth.
CountSettles ==
    Calm /\ (\A h \in Handlers : ~Busy(h)) /\ Cached(countCache) => countCache.count = Unread

\* What a user has saved stays until they save something else: reading the
\* preferences for the first time stores defaults, never over a choice.
ChoiceStays == Calm /\ chosen # "none" => prefs = chosen
=============================================================================
