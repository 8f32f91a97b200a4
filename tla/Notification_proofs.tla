------------------------- MODULE Notification_proofs -------------------------
(***************************************************************************)
(* Theorems about notification-service.  First of NotificationInbox, for   *)
(* every set of notifications and handlers, every lifetime, lag and bound, *)
(* and whatever may go wrong: how old a cached value can be rests on when  *)
(* a handler read it and how long it took (Right), and on the counts and   *)
(* wishes being true at every instant they are remembered for (TrueNow,    *)
(* WantedNow).  Then of NotificationHub, for any number of users, streams, *)
(* publishers and notes, and channels of any capacity.                     *)
(***************************************************************************)
EXTENDS NotificationInbox, NotificationHub, FiniteSetTheorems, SequenceTheorems, TLAPS

\* What a handler's record means at an instant, with the times the counts were true
\* and mail was wanted, and the jobs taken: it has not taken longer than the lag,
\* what it has read was so when it read it.
Right(r, now, counted, wanted, taken) ==
    /\ r.step # "idle" => r.at <= now /\ now <= r.at + MaxLag
    /\ r.step = "fillCount" => r.at <= counted[r.count]
    /\ r.step = "seed" => r.wish = "on" /\ r.at <= wanted
    /\ r.step = "fillPrefs" => r.wish \in {"on", "off"} /\ (r.wish = "on" => r.at <= wanted)
    /\ r.step = "mail" => r.at < wanted + TTL + MaxLag
    /\ r.step = "flag" => r.note \in taken

Holding == \A h \in Handlers : Right(work[h], clock, trueAt, wantedAt, Taken)

\* A cached value expires a lifetime after it was stored, a lag after it was read.
CountFits == Cached(countCache) => countCache.until <= trueAt[countCache.count] + TTL + MaxLag
PrefsFit == Cached(prefsCache) /\ prefsCache.wish = "on"
                => prefsCache.until <= wantedAt + TTL + MaxLag

\* The ghosts are up to date.
TrueNow == trueAt[Unread] = clock /\ \A c \in Counts : trueAt[c] <= clock
WantedNow == wantedAt <= clock /\ (prefs # "off" => wantedAt = clock)

Inv == TypeOK /\ Holding /\ CountFits /\ PrefsFit /\ TrueNow /\ WantedNow /\ FlaggedIsQueued

\* What a handler's step does to the clock and the ghosts.
Onwards == /\ clock' = clock
           /\ trueAt' \in [Counts -> Times \cup {-1}] /\ \A c \in Counts : trueAt[c] <= trueAt'[c]
           /\ wantedAt' \in Times /\ wantedAt <= wantedAt' /\ Taken \subseteq Taken'

\* What it does to the handlers: the others stay.
Others(h) == work' \in [Handlers -> Work] /\ \A g \in Handlers \ {h} : work'[g] = work[g]

-----------------------------------------------------------------------------
\* Numbers and records.

\* A count of unread rows is a count.
LEMMA UnreadCounts ==
  ASSUME NEW states PROVE Cardinality({n \in Ids : states[n] = "unread"}) \in Counts
<1> DEFINE some == {n \in Ids : states[n] = "unread"}
<1>1. some \subseteq Ids /\ IsFiniteSet(Ids)
  BY IdsOK
<1> HIDE DEF some
<1>2. IsFiniteSet(some) /\ Cardinality(some) <= Cardinality(Ids)
  BY <1>1, FS_Subset
<1>3. Cardinality(some) \in Nat /\ Cardinality(Ids) \in Nat
  BY <1>1, <1>2, FS_CardinalityType
<1>4. Cardinality(some) \in Counts
  BY <1>2, <1>3 DEF Counts
<1>5. QED
  BY <1>4 DEF some

\* No note is unread at first, so no count of them is above zero.
LEMMA NoneUnread == ASSUME NEW states, \A n \in Ids : states[n] # "unread"
                    PROVE  Cardinality({n \in Ids : states[n] = "unread"}) = 0
<1>1. {n \in Ids : states[n] = "unread"} = {}
  OBVIOUS
<1>2. QED
  BY <1>1, FS_EmptySet

LEMMA IdleIsIdle ==
  /\ 0 \in Counts /\ 0 \in Times
  /\ Idle \in Work /\ Idle.step = "idle" /\ Idle.creates = "no" /\ Idle.wish = "none" /\ Idle.count = 0
<1>1. (CHOOSE n \in Ids : TRUE) \in Ids
  BY IdsOK
<1>2. Cardinality(Ids) \in Nat
  BY IdsOK, FS_CardinalityType
<1>3. 0 \in Counts /\ 0 \in Times
  BY <1>2, TimesOK DEF Counts, Times
<1>4. QED
  BY <1>1, <1>3 DEF Idle, Work, Steps, Wishes

\* What was right of a handler stays right.
LEMMA StaysRight ==
  ASSUME Inv, Onwards, NEW r \in Work, Right(r, clock, trueAt, wantedAt, Taken)
  PROVE  Right(r, clock', trueAt', wantedAt', Taken')
<1>1. /\ r.at \in Int /\ r.count \in Counts /\ MaxLag \in Int /\ TTL \in Int
      /\ clock \in Int /\ wantedAt \in Int /\ wantedAt' \in Int
      /\ trueAt[r.count] \in Int /\ trueAt'[r.count] \in Int
  BY TimesOK DEF Work, Inv, TypeOK, Onwards, Times
<1>2. QED
  BY <1>1 DEF Right, Onwards

\* Putting a record that is right in a handler's hands.
LEMMA Handed ==
  ASSUME Inv, Onwards, NEW h \in Handlers, NEW r \in Work,
         Right(r, clock', trueAt', wantedAt', Taken'), work' = [work EXCEPT ![h] = r]
  PROVE  Others(h) /\ work'[h] = r /\ Holding'
<1>1. Others(h) /\ work'[h] = r
  BY DEF Others, Inv, TypeOK
<1>2. \A g \in Handlers : work[g] \in Work /\ Right(work[g], clock, trueAt, wantedAt, Taken)
  BY DEF Inv, TypeOK, Holding
<1>3. \A g \in Handlers : Right(work'[g], clock', trueAt', wantedAt', Taken')
  BY <1>1, <1>2, StaysRight DEF Others
<1>4. QED
  BY <1>1, <1>3 DEF Holding

\* A handler that ends.
LEMMA Finished ==
  ASSUME Inv, Onwards, NEW h \in Handlers, Finish(h)
  PROVE  Others(h) /\ Holding' /\ work'[h].step = "idle"
<1>1. Right(Idle, clock', trueAt', wantedAt', Taken')
  BY IdleIsIdle DEF Right
<1>2. QED
  BY <1>1, IdleIsIdle, Handed DEF Finish

\* What must hold of a record that is put in a handler's hands now.
RightNow(step, note, count, wish) ==
    /\ step = "fillCount" => clock <= trueAt'[count]
    /\ step = "seed" => wish = "on" /\ clock <= wantedAt'
    /\ step = "fillPrefs" => wish \in {"on", "off"} /\ (wish = "on" => clock <= wantedAt')
    /\ step = "mail" => clock < wantedAt' + TTL + MaxLag
    /\ step = "flag" => note \in Taken'

LEMMA RightIsRight ==
  ASSUME Inv, Onwards, NEW r \in Work, r.at = clock, RightNow(r.step, r.note, r.count, r.wish)
  PROVE  Right(r, clock', trueAt', wantedAt', Taken')
<1>1. clock' = clock /\ clock \in Int /\ MaxLag \in Nat
  BY TimesOK DEF Inv, TypeOK, Times, Onwards
<1>2. r.at <= clock' /\ clock' <= r.at + MaxLag
  BY <1>1
<1>3. QED
  BY <1>2 DEF Right, RightNow

\* A handler that begins, or goes on with what it has read.
LEMMA Begun ==
  ASSUME Inv, Onwards, NEW h \in Handlers, NEW w \in Work, Begin(h, w),
         RightNow(w.step, w.note, w.count, w.wish)
  PROVE  /\ Others(h) /\ Holding'
         /\ work'[h].step = w.step /\ work'[h].creates = w.creates /\ work'[h].note = w.note
         /\ work'[h].count = w.count /\ work'[h].wish = w.wish
<1> DEFINE r == [w EXCEPT !.at = clock]
<1>1. clock \in Times
  BY DEF Inv, TypeOK
<1>2. /\ r \in Work /\ r.at = clock /\ r.step = w.step /\ r.creates = w.creates /\ r.note = w.note
      /\ r.count = w.count /\ r.wish = w.wish
  BY <1>1 DEF Work
<1>3. work' = [work EXCEPT ![h] = r]
  BY DEF Begin
<1> HIDE DEF r
<1>4. Right(r, clock', trueAt', wantedAt', Taken')
  BY <1>2, RightIsRight
<1>5. QED
  BY <1>2, <1>3, <1>4, Handed

\* A handler that goes on to its next statement.
LEMMA Gone ==
  ASSUME Inv, Onwards, NEW h \in Handlers, NEW step \in Steps, Goto(h, step),
         RightNow(step, work[h].note, work[h].count, work[h].wish)
  PROVE  Others(h) /\ Holding' /\ work'[h].step = step
<1> DEFINE r == [work[h] EXCEPT !.step = step, !.at = clock]
<1>1. clock \in Times /\ work[h] \in Work
  BY DEF Inv, TypeOK
<1>2. /\ r \in Work /\ r.at = clock /\ r.step = step /\ r.note = work[h].note
      /\ r.count = work[h].count /\ r.wish = work[h].wish
  BY <1>1 DEF Work
<1>3. work' = [work EXCEPT ![h] = r]
  BY DEF Goto
<1> HIDE DEF r
<1>4. Right(r, clock', trueAt', wantedAt', Taken')
  BY <1>2, RightIsRight
<1>5. QED
  BY <1>2, <1>3, <1>4, Handed

\* What is decided once the preferences are known: mail only if they are on.
LEMMA Decided ==
  ASSUME Inv, Onwards, NEW h \in Handlers, NEW wish \in {"on", "off"}, Decide(h, wish),
         wish = "on" => clock < wantedAt' + TTL + MaxLag
  PROVE  Others(h) /\ Holding' /\ work'[h].step \in {"idle", "mail"}
<1>1. CASE work[h].creates = "yes" /\ wish = "on"
  <2>1. Goto(h, "mail") /\ "mail" \in Steps
    BY <1>1 DEF Decide, Steps
  <2>2. RightNow("mail", work[h].note, work[h].count, work[h].wish)
    BY <1>1 DEF RightNow
  <2>3. QED
    BY <2>1, <2>2, Gone
<1>2. CASE ~(work[h].creates = "yes" /\ wish = "on")
  BY <1>2, Finished DEF Decide
<1>3. QED
  BY <1>1, <1>2

-----------------------------------------------------------------------------
\* What each step does to its handler.

\* A step that leaves the clock and the ghosts alone.
LEMMA QuietOnwards == ASSUME Inv, UNCHANGED <<clock, trueAt, wantedAt, Taken>> PROVE Onwards
<1>1. \A c \in Counts : trueAt[c] \in Int
  BY DEF Inv, TypeOK, Times
<1>2. wantedAt \in Int
  BY DEF Inv, TypeOK, Times
<1>3. QED
  BY <1>1, <1>2 DEF Onwards, Inv, TypeOK

States == {"none", "unread", "read", "deleted"}

\* Writing rows brings the ghost of the counts up to date.
LEMMA Written ==
  ASSUME Inv, NEW new \in [Ids -> States], Write(new), UNCHANGED <<clock, wantedAt, Taken>>
  PROVE  Onwards /\ TrueNow' /\ rows' \in [Ids -> States]
<1> DEFINE c == Cardinality({n \in Ids : rows'[n] = "unread"})
<1>1. c \in Counts /\ c = Unread'
  BY UnreadCounts DEF Unread
<1>2. trueAt' = [trueAt EXCEPT ![c] = clock]
  BY <1>1 DEF Write
<1> HIDE DEF c
<1>3. /\ clock \in Times /\ trueAt \in [Counts -> Times \cup {-1}] /\ wantedAt \in Times
      /\ \A d \in Counts : trueAt[d] <= clock /\ trueAt[d] \in Int
  BY DEF Inv, TypeOK, TrueNow, Times
<1>4. trueAt'[c] = clock /\ \A d \in Counts \ {c} : trueAt'[d] = trueAt[d]
  BY <1>1, <1>2, <1>3
<1>5. \A d \in Counts : trueAt[d] <= trueAt'[d] /\ trueAt'[d] <= clock
  BY <1>3, <1>4 DEF Times
<1>6. trueAt' \in [Counts -> Times \cup {-1}]
  BY <1>1, <1>2, <1>3
<1>7. wantedAt <= wantedAt'
  BY <1>3 DEF Times
<1>8. Onwards
  BY <1>3, <1>5, <1>6, <1>7 DEF Onwards
<1>9. TrueNow'
  BY <1>1, <1>4, <1>5 DEF TrueNow
<1>10. QED
  BY <1>8, <1>9 DEF Write

\* The four writers of rows, all of which go on to the counter's deletion.
Writes(h) == \/ \E n \in Ids : CreateNotification(h, n) \/ MarkRead(h, n) \/ Delete(h, n)
             \/ MarkAllRead(h)

LEMMA WriterGoes ==
  ASSUME Inv, NEW h \in Handlers, Writes(h)
  PROVE  /\ Onwards /\ TrueNow' /\ rows' \in [Ids -> States]
         /\ UNCHANGED <<clock, flagged, prefs, countCache, prefsCache, jobs, unsent, chosen, wantedAt>>
         /\ Free(h) /\ Others(h) /\ Holding' /\ work'[h].step = "forget"
<1>1. UNCHANGED <<clock, flagged, prefs, countCache, prefsCache, jobs, unsent, chosen, wantedAt>> /\ Free(h)
  BY DEF Writes, CreateNotification, MarkRead, Delete, MarkAllRead
<1>2. rows \in [Ids -> States]
  BY DEF Inv, TypeOK, States
<1>3. \A n \in Ids, s \in States : [rows EXCEPT ![n] = s] \in [Ids -> States]
  BY <1>2
<1>4. [n \in Ids |-> IF rows[n] = "unread" THEN "read" ELSE rows[n]] \in [Ids -> States]
  BY <1>2 DEF States
<1>5. "unread" \in States /\ "read" \in States /\ "deleted" \in States
  BY DEF States
<1>6. \E new \in [Ids -> States] : Write(new)
  BY <1>3, <1>4, <1>5 DEF Writes, CreateNotification, MarkRead, Delete, MarkAllRead
<1>7. Onwards /\ TrueNow' /\ rows' \in [Ids -> States]
  BY <1>1, <1>6, Written DEF Taken
<1> DEFINE plain == [Idle EXCEPT !.step = "forget"]
<1>8. plain \in Work /\ plain.step = "forget"
  BY IdleIsIdle DEF Work, Steps
<1>9. ASSUME NEW n \in Ids
      PROVE  LET w == [Idle EXCEPT !.step = "forget", !.creates = "yes", !.note = n]
             IN  w \in Work /\ w.step = "forget"
  BY IdleIsIdle DEF Work, Steps
<1>10. \E w \in Work : w.step = "forget" /\ Begin(h, w)
  BY <1>8, <1>9 DEF Writes, CreateNotification, MarkRead, Delete, MarkAllRead
<1>11. PICK w \in Work : w.step = "forget" /\ Begin(h, w)
  BY <1>10
<1>12. RightNow(w.step, w.note, w.count, w.wish)
  BY <1>11 DEF RightNow
<1>13. Others(h) /\ Holding' /\ work'[h].step = "forget"
  BY <1>7, <1>11, <1>12, Begun
<1>14. QED
  BY <1>1, <1>7, <1>13

\* Forget deletes the counter.
LEMMA ForgetGoes ==
  ASSUME Inv, NEW h \in Handlers, Forget(h)
  PROVE  Onwards /\ Others(h) /\ Holding' /\ work'[h].step \in {"idle", "ask"}
<1>1. Onwards
  BY QuietOnwards DEF Forget, ghosts, Taken
<1>2. CASE work[h].creates = "yes"
  <2>1. Goto(h, "ask") /\ "ask" \in Steps /\ RightNow("ask", work[h].note, work[h].count, work[h].wish)
    BY <1>2 DEF Forget, Steps, RightNow
  <2>2. QED
    BY <1>1, <2>1, Gone
<1>3. CASE work[h].creates # "yes"
  BY <1>1, <1>3, Finished DEF Forget
<1>4. QED
  BY <1>2, <1>3

\* Lookups that begin, of the counter and of the preferences.
LEMMA LookupGoes ==
  ASSUME Inv, NEW h \in Handlers, MissCount(h) \/ GetPreferences(h)
  PROVE  Onwards /\ Others(h) /\ Holding' /\ Free(h) /\ work'[h].step \in {"count", "ask"}
<1>1. Onwards /\ Free(h)
  BY QuietOnwards DEF MissCount, GetPreferences, ghosts, Taken
<1>2. ASSUME NEW step \in {"count", "ask"}
      PROVE  LET w == [Idle EXCEPT !.step = step] IN w \in Work /\ w.step = step
  BY IdleIsIdle DEF Work, Steps
<1>3. PICK w \in Work : w.step \in {"count", "ask"} /\ Begin(h, w)
  BY <1>2 DEF MissCount, GetPreferences
<1>4. RightNow(w.step, w.note, w.count, w.wish)
  BY <1>3 DEF RightNow
<1>5. QED
  BY <1>1, <1>3, <1>4, Begun

\* SelectCount reads the true count.
LEMMA SelectCountGoes ==
  ASSUME Inv, NEW h \in Handlers, SelectCount(h)
  PROVE  /\ Onwards /\ Others(h) /\ Holding'
         /\ work'[h].step = "fillCount" /\ work'[h].count = Unread
<1> DEFINE w == [Idle EXCEPT !.step = "fillCount", !.count = Unread]
<1>1. Unread \in Counts
  BY UnreadCounts DEF Unread
<1>2. w \in Work /\ w.step = "fillCount" /\ w.count = Unread
  BY <1>1, IdleIsIdle DEF Work, Steps
<1>3. Onwards /\ Begin(h, w)
  BY QuietOnwards DEF SelectCount, ghosts, Taken
<1> HIDE DEF w
<1>4. clock <= trueAt'[Unread]
  BY DEF SelectCount, ghosts, Inv, TrueNow, TypeOK, Times
<1>5. RightNow(w.step, w.note, w.count, w.wish)
  BY <1>2, <1>4 DEF RightNow
<1>6. QED
  BY <1>2, <1>3, <1>5, Begun

\* AskPrefs: the cached wish decides, or the table is asked.
LEMMA AskGoes ==
  ASSUME Inv, NEW h \in Handlers, AskPrefs(h)
  PROVE  Onwards /\ Others(h) /\ Holding' /\ work'[h].step \in {"idle", "mail", "load"}
<1>1. Onwards /\ UNCHANGED wantedAt
  BY QuietOnwards DEF AskPrefs, ghosts, Taken
<1>2. CASE Goto(h, "load")
  <2>1. "load" \in Steps /\ RightNow("load", work[h].note, work[h].count, work[h].wish)
    BY DEF Steps, RightNow
  <2>2. QED
    BY <1>1, <1>2, <2>1, Gone
<1>3. CASE Cached(prefsCache) /\ Decide(h, prefsCache.wish)
  <2>1. prefsCache.wish \in {"on", "off"} /\ prefsCache.until \in Int /\ clock \in Int /\ wantedAt \in Int
    BY TimesOK DEF Inv, TypeOK, PrefsEntry, Times
  <2>2. prefsCache.wish = "on" => clock < wantedAt + TTL + MaxLag
    BY <1>3, <2>1, TimesOK DEF Inv, PrefsFit, Cached
  <2>3. QED
    BY <1>1, <1>3, <2>1, <2>2, Decided
<1>4. QED
  BY <1>2, <1>3 DEF AskPrefs

\* LoadPrefs reads the preferences, or finds no row to read.
LEMMA LoadGoes ==
  ASSUME Inv, NEW h \in Handlers, LoadPrefs(h)
  PROVE  /\ Onwards /\ Others(h) /\ Holding' /\ work'[h].step \in {"seed", "fillPrefs"}
         /\ work'[h].step = "seed" => prefs = "none"
<1> DEFINE step == IF prefs = "none" THEN "seed" ELSE "fillPrefs"
           wish == IF prefs = "none" THEN "on" ELSE prefs
           w == [work[h] EXCEPT !.step = step, !.wish = wish]
<1>1. /\ work[h] \in Work /\ prefs \in Wishes /\ wantedAt \in Int /\ clock \in Int
      /\ prefs # "off" => wantedAt = clock
  BY DEF Inv, TypeOK, WantedNow, Times
<1>2. /\ step \in {"seed", "fillPrefs"} /\ wish \in {"on", "off"} /\ (step = "seed" => prefs = "none" /\ wish = "on")
      /\ wish = "on" => clock <= wantedAt
  BY <1>1 DEF Wishes
<1>3. Onwards /\ UNCHANGED wantedAt /\ Begin(h, w)
  BY QuietOnwards DEF LoadPrefs, ghosts, Taken
<1> HIDE DEF step, wish
<1>4. w \in Work /\ w.step = step /\ w.wish = wish
  BY <1>1, <1>2 DEF Work, Steps, Wishes
<1> HIDE DEF w
<1>5. RightNow(w.step, w.note, w.count, w.wish)
  BY <1>2, <1>3, <1>4 DEF RightNow
<1>6. QED
  BY <1>2, <1>3, <1>4, <1>5, Begun

\* SeedPrefs stores the defaults and goes on to cache them.
LEMMA SeedGoes ==
  ASSUME Inv, NEW h \in Handlers, SeedPrefs(h)
  PROVE  Onwards /\ Others(h) /\ Holding' /\ work'[h].step = "fillPrefs"
<1>1. clock \in Times /\ wantedAt \in Times /\ clock \in Int /\ wantedAt \in Int
  BY DEF Inv, TypeOK, Times
<1>2. Right(work[h], clock, trueAt, wantedAt, Taken) /\ work[h].step = "seed"
  BY DEF Inv, Holding, SeedPrefs, At
<1>3. work[h].wish = "on" /\ wantedAt <= clock
  BY <1>2 DEF Right, Inv, WantedNow
<1>4. \A c \in Counts : trueAt[c] \in Int
  BY DEF Inv, TypeOK, Times
<1>5. Onwards
  BY <1>1, <1>3, <1>4 DEF SeedPrefs, Taken, Onwards, Inv, TypeOK
<1>6. Goto(h, "fillPrefs") /\ "fillPrefs" \in Steps /\ wantedAt' = clock
  BY DEF SeedPrefs, Steps
<1>7. RightNow("fillPrefs", work[h].note, work[h].count, work[h].wish)
  BY <1>1, <1>3, <1>6 DEF RightNow
<1>8. QED
  BY <1>5, <1>6, <1>7, Gone

\* A seed that fails answers the defaults.
LEMMA SeedFailsGoes ==
  ASSUME Inv, NEW h \in Handlers, SeedFails(h)
  PROVE  Onwards /\ Others(h) /\ Holding' /\ work'[h].step \in {"idle", "mail"}
<1>1. Onwards /\ UNCHANGED wantedAt /\ Decide(h, "on")
  BY QuietOnwards DEF SeedFails, ghosts, Taken
<1>2. /\ work[h] \in Work /\ work[h].step = "seed" /\ Right(work[h], clock, trueAt, wantedAt, Taken)
      /\ clock \in Int /\ wantedAt \in Int
  BY DEF Inv, TypeOK, Holding, SeedFails, At, Times
<1>3. work[h].at <= wantedAt /\ clock <= work[h].at + MaxLag /\ work[h].at \in Int
  BY <1>2 DEF Right, Work, Times
<1>4. clock < wantedAt + TTL + MaxLag
  BY <1>2, <1>3, TimesOK
<1>5. QED
  BY <1>1, <1>4, Decided

\* UpdatePreferences stores the wish and goes on to cache it.
LEMMA UpdateGoes ==
  ASSUME Inv, NEW h \in Handlers, NEW wish \in {"on", "off"}, UpdatePreferences(h, wish)
  PROVE  Onwards /\ Others(h) /\ Holding' /\ Free(h) /\ work'[h].step = "fillPrefs"
<1> DEFINE w == [Idle EXCEPT !.step = "fillPrefs", !.wish = wish]
<1>1. w \in Work /\ w.step = "fillPrefs" /\ w.wish = wish
  BY IdleIsIdle DEF Work, Steps, Wishes
<1>2. /\ clock \in Times /\ wantedAt \in Times /\ clock \in Int /\ wantedAt \in Int
      /\ wantedAt <= clock /\ \A c \in Counts : trueAt[c] \in Int
  BY DEF Inv, TypeOK, WantedNow, Times
<1>3. /\ Begin(h, w) /\ Free(h) /\ UNCHANGED <<clock, trueAt, Taken>>
      /\ wantedAt' = IF wish = "on" THEN clock ELSE wantedAt
  BY DEF UpdatePreferences, Taken
<1> HIDE DEF w
<1>4. Onwards
  BY <1>2, <1>3 DEF Onwards, Inv, TypeOK
<1>5. RightNow(w.step, w.note, w.count, w.wish)
  BY <1>1, <1>2, <1>3 DEF RightNow
<1>6. QED
  BY <1>1, <1>3, <1>4, <1>5, Begun

\* FillPrefs answers, or decides about the mail.
LEMMA FillPrefsGoes ==
  ASSUME Inv, NEW h \in Handlers, FillPrefs(h)
  PROVE  /\ Onwards /\ Others(h) /\ Holding' /\ work'[h].step \in {"idle", "mail"}
         /\ work[h].wish \in {"on", "off"} /\ (work[h].wish = "on" => clock <= wantedAt + MaxLag)
<1>1. Onwards /\ UNCHANGED wantedAt /\ Decide(h, work[h].wish)
  BY QuietOnwards DEF FillPrefs, ghosts, Taken
<1>2. /\ work[h] \in Work /\ work[h].step = "fillPrefs" /\ Right(work[h], clock, trueAt, wantedAt, Taken)
      /\ clock \in Int /\ wantedAt \in Int
  BY DEF Inv, TypeOK, Holding, FillPrefs, At, Times
<1>3. /\ clock <= work[h].at + MaxLag /\ work[h].at \in Int /\ work[h].wish \in {"on", "off"}
      /\ work[h].wish = "on" => work[h].at <= wantedAt
  BY <1>2 DEF Right, Work, Times
<1>4. work[h].wish = "on" => clock <= wantedAt + MaxLag /\ clock < wantedAt + TTL + MaxLag
  BY <1>2, <1>3, TimesOK
<1>5. QED
  BY <1>1, <1>3, <1>4, Decided

\* A publisher takes the job of a handler that has a note to mail.
LEMMA PublishGoes ==
  ASSUME Inv, NEW h \in Handlers, PublishJob(h) \/ DiscardJob(h)
  PROVE  Onwards /\ Others(h) /\ Holding' /\ work'[h].step = "flag" /\ work[h].note \in Ids
<1>1. /\ \A c \in Counts : trueAt[c] \in Int
      /\ wantedAt \in Int /\ work[h].note \in Ids
  BY DEF Inv, TypeOK, Times, Work
<1>2. Onwards
  BY <1>1 DEF PublishJob, DiscardJob, Taken, Onwards, Inv, TypeOK
<1>3. Goto(h, "flag") /\ "flag" \in Steps /\ work[h].note \in Taken'
  BY DEF PublishJob, DiscardJob, Steps, Taken
<1>4. RightNow("flag", work[h].note, work[h].count, work[h].wish)
  BY <1>3 DEF RightNow
<1>5. QED
  BY <1>1, <1>2, <1>3, <1>4, Gone

\* Handlers that end, having done their last statement or not.
LEMMA EndGoes ==
  ASSUME Inv, NEW h \in Handlers, FillCount(h) \/ SetEmailQueued(h) \/ Fail(h)
  PROVE  Onwards /\ Others(h) /\ Holding' /\ work'[h].step = "idle"
<1>1. Onwards /\ Finish(h)
  BY QuietOnwards DEF FillCount, SetEmailQueued, Fail, ghosts, Taken
<1>2. QED
  BY <1>1, Finished

-----------------------------------------------------------------------------
\* Inv is an invariant.

\* Cached values that are left alone are no older than before.
LEMMA CountStays == ASSUME Inv, Onwards, UNCHANGED countCache PROVE CountFits'
<1>1. /\ countCache.count \in Counts /\ countCache.until \in Int
      /\ trueAt[countCache.count] \in Int /\ trueAt'[countCache.count] \in Int
      /\ trueAt[countCache.count] <= trueAt'[countCache.count]
  BY TimesOK DEF Inv, TypeOK, CountEntry, Onwards, Times
<1>2. QED
  BY <1>1, TimesOK DEF Inv, CountFits, Cached, Onwards

LEMMA PrefsStay == ASSUME Inv, Onwards, UNCHANGED prefsCache PROVE PrefsFit'
<1>1. prefsCache.until \in Int /\ wantedAt \in Int /\ wantedAt' \in Int /\ wantedAt <= wantedAt'
  BY TimesOK DEF Inv, TypeOK, PrefsEntry, Onwards, Times
<1>2. QED
  BY <1>1, TimesOK DEF Inv, PrefsFit, Cached, Onwards

\* A cache that Redis has emptied holds nothing.
LEMMA Emptied ==
  /\ NoCount \in CountEntry /\ NoPrefs \in PrefsEntry
  /\ NoCount.until = 0 /\ NoPrefs.until = 0
<1>1. 0 \in 0 .. MaxTime + TTL
  BY TimesOK
<1>2. QED
  BY <1>1, IdleIsIdle DEF NoCount, NoPrefs, CountEntry, PrefsEntry

\* Steps that leave everything but the handler alone.
LEMMA QuietKeeps ==
  ASSUME Inv, UNCHANGED <<setting, clock, db, countCache, prefsCache, ghosts>>,
         publisher' \in Brokers, work' \in [Handlers -> Work], Holding'
  PROVE  Inv'
<1>1. Onwards
  BY QuietOnwards DEF ghosts, Taken
<1>2. CountFits' /\ PrefsFit'
  BY <1>1, CountStays, PrefsStay
<1>3. TypeOK' /\ TrueNow' /\ WantedNow' /\ FlaggedIsQueued'
  BY DEF Inv, TypeOK, TrueNow, WantedNow, FlaggedIsQueued, Taken, Unread, db, ghosts
<1>4. QED
  BY <1>2, <1>3 DEF Inv

LEMMA StepKeepsInv == ASSUME Inv, UNCHANGED <<setting, publisher>>, NEW h \in Handlers, Step(h) PROVE Inv'
<1>1. CASE Writes(h)
  <2>1. /\ Onwards /\ TrueNow' /\ rows' \in [Ids -> States] /\ Others(h) /\ Holding'
        /\ UNCHANGED <<clock, flagged, prefs, countCache, prefsCache, jobs, unsent, chosen, wantedAt>>
    BY <1>1, WriterGoes
  <2>2. CountFits' /\ PrefsFit'
    BY <2>1, CountStays, PrefsStay
  <2>3. TypeOK'
    BY <2>1 DEF Inv, TypeOK, Onwards, Others, States
  <2>4. WantedNow' /\ FlaggedIsQueued'
    BY <2>1 DEF Inv, WantedNow, FlaggedIsQueued, Taken
  <2>5. QED
    BY <2>1, <2>2, <2>3, <2>4 DEF Inv
<1>2. CASE Forget(h)
  <2>1. /\ Onwards /\ Others(h) /\ Holding' /\ UNCHANGED <<clock, db, prefsCache, ghosts>>
        /\ countCache' = NoCount \/ countCache' = countCache
    BY <1>2, ForgetGoes DEF Forget
  <2>2. clock \in Times
    BY DEF Inv, TypeOK
  <2>3. CountFits'
    <3>1. CASE countCache' = NoCount
      BY <2>1, <2>2, <3>1, Emptied DEF CountFits, Cached, Times
    <3>2. CASE countCache' = countCache
      BY <2>1, <3>2, CountStays
    <3>3. QED
      BY <2>1, <3>1, <3>2
  <2>4. PrefsFit'
    BY <2>1, PrefsStay
  <2>5. TypeOK' /\ TrueNow' /\ WantedNow' /\ FlaggedIsQueued'
    BY <2>1, Emptied DEF Inv, TypeOK, TrueNow, WantedNow, FlaggedIsQueued, Taken, Unread, Others, db, ghosts
  <2>6. QED
    BY <2>1, <2>3, <2>4, <2>5 DEF Inv
<1>3. CASE \/ MissCount(h) \/ GetPreferences(h) \/ SelectCount(h) \/ AskPrefs(h) \/ LoadPrefs(h)
           \/ SeedFails(h) \/ Fail(h)
  <2>1. Others(h) /\ Holding'
    BY <1>3, LookupGoes, SelectCountGoes, AskGoes, LoadGoes, SeedFailsGoes, EndGoes
  <2>2. UNCHANGED <<clock, db, countCache, prefsCache, ghosts>>
    BY <1>3 DEF MissCount, GetPreferences, SelectCount, AskPrefs, LoadPrefs, SeedFails, Fail
  <2>3. QED
    BY <2>1, <2>2, QuietKeeps DEF Others, Inv, TypeOK
<1>4. CASE FillCount(h)
  <2>1. /\ Onwards /\ Others(h) /\ Holding' /\ UNCHANGED <<clock, db, prefsCache, ghosts>>
        /\ \/ countCache' = [count |-> work[h].count, until |-> clock + TTL]
           \/ countCache' = countCache
    BY <1>4, EndGoes DEF FillCount
  <2>2. /\ work[h] \in Work /\ work[h].step = "fillCount" /\ clock \in Times
        /\ Right(work[h], clock, trueAt, wantedAt, Taken)
    BY <1>4 DEF Inv, TypeOK, Holding, FillCount, At
  <2>3. /\ work[h].count \in Counts /\ work[h].at \in Int /\ clock \in Int
        /\ trueAt[work[h].count] \in Int /\ clock + TTL \in 0 .. MaxTime + TTL
    BY <2>2, TimesOK DEF Work, Times, Inv, TypeOK
  <2>4. clock + TTL <= trueAt[work[h].count] + TTL + MaxLag
    BY <2>2, <2>3, TimesOK DEF Right
  <2>5. countCache' \in CountEntry /\ CountFits'
    <3>1. CASE countCache' = countCache
      BY <2>1, <3>1, CountStays DEF Inv, TypeOK
    <3>2. CASE countCache' = [count |-> work[h].count, until |-> clock + TTL]
      <4>1. /\ countCache' \in CountEntry /\ countCache'.count = work[h].count
            /\ countCache'.until = clock + TTL
        BY <2>3, <3>2 DEF CountEntry
      <4>2. trueAt' = trueAt
        BY <2>1 DEF ghosts
      <4>3. QED
        BY <2>4, <4>1, <4>2 DEF CountFits
    <3>3. QED
      BY <2>1, <3>1, <3>2
  <2>6. PrefsFit'
    BY <2>1, PrefsStay
  <2>7. TypeOK' /\ TrueNow' /\ WantedNow' /\ FlaggedIsQueued'
    BY <2>1, <2>5 DEF Inv, TypeOK, TrueNow, WantedNow, FlaggedIsQueued, Taken, Unread, Others, db, ghosts
  <2>8. QED
    BY <2>1, <2>5, <2>6, <2>7 DEF Inv
<1>5. CASE FillPrefs(h)
  <2>1. /\ Onwards /\ Others(h) /\ Holding' /\ UNCHANGED <<clock, db, countCache, ghosts>>
        /\ work[h].wish \in {"on", "off"} /\ (work[h].wish = "on" => clock <= wantedAt + MaxLag)
        /\ \/ prefsCache' = [wish |-> work[h].wish, until |-> clock + TTL]
           \/ prefsCache' = prefsCache
    BY <1>5, FillPrefsGoes DEF FillPrefs
  <2>2. clock \in Int /\ wantedAt \in Int /\ clock + TTL \in 0 .. MaxTime + TTL
    BY TimesOK DEF Inv, TypeOK, Times
  <2>3. prefsCache' \in PrefsEntry /\ PrefsFit'
    <3>1. CASE prefsCache' = prefsCache
      BY <2>1, <3>1, PrefsStay DEF Inv, TypeOK
    <3>2. CASE prefsCache' = [wish |-> work[h].wish, until |-> clock + TTL]
      <4>1. /\ prefsCache' \in PrefsEntry /\ prefsCache'.wish = work[h].wish
            /\ prefsCache'.until = clock + TTL
        BY <2>1, <2>2, <3>2 DEF PrefsEntry
      <4>2. wantedAt' = wantedAt
        BY <2>1 DEF ghosts
      <4>3. QED
        BY <2>1, <2>2, <4>1, <4>2, TimesOK DEF PrefsFit
    <3>3. QED
      BY <2>1, <3>1, <3>2
  <2>4. CountFits'
    BY <2>1, CountStays
  <2>5. TypeOK' /\ TrueNow' /\ WantedNow' /\ FlaggedIsQueued'
    BY <2>1, <2>3 DEF Inv, TypeOK, TrueNow, WantedNow, FlaggedIsQueued, Taken, Unread, Others, db, ghosts
  <2>6. QED
    BY <2>1, <2>3, <2>4, <2>5 DEF Inv
<1>6. CASE SeedPrefs(h)
  <2>1. /\ Onwards /\ Others(h) /\ Holding' /\ prefs' = "on" /\ wantedAt' = clock
        /\ UNCHANGED <<clock, rows, flagged, countCache, prefsCache, jobs, unsent, chosen, trueAt>>
    BY <1>6, SeedGoes DEF SeedPrefs
  <2>2. CountFits' /\ PrefsFit'
    BY <2>1, CountStays, PrefsStay
  <2>3. TypeOK' /\ TrueNow' /\ FlaggedIsQueued'
    BY <2>1 DEF Inv, TypeOK, TrueNow, FlaggedIsQueued, Taken, Unread, Others, Onwards, Wishes
  <2>4. WantedNow'
    BY <2>1 DEF Inv, TypeOK, WantedNow, Times
  <2>5. QED
    BY <2>1, <2>2, <2>3, <2>4 DEF Inv
<1>7. ASSUME NEW wish \in {"on", "off"}, UpdatePreferences(h, wish) PROVE Inv'
  <2>1. /\ Onwards /\ Others(h) /\ Holding' /\ prefs' = wish /\ chosen' = wish
        /\ wantedAt' = IF wish = "on" THEN clock ELSE wantedAt
        /\ UNCHANGED <<clock, rows, flagged, countCache, prefsCache, jobs, unsent, trueAt>>
    BY <1>7, UpdateGoes DEF UpdatePreferences
  <2>2. CountFits' /\ PrefsFit'
    BY <2>1, CountStays, PrefsStay
  <2>3. TypeOK' /\ TrueNow' /\ FlaggedIsQueued'
    BY <2>1 DEF Inv, TypeOK, TrueNow, FlaggedIsQueued, Taken, Unread, Others, Onwards, Wishes
  <2>4. WantedNow'
    BY <2>1 DEF Inv, TypeOK, WantedNow, Times
  <2>5. QED
    BY <2>1, <2>2, <2>3, <2>4 DEF Inv
<1>8. CASE PublishJob(h) \/ DiscardJob(h)
  <2>1. /\ Onwards /\ Others(h) /\ Holding' /\ work[h].note \in Ids
        /\ jobs' \subseteq jobs \cup {work[h].note} /\ unsent' \subseteq unsent \cup {work[h].note}
        /\ UNCHANGED <<clock, db, countCache, prefsCache, chosen, trueAt, wantedAt>>
    BY <1>8, PublishGoes DEF PublishJob, DiscardJob
  <2>2. CountFits' /\ PrefsFit'
    BY <2>1, CountStays, PrefsStay
  <2>3. TypeOK'
    BY <2>1 DEF Inv, TypeOK, Onwards, Others, db
  <2>4. TrueNow' /\ WantedNow'
    BY <2>1 DEF Inv, TrueNow, WantedNow, Unread, db
  <2>5. FlaggedIsQueued'
    BY <2>1 DEF Inv, FlaggedIsQueued, Onwards, db
  <2>6. QED
    BY <2>1, <2>2, <2>3, <2>4, <2>5 DEF Inv
<1>9. CASE SetEmailQueued(h)
  <2>1. /\ Onwards /\ Others(h) /\ Holding'
        /\ UNCHANGED <<clock, rows, prefs, countCache, prefsCache, ghosts>>
        /\ flagged' \subseteq flagged \cup {work[h].note}
    BY <1>9, EndGoes DEF SetEmailQueued
  <2>2. work[h].note \in Taken
    BY <1>9 DEF SetEmailQueued, At, Inv, Holding, Right
  <2>3. CountFits' /\ PrefsFit'
    BY <2>1, CountStays, PrefsStay
  <2>4. TypeOK' /\ TrueNow' /\ WantedNow' /\ FlaggedIsQueued'
    BY <2>1, <2>2 DEF Inv, TypeOK, TrueNow, WantedNow, FlaggedIsQueued, Taken, Unread, Others, ghosts
  <2>5. QED
    BY <2>1, <2>3, <2>4 DEF Inv
<1>10. QED
  BY <1>1, <1>2, <1>3, <1>4, <1>5, <1>6, <1>7, <1>8, <1>9 DEF Step, Writes

\* A second passes: every handler is still within its lag, what is cached has a second
\* less to live, and what is true or wanted now is so a second longer.
LEMMA TickKeepsInv == ASSUME Inv, UNCHANGED <<setting, publisher>>, Tick PROVE Inv'
<1>1. /\ clock' = clock + 1 /\ clock < MaxTime /\ clock \in Times /\ clock \in Int
      /\ UNCHANGED <<rows, flagged, prefs, work, publisher, jobs, unsent, chosen>>
  BY DEF Tick, Inv, TypeOK, Times, db
<1>2. clock' \in Times /\ clock' \in Int
  BY <1>1, TimesOK DEF Times
<1>3. Unread \in Counts /\ Unread' = Unread /\ trueAt' = [trueAt EXCEPT ![Unread] = clock']
  BY <1>1, UnreadCounts DEF Tick, Unread
<1>4. /\ trueAt \in [Counts -> Times \cup {-1}] /\ trueAt' \in [Counts -> Times \cup {-1}]
      /\ trueAt'[Unread] = clock' /\ \A c \in Counts \ {Unread} : trueAt'[c] = trueAt[c]
      /\ \A c \in Counts : trueAt[c] \in Int /\ trueAt'[c] \in Int
  BY <1>2, <1>3 DEF Inv, TypeOK, Times
<1>5. \A c \in Counts : trueAt[c] <= clock
  BY DEF Inv, TrueNow
<1>6. \A c \in Counts : trueAt[c] <= trueAt'[c] /\ trueAt'[c] <= clock'
  BY <1>1, <1>4, <1>5
<1>7. TrueNow'
  BY <1>3, <1>4, <1>6 DEF TrueNow
<1>8. /\ wantedAt \in Times /\ wantedAt \in Int /\ wantedAt <= clock
      /\ wantedAt' = IF prefs = "off" THEN wantedAt ELSE clock'
  BY <1>1 DEF Tick, Inv, TypeOK, WantedNow, Times
<1>9. wantedAt' \in Times /\ wantedAt' \in Int /\ wantedAt <= wantedAt' /\ WantedNow'
  BY <1>1, <1>2, <1>8 DEF WantedNow
<1>10. ASSUME NEW h \in Handlers PROVE Right(work'[h], clock', trueAt', wantedAt', Taken')
  <2>1. work[h] \in Work /\ Right(work[h], clock, trueAt, wantedAt, Taken)
    BY DEF Inv, TypeOK, Holding
  <2>2. work[h].at \in Int /\ work[h].count \in Counts
    BY <2>1 DEF Work, Times
  <2>3. work[h].step # "idle" => clock < work[h].at + MaxLag
    BY DEF Tick, Busy, At
  <2>4. work[h].step # "idle" => work[h].at <= clock' /\ clock' <= work[h].at + MaxLag
    BY <1>1, <2>1, <2>2, <2>3, TimesOK DEF Right
  <2>5. /\ trueAt[work[h].count] <= trueAt'[work[h].count]
        /\ trueAt[work[h].count] \in Int /\ trueAt'[work[h].count] \in Int
    BY <1>4, <1>6, <2>2
  <2>6. QED
    BY <1>1, <1>8, <1>9, <2>1, <2>2, <2>4, <2>5, TimesOK DEF Right, Taken
<1>11. Holding'
  BY <1>10 DEF Holding
<1>12. countCache' \in CountEntry /\ CountFits'
  <2>1. CASE clock' < countCache.until
    <3>1. countCache' = countCache
      BY <1>1, <2>1 DEF Tick
    <3>2. clock < countCache.until /\ countCache \in CountEntry /\ countCache.until \in Int
      BY <1>1, <2>1, TimesOK DEF Inv, TypeOK, CountEntry
    <3>3. countCache.until <= trueAt[countCache.count] + TTL + MaxLag /\ countCache.count \in Counts
      BY <3>2 DEF Inv, CountFits, Cached, CountEntry
    <3>4. countCache.until <= trueAt'[countCache.count] + TTL + MaxLag
      BY <1>4, <1>6, <3>2, <3>3, TimesOK
    <3>5. QED
      BY <3>1, <3>2, <3>4 DEF CountFits
  <2>2. CASE ~(clock' < countCache.until)
    <3>1. countCache' = NoCount
      BY <1>1, <2>2 DEF Tick
    <3>2. QED
      BY <1>2, <3>1, Emptied DEF CountFits, Cached, Times
  <2>3. QED
    BY <2>1, <2>2
<1>13. prefsCache' \in PrefsEntry /\ PrefsFit'
  <2>1. CASE clock' < prefsCache.until
    <3>1. prefsCache' = prefsCache
      BY <1>1, <2>1 DEF Tick
    <3>2. clock < prefsCache.until /\ prefsCache \in PrefsEntry /\ prefsCache.until \in Int
      BY <1>1, <2>1, TimesOK DEF Inv, TypeOK, PrefsEntry
    <3>3. prefsCache.wish = "on" => prefsCache.until <= wantedAt + TTL + MaxLag
      BY <3>2 DEF Inv, PrefsFit, Cached
    <3>4. prefsCache.wish = "on" => prefsCache.until <= wantedAt' + TTL + MaxLag
      BY <1>8, <1>9, <3>2, <3>3, TimesOK
    <3>5. QED
      BY <3>1, <3>2, <3>4 DEF PrefsFit
  <2>2. CASE ~(clock' < prefsCache.until)
    <3>1. prefsCache' = NoPrefs
      BY <1>1, <2>2 DEF Tick
    <3>2. QED
      BY <1>2, <3>1, Emptied DEF PrefsFit, Cached, Times
  <2>3. QED
    BY <2>1, <2>2
<1>14. TypeOK' /\ FlaggedIsQueued'
  BY <1>1, <1>2, <1>4, <1>9, <1>12, <1>13 DEF Inv, TypeOK, FlaggedIsQueued, Taken
<1>15. QED
  BY <1>7, <1>9, <1>11, <1>12, <1>13, <1>14 DEF Inv

LEMMA CrashKeepsInv == ASSUME Inv, UNCHANGED setting, Crash PROVE Inv'
<1>1. /\ work' \in [Handlers -> Work] /\ \A h \in Handlers : work'[h] = Idle
      /\ publisher' \in Brokers
  BY IdleIsIdle DEF Crash, Found, Brokers
<1>2. Holding'
  BY <1>1, IdleIsIdle DEF Holding, Right
<1>3. QED
  BY <1>1, <1>2, QuietKeeps DEF Crash

LEMMA InvStep == Inv /\ [Next]_vars => Inv'
<1> SUFFICES ASSUME Inv, [Next]_vars PROVE Inv'
  OBVIOUS
<1>1. CASE UNCHANGED vars
  BY <1>1, QuietKeeps DEF vars, db, ghosts, Inv, TypeOK, Holding, Taken
<1>2. CASE Next
  BY <1>2, StepKeepsInv, TickKeepsInv, CrashKeepsInv DEF Next
<1>3. QED
  BY <1>1, <1>2

LEMMA InvInit == Init => Inv
<1> SUFFICES ASSUME Init PROVE Inv
  OBVIOUS
<1>1. \A n \in Ids : rows[n] = "none"
  BY DEF Init
<1>2. Unread = 0
  BY <1>1, NoneUnread DEF Unread
<1>3. \A c \in Counts : c \in Int
  BY IdsOK, FS_CardinalityType DEF Counts
<1>4. TypeOK
  BY <1>3, IdleIsIdle, Emptied DEF Init, TypeOK, Wishes, Found, Brokers
<1>5. Holding
  BY IdleIsIdle DEF Init, Holding, Right
<1>6. CountFits /\ PrefsFit
  BY Emptied DEF Init, CountFits, PrefsFit, Cached
<1>7. TrueNow /\ WantedNow /\ FlaggedIsQueued
  BY <1>2, <1>3, IdleIsIdle DEF Init, TrueNow, WantedNow, FlaggedIsQueued, Taken
<1>8. QED
  BY <1>4, <1>5, <1>6, <1>7 DEF Inv

LEMMA InvAlways == Spec => []Inv
BY InvInit, InvStep, PTL DEF Spec

\* Every variable of one user's inbox keeps its type.
THEOREM TypeCorrect == Spec => []TypeOK
<1>1. Inv => TypeOK
  BY DEF Inv
<1>2. QED
  BY <1>1, InvAlways, PTL

\* However reads race with writes, whatever fails and whenever the service restarts, the
\* counter a reader is given from Redis was the true one less than a lifetime and a lag ago.
THEOREM CountStaysRecent == Spec => []CountIsRecent
<1>1. Inv => CountIsRecent
  <2> SUFFICES ASSUME Inv, Cached(countCache)
               PROVE  clock - trueAt[countCache.count] < TTL + MaxLag
    BY DEF CountIsRecent
  <2>1. /\ clock \in Int /\ countCache.count \in Counts /\ countCache.until \in Int
        /\ trueAt[countCache.count] \in Int
    BY TimesOK DEF Inv, TypeOK, CountEntry, Times
  <2>2. clock < countCache.until /\ countCache.until <= trueAt[countCache.count] + TTL + MaxLag
    BY DEF Inv, CountFits, Cached
  <2>3. QED
    BY <2>1, <2>2, TimesOK
<1>2. QED
  BY <1>1, InvAlways, PTL

\* A row is flagged sent_email only after its mail job was handed to NATS, or taken by the
\* publisher of a process that runs without, whatever ends the creation in between: no
\* failure to publish leaves a flag.
THEOREM FlaggedOnlyIfQueued == Spec => []FlaggedIsQueued
<1>1. Inv => FlaggedIsQueued
  BY DEF Inv
<1>2. QED
  BY <1>1, InvAlways, PTL

\* Only PublishJob publishes.
LEMMA OnlyPublishJobPublishes ==
  ASSUME [Next]_vars, jobs' # jobs PROVE \E h \in Handlers : PublishJob(h)
<1>1. ASSUME NEW h \in Handlers, Step(h), ~PublishJob(h) PROVE jobs' = jobs
  BY <1>1 DEF Step, CreateNotification, MarkRead, Delete, MarkAllRead, Forget, MissCount, SelectCount,
              FillCount, GetPreferences, AskPrefs, LoadPrefs, SeedPrefs, SeedFails,
              UpdatePreferences, FillPrefs, DiscardJob, SetEmailQueued, Fail, ghosts
<1>2. QED
  BY <1>1 DEF Next, Crash, Tick, vars, ghosts

\* A mail is queued only within a lifetime and two lags of an instant at which the user's
\* preferences allowed mail: switching it off works at last, whatever the cache holds.
THEOREM MailStaysWanted == Spec => MailWasWanted
<1>1. ASSUME Inv, [Next]_vars
      PROVE  [jobs' # jobs => clock - wantedAt < TTL + 2 * MaxLag]_jobs
  <2> SUFFICES ASSUME jobs' # jobs PROVE clock - wantedAt < TTL + 2 * MaxLag
    OBVIOUS
  <2>1. PICK h \in Handlers : PublishJob(h)
    BY <1>1, OnlyPublishJobPublishes
  <2>2. Right(work[h], clock, trueAt, wantedAt, Taken) /\ work[h].step = "mail" /\ work[h] \in Work
    BY <1>1, <2>1 DEF Inv, TypeOK, Holding, PublishJob, At
  <2>3. clock \in Int /\ wantedAt \in Int /\ work[h].at \in Int
    BY <1>1, <2>2 DEF Inv, TypeOK, Work, Times
  <2>4. clock <= work[h].at + MaxLag /\ work[h].at < wantedAt + TTL + MaxLag
    BY <2>2 DEF Right
  <2>5. QED
    BY <2>3, <2>4, TimesOK
<1>2. QED
  BY <1>1, InvAlways, PTL DEF Spec, MailWasWanted

-----------------------------------------------------------------------------
\* The user's requests one at a time, and nothing fails.

Alone == \A g, h \in Handlers : Busy(g) /\ Busy(h) => g = h

\* A count that was read is still the true one when it is stored, and so is one that is
\* stored already, unless the request that changed the rows is about to delete it.
CountKnown == \A h \in Handlers : At(h, "fillCount") => work[h].count = Unread
CountTrue == Cached(countCache) => countCache.count = Unread \/ \E h \in Handlers : At(h, "forget")

\* Whoever is about to store defaults has found no row, and there is none.
NoRowYet == \A h \in Handlers : At(h, "seed") => prefs = "none"

Settled == Alone /\ CountKnown /\ CountTrue /\ NoRowYet /\ (chosen # "none" => prefs = chosen)

\* While one handler takes a step, no other has a request.
LEMMA StepsAlone ==
  ASSUME Calm, Settled, NEW h \in Handlers, Step(h)
  PROVE  \A g \in Handlers \ {h} : ~Busy(g)
<1>1. Free(h) \/ Busy(h)
  BY DEF Step, CreateNotification, MarkRead, Delete, MarkAllRead, Forget, MissCount, SelectCount,
         FillCount, GetPreferences, AskPrefs, LoadPrefs, SeedPrefs, SeedFails,
         UpdatePreferences, FillPrefs, PublishJob, DiscardJob, SetEmailQueued, Fail, Busy, At
<1>2. CASE Free(h)
  BY <1>2 DEF Free, Calm
<1>3. CASE Busy(h)
  BY <1>3 DEF Settled, Alone
<1>4. QED
  BY <1>1, <1>2, <1>3

\* Nor does any other get one, so of the handlers only that one has to be looked at.
LEMMA Looked ==
  ASSUME NEW h \in Handlers, \A g \in Handlers \ {h} : ~Busy(g), Others(h),
         work'[h].step = "fillCount" => work'[h].count = Unread',
         work'[h].step = "seed" => prefs' = "none"
  PROVE  Alone' /\ CountKnown' /\ NoRowYet'
<1>1. \A g \in Handlers \ {h} : work'[g].step = "idle"
  BY DEF Busy, At, Others
<1>2. QED
  BY <1>1 DEF Alone, CountKnown, NoRowYet, Busy, At

\* A step of a handler with no counter to delete, that touches neither the rows, the
\* counter nor the preferences.
LEMMA LeftAlone ==
  ASSUME Inv, Settled, NEW h \in Handlers, \A g \in Handlers \ {h} : ~Busy(g), Others(h),
         work[h].step # "forget", UNCHANGED <<clock, rows, countCache, prefs, chosen>>,
         work'[h].step = "fillCount" => work'[h].count = Unread,
         work'[h].step = "seed" => prefs = "none"
  PROVE  Settled'
<1>1. Unread' = Unread
  BY DEF Unread
<1>2. Alone' /\ CountKnown' /\ NoRowYet'
  BY <1>1, Looked
<1>3. \A g \in Handlers : ~At(g, "forget")
  BY DEF Busy, At
<1>4. CountTrue'
  BY <1>1, <1>3 DEF Settled, CountTrue, Cached
<1>5. QED
  BY <1>2, <1>4 DEF Settled

LEMMA StepKeepsSettled ==
  ASSUME Inv, Calm, Settled, UNCHANGED setting, NEW h \in Handlers, Step(h)
  PROVE  Settled'
<1>1. (\A g \in Handlers \ {h} : ~Busy(g)) /\ setting.faults = {}
  BY StepsAlone DEF Calm
<1>2. CASE Writes(h)
  <2>1. /\ Others(h) /\ work'[h].step = "forget" /\ UNCHANGED <<prefs, chosen>>
    BY <1>2, WriterGoes
  <2>2. Alone' /\ CountKnown' /\ NoRowYet'
    BY <1>1, <2>1, Looked
  <2>3. CountTrue'
    BY <2>1 DEF CountTrue, At
  <2>4. QED
    BY <2>1, <2>2, <2>3 DEF Settled
<1>3. CASE Forget(h)
  <2>1. /\ Others(h) /\ work'[h].step \in {"idle", "ask"}
        /\ countCache' = NoCount /\ UNCHANGED <<clock, prefs, chosen>>
    BY <1>1, <1>3, ForgetGoes DEF Forget, db, ghosts
  <2>2. Alone' /\ CountKnown' /\ NoRowYet'
    BY <1>1, <2>1, Looked
  <2>3. clock \in Nat
    BY DEF Inv, TypeOK, Times
  <2>4. CountTrue'
    BY <2>1, <2>3, Emptied DEF CountTrue, Cached
  <2>5. QED
    BY <2>1, <2>2, <2>4 DEF Settled
<1>4. CASE MissCount(h) \/ GetPreferences(h)
  <2>1. Others(h) /\ Free(h) /\ work'[h].step \in {"count", "ask"}
    BY <1>4, LookupGoes
  <2>2. UNCHANGED <<clock, rows, countCache, prefs, chosen>> /\ work[h].step # "forget"
    BY <1>4, <2>1 DEF MissCount, GetPreferences, Free, Busy, At, db, ghosts
  <2>3. QED
    BY <1>1, <2>1, <2>2, LeftAlone
<1>5. CASE SelectCount(h)
  <2>1. Others(h) /\ work'[h].step = "fillCount" /\ work'[h].count = Unread
    BY <1>5, SelectCountGoes
  <2>2. UNCHANGED <<clock, rows, countCache, prefs, chosen>> /\ work[h].step # "forget"
    BY <1>5 DEF SelectCount, At, db, ghosts
  <2>3. QED
    BY <1>1, <2>1, <2>2, LeftAlone
<1>6. CASE AskPrefs(h)
  <2>1. Others(h) /\ work'[h].step \in {"idle", "mail", "load"}
    BY <1>6, AskGoes
  <2>2. UNCHANGED <<clock, rows, countCache, prefs, chosen>> /\ work[h].step # "forget"
    BY <1>6 DEF AskPrefs, At, db, ghosts
  <2>3. QED
    BY <1>1, <2>1, <2>2, LeftAlone
<1>7. CASE LoadPrefs(h)
  <2>1. Others(h) /\ work'[h].step \in {"seed", "fillPrefs"} /\ (work'[h].step = "seed" => prefs = "none")
    BY <1>7, LoadGoes
  <2>2. UNCHANGED <<clock, rows, countCache, prefs, chosen>> /\ work[h].step # "forget"
    BY <1>7 DEF LoadPrefs, At, db, ghosts
  <2>3. QED
    BY <1>1, <2>1, <2>2, LeftAlone
<1>8. CASE FillPrefs(h) \/ PublishJob(h) \/ DiscardJob(h) \/ SetEmailQueued(h) \/ Fail(h)
  <2>1. Others(h) /\ work'[h].step \in {"idle", "mail", "flag"}
    BY <1>8, FillPrefsGoes, PublishGoes, EndGoes
  <2>2. UNCHANGED <<clock, rows, countCache, prefs, chosen>> /\ work[h].step # "forget"
    BY <1>1, <1>8 DEF FillPrefs, PublishJob, DiscardJob, SetEmailQueued, Fail, At, db, ghosts
  <2>3. QED
    BY <1>1, <2>1, <2>2, LeftAlone
<1>9. CASE FillCount(h)
  <2>1. Others(h) /\ work'[h].step = "idle"
    BY <1>9, EndGoes
  <2>2. /\ countCache'.count = work[h].count /\ work[h].step = "fillCount"
        /\ UNCHANGED <<rows, prefs, chosen>>
    BY <1>1, <1>9 DEF FillCount, At, db, ghosts
  <2>3. Alone' /\ CountKnown' /\ NoRowYet'
    BY <1>1, <2>1, Looked
  <2>4. countCache'.count = Unread'
    BY <2>2 DEF Settled, CountKnown, At, Unread
  <2>5. QED
    BY <2>2, <2>3, <2>4 DEF Settled, CountTrue
<1>10. CASE SeedPrefs(h) \/ \E wish \in {"on", "off"} : UpdatePreferences(h, wish)
  <2>1. Others(h) /\ work'[h].step = "fillPrefs"
    BY <1>10, SeedGoes, UpdateGoes
  <2>2. UNCHANGED <<clock, rows, countCache>> /\ work[h].step # "forget"
    BY <1>10 DEF SeedPrefs, UpdatePreferences, Free, Busy, At
  <2>3. Alone' /\ CountKnown' /\ NoRowYet'
    BY <1>1, <2>1, Looked DEF At
  <2>4. CountTrue'
    BY <1>1, <2>2 DEF Settled, CountTrue, Cached, Unread, Busy, At
  <2>5. chosen' # "none" => prefs' = chosen'
    BY <1>10 DEF SeedPrefs, UpdatePreferences, Settled, NoRowYet
  <2>6. QED
    BY <2>3, <2>4, <2>5 DEF Settled
<1>11. ~SeedFails(h)
  BY <1>1 DEF SeedFails
<1>12. QED
  BY <1>2, <1>3, <1>4, <1>5, <1>6, <1>7, <1>8, <1>9, <1>10, <1>11 DEF Step, Writes

\* Time takes values away and puts none.
LEMMA TickKeepsSettled == ASSUME Inv, Settled, Tick PROVE Settled'
<1>1. UNCHANGED <<rows, prefs, work, chosen>> /\ clock' = clock + 1 /\ clock \in Nat
  BY DEF Tick, db, Inv, TypeOK, Times
<1>2. Cached(countCache)' => Cached(countCache) /\ countCache' = countCache
  <2>1. countCache.until \in Int
    BY TimesOK DEF Inv, TypeOK, CountEntry
  <2>2. QED
    BY <1>1, <2>1, Emptied DEF Tick, Cached
<1>3. CountTrue'
  BY <1>1, <1>2 DEF Settled, CountTrue, Unread, At
<1>4. QED
  BY <1>1, <1>3 DEF Settled, Alone, CountKnown, NoRowYet, Unread, Busy, At

LEMMA SettledStep == Inv /\ (Calm => Settled) /\ [Next]_vars => (Calm => Settled)'
<1> SUFFICES ASSUME Inv, Calm => Settled, [Next]_vars, Calm' PROVE Settled'
  OBVIOUS
<1>1. UNCHANGED setting /\ Calm
  BY DEF Next, vars, Calm
<1>2. CASE UNCHANGED vars
  BY <1>1, <1>2 DEF vars, Settled, Alone, CountKnown, CountTrue, NoRowYet, Cached, Unread, Busy, At
<1>3. CASE Next
  <2>1. ~Crash
    BY <1>1 DEF Crash, Calm
  <2>2. QED
    BY <1>1, <1>3, <2>1, StepKeepsSettled, TickKeepsSettled DEF Next
<1>4. QED
  BY <1>2, <1>3

LEMMA SettledInit == Init => Settled
BY IdleIsIdle, Emptied DEF Init, Settled, Alone, CountKnown, CountTrue, NoRowYet, Cached, Busy, At

LEMMA SettledAlways == Spec => [](Calm => Settled)
<1>1. Init => (Calm => Settled)
  BY SettledInit
<1>2. QED
  BY <1>1, SettledStep, InvAlways, PTL DEF Spec

\* With one request of the user at a time and nothing failing, the counter in Redis is
\* the number of unread rows whenever no request is under way.
THEOREM CountTellsTheTruth == Spec => []CountSettles
<1>1. (Calm => Settled) => CountSettles
  BY DEF Settled, CountTrue, CountSettles, Busy, At
<1>2. QED
  BY <1>1, SettledAlways, PTL

\* Then, too, the preferences a user saved are the ones in the table until they save others.
THEOREM ChoiceIsKept == Spec => []ChoiceStays
<1>1. (Calm => Settled) => ChoiceStays
  BY DEF Settled, ChoiceStays
<1>2. QED
  BY <1>1, SettledAlways, PTL

-----------------------------------------------------------------------------
\* The hub.

-----------------------------------------------------------------------------
\* Why no publisher meets a closed channel: a channel in the hub is open, a
\* publisher's list is taken from the hub, and no channel is closed as long as a
\* publisher has one.

SubscribedAreOpen == \A u \in Users : subs[u] \cap closed = {}
ClosedAreGone == \A s \in closed : phase[s] = "gone"
RestingHasNone == \A p \in Publishers : ~Publishing(p) => pub[p].left = {}

\* Why streams see publications in order: what is still being handed out comes
\* before nothing, so it may go to the end of every channel.

InFlightIsLast == \A p \in Publishers : \A n \in Notes : <<pub[p].note, n>> \notin before
BeforeIsBegun == before \subseteq begun \X begun
InFlightIsBegun == \A p \in Publishers : Publishing(p) => pub[p].note \in begun
ReceivedIsBegun == \A s \in Streams : \A i \in 1 .. Len(Received(s)) : Received(s)[i] \in begun

HubInv == /\ HubTypeOK
          /\ NeverSendsOnClosed /\ SubscribedAreOpen /\ ClosedAreGone /\ RestingHasNone
          /\ InOrder /\ InFlightIsLast /\ BeforeIsBegun /\ InFlightIsBegun /\ ReceivedIsBegun

USE CapacityOK, NoNoteOK

-----------------------------------------------------------------------------

\* Receiving from a channel moves its first note to the end of what was sent.
LEMMA MovedToSent ==
  ASSUME NEW S, NEW sentSeq \in Seq(S), NEW held \in Seq(S), held # <<>>
  PROVE  /\ Append(sentSeq, Head(held)) \in Seq(S) /\ Tail(held) \in Seq(S)
         /\ Len(Tail(held)) < Len(held)
         /\ Append(sentSeq, Head(held)) \o Tail(held) = sentSeq \o held
<1>1. Head(held) \in S /\ Tail(held) \in Seq(S) /\ Len(Tail(held)) = Len(held) - 1
  BY HeadTailProperties
<1>2. Append(sentSeq, Head(held)) = sentSeq \o <<Head(held)>>
  BY <1>1, AppendIsConcat
<1>3. <<Head(held)>> \o Tail(held) = held
  BY <1>1, HeadTailProperties, ConcatProperties
<1>4. <<Head(held)>> \in Seq(S)
  BY <1>1
<1>5. (sentSeq \o <<Head(held)>>) \o Tail(held) = sentSeq \o (<<Head(held)>> \o Tail(held))
  BY <1>1, <1>4, ConcatAssociative
<1>6. Len(held) \in Nat
  BY LenProperties
<1>7. QED
  BY <1>1, <1>2, <1>3, <1>5, <1>6, AppendProperties

\* A channel takes a note at its end, and so does what was received.
LEMMA AddedAtTheEnd ==
  ASSUME NEW S, NEW sentSeq \in Seq(S), NEW held \in Seq(S), NEW n \in S
  PROVE  /\ Append(held, n) \in Seq(S) /\ Len(Append(held, n)) = Len(held) + 1
         /\ sentSeq \o Append(held, n) = Append(sentSeq \o held, n)
<1>1. /\ Append(held, n) \in Seq(S) /\ Len(Append(held, n)) = Len(held) + 1
      /\ Append(held, n) = held \o <<n>>
  BY AppendProperties, AppendIsConcat
<1>2. sentSeq \o held \in Seq(S)
  BY ConcatProperties
<1>3. <<n>> \in Seq(S)
  OBVIOUS
<1>4. sentSeq \o (held \o <<n>>) = (sentSeq \o held) \o <<n>>
  BY <1>3, ConcatAssociative
<1>5. Append(sentSeq \o held, n) = (sentSeq \o held) \o <<n>>
  BY <1>2, AppendIsConcat
<1>6. QED
  BY <1>1, <1>2, <1>4, <1>5

\* What a stream has received is a sequence of notes.
LEMMA ReceivedAreNotes ==
  ASSUME HubTypeOK, NEW s \in Streams
  PROVE  Received(s) \in Seq(Notes)
<1>1. sent[s] \in Seq(Notes) /\ buffer[s] \in Seq(Notes)
  BY DEF HubTypeOK
<1>2. QED
  BY <1>1, ConcatProperties DEF Received

-----------------------------------------------------------------------------

LEMMA HubInvInit == HubInit => HubInv
<1> SUFFICES ASSUME HubInit PROVE HubInv
  OBVIOUS
<1>1. HubTypeOK
  BY DEF HubInit, HubTypeOK, Resting
<1>2. ASSUME NEW s \in Streams PROVE Received(s) = <<>>
  BY DEF HubInit, Received
<1>3. NeverSendsOnClosed /\ SubscribedAreOpen /\ ClosedAreGone /\ RestingHasNone
  BY DEF HubInit, NeverSendsOnClosed, SubscribedAreOpen, ClosedAreGone, RestingHasNone, Publishing, Resting
<1>4. InOrder /\ ReceivedIsBegun
  BY <1>2 DEF HubInit, InOrder, ReceivedIsBegun
<1>5. InFlightIsLast /\ BeforeIsBegun /\ InFlightIsBegun
  BY DEF HubInit, InFlightIsLast, BeforeIsBegun, InFlightIsBegun, Publishing, Resting
<1>6. QED
  BY <1>1, <1>3, <1>4, <1>5 DEF HubInv

\* What stays true of the order when nothing is handed over and nothing begun.
LEMMA OrderKept ==
  ASSUME HubInv, UNCHANGED <<pub, begun, before>>,
         \A s \in Streams : Received(s)' = Received(s)
  PROVE  InOrder' /\ InFlightIsLast' /\ BeforeIsBegun' /\ InFlightIsBegun' /\ ReceivedIsBegun'
<1>1. InOrder'
  BY DEF HubInv, InOrder
<1>2. ReceivedIsBegun'
  BY DEF HubInv, ReceivedIsBegun
<1>3. InFlightIsLast' /\ BeforeIsBegun' /\ InFlightIsBegun'
  BY DEF HubInv, InFlightIsLast, BeforeIsBegun, InFlightIsBegun, Publishing
<1>4. QED
  BY <1>1, <1>2, <1>3

LEMMA SubscribeKeeps ==
  ASSUME HubInv, NEW s \in Streams, NEW u \in Users, Subscribe(s, u) PROVE HubInv'
<1>1. HubTypeOK'
  BY DEF HubInv, HubTypeOK, Subscribe
<1>2. s \notin closed
  BY DEF HubInv, ClosedAreGone, Subscribe
<1>3. NeverSendsOnClosed' /\ RestingHasNone'
  BY DEF HubInv, NeverSendsOnClosed, RestingHasNone, Publishing, Subscribe
<1>4. SubscribedAreOpen'
  BY <1>2 DEF HubInv, HubTypeOK, SubscribedAreOpen, Subscribe
<1>5. ClosedAreGone'
  BY <1>2 DEF HubInv, HubTypeOK, ClosedAreGone, Subscribe
<1>6. \A t \in Streams : Received(t)' = Received(t)
  BY DEF Received, Subscribe
<1>7. UNCHANGED <<pub, begun, before>>
  BY DEF Subscribe
<1>8. QED
  BY <1>1, <1>3, <1>4, <1>5, <1>6, <1>7, OrderKept DEF HubInv

LEMMA SendKeeps ==
  ASSUME HubInv, NEW s \in Streams, Send(s) PROVE HubInv'
<1>1. sent[s] \in Seq(Notes) /\ buffer[s] \in Seq(Notes) /\ buffer[s] # <<>>
  BY DEF HubInv, HubTypeOK, Send
<1>2. /\ sent'[s] \in Seq(Notes) /\ buffer'[s] \in Seq(Notes)
      /\ Len(buffer'[s]) < Len(buffer[s])
      /\ sent'[s] \o buffer'[s] = sent[s] \o buffer[s]
  <2>1. sent'[s] = Append(sent[s], Head(buffer[s])) /\ buffer'[s] = Tail(buffer[s])
    BY DEF HubInv, HubTypeOK, Send
  <2>2. /\ Append(sent[s], Head(buffer[s])) \in Seq(Notes) /\ Tail(buffer[s]) \in Seq(Notes)
        /\ Len(Tail(buffer[s])) < Len(buffer[s])
        /\ Append(sent[s], Head(buffer[s])) \o Tail(buffer[s]) = sent[s] \o buffer[s]
    BY <1>1, MovedToSent
  <2>3. QED
    BY <2>1, <2>2, Zenon
<1>3. \A t \in Streams \ {s} : sent'[t] = sent[t] /\ buffer'[t] = buffer[t]
  BY DEF HubInv, HubTypeOK, Send
<1>4. HubTypeOK'
  <2>1. sent' \in [Streams -> Seq(Notes)] /\ buffer' \in [Streams -> Seq(Notes)]
    BY <1>1, <1>2 DEF HubInv, HubTypeOK, Send
  <2>2. ASSUME NEW t \in Streams PROVE Len(buffer'[t]) <= Capacity
    <3>1. Len(buffer[t]) <= Capacity /\ Len(buffer[t]) \in Nat
      BY LenProperties DEF HubInv, HubTypeOK
    <3>2. Len(buffer'[t]) \in Nat
      BY <2>1, LenProperties
    <3>3. QED
      BY <1>2, <1>3, <3>1, <3>2
  <2>3. QED
    BY <2>1, <2>2 DEF HubInv, HubTypeOK, Send
<1>5. NeverSendsOnClosed' /\ RestingHasNone' /\ SubscribedAreOpen' /\ ClosedAreGone'
  BY DEF HubInv, NeverSendsOnClosed, RestingHasNone, SubscribedAreOpen, ClosedAreGone, Publishing, Send
<1>6. \A t \in Streams : Received(t)' = Received(t)
  BY <1>2, <1>3 DEF Received
<1>7. UNCHANGED <<pub, begun, before>>
  BY DEF Send
<1>8. QED
  BY <1>4, <1>5, <1>6, <1>7, OrderKept DEF HubInv

LEMMA LeaveKeeps ==
  ASSUME HubInv, NEW s \in Streams, Leave(s) PROVE HubInv'
<1>1. HubTypeOK'
  BY DEF HubInv, HubTypeOK, Leave
<1>2. NeverSendsOnClosed' /\ RestingHasNone' /\ SubscribedAreOpen'
  BY DEF HubInv, NeverSendsOnClosed, RestingHasNone, SubscribedAreOpen, Publishing, Leave
<1>3. ClosedAreGone'
  BY DEF HubInv, HubTypeOK, ClosedAreGone, Leave
<1>4. \A t \in Streams : Received(t)' = Received(t)
  BY DEF Received, Leave
<1>5. UNCHANGED <<pub, begun, before>>
  BY DEF Leave
<1>6. QED
  BY <1>1, <1>2, <1>3, <1>4, <1>5, OrderKept DEF HubInv

LEMMA UnsubscribeKeeps ==
  ASSUME HubInv, NEW s \in Streams, Unsubscribe(s) PROVE HubInv'
<1>1. HubTypeOK'
  BY DEF HubInv, HubTypeOK, Unsubscribe
<1>2. \A p \in Publishers : pub'[p].left = {}
  BY DEF HubInv, RestingHasNone, Quiet, Unsubscribe
<1>3. NeverSendsOnClosed' /\ RestingHasNone'
  BY <1>2 DEF NeverSendsOnClosed, RestingHasNone
<1>4. SubscribedAreOpen'
  BY DEF HubInv, SubscribedAreOpen, Unsubscribe
<1>5. ClosedAreGone'
  BY DEF HubInv, HubTypeOK, ClosedAreGone, Unsubscribe
<1>6. \A t \in Streams : Received(t)' = Received(t)
  BY DEF Received, Unsubscribe
<1>7. UNCHANGED <<pub, begun, before>>
  BY DEF Unsubscribe
<1>8. QED
  BY <1>1, <1>3, <1>4, <1>5, <1>6, <1>7, OrderKept DEF HubInv

LEMMA PublishKeeps ==
  ASSUME HubInv, NEW p \in Publishers, NEW u \in Users, NEW n \in Notes, Publish(p, u, n)
  PROVE  HubInv'
<1> DEFINE new == [note |-> n, left |-> subs[u]]
<1>1. /\ pub'[p] = new
      /\ \A q \in Publishers \ {p} : pub'[q] = pub[q]
      /\ subs[u] \subseteq Streams
  BY DEF HubInv, HubTypeOK, Publish
<1>2. begun' = begun \cup {n} /\ n \notin begun /\ begun \subseteq Notes
  BY DEF HubInv, HubTypeOK, Publish
<1>3. before' = before \cup {<<m, n>> : m \in begun \ {pub[q].note : q \in Publishers}}
  BY DEF Publish
<1>4. HubTypeOK'
  <2>1. new \in [note : Notes \cup {NoNote}, left : SUBSET Streams]
    BY <1>1
  <2>2. pub' \in [Publishers -> [note : Notes \cup {NoNote}, left : SUBSET Streams]]
    BY <2>1 DEF HubInv, HubTypeOK, Publish
  <2>3. due' \in [Streams -> SUBSET Notes]
    BY DEF HubInv, HubTypeOK, Publish
  <2>4. begun' \subseteq Notes /\ before' \subseteq Notes \X Notes
    BY <1>2, <1>3 DEF HubInv, HubTypeOK
  <2>5. QED
    BY <2>2, <2>3, <2>4 DEF HubInv, HubTypeOK, Publish
<1>5. NeverSendsOnClosed'
  <2>1. closed' = closed
    BY DEF Publish
  <2>2. QED
    BY <1>1, <2>1 DEF HubInv, NeverSendsOnClosed, SubscribedAreOpen
<1>6. SubscribedAreOpen' /\ ClosedAreGone'
  BY DEF HubInv, SubscribedAreOpen, ClosedAreGone, Publish
<1>7. RestingHasNone'
  BY <1>1, n # NoNote DEF HubInv, RestingHasNone, Publishing
<1>8. InFlightIsBegun' /\ BeforeIsBegun'
  BY <1>1, <1>2, <1>3 DEF HubInv, InFlightIsBegun, BeforeIsBegun, Publishing
<1>9. \A s \in Streams : Received(s)' = Received(s)
  BY DEF Received, Publish
<1>10. ReceivedIsBegun'
  BY <1>2, <1>9 DEF HubInv, ReceivedIsBegun
<1>11. InOrder'
  <2> SUFFICES ASSUME NEW s \in Streams, NEW i \in 1 .. Len(Received(s)),
                      NEW j \in 1 .. Len(Received(s)),
                      <<Received(s)[i], Received(s)[j]>> \in before'
               PROVE  i < j
    BY <1>9 DEF InOrder
  <2>1. Received(s)[j] # n
    BY <1>2 DEF HubInv, ReceivedIsBegun
  <2>2. <<Received(s)[i], Received(s)[j]>> \in before
    BY <1>3, <2>1
  <2>3. QED
    BY <2>2 DEF HubInv, InOrder
<1>12. InFlightIsLast'
  <2> SUFFICES ASSUME NEW q \in Publishers, NEW x \in Notes, <<pub'[q].note, x>> \in before'
               PROVE  FALSE
    BY DEF InFlightIsLast
  <2>1. CASE q = p
    BY <1>1, <1>2, <1>3, <2>1 DEF HubInv, BeforeIsBegun
  <2>2. CASE q # p
    BY <1>1, <1>3, <2>2 DEF HubInv, InFlightIsLast
  <2>3. QED
    BY <2>1, <2>2
<1>13. QED
  BY <1>4, <1>5, <1>6, <1>7, <1>8, <1>10, <1>11, <1>12 DEF HubInv

LEMMA OfferKeeps ==
  ASSUME HubInv, NEW p \in Publishers, NEW s \in Streams, Offer(p, s)
  PROVE  HubInv'
<1> DEFINE n == pub[p].note
<1>1. Publishing(p) /\ n \in Notes /\ n \in begun /\ \A x \in Notes : <<n, x>> \notin before
  <2>1. Publishing(p)
    BY DEF HubInv, RestingHasNone, Offer
  <2>2. n \in Notes \cup {NoNote}
    BY DEF HubInv, HubTypeOK
  <2>3. QED
    BY <2>1, <2>2 DEF HubInv, InFlightIsBegun, InFlightIsLast, Publishing
<1>2. /\ \A q \in Publishers : pub'[q].note = pub[q].note /\ pub'[q].left \subseteq pub[q].left
      /\ pub' \in [Publishers -> [note : Notes \cup {NoNote}, left : SUBSET Streams]]
  <2>1. pub' = [pub EXCEPT ![p].left = @ \ {s}]
    BY DEF Offer, HandedTo
  <2>2. pub \in [Publishers -> [note : Notes \cup {NoNote}, left : SUBSET Streams]]
    BY DEF HubInv, HubTypeOK
  <2>3. QED
    BY <2>1, <2>2
<1>3. UNCHANGED <<subs, closed, phase, begun, sent, due, before>>
  BY DEF Offer
<1>4. NeverSendsOnClosed' /\ SubscribedAreOpen' /\ ClosedAreGone' /\ RestingHasNone'
  <2>1. NeverSendsOnClosed'
    BY <1>2, <1>3 DEF HubInv, NeverSendsOnClosed
  <2>2. SubscribedAreOpen' /\ ClosedAreGone'
    BY <1>3 DEF HubInv, SubscribedAreOpen, ClosedAreGone
  <2>3. RestingHasNone'
    BY <1>2 DEF HubInv, RestingHasNone, Publishing
  <2>4. QED
    BY <2>1, <2>2, <2>3
<1>5. InFlightIsLast' /\ BeforeIsBegun' /\ InFlightIsBegun'
  BY <1>2, <1>3 DEF HubInv, InFlightIsLast, BeforeIsBegun, InFlightIsBegun, Publishing
<1>6. CASE Len(buffer[s]) < Capacity
  <2>1. /\ buffer' = [buffer EXCEPT ![s] = Append(@, n)] /\ UNCHANGED missed
        /\ buffer'[s] = Append(buffer[s], n)
        /\ \A t \in Streams \ {s} : buffer'[t] = buffer[t]
    BY <1>6 DEF HubInv, HubTypeOK, Offer
  <2>2. sent[s] \in Seq(Notes) /\ buffer[s] \in Seq(Notes)
    BY DEF HubInv, HubTypeOK
  <2>3. /\ Append(buffer[s], n) \in Seq(Notes)
        /\ Len(Append(buffer[s], n)) = Len(buffer[s]) + 1
        /\ sent[s] \o Append(buffer[s], n) = Append(sent[s] \o buffer[s], n)
    <3>1. \A a, b \in Seq(Notes), m \in Notes :
              /\ Append(b, m) \in Seq(Notes) /\ Len(Append(b, m)) = Len(b) + 1
              /\ a \o Append(b, m) = Append(a \o b, m)
      BY AddedAtTheEnd
    <3>2. QED
      BY <1>1, <2>2, <3>1, Zenon
  <2>4. HubTypeOK'
    <3>1. buffer' \in [Streams -> Seq(Notes)]
      BY <2>1, <2>3 DEF HubInv, HubTypeOK
    <3>2. ASSUME NEW t \in Streams PROVE Len(buffer'[t]) <= Capacity
      <4>1. Len(buffer[t]) <= Capacity /\ Len(buffer[t]) \in Nat
        BY LenProperties DEF HubInv, HubTypeOK
      <4>2. QED
        BY <1>6, <2>1, <2>3, <4>1
    <3>3. QED
      BY <1>2, <1>3, <2>1, <3>1, <3>2 DEF HubInv, HubTypeOK
  <2>5. /\ Received(s)' = Append(Received(s), n)
        /\ \A t \in Streams \ {s} : Received(t)' = Received(t)
    BY <1>3, <2>1, <2>3 DEF Received
  <2>6. /\ Received(s) \in Seq(Notes) /\ Len(Received(s)) \in Nat
        /\ Len(Append(Received(s), n)) = Len(Received(s)) + 1
        /\ \A i \in 1 .. Len(Received(s)) : /\ Append(Received(s), n)[i] = Received(s)[i]
                                            /\ Received(s)[i] \in Notes
        /\ Append(Received(s), n)[Len(Received(s)) + 1] = n
    <3>1. Received(s) \in Seq(Notes)
      BY ReceivedAreNotes DEF HubInv
    <3>2. QED
      BY <1>1, <3>1, AppendProperties, ElementOfSeq, LenProperties
  <2>7. ReceivedIsBegun'
    <3> SUFFICES ASSUME NEW t \in Streams, NEW i \in 1 .. Len(Received(t)')
                 PROVE  Received(t)'[i] \in begun
      BY <1>3 DEF ReceivedIsBegun
    <3>1. CASE t # s
      BY <2>5, <3>1 DEF HubInv, ReceivedIsBegun
    <3>2. CASE t = s
      <4>1. i \in 1 .. Len(Received(s)) + 1
        BY <2>5, <2>6, <3>2
      <4>2. CASE i = Len(Received(s)) + 1
        BY <1>1, <2>5, <2>6, <3>2, <4>2
      <4>3. CASE i # Len(Received(s)) + 1
        <5>1. i \in 1 .. Len(Received(s)) /\ Received(t)'[i] = Received(s)[i]
          BY <2>5, <2>6, <3>2, <4>1, <4>3
        <5>2. QED
          BY <5>1 DEF HubInv, ReceivedIsBegun
      <4>4. QED
        BY <4>2, <4>3
    <3>3. QED
      BY <3>1, <3>2
  <2>8. InOrder'
    <3> SUFFICES ASSUME NEW t \in Streams,
                        NEW i \in 1 .. Len(Received(t)'), NEW j \in 1 .. Len(Received(t)'),
                        <<Received(t)'[i], Received(t)'[j]>> \in before
                 PROVE  i < j
      BY <1>3 DEF InOrder
    <3>1. CASE t # s
      BY <2>5, <3>1 DEF HubInv, InOrder
    <3>2. CASE t = s
      <4>1. i \in 1 .. Len(Received(s)) + 1 /\ j \in 1 .. Len(Received(s)) + 1
        BY <2>5, <2>6, <3>2
      <4>2. Received(s)'[j] \in Notes
        BY <1>1, <2>5, <2>6, <4>1
      <4>3. Received(s)'[i] # n
        BY <1>1, <4>2, <3>2
      <4>4. i \in 1 .. Len(Received(s)) /\ Received(s)'[i] = Received(s)[i]
        BY <2>5, <2>6, <4>1, <4>3
      <4>5. CASE j = Len(Received(s)) + 1
        BY <2>6, <4>4, <4>5
      <4>6. CASE j # Len(Received(s)) + 1
        <5>1. j \in 1 .. Len(Received(s)) /\ Received(s)'[j] = Received(s)[j]
          BY <2>5, <2>6, <4>1, <4>6
        <5>2. QED
          BY <3>2, <4>4, <5>1 DEF HubInv, InOrder
      <4>7. QED
        BY <4>5, <4>6
    <3>3. QED
      BY <3>1, <3>2
  <2>9. QED
    BY <1>4, <1>5, <2>4, <2>7, <2>8 DEF HubInv
<1>7. CASE ~(Len(buffer[s]) < Capacity)
  <2>1. missed' = [missed EXCEPT ![s] = @ \cup {n}] /\ UNCHANGED buffer
    BY <1>7 DEF Offer
  <2>2. HubTypeOK'
    BY <1>1, <1>2, <1>3, <2>1 DEF HubInv, HubTypeOK
  <2>3. \A t \in Streams : Received(t)' = Received(t)
    BY <1>3, <2>1 DEF Received
  <2>4. InOrder' /\ ReceivedIsBegun'
    BY <1>3, <2>3 DEF HubInv, InOrder, ReceivedIsBegun
  <2>5. QED
    BY <1>4, <1>5, <2>2, <2>4 DEF HubInv
<1>8. QED
  BY <1>6, <1>7

LEMMA ReleaseKeeps ==
  ASSUME HubInv, NEW p \in Publishers, Release(p) PROVE HubInv'
<1>1. /\ pub'[p] = Resting /\ Resting.left = {} /\ Resting.note = NoNote
      /\ \A q \in Publishers \ {p} : pub'[q] = pub[q]
  BY DEF HubInv, HubTypeOK, Release, Resting
<1>2. UNCHANGED <<subs, buffer, closed, phase, begun, sent, missed, due, before>>
  BY DEF Release
<1>3. HubTypeOK'
  <2>1. Resting \in [note : Notes \cup {NoNote}, left : SUBSET Streams]
    BY DEF Resting
  <2>2. pub' \in [Publishers -> [note : Notes \cup {NoNote}, left : SUBSET Streams]]
    BY <2>1 DEF HubInv, HubTypeOK, Release
  <2>3. QED
    BY <1>2, <2>2 DEF HubInv, HubTypeOK
<1>4. NeverSendsOnClosed' /\ RestingHasNone'
  BY <1>1, <1>2 DEF HubInv, NeverSendsOnClosed, RestingHasNone, Publishing
<1>5. SubscribedAreOpen' /\ ClosedAreGone'
  BY <1>2 DEF HubInv, SubscribedAreOpen, ClosedAreGone
<1>6. InFlightIsLast'
  <2>1. \A x \in Notes : <<NoNote, x>> \notin before
    BY DEF HubInv, HubTypeOK
  <2>2. QED
    BY <1>1, <1>2, <2>1 DEF HubInv, InFlightIsLast
<1>7. BeforeIsBegun' /\ InFlightIsBegun'
  BY <1>1, <1>2 DEF HubInv, BeforeIsBegun, InFlightIsBegun, Publishing
<1>8. \A t \in Streams : Received(t)' = Received(t)
  BY <1>2 DEF Received
<1>9. InOrder' /\ ReceivedIsBegun'
  BY <1>2, <1>8 DEF HubInv, InOrder, ReceivedIsBegun
<1>10. QED
  BY <1>3, <1>4, <1>5, <1>6, <1>7, <1>9 DEF HubInv

LEMMA StutterKeeps == HubInv /\ UNCHANGED hubVars => HubInv'
<1> SUFFICES ASSUME HubInv, UNCHANGED hubVars PROVE HubInv'
  OBVIOUS
<1>1. HubTypeOK'
  BY DEF HubInv, HubTypeOK, hubVars
<1>2. NeverSendsOnClosed' /\ SubscribedAreOpen' /\ ClosedAreGone' /\ RestingHasNone'
  BY DEF HubInv, NeverSendsOnClosed, SubscribedAreOpen, ClosedAreGone, RestingHasNone, Publishing, hubVars
<1>3. \A t \in Streams : Received(t)' = Received(t)
  BY DEF Received, hubVars
<1>4. UNCHANGED <<pub, begun, before>>
  BY DEF hubVars
<1>5. QED
  BY <1>1, <1>2, <1>3, <1>4, OrderKept DEF HubInv

LEMMA InvNext == HubInv /\ [HubNext]_hubVars => HubInv'
  BY SubscribeKeeps, SendKeeps, LeaveKeeps, UnsubscribeKeeps, PublishKeeps, OfferKeeps,
     ReleaseKeeps, StutterKeeps DEF HubNext

\* The inductive invariant holds in every state.
THEOREM HubInvAlways == HubSpec => []HubInv
  BY HubInvInit, InvNext, PTL DEF HubSpec

-----------------------------------------------------------------------------

\* The hub's structures stay what hub.go declares, and no channel holds more than
\* its capacity.
THEOREM HubTypeCorrect == HubSpec => []HubTypeOK
<1>1. HubInv => HubTypeOK
  BY DEF HubInv
<1>2. QED
  BY <1>1, HubInvAlways, PTL

\* Closing a channel under the write lock, Unsubscribe meets no publisher that
\* still has it on its list: publishing never panics on a closed channel.
THEOREM NoSendOnClosed == HubSpec => []NeverSendsOnClosed
<1>1. HubInv => NeverSendsOnClosed
  BY DEF HubInv
<1>2. QED
  BY <1>1, HubInvAlways, PTL

\* Streams show publications in their order wherever one was over before the other
\* began, however many publishers there are and whatever full channels miss.
THEOREM StreamsInOrder == HubSpec => []InOrder
<1>1. HubInv => InOrder
  BY DEF HubInv
<1>2. QED
  BY <1>1, HubInvAlways, PTL

-----------------------------------------------------------------------------
\* Why the counts add up: a note in flight is one publisher's, so handing it over
\* moves it once, and what begins is new to every stream.

InFlight(s) == {pub[p].note : p \in {q \in Publishers : s \in pub[q].left}}
OwnNotes == \A p, q \in Publishers : Publishing(p) /\ pub[p].note = pub[q].note => p = q
DueIsBegun == \A s \in Streams : due[s] \subseteq begun /\ IsFiniteSet(due[s])
Adds(s) ==
    /\ due[s] = Elements(Received(s)) \cup missed[s] \cup InFlight(s)
    /\ missed[s] \cap InFlight(s) = {}
    /\ Len(Received(s)) + Cardinality(missed[s]) + Cardinality(InFlight(s)) = Cardinality(due[s])

Accounts == OwnNotes /\ DueIsBegun /\ \A s \in Streams : Adds(s)

\* The sets that are counted are finite, their sizes numbers.
LEMMA Counted ==
  ASSUME HubInv, Accounts, NEW s \in Streams
  PROVE  /\ IsFiniteSet(due[s]) /\ IsFiniteSet(missed[s]) /\ IsFiniteSet(InFlight(s))
         /\ Cardinality(due[s]) \in Nat /\ Cardinality(missed[s]) \in Nat
         /\ Cardinality(InFlight(s)) \in Nat /\ Len(Received(s)) \in Nat
<1>1. IsFiniteSet(due[s]) /\ missed[s] \in SUBSET due[s] /\ InFlight(s) \in SUBSET due[s]
  BY DEF Accounts, DueIsBegun, Adds
<1>2. IsFiniteSet(missed[s]) /\ IsFiniteSet(InFlight(s))
  BY <1>1, FS_Subset
<1>3. Received(s) \in Seq(Notes)
  BY ReceivedAreNotes DEF HubInv
<1>4. QED
  BY <1>1, <1>2, <1>3, FS_CardinalityType, LenProperties

\* A note at the end is one element more.
LEMMA ElementsAppended ==
  ASSUME NEW q \in Seq(Notes), NEW n \in Notes
  PROVE  /\ Elements(Append(q, n)) = Elements(q) \cup {n}
         /\ Len(Append(q, n)) = Len(q) + 1 /\ Len(q) \in Nat
<1>1. /\ Len(q) \in Nat /\ Len(Append(q, n)) = Len(q) + 1
      /\ Append(q, n)[Len(q) + 1] = n
      /\ \A i \in 1 .. Len(q) : Append(q, n)[i] = q[i]
  BY AppendProperties, LenProperties
<1> DEFINE longer == Append(q, n)
<1>2. 1 .. Len(longer) = (1 .. Len(q)) \cup {Len(q) + 1}
  BY <1>1
<1> HIDE DEF longer
<1>3. Elements(longer) = Elements(q) \cup {n}
  BY <1>1, <1>2 DEF Elements, longer
<1>4. QED
  BY <1>1, <1>3 DEF longer

\* A stream's account stands while nothing of it moves.
LEMMA SameAccount ==
  ASSUME NEW s \in Streams, Adds(s), Received(s)' = Received(s), InFlight(s)' = InFlight(s),
         due'[s] = due[s], missed'[s] = missed[s]
  PROVE  Adds(s)'
BY DEF Adds

LEMMA AccountsKept ==
  ASSUME HubInv, Accounts, UNCHANGED <<pub, begun, due, missed>>,
         \A s \in Streams : Received(s)' = Received(s)
  PROVE  Accounts'
<1>1. \A s \in Streams : InFlight(s)' = InFlight(s)
  BY DEF InFlight
<1>2. \A s \in Streams : Adds(s)'
  BY <1>1, SameAccount DEF Accounts
<1>3. OwnNotes' /\ DueIsBegun'
  BY DEF Accounts, OwnNotes, DueIsBegun, Publishing
<1>4. QED
  BY <1>2, <1>3 DEF Accounts

LEMMA SendAccounts ==
  ASSUME HubInv, Accounts, NEW s \in Streams, Send(s) PROVE Accounts'
<1>1. sent[s] \in Seq(Notes) /\ buffer[s] \in Seq(Notes) /\ buffer[s] # <<>>
  BY DEF HubInv, HubTypeOK, Send
<1>2. sent'[s] = Append(sent[s], Head(buffer[s])) /\ buffer'[s] = Tail(buffer[s])
  BY DEF HubInv, HubTypeOK, Send
<1>3. Append(sent[s], Head(buffer[s])) \o Tail(buffer[s]) = sent[s] \o buffer[s]
  BY <1>1, MovedToSent
<1>4. \A t \in Streams \ {s} : sent'[t] = sent[t] /\ buffer'[t] = buffer[t]
  BY DEF HubInv, HubTypeOK, Send
<1>5. \A t \in Streams : Received(t)' = Received(t)
  BY <1>2, <1>3, <1>4 DEF Received
<1>6. QED
  BY <1>5, AccountsKept DEF Send

LEMMA PublishAccounts ==
  ASSUME HubInv, Accounts, NEW p \in Publishers, NEW u \in Users, NEW n \in Notes, Publish(p, u, n)
  PROVE  Accounts'
<1>1. /\ pub'[p].note = n /\ pub'[p].left = subs[u]
      /\ \A q \in Publishers \ {p} : pub'[q] = pub[q]
      /\ subs[u] \subseteq Streams
      /\ ~Publishing(p) /\ pub[p].left = {}
  BY DEF HubInv, HubTypeOK, RestingHasNone, Publish
<1>2. /\ begun' = begun \cup {n} /\ n \notin begun
      /\ UNCHANGED <<buffer, sent, missed>>
      /\ \A s \in Streams : due'[s] = IF s \in subs[u] THEN due[s] \cup {n} ELSE due[s]
  BY DEF Publish
<1>3. OwnNotes'
  <2>1. \A q \in Publishers \ {p} : Publishing(q) => pub[q].note # n
    BY <1>2 DEF HubInv, InFlightIsBegun
  <2>2. \A q \in Publishers \ {p} : pub'[q].note # n
    BY <1>1, <2>1, NoNoteOK DEF Publishing
  <2>3. \A q, r \in Publishers \ {p} : Publishing(q)' /\ pub'[q].note = pub'[r].note => q = r
    BY <1>1 DEF Accounts, OwnNotes, Publishing
  <2>4. QED
    BY <1>1, <2>2, <2>3 DEF OwnNotes
<1>4. DueIsBegun'
  <2>1. \A s \in Streams : due'[s] \subseteq begun'
    BY <1>2 DEF Accounts, DueIsBegun
  <2>2. \A s \in Streams : IsFiniteSet(due[s]) /\ IsFiniteSet(due[s] \cup {n})
    BY FS_AddElement DEF Accounts, DueIsBegun
  <2>3. QED
    BY <1>2, <2>1, <2>2 DEF DueIsBegun
<1>5. ASSUME NEW s \in Streams
      PROVE  Adds(s)'
  <2>1. Received(s)' = Received(s) /\ missed'[s] = missed[s]
    BY <1>2 DEF Received
  <2>2. CASE s \notin subs[u]
    <3>1. InFlight(s)' = InFlight(s)
      <4>1. {q \in Publishers : s \in pub'[q].left} = {q \in Publishers : s \in pub[q].left}
        BY <1>1, <2>2
      <4>2. \A q \in {r \in Publishers : s \in pub[r].left} : pub'[q].note = pub[q].note
        BY <1>1
      <4>3. QED
        BY <4>1, <4>2 DEF InFlight
    <3>2. QED
      BY <1>2, <2>1, <2>2, <3>1, SameAccount DEF Accounts
  <2>3. CASE s \in subs[u]
    <3>1. InFlight(s)' = InFlight(s) \cup {n}
      <4>1. {q \in Publishers : s \in pub'[q].left}
              = {q \in Publishers : s \in pub[q].left} \cup {p}
        BY <1>1, <2>3
      <4>2. \A q \in {r \in Publishers : s \in pub[r].left} : pub'[q].note = pub[q].note
        BY <1>1
      <4>3. QED
        BY <1>1, <4>1, <4>2 DEF InFlight
    <3>2. /\ due[s] = Elements(Received(s)) \cup missed[s] \cup InFlight(s)
          /\ missed[s] \cap InFlight(s) = {}
          /\ Len(Received(s)) + Cardinality(missed[s]) + Cardinality(InFlight(s)) = Cardinality(due[s])
      BY DEF Accounts, Adds
    <3>3. n \notin due[s] /\ n \notin InFlight(s) /\ n \notin missed[s]
      BY <1>2, <3>2 DEF Accounts, DueIsBegun
    <3>4. /\ IsFiniteSet(due[s]) /\ IsFiniteSet(InFlight(s))
          /\ Cardinality(due[s]) \in Nat /\ Cardinality(missed[s]) \in Nat
          /\ Cardinality(InFlight(s)) \in Nat /\ Len(Received(s)) \in Nat
      BY Counted
    <3>5. /\ Cardinality(due[s] \cup {n}) = Cardinality(due[s]) + 1
          /\ Cardinality(InFlight(s) \cup {n}) = Cardinality(InFlight(s)) + 1
      BY <3>3, <3>4, FS_AddElement
    <3>6. due'[s] = due[s] \cup {n}
      BY <1>2, <2>3
    <3>7. due'[s] = Elements(Received(s)) \cup missed[s] \cup InFlight(s)'
          /\ missed[s] \cap InFlight(s)' = {}
      BY <3>1, <3>2, <3>3, <3>6
    <3>8. Len(Received(s)) + Cardinality(missed[s]) + Cardinality(InFlight(s)') = Cardinality(due'[s])
      BY <3>1, <3>2, <3>4, <3>5, <3>6
    <3>9. QED
      BY <2>1, <3>7, <3>8 DEF Adds
  <2>4. QED
    BY <2>2, <2>3
<1>6. QED
  BY <1>3, <1>4, <1>5 DEF Accounts

LEMMA OfferAccounts ==
  ASSUME HubInv, Accounts, NEW p \in Publishers, NEW s \in Streams, Offer(p, s)
  PROVE  Accounts'
<1> DEFINE n == pub[p].note
<1>1. Publishing(p) /\ n \in Notes
  BY DEF HubInv, RestingHasNone, HubTypeOK, Offer, Publishing
<1>2. /\ pub'[p].left = pub[p].left \ {s} /\ s \in pub[p].left
      /\ \A q \in Publishers \ {p} : pub'[q] = pub[q]
      /\ \A q \in Publishers : pub'[q].note = pub[q].note
  BY DEF HubInv, HubTypeOK, Offer, HandedTo
<1>3. UNCHANGED <<begun, due, sent>>
  BY DEF Offer
<1>4. OwnNotes' /\ DueIsBegun'
  BY <1>2, <1>3 DEF Accounts, OwnNotes, DueIsBegun, Publishing
<1>5. ASSUME NEW t \in Streams \ {s}
      PROVE  Adds(t)'
  <2>1. InFlight(t)' = InFlight(t)
    <3>1. {q \in Publishers : t \in pub'[q].left} = {q \in Publishers : t \in pub[q].left}
      BY <1>2
    <3>2. QED
      BY <1>2, <3>1 DEF InFlight
  <2>2. buffer'[t] = buffer[t] /\ missed'[t] = missed[t]
    BY DEF HubInv, HubTypeOK, Offer
  <2>3. Received(t)' = Received(t)
    BY <1>3, <2>2 DEF Received
  <2>4. QED
    BY <1>3, <2>1, <2>2, <2>3, SameAccount DEF Accounts
<1>6. InFlight(s)' = InFlight(s) \ {n} /\ n \in InFlight(s)
  <2>1. {q \in Publishers : s \in pub'[q].left} = {q \in Publishers : s \in pub[q].left} \ {p}
    BY <1>2
  <2>2. \A q \in Publishers : pub[q].note = n => q = p
    BY <1>1 DEF Accounts, OwnNotes
  <2>3. InFlight(s)' = {pub[q].note : q \in {r \in Publishers : s \in pub[r].left} \ {p}}
    BY <1>2, <2>1 DEF InFlight
  <2>4. QED
    BY <1>2, <2>2, <2>3 DEF InFlight
<1>7. /\ due[s] = Elements(Received(s)) \cup missed[s] \cup InFlight(s)
      /\ missed[s] \cap InFlight(s) = {}
      /\ Len(Received(s)) + Cardinality(missed[s]) + Cardinality(InFlight(s)) = Cardinality(due[s])
  BY DEF Accounts, Adds
<1>8. /\ IsFiniteSet(missed[s]) /\ IsFiniteSet(InFlight(s))
      /\ Cardinality(due[s]) \in Nat /\ Cardinality(missed[s]) \in Nat
      /\ Cardinality(InFlight(s)) \in Nat /\ Len(Received(s)) \in Nat
  BY Counted
<1>9. Cardinality(InFlight(s) \ {n}) = Cardinality(InFlight(s)) - 1
  <2>1. \A T, x : IsFiniteSet(T) /\ x \in T => Cardinality(T \ {x}) = Cardinality(T) - 1
    BY FS_RemoveElement
  <2>2. QED
    BY <1>6, <1>8, <2>1, Zenon
<1>10. n \notin missed[s]
  BY <1>6, <1>7
<1>11. CASE Len(buffer[s]) < Capacity
  <2>1. buffer'[s] = Append(buffer[s], n) /\ missed'[s] = missed[s]
    BY <1>11 DEF HubInv, HubTypeOK, Offer
  <2>2. sent[s] \in Seq(Notes) /\ buffer[s] \in Seq(Notes)
    BY DEF HubInv, HubTypeOK
  <2>3. sent[s] \o Append(buffer[s], n) = Append(sent[s] \o buffer[s], n)
    <3>1. \A a, b \in Seq(Notes), m \in Notes : a \o Append(b, m) = Append(a \o b, m)
      BY AddedAtTheEnd
    <3>2. QED
      BY <1>1, <2>2, <3>1, Zenon
  <2>4. Received(s)' = Append(Received(s), n)
    BY <1>3, <2>1, <2>3 DEF Received
  <2>5. Received(s) \in Seq(Notes)
    BY ReceivedAreNotes DEF HubInv
  <2>6. /\ Elements(Append(Received(s), n)) = Elements(Received(s)) \cup {n}
        /\ Len(Append(Received(s), n)) = Len(Received(s)) + 1
    <3>1. \A q \in Seq(Notes), m \in Notes : /\ Elements(Append(q, m)) = Elements(q) \cup {m}
                                             /\ Len(Append(q, m)) = Len(q) + 1
      BY ElementsAppended
    <3>2. QED
      BY <1>1, <2>5, <3>1, Zenon
  <2> DEFINE longer == Append(Received(s), n)
  <2>7. /\ Received(s)' = longer /\ Elements(longer) = Elements(Received(s)) \cup {n}
        /\ Len(longer) = Len(Received(s)) + 1
    BY <2>4, <2>6
  <2> HIDE DEF longer
  <2>8. due[s] = Elements(longer) \cup missed[s] \cup (InFlight(s) \ {n})
        /\ missed[s] \cap (InFlight(s) \ {n}) = {}
    BY <1>6, <1>7, <2>7
  <2>9. Len(longer) + Cardinality(missed[s]) + Cardinality(InFlight(s) \ {n}) = Cardinality(due[s])
    BY <1>7, <1>8, <1>9, <2>7
  <2>10. Adds(s)'
    BY <1>3, <1>6, <2>1, <2>7, <2>8, <2>9 DEF Adds
  <2>11. QED
    BY <1>4, <1>5, <2>10 DEF Accounts
<1>12. CASE ~(Len(buffer[s]) < Capacity)
  <2>1. missed'[s] = missed[s] \cup {n} /\ buffer'[s] = buffer[s]
    BY <1>12 DEF HubInv, HubTypeOK, Offer
  <2>2. Received(s)' = Received(s)
    BY <1>3, <2>1 DEF Received
  <2>3. Cardinality(missed[s] \cup {n}) = Cardinality(missed[s]) + 1
    BY <1>8, <1>10, FS_AddElement
  <2>4. due[s] = Elements(Received(s)) \cup (missed[s] \cup {n}) \cup (InFlight(s) \ {n})
        /\ (missed[s] \cup {n}) \cap (InFlight(s) \ {n}) = {}
    BY <1>6, <1>7
  <2>5. Len(Received(s)) + Cardinality(missed[s] \cup {n}) + Cardinality(InFlight(s) \ {n})
          = Cardinality(due[s])
    BY <1>7, <1>8, <1>9, <2>3
  <2>6. Adds(s)'
    BY <1>3, <1>6, <2>1, <2>2, <2>4, <2>5 DEF Adds
  <2>7. QED
    BY <1>4, <1>5, <2>6 DEF Accounts
<1>13. QED
  BY <1>11, <1>12

LEMMA ReleaseAccounts ==
  ASSUME HubInv, Accounts, NEW p \in Publishers, Release(p) PROVE Accounts'
<1>1. /\ pub[p].left = {} /\ pub'[p].left = {} /\ pub'[p].note = NoNote
      /\ \A q \in Publishers \ {p} : pub'[q] = pub[q]
  BY DEF HubInv, HubTypeOK, Release, Resting
<1>2. UNCHANGED <<buffer, begun, sent, missed, due>>
  BY DEF Release
<1>3. ASSUME NEW s \in Streams
      PROVE  InFlight(s)' = InFlight(s)
  <2>1. {q \in Publishers : s \in pub'[q].left} = {q \in Publishers : s \in pub[q].left}
    BY <1>1
  <2>2. \A q \in {r \in Publishers : s \in pub[r].left} : pub'[q].note = pub[q].note
    BY <1>1
  <2>3. QED
    BY <2>1, <2>2 DEF InFlight
<1>4. \A s \in Streams : Received(s)' = Received(s)
  BY <1>2 DEF Received
<1>5. \A s \in Streams : Adds(s)'
  BY <1>2, <1>3, <1>4, SameAccount DEF Accounts
<1>6. OwnNotes' /\ DueIsBegun'
  BY <1>1, <1>2 DEF Accounts, OwnNotes, DueIsBegun, Publishing
<1>7. QED
  BY <1>5, <1>6 DEF Accounts

LEMMA InitAccounts == HubInit => Accounts
<1> SUFFICES ASSUME HubInit PROVE Accounts
  OBVIOUS
<1>1. \A p \in Publishers : ~Publishing(p) /\ pub[p].left = {}
  BY DEF HubInit, Publishing, Resting
<1>2. OwnNotes
  BY <1>1 DEF OwnNotes
<1>3. DueIsBegun
  BY FS_EmptySet DEF HubInit, DueIsBegun
<1>4. ASSUME NEW s \in Streams
      PROVE  Adds(s)
  <2>1. Received(s) = <<>> /\ Elements(<<>>) = {} /\ Len(<<>>) = 0
    BY DEF HubInit, Received, Elements
  <2>2. due[s] = {} /\ missed[s] = {} /\ InFlight(s) = {} /\ Cardinality({}) = 0
    BY <1>1, FS_EmptySet DEF HubInit, InFlight
  <2>3. QED
    BY <2>1, <2>2 DEF Adds
<1>5. QED
  BY <1>2, <1>3, <1>4 DEF Accounts

LEMMA StepAccounts ==
  ASSUME HubInv, Accounts, [HubNext]_hubVars PROVE Accounts'
<1>1. CASE UNCHANGED hubVars
  BY <1>1, AccountsKept DEF hubVars, Received
<1>2. ASSUME NEW s \in Streams, (\E u \in Users : Subscribe(s, u)) \/ Leave(s) \/ Unsubscribe(s)
      PROVE  Accounts'
  <2>1. \A t \in Streams : Received(t)' = Received(t)
    BY <1>2 DEF Received, Subscribe, Leave, Unsubscribe
  <2>2. QED
    BY <1>2, <2>1, AccountsKept DEF Subscribe, Leave, Unsubscribe
<1>3. QED
  BY <1>1, <1>2, SendAccounts, PublishAccounts, OfferAccounts, ReleaseAccounts DEF HubNext

\* What is published while a stream is subscribed reaches it once, is on its way, or is
\* missed because its channel was full: nothing is lost otherwise, whatever the
\* publishers and the streams do in between.
THEOREM NothingUnaccounted == HubSpec => []Accounted
<1>1. HubInit => Accounts
  BY InitAccounts
<1>2. HubInv /\ Accounts /\ [HubNext]_hubVars => Accounts'
  BY StepAccounts
<1>3. Accounts => Accounted
  BY DEF Accounts, Adds, InFlight, Accounted
<1>4. QED
  BY <1>1, <1>2, <1>3, HubInvAlways, PTL DEF HubSpec
=============================================================================
