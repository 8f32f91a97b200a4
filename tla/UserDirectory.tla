------------------------------ MODULE UserDirectory ------------------------------
(***************************************************************************)
(* user-service: the table `users`, and in Redis two copies of a profile,  *)
(* under its id and under its e-mail, each kept for five minutes.  Readers *)
(* fill both keys after a miss; writers write the row and then delete keys *)
(* or set them anew.  A method of internal/repository/user_repository.go   *)
(* is a chain of statements and Redis commands; one action here is one of  *)
(* them, with the code up to the next.  WatchUser polls through it all.    *)
(*                                                                         *)
(* Not here: lists and counts, which read the table alone; user_stats,     *)
(* into which nothing but zeros is written; what the doors make of a       *)
(* request.                                                                *)
(***************************************************************************)
EXTENDS Naturals

CONSTANTS Ids,         \* what gen_random_uuid() hands out, each once
          Emails,      \* normalised addresses
          First,       \* what the columns of a profile hold when it is created
          Values,      \* what edits put there
          Flags,       \* is_verified; is_banned, with is_active and ban_reason
          Workers,     \* requests the server can be serving at one time
          None,        \* no cache entry, nothing read, no event sent
          MaxRequests  \* bound: requests, the watcher's polls apart

ASSUME ConstantsOK == /\ MaxRequests \in Nat /\ Ids # {} /\ Emails # {} /\ None \notin Values
                      /\ Ids \cap Emails = {}

VARIABLES row,       \* the table `users`
          cache,     \* the keys user:id:... and user:email:...
          req,       \* what each worker is doing, polling for the stream included
          stream,    \* the WatchUser call: open or not, and the event sent last
          requests,  \* requests so far, polls apart
          wanted,    \* the columns as the requests named them, in order (ghost)
          unsure,    \* keys a late fill or a lost delete may have left wrong (ghost)
          contended  \* addresses two requests have worked on at one time, or whose
                     \* keys a failing writer left behind (ghost)

vars == <<row, cache, req, stream, requests, wanted, unsure, contended>>

-----------------------------------------------------------------------------

\* Two of the six columns Update writes, and the flags it does not.  Id and e-mail
\* never change.
Columns == [name : Values \cup {First}, role : Values \cup {First}]
Profile == [id : Ids, email : Emails, columns : Columns, flags : SUBSET Flags]
Row == [state : {"absent", "live", "deleted"}, profile : Profile]

\* An UpdateInput: what it leaves empty keeps the value read; all empty is refused.
Edits == {edit \in [name : Values \cup {None}, role : Values \cup {None}] :
             edit.name # None \/ edit.role # None}
Merge(columns, edit) == [name |-> IF edit.name = None THEN columns.name ELSE edit.name,
                         role |-> IF edit.role = None THEN columns.role ELSE edit.role]

NewProfile(i, e) == [id |-> i, email |-> e, columns |-> [name |-> First, role |-> First], flags |-> {}]

Keys == Ids \cup Emails
KeysOf(p) == {p.id, p.email}

Steps == {"idle", "select", "insert", "write", "drop", "fillId", "fillEmail"}

\* key: what the profile is looked up by; edit: what is still to be written;
\* copy: the profile read or returned; drop: the keys to delete; poll: for the stream.
Request == [step : Steps, poll : BOOLEAN, key : Keys, edit : Edits \cup {None},
            copy : Profile \cup {None}, drop : SUBSET Keys]

Idle == [step |-> "idle", poll |-> FALSE, key |-> CHOOSE k \in Keys : TRUE, edit |-> None,
         copy |-> None, drop |-> {}]

TypeOK == /\ row \in [Ids -> Row]
          /\ cache \in [Keys -> Profile \cup {None}]
          /\ req \in [Workers -> Request]
          /\ stream \in [state : {"unopened", "open", "ended"}, id : Ids, last : Profile \cup {None}]
          /\ requests \in 0 .. MaxRequests
          /\ wanted \in [Ids -> Columns]
          /\ unsure \subseteq Keys
          /\ contended \subseteq Emails

Live(i) == row[i].state = "live"
Busy(w) == req[w].step # "idle"
Address(k) == IF k \in Emails THEN k ELSE row[k].profile.email

\* The live profile a key stands for.
Current(k) == LET named == {i \in Ids : Live(i) /\ k \in KeysOf(row[i].profile)}
              IN  IF named = {} THEN None ELSE row[CHOOSE i \in named : TRUE].profile

-----------------------------------------------------------------------------
\* Looking a profile up: GetByID, GetByEmail, GetBatch for each of its ids.

Goto(w, new) == req' = [req EXCEPT ![w] = new]
Finish(w) == Goto(w, Idle)

\* A request about key k begins.
Begin(w, k, new) ==
    /\ ~Busy(w)
    /\ Goto(w, [new EXCEPT !.key = k])
    /\ contended' = IF \E v \in Workers \ {w} : Busy(v) /\ Address(req[v].key) = Address(k)
                    THEN contended \cup {Address(k)} ELSE contended

Count == requests < MaxRequests /\ requests' = requests + 1

Missed(edit) == [Idle EXCEPT !.step = "select", !.edit = edit]
Hit(p, edit) == [Idle EXCEPT !.step = "write", !.edit = edit, !.copy = p]

\* fromCache, of which an error is a miss.  A hit answers a reader at once.
GetUser(w, k) == /\ Begin(w, k, Missed(None)) /\ Count
                 /\ UNCHANGED <<row, cache, stream, wanted, unsure>>

UpdateUser(w, i, edit) ==
    /\ \/ Begin(w, i, Missed(edit))
       \/ cache[i] # None /\ Begin(w, i, Hit(cache[i], edit))
    /\ Count
    /\ UNCHANGED <<row, cache, stream, wanted, unsure>>

\* WatchUser ends with the first error of its lookup.
EndStream(w) == stream' = IF req[w].poll THEN [stream EXCEPT !.state = "ended"] ELSE stream

\* The SELECT after a miss.
Select(w) ==
    /\ req[w].step = "select"
    /\ IF Current(req[w].key) = None
       THEN Finish(w) /\ EndStream(w)
       ELSE /\ Goto(w, [req[w] EXCEPT !.step = "fillId", !.copy = Current(req[w].key)])
            /\ UNCHANGED stream
    /\ UNCHANGED <<row, cache, requests, wanted, unsure, contended>>

\* toCache: two SETs whose errors are dropped.  A copy that the row has left behind
\* makes the key unsure.
Fill(w, k) ==
    \/ /\ cache' = [cache EXCEPT ![k] = req[w].copy]
       /\ unsure' = IF req[w].copy = Current(k) THEN unsure \ {k} ELSE unsure \cup {k}
    \/ UNCHANGED <<cache, unsure>>

FillId(w) == /\ req[w].step = "fillId"
             /\ Fill(w, req[w].copy.id)
             /\ Goto(w, [req[w] EXCEPT !.step = "fillEmail"])
             /\ UNCHANGED <<row, stream, requests, wanted, contended>>

\* Mutation: sameUser compares the names and roles only.
SendColumns(p) == stream' = IF stream.state = "open" /\ (stream.last = None \/ stream.last.columns # p.columns)
                            THEN [stream EXCEPT !.last = p] ELSE stream

\* WatchUser sends what it has got, if it is not what it sent last.
Send(p) == stream' = IF stream.state = "open" THEN [stream EXCEPT !.last = p] ELSE stream

\* Then the answer, or the UPDATE the lookup was for.
FillEmail(w) ==
    /\ req[w].step = "fillEmail"
    /\ Fill(w, req[w].copy.email)
    /\ IF req[w].edit = None THEN Finish(w) ELSE Goto(w, [req[w] EXCEPT !.step = "write"])
    /\ IF req[w].poll THEN Send(req[w].copy) ELSE UNCHANGED stream
    /\ UNCHANGED <<row, requests, wanted, contended>>

-----------------------------------------------------------------------------
\* Writing.

Write(i, new) == row' = [row EXCEPT ![i] = new]

CreateUser(w, e) ==
    /\ Begin(w, e, [Idle EXCEPT !.step = "insert"])
    /\ Count
    /\ UNCHANGED <<row, cache, stream, wanted, unsure>>

\* INSERT ... ON CONFLICT (email) DO NOTHING RETURNING.  With the partial index that
\* the migrations create PostgreSQL refuses the statement, whatever the table holds;
\* with a plain one it returns a row if the address is free.  A request may have asked
\* for the id before it was anybody's.
Insert(w) ==
    /\ req[w].step = "insert" /\ Current(req[w].key) = None
    /\ \E i \in Ids :
         LET p == NewProfile(i, req[w].key)
         IN  /\ row[i].state = "absent"
             /\ Write(i, [state |-> "live", profile |-> p])
             /\ wanted' = [wanted EXCEPT ![i] = p.columns]
             /\ Goto(w, [req[w] EXCEPT !.step = "fillId", !.copy = p])
             /\ contended' = IF \E v \in Workers : Busy(v) /\ req[v].key = i
                             THEN contended \cup {req[w].key} ELSE contended
    /\ UNCHANGED <<cache, stream, requests, unsure>>

\* Without a row returned, whatever the reason, the answer is GetByEmail's.
InsertNothing(w) ==
    /\ req[w].step = "insert"
    /\ \/ Goto(w, [Missed(None) EXCEPT !.key = req[w].key])
       \/ cache[req[w].key] # None /\ Finish(w)
    /\ UNCHANGED <<row, cache, stream, requests, wanted, unsure, contended>>

\* The row an update writes: every column, from the copy where the edit is silent.
Merged(w) == [row[req[w].copy.id].profile EXCEPT !.columns = Merge(req[w].copy.columns, req[w].edit)]

\* Mutation: an update leaves the keys alone.
WriteColumnsQuietly(w) ==
    LET i == req[w].copy.id
    IN  /\ req[w].step = "write"
        /\ IF Live(i)
           THEN /\ Write(i, [state |-> "live", profile |-> Merged(w)])
                /\ wanted' = [wanted EXCEPT ![i] = Merge(@, req[w].edit)]
           ELSE UNCHANGED <<row, wanted>>
        /\ Finish(w)
        /\ UNCHANGED <<cache, stream, requests, unsure, contended>>

\* UPDATE ... WHERE live RETURNING.
WriteColumns(w) ==
    LET i == req[w].copy.id
    IN  /\ req[w].step = "write"
        /\ IF Live(i)
           THEN /\ Write(i, [state |-> "live", profile |-> Merged(w)])
                /\ wanted' = [wanted EXCEPT ![i] = Merge(@, req[w].edit)]
                /\ Goto(w, [req[w] EXCEPT !.step = "drop", !.edit = None, !.copy = Merged(w),
                                          !.drop = KeysOf(Merged(w))])
           ELSE Finish(w) /\ UNCHANGED <<row, wanted>>
        /\ UNCHANGED <<cache, stream, requests, unsure, contended>>

\* VerifyEmail and Ban: one UPDATE, after which the key of the id is deleted.
SetFlag(w, i, f) ==
    /\ Live(i)
    /\ Begin(w, i, [Idle EXCEPT !.step = "drop", !.drop = {i}])
    /\ Count
    /\ Write(i, [row[i] EXCEPT !.profile.flags = @ \cup {f}])
    /\ UNCHANGED <<cache, stream, wanted, unsure>>

\* Mutation: a deletion forgets the key of the e-mail.
DeleteUserById(w, i) ==
    /\ Live(i)
    /\ Begin(w, i, [Idle EXCEPT !.step = "drop", !.drop = {i}])
    /\ Count
    /\ Write(i, [row[i] EXCEPT !.state = "deleted"])
    /\ UNCHANGED <<cache, stream, wanted, unsure>>

\* Delete: soft, and both keys go.
DeleteUser(w, i) ==
    /\ Live(i)
    /\ Begin(w, i, [Idle EXCEPT !.step = "drop", !.drop = KeysOf(row[i].profile)])
    /\ Count
    /\ Write(i, [row[i] EXCEPT !.state = "deleted"])
    /\ UNCHANGED <<cache, stream, wanted, unsure>>

\* An update still sets both keys from what its UPDATE returned.
AfterDrop(w) == IF req[w].copy = None THEN Finish(w)
                ELSE Goto(w, [req[w] EXCEPT !.step = "fillId", !.drop = {}])

Drop(w) ==
    /\ req[w].step = "drop"
    /\ cache' = [k \in Keys |-> IF k \in req[w].drop THEN None ELSE cache[k]]
    /\ unsure' = unsure \ req[w].drop
    /\ AfterDrop(w)
    /\ UNCHANGED <<row, stream, requests, wanted, contended>>

-----------------------------------------------------------------------------
\* WatchUser, failures, and the time a key lives.

WatchUser(i) == /\ stream.state = "unopened"
                /\ stream' = [state |-> "open", id |-> i, last |-> None]
                /\ UNCHANGED <<row, cache, req, requests, wanted, unsure, contended>>

\* The ticker fires; the stream's loop looks the profile up once at a time.
Poll(w) == /\ stream.state = "open" /\ ~Busy(w) /\ \A v \in Workers : ~req[v].poll
           /\ \/ /\ Begin(w, stream.id, [Missed(None) EXCEPT !.poll = TRUE])
                 /\ UNCHANGED stream
              \/ /\ cache[stream.id] # None
                 /\ Send(cache[stream.id])
                 /\ UNCHANGED <<req, contended>>
           /\ UNCHANGED <<row, cache, requests, wanted, unsure>>

HangUp == /\ stream.state = "open"
          /\ stream' = [stream EXCEPT !.state = "ended"]
          /\ UNCHANGED <<row, cache, req, requests, wanted, unsure, contended>>

\* The keys a writer has still to delete are left as they are.
Lose(w) == /\ unsure' = unsure \cup req[w].drop
           /\ contended' = IF req[w].drop = {} THEN contended
                           ELSE contended \cup {Address(req[w].key)}

\* The DEL fails, and its error is dropped.
DropFails(w) == /\ req[w].step = "drop"
                /\ Lose(w) /\ AfterDrop(w)
                /\ UNCHANGED <<row, cache, stream, requests, wanted>>

\* A statement fails, the caller's context ends, or the process dies.
Stop(w) == /\ Busy(w)
           /\ Lose(w) /\ Finish(w) /\ EndStream(w)
           /\ UNCHANGED <<row, cache, requests, wanted>>

Expire(k) == /\ cache[k] # None
             /\ cache' = [cache EXCEPT ![k] = None]
             /\ unsure' = unsure \ {k}
             /\ UNCHANGED <<row, req, stream, requests, wanted, contended>>

-----------------------------------------------------------------------------

\* The service starts with any table; here, one whose profiles have not been edited.
Init == /\ \E state \in [Ids -> {"absent", "live"}], email \in [Ids -> Emails] :
              /\ \A i, j \in Ids : i # j => "absent" \in {state[i], state[j]} \/ email[i] # email[j]
              /\ row = [i \in Ids |-> [state |-> state[i], profile |-> NewProfile(i, email[i])]]
        /\ cache = [k \in Keys |-> None]
        /\ req = [w \in Workers |-> Idle]
        /\ stream = [state |-> "unopened", id |-> CHOOSE i \in Ids : TRUE, last |-> None]
        /\ requests = 0
        /\ wanted = [i \in Ids |-> row[i].profile.columns]
        /\ unsure = {} /\ contended = {}

Arrive(w) == \/ \E k \in Keys : GetUser(w, k)
             \/ \E i \in Ids : \/ \E edit \in Edits : UpdateUser(w, i, edit)
                               \/ \E f \in Flags : SetFlag(w, i, f)
                               \/ DeleteUser(w, i)
             \/ \E e \in Emails : CreateUser(w, e)

Continue(w) == \/ Select(w) \/ FillId(w) \/ FillEmail(w)
               \/ Insert(w) \/ InsertNothing(w) \/ WriteColumns(w) \/ Drop(w)

Next == \/ \E w \in Workers : Arrive(w) \/ Poll(w) \/ Continue(w) \/ DropFails(w) \/ Stop(w)
        \/ \E i \in Ids : WatchUser(i)
        \/ \E k \in Keys : Expire(k)
        \/ HangUp

\* Goroutines run, the ticker ticks, and Redis lets keys go when their time is up.
Fairness == /\ \A w \in Workers : WF_vars(Continue(w))
            /\ WF_vars(\E w \in Workers : Poll(w))
            /\ \A k \in Keys : WF_vars(Expire(k))

Spec == Init /\ [][Next]_vars /\ Fairness

-----------------------------------------------------------------------------
\* Properties.

\* What Redis keeps is what the table holds, unless the writer who left it behind
\* has the key still to delete, or the key was filled late or its delete was lost;
\* of the two keys only the one of the e-mail may lack a flag set meanwhile.
KeysExplained ==
    \A k \in Keys \ unsure : cache[k] # None =>
        LET p == cache[k]
            now == row[p.id].profile
        IN  \/ \E w \in Workers : k \in req[w].drop
            \/ Live(p.id) /\ p = now
            \/ Live(p.id) /\ k \in Emails /\ p.columns = now.columns /\ p.flags \subseteq now.flags

\* Unless two requests worked on a profile at one time, or a failing writer left its
\* keys behind, no update takes back what another wrote, cached copies or not.
EditsSurvive ==
    \A i \in Ids : Live(i) /\ row[i].profile.email \notin contended =>
        row[i].profile.columns = wanted[i]

\* Once the profile stays as it is, an open stream comes to have sent it as it is.
WatcherCatchesUp ==
    <>[](stream.state = "open" => /\ Live(stream.id)
                                  /\ stream.last = row[stream.id].profile)
=============================================================================
