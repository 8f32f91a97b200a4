---------------------------- MODULE DocumentService ----------------------------
(***************************************************************************)
(* document-service: the rows of `documents`, the audit trail in           *)
(* `document_history`, and the requests in flight.  Every handler of       *)
(* internal/service/document_service.go is a chain of autocommitted SQL    *)
(* statements on a row it read first: there is no transaction, no version  *)
(* column, and every UPDATE says WHERE id = $1 only.  One action here is   *)
(* one statement with the code up to the next one.  Between two statements *)
(* other requests run, a statement may fail, or the process may die.       *)
(*                                                                         *)
(* Not here: the notification and calendar calls, wired to no-op clients   *)
(* in app.go; validation of the request's form; the read-only handlers.    *)
(***************************************************************************)
EXTENDS DocumentStatus, Naturals, Sequences

CONSTANTS Docs,      \* identifiers gen_random_uuid() hands out, each once
          Workers,   \* requests the server can be serving at one time
          Users,     \* possible responsible users
          Titles,    \* what an edit can write in the text columns
          Times,     \* instants a deadline can name
          NoUser,    \* responsible_id IS NULL
          NoTime,    \* deadline IS NULL
          MaxTime,   \* bound: the clock stops here
          MaxTrail,  \* bound: no new request for a document whose trail is this long
          Exclusive  \* TRUE: the callers never let two requests on a document overlap

ASSUME ConstantsOK == /\ Times \subseteq Nat /\ MaxTime \in Nat /\ MaxTrail \in Nat
                      /\ Docs # {} /\ Titles # {}
                      /\ NoTime \notin Nat
                      /\ Exclusive \in BOOLEAN

VARIABLES rows,       \* the table `documents`
          history,    \* the table `document_history`, per document and field
          req,        \* what each worker is doing
          now,        \* the database clock
          unrecorded, \* <<document, field>> pairs whose change lost its history entry
          contended   \* documents two requests have worked on at one time (ghost)

vars == <<rows, history, req, now, unrecorded, contended>>

-----------------------------------------------------------------------------
\* Data.

Row == [status : RowStates, title : Titles, responsible : Users \cup {NoUser},
        deadline : Times \cup {NoTime}, isOverdue : BOOLEAN, archivedAt : BOOLEAN]

Blank(status) == [status |-> status, title |-> CHOOSE t \in Titles : TRUE,
                  responsible |-> NoUser, deadline |-> NoTime,
                  isOverdue |-> FALSE, archivedAt |-> FALSE]

\* History entries of the two fields with values of their own.  The entry an
\* edit writes ("document", "" -> "fields updated") carries none: not kept.
StatusEntry == [old : RowStates \cup {""}, new : RowStates]
ResponsibleEntry == [old : Users \cup {NoUser}, new : Users \cup {NoUser}]
Trail == [status : Seq(StatusEntry), responsible : Seq(ResponsibleEntry)]
NoTrail == [status |-> <<>>, responsible |-> <<>>]

\* Where a handler stands: before which statement.
Steps == {"idle", "edit", "logEdit", "delete", "assign", "logAssign",
          "status", "logStatus", "mark", "logMarks"}

\* old, new: the row GetByID returned and the handler's copy as it will leave it,
\* blank in the columns the handler neither writes nor records later.
\* found: the rows FindOverdue returned, with the status they had then.
Request == [step : Steps, doc : Docs, old : Row, new : Row,
            found : SUBSET (Docs \X Statuses)]

Idle == [step |-> "idle", doc |-> CHOOSE d \in Docs : TRUE,
         old |-> Blank("unused"), new |-> Blank("unused"), found |-> {}]

TypeOK == /\ rows \in [Docs -> Row]
          /\ history \in [Docs -> Trail]
          /\ req \in [Workers -> Request]
          /\ now \in 0 .. MaxTime
          /\ unrecorded \subseteq Docs \X {"status", "responsible"}
          /\ contended \subseteq Docs

Live(d) == rows[d].status \in Statuses
Busy(w) == req[w].step # "idle"

\* Worker w is at work on document d.
On(w, d) == Busy(w) /\ \/ req[w].found = {} /\ req[w].doc = d
                       \/ \E f \in req[w].found : f[1] = d

Met == {d \in Docs : \E v, w \in Workers : v # w /\ On(v, d) /\ On(w, d)}

\* The history entries worker w has made due by a write and not inserted yet.
Owed(w) == CASE req[w].step = "logStatus" -> {<<req[w].doc, "status">>}
             [] req[w].step = "logAssign" -> {<<req[w].doc, "responsible">>}
             [] req[w].step = "logMarks"  -> {<<f[1], "status">> : f \in req[w].found}
             [] OTHER                     -> {}

-----------------------------------------------------------------------------
\* Steps the handlers share.

\* A request for document d reaches an idle worker.
Admit(w, d) ==
    /\ ~Busy(w)
    /\ Len(history[d].status) < MaxTrail /\ Len(history[d].responsible) < MaxTrail
    /\ Exclusive => \A v \in Workers : Busy(v) => req[v].doc # d /\ req[v].found = {}

\* The handler has read row d and will next run the statement of `step`.
Begin(w, d, step, old, new) ==
    /\ req' = [req EXCEPT ![w] = [step |-> step, doc |-> d, old |-> old,
                                  new |-> new, found |-> {}]]
    /\ UNCHANGED <<rows, history, now, unrecorded>>

Proceed(w, step) == req' = [req EXCEPT ![w] = [@ EXCEPT !.step = step]]
Finish(w) == req' = [req EXCEPT ![w] = Idle]

\* The old value of a creation is the empty string.
RecordedAs(status) == IF status = "unused" THEN "" ELSE status

\* INSERT INTO document_history for the field "status".
RecordStatus(d, entry) ==
    history' = [history EXCEPT ![d].status = Append(@, entry)]

\* RowsAffected() = 0, or a history insert whose foreign key is gone: the
\* document was deleted meanwhile and the handler returns the error.
Vanished(w) == /\ ~Live(req[w].doc)
               /\ Finish(w)
               /\ UNCHANGED <<rows, history, now, unrecorded>>

-----------------------------------------------------------------------------
\* CreateDocument: one INSERT, then the status entry "" -> draft.

CreateDocument(w, d) ==
    /\ Admit(w, d)
    /\ rows[d].status = "unused"
    /\ \E t \in Titles, u \in Users \cup {NoUser}, deadline \in Times \cup {NoTime} :
         LET row == [Blank("draft") EXCEPT !.title = t, !.responsible = u,
                                           !.deadline = deadline]
         IN /\ rows' = [rows EXCEPT ![d] = row]
            /\ req' = [req EXCEPT ![w] = [step |-> "logStatus", doc |-> d, old |-> Blank("unused"),
                                          new |-> Blank("draft"), found |-> {}]]
    /\ UNCHANGED <<history, now, unrecorded>>

\* UpdateDocument: the fields the request leaves out keep the value read, and
\* all four columns are written back from the handler's copy.

UpdateDocument(w, d) ==
    /\ Admit(w, d) /\ Live(d)
    /\ rows[d].status # "archived"
    /\ \E t \in Titles, deadline \in Times \cup {rows[d].deadline} :
         Begin(w, d, "edit", Blank("unused"),
               [Blank("unused") EXCEPT !.title = t, !.deadline = deadline])

WriteEdit(w) ==
    /\ req[w].step = "edit"
    /\ \/ Vanished(w)
       \/ /\ Live(req[w].doc)
          /\ rows' = [rows EXCEPT ![req[w].doc] = [@ EXCEPT !.title = req[w].new.title,
                                                            !.deadline = req[w].new.deadline]]
          /\ Proceed(w, "logEdit")
          /\ UNCHANGED <<history, now, unrecorded>>

LogEdit(w) ==
    /\ req[w].step = "logEdit"
    /\ Finish(w)
    /\ UNCHANGED <<rows, history, now, unrecorded>>

\* DeleteDocument: only a draft, by the status read; the DELETE itself has no
\* condition on status and cascades to the history.

\* Mutation: the draft check is dropped.
DeleteDocumentUnchecked(w, d) ==
    /\ Admit(w, d) /\ Live(d)
    /\ Begin(w, d, "delete", Blank(rows[d].status), Blank("unused"))

DeleteDocument(w, d) ==
    /\ Admit(w, d) /\ Live(d)
    /\ rows[d].status = "draft"
    /\ Begin(w, d, "delete", Blank(rows[d].status), Blank("unused"))

DeleteRow(w) ==
    /\ req[w].step = "delete"
    /\ \/ Vanished(w)
       \/ /\ Live(req[w].doc)
          /\ rows' = [rows EXCEPT ![req[w].doc] = Blank("deleted")]
          /\ history' = [history EXCEPT ![req[w].doc] = NoTrail]
          /\ unrecorded' = {u \in unrecorded : u[1] # req[w].doc}
          /\ Finish(w)
          /\ UNCHANGED now

\* AssignResponsible: set the responsible and record it; if the row read was a
\* draft, go on to move it to assigned and record that.

AssignResponsible(w, d) ==
    /\ Admit(w, d) /\ Live(d)
    /\ rows[d].status # "archived"
    /\ \E u \in Users :
         Begin(w, d, "assign",
               [Blank(rows[d].status) EXCEPT !.responsible = rows[d].responsible],
               [Blank("assigned") EXCEPT !.responsible = u])

WriteResponsible(w) ==
    /\ req[w].step = "assign"
    /\ \/ Vanished(w)
       \/ /\ Live(req[w].doc)
          /\ rows' = [rows EXCEPT ![req[w].doc] = [@ EXCEPT !.responsible = req[w].new.responsible]]
          /\ Proceed(w, "logAssign")
          /\ UNCHANGED <<history, now, unrecorded>>

LogResponsible(w) ==
    /\ req[w].step = "logAssign"
    /\ \/ Vanished(w)
       \/ /\ Live(req[w].doc)
          /\ history' = [history EXCEPT ![req[w].doc].responsible =
                 Append(@, [old |-> req[w].old.responsible, new |-> req[w].new.responsible])]
          /\ IF req[w].old.status = "draft" THEN Proceed(w, "status") ELSE Finish(w)
          /\ UNCHANGED <<rows, now, unrecorded>>

\* ChangeStatus and ArchiveDocument: the table is consulted with the status
\* read; Archive() also stamps archived_at, UpdateStatus() writes status alone.

\* Mutation: the new status is not checked against the table.
ChangeStatusUnchecked(w, d) ==
    /\ Admit(w, d) /\ Live(d)
    /\ \E to \in Statuses : Begin(w, d, "status", Blank(rows[d].status), Blank(to))

ChangeStatus(w, d) ==
    /\ Admit(w, d) /\ Live(d)
    /\ \E to \in Statuses : /\ CanTransition(rows[d].status, to)
                            /\ Begin(w, d, "status", Blank(rows[d].status), Blank(to))

\* On an archived document: success at once, nothing written.
ArchiveDocument(w, d) ==
    /\ Admit(w, d) /\ Live(d)
    /\ rows[d].status # "archived"
    /\ CanTransition(rows[d].status, "archived")
    /\ Begin(w, d, "status", Blank(rows[d].status), Blank("archived"))

\* Archive() or UpdateStatus(), by the new status.
Rewritten(row, status) ==
    IF status = "archived" THEN [row EXCEPT !.status = status, !.archivedAt = TRUE]
                           ELSE [row EXCEPT !.status = status]

WriteStatus(w) ==
    /\ req[w].step = "status"
    /\ \/ Vanished(w)
       \/ /\ Live(req[w].doc)
          /\ rows' = [rows EXCEPT ![req[w].doc] = Rewritten(@, req[w].new.status)]
          /\ Proceed(w, "logStatus")
          /\ UNCHANGED <<history, now, unrecorded>>

\* Mutation: the handler returns without its history entry.
LogStatusSkipped(w) ==
    /\ req[w].step = "logStatus"
    /\ Finish(w)
    /\ UNCHANGED <<rows, history, now, unrecorded>>

\* Mutation: the old value is taken from the row already overwritten.
LogStatusSwapped(w) ==
    /\ req[w].step = "logStatus"
    /\ \/ Vanished(w)
       \/ /\ Live(req[w].doc)
          /\ RecordStatus(req[w].doc, [old |-> rows[req[w].doc].status, new |-> req[w].new.status])
          /\ Finish(w)
          /\ UNCHANGED <<rows, now, unrecorded>>

LogStatus(w) ==
    /\ req[w].step = "logStatus"
    /\ \/ Vanished(w)
       \/ /\ Live(req[w].doc)
          /\ RecordStatus(req[w].doc, [old |-> RecordedAs(req[w].old.status),
                                       new |-> req[w].new.status])
          /\ Finish(w)
          /\ UNCHANGED <<rows, now, unrecorded>>

-----------------------------------------------------------------------------
\* MarkOverdue: select, one UPDATE over the selected ids whatever their status
\* has become, then a history entry per document whose failure is ignored.

Overdue(d) == /\ rows[d].deadline # NoTime
              /\ rows[d].deadline < now
              /\ rows[d].status \in Sweepable

MarkOverdue(w) ==
    /\ ~Busy(w)
    /\ Exclusive => \A v \in Workers : ~Busy(v)
    /\ \E d \in Docs : Overdue(d)
    /\ req' = [req EXCEPT ![w] =
           [@ EXCEPT !.step = "mark",
                     !.found = {<<d, rows[d].status>> : d \in {e \in Docs : Overdue(e)}}]]
    /\ UNCHANGED <<rows, history, now, unrecorded>>

MarkRows(w) ==
    /\ req[w].step = "mark"
    /\ rows' = [d \in Docs |-> IF Live(d) /\ \E f \in req[w].found : f[1] = d
                               THEN [rows[d] EXCEPT !.status = "overdue", !.isOverdue = TRUE]
                               ELSE rows[d]]
    /\ Proceed(w, "logMarks")
    /\ UNCHANGED <<history, now, unrecorded>>

\* The loop moves to the next document, or the handler returns.
NextMark(w, f) == IF req[w].found = {f} THEN Finish(w)
                  ELSE req' = [req EXCEPT ![w].found = @ \ {f}]

LogMark(w) ==
    /\ req[w].step = "logMarks"
    /\ \E f \in req[w].found :
         /\ IF Live(f[1]) THEN RecordStatus(f[1], [old |-> f[2], new |-> "overdue"])
                          ELSE UNCHANGED history
         /\ NextMark(w, f)
    /\ UNCHANGED <<rows, now, unrecorded>>

-----------------------------------------------------------------------------
\* The environment: failing statements, a dying process, the clock.

\* The next statement fails, or the caller's context is cancelled: the handler
\* returns the error and undoes nothing.
Fail(w) ==
    /\ Busy(w) /\ req[w].step # "logMarks"
    /\ Finish(w)
    /\ unrecorded' = unrecorded \cup Owed(w)
    /\ UNCHANGED <<rows, history, now>>

\* MarkOverdue throws the insert's error away and carries on.
FailMark(w) ==
    /\ req[w].step = "logMarks"
    /\ \E f \in req[w].found : /\ NextMark(w, f)
                               /\ unrecorded' = unrecorded \cup {<<f[1], "status">>}
    /\ UNCHANGED <<rows, history, now>>

\* The process restarts: every request in flight is gone, the tables stay.
Crash ==
    /\ req' = [w \in Workers |-> Idle]
    /\ unrecorded' = unrecorded \cup UNION {Owed(w) : w \in Workers}
    /\ UNCHANGED <<rows, history, now>>

Tick == /\ now < MaxTime
        /\ now' = now + 1
        /\ UNCHANGED <<rows, history, req, unrecorded>>

-----------------------------------------------------------------------------

Init == /\ rows = [d \in Docs |-> Blank("unused")]
        /\ history = [d \in Docs |-> NoTrail]
        /\ req = [w \in Workers |-> Idle]
        /\ now = 0
        /\ unrecorded = {} /\ contended = {}

Arrive(w) == \/ \E d \in Docs : \/ CreateDocument(w, d)    \/ UpdateDocument(w, d)
                                \/ DeleteDocument(w, d)    \/ AssignResponsible(w, d)
                                \/ ChangeStatus(w, d)      \/ ArchiveDocument(w, d)
             \/ MarkOverdue(w)

Continue(w) == \/ WriteEdit(w)        \/ LogEdit(w)
               \/ DeleteRow(w)
               \/ WriteResponsible(w) \/ LogResponsible(w)
               \/ WriteStatus(w)      \/ LogStatus(w)
               \/ MarkRows(w)         \/ LogMark(w)

Next == /\ \/ \E w \in Workers : Arrive(w) \/ Continue(w) \/ Fail(w) \/ FailMark(w)
           \/ Crash
           \/ Tick
        /\ contended' = contended \cup Met'

Spec == Init /\ [][Next]_vars

-----------------------------------------------------------------------------
\* What holds of every interleaving, failing statement and restart.

Recorded(d) ==
    \E i \in 1 .. Len(history[d].status) : history[d].status[i].new = rows[d].status

\* Worker w wrote the status the row shows and has its entry still to insert.
AnswersFor(w, d) ==
    \/ /\ req[w].step = "logStatus" /\ req[w].doc = d
       /\ req[w].new.status = rows[d].status
    \/ /\ req[w].step = "logMarks" /\ rows[d].status = "overdue"
       /\ \E f \in req[w].found : f[1] = d

\* The status a document shows is in its trail, or the handler that wrote it is
\* about to put it there, or the one insert that should have done so was lost
\* to a failure: no path through the handlers forgets the trail.
StatusAccountedFor ==
    \A d \in Docs : Live(d) => \/ Recorded(d)
                               \/ \E w \in Workers : AnswersFor(w, d)
                               \/ <<d, "status">> \in unrecorded

Lawful(old, new) == \/ old = "" /\ new = "draft"
                    \/ CanTransition(old, new)
                    \/ old \in Sweepable /\ new = "overdue"

\* Every entry of the trail is a creation, a transition of the table, or one the
\* sweep makes.  The trail looks lawful even when handlers raced and the row did
\* something else, because each handler records the status it read.
TrailLawful ==
    \A d \in Docs : \A i \in 1 .. Len(history[d].status) :
        Lawful(history[d].status[i].old, history[d].status[i].new)

\* An archived row carries archived_at, whichever handler archived it.
ArchivedIsStamped ==
    \A d \in Docs : rows[d].status = "archived" => rows[d].archivedAt

\* No handler writes draft after the INSERT, so whatever has left draft can never
\* become deletable again, races included.
DraftNeverReturns ==
    [][\A d \in Docs : rows'[d].status = "draft" => rows[d].status \in {"draft", "unused"}]_rows

\* The statuses read of document d by worker w, about to run a statement that changes it.
SeenBy(w, d) == CASE req[w].step = "mark" -> {f[2] : f \in {g \in req[w].found : g[1] = d}}
                  [] req[w].step \in {"status", "delete"} /\ req[w].doc = d -> {req[w].old.status}
                  [] OTHER -> {}

\* However requests and the sweep interleave, a status only changes in a lawful way
\* from the status its writer read, and only a document read as a draft is deleted; so
\* a row leaves the lawful paths (archived becomes assigned, an assigned document is
\* deleted) only by a writer whose reading another request had overtaken.
ChangesFollowReading ==
    [][\A d \in Docs : rows[d].status # rows'[d].status /\ Live(d) =>
          \E w \in Workers : \E seen \in SeenBy(w, d) :
             /\ req'[w] # req[w]
             /\ seen # rows[d].status => d \in contended
             /\ IF rows'[d].status = "deleted" THEN seen = "draft"
                ELSE Lawful(seen, rows'[d].status)]_vars

-----------------------------------------------------------------------------
\* What holds when requests on one document do not overlap (Exclusive), still
\* with failing statements and restarts.

\* The handlers implement the lifecycle: see DocumentLifecycle.
Lifecycle == INSTANCE DocumentLifecycle
               WITH status <- [d \in Docs |-> rows[d].status],
                    stamped <- {d \in Docs : rows[d].archivedAt}

FollowsLifecycle == Lifecycle!Spec

\* The trail replays the document: it starts at the creation, each entry takes
\* over where the one before it ended, and the last one names the status the row
\* has, unless an entry is still due or was lost.
TrailReplays ==
    \A d \in Docs : Live(d) /\ <<d, "status">> \notin unrecorded =>
        LET trail == history[d].status
        IN /\ \A i \in 1 .. Len(trail) :
                trail[i].old = IF i = 1 THEN "" ELSE trail[i - 1].new
           /\ \/ \E w \in Workers : <<d, "status">> \in Owed(w)
              \/ trail # <<>> /\ trail[Len(trail)].new = rows[d].status

\* The same for the responsible user (creation may name one without an entry).
ResponsibleReplays ==
    \A d \in Docs : Live(d) /\ <<d, "responsible">> \notin unrecorded =>
        LET trail == history[d].responsible
        IN /\ \A i \in 2 .. Len(trail) : trail[i].old = trail[i - 1].new
           /\ \/ \E w \in Workers : <<d, "responsible">> \in Owed(w)
              \/ trail = <<>>
              \/ trail[Len(trail)].new = rows[d].responsible

\* A document flagged overdue still has the deadline it missed, or a later one:
\* no edit gives a deadline back to NULL.
OverdueHasDeadline ==
    \A d \in Docs : rows[d].isOverdue => rows[d].deadline # NoTime

\* What the tables say of a document agrees: both trails replay it, and its flag
\* goes with its deadline.
RecordAgrees == TrailReplays /\ ResponsibleReplays /\ OverdueHasDeadline

-----------------------------------------------------------------------------
\* What README.md says of the service.

\* README.md:70, "Status transitions are enforced by a state machine in the
\* service layer": every change of a row's status is a transition of the table.
TransitionsEnforced ==
    [][\A d \in Docs : Live(d) /\ rows'[d].status \in Statuses \ {rows[d].status}
                       => CanTransition(rows[d].status, rows'[d].status)]_rows

=============================================================================
