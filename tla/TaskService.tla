------------------------------- MODULE TaskService -------------------------------
(***************************************************************************)
(* task-service: the rows of `tasks`, the audit trail in `task_history`,   *)
(* and the requests in flight.  A handler of                               *)
(* internal/service/task_service.go reads the row, decides, and then runs  *)
(* autocommitted statements that say WHERE id = $1 only; one action here   *)
(* is one statement with the code up to the next one.  Any number of       *)
(* requests may be under way on one task.                                  *)
(*                                                                         *)
(* Not here: the notification and calendar calls, wired to no-op clients   *)
(* in app.go, and what the doors make of a request (see Doors).            *)
(***************************************************************************)
EXTENDS Naturals, Sequences

CONSTANTS Tasks,     \* identifiers gen_random_uuid() hands out, each once
          Workers,   \* requests the server can be serving at one time
          Users,     \* possible assignees
          Deadlines, \* instants a deadline can name
          NoUser,    \* assignee_id IS NULL
          NoTime,    \* deadline IS NULL
          MaxTime,   \* bound: the clock stops here
          MaxTrail   \* bound: no new request for a task whose trail is this long

ASSUME ConstantsOK == /\ Deadlines \subseteq Nat /\ MaxTime \in Nat /\ MaxTrail \in Nat
                      /\ Tasks # {} /\ NoTime \notin Nat

VARIABLES rows,       \* the table `tasks`
          history,    \* the table `task_history`, per task and field
          req,        \* what each worker is doing
          now,        \* the database clock
          unrecorded, \* <<task, field>> pairs whose change lost its entry (ghost)
          contended   \* tasks two requests have worked on at one time (ghost)

vars == <<rows, history, req, now, unrecorded, contended>>

-----------------------------------------------------------------------------
\* domain/task.go

Statuses == {"open", "in_progress", "done", "overdue"}

AllowedTransitions == [open        |-> {"in_progress", "overdue"},
                       in_progress |-> {"done", "overdue"},
                       done        |-> {},
                       overdue     |-> {"in_progress", "done"}]

CanTransition(from, to) == from # to /\ to \in AllowedTransitions[from]

\* The columns handlers decide on or write; no handler decides on the text.
Row == [status : Statuses \cup {"unused", "deleted"},
        assignee : Users \cup {NoUser}, deadline : Deadlines \cup {NoTime}]

Blank(status) == [status |-> status, assignee |-> NoUser, deadline |-> NoTime]

StatusEntry == [old : Statuses \cup {""}, new : Statuses]
AssigneeEntry == [old : Users \cup {NoUser}, new : Users]
Trail == [status : Seq(StatusEntry), assignee : Seq(AssigneeEntry)]
NoTrail == [status |-> <<>>, assignee |-> <<>>]

\* Where a handler stands: before which statement.
Steps == {"idle", "edit", "logEdit", "delete", "assign", "logAssign",
          "status", "logStatus", "mark", "logMarks"}

\* old, new: of the row GetByID returned and of what the handler will write, the
\* columns it needs later.  found: the tasks of FindOverdue with the status read.
Request == [step : Steps, task : Tasks, old : Row, new : Row,
            found : SUBSET (Tasks \X Statuses)]

Idle == [step |-> "idle", task |-> CHOOSE t \in Tasks : TRUE,
         old |-> Blank("unused"), new |-> Blank("unused"), found |-> {}]

TypeOK == /\ rows \in [Tasks -> Row]
          /\ history \in [Tasks -> Trail]
          /\ req \in [Workers -> Request]
          /\ now \in 0 .. MaxTime
          /\ unrecorded \subseteq Tasks \X {"status", "assignee"}
          /\ contended \subseteq Tasks

Live(t) == rows[t].status \in Statuses
Busy(w) == req[w].step # "idle"
Found(w) == {f[1] : f \in req[w].found}
On(w, t) == Busy(w) /\ (t \in Found(w) \/ (req[w].found = {} /\ req[w].task = t))

\* The entries worker w has made due by a write and not inserted yet.
Owed(w) == CASE req[w].step = "logStatus" -> {<<req[w].task, "status">>}
             [] req[w].step = "logAssign" -> {<<req[w].task, "assignee">>}
             [] req[w].step = "logMarks"  -> {<<t, "status">> : t \in Found(w)}
             [] OTHER                     -> {}

-----------------------------------------------------------------------------
\* Handlers up to their first write.

Contend(w, ts) == contended' = contended \cup {t \in ts : \E v \in Workers \ {w} : On(v, t)}

\* The handler for task t has read the row; it will next run the statement of `step`.
Begin(w, t, step, old, new) ==
    /\ ~Busy(w) /\ Len(history[t].status) + Len(history[t].assignee) < MaxTrail
    /\ req' = [req EXCEPT ![w] = [step |-> step, task |-> t, old |-> old, new |-> new, found |-> {}]]
    /\ Contend(w, {t})

\* The INSERT; its entry "" -> open is still due.
CreateTask(w, t) ==
    /\ rows[t].status = "unused"
    /\ \E deadline \in Deadlines \cup {NoTime} :
          rows' = [rows EXCEPT ![t] = [Blank("open") EXCEPT !.deadline = deadline]]
    /\ Begin(w, t, "logStatus", Blank("unused"), Blank("open"))
    /\ UNCHANGED <<history, now, unrecorded>>

\* A deadline the request leaves out keeps the value read; one can be moved, never removed.
UpdateTask(w, t) ==
    /\ Live(t) /\ rows[t].status # "done"
    /\ \E deadline \in Deadlines \cup {rows[t].deadline} :
          Begin(w, t, "edit", Blank("unused"), [Blank("unused") EXCEPT !.deadline = deadline])
    /\ UNCHANGED <<rows, history, now, unrecorded>>

\* Mutation: a task may be deleted whatever its status.
DeleteTaskUnchecked(w, t) ==
    /\ Live(t)
    /\ Begin(w, t, "delete", Blank(rows[t].status), Blank("unused"))
    /\ UNCHANGED <<rows, history, now, unrecorded>>

DeleteTask(w, t) ==
    /\ Live(t) /\ rows[t].status = "open"
    /\ Begin(w, t, "delete", Blank(rows[t].status), Blank("unused"))
    /\ UNCHANGED <<rows, history, now, unrecorded>>

AssignTask(w, t) ==
    /\ Live(t) /\ rows[t].status # "done"
    /\ \E u \in Users : Begin(w, t, "assign",
                              [Blank("unused") EXCEPT !.assignee = rows[t].assignee],
                              [Blank("unused") EXCEPT !.assignee = u])
    /\ UNCHANGED <<rows, history, now, unrecorded>>

ChangeTaskStatus(w, t) ==
    /\ Live(t)
    /\ \E to \in Statuses : /\ CanTransition(rows[t].status, to)
                            /\ Begin(w, t, "status", Blank(rows[t].status), Blank(to))
    /\ UNCHANGED <<rows, history, now, unrecorded>>

\* FindOverdue: NOT IN ('done', 'overdue').
Overdue(t) == /\ rows[t].status \in {"open", "in_progress"}
              /\ rows[t].deadline # NoTime /\ rows[t].deadline < now

MarkTasksOverdue(w) ==
    LET overdue == {t \in Tasks : Overdue(t)}
    IN  /\ ~Busy(w) /\ overdue # {}
        /\ req' = [req EXCEPT ![w] =
               [Idle EXCEPT !.step = "mark", !.found = {<<t, rows[t].status>> : t \in overdue}]]
        /\ Contend(w, overdue)
        /\ UNCHANGED <<rows, history, now, unrecorded>>

-----------------------------------------------------------------------------
\* The statements.

Goto(w, step) == req' = [req EXCEPT ![w].step = step]
Finish(w) == req' = [req EXCEPT ![w] = Idle]

\* UPDATE ... WHERE id = $1 of a task still there, then on to `step`.
Write(w, row, step) ==
    /\ Live(req[w].task)
    /\ rows' = [rows EXCEPT ![req[w].task] = row]
    /\ Goto(w, step)
    /\ UNCHANGED <<history, now, unrecorded, contended>>

\* RowsAffected() = 0, or a history insert whose foreign key is gone: the task was
\* deleted meanwhile and the handler returns the error.
Vanished(w) == /\ req[w].step \notin {"idle", "mark", "logMarks"}
               /\ ~Live(req[w].task)
               /\ Finish(w)
               /\ UNCHANGED <<rows, history, now, unrecorded, contended>>

\* All four columns an edit may touch are written back from the handler's copy.
WriteEdit(w) == /\ req[w].step = "edit"
                /\ Write(w, [rows[req[w].task] EXCEPT !.deadline = req[w].new.deadline], "logEdit")

SetAssignee(w) == /\ req[w].step = "assign"
                  /\ Write(w, [rows[req[w].task] EXCEPT !.assignee = req[w].new.assignee], "logAssign")

UpdateStatus(w) == /\ req[w].step = "status"
                   /\ Write(w, [rows[req[w].task] EXCEPT !.status = req[w].new.status], "logStatus")

\* The DELETE has no condition on status and cascades to the history.
DeleteRow(w) == /\ req[w].step = "delete"
                /\ Live(req[w].task)
                /\ rows' = [rows EXCEPT ![req[w].task] = Blank("deleted")]
                /\ history' = [history EXCEPT ![req[w].task] = NoTrail]
                /\ unrecorded' = {u \in unrecorded : u[1] # req[w].task}
                /\ Finish(w)
                /\ UNCHANGED <<now, contended>>

\* An edit's entry carries no values ("" -> "fields updated") and is not kept.
LogEdit(w) == /\ req[w].step = "logEdit"
              /\ Live(req[w].task)
              /\ Finish(w)
              /\ UNCHANGED <<rows, history, now, unrecorded, contended>>

LogAssignee(w) ==
    /\ req[w].step = "logAssign"
    /\ Live(req[w].task)
    /\ history' = [history EXCEPT ![req[w].task].assignee =
           Append(@, [old |-> req[w].old.assignee, new |-> req[w].new.assignee])]
    /\ Finish(w)
    /\ UNCHANGED <<rows, now, unrecorded, contended>>

\* INSERT INTO task_history for the field "status"; a creation has the old value "".
RecordStatus(t, old, new) ==
    history' = [history EXCEPT ![t].status =
        Append(@, [old |-> IF old = "unused" THEN "" ELSE old, new |-> new])]

\* Mutation: the old value is read from the row already overwritten.
LogStatusLate(w) ==
    /\ req[w].step = "logStatus"
    /\ Live(req[w].task)
    /\ RecordStatus(req[w].task, rows[req[w].task].status, req[w].new.status)
    /\ Finish(w)
    /\ UNCHANGED <<rows, now, unrecorded, contended>>

LogStatus(w) ==
    /\ req[w].step = "logStatus"
    /\ Live(req[w].task)
    /\ RecordStatus(req[w].task, req[w].old.status, req[w].new.status)
    /\ Finish(w)
    /\ UNCHANGED <<rows, now, unrecorded, contended>>

\* One UPDATE over the ids found, whatever their status has become.
MarkRows(w) ==
    /\ req[w].step = "mark"
    /\ rows' = [t \in Tasks |-> IF Live(t) /\ t \in Found(w)
                                THEN [rows[t] EXCEPT !.status = "overdue"] ELSE rows[t]]
    /\ Goto(w, "logMarks")
    /\ UNCHANGED <<history, now, unrecorded, contended>>

\* The sweep's loop moves to the next task, or the handler returns.
NextMark(w, f) == IF req[w].found = {f} THEN Finish(w)
                  ELSE req' = [req EXCEPT ![w].found = @ \ {f}]

\* Mutation: the sweep returns before its loop.
LogMarkSkipped(w) ==
    /\ req[w].step = "logMarks"
    /\ Finish(w)
    /\ UNCHANGED <<rows, history, now, unrecorded, contended>>

LogMark(w) ==
    /\ req[w].step = "logMarks"
    /\ \E f \in req[w].found :
         /\ IF Live(f[1]) THEN RecordStatus(f[1], f[2], "overdue") ELSE UNCHANGED history
         /\ NextMark(w, f)
    /\ UNCHANGED <<rows, now, unrecorded, contended>>

-----------------------------------------------------------------------------
\* The environment: failing statements, a dying process, the clock.

\* The next statement fails, or the caller's context ends: nothing is undone.
Fail(w) == /\ Busy(w) /\ req[w].step # "logMarks"
           /\ Finish(w)
           /\ unrecorded' = unrecorded \cup Owed(w)
           /\ UNCHANGED <<rows, history, now, contended>>

\* MarkTasksOverdue throws the insert's error away and carries on.
FailMark(w) == /\ req[w].step = "logMarks"
               /\ \E f \in req[w].found : /\ NextMark(w, f)
                                          /\ unrecorded' = unrecorded \cup {<<f[1], "status">>}
               /\ UNCHANGED <<rows, history, now, contended>>

Crash == /\ req' = [w \in Workers |-> Idle]
         /\ unrecorded' = unrecorded \cup UNION {Owed(w) : w \in Workers}
         /\ UNCHANGED <<rows, history, now, contended>>

Tick == /\ now < MaxTime
        /\ now' = now + 1
        /\ UNCHANGED <<rows, history, req, unrecorded, contended>>

-----------------------------------------------------------------------------

Init == /\ rows = [t \in Tasks |-> Blank("unused")]
        /\ history = [t \in Tasks |-> NoTrail]
        /\ req = [w \in Workers |-> Idle]
        /\ now = 0
        /\ unrecorded = {} /\ contended = {}

Arrive(w) == \/ \E t \in Tasks : \/ CreateTask(w, t) \/ UpdateTask(w, t) \/ DeleteTask(w, t)
                                 \/ AssignTask(w, t) \/ ChangeTaskStatus(w, t)
             \/ MarkTasksOverdue(w)

Continue(w) == \/ WriteEdit(w)   \/ LogEdit(w)     \/ DeleteRow(w)
               \/ SetAssignee(w) \/ LogAssignee(w)
               \/ UpdateStatus(w) \/ LogStatus(w)
               \/ MarkRows(w)    \/ LogMark(w)
               \/ Vanished(w)

Next == \/ \E w \in Workers : Arrive(w) \/ Continue(w) \/ Fail(w) \/ FailMark(w)
        \/ Crash
        \/ Tick

Spec == Init /\ [][Next]_vars

-----------------------------------------------------------------------------
\* Properties.

Recorded(t) ==
    \E i \in 1 .. Len(history[t].status) : history[t].status[i].new = rows[t].status

\* Worker w wrote the status the row shows and has its entry still to insert.
AnswersFor(w, t) ==
    \/ req[w].step = "logStatus" /\ req[w].task = t /\ req[w].new.status = rows[t].status
    \/ req[w].step = "logMarks" /\ t \in Found(w) /\ rows[t].status = "overdue"

\* The status a task shows is in its trail, or its writer is about to put it
\* there, or the insert that should have done so was lost to a failure, the
\* sweep's ignored ones included.
StatusAccountedFor ==
    \A t \in Tasks : Live(t) => \/ Recorded(t)
                                \/ \E w \in Workers : AnswersFor(w, t)
                                \/ <<t, "status">> \in unrecorded

\* Unless two requests have worked on a task at one time, its trail replays it:
\* entries join up from the creation on, and the last one names the status, and
\* the assignee, the row has, or is due, or was lost.
TrailReplays ==
    \A t \in Tasks \ contended : Live(t) =>
        LET trail == history[t].status
            users == history[t].assignee
            due(field) == \/ <<t, field>> \in unrecorded
                          \/ \E w \in Workers : <<t, field>> \in Owed(w)
        IN  /\ <<t, "status">> \notin unrecorded =>
                  \A i \in 1 .. Len(trail) : trail[i].old = IF i = 1 THEN "" ELSE trail[i - 1].new
            /\ due("status") \/ (trail # <<>> /\ trail[Len(trail)].new = rows[t].status)
            /\ <<t, "assignee">> \notin unrecorded =>
                  \A i \in 1 .. Len(users) : users[i].old = IF i = 1 THEN NoUser ELSE users[i - 1].new
            /\ due("assignee") \/ rows[t].assignee =
                  IF users = <<>> THEN NoUser ELSE users[Len(users)].new

\* The statuses read of task t by worker w, about to run a statement that changes it.
SeenBy(w, t) == CASE req[w].step = "mark" -> {f[2] : f \in {g \in req[w].found : g[1] = t}}
                  [] req[w].step \in {"status", "delete"} /\ req[w].task = t -> {req[w].old.status}
                  [] OTHER -> {}

\* However requests interleave, a status only changes as the table allows from the
\* status its writer read, and only a task read as open is deleted; so a task
\* leaves the table's paths (done comes back, work in progress is deleted) only by
\* a writer whose reading another request had overtaken.
ChangesFollowReading ==
    [][\A t \in Tasks : rows[t].status # rows'[t].status /\ Live(t) =>
          \E w \in Workers : \E seen \in SeenBy(w, t) :
             /\ req'[w] # req[w]
             /\ seen # rows[t].status => t \in contended
             /\ IF rows'[t].status = "deleted" THEN seen = "open"
                ELSE CanTransition(seen, rows'[t].status)]_vars
=============================================================================
