-------------------------- MODULE TaskService_proofs --------------------------
(***************************************************************************)
(* Theorems about TaskService, for every set of tasks, workers and users   *)
(* and every bound.                                                        *)
(*                                                                         *)
(* The inductive invariant has four parts: the types, what a handler may   *)
(* hold at each of its statements (Holding), that a task is contended as   *)
(* soon as two handlers are on it or one holds an overtaken status         *)
(* (Tracked), and how the trail of an uncontended task, with what its one  *)
(* handler has in hand, replays the row (Replays).                         *)
(***************************************************************************)
EXTENDS TaskService, TLAPS

RowStates == Statuses \cup {"unused", "deleted"}

\* What the handler of worker w holds before each of its statements.
HoldingOf(w) ==
    /\ req[w].step \in {"status", "logStatus"} => req[w].new.status \in Statuses
    /\ req[w].step = "status" => /\ req[w].old.status \in Statuses
                                 /\ CanTransition(req[w].old.status, req[w].new.status)
    /\ req[w].step = "logStatus" => req[w].old.status \in Statuses \cup {"unused"}
    /\ req[w].step \in {"assign", "logAssign"} => req[w].new.assignee \in Users
    /\ req[w].step = "delete" => req[w].old.status = "open"
    /\ req[w].step \in {"mark", "logMarks"} =>
          /\ req[w].found # {}
          /\ \A f \in req[w].found : f[2] \in {"open", "in_progress"}
    /\ req[w].step \notin {"mark", "logMarks"} => req[w].found = {}

Holding == \A w \in Workers : HoldingOf(w)

\* Two handlers on one task, or a status read and overtaken since, make a task contended.
Meetings == \A v, w \in Workers, t \in Tasks : v # w /\ On(v, t) /\ On(w, t) => t \in contended
Readings == \A w \in Workers, t \in Tasks : \A seen \in SeenBy(w, t) :
                seen # rows[t].status => t \in contended
Tracked == Meetings /\ Readings

-----------------------------------------------------------------------------
\* Typing of the records.

\* A blank row is a row, whatever the row state it is given.
LEMMA BlankIsRow == \A s \in RowStates : Blank(s) \in Row
BY DEF Blank, Row, RowStates

\* An idle worker's record is a request record.
LEMMA IdleIsRequest == Idle \in Request
<1>1. (CHOOSE t \in Tasks : TRUE) \in Tasks
  BY ConstantsOK
<1>2. Blank("unused") \in Row
  BY BlankIsRow DEF RowStates
<1>3. QED
  BY <1>1, <1>2 DEF Idle, Request, Steps

\* A request moved to another step, or a sweep left with fewer tasks, is a request.
LEMMA StepTyping ==
  ASSUME NEW r \in Request, NEW step \in Steps
  PROVE  [r EXCEPT !.step = step] \in Request
BY DEF Request

LEMMA FoundTyping ==
  ASSUME NEW r \in Request, NEW step \in Steps, NEW found \in SUBSET (Tasks \X Statuses)
  PROVE  /\ [r EXCEPT !.step = step, !.found = found] \in Request
         /\ [r EXCEPT !.found = found] \in Request
BY DEF Request

\* What the request of a typed state is made of.
LEMMA RequestTyping ==
  ASSUME NEW w \in Workers, TypeOK
  PROVE  /\ req[w] \in Request
         /\ req[w].step \in Steps /\ req[w].task \in Tasks
         /\ req[w].old \in Row /\ req[w].new \in Row
         /\ req[w].found \in SUBSET (Tasks \X Statuses)
         /\ \A f \in req[w].found : f[1] \in Tasks /\ f[2] \in Statuses
BY DEF TypeOK, Request

\* The trails of the tasks stay trails when an entry of the declared shape is added.
LEMMA RecordTyping ==
  ASSUME NEW t \in Tasks, NEW old \in Statuses \cup {"unused"}, NEW new \in Statuses,
         TypeOK, RecordStatus(t, old, new)
  PROVE  history' \in [Tasks -> Trail]
<1> DEFINE entry == [old |-> IF old = "unused" THEN "" ELSE old, new |-> new]
<1>1. history[t] \in Trail
  BY DEF TypeOK
<1>2. entry \in StatusEntry
  BY DEF StatusEntry
<1>3. \A e \in StatusEntry : [history[t] EXCEPT !.status = Append(history[t].status, e)] \in Trail
  <2> SUFFICES ASSUME NEW e \in StatusEntry
               PROVE  [history[t] EXCEPT !.status = Append(history[t].status, e)] \in Trail
    OBVIOUS
  <2>1. Append(history[t].status, e) \in Seq(StatusEntry)
    BY <1>1 DEF Trail
  <2>2. QED
    BY <1>1, <2>1 DEF Trail
<1>4. [history[t] EXCEPT !.status = Append(history[t].status, entry)] \in Trail
  <2> HIDE DEF entry
  <2> QED
    BY <1>2, <1>3
<1>5. history' = [history EXCEPT ![t] = [history[t] EXCEPT !.status = Append(history[t].status, entry)]]
  BY DEF RecordStatus, TypeOK
<1>6. QED
  BY <1>4, <1>5 DEF TypeOK

\* The entries a worker owes are of tasks, for one of the two fields.
LEMMA OwedTyping ==
  ASSUME TypeOK, NEW w \in Workers
  PROVE  Owed(w) \subseteq Tasks \X {"status", "assignee"}
BY RequestTyping DEF Owed, Found

-----------------------------------------------------------------------------
\* What a handler holds survives the steps it can take.

\* Another worker's request is none of its business.
LEMMA OthersHold ==
  ASSUME NEW w \in Workers, TypeOK, Holding,
         \A v \in Workers \ {w} : req'[v] = req[v], HoldingOf(w)'
  PROVE  Holding'
<1> SUFFICES ASSUME NEW v \in Workers PROVE HoldingOf(v)'
  BY DEF Holding
<1>1. CASE v = w
  BY <1>1
<1>2. CASE v # w
  BY <1>2 DEF Holding, HoldingOf
<1>3. QED
  BY <1>1, <1>2

\* A handler that returns holds nothing.
LEMMA IdleHolds ==
  ASSUME NEW w \in Workers, TypeOK, Holding, Finish(w)
  PROVE  req' \in [Workers -> Request] /\ Holding'
<1>1. req' \in [Workers -> Request]
  BY IdleIsRequest DEF Finish, TypeOK
<1>2. req'[w] = Idle /\ \A v \in Workers \ {w} : req'[v] = req[v]
  BY DEF Finish, TypeOK
<1>3. HoldingOf(w)'
  BY <1>2 DEF HoldingOf, Idle
<1>4. QED
  BY <1>1, <1>2, <1>3, OthersHold

\* A handler that goes on to its next statement holds what it needs there.
LEMMA GotoHolds ==
  ASSUME NEW w \in Workers, NEW step \in {"logEdit", "logAssign", "logStatus", "logMarks"},
         TypeOK, Holding, Goto(w, step),
         step = "logEdit" => req[w].step = "edit",
         step = "logAssign" => req[w].step = "assign",
         step = "logStatus" => req[w].step = "status",
         step = "logMarks" => req[w].step = "mark"
  PROVE  req' \in [Workers -> Request] /\ Holding'
<1>1. req[w] \in Request /\ step \in Steps
  BY RequestTyping DEF Steps
<1>2. [req[w] EXCEPT !.step = step] \in Request
  BY <1>1, StepTyping
<1>3. req' \in [Workers -> Request] /\ \A v \in Workers \ {w} : req'[v] = req[v]
  BY <1>2 DEF Goto, TypeOK
<1>4. /\ req'[w].step = step /\ req'[w].old = req[w].old
      /\ req'[w].new = req[w].new /\ req'[w].found = req[w].found
  BY <1>1 DEF Goto, TypeOK, Request
<1>5. HoldingOf(w)
  BY DEF Holding
<1>6. HoldingOf(w)'
  <2>1. CASE step = "logEdit"
    BY <1>4, <1>5, <2>1 DEF HoldingOf
  <2>2. CASE step = "logAssign"
    BY <1>4, <1>5, <2>2 DEF HoldingOf
  <2>3. CASE step = "logStatus"
    BY <1>4, <1>5, <2>3 DEF HoldingOf
  <2>4. CASE step = "logMarks"
    BY <1>4, <1>5, <2>4 DEF HoldingOf
  <2>5. QED
    BY <2>1, <2>2, <2>3, <2>4
<1>7. QED
  BY <1>3, <1>6, OthersHold

\* The sweep's loop leaves tasks the sweep selected.
LEMMA NextMarkHolds ==
  ASSUME NEW w \in Workers, NEW f, TypeOK, Holding, req[w].step = "logMarks", f \in req[w].found,
         NextMark(w, f)
  PROVE  req' \in [Workers -> Request] /\ Holding'
<1>1. CASE req[w].found = {f}
  BY <1>1, IdleHolds DEF NextMark
<1>2. CASE req[w].found # {f}
  <2>1. req[w] \in Request /\ req[w].found \ {f} \in SUBSET (Tasks \X Statuses)
    BY RequestTyping
  <2>2. [req[w] EXCEPT !.found = req[w].found \ {f}] \in Request
    BY <2>1, FoundTyping DEF Request
  <2>3. req' \in [Workers -> Request] /\ \A v \in Workers \ {w} : req'[v] = req[v]
    BY <1>2, <2>2 DEF NextMark, TypeOK
  <2>4. req'[w].step = "logMarks" /\ req'[w].found = req[w].found \ {f}
    BY <1>2, <2>1 DEF NextMark, TypeOK, Request
  <2>5. HoldingOf(w)'
    BY <1>2, <2>4 DEF Holding, HoldingOf
  <2>6. QED
    BY <2>3, <2>5, OthersHold
<1>3. QED
  BY <1>1, <1>2

\* A handler that begins holds what it has read and decided.
LEMMA BeginHolds ==
  ASSUME NEW w \in Workers, NEW t \in Tasks, NEW step \in Steps, NEW old \in Row, NEW new \in Row,
         TypeOK, Holding, Begin(w, t, step, old, new),
         step \notin {"mark", "logMarks"},
         step \in {"status", "logStatus"} => new.status \in Statuses,
         step = "status" => old.status \in Statuses /\ CanTransition(old.status, new.status),
         step = "logStatus" => old.status \in Statuses \cup {"unused"},
         step \in {"assign", "logAssign"} => new.assignee \in Users,
         step = "delete" => old.status = "open"
  PROVE  /\ req' \in [Workers -> Request] /\ Holding'
         /\ contended' \subseteq Tasks
<1>1. [step |-> step, task |-> t, old |-> old, new |-> new, found |-> {}] \in Request
  BY DEF Request
<1>2. req' \in [Workers -> Request] /\ contended' \subseteq Tasks
  BY <1>1 DEF Begin, Contend, TypeOK
<1>3. /\ req'[w] = [step |-> step, task |-> t, old |-> old, new |-> new, found |-> {}]
      /\ \A v \in Workers \ {w} : req'[v] = req[v]
  BY DEF Begin, TypeOK
<1>4. HoldingOf(w)'
  BY <1>3 DEF HoldingOf
<1>5. QED
  BY <1>2, <1>3, <1>4, OthersHold

-----------------------------------------------------------------------------
\* Types and holdings are kept, action by action.

Typed == TypeOK /\ Holding

\* Creating keeps the types: the entry still due is that of an open task.
LEMMA CreateKeeps ==
  ASSUME Typed, NEW w \in Workers, NEW t \in Tasks, CreateTask(w, t)
  PROVE  Typed'
<1>1. PICK deadline \in Deadlines \cup {NoTime} :
        rows' = [rows EXCEPT ![t] = [Blank("open") EXCEPT !.deadline = deadline]]
  BY DEF CreateTask
<1>2. Blank("open") \in Row /\ Blank("unused") \in Row
  BY BlankIsRow DEF RowStates, Statuses
<1>3. [Blank("open") EXCEPT !.deadline = deadline] \in Row
  BY <1>2 DEF Row
<1>4. rows' \in [Tasks -> Row]
  BY <1>1, <1>3 DEF Typed, TypeOK
<1>5. /\ Begin(w, t, "logStatus", Blank("unused"), Blank("open"))
      /\ Blank("open").status = "open" /\ Blank("unused").status = "unused"
  BY DEF CreateTask, Blank
<1>6. req' \in [Workers -> Request] /\ Holding' /\ contended' \subseteq Tasks
  BY <1>2, <1>5, BeginHolds DEF Typed, Steps, Statuses
<1>7. QED
  BY <1>4, <1>6 DEF CreateTask, Typed, TypeOK

\* Reading a row for a later write keeps them, whichever write that is.
LEMMA ReadKeeps ==
  ASSUME Typed, NEW w \in Workers, NEW t \in Tasks,
         UpdateTask(w, t) \/ DeleteTask(w, t) \/ AssignTask(w, t) \/ ChangeTaskStatus(w, t)
  PROVE  Typed'
<1>1. rows[t] \in Row /\ rows[t].status \in RowStates
  BY DEF Typed, TypeOK, Row, RowStates
<1>2. \A s \in RowStates : Blank(s) \in Row /\ Blank(s).status = s
  BY BlankIsRow DEF Blank
<1>3. Blank("unused") \in Row
  BY <1>2 DEF RowStates
<1>4. /\ req' \in [Workers -> Request] /\ Holding'
      /\ contended' \subseteq Tasks
  <2>1. CASE UpdateTask(w, t)
    <3>1. PICK deadline \in Deadlines \cup {rows[t].deadline} :
            Begin(w, t, "edit", Blank("unused"), [Blank("unused") EXCEPT !.deadline = deadline])
      BY <2>1 DEF UpdateTask
    <3>2. [Blank("unused") EXCEPT !.deadline = deadline] \in Row
      BY <1>1, <1>3 DEF Row
    <3>3. QED
      BY <1>3, <3>1, <3>2, BeginHolds DEF Typed, Steps
  <2>2. CASE DeleteTask(w, t)
    <3>1. /\ Begin(w, t, "delete", Blank(rows[t].status), Blank("unused"))
          /\ Blank(rows[t].status).status = "open"
      BY <1>1, <1>2, <2>2 DEF DeleteTask
    <3>2. QED
      BY <1>1, <1>2, <1>3, <3>1, BeginHolds DEF Typed, Steps
  <2>3. CASE AssignTask(w, t)
    <3>1. PICK u \in Users :
            Begin(w, t, "assign", [Blank("unused") EXCEPT !.assignee = rows[t].assignee],
                                  [Blank("unused") EXCEPT !.assignee = u])
      BY <2>3 DEF AssignTask
    <3>2. /\ [Blank("unused") EXCEPT !.assignee = rows[t].assignee] \in Row
          /\ [Blank("unused") EXCEPT !.assignee = u] \in Row
          /\ [Blank("unused") EXCEPT !.assignee = u].assignee = u
      BY <1>1, <1>3 DEF Row
    <3>3. QED
      BY <3>1, <3>2, BeginHolds DEF Typed, Steps
  <2>4. CASE ChangeTaskStatus(w, t)
    <3>1. PICK to \in Statuses : /\ CanTransition(rows[t].status, to)
                                 /\ Begin(w, t, "status", Blank(rows[t].status), Blank(to))
      BY <2>4 DEF ChangeTaskStatus
    <3>2. rows[t].status \in Statuses /\ to \in RowStates
      BY <2>4 DEF ChangeTaskStatus, Live, RowStates
    <3>3. /\ Blank(rows[t].status) \in Row /\ Blank(rows[t].status).status = rows[t].status
          /\ Blank(to) \in Row /\ Blank(to).status = to
      BY <1>1, <1>2, <3>2
    <3>4. QED
      BY <3>1, <3>2, <3>3, BeginHolds DEF Typed, Steps
  <2>5. QED
    BY <2>1, <2>2, <2>3, <2>4
<1>5. UNCHANGED <<rows, history, now, unrecorded>>
  BY DEF UpdateTask, DeleteTask, AssignTask, ChangeTaskStatus
<1>6. QED
  BY <1>4, <1>5 DEF Typed, TypeOK

\* The sweep selects work that is open or in progress.
LEMMA SweepKeeps ==
  ASSUME Typed, NEW w \in Workers, MarkTasksOverdue(w)
  PROVE  Typed'
<1> DEFINE overdue == {t \in Tasks : Overdue(t)}
           found == {<<t, rows[t].status>> : t \in overdue}
<1>1. /\ found \in SUBSET (Tasks \X Statuses) /\ found # {}
      /\ \A f \in found : f[2] \in {"open", "in_progress"}
  <2>1. overdue # {}
    BY DEF MarkTasksOverdue
  <2>2. \A t \in overdue : t \in Tasks /\ rows[t].status \in {"open", "in_progress"}
    BY DEF Overdue
  <2> HIDE DEF overdue
  <2>3. \A t \in overdue : <<t, rows[t].status>> \in Tasks \X Statuses
    BY <2>2 DEF Statuses
  <2>4. found \in SUBSET (Tasks \X Statuses)
    BY <2>3
  <2>5. \A f \in found : f[2] \in {"open", "in_progress"}
    BY <2>2
  <2>6. found # {}
    BY <2>1
  <2>7. QED
    BY <2>4, <2>5, <2>6
<1>2. req' = [req EXCEPT ![w] = [Idle EXCEPT !.step = "mark", !.found = found]]
  BY DEF MarkTasksOverdue
<1> HIDE DEF found
<1>3. [Idle EXCEPT !.step = "mark", !.found = found] \in Request
  BY <1>1, IdleIsRequest, FoundTyping DEF Steps
<1>4. req' \in [Workers -> Request] /\ \A v \in Workers \ {w} : req'[v] = req[v]
  BY <1>2, <1>3 DEF Typed, TypeOK
<1>5. req'[w].step = "mark" /\ req'[w].found = found
  BY <1>2, IdleIsRequest DEF Typed, TypeOK, Request
<1>6. HoldingOf(w)'
  BY <1>1, <1>5 DEF HoldingOf
<1>7. Holding'
  BY <1>4, <1>6, OthersHold DEF Typed
<1>8. contended' \subseteq Tasks
  BY DEF MarkTasksOverdue, Contend, Typed, TypeOK
<1>9. QED
  BY <1>4, <1>7, <1>8 DEF MarkTasksOverdue, Typed, TypeOK

\* The one-row writes put a row in place of a row.
LEMMA WriteKeeps ==
  ASSUME Typed, NEW w \in Workers, WriteEdit(w) \/ SetAssignee(w) \/ UpdateStatus(w)
  PROVE  Typed'
<1> DEFINE t == req[w].task
<1>1. t \in Tasks /\ rows[t] \in Row /\ req[w].new \in Row
  BY RequestTyping DEF Typed, TypeOK
<1>2. /\ [rows[t] EXCEPT !.deadline = req[w].new.deadline] \in Row
      /\ [rows[t] EXCEPT !.assignee = req[w].new.assignee] \in Row
      /\ [rows[t] EXCEPT !.status = req[w].new.status] \in Row
  BY <1>1 DEF Row
<1>3. ASSUME NEW row \in Row, NEW step, Write(w, row, step)
      PROVE  rows' \in [Tasks -> Row]
  BY <1>1, <1>3 DEF Write, Typed, TypeOK
<1>4. rows' \in [Tasks -> Row]
  <2>1. CASE WriteEdit(w)
    BY <1>2, <1>3, <2>1 DEF WriteEdit
  <2>2. CASE SetAssignee(w)
    BY <1>2, <1>3, <2>2 DEF SetAssignee
  <2>3. CASE UpdateStatus(w)
    BY <1>2, <1>3, <2>3 DEF UpdateStatus
  <2>4. QED
    BY <2>1, <2>2, <2>3
<1>5. req' \in [Workers -> Request] /\ Holding'
  <2>1. CASE WriteEdit(w)
    <3>1. req[w].step = "edit" /\ Goto(w, "logEdit")
      BY <2>1 DEF WriteEdit, Write
    <3>2. QED
      BY <3>1, GotoHolds DEF Typed
  <2>2. CASE SetAssignee(w)
    <3>1. req[w].step = "assign" /\ Goto(w, "logAssign")
      BY <2>2 DEF SetAssignee, Write
    <3>2. QED
      BY <3>1, GotoHolds DEF Typed
  <2>3. CASE UpdateStatus(w)
    <3>1. req[w].step = "status" /\ Goto(w, "logStatus")
      BY <2>3 DEF UpdateStatus, Write
    <3>2. QED
      BY <3>1, GotoHolds DEF Typed
  <2>4. QED
    BY <2>1, <2>2, <2>3
<1>6. UNCHANGED <<history, now, unrecorded, contended>>
  BY DEF WriteEdit, SetAssignee, UpdateStatus, Write
<1>7. QED
  BY <1>4, <1>5, <1>6 DEF Typed, TypeOK

\* The sweep's UPDATE leaves rows rows.
LEMMA MarkKeeps ==
  ASSUME Typed, NEW w \in Workers, MarkRows(w)
  PROVE  Typed'
<1>1. \A t \in Tasks : [rows[t] EXCEPT !.status = "overdue"] \in Row /\ rows[t] \in Row
  BY DEF Typed, TypeOK, Row, Statuses
<1>2. rows' \in [Tasks -> Row]
  BY <1>1 DEF MarkRows
<1>3. req[w].step = "mark" /\ Goto(w, "logMarks")
  BY DEF MarkRows
<1>4. req' \in [Workers -> Request] /\ Holding'
  BY <1>3, GotoHolds DEF Typed
<1>5. QED
  BY <1>2, <1>4 DEF MarkRows, Typed, TypeOK

\* The history inserts add entries of the declared shape.
LEMMA LogKeeps ==
  ASSUME Typed, NEW w \in Workers, LogStatus(w) \/ LogAssignee(w) \/ LogMark(w)
  PROVE  Typed'
<1>1. req[w].task \in Tasks /\ HoldingOf(w)
  BY RequestTyping DEF Typed, Holding
<1>2. history' \in [Tasks -> Trail]
  <2>1. CASE LogStatus(w)
    <3>1. /\ req[w].old.status \in Statuses \cup {"unused"}
          /\ req[w].new.status \in Statuses
      BY <1>1, <2>1 DEF LogStatus, HoldingOf
    <3>2. RecordStatus(req[w].task, req[w].old.status, req[w].new.status)
      BY <2>1 DEF LogStatus
    <3>3. QED
      BY <1>1, <3>1, <3>2, RecordTyping DEF Typed
  <2>2. CASE LogAssignee(w)
    <3> DEFINE t == req[w].task
               entry == [old |-> req[w].old.assignee, new |-> req[w].new.assignee]
    <3>1. history[t] \in Trail
      BY <1>1 DEF Typed, TypeOK
    <3>2. req[w].old.assignee \in Users \cup {NoUser} /\ req[w].new.assignee \in Users
      BY <1>1, <2>2, RequestTyping DEF LogAssignee, HoldingOf, Typed, Row
    <3>3. entry \in AssigneeEntry
      BY <3>2 DEF AssigneeEntry
    <3>4. Append(history[t].assignee, entry) \in Seq(AssigneeEntry)
      BY <3>1, <3>3 DEF Trail
    <3>5. [history[t] EXCEPT !.assignee = Append(history[t].assignee, entry)] \in Trail
      BY <3>1, <3>4 DEF Trail
    <3>6. history' = [history EXCEPT ![t] =
                        [history[t] EXCEPT !.assignee = Append(history[t].assignee, entry)]]
      BY <1>1, <2>2 DEF LogAssignee, Typed, TypeOK
    <3>7. QED
      BY <3>5, <3>6 DEF Typed, TypeOK
  <2>3. CASE LogMark(w)
    <3>1. PICK f \in req[w].found :
             IF Live(f[1]) THEN RecordStatus(f[1], f[2], "overdue") ELSE UNCHANGED history
      BY <2>3 DEF LogMark
    <3>2. f[1] \in Tasks /\ f[2] \in Statuses
      BY RequestTyping DEF Typed
    <3>3. CASE Live(f[1])
      <4>1. RecordStatus(f[1], f[2], "overdue") /\ "overdue" \in Statuses
        BY <3>1, <3>3 DEF Statuses
      <4>2. QED
        BY <3>2, <4>1, RecordTyping DEF Typed
    <3>4. CASE ~Live(f[1])
      BY <3>1, <3>4 DEF Typed, TypeOK
    <3>5. QED
      BY <3>3, <3>4
  <2>4. QED
    BY <2>1, <2>2, <2>3
<1>3. req' \in [Workers -> Request] /\ Holding'
  <2>1. CASE LogStatus(w) \/ LogAssignee(w)
    BY <2>1, IdleHolds DEF LogStatus, LogAssignee, Typed
  <2>2. CASE LogMark(w)
    BY <2>2, NextMarkHolds DEF LogMark, Typed
  <2>3. QED
    BY <2>1, <2>2
<1>4. UNCHANGED <<rows, now, unrecorded, contended>>
  BY DEF LogStatus, LogAssignee, LogMark
<1>5. QED
  BY <1>2, <1>3, <1>4 DEF Typed, TypeOK

\* A handler that returns early, its next statement failed or found nothing, keeps them.
LEMMA StopKeeps ==
  ASSUME Typed, NEW w \in Workers,
         DeleteRow(w) \/ LogEdit(w) \/ Vanished(w) \/ Fail(w) \/ FailMark(w)
  PROVE  Typed'
<1>1. req' \in [Workers -> Request] /\ Holding'
  <2>1. CASE FailMark(w)
    BY <2>1, NextMarkHolds DEF FailMark, Typed
  <2>2. CASE ~FailMark(w)
    BY <2>2, IdleHolds DEF DeleteRow, LogEdit, Vanished, Fail, Typed
  <2>3. QED
    BY <2>1, <2>2
<1>2. rows' \in [Tasks -> Row] /\ history' \in [Tasks -> Trail]
  <2>1. Blank("deleted") \in Row /\ NoTrail \in Trail
    BY BlankIsRow DEF RowStates, NoTrail, Trail
  <2>2. CASE DeleteRow(w)
    BY <2>1, <2>2 DEF DeleteRow, Typed, TypeOK
  <2>3. CASE ~DeleteRow(w)
    BY <2>3 DEF LogEdit, Vanished, Fail, FailMark, Typed, TypeOK
  <2>4. QED
    BY <2>2, <2>3
<1>3. unrecorded' \subseteq Tasks \X {"status", "assignee"}
  <2>1. CASE FailMark(w)
    <3>1. PICK f \in req[w].found : unrecorded' = unrecorded \cup {<<f[1], "status">>}
      BY <2>1 DEF FailMark
    <3>2. f[1] \in Tasks
      BY RequestTyping DEF Typed
    <3>3. QED
      BY <3>1, <3>2 DEF Typed, TypeOK
  <2>2. CASE ~FailMark(w)
    BY <2>2, OwedTyping DEF DeleteRow, LogEdit, Vanished, Fail, Typed, TypeOK
  <2>3. QED
    BY <2>1, <2>2
<1>4. UNCHANGED <<now, contended>>
  BY DEF DeleteRow, LogEdit, Vanished, Fail, FailMark
<1>5. QED
  BY <1>1, <1>2, <1>3, <1>4 DEF Typed, TypeOK

\* The death of the process frees every worker.
LEMMA CrashKeeps ==
  ASSUME Typed, Crash
  PROVE  Typed'
<1>1. req' \in [Workers -> Request] /\ \A w \in Workers : req'[w] = Idle
  BY IdleIsRequest DEF Crash
<1>2. Holding'
  BY <1>1 DEF Holding, HoldingOf, Idle
<1>3. unrecorded' \subseteq Tasks \X {"status", "assignee"}
  BY OwedTyping DEF Crash, Typed, TypeOK
<1>4. QED
  BY <1>1, <1>2, <1>3 DEF Crash, Typed, TypeOK

\* Every step keeps types and holdings.
LEMMA NextKeeps == Typed /\ [Next]_vars => Typed'
<1> SUFFICES ASSUME Typed, [Next]_vars PROVE Typed'
  OBVIOUS
<1>1. CASE \E w \in Workers, t \in Tasks :
             \/ CreateTask(w, t) \/ UpdateTask(w, t) \/ DeleteTask(w, t)
             \/ AssignTask(w, t) \/ ChangeTaskStatus(w, t)
  BY <1>1, CreateKeeps, ReadKeeps
<1>2. CASE \E w \in Workers : MarkTasksOverdue(w)
  BY <1>2, SweepKeeps
<1>3. CASE \E w \in Workers : Continue(w)
  BY <1>3, WriteKeeps, MarkKeeps, LogKeeps, StopKeeps DEF Continue
<1>4. CASE \E w \in Workers : Fail(w) \/ FailMark(w)
  BY <1>4, StopKeeps
<1>5. CASE Crash
  BY <1>5, CrashKeeps
<1>6. CASE Tick
  <2>1. Holding'
    BY <1>6 DEF Tick, Typed, Holding, HoldingOf
  <2>2. QED
    BY <1>6, <2>1, ConstantsOK DEF Tick, Typed, TypeOK
<1>7. CASE UNCHANGED vars
  <2>1. Holding'
    BY <1>7 DEF vars, Typed, Holding, HoldingOf
  <2>2. QED
    BY <1>7, <2>1 DEF vars, Typed, TypeOK
<1>8. QED
  BY <1>1, <1>2, <1>3, <1>4, <1>5, <1>6, <1>7 DEF Next, Arrive

\* The empty database and the idle server are typed.
LEMMA InitTyped == Init => Typed
<1> SUFFICES ASSUME Init PROVE Typed
  OBVIOUS
<1>1. rows \in [Tasks -> Row]
  BY BlankIsRow DEF Init, RowStates
<1>2. history \in [Tasks -> Trail]
  BY DEF Init, NoTrail, Trail
<1>3. req \in [Workers -> Request]
  BY IdleIsRequest DEF Init
<1>4. Holding
  BY DEF Init, Holding, HoldingOf, Idle
<1>5. QED
  BY <1>1, <1>2, <1>3, <1>4, ConstantsOK DEF Init, Typed, TypeOK

\* Every reachable state is well typed, and every handler holds at each of its
\* statements what that statement needs: a status the table allows from the one
\* read, an assignee who is a user, an open task to delete.
THEOREM TypeCorrect == Spec => [](TypeOK /\ Holding)
<1>1. Typed => TypeOK /\ Holding
  BY DEF Typed
<1>2. QED
  BY InitTyped, NextKeeps, <1>1, PTL DEF Spec

-----------------------------------------------------------------------------
\* Who is on a task, and who holds a status of it.

\* A handler that holds a status of a task is on that task.
LEMMA SeenIsOn ==
  ASSUME Typed, NEW w \in Workers, NEW t \in Tasks, SeenBy(w, t) # {}
  PROVE  On(w, t)
<1>1. CASE req[w].step = "mark"
  <2>1. PICK f \in req[w].found : f[1] = t
    BY <1>1 DEF SeenBy
  <2>2. QED
    BY <1>1, <2>1 DEF On, Busy, Found
<1>2. CASE req[w].step \in {"status", "delete"} /\ req[w].task = t
  BY <1>2 DEF On, Busy, Typed, Holding, HoldingOf
<1>3. QED
  BY <1>1, <1>2 DEF SeenBy

\* A step that takes handlers off tasks and readings out of hands keeps track, if
\* whoever changes a status is on that task and holds none of its statuses afterwards.
LEMMA Settles ==
  ASSUME Typed, Tracked, contended' = contended,
         \A v \in Workers, t \in Tasks : On(v, t)' => On(v, t),
         \A v \in Workers, t \in Tasks : SeenBy(v, t)' \subseteq SeenBy(v, t),
         \A t \in Tasks : rows'[t].status # rows[t].status =>
             \E w \in Workers : On(w, t) /\ SeenBy(w, t)' = {}
  PROVE  Tracked'
<1>1. Meetings'
  BY DEF Tracked, Meetings
<1>2. Readings'
  <2> SUFFICES ASSUME NEW v \in Workers, NEW t \in Tasks, NEW seen \in SeenBy(v, t)',
                      seen # rows'[t].status
               PROVE  t \in contended
    BY DEF Readings
  <2>1. seen \in SeenBy(v, t)
    OBVIOUS
  <2>2. CASE rows'[t].status = rows[t].status
    BY <2>1, <2>2 DEF Tracked, Readings
  <2>3. CASE rows'[t].status # rows[t].status
    <3>1. PICK w \in Workers : On(w, t) /\ SeenBy(w, t)' = {}
      BY <2>3
    <3>2. v # w /\ On(v, t)
      BY <2>1, <3>1, SeenIsOn
    <3>3. QED
      BY <3>1, <3>2 DEF Tracked, Meetings
  <2>4. QED
    BY <2>2, <2>3
<1>3. QED
  BY <1>1, <1>2 DEF Tracked

\* A handler that comes to some tasks keeps track: those another is on are contended
\* from then on, and what it holds of a task is what the row shows.
LEMMA Starts ==
  ASSUME Typed, Tracked, NEW w \in Workers, NEW ts \in SUBSET Tasks, Contend(w, ts),
         \A v \in Workers \ {w} : req'[v] = req[v],
         \A t \in Tasks : On(w, t)' => t \in ts,
         \A t \in Tasks : \A seen \in SeenBy(w, t)' : seen = rows'[t].status,
         \A t \in Tasks \ ts : rows'[t].status = rows[t].status
  PROVE  Tracked'
<1>1. \A t \in Tasks : t \in contended => t \in contended'
  BY DEF Contend
<1>2. \A v \in Workers \ {w}, t \in Tasks : t \in ts /\ On(v, t) => t \in contended'
  BY DEF Contend
<1>3. \A v \in Workers \ {w}, t \in Tasks : (On(v, t)' <=> On(v, t)) /\ SeenBy(v, t)' = SeenBy(v, t)
  BY DEF On, Busy, Found, SeenBy
<1>4. Meetings'
  <2> SUFFICES ASSUME NEW u \in Workers, NEW v \in Workers, NEW t \in Tasks,
                      u # v, On(u, t)', On(v, t)'
               PROVE  t \in contended'
    BY DEF Meetings
  <2>1. CASE u = w
    BY <1>2, <1>3, <2>1
  <2>2. CASE v = w
    BY <1>2, <1>3, <2>2
  <2>3. CASE u # w /\ v # w
    BY <1>1, <1>3, <2>3 DEF Tracked, Meetings
  <2>4. QED
    BY <2>1, <2>2, <2>3
<1>5. Readings'
  <2> SUFFICES ASSUME NEW v \in Workers, NEW t \in Tasks, NEW seen \in SeenBy(v, t)',
                      seen # rows'[t].status
               PROVE  t \in contended'
    BY DEF Readings
  <2>1. v # w
    OBVIOUS
  <2>2. seen \in SeenBy(v, t) /\ On(v, t)
    BY <1>3, <2>1, SeenIsOn
  <2>3. CASE t \in ts
    BY <1>2, <2>1, <2>2, <2>3
  <2>4. CASE t \notin ts
    BY <1>1, <2>2, <2>4 DEF Tracked, Readings
  <2>5. QED
    BY <2>3, <2>4
<1>6. QED
  BY <1>4, <1>5 DEF Tracked

\* A handler under way that returns, goes on to a history insert, or drops a task of
\* its sweep is on no new task and holds no status.
LEMMA Onward ==
  ASSUME Typed, NEW w \in Workers, Busy(w),
         \/ Finish(w)
         \/ \E step \in {"logEdit", "logAssign", "logStatus", "logMarks"} : Goto(w, step)
         \/ req[w].step = "logMarks" /\ \E f \in req[w].found : NextMark(w, f)
  PROVE  /\ \A v \in Workers, t \in Tasks : On(v, t)' => On(v, t)
         /\ \A v \in Workers, t \in Tasks : SeenBy(v, t)' \subseteq SeenBy(v, t)
         /\ \A t \in Tasks : SeenBy(w, t)' = {}
<1>1. \A v \in Workers \ {w} : req'[v] = req[v]
  BY DEF Finish, Goto, NextMark, Typed, TypeOK
<1>2. \A v \in Workers \ {w}, t \in Tasks : (On(v, t)' <=> On(v, t)) /\ SeenBy(v, t)' = SeenBy(v, t)
  BY <1>1 DEF On, Busy, Found, SeenBy
<1>3. (\A t \in Tasks : On(w, t)' => On(w, t)) /\ (\A t \in Tasks : SeenBy(w, t)' = {})
  <2>1. CASE Finish(w)
    <3>1. req'[w].step = "idle"
      BY <2>1 DEF Finish, Idle, Typed, TypeOK
    <3>2. QED
      BY <3>1 DEF On, Busy, SeenBy
  <2>2. CASE \E step \in {"logEdit", "logAssign", "logStatus", "logMarks"} : Goto(w, step)
    <3>1. PICK step \in {"logEdit", "logAssign", "logStatus", "logMarks"} : Goto(w, step)
      BY <2>2
    <3>2. req'[w].step = step /\ req'[w].task = req[w].task /\ req'[w].found = req[w].found
      BY <3>1 DEF Goto, Typed, TypeOK, Request
    <3>3. QED
      BY <3>2 DEF On, Busy, Found, SeenBy
  <2>3. CASE req[w].step = "logMarks" /\ (\E f \in req[w].found : NextMark(w, f)) /\ ~Finish(w)
    <3>1. PICK f \in req[w].found : req' = [req EXCEPT ![w].found = @ \ {f}] /\ req[w].found # {f}
      BY <2>3 DEF NextMark
    <3>2. req'[w].step = "logMarks" /\ req'[w].found = req[w].found \ {f}
      BY <2>3, <3>1 DEF Typed, TypeOK, Request
    <3>3. req'[w].found # {}
      BY <3>1, <3>2
    <3>4. QED
      BY <3>2, <3>3 DEF On, Busy, Found, SeenBy
  <2>4. QED
    BY <2>1, <2>2, <2>3
<1>4. QED
  BY <1>2, <1>3

-----------------------------------------------------------------------------
\* Tracking is kept, action by action.

\* Creating, or reading a row for a later write.
LEMMA ArriveTracks ==
  ASSUME Typed, Tracked, NEW w \in Workers, NEW t \in Tasks,
         \/ CreateTask(w, t) \/ UpdateTask(w, t) \/ DeleteTask(w, t)
         \/ AssignTask(w, t) \/ ChangeTaskStatus(w, t)
  PROVE  Tracked'
<1>1. PICK step, old, new :
        /\ step \in {"logStatus", "edit", "delete", "assign", "status"}
        /\ Begin(w, t, step, old, new)
        /\ step \in {"status", "delete"} => old.status = rows'[t].status
  <2>1. \A s \in RowStates : Blank(s).status = s
    BY DEF Blank
  <2>2. rows[t].status \in RowStates
    BY DEF Typed, TypeOK, Row, RowStates
  <2>3. CASE CreateTask(w, t)
    BY <2>3 DEF CreateTask
  <2>4. CASE UpdateTask(w, t)
    BY <2>4 DEF UpdateTask
  <2>5. CASE DeleteTask(w, t)
    BY <2>1, <2>2, <2>5 DEF DeleteTask
  <2>6. CASE AssignTask(w, t)
    BY <2>6 DEF AssignTask
  <2>7. CASE ChangeTaskStatus(w, t)
    BY <2>1, <2>2, <2>7 DEF ChangeTaskStatus
  <2>8. QED
    BY <2>3, <2>4, <2>5, <2>6, <2>7
<1>2. /\ req'[w] = [step |-> step, task |-> t, old |-> old, new |-> new, found |-> {}]
      /\ \A v \in Workers \ {w} : req'[v] = req[v]
      /\ Contend(w, {t})
  BY <1>1 DEF Begin, Typed, TypeOK
<1>3. \A s \in Tasks : On(w, s)' => s \in {t}
  BY <1>2 DEF On, Found
<1>4. \A s \in Tasks : \A seen \in SeenBy(w, s)' : seen = rows'[s].status
  BY <1>1, <1>2 DEF SeenBy
<1>5. \A s \in Tasks \ {t} : rows'[s].status = rows[s].status
  BY DEF CreateTask, UpdateTask, DeleteTask, AssignTask, ChangeTaskStatus, Typed, TypeOK
<1>6. QED
  BY <1>2, <1>3, <1>4, <1>5, Starts

\* The sweep's selection.
LEMMA SweepTracks ==
  ASSUME Typed, Tracked, NEW w \in Workers, MarkTasksOverdue(w)
  PROVE  Tracked'
<1> DEFINE overdue == {t \in Tasks : Overdue(t)}
           found == {<<t, rows[t].status>> : t \in overdue}
<1>1. req' = [req EXCEPT ![w] = [Idle EXCEPT !.step = "mark", !.found = found]]
  BY DEF MarkTasksOverdue
<1>2. /\ req'[w].step = "mark" /\ req'[w].found = found
      /\ \A v \in Workers \ {w} : req'[v] = req[v]
  BY <1>1, IdleIsRequest DEF Typed, TypeOK, Request
<1>3. overdue # {} /\ Contend(w, overdue) /\ rows' = rows
  BY DEF MarkTasksOverdue
<1>4. \A t \in Tasks : On(w, t)' => t \in overdue
  <2>1. req'[w].found # {}
    BY <1>2, <1>3
  <2>2. QED
    BY <1>2, <2>1 DEF On, Found
<1>5. \A t \in Tasks : \A seen \in SeenBy(w, t)' : seen = rows'[t].status
  BY <1>2, <1>3 DEF SeenBy
<1> HIDE DEF overdue
<1>6. overdue \in SUBSET Tasks
  BY DEF overdue
<1>7. QED
  BY <1>2, <1>3, <1>4, <1>5, <1>6, Starts

\* Every statement under way: who changes a status is on the task and is done reading.
LEMMA ContinueTracks ==
  ASSUME Typed, Tracked, NEW w \in Workers, Continue(w) \/ Fail(w) \/ FailMark(w)
  PROVE  Tracked'
<1>1. Busy(w) /\ contended' = contended
  BY DEF Continue, WriteEdit, LogEdit, DeleteRow, SetAssignee, LogAssignee, UpdateStatus, LogStatus,
         MarkRows, LogMark, Vanished, Fail, FailMark, Write, Busy
<1>2. \/ Finish(w)
      \/ \E step \in {"logEdit", "logAssign", "logStatus", "logMarks"} : Goto(w, step)
      \/ req[w].step = "logMarks" /\ \E f \in req[w].found : NextMark(w, f)
  BY DEF Continue, WriteEdit, LogEdit, DeleteRow, SetAssignee, LogAssignee, UpdateStatus, LogStatus,
         MarkRows, LogMark, Vanished, Fail, FailMark, Write
<1>3. \A t \in Tasks : rows'[t].status # rows[t].status => On(w, t)
  <2>1. CASE MarkRows(w)
    BY <1>1, <2>1 DEF MarkRows, On
  <2>2. CASE ~MarkRows(w)
    <3>1. \A t \in Tasks : rows'[t].status # rows[t].status =>
             t = req[w].task /\ req[w].step \notin {"mark", "logMarks"}
      BY <2>2, RequestTyping
         DEF Continue, WriteEdit, LogEdit, DeleteRow, SetAssignee, LogAssignee, UpdateStatus,
             LogStatus, LogMark, Vanished, Fail, FailMark, Write, Typed, TypeOK, Row
    <3>2. QED
      BY <1>1, <3>1 DEF On, Typed, Holding, HoldingOf
  <2>3. QED
    BY <2>1, <2>2
<1>4. /\ \A v \in Workers, t \in Tasks : On(v, t)' => On(v, t)
      /\ \A v \in Workers, t \in Tasks : SeenBy(v, t)' \subseteq SeenBy(v, t)
      /\ \A t \in Tasks : SeenBy(w, t)' = {}
  BY <1>1, <1>2, Onward
<1>5. QED
  BY <1>1, <1>3, <1>4, Settles

\* Every step keeps track.
LEMMA NextTracks == Typed /\ Tracked /\ [Next]_vars => Tracked'
<1> SUFFICES ASSUME Typed, Tracked, [Next]_vars PROVE Tracked'
  OBVIOUS
<1>1. CASE \E w \in Workers, t \in Tasks :
             \/ CreateTask(w, t) \/ UpdateTask(w, t) \/ DeleteTask(w, t)
             \/ AssignTask(w, t) \/ ChangeTaskStatus(w, t)
  BY <1>1, ArriveTracks
<1>2. CASE \E w \in Workers : MarkTasksOverdue(w)
  BY <1>2, SweepTracks
<1>3. CASE \E w \in Workers : Continue(w) \/ Fail(w) \/ FailMark(w)
  BY <1>3, ContinueTracks
<1>4. CASE Crash
  <2>1. \A w \in Workers : req'[w].step = "idle"
    BY <1>4 DEF Crash, Idle
  <2>2. QED
    BY <2>1 DEF Tracked, Meetings, Readings, On, Busy, SeenBy
<1>5. CASE Tick \/ UNCHANGED vars
  BY <1>5 DEF Tick, vars, Tracked, Meetings, Readings, On, Busy, Found, SeenBy
<1>6. QED
  BY <1>1, <1>2, <1>3, <1>4, <1>5 DEF Next, Arrive

\* The action of ChangesFollowReading.
FollowsReading ==
    \A t \in Tasks : rows[t].status # rows'[t].status /\ Live(t) =>
        \E w \in Workers : \E seen \in SeenBy(w, t) :
           /\ req'[w] # req[w]
           /\ seen # rows[t].status => t \in contended
           /\ IF rows'[t].status = "deleted" THEN seen = "open"
              ELSE CanTransition(seen, rows'[t].status)

\* Only three statements change the status of a live task, each from a status read.
LEMMA StepFollowsReading ==
  ASSUME Typed, Tracked, [Next]_vars
  PROVE  FollowsReading
<1> SUFFICES ASSUME NEW t \in Tasks, rows[t].status # rows'[t].status, Live(t)
             PROVE  \E w \in Workers : \E seen \in SeenBy(w, t) :
                       /\ req'[w] # req[w]
                       /\ seen # rows[t].status => t \in contended
                       /\ IF rows'[t].status = "deleted" THEN seen = "open"
                          ELSE CanTransition(seen, rows'[t].status)
  BY DEF FollowsReading
<1>1. PICK w \in Workers : UpdateStatus(w) \/ DeleteRow(w) \/ MarkRows(w)
  <2>1. ASSUME NEW w \in Workers, NEW s \in Tasks, CreateTask(w, s)
        PROVE  FALSE
    BY <2>1 DEF CreateTask, Live, Statuses, Typed, TypeOK
  <2>2. ASSUME NEW w \in Workers, WriteEdit(w) \/ SetAssignee(w)
        PROVE  FALSE
    <3>1. PICK row : rows' = [rows EXCEPT ![req[w].task] = row]
                     /\ row.status = rows[req[w].task].status
      <4>1. req[w].task \in Tasks /\ rows[req[w].task] \in Row
        BY RequestTyping DEF Typed, TypeOK
      <4>2. \A d, u : /\ [rows[req[w].task] EXCEPT !.deadline = d].status = rows[req[w].task].status
                      /\ [rows[req[w].task] EXCEPT !.assignee = u].status = rows[req[w].task].status
        BY <4>1 DEF Row
      <4>3. CASE WriteEdit(w)
        BY <4>2, <4>3 DEF WriteEdit, Write
      <4>4. CASE SetAssignee(w)
        BY <4>2, <4>4 DEF SetAssignee, Write
      <4>5. QED
        BY <2>2, <4>3, <4>4
    <3>2. QED
      BY <3>1 DEF Typed, TypeOK
  <2>3. rows' # rows
    OBVIOUS
  <2>4. QED
    BY <2>1, <2>2, <2>3
       DEF Next, Arrive, Continue, UpdateTask, DeleteTask, AssignTask, ChangeTaskStatus,
           MarkTasksOverdue, LogEdit, LogAssignee, LogStatus, LogMark, Vanished, Fail, FailMark,
           Crash, Tick, vars
<1>2. \A seen \in SeenBy(w, t) : seen # rows[t].status => t \in contended
  BY DEF Tracked, Readings
<1>3. /\ req[w] \in Request /\ req[w].task \in Tasks /\ HoldingOf(w)
      /\ rows[t] \in Row
  BY RequestTyping DEF Typed, Holding, TypeOK
<1>4. CASE UpdateStatus(w)
  <2>1. req[w].step = "status" /\ t = req[w].task
    BY <1>3, <1>4 DEF UpdateStatus, Write, Typed, TypeOK
  <2>2. rows'[t].status = req[w].new.status
    BY <1>3, <1>4, <2>1 DEF UpdateStatus, Write, Typed, TypeOK, Row
  <2>3. req'[w].step = "logStatus"
    BY <1>3, <1>4 DEF UpdateStatus, Write, Goto, Typed, TypeOK, Request
  <2>4. /\ CanTransition(req[w].old.status, req[w].new.status)
        /\ req[w].new.status # "deleted"
    BY <1>3, <2>1 DEF HoldingOf, Statuses
  <2>5. req[w].old.status \in SeenBy(w, t)
    BY <2>1 DEF SeenBy
  <2>6. QED
    BY <1>2, <2>1, <2>2, <2>3, <2>4, <2>5
<1>5. CASE DeleteRow(w)
  <2>1. req[w].step = "delete" /\ t = req[w].task
    BY <1>3, <1>5 DEF DeleteRow, Typed, TypeOK
  <2>2. rows'[t].status = "deleted"
    BY <1>5, <2>1 DEF DeleteRow, Typed, TypeOK, Blank
  <2>3. req'[w].step = "idle"
    BY <1>5 DEF DeleteRow, Finish, Idle, Typed, TypeOK
  <2>4. req[w].old.status = "open"
    BY <1>3, <2>1 DEF HoldingOf
  <2>5. req[w].old.status \in SeenBy(w, t)
    BY <2>1 DEF SeenBy
  <2>6. QED
    BY <1>2, <2>1, <2>2, <2>3, <2>4, <2>5
<1>6. CASE MarkRows(w)
  <2>1. req[w].step = "mark" /\ t \in Found(w)
    BY <1>6 DEF MarkRows
  <2>2. PICK f \in req[w].found : f[1] = t
    BY <2>1 DEF Found
  <2>3. rows'[t].status = "overdue"
    BY <1>3, <1>6, <2>1 DEF MarkRows, Row
  <2>4. req'[w].step = "logMarks"
    BY <1>3, <1>6 DEF MarkRows, Goto, Typed, TypeOK, Request
  <2>5. CanTransition(f[2], "overdue")
    BY <1>3, <2>1 DEF HoldingOf, CanTransition, AllowedTransitions
  <2>6. f[2] \in SeenBy(w, t)
    BY <2>1, <2>2 DEF SeenBy
  <2>7. QED
    BY <1>2, <2>1, <2>3, <2>4, <2>5, <2>6
<1>7. QED
  BY <1>1, <1>4, <1>5, <1>6

\* However any number of requests interleave, a status only changes as the table allows
\* from the status its writer read, and only a task read as open is deleted; a reading
\* that was overtaken makes the task contended.
THEOREM ChangesFollow == Spec => ChangesFollowReading
<1>1. Init => Tracked
  <2>1. ASSUME Init, NEW w \in Workers
        PROVE  req[w].step = "idle"
    BY <2>1 DEF Init, Idle
  <2>2. QED
    BY <2>1 DEF Tracked, Meetings, Readings, On, Busy, SeenBy
<1>2. Typed /\ Tracked /\ [Next]_vars => [FollowsReading]_vars
  BY StepFollowsReading
<1>3. ChangesFollowReading <=> [][FollowsReading]_vars
  BY DEF ChangesFollowReading, FollowsReading
<1>4. QED
  BY InitTyped, NextKeeps, NextTracks, <1>1, <1>2, <1>3, PTL DEF Spec

-----------------------------------------------------------------------------
\* No change escapes the trail.

Accounted(t) == \/ Recorded(t)
                \/ \E w \in Workers : AnswersFor(w, t)
                \/ <<t, "status">> \in unrecorded

\* A step of worker w that leaves a task's status and trail alone, w answering for it
\* afterwards if it did before, leaves the task accounted for.
LEMMA StillAccounted ==
  ASSUME NEW t \in Tasks, NEW w \in Workers, Accounted(t),
         rows'[t].status = rows[t].status,
         history'[t].status = history[t].status,
         <<t, "status">> \in unrecorded => <<t, "status">> \in unrecorded',
         \A v \in Workers \ {w} : req'[v] = req[v],
         AnswersFor(w, t) => AnswersFor(w, t)'
  PROVE  Accounted(t)'
<1>1. Recorded(t) => Recorded(t)'
  BY DEF Recorded
<1>2. \A v \in Workers : AnswersFor(v, t) => AnswersFor(v, t)'
  BY DEF AnswersFor, Found
<1>3. QED
  BY <1>1, <1>2 DEF Accounted

\* An inserted entry records its new value and forgets nothing recorded before.
LEMMA RecordKeeps ==
  ASSUME TypeOK, NEW s \in Tasks, NEW t \in Tasks, NEW old, NEW new,
         RecordStatus(s, old, new), rows' = rows
  PROVE  /\ Recorded(t) => Recorded(t)'
         /\ t = s /\ new = rows[t].status => Recorded(t)'
<1>1. CASE t = s
  <2> DEFINE trail == history[t].status
  <2>1. trail \in Seq(StatusEntry) /\ history[t] \in Trail
    BY DEF TypeOK, Trail
  <2> DEFINE entry == [old |-> IF old = "unused" THEN "" ELSE old, new |-> new]
  <2>2. entry.new = new /\ history' = [history EXCEPT ![s].status = Append(@, entry)]
    BY DEF RecordStatus
  <2> HIDE DEF entry
  <2>3. history'[t].status = Append(trail, entry)
    BY <1>1, <2>1, <2>2 DEF TypeOK, Trail
  <2>4. /\ Len(trail) \in Nat /\ Len(Append(trail, entry)) = Len(trail) + 1
        /\ \A i \in 1 .. Len(trail) : Append(trail, entry)[i] = trail[i]
        /\ Append(trail, entry)[Len(trail) + 1] = entry
    BY <2>1
  <2> HIDE DEF trail
  <2>5. Recorded(t) => Recorded(t)'
    <3>1. SUFFICES ASSUME NEW i \in 1 .. Len(trail), trail[i].new = rows[t].status
                   PROVE  Recorded(t)'
      BY DEF Recorded, trail
    <3>2. i \in 1 .. Len(history'[t].status) /\ history'[t].status[i] = trail[i]
      BY <2>3, <2>4
    <3>3. QED
      BY <3>1, <3>2 DEF Recorded
  <2>6. new = rows[t].status => Recorded(t)'
    <3>1. /\ Len(trail) + 1 \in 1 .. Len(history'[t].status)
          /\ history'[t].status[Len(trail) + 1] = entry
      BY <2>3, <2>4
    <3>2. QED
      BY <2>2, <3>1 DEF Recorded
  <2>7. QED
    BY <2>5, <2>6
<1>2. CASE t # s
  <2>1. history'[t] = history[t]
    BY <1>2 DEF RecordStatus, TypeOK
  <2>2. QED
    BY <1>2, <2>1 DEF Recorded
<1>3. QED
  BY <1>1, <1>2

\* The sweep's loop drops one task and answers for the others as before.
LEMMA NextMarkAnswers ==
  ASSUME TypeOK, NEW w \in Workers, NEW f, NEW t \in Tasks, req[w].step = "logMarks",
         NextMark(w, f), f[1] # t, AnswersFor(w, t), rows' = rows
  PROVE  AnswersFor(w, t)'
<1>1. PICK g \in req[w].found : g[1] = t /\ g # f
  BY DEF AnswersFor, Found
<1>2. req'[w].step = "logMarks" /\ req'[w].found = req[w].found \ {f}
  BY <1>1 DEF NextMark, TypeOK, Request
<1>3. QED
  BY <1>1, <1>2 DEF AnswersFor, Found

\* The steps of a worker that write no status and insert no status entry leave a live
\* task's status and what is known of it as they were.
LEMMA QuietFrame ==
  ASSUME Typed, NEW t \in Tasks, NEW w \in Workers, Live(t)',
         \/ \E s \in Tasks : \/ UpdateTask(w, s) \/ DeleteTask(w, s)
                             \/ AssignTask(w, s) \/ ChangeTaskStatus(w, s)
         \/ MarkTasksOverdue(w)
         \/ WriteEdit(w) \/ SetAssignee(w) \/ LogEdit(w) \/ LogAssignee(w)
         \/ DeleteRow(w) \/ Vanished(w)
  PROVE  /\ rows'[t].status = rows[t].status /\ history'[t].status = history[t].status
         /\ <<t, "status">> \in unrecorded => <<t, "status">> \in unrecorded'
         /\ \A v \in Workers \ {w} : req'[v] = req[v]
         /\ ~AnswersFor(w, t) /\ <<t, "status">> \notin Owed(w)
         /\ req'[w].step \notin {"logStatus", "logMarks"}
<1>1. req[w].task \in Tasks /\ rows[req[w].task] \in Row /\ rows[t] \in Row /\ history[t] \in Trail
  BY RequestTyping DEF Typed, TypeOK
<1>2. \A v \in Workers \ {w} : req'[v] = req[v]
  BY DEF UpdateTask, DeleteTask, AssignTask, ChangeTaskStatus, Begin, MarkTasksOverdue, WriteEdit,
         SetAssignee, LogEdit, LogAssignee, DeleteRow, Vanished, Write, Goto, Finish, Typed, TypeOK
<1>3. CASE \/ \E s \in Tasks : \/ UpdateTask(w, s) \/ DeleteTask(w, s)
                               \/ AssignTask(w, s) \/ ChangeTaskStatus(w, s)
           \/ MarkTasksOverdue(w)
  <2>1. UNCHANGED <<rows, history, unrecorded>> /\ ~Busy(w)
    BY <1>3 DEF UpdateTask, DeleteTask, AssignTask, ChangeTaskStatus, Begin, MarkTasksOverdue
  <2>2. req'[w].step \notin {"logStatus", "logMarks"}
    <3>1. CASE MarkTasksOverdue(w)
      <4>1. PICK found : req' = [req EXCEPT ![w] = [Idle EXCEPT !.step = "mark", !.found = found]]
        BY <3>1 DEF MarkTasksOverdue
      <4>2. req'[w].step = "mark"
        BY <4>1, IdleIsRequest DEF Typed, TypeOK, Request
      <4>3. QED
        BY <4>2
    <3>2. CASE \E s \in Tasks : \/ UpdateTask(w, s) \/ DeleteTask(w, s)
                               \/ AssignTask(w, s) \/ ChangeTaskStatus(w, s)
      <4>1. PICK s \in Tasks : \E step \in {"edit", "delete", "assign", "status"} :
                                \E old, new : Begin(w, s, step, old, new)
        BY <3>2 DEF UpdateTask, DeleteTask, AssignTask, ChangeTaskStatus
      <4>2. QED
        BY <4>1 DEF Begin, Typed, TypeOK
    <3>3. QED
      BY <1>3, <3>1, <3>2
  <2>3. QED
    BY <1>2, <2>1, <2>2 DEF Busy, AnswersFor, Owed
<1>4. CASE WriteEdit(w) \/ SetAssignee(w)
  <2>1. PICK row : /\ rows' = [rows EXCEPT ![req[w].task] = row]
                   /\ row.status = rows[req[w].task].status
    <3>1. \A d, u : /\ [rows[req[w].task] EXCEPT !.deadline = d].status = rows[req[w].task].status
                    /\ [rows[req[w].task] EXCEPT !.assignee = u].status = rows[req[w].task].status
      BY <1>1 DEF Row
    <3>2. CASE WriteEdit(w)
      BY <3>1, <3>2 DEF WriteEdit, Write
    <3>3. CASE SetAssignee(w)
      BY <3>1, <3>3 DEF SetAssignee, Write
    <3>4. QED
      BY <1>4, <3>2, <3>3
  <2>2. rows'[t].status = rows[t].status
    BY <2>1 DEF Typed, TypeOK
  <2>3. UNCHANGED <<history, unrecorded>> /\ req[w].step \in {"edit", "assign"}
    BY <1>4 DEF WriteEdit, SetAssignee, Write
  <2>4. req'[w].step \in {"logEdit", "logAssign"}
    BY <1>4 DEF WriteEdit, SetAssignee, Write, Goto, Typed, TypeOK, Request
  <2>5. QED
    BY <1>2, <2>2, <2>3, <2>4 DEF AnswersFor, Owed
<1>5. CASE LogEdit(w) \/ LogAssignee(w) \/ DeleteRow(w) \/ Vanished(w)
  <2>1. req'[w].step = "idle"
    <3>1. Finish(w)
      BY <1>5 DEF LogEdit, LogAssignee, DeleteRow, Vanished
    <3>2. QED
      BY <3>1 DEF Finish, Idle, Typed, TypeOK
  <2>2. CASE DeleteRow(w)
    <3>1. /\ req[w].step = "delete"
          /\ rows' = [rows EXCEPT ![req[w].task] = Blank("deleted")]
          /\ history' = [history EXCEPT ![req[w].task] = NoTrail]
          /\ unrecorded' = {u \in unrecorded : u[1] # req[w].task}
      BY <2>2 DEF DeleteRow
    <3>2. req[w].task # t
      BY <1>1, <3>1 DEF Live, Blank, Statuses, Typed, TypeOK
    <3>3. rows'[t] = rows[t] /\ history'[t] = history[t]
      BY <3>1, <3>2 DEF Typed, TypeOK
    <3>4. <<t, "status">> \in unrecorded => <<t, "status">> \in unrecorded'
      BY <3>1, <3>2
    <3>5. QED
      BY <1>2, <2>1, <3>1, <3>3, <3>4 DEF AnswersFor, Owed
  <2>3. CASE Vanished(w)
    <3>1. UNCHANGED <<rows, history, unrecorded>> /\ req[w].task # t /\ req[w].step # "logMarks"
      BY <2>3 DEF Vanished, Live
    <3>2. ~AnswersFor(w, t) /\ <<t, "status">> \notin Owed(w)
      BY <3>1 DEF AnswersFor, Owed
    <3>3. QED
      BY <1>2, <2>1, <3>1, <3>2
  <2>4. CASE LogEdit(w)
    BY <1>2, <2>1, <2>4 DEF LogEdit, AnswersFor, Owed
  <2>5. CASE LogAssignee(w)
    <3>1. PICK users : history' = [history EXCEPT ![req[w].task].assignee = users]
      BY <2>5 DEF LogAssignee
    <3>2. history'[t].status = history[t].status
      BY <1>1, <3>1 DEF Typed, TypeOK, Trail
    <3>3. QED
      BY <1>2, <2>1, <2>5, <3>2 DEF LogAssignee, AnswersFor, Owed
  <2>6. QED
    BY <1>5, <2>2, <2>3, <2>4, <2>5
<1>6. QED
  BY <1>3, <1>4, <1>5

\* ... so the task stays accounted for.
LEMMA QuietSteps ==
  ASSUME Typed, NEW t \in Tasks, NEW w \in Workers, Live(t)', Live(t) => Accounted(t),
         \/ \E s \in Tasks : \/ UpdateTask(w, s) \/ DeleteTask(w, s)
                             \/ AssignTask(w, s) \/ ChangeTaskStatus(w, s)
         \/ MarkTasksOverdue(w)
         \/ WriteEdit(w) \/ SetAssignee(w) \/ LogEdit(w) \/ LogAssignee(w)
         \/ DeleteRow(w) \/ Vanished(w)
  PROVE  Accounted(t)'
BY QuietFrame, StillAccounted DEF Live

\* The two inserts of status entries record what their writers answered for.
LEMMA LogSteps ==
  ASSUME Typed, NEW t \in Tasks, NEW w \in Workers, Live(t)', Live(t) => Accounted(t),
         LogStatus(w) \/ LogMark(w)
  PROVE  Accounted(t)'
<1>1. UNCHANGED <<rows, unrecorded>>
  BY DEF LogStatus, LogMark
<1>2. Accounted(t)
  BY <1>1 DEF Live
<1>3. \A v \in Workers \ {w} : req'[v] = req[v]
  BY DEF LogStatus, LogMark, NextMark, Finish, Typed, TypeOK
<1>4. CASE <<t, "status">> \in unrecorded
  BY <1>1, <1>4 DEF Accounted
<1>5. ASSUME NEW v \in Workers \ {w}, AnswersFor(v, t)
      PROVE  Accounted(t)'
  BY <1>1, <1>3, <1>5 DEF Accounted, AnswersFor, Found
<1>6. CASE LogStatus(w)
  <2>1. /\ req[w].step = "logStatus" /\ req[w].task \in Tasks
        /\ RecordStatus(req[w].task, req[w].old.status, req[w].new.status)
    BY <1>6, RequestTyping DEF LogStatus, Typed
  <2>2. Recorded(t) => Recorded(t)'
    BY <1>1, <2>1, RecordKeeps DEF Typed
  <2>3. AnswersFor(w, t) => t = req[w].task /\ req[w].new.status = rows[t].status
    BY <2>1 DEF AnswersFor
  <2>4. AnswersFor(w, t) => Recorded(t)'
    BY <1>1, <2>1, <2>3, RecordKeeps DEF Typed
  <2>5. QED
    BY <1>2, <1>4, <1>5, <2>2, <2>4 DEF Accounted
<1>7. CASE LogMark(w)
  <2>1. PICK f \in req[w].found :
           /\ IF Live(f[1]) THEN RecordStatus(f[1], f[2], "overdue") ELSE UNCHANGED history
           /\ NextMark(w, f)
    BY <1>7 DEF LogMark
  <2>2. f[1] \in Tasks /\ req[w].step = "logMarks"
    BY <1>7, RequestTyping DEF LogMark, Typed
  <2>3. Recorded(t) => Recorded(t)'
    <3>1. CASE Live(f[1])
      BY <1>1, <2>1, <2>2, <3>1, RecordKeeps DEF Typed
    <3>2. CASE ~Live(f[1])
      BY <1>1, <2>1, <3>2 DEF Recorded
    <3>3. QED
      BY <3>1, <3>2
  <2>4. CASE AnswersFor(w, t) /\ f[1] = t
    <3>1. rows[t].status = "overdue" /\ Live(t)
      BY <2>2, <2>4 DEF AnswersFor, Live, Statuses
    <3>2. RecordStatus(t, f[2], "overdue")
      BY <2>1, <2>4, <3>1
    <3>3. QED
      BY <1>1, <3>1, <3>2, RecordKeeps DEF Accounted, Typed
  <2>5. CASE AnswersFor(w, t) /\ f[1] # t
    BY <1>1, <2>1, <2>2, <2>5, NextMarkAnswers DEF Accounted, Typed
  <2>6. QED
    BY <1>2, <1>4, <1>5, <2>3, <2>4, <2>5 DEF Accounted
<1>8. QED
  BY <1>6, <1>7

\* The writes of a status make their worker answer for it.
LEMMA WriteSteps ==
  ASSUME Typed, NEW t \in Tasks, NEW w \in Workers, Live(t)', Live(t) => Accounted(t),
         (\E s \in Tasks : CreateTask(w, s)) \/ UpdateStatus(w) \/ MarkRows(w)
  PROVE  Accounted(t)'
<1>1. /\ UNCHANGED <<history, unrecorded>>
      /\ \A v \in Workers \ {w} : req'[v] = req[v]
  BY DEF CreateTask, Begin, UpdateStatus, MarkRows, Write, Goto, Typed, TypeOK
<1>2. ~AnswersFor(w, t)
  BY DEF CreateTask, Begin, Busy, UpdateStatus, MarkRows, AnswersFor
<1>3. CASE rows'[t].status = rows[t].status
  BY <1>1, <1>2, <1>3, StillAccounted DEF Live
<1>4. CASE rows'[t].status # rows[t].status
  <2>1. CASE \E s \in Tasks : CreateTask(w, s)
    <3>1. PICK s \in Tasks, deadline \in Deadlines \cup {NoTime} :
             /\ rows' = [rows EXCEPT ![s] = [Blank("open") EXCEPT !.deadline = deadline]]
             /\ Begin(w, s, "logStatus", Blank("unused"), Blank("open"))
      BY <2>1 DEF CreateTask
    <3>2. t = s /\ rows'[t].status = "open"
      BY <1>4, <3>1 DEF Blank, Typed, TypeOK
    <3>3. req'[w].step = "logStatus" /\ req'[w].task = s /\ req'[w].new.status = "open"
      BY <3>1 DEF Begin, Blank, Typed, TypeOK
    <3>4. QED
      BY <3>2, <3>3 DEF Accounted, AnswersFor
  <2>2. CASE UpdateStatus(w)
    <3>1. t = req[w].task /\ rows[t] \in Row
      BY <1>4, <2>2 DEF UpdateStatus, Write, Typed, TypeOK
    <3>2. rows'[t].status = req[w].new.status
      BY <2>2, <3>1 DEF UpdateStatus, Write, Typed, TypeOK, Row
    <3>3. req'[w].step = "logStatus" /\ req'[w].task = req[w].task /\ req'[w].new = req[w].new
      BY <2>2 DEF UpdateStatus, Write, Goto, Typed, TypeOK, Request
    <3>4. QED
      BY <3>1, <3>2, <3>3 DEF Accounted, AnswersFor
  <2>3. CASE MarkRows(w)
    <3>1. t \in Found(w) /\ rows[t] \in Row
      BY <1>4, <2>3 DEF MarkRows, Typed, TypeOK
    <3>2. rows'[t].status = "overdue"
      BY <1>4, <2>3, <3>1 DEF MarkRows, Row
    <3>3. req'[w].step = "logMarks" /\ req'[w].found = req[w].found
      BY <2>3 DEF MarkRows, Goto, Typed, TypeOK, Request
    <3>4. QED
      BY <3>1, <3>2, <3>3 DEF Accounted, AnswersFor, Found
  <2>4. QED
    BY <2>1, <2>2, <2>3
<1>5. QED
  BY <1>3, <1>4

\* A failure, ignored or not, blames the entry it loses.
LEMMA FailSteps ==
  ASSUME Typed, NEW t \in Tasks, NEW w \in Workers, Live(t)', Live(t) => Accounted(t),
         Fail(w) \/ FailMark(w)
  PROVE  Accounted(t)'
<1>1. UNCHANGED <<rows, history>>
  BY DEF Fail, FailMark
<1>2. Live(t) /\ Accounted(t)
  BY <1>1 DEF Live
<1>3. \A v \in Workers \ {w} : req'[v] = req[v]
  BY DEF Fail, FailMark, NextMark, Finish, Typed, TypeOK
<1>4. CASE Fail(w)
  <2>1. unrecorded' = unrecorded \cup Owed(w)
    BY <1>4 DEF Fail
  <2>2. AnswersFor(w, t) => <<t, "status">> \in Owed(w)
    BY DEF AnswersFor, Owed
  <2>3. CASE AnswersFor(w, t)
    BY <2>1, <2>2, <2>3 DEF Accounted
  <2>4. CASE ~AnswersFor(w, t)
    BY <1>1, <1>2, <1>3, <2>1, <2>4, StillAccounted
  <2>5. QED
    BY <2>3, <2>4
<1>5. CASE FailMark(w)
  <2>1. PICK f \in req[w].found : /\ NextMark(w, f)
                                  /\ unrecorded' = unrecorded \cup {<<f[1], "status">>}
    BY <1>5 DEF FailMark
  <2>2. CASE f[1] = t
    BY <2>1, <2>2 DEF Accounted
  <2>3. CASE f[1] # t
    <3>1. AnswersFor(w, t) => AnswersFor(w, t)'
      BY <1>1, <1>5, <2>1, <2>3, NextMarkAnswers DEF FailMark, Typed
    <3>2. QED
      BY <1>1, <1>2, <1>3, <2>1, <3>1, StillAccounted
  <2>4. QED
    BY <2>2, <2>3
<1>6. QED
  BY <1>4, <1>5

\* Whatever the interleaving, the failing statement or the restart, the status a task
\* shows has an entry, a handler about to insert it, or a lost insert to blame, those
\* the sweep ignores included.
THEOREM StatusIsAccountedFor == Spec => []StatusAccountedFor
<1>1. Init => StatusAccountedFor
  BY DEF Init, StatusAccountedFor, Live, Blank, Statuses
<1>2. Typed /\ StatusAccountedFor /\ [Next]_vars => StatusAccountedFor'
  <2> SUFFICES ASSUME Typed, StatusAccountedFor, [Next]_vars, NEW t \in Tasks, Live(t)'
               PROVE  Accounted(t)'
    BY DEF StatusAccountedFor, Accounted
  <2>1. Live(t) => Accounted(t)
    BY DEF StatusAccountedFor, Accounted
  <2>2. CASE \E w \in Workers : Arrive(w)
    BY <2>1, <2>2, QuietSteps, WriteSteps DEF Arrive
  <2>3. CASE \E w \in Workers : Continue(w)
    BY <2>1, <2>3, QuietSteps, LogSteps, WriteSteps DEF Continue
  <2>4. CASE \E w \in Workers : Fail(w) \/ FailMark(w)
    BY <2>1, <2>4, FailSteps
  <2>5. CASE Crash
    <3>1. /\ UNCHANGED <<rows, history>> /\ Accounted(t)
          /\ unrecorded' = unrecorded \cup UNION {Owed(w) : w \in Workers}
      BY <2>1, <2>5 DEF Crash, Live
    <3>2. \A w \in Workers : AnswersFor(w, t) => <<t, "status">> \in Owed(w)
      BY DEF AnswersFor, Owed
    <3>3. QED
      BY <3>1, <3>2 DEF Accounted, Recorded
  <2>6. CASE Tick \/ UNCHANGED vars
    BY <2>1, <2>6 DEF Tick, vars, Accounted, Recorded, AnswersFor, Found, Live
  <2>7. QED
    BY <2>2, <2>3, <2>4, <2>5, <2>6 DEF Next
<1>3. QED
  BY <1>1, <1>2, InitTyped, NextKeeps, PTL DEF Spec

-----------------------------------------------------------------------------
\* The trail replays the task.

\* What a creation's entry has for the old status.
NoStatus == ""

\* The value after the last entry, and a chain of entries from the first value on.
Last(trail, first) == IF trail = <<>> THEN first ELSE trail[Len(trail)].new
Joined(trail, first) ==
    \A i \in 1 .. Len(trail) : trail[i].old = IF i = 1 THEN first ELSE trail[i - 1].new

Owes(field, t) == \E w \in Workers : <<t, field>> \in Owed(w)

\* The entry worker w has still to insert joins up with the trail and names what
\* the row shows; whoever assigns has read the assignee the row shows.
StatusFits(w, t) ==
    LET last == Last(history[t].status, NoStatus)
    IN  /\ req[w].step = "logStatus" /\ req[w].task = t =>
              /\ last = IF req[w].old.status = "unused" THEN NoStatus ELSE req[w].old.status
              /\ rows[t].status = req[w].new.status
        /\ req[w].step = "logMarks" =>
              \A f \in req[w].found : f[1] = t => last = f[2] /\ rows[t].status = "overdue"
UserFits(w, t) ==
    /\ req[w].step = "logAssign" /\ req[w].task = t =>
          /\ Last(history[t].assignee, NoUser) = req[w].old.assignee
          /\ rows[t].assignee = req[w].new.assignee
UserRead(w, t) ==
    req[w].step = "assign" /\ req[w].task = t => rows[t].assignee = req[w].old.assignee

StatusReplays(t) ==
    \/ <<t, "status">> \in unrecorded
    \/ /\ Joined(history[t].status, NoStatus)
       /\ Owes("status", t) \/ Last(history[t].status, NoStatus) = rows[t].status
       /\ \A w \in Workers : StatusFits(w, t)
UserReplays(t) ==
    /\ \A w \in Workers : UserRead(w, t)
    /\ \/ <<t, "assignee">> \in unrecorded
       \/ /\ Joined(history[t].assignee, NoUser)
          /\ Owes("assignee", t) \/ Last(history[t].assignee, NoUser) = rows[t].assignee
          /\ \A w \in Workers : UserFits(w, t)

\* A sweep has read one status of a task; a task that is not there yet has no trail.
SweepOnce == \A w \in Workers : \A f, g \in req[w].found : f[1] = g[1] => f = g
UnusedIsBlank == \A t \in Tasks : rows[t].status = "unused" => history[t] = NoTrail

Replays == /\ SweepOnce /\ UnusedIsBlank
           /\ \A t \in Tasks \ contended : Live(t) => StatusReplays(t) /\ UserReplays(t)

\* Nothing is on a task whose two requests have not met but the one that is.
LEMMA Alone ==
  ASSUME Tracked, NEW t \in Tasks \ contended, NEW w \in Workers, On(w, t)
  PROVE  \A v \in Workers \ {w} : ~On(v, t)
BY DEF Tracked, Meetings

\* A worker that owes an entry of a task is on the task.
LEMMA OwesIsOn ==
  ASSUME Typed, NEW w \in Workers, NEW t \in Tasks, NEW field, <<t, field>> \in Owed(w)
  PROVE  On(w, t)
<1>1. HoldingOf(w)
  BY DEF Typed, Holding
<1>2. CASE req[w].step = "logStatus" \/ req[w].step = "logAssign"
  BY <1>1, <1>2 DEF Owed, On, Busy, HoldingOf
<1>3. CASE req[w].step = "logMarks"
  BY <1>3 DEF Owed, On, Busy
<1>4. CASE req[w].step \notin {"logStatus", "logAssign", "logMarks"}
  BY <1>4 DEF Owed
<1>5. QED
  BY <1>2, <1>3, <1>4

\* A worker that is not on a task owes it nothing and has nothing of it in hand,
\* whatever becomes of the row.
LEMMA OffTask ==
  ASSUME Typed, NEW w \in Workers, NEW t \in Tasks, ~On(w, t), req'[w] = req[w]
  PROVE  /\ StatusFits(w, t)' /\ UserFits(w, t)' /\ UserRead(w, t)'
         /\ \A field : <<t, field>> \notin Owed(w)
         /\ \A field : <<t, field>> \notin Owed(w)'
<1>1. HoldingOf(w)
  BY DEF Typed, Holding
<1>2. req[w].step \in {"logStatus", "logAssign", "assign"} => req[w].task # t
  BY <1>1 DEF On, Busy, HoldingOf
<1>3. req[w].step = "logMarks" => \A f \in req[w].found : f[1] # t
  BY DEF On, Busy, Found
<1>4. StatusFits(w, t)' /\ UserFits(w, t)' /\ UserRead(w, t)'
  BY <1>2, <1>3 DEF StatusFits, UserFits, UserRead
<1>5. \A field : <<t, field>> \notin Owed(w)
  BY OwesIsOn
<1>6. Owed(w)' = Owed(w)
  BY DEF Owed, Found
<1>7. QED
  BY <1>4, <1>5, <1>6

\* A trail with one entry more.
Longer(trail, e, longer) ==
    /\ Len(trail) \in Nat /\ (Len(trail) = 0 <=> trail = <<>>)
    /\ Len(longer) = Len(trail) + 1 /\ longer # <<>>
    /\ \A i \in 1 .. Len(trail) : longer[i] = trail[i]
    /\ longer[Len(trail) + 1] = e

LEMMA AppendIsLonger ==
  ASSUME NEW E, NEW trail \in Seq(E), NEW e \in E, NEW longer, longer = Append(trail, e)
  PROVE  Longer(trail, e, longer)
<1>1. Len(trail) \in Nat /\ (Len(trail) = 0 <=> trail = <<>>)
  OBVIOUS
<1>2. Len(longer) = Len(trail) + 1 /\ longer \in Seq(E)
  OBVIOUS
<1>3. longer # <<>>
  BY <1>1, <1>2
<1>4. (\A i \in 1 .. Len(trail) : longer[i] = trail[i]) /\ longer[Len(trail) + 1] = e
  BY <1>1
<1>5. QED
  BY <1>1, <1>2, <1>3, <1>4 DEF Longer

\* An entry whose old value is the last new one joins up, and its new value is the last.
LEMMA Appended ==
  ASSUME NEW trail, NEW e, NEW longer, NEW first, Longer(trail, e, longer),
         Joined(trail, first), e.old = Last(trail, first)
  PROVE  Joined(longer, first) /\ Last(longer, first) = e.new
<1>1. /\ Len(trail) \in Nat /\ Len(longer) = Len(trail) + 1 /\ longer # <<>>
      /\ \A i \in 1 .. Len(trail) : longer[i] = trail[i]
      /\ longer[Len(trail) + 1] = e
      /\ Len(trail) = 0 <=> trail = <<>>
  BY DEF Longer
<1>2. Last(longer, first) = e.new
  BY <1>1 DEF Last
<1>3. ASSUME NEW i \in 1 .. Len(longer)
      PROVE  longer[i].old = IF i = 1 THEN first ELSE longer[i - 1].new
  <2>1. CASE i \in 1 .. Len(trail)
    <3>1. i # 1 => i - 1 \in 1 .. Len(trail)
      BY <1>1, <2>1
    <3>2. QED
      BY <1>1, <2>1, <3>1 DEF Joined
  <2>2. CASE i = Len(trail) + 1
    <3>1. CASE trail = <<>>
      BY <1>1, <2>2, <3>1 DEF Last
    <3>2. CASE trail # <<>>
      <4>1. i # 1 /\ i - 1 = Len(trail) /\ Len(trail) \in 1 .. Len(trail)
        BY <1>1, <2>2, <3>2
      <4>2. longer[i - 1] = trail[Len(trail)] /\ longer[i] = e
        BY <1>1, <2>2, <4>1
      <4>3. QED
        BY <3>2, <4>1, <4>2 DEF Last
    <3>3. QED
      BY <3>1, <3>2
  <2>3. QED
    BY <1>1, <2>1, <2>2
<1>4. Joined(longer, first)
  BY <1>3 DEF Joined
<1>5. QED
  BY <1>2, <1>4

\* A step of worker w that leaves a task's status and its trail alone, and loses no
\* due entry silently, keeps the trail replaying the status.
LEMMA StatusStays ==
  ASSUME NEW t \in Tasks, NEW w \in Workers, StatusReplays(t),
         rows'[t].status = rows[t].status, history'[t].status = history[t].status,
         <<t, "status">> \in unrecorded => <<t, "status">> \in unrecorded',
         \A v \in Workers \ {w} : req'[v] = req[v],
         <<t, "status">> \in Owed(w) => <<t, "status">> \in Owed(w)' \cup unrecorded',
         StatusFits(w, t) => StatusFits(w, t)'
  PROVE  StatusReplays(t)'
<1>1. CASE <<t, "status">> \in unrecorded'
  BY <1>1 DEF StatusReplays
<1>2. CASE <<t, "status">> \notin unrecorded'
  <2>1. \A v \in Workers \ {w} : Owed(v)' = Owed(v) /\ (StatusFits(v, t) => StatusFits(v, t)')
    BY DEF Owed, Found, StatusFits
  <2>2. Owes("status", t) => Owes("status", t)'
    BY <1>2, <2>1 DEF Owes
  <2>3. \A v \in Workers : StatusFits(v, t)'
    BY <1>2, <2>1 DEF StatusReplays
  <2>4. QED
    BY <1>2, <2>2, <2>3 DEF StatusReplays
<1>3. QED
  BY <1>1, <1>2

\* The same of the assignee.
LEMMA UserStays ==
  ASSUME NEW t \in Tasks, NEW w \in Workers, UserReplays(t),
         rows'[t].assignee = rows[t].assignee, history'[t].assignee = history[t].assignee,
         <<t, "assignee">> \in unrecorded => <<t, "assignee">> \in unrecorded',
         \A v \in Workers \ {w} : req'[v] = req[v],
         <<t, "assignee">> \in Owed(w) => <<t, "assignee">> \in Owed(w)' \cup unrecorded',
         UserRead(w, t) => UserRead(w, t)', UserFits(w, t) => UserFits(w, t)'
  PROVE  UserReplays(t)'
<1>1. \A v \in Workers \ {w} : /\ Owed(v)' = Owed(v) /\ (UserFits(v, t) => UserFits(v, t)')
                               /\ UserRead(v, t) => UserRead(v, t)'
  BY DEF Owed, Found, UserFits, UserRead
<1>2. \A v \in Workers : UserRead(v, t)'
  BY <1>1 DEF UserReplays
<1>3. CASE <<t, "assignee">> \in unrecorded'
  BY <1>2, <1>3 DEF UserReplays
<1>4. CASE <<t, "assignee">> \notin unrecorded'
  <2>1. Owes("assignee", t) => Owes("assignee", t)'
    BY <1>1, <1>4 DEF Owes
  <2>2. \A v \in Workers : UserFits(v, t)'
    BY <1>1, <1>4 DEF UserReplays
  <2>3. QED
    BY <1>2, <1>4, <2>1, <2>2 DEF UserReplays
<1>5. QED
  BY <1>3, <1>4

\* Of a task no two requests have met on, the worker on it decides what is due.
LEMMA AloneOwes ==
  ASSUME Typed, Tracked, NEW t \in Tasks \ contended, NEW w \in Workers, On(w, t), NEW field,
         <<t, field>> \notin Owed(w)
  PROVE  ~Owes(field, t)
<1>1. \A v \in Workers \ {w} : <<t, field>> \notin Owed(v)
  BY Alone, OwesIsOn
<1>2. QED
  BY <1>1 DEF Owes

\* ... and what it leaves decides whether the trail replays the status, and the assignee.
LEMMA AloneReplays ==
  ASSUME Typed, Tracked, NEW t \in Tasks \ contended, NEW w \in Workers, On(w, t),
         \A v \in Workers \ {w} : req'[v] = req[v]
  PROVE  /\ /\ Joined(history'[t].status, NoStatus)
            /\ <<t, "status">> \in Owed(w)' \/ Last(history'[t].status, NoStatus) = rows'[t].status
            /\ StatusFits(w, t)'
            => StatusReplays(t)'
         /\ /\ Joined(history'[t].assignee, NoUser)
            /\ <<t, "assignee">> \in Owed(w)' \/ Last(history'[t].assignee, NoUser) = rows'[t].assignee
            /\ UserRead(w, t)' /\ UserFits(w, t)'
            => UserReplays(t)'
<1>1. \A v \in Workers \ {w} : StatusFits(v, t)' /\ UserFits(v, t)' /\ UserRead(v, t)'
  BY Alone, OffTask
<1>2. \A field : <<t, field>> \in Owed(w)' => Owes(field, t)'
  BY DEF Owes
<1>3. ASSUME /\ Joined(history'[t].status, NoStatus)
             /\ <<t, "status">> \in Owed(w)' \/ Last(history'[t].status, NoStatus) = rows'[t].status
             /\ StatusFits(w, t)'
      PROVE  StatusReplays(t)'
  BY <1>1, <1>2, <1>3 DEF StatusReplays
<1>4. ASSUME /\ Joined(history'[t].assignee, NoUser)
             /\ <<t, "assignee">> \in Owed(w)' \/ Last(history'[t].assignee, NoUser) = rows'[t].assignee
             /\ UserRead(w, t)' /\ UserFits(w, t)'
      PROVE  UserReplays(t)'
  BY <1>1, <1>2, <1>4 DEF UserReplays
<1>5. QED
  BY <1>3, <1>4

\* A creation starts on a task nobody is on, or the task is contended: its trail is
\* empty, its first entry due, and it has no assignee.
LEMMA CreateReplays ==
  ASSUME Typed, UnusedIsBlank, NEW t \in Tasks, NEW w \in Workers, CreateTask(w, t),
         t \notin contended'
  PROVE  StatusReplays(t)' /\ UserReplays(t)'
<1>1. PICK deadline \in Deadlines \cup {NoTime} :
         rows' = [rows EXCEPT ![t] = [Blank("open") EXCEPT !.deadline = deadline]]
  BY DEF CreateTask
<1>2. rows'[t].status = "open" /\ rows'[t].assignee = NoUser
  BY <1>1 DEF Blank, Typed, TypeOK
<1>3. /\ req'[w] = [step |-> "logStatus", task |-> t, old |-> Blank("unused"),
                    new |-> Blank("open"), found |-> {}]
      /\ \A v \in Workers \ {w} : req'[v] = req[v] /\ ~On(v, t)
  BY DEF CreateTask, Begin, Contend, Typed, TypeOK
<1>4. history'[t] = NoTrail
  BY DEF CreateTask, UnusedIsBlank
<1>5. /\ Joined(history'[t].status, NoStatus) /\ Last(history'[t].status, NoStatus) = NoStatus
      /\ Joined(history'[t].assignee, NoUser) /\ Last(history'[t].assignee, NoUser) = NoUser
  BY <1>4 DEF NoTrail, Joined, Last
<1>6. StatusFits(w, t)' /\ UserFits(w, t)' /\ UserRead(w, t)'
  <2>1. /\ req'[w].step = "logStatus" /\ req'[w].task = t /\ req'[w].found = {}
        /\ req'[w].old.status = "unused" /\ req'[w].new.status = "open"
    BY <1>3 DEF Blank
  <2>2. StatusFits(w, t)'
    BY <1>2, <1>5, <2>1 DEF StatusFits
  <2>3. UserFits(w, t)' /\ UserRead(w, t)'
    BY <2>1 DEF UserFits, UserRead
  <2>4. QED
    BY <2>2, <2>3
<1>7. \A v \in Workers : StatusFits(v, t)' /\ UserFits(v, t)' /\ UserRead(v, t)'
  BY <1>3, <1>6, OffTask
<1>8. Owes("status", t)'
  BY <1>3 DEF Owes, Owed
<1>9. QED
  BY <1>2, <1>5, <1>7, <1>8 DEF StatusReplays, UserReplays

\* The steps that leave the status alone.
LEMMA QuietReplays ==
  ASSUME Typed, NEW t \in Tasks, NEW w \in Workers, Live(t)', Live(t) => StatusReplays(t),
         \/ \E s \in Tasks : \/ UpdateTask(w, s) \/ DeleteTask(w, s)
                             \/ AssignTask(w, s) \/ ChangeTaskStatus(w, s)
         \/ MarkTasksOverdue(w)
         \/ WriteEdit(w) \/ SetAssignee(w) \/ LogEdit(w) \/ LogAssignee(w)
         \/ DeleteRow(w) \/ Vanished(w)
  PROVE  StatusReplays(t)'
<1>1. /\ rows'[t].status = rows[t].status /\ history'[t].status = history[t].status
      /\ <<t, "status">> \in unrecorded => <<t, "status">> \in unrecorded'
      /\ \A v \in Workers \ {w} : req'[v] = req[v]
      /\ <<t, "status">> \notin Owed(w)
      /\ req'[w].step \notin {"logStatus", "logMarks"}
  BY QuietFrame
<1>2. StatusReplays(t)
  BY <1>1 DEF Live
<1>3. StatusFits(w, t)'
  BY <1>1 DEF StatusFits
<1>4. QED
  BY <1>1, <1>2, <1>3, StatusStays

\* A creation of another task.
LEMMA CreateElsewhere ==
  ASSUME Typed, NEW t \in Tasks, NEW w \in Workers, NEW s \in Tasks \ {t}, CreateTask(w, s)
  PROVE  /\ rows'[t] = rows[t] /\ history'[t] = history[t] /\ unrecorded' = unrecorded
         /\ \A v \in Workers \ {w} : req'[v] = req[v]
         /\ \A field : <<t, field>> \notin Owed(w)
         /\ StatusFits(w, t)' /\ UserFits(w, t)' /\ UserRead(w, t)'
<1>1. /\ rows'[t] = rows[t] /\ history'[t] = history[t] /\ unrecorded' = unrecorded
      /\ \A v \in Workers \ {w} : req'[v] = req[v]
      /\ req[w].step = "idle" /\ req'[w].step = "logStatus" /\ req'[w].task = s
  BY DEF CreateTask, Begin, Busy, Typed, TypeOK
<1>2. QED
  BY <1>1 DEF Owed, StatusFits, UserFits, UserRead

\* A handler alone on a task it writes the status of finds the trail ending in the
\* status it read, and leaves with the entry due that joins up.
LEMMA UpdateReplays ==
  ASSUME Typed, Tracked, NEW t \in Tasks \ contended, NEW w \in Workers, UpdateStatus(w),
         Live(t) => StatusReplays(t), Live(t)'
  PROVE  StatusReplays(t)'
<1>1. /\ req[w] \in Request /\ req[w].task \in Tasks /\ rows[t] \in Row /\ HoldingOf(w)
      /\ req[w].step = "status" /\ req[w].found = {}
  BY RequestTyping DEF Typed, TypeOK, UpdateStatus, Holding, HoldingOf
<1>2. /\ \A v \in Workers \ {w} : req'[v] = req[v]
      /\ req'[w].step = "logStatus" /\ req'[w].task = req[w].task
      /\ req'[w].old = req[w].old /\ req'[w].new = req[w].new
      /\ UNCHANGED <<history, unrecorded>>
  BY <1>1 DEF UpdateStatus, Write, Goto, Typed, TypeOK, Request
<1>3. CASE req[w].task # t
  <2>1. rows'[t] = rows[t] /\ <<t, "status">> \notin Owed(w)
    BY <1>1, <1>3 DEF UpdateStatus, Write, Owed, Typed, TypeOK
  <2>2. StatusFits(w, t)'
    BY <1>2, <1>3 DEF StatusFits
  <2>3. StatusReplays(t)
    BY <2>1 DEF Live
  <2>4. QED
    BY <1>2, <2>1, <2>2, <2>3, StatusStays
<1>4. CASE req[w].task = t
  <2>1. On(w, t) /\ Live(t) /\ StatusReplays(t)
    BY <1>1, <1>4 DEF On, Busy, UpdateStatus, Write
  <2>2. CASE <<t, "status">> \in unrecorded
    BY <1>2, <2>2 DEF StatusReplays
  <2>3. CASE <<t, "status">> \notin unrecorded
    <3>1. ~Owes("status", t)
      BY <1>1, <2>1, AloneOwes DEF Owed
    <3>2. Joined(history[t].status, NoStatus) /\ Last(history[t].status, NoStatus) = rows[t].status
      BY <2>1, <2>3, <3>1 DEF StatusReplays
    <3>3. req[w].old.status \in SeenBy(w, t)
      BY <1>1, <1>4 DEF SeenBy
    <3>4. req[w].old.status = rows[t].status /\ req[w].old.status # "unused"
      BY <2>1, <3>3 DEF Tracked, Readings, Live, Statuses
    <3>5. rows'[t].status = req[w].new.status
      BY <1>1, <1>4 DEF UpdateStatus, Write, Typed, TypeOK, Row
    <3>6. StatusFits(w, t)'
      BY <1>2, <3>2, <3>4, <3>5 DEF StatusFits
    <3>7. <<t, "status">> \in Owed(w)'
      BY <1>2, <1>4 DEF Owed
    <3>8. QED
      BY <1>2, <2>1, <3>2, <3>6, <3>7, AloneReplays
  <2>4. QED
    BY <2>2, <2>3
<1>5. QED
  BY <1>3, <1>4

\* The same of the sweep's UPDATE, of each task it found.
LEMMA MarkReplays ==
  ASSUME Typed, Tracked, NEW t \in Tasks \ contended, NEW w \in Workers, MarkRows(w),
         Live(t) => StatusReplays(t), Live(t)'
  PROVE  StatusReplays(t)'
<1>1. req[w] \in Request /\ rows[t] \in Row /\ req[w].step = "mark"
  BY RequestTyping DEF Typed, TypeOK, MarkRows
<1>2. /\ \A v \in Workers \ {w} : req'[v] = req[v]
      /\ req'[w].step = "logMarks" /\ req'[w].found = req[w].found
      /\ UNCHANGED <<history, unrecorded>>
  BY <1>1 DEF MarkRows, Goto, Typed, TypeOK, Request
<1>3. CASE t \notin Found(w)
  <2>1. rows'[t] = rows[t] /\ <<t, "status">> \notin Owed(w)
    BY <1>1, <1>3 DEF MarkRows, Owed
  <2>2. StatusFits(w, t)'
    BY <1>2, <1>3 DEF StatusFits, Found
  <2>3. StatusReplays(t)
    BY <2>1 DEF Live
  <2>4. QED
    BY <1>2, <2>1, <2>2, <2>3, StatusStays
<1>4. CASE t \in Found(w)
  <2>1. Live(t)
    <3>1. ~Live(t) => rows'[t] = rows[t]
      BY DEF MarkRows
    <3>2. QED
      BY <3>1 DEF Live
  <2>2. On(w, t) /\ StatusReplays(t)
    BY <1>1, <1>4, <2>1 DEF On, Busy
  <2>3. CASE <<t, "status">> \in unrecorded
    BY <1>2, <2>3 DEF StatusReplays
  <2>4. CASE <<t, "status">> \notin unrecorded
    <3>1. ~Owes("status", t)
      BY <1>1, <2>2, AloneOwes DEF Owed
    <3>2. Joined(history[t].status, NoStatus) /\ Last(history[t].status, NoStatus) = rows[t].status
      BY <2>2, <2>4, <3>1 DEF StatusReplays
    <3>3. \A f \in req[w].found : f[1] = t => f[2] \in SeenBy(w, t)
      BY <1>1 DEF SeenBy
    <3>4. \A f \in req[w].found : f[1] = t => f[2] = rows[t].status
      BY <3>3 DEF Tracked, Readings
    <3>5. rows'[t].status = "overdue"
      BY <1>1, <1>4, <2>1 DEF MarkRows, Row
    <3>6. StatusFits(w, t)'
      BY <1>2, <3>2, <3>4, <3>5 DEF StatusFits
    <3>7. <<t, "status">> \in Owed(w)'
      BY <1>2, <1>4 DEF Owed, Found
    <3>8. QED
      BY <1>2, <2>2, <3>2, <3>6, <3>7, AloneReplays
  <2>5. QED
    BY <2>3, <2>4
<1>5. QED
  BY <1>3, <1>4

\* The history insert for the status of a task adds one entry at the end of its trail.
LEMMA StatusEntryAdded ==
  ASSUME TypeOK, NEW t \in Tasks, NEW old \in Statuses \cup {"unused"}, NEW new \in Statuses,
         RecordStatus(t, old, new), Joined(history[t].status, NoStatus),
         Last(history[t].status, NoStatus) = IF old = "unused" THEN NoStatus ELSE old
  PROVE  Joined(history'[t].status, NoStatus) /\ Last(history'[t].status, NoStatus) = new
<1> DEFINE entry == [old |-> IF old = "unused" THEN NoStatus ELSE old, new |-> new]
           trail == history[t].status
<1>1. trail \in Seq(StatusEntry) /\ history[t] \in Trail
  BY DEF TypeOK, Trail
<1>2. entry \in StatusEntry
  BY DEF StatusEntry, NoStatus
<1>3. entry.old = Last(trail, NoStatus) /\ entry.new = new
  OBVIOUS
<1>4. history' = [history EXCEPT ![t].status = Append(@, entry)]
  BY DEF RecordStatus, NoStatus
<1> HIDE DEF entry
<1>5. history'[t].status = Append(trail, entry)
  BY <1>1, <1>4 DEF TypeOK, Trail
<1> HIDE DEF trail
<1>6. Longer(trail, entry, history'[t].status)
  BY <1>1, <1>2, <1>5, AppendIsLonger
<1>7. Joined(trail, NoStatus)
  BY DEF trail
<1>8. Joined(history'[t].status, NoStatus) /\ Last(history'[t].status, NoStatus) = entry.new
  BY <1>3, <1>6, <1>7, Appended
<1>9. QED
  BY <1>3, <1>8

\* The insert after a creation or a change, on the task and on the others.
LEMMA LogReplays ==
  ASSUME Typed, Tracked, NEW t \in Tasks \ contended, NEW w \in Workers, LogStatus(w),
         StatusReplays(t)
  PROVE  StatusReplays(t)'
<1>1. /\ req[w] \in Request /\ req[w].task \in Tasks /\ req[w].step = "logStatus" /\ HoldingOf(w)
      /\ req[w].found = {} /\ req[w].old.status \in Statuses \cup {"unused"}
      /\ req[w].new.status \in Statuses
  BY RequestTyping DEF Typed, LogStatus, Holding, HoldingOf
<1>2. /\ \A v \in Workers \ {w} : req'[v] = req[v]
      /\ req'[w].step = "idle" /\ UNCHANGED <<rows, unrecorded>>
      /\ RecordStatus(req[w].task, req[w].old.status, req[w].new.status)
  BY DEF LogStatus, Finish, Idle, Typed, TypeOK
<1>3. StatusFits(w, t)'
  BY <1>2 DEF StatusFits
<1>4. CASE req[w].task # t
  <2>1. history'[t] = history[t] /\ <<t, "status">> \notin Owed(w)
    BY <1>1, <1>2, <1>4 DEF RecordStatus, Owed, Typed, TypeOK
  <2>2. QED
    BY <1>2, <1>3, <2>1, StatusStays
<1>5. CASE req[w].task = t
  <2>1. On(w, t)
    BY <1>1, <1>5 DEF On, Busy
  <2>2. CASE <<t, "status">> \in unrecorded
    BY <1>2, <2>2 DEF StatusReplays
  <2>3. CASE <<t, "status">> \notin unrecorded
    <3>1. Joined(history[t].status, NoStatus) /\ StatusFits(w, t)
      BY <2>3 DEF StatusReplays
    <3>2. /\ Last(history[t].status, NoStatus) =
               IF req[w].old.status = "unused" THEN NoStatus ELSE req[w].old.status
          /\ rows[t].status = req[w].new.status
      BY <1>1, <1>5, <3>1 DEF StatusFits
    <3>3. /\ Joined(history'[t].status, NoStatus)
          /\ Last(history'[t].status, NoStatus) = req[w].new.status
      BY <1>1, <1>2, <1>5, <3>1, <3>2, StatusEntryAdded DEF Typed
    <3>4. QED
      BY <1>2, <1>3, <2>1, <3>2, <3>3, AloneReplays
  <2>4. QED
    BY <2>2, <2>3
<1>6. QED
  BY <1>4, <1>5

\* The sweep's insert, on the task it is about and on the others.
LEMMA LogMarkReplays ==
  ASSUME Typed, Tracked, SweepOnce, NEW t \in Tasks \ contended, NEW w \in Workers, LogMark(w),
         Live(t), StatusReplays(t)
  PROVE  StatusReplays(t)'
<1>1. req[w] \in Request /\ req[w].step = "logMarks"
  BY RequestTyping DEF Typed, LogMark
<1>2. PICK f \in req[w].found :
         /\ IF Live(f[1]) THEN RecordStatus(f[1], f[2], "overdue") ELSE UNCHANGED history
         /\ NextMark(w, f)
  BY DEF LogMark
<1>3. f[1] \in Tasks /\ f[2] \in Statuses /\ UNCHANGED <<rows, unrecorded>>
  BY RequestTyping DEF Typed, LogMark
<1>4. /\ \A v \in Workers \ {w} : req'[v] = req[v]
      /\ \/ req'[w].step = "idle" /\ req[w].found = {f}
         \/ req'[w].step = "logMarks" /\ req'[w].found = req[w].found \ {f}
  BY <1>1, <1>2 DEF NextMark, Finish, Idle, Typed, TypeOK, Request
<1>5. CASE f[1] # t
  <2>1. history'[t] = history[t]
    BY <1>2, <1>3, <1>5 DEF RecordStatus, Typed, TypeOK
  <2>2. StatusFits(w, t) => StatusFits(w, t)'
    BY <1>1, <1>3, <1>4, <2>1 DEF StatusFits
  <2>3. <<t, "status">> \in Owed(w) => <<t, "status">> \in Owed(w)'
    BY <1>1, <1>4, <1>5 DEF Owed, Found
  <2>4. QED
    BY <1>3, <1>4, <2>1, <2>2, <2>3, StatusStays
<1>6. CASE f[1] = t
  <2>1. On(w, t)
    BY <1>1, <1>6 DEF On, Busy, Found
  <2>2. CASE <<t, "status">> \in unrecorded
    BY <1>3, <2>2 DEF StatusReplays
  <2>3. CASE <<t, "status">> \notin unrecorded
    <3>1. Joined(history[t].status, NoStatus) /\ StatusFits(w, t)
      BY <2>3 DEF StatusReplays
    <3>2. Last(history[t].status, NoStatus) = f[2] /\ rows[t].status = "overdue"
      BY <1>1, <1>6, <3>1 DEF StatusFits
    <3>3. f[2] # "unused" /\ "overdue" \in Statuses /\ RecordStatus(t, f[2], "overdue")
      BY <1>2, <1>3, <1>6 DEF Statuses
    <3>4. Joined(history'[t].status, NoStatus) /\ Last(history'[t].status, NoStatus) = "overdue"
      BY <1>3, <3>1, <3>2, <3>3, StatusEntryAdded DEF Typed
    <3>5. \A g \in req[w].found \ {f} : g[1] # t
      BY <1>6 DEF SweepOnce
    <3>6. StatusFits(w, t)'
      BY <1>4, <3>5 DEF StatusFits
    <3>7. QED
      BY <1>3, <1>4, <2>1, <3>2, <3>4, <3>6, AloneReplays
  <2>4. QED
    BY <2>2, <2>3
<1>7. QED
  BY <1>5, <1>6

\* A failing statement loses the entry it stood for, and no other.
LEMMA FailReplays ==
  ASSUME Typed, NEW t \in Tasks, NEW w \in Workers, Fail(w) \/ FailMark(w)
  PROVE  /\ StatusReplays(t) => StatusReplays(t)'
         /\ UserReplays(t) => UserReplays(t)'
<1>1. UNCHANGED <<rows, history>> /\ unrecorded \subseteq unrecorded' /\ req[w] \in Request
  BY RequestTyping DEF Fail, FailMark, Typed
<1>2. CASE Fail(w)
  <2>1. /\ \A v \in Workers \ {w} : req'[v] = req[v]
        /\ req'[w].step = "idle" /\ Owed(w) \subseteq unrecorded'
    BY <1>2 DEF Fail, Finish, Idle, Typed, TypeOK
  <2>2. StatusFits(w, t)' /\ UserFits(w, t)' /\ UserRead(w, t)'
    BY <2>1 DEF StatusFits, UserFits, UserRead
  <2>3. QED
    BY <1>1, <2>1, <2>2, StatusStays, UserStays
<1>3. CASE FailMark(w)
  <2>1. PICK f \in req[w].found : NextMark(w, f) /\ unrecorded' = unrecorded \cup {<<f[1], "status">>}
    BY <1>3 DEF FailMark
  <2>2. /\ \A v \in Workers \ {w} : req'[v] = req[v]
        /\ req[w].step = "logMarks"
        /\ \/ req'[w].step = "idle" /\ req[w].found = {f}
           \/ req'[w].step = "logMarks" /\ req'[w].found = req[w].found \ {f}
    BY <1>1, <1>3, <2>1 DEF FailMark, NextMark, Finish, Idle, Typed, TypeOK, Request
  <2>3. <<t, "status">> \in Owed(w) => <<t, "status">> \in Owed(w)' \cup unrecorded'
    BY <2>1, <2>2 DEF Owed, Found
  <2>4. <<t, "assignee">> \notin Owed(w)
    BY <2>2 DEF Owed
  <2>5. StatusFits(w, t) => StatusFits(w, t)'
    BY <1>1, <2>2 DEF StatusFits
  <2>6. UserFits(w, t)' /\ UserRead(w, t)'
    BY <2>2 DEF UserFits, UserRead
  <2>7. QED
    BY <1>1, <2>2, <2>3, <2>4, <2>5, <2>6, StatusStays, UserStays
<1>4. QED
  BY <1>2, <1>3

\* The death of the process loses every entry that was due.
LEMMA CrashReplays ==
  ASSUME Typed, NEW t \in Tasks, Crash
  PROVE  /\ StatusReplays(t) => StatusReplays(t)'
         /\ UserReplays(t) => UserReplays(t)'
<1>1. /\ UNCHANGED <<rows, history>> /\ unrecorded \subseteq unrecorded'
      /\ \A w \in Workers : req'[w].step = "idle" /\ Owed(w) \subseteq unrecorded'
  BY DEF Crash, Idle
<1>2. \A w \in Workers : StatusFits(w, t)' /\ UserFits(w, t)' /\ UserRead(w, t)'
  BY <1>1 DEF StatusFits, UserFits, UserRead
<1>3. \A field : Owes(field, t) => <<t, field>> \in unrecorded'
  BY <1>1 DEF Owes
<1>4. QED
  BY <1>1, <1>2, <1>3 DEF StatusReplays, UserReplays

\* The steps that leave the assignee, and what is known of it, as they were.
LEMMA UserQuiet ==
  ASSUME Typed, NEW t \in Tasks, NEW w \in Workers, Live(t)', Live(t) => UserReplays(t),
         \/ \E s \in Tasks : UpdateTask(w, s) \/ DeleteTask(w, s) \/ ChangeTaskStatus(w, s)
         \/ MarkTasksOverdue(w)
         \/ WriteEdit(w) \/ LogEdit(w) \/ DeleteRow(w) \/ UpdateStatus(w) \/ LogStatus(w)
         \/ MarkRows(w) \/ LogMark(w) \/ Vanished(w)
  PROVE  UserReplays(t)'
<1>1. /\ req[w] \in Request /\ req[w].task \in Tasks /\ rows[req[w].task] \in Row
      /\ rows[t] \in Row /\ history[t] \in Trail
  BY RequestTyping DEF Typed, TypeOK
<1>2. /\ \A v \in Workers \ {w} : req'[v] = req[v]
      /\ req'[w].step \notin {"assign", "logAssign"}
  <2>1. CASE \E s \in Tasks : UpdateTask(w, s) \/ DeleteTask(w, s) \/ ChangeTaskStatus(w, s)
    <3>1. PICK s \in Tasks : \E step \in {"edit", "delete", "status"} :
                              \E old, new : Begin(w, s, step, old, new)
      BY <2>1 DEF UpdateTask, DeleteTask, ChangeTaskStatus
    <3>2. QED
      BY <3>1 DEF Begin, Typed, TypeOK
  <2>2. CASE MarkTasksOverdue(w)
    <3>1. PICK found : req' = [req EXCEPT ![w] = [Idle EXCEPT !.step = "mark", !.found = found]]
      BY <2>2 DEF MarkTasksOverdue
    <3>2. QED
      BY <3>1, IdleIsRequest DEF Typed, TypeOK, Request
  <2>3. CASE WriteEdit(w) \/ UpdateStatus(w) \/ MarkRows(w)
    <3>1. PICK step \in {"logEdit", "logStatus", "logMarks"} : Goto(w, step)
      BY <2>3 DEF WriteEdit, UpdateStatus, MarkRows, Write
    <3>2. QED
      BY <1>1, <3>1 DEF Goto, Typed, TypeOK, Request
  <2>4. CASE LogEdit(w) \/ DeleteRow(w) \/ LogStatus(w) \/ Vanished(w)
    <3>1. Finish(w)
      BY <2>4 DEF LogEdit, DeleteRow, LogStatus, Vanished
    <3>2. QED
      BY <3>1 DEF Finish, Idle, Typed, TypeOK
  <2>5. CASE LogMark(w)
    <3>1. PICK f \in req[w].found : NextMark(w, f)
      BY <2>5 DEF LogMark
    <3>2. req'[w].step \in {"idle", "logMarks"}
      <4>1. CASE Finish(w)
        BY <4>1 DEF Finish, Idle, Typed, TypeOK
      <4>2. CASE ~Finish(w)
        BY <1>1, <2>5, <3>1, <4>2 DEF LogMark, NextMark, Typed, TypeOK, Request
      <4>3. QED
        BY <4>1, <4>2
    <3>3. QED
      BY <3>1, <3>2 DEF NextMark, Finish, Typed, TypeOK
  <2>6. QED
    BY <2>1, <2>2, <2>3, <2>4, <2>5
<1>3. /\ rows'[t].assignee = rows[t].assignee /\ Live(t) /\ history'[t].assignee = history[t].assignee
      /\ <<t, "assignee">> \in unrecorded => <<t, "assignee">> \in unrecorded'
  <2>1. CASE \/ \E s \in Tasks : UpdateTask(w, s) \/ DeleteTask(w, s) \/ ChangeTaskStatus(w, s)
             \/ MarkTasksOverdue(w) \/ LogEdit(w) \/ Vanished(w)
    <3>1. UNCHANGED <<rows, history, unrecorded>>
      BY <2>1 DEF UpdateTask, DeleteTask, ChangeTaskStatus, MarkTasksOverdue, LogEdit, Vanished
    <3>2. QED
      BY <3>1 DEF Live
  <2>2. CASE WriteEdit(w) \/ UpdateStatus(w)
    <3>1. PICK row : /\ rows' = [rows EXCEPT ![req[w].task] = row]
                     /\ row.assignee = rows[req[w].task].assignee
      <4>1. \A d, u : /\ [rows[req[w].task] EXCEPT !.deadline = d].assignee = rows[req[w].task].assignee
                      /\ [rows[req[w].task] EXCEPT !.status = u].assignee = rows[req[w].task].assignee
        BY <1>1 DEF Row
      <4>2. CASE WriteEdit(w)
        BY <4>1, <4>2 DEF WriteEdit, Write
      <4>3. CASE UpdateStatus(w)
        BY <4>1, <4>3 DEF UpdateStatus, Write
      <4>4. QED
        BY <2>2, <4>2, <4>3
    <3>2. UNCHANGED <<history, unrecorded>> /\ Live(req[w].task)
      BY <2>2 DEF WriteEdit, UpdateStatus, Write
    <3>3. rows'[t].assignee = rows[t].assignee
      BY <3>1 DEF Typed, TypeOK
    <3>4. t # req[w].task => rows'[t] = rows[t]
      BY <3>1 DEF Typed, TypeOK
    <3>5. Live(t)
      BY <3>2, <3>4 DEF Live
    <3>6. QED
      BY <3>2, <3>3, <3>5
  <2>3. CASE DeleteRow(w)
    <3>1. /\ rows' = [rows EXCEPT ![req[w].task] = Blank("deleted")]
          /\ history' = [history EXCEPT ![req[w].task] = NoTrail]
          /\ unrecorded' = {u \in unrecorded : u[1] # req[w].task}
      BY <2>3 DEF DeleteRow
    <3>2. req[w].task # t
      BY <1>1, <3>1 DEF Live, Blank, Statuses, Typed, TypeOK
    <3>3. rows'[t] = rows[t] /\ history'[t] = history[t]
      BY <3>1, <3>2 DEF Typed, TypeOK
    <3>4. <<t, "assignee">> \in unrecorded => <<t, "assignee">> \in unrecorded'
      BY <3>1, <3>2
    <3>5. QED
      BY <3>3, <3>4 DEF Live
  <2>4. CASE MarkRows(w)
    <3>1. rows'[t].assignee = rows[t].assignee /\ UNCHANGED <<history, unrecorded>>
      BY <1>1, <2>4 DEF MarkRows, Row
    <3>2. ~Live(t) => rows'[t] = rows[t]
      BY <2>4 DEF MarkRows
    <3>3. QED
      BY <3>1, <3>2 DEF Live
  <2>5. CASE LogStatus(w) \/ LogMark(w)
    <3>1. UNCHANGED <<rows, unrecorded>>
      BY <2>5 DEF LogStatus, LogMark
    <3>2. ASSUME NEW s, NEW old, NEW new, RecordStatus(s, old, new)
          PROVE  history'[t].assignee = history[t].assignee
      BY <1>1, <3>2 DEF RecordStatus, Typed, TypeOK, Trail
    <3>3. history'[t].assignee = history[t].assignee
      BY <2>5, <3>2 DEF LogStatus, LogMark
    <3>4. QED
      BY <3>1, <3>3 DEF Live
  <2>6. QED
    BY <2>1, <2>2, <2>3, <2>4, <2>5
<1>4. <<t, "assignee">> \notin Owed(w)
  <2>1. req[w].step = "logAssign" => Vanished(w) /\ req[w].task # t
    BY <1>3 DEF UpdateTask, DeleteTask, ChangeTaskStatus, Begin, Busy, MarkTasksOverdue, WriteEdit,
         LogEdit, DeleteRow, UpdateStatus, LogStatus, MarkRows, LogMark, Vanished
  <2>2. QED
    BY <2>1 DEF Owed
<1>5. UserFits(w, t)' /\ UserRead(w, t)'
  BY <1>2 DEF UserFits, UserRead
<1>6. QED
  BY <1>2, <1>3, <1>4, <1>5, UserStays

\* Whoever assigns a task starts with the assignee the row shows.
LEMMA AssignReplays ==
  ASSUME Typed, NEW t \in Tasks, NEW w \in Workers, NEW s \in Tasks, AssignTask(w, s),
         UserReplays(t)
  PROVE  UserReplays(t)'
<1>1. PICK u \in Users : Begin(w, s, "assign",
                               [Blank("unused") EXCEPT !.assignee = rows[s].assignee],
                               [Blank("unused") EXCEPT !.assignee = u])
  BY DEF AssignTask
<1>2. /\ \A v \in Workers \ {w} : req'[v] = req[v]
      /\ req'[w].step = "assign" /\ req'[w].task = s /\ req'[w].old.assignee = rows[s].assignee
  BY <1>1 DEF Begin, Blank, Typed, TypeOK
<1>3. UNCHANGED <<rows, history, unrecorded>> /\ <<t, "assignee">> \notin Owed(w)
  BY <1>1 DEF AssignTask, Begin, Busy, Owed
<1>4. UserFits(w, t)' /\ UserRead(w, t)'
  BY <1>2, <1>3 DEF UserFits, UserRead
<1>5. QED
  BY <1>2, <1>3, <1>4, UserStays

\* A handler alone on a task it assigns still holds the assignee it read there.
LEMMA SetReplays ==
  ASSUME Typed, Tracked, NEW t \in Tasks \ contended, NEW w \in Workers, SetAssignee(w),
         Live(t) => UserReplays(t), Live(t)'
  PROVE  UserReplays(t)'
<1>1. /\ req[w] \in Request /\ req[w].task \in Tasks /\ rows[t] \in Row /\ HoldingOf(w)
      /\ req[w].step = "assign" /\ req[w].found = {}
  BY RequestTyping DEF Typed, TypeOK, SetAssignee, Holding, HoldingOf
<1>2. /\ \A v \in Workers \ {w} : req'[v] = req[v]
      /\ req'[w].step = "logAssign" /\ req'[w].task = req[w].task
      /\ req'[w].old = req[w].old /\ req'[w].new = req[w].new
      /\ UNCHANGED <<history, unrecorded>>
  BY <1>1 DEF SetAssignee, Write, Goto, Typed, TypeOK, Request
<1>3. UserRead(w, t)'
  BY <1>2 DEF UserRead
<1>4. CASE req[w].task # t
  <2>1. rows'[t] = rows[t] /\ <<t, "assignee">> \notin Owed(w)
    BY <1>1, <1>4 DEF SetAssignee, Write, Owed, Typed, TypeOK
  <2>2. UserFits(w, t)'
    BY <1>2, <1>4 DEF UserFits
  <2>3. UserReplays(t)
    BY <2>1 DEF Live
  <2>4. QED
    BY <1>2, <1>3, <2>1, <2>2, <2>3, UserStays
<1>5. CASE req[w].task = t
  <2>1. On(w, t) /\ Live(t) /\ UserReplays(t)
    BY <1>1, <1>5 DEF On, Busy, SetAssignee, Write
  <2>2. CASE <<t, "assignee">> \in unrecorded
    <3>1. \A v \in Workers : UserRead(v, t)'
      BY <1>2, <1>3, <2>1, Alone, OffTask
    <3>2. QED
      BY <1>2, <2>2, <3>1 DEF UserReplays
  <2>3. CASE <<t, "assignee">> \notin unrecorded
    <3>1. ~Owes("assignee", t)
      BY <1>1, <2>1, AloneOwes DEF Owed
    <3>2. /\ Joined(history[t].assignee, NoUser)
          /\ Last(history[t].assignee, NoUser) = rows[t].assignee
          /\ rows[t].assignee = req[w].old.assignee
      BY <1>1, <1>5, <2>1, <2>3, <3>1 DEF UserReplays, UserRead
    <3>3. rows'[t].assignee = req[w].new.assignee
      BY <1>1, <1>5 DEF SetAssignee, Write, Typed, TypeOK, Row
    <3>4. UserFits(w, t)'
      BY <1>2, <3>2, <3>3 DEF UserFits
    <3>5. <<t, "assignee">> \in Owed(w)'
      BY <1>2, <1>5 DEF Owed
    <3>6. QED
      BY <1>2, <1>3, <2>1, <3>2, <3>4, <3>5, AloneReplays
  <2>4. QED
    BY <2>2, <2>3
<1>6. QED
  BY <1>4, <1>5

\* The insert of an assignee's entry, on the task it is about and on the others.
LEMMA LogUserReplays ==
  ASSUME Typed, Tracked, NEW t \in Tasks \ contended, NEW w \in Workers, LogAssignee(w),
         UserReplays(t)
  PROVE  UserReplays(t)'
<1> DEFINE entry == [old |-> req[w].old.assignee, new |-> req[w].new.assignee]
           users == history[t].assignee
<1>1. /\ req[w] \in Request /\ req[w].task \in Tasks /\ req[w].step = "logAssign"
      /\ req[w].found = {} /\ req[w].new.assignee \in Users
      /\ req[w].old.assignee \in Users \cup {NoUser}
  BY RequestTyping DEF Typed, LogAssignee, Holding, HoldingOf, Row
<1>2. /\ \A v \in Workers \ {w} : req'[v] = req[v]
      /\ req'[w].step = "idle" /\ UNCHANGED <<rows, unrecorded>>
      /\ history' = [history EXCEPT ![req[w].task].assignee = Append(@, entry)]
  BY DEF LogAssignee, Finish, Idle, Typed, TypeOK
<1>3. UserFits(w, t)' /\ UserRead(w, t)'
  BY <1>2 DEF UserFits, UserRead
<1>4. entry \in AssigneeEntry /\ entry.old = req[w].old.assignee /\ entry.new = req[w].new.assignee
  BY <1>1 DEF AssigneeEntry
<1>5. users \in Seq(AssigneeEntry) /\ history[t] \in Trail
  BY DEF Typed, TypeOK, Trail
<1> HIDE DEF entry
<1>6. CASE req[w].task # t
  <2>1. history'[t] = history[t] /\ <<t, "assignee">> \notin Owed(w)
    BY <1>1, <1>2, <1>6 DEF Owed, Typed, TypeOK
  <2>2. QED
    BY <1>2, <1>3, <2>1, UserStays
<1>7. CASE req[w].task = t
  <2>1. On(w, t)
    BY <1>1, <1>7 DEF On, Busy
  <2>2. CASE <<t, "assignee">> \in unrecorded
    <3>1. \A v \in Workers : UserRead(v, t)'
      BY <1>2, <1>3, <2>1, Alone, OffTask
    <3>2. QED
      BY <1>2, <2>2, <3>1 DEF UserReplays
  <2>3. CASE <<t, "assignee">> \notin unrecorded
    <3>1. Joined(users, NoUser) /\ UserFits(w, t)
      BY <2>3 DEF UserReplays
    <3>2. entry.old = Last(users, NoUser) /\ rows[t].assignee = entry.new
      BY <1>1, <1>4, <1>7, <3>1 DEF UserFits
    <3>3. history'[t].assignee = Append(users, entry)
      BY <1>2, <1>5, <1>7 DEF Typed, TypeOK, Trail
    <3> HIDE DEF users
    <3>4. Longer(users, entry, history'[t].assignee)
      BY <1>4, <1>5, <3>3, AppendIsLonger
    <3>5. /\ Joined(history'[t].assignee, NoUser)
          /\ Last(history'[t].assignee, NoUser) = entry.new
      BY <3>1, <3>2, <3>4, Appended
    <3>6. QED
      BY <1>2, <1>3, <2>1, <3>2, <3>5, AloneReplays
  <2>4. QED
    BY <2>2, <2>3
<1>8. QED
  BY <1>6, <1>7

\* A sweep holds one status of a task from its query on.
LEMMA NextSweepsOnce == Typed /\ SweepOnce /\ [Next]_vars => SweepOnce'
<1> SUFFICES ASSUME Typed, SweepOnce, [Next]_vars, NEW w \in Workers
             PROVE  \A f, g \in req'[w].found : f[1] = g[1] => f = g
  BY DEF SweepOnce
<1>1. CASE req'[w].found \subseteq req[w].found
  BY <1>1 DEF SweepOnce
<1>2. CASE ~(req'[w].found \subseteq req[w].found)
  <2>1. MarkTasksOverdue(w)
    <3>1. req'[w] # req[w] /\ req'[w] # Idle /\ req'[w].found # {}
      BY <1>2 DEF Idle
    <3>2. ASSUME NEW v \in Workers, NEW s \in Tasks, NEW step, NEW old, NEW new,
                 Begin(v, s, step, old, new)
          PROVE  FALSE
      BY <3>1, <3>2 DEF Begin, Typed, TypeOK
    <3>3. ASSUME NEW v \in Workers, Finish(v)
          PROVE  FALSE
      BY <3>1, <3>3 DEF Finish, Typed, TypeOK
    <3>4. ASSUME NEW v \in Workers, NEW step, Goto(v, step)
          PROVE  FALSE
      BY <1>2, <3>4 DEF Goto, Typed, TypeOK, Request
    <3>5. ASSUME NEW v \in Workers, NEW f, NextMark(v, f)
          PROVE  FALSE
      BY <1>2, <3>3, <3>5 DEF NextMark, Typed, TypeOK, Request
    <3>6. ASSUME NEW v \in Workers, Arrive(v) \/ Continue(v) \/ Fail(v) \/ FailMark(v)
          PROVE  MarkTasksOverdue(v)
      <4>1. CASE Arrive(v)
        BY <3>2, <4>1 DEF Arrive, CreateTask, UpdateTask, DeleteTask, AssignTask, ChangeTaskStatus
      <4>2. CASE Continue(v)
        BY <3>3, <3>4, <3>5, <4>2
           DEF Continue, WriteEdit, LogEdit, DeleteRow, SetAssignee, LogAssignee, UpdateStatus,
               LogStatus, MarkRows, LogMark, Vanished, Write
      <4>3. CASE Fail(v) \/ FailMark(v)
        BY <3>3, <3>5, <4>3 DEF Fail, FailMark
      <4>4. QED
        BY <3>6, <4>1, <4>2, <4>3
    <3>7. PICK v \in Workers : MarkTasksOverdue(v)
      BY <3>1, <3>6 DEF Next, Crash, Tick, vars
    <3>8. v = w
      BY <3>1, <3>7 DEF MarkTasksOverdue, Typed, TypeOK
    <3>9. QED
      BY <3>7, <3>8
  <2>2. PICK overdue : req' = [req EXCEPT ![w] =
            [Idle EXCEPT !.step = "mark", !.found = {<<t, rows[t].status>> : t \in overdue}]]
    BY <2>1 DEF MarkTasksOverdue
  <2>3. req'[w].found = {<<t, rows[t].status>> : t \in overdue}
    BY <2>2, IdleIsRequest DEF Typed, TypeOK, Request
  <2>4. QED
    BY <2>3
<1>3. QED
  BY <1>1, <1>2

\* The statements write rows, and the trails of rows, that are there; a creation
\* writes an unused one.
LEMMA OnlyLiveRows ==
  ASSUME Typed, [Next]_vars, NEW t \in Tasks, ~Live(t)
  PROVE  /\ history'[t] = history[t]
         /\ rows'[t] = rows[t] \/ (rows[t].status = "unused" /\ rows'[t].status = "open")
<1>1. ASSUME NEW w \in Workers, NEW row, NEW step, Write(w, row, step)
      PROVE  rows'[t] = rows[t] /\ history' = history
  BY <1>1 DEF Write, Typed, TypeOK
<1>2. ASSUME NEW s, NEW old, NEW new, Live(s), RecordStatus(s, old, new)
      PROVE  history'[t] = history[t]
  BY <1>2 DEF RecordStatus, Typed, TypeOK
<1>3. ASSUME NEW w \in Workers, NEW s \in Tasks, CreateTask(w, s)
      PROVE  /\ history' = history
             /\ rows'[t] = rows[t] \/ (rows[t].status = "unused" /\ rows'[t].status = "open")
  <2>1. PICK deadline : rows' = [rows EXCEPT ![s] = [Blank("open") EXCEPT !.deadline = deadline]]
    BY <1>3 DEF CreateTask
  <2>2. rows[s].status = "unused" /\ history' = history
    BY <1>3 DEF CreateTask
  <2>3. QED
    BY <2>1, <2>2 DEF Blank, Typed, TypeOK
<1>4. ASSUME NEW w \in Workers, Continue(w)
      PROVE  history'[t] = history[t] /\ rows'[t] = rows[t]
  <2>1. CASE WriteEdit(w) \/ SetAssignee(w) \/ UpdateStatus(w)
    BY <1>1, <2>1 DEF WriteEdit, SetAssignee, UpdateStatus
  <2>2. CASE DeleteRow(w) \/ LogAssignee(w)
    BY <2>2 DEF DeleteRow, LogAssignee, Typed, TypeOK
  <2>3. CASE LogStatus(w) \/ LogMark(w)
    BY <1>2, <2>3 DEF LogStatus, LogMark
  <2>4. CASE LogEdit(w) \/ Vanished(w) \/ MarkRows(w)
    BY <2>4 DEF LogEdit, Vanished, MarkRows
  <2>5. QED
    BY <1>4, <2>1, <2>2, <2>3, <2>4 DEF Continue
<1>5. ASSUME NEW w \in Workers, Arrive(w), ~\E s \in Tasks : CreateTask(w, s)
      PROVE  UNCHANGED <<rows, history>>
  BY <1>5 DEF Arrive, UpdateTask, DeleteTask, AssignTask, ChangeTaskStatus, MarkTasksOverdue
<1>6. ASSUME \/ \E w \in Workers : Fail(w) \/ FailMark(w)
             \/ Crash \/ Tick \/ UNCHANGED vars
      PROVE  UNCHANGED <<rows, history>>
  BY <1>6 DEF Fail, FailMark, Crash, Tick, vars
<1>7. QED
  BY <1>3, <1>4, <1>5, <1>6 DEF Next

\* A task that does not exist yet has no trail.
LEMMA NextKeepsBlank == Typed /\ Tracked /\ UnusedIsBlank /\ [Next]_vars => UnusedIsBlank'
<1> SUFFICES ASSUME Typed, Tracked, UnusedIsBlank, [Next]_vars, NEW t \in Tasks,
                    rows'[t].status = "unused"
             PROVE  history'[t] = NoTrail
  BY DEF UnusedIsBlank
<1>1. CASE Live(t)
  <2>1. PICK w \in Workers : \E seen \in SeenBy(w, t) : CanTransition(seen, "unused")
    BY <1>1, StepFollowsReading DEF FollowsReading, Live, Statuses
  <2>2. SeenBy(w, t) \subseteq Statuses
    BY RequestTyping DEF SeenBy, Typed, Holding, HoldingOf, Statuses
  <2>3. \A seen \in Statuses : "unused" \notin AllowedTransitions[seen]
    BY DEF AllowedTransitions, Statuses
  <2>4. QED
    BY <2>1, <2>2, <2>3 DEF CanTransition
<1>2. CASE ~Live(t)
  <2>1. history'[t] = history[t] /\ rows[t].status = "unused"
    BY <1>2, OnlyLiveRows
  <2>2. QED
    BY <2>1 DEF UnusedIsBlank
<1>3. QED
  BY <1>1, <1>2

\* Every step keeps the trails replaying.
LEMMA NextReplays == Typed /\ Tracked /\ Replays /\ [Next]_vars => Replays'
<1> SUFFICES ASSUME Typed, Tracked, Replays, [Next]_vars PROVE Replays'
  OBVIOUS
<1>1. SweepOnce /\ UnusedIsBlank /\ SweepOnce' /\ UnusedIsBlank'
  BY NextSweepsOnce, NextKeepsBlank DEF Replays
<1>2. contended \subseteq contended'
  <2>1. ASSUME NEW w, NEW ts, Contend(w, ts)
        PROVE  contended \subseteq contended'
    BY <2>1 DEF Contend
  <2>2. ASSUME NEW w \in Workers, Arrive(w)
        PROVE  contended \subseteq contended'
    BY <2>1, <2>2 DEF Arrive, CreateTask, UpdateTask, DeleteTask, AssignTask, ChangeTaskStatus,
         Begin, MarkTasksOverdue
  <2>3. ASSUME NEW w \in Workers, Continue(w) \/ Fail(w) \/ FailMark(w)
        PROVE  contended' = contended
    BY <2>3 DEF Continue, WriteEdit, LogEdit, DeleteRow, SetAssignee, LogAssignee, UpdateStatus,
         LogStatus, MarkRows, LogMark, Vanished, Fail, FailMark, Write
  <2>4. QED
    BY <2>2, <2>3 DEF Next, Crash, Tick, vars
<1>3. ASSUME NEW t \in Tasks \ contended', Live(t)'
      PROVE  StatusReplays(t)' /\ UserReplays(t)'
  <2>1. t \in Tasks \ contended /\ (Live(t) => StatusReplays(t) /\ UserReplays(t))
    BY <1>2, <1>3 DEF Replays
  <2>2. CASE \E w \in Workers, s \in Tasks : CreateTask(w, s)
    <3>1. PICK w \in Workers, s \in Tasks : CreateTask(w, s)
      BY <2>2
    <3>2. CASE s = t
      BY <1>1, <1>3, <3>1, <3>2, CreateReplays
    <3>3. CASE s # t
      <4>1. /\ rows'[t] = rows[t] /\ history'[t] = history[t] /\ unrecorded' = unrecorded
            /\ \A v \in Workers \ {w} : req'[v] = req[v]
            /\ \A field : <<t, field>> \notin Owed(w)
            /\ StatusFits(w, t)' /\ UserFits(w, t)' /\ UserRead(w, t)'
        BY <3>1, <3>3, CreateElsewhere
      <4>2. StatusReplays(t) /\ UserReplays(t)
        BY <1>3, <2>1, <4>1 DEF Live
      <4>3. QED
        BY <4>1, <4>2, StatusStays, UserStays
    <3>4. QED
      BY <3>2, <3>3
  <2>3. CASE \E w \in Workers : Arrive(w) /\ ~\E s \in Tasks : CreateTask(w, s)
    <3>1. PICK w \in Workers : Arrive(w) /\ ~\E s \in Tasks : CreateTask(w, s)
      BY <2>3
    <3>2. StatusReplays(t)'
      BY <1>3, <2>1, <3>1, QuietReplays DEF Arrive
    <3>3. CASE \E s \in Tasks : AssignTask(w, s)
      <4>1. Live(t)
        BY <1>3, <3>3 DEF AssignTask, Live
      <4>2. QED
        BY <2>1, <3>2, <3>3, <4>1, AssignReplays
    <3>4. CASE ~\E s \in Tasks : AssignTask(w, s)
      BY <1>3, <2>1, <3>1, <3>2, <3>4, UserQuiet DEF Arrive
    <3>5. QED
      BY <3>3, <3>4
  <2>4. CASE \E w \in Workers : Continue(w)
    <3>1. PICK w \in Workers : Continue(w)
      BY <2>4
    <3>2. rows' = rows => Live(t)
      BY <1>3 DEF Live
    <3>3. StatusReplays(t)'
      <4>1. CASE UpdateStatus(w)
        BY <1>3, <2>1, <4>1, UpdateReplays
      <4>2. CASE MarkRows(w)
        BY <1>3, <2>1, <4>2, MarkReplays
      <4>3. CASE LogStatus(w)
        BY <2>1, <3>2, <4>3, LogReplays DEF LogStatus
      <4>4. CASE LogMark(w)
        BY <1>1, <2>1, <3>2, <4>4, LogMarkReplays DEF LogMark
      <4>5. CASE \/ WriteEdit(w) \/ SetAssignee(w) \/ LogEdit(w) \/ LogAssignee(w)
                 \/ DeleteRow(w) \/ Vanished(w)
        BY <1>3, <2>1, <4>5, QuietReplays
      <4>6. QED
        BY <3>1, <4>1, <4>2, <4>3, <4>4, <4>5 DEF Continue
    <3>4. UserReplays(t)'
      <4>1. CASE SetAssignee(w)
        BY <1>3, <2>1, <4>1, SetReplays
      <4>2. CASE LogAssignee(w)
        BY <2>1, <3>2, <4>2, LogUserReplays DEF LogAssignee
      <4>3. CASE ~SetAssignee(w) /\ ~LogAssignee(w)
        BY <1>3, <2>1, <3>1, <4>3, UserQuiet DEF Continue
      <4>4. QED
        BY <4>1, <4>2, <4>3
    <3>5. QED
      BY <3>3, <3>4
  <2>5. CASE \E w \in Workers : Fail(w) \/ FailMark(w)
    <3>1. Live(t)
      BY <1>3, <2>5 DEF Fail, FailMark, Live
    <3>2. QED
      BY <2>1, <2>5, <3>1, FailReplays
  <2>6. CASE Crash
    <3>1. Live(t)
      BY <1>3, <2>6 DEF Crash, Live
    <3>2. QED
      BY <2>1, <2>6, <3>1, CrashReplays
  <2>7. CASE Tick \/ UNCHANGED vars
    <3>1. UNCHANGED <<rows, history, req, unrecorded>>
      BY <2>7 DEF Tick, vars
    <3>2. StatusReplays(t) /\ UserReplays(t)
      BY <1>3, <2>1, <3>1 DEF Live
    <3>3. QED
      BY <3>1, <3>2 DEF StatusReplays, UserReplays, StatusFits, UserFits, UserRead, Owes, Owed, Found
  <2>8. QED
    BY <2>2, <2>3, <2>4, <2>5, <2>6, <2>7 DEF Next
<1>4. QED
  BY <1>1, <1>3 DEF Replays

\* Unless two requests have worked on a task at one time, its trail replays it, from
\* the creation on, but for the entries a failure or a restart lost and those an
\* insert is still due for.
THEOREM TrailReplaysTask == Spec => []TrailReplays
<1>1. Init => Tracked /\ Replays
  <2> SUFFICES ASSUME Init PROVE Tracked /\ Replays
    OBVIOUS
  <2>1. \A w \in Workers : req[w].step = "idle" /\ req[w].found = {}
    BY DEF Init, Idle
  <2>2. \A t \in Tasks : rows[t].status = "unused" /\ history[t] = NoTrail
    BY DEF Init, Blank
  <2>3. Tracked
    BY <2>1 DEF Tracked, Meetings, Readings, On, Busy, SeenBy
  <2>4. SweepOnce
    BY <2>1 DEF SweepOnce
  <2>5. QED
    BY <2>2, <2>3, <2>4 DEF Replays, UnusedIsBlank, Live, Statuses
<1>2. Typed /\ Replays => TrailReplays
  <2> SUFFICES ASSUME Typed, Replays, NEW t \in Tasks \ contended, Live(t)
               PROVE  LET trail == history[t].status
                          users == history[t].assignee
                          due(field) == \/ <<t, field>> \in unrecorded
                                        \/ \E w \in Workers : <<t, field>> \in Owed(w)
                      IN  /\ <<t, "status">> \notin unrecorded =>
                                \A i \in 1 .. Len(trail) :
                                   trail[i].old = IF i = 1 THEN "" ELSE trail[i - 1].new
                          /\ due("status") \/ (trail # <<>> /\ trail[Len(trail)].new = rows[t].status)
                          /\ <<t, "assignee">> \notin unrecorded =>
                                \A i \in 1 .. Len(users) :
                                   users[i].old = IF i = 1 THEN NoUser ELSE users[i - 1].new
                          /\ due("assignee") \/ rows[t].assignee =
                                IF users = <<>> THEN NoUser ELSE users[Len(users)].new
    BY DEF TrailReplays
  <2>1. StatusReplays(t) /\ UserReplays(t)
    BY DEF Replays
  <2>2. <<t, "status">> \notin unrecorded =>
          /\ \A i \in 1 .. Len(history[t].status) : history[t].status[i].old =
                IF i = 1 THEN "" ELSE history[t].status[i - 1].new
          /\ \/ Owes("status", t)
             \/ history[t].status # <<>>
                /\ history[t].status[Len(history[t].status)].new = rows[t].status
    BY <2>1 DEF StatusReplays, Joined, Last, NoStatus, Live, Statuses
  <2>3. <<t, "assignee">> \notin unrecorded =>
          /\ \A i \in 1 .. Len(history[t].assignee) : history[t].assignee[i].old =
                IF i = 1 THEN NoUser ELSE history[t].assignee[i - 1].new
          /\ \/ Owes("assignee", t)
             \/ rows[t].assignee = IF history[t].assignee = <<>> THEN NoUser
                                   ELSE history[t].assignee[Len(history[t].assignee)].new
    BY <2>1 DEF UserReplays, Joined, Last
  <2>4. QED
    BY <2>2, <2>3 DEF Owes
<1>3. QED
  BY <1>1, <1>2, InitTyped, NextKeeps, NextTracks, NextReplays, PTL DEF Spec
=============================================================================
