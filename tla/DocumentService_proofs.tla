------------------------ MODULE DocumentService_proofs ------------------------
(***************************************************************************)
(* Theorems about DocumentService, for every set of documents, workers and *)
(* users and every bound, in two groups.                                   *)
(*                                                                         *)
(* Of every interleaving: the types, the lawful trail, the status that is  *)
(* accounted for, archived_at, the draft nothing returns to, and that a    *)
(* status changes from what its writer read (Tracked).                     *)
(*                                                                         *)
(* When requests on a document do not overlap (Exclusive): both trails     *)
(* replay the row, and the handlers implement DocumentLifecycle.  Both     *)
(* rest on Agrees: requests are on different documents, what each one has  *)
(* read still holds, and the entry it has yet to insert joins up with the  *)
(* trail.  A step is about one document and settles it (Settled); Rejoin   *)
(* carries the rest over.                                                  *)
(***************************************************************************)
EXTENDS DocumentService, TLAPS

-----------------------------------------------------------------------------
\* Typing of the constant records.

\* A blank row is a row, whatever the row state it is given.
LEMMA BlankIsRow == \A s \in RowStates : Blank(s) \in Row
<1>1. (CHOOSE t \in Titles : TRUE) \in Titles
  BY ConstantsOK
<1>2. QED
  BY <1>1 DEF Blank, Row

\* An idle worker's record is a request record.
LEMMA IdleIsRequest == Idle \in Request
<1>1. (CHOOSE d \in Docs : TRUE) \in Docs
  BY ConstantsOK
<1>2. Blank("unused") \in Row
  BY BlankIsRow DEF RowStates
<1>3. QED
  BY <1>1, <1>2 DEF Idle, Request, Steps

\* Moving a request to another step, or a sweep to another set of documents,
\* keeps it a request.
LEMMA StepTyping ==
  ASSUME NEW r \in Request, NEW step \in Steps
  PROVE  [r EXCEPT !.step = step] \in Request
BY DEF Request

LEMMA FoundTyping ==
  ASSUME NEW r \in Request, NEW step \in Steps, NEW found \in SUBSET (Docs \X Statuses)
  PROVE  /\ [r EXCEPT !.step = step, !.found = found] \in Request
         /\ [r EXCEPT !.found = found] \in Request
BY DEF Request

LEMMA ProceedTyping ==
  ASSUME NEW w \in Workers, NEW step \in Steps, TypeOK, Proceed(w, step)
  PROVE  req' \in [Workers -> Request]
<1>1. req[w] \in Request
  BY DEF TypeOK
<1>2. [req[w] EXCEPT !.step = step] \in Request
  BY <1>1, StepTyping
<1>3. QED
  BY <1>2 DEF Proceed, TypeOK

LEMMA FinishTyping ==
  ASSUME NEW w \in Workers, TypeOK, Finish(w)
  PROVE  req' \in [Workers -> Request]
BY IdleIsRequest DEF Finish, TypeOK

\* A status entry of the declared shape leaves well-typed trails.
LEMMA RecordTyping ==
  ASSUME NEW d \in Docs, NEW entry \in StatusEntry, TypeOK, RecordStatus(d, entry)
  PROVE  history' \in [Docs -> Trail]
<1>1. history[d] \in Trail
  BY DEF TypeOK
<1>2. Append(history[d].status, entry) \in Seq(StatusEntry)
  BY <1>1 DEF Trail
<1>3. [history[d] EXCEPT !.status = Append(history[d].status, entry)] \in Trail
  BY <1>1, <1>2 DEF Trail
<1>4. history' = [history EXCEPT ![d] =
                    [history[d] EXCEPT !.status = Append(history[d].status, entry)]]
  BY DEF RecordStatus, TypeOK
<1>5. QED
  BY <1>3, <1>4 DEF TypeOK

\* The sweep's loop leaves a request record behind.
LEMMA NextMarkTyping ==
  ASSUME NEW w \in Workers, NEW f, TypeOK, NextMark(w, f)
  PROVE  req' \in [Workers -> Request]
<1>1. CASE req[w].found = {f}
  BY <1>1, FinishTyping DEF NextMark
<1>2. CASE req[w].found # {f}
  <2>1. req[w] \in Request /\ req[w].found \ {f} \in SUBSET (Docs \X Statuses)
    BY DEF TypeOK, Request
  <2>2. [req[w] EXCEPT !.found = req[w].found \ {f}] \in Request
    BY <2>1, FoundTyping DEF Request
  <2>3. QED
    BY <1>2, <2>2 DEF NextMark, TypeOK
<1>3. QED
  BY <1>1, <1>2

\* The entries a worker owes are of documents, for one of the two fields.
LEMMA OwedTyping ==
  ASSUME TypeOK, NEW w \in Workers
  PROVE  Owed(w) \subseteq Docs \X {"status", "responsible"}
<1>1. req[w].doc \in Docs /\ req[w].found \subseteq Docs \X Statuses
  BY DEF TypeOK, Request
<1>2. QED
  BY <1>1 DEF Owed

\* What the document's trails are made of, entry by entry.
LEMMA TrailTyping ==
  ASSUME NEW d \in Docs, TypeOK
  PROVE  /\ history[d].status \in Seq(StatusEntry)
         /\ history[d].responsible \in Seq(ResponsibleEntry)
BY DEF TypeOK, Trail

-----------------------------------------------------------------------------
\* Every reachable state is well typed: each handler leaves rows, trails and
\* requests of the declared shape, whatever interleaving produced its inputs.
THEOREM TypeCorrect == Spec => []TypeOK
<1>1. Init => TypeOK
  <2> SUFFICES ASSUME Init PROVE TypeOK
    OBVIOUS
  <2>1. rows \in [Docs -> Row]
    BY BlankIsRow DEF Init, RowStates
  <2>2. history \in [Docs -> Trail]
    BY DEF Init, NoTrail, Trail
  <2>3. req \in [Workers -> Request]
    BY IdleIsRequest DEF Init
  <2>4. QED
    BY <2>1, <2>2, <2>3, ConstantsOK DEF Init, TypeOK
<1>2. TypeOK /\ [Next]_vars => TypeOK'
  <2> SUFFICES ASSUME TypeOK, [Next]_vars, contended' \subseteq Docs PROVE TypeOK'
    BY DEF Next, vars, TypeOK, Met
  <2>a. ASSUME NEW w \in Workers, NEW d \in Docs, NEW step \in Steps,
               NEW old \in Row, NEW new \in Row, Begin(w, d, step, old, new)
        PROVE  TypeOK'
    BY <2>a DEF Begin, TypeOK, Request
  <2>b. ASSUME NEW w \in Workers, Vanished(w)
        PROVE  TypeOK'
    BY <2>b, IdleIsRequest DEF Vanished, Finish, TypeOK
  <2>1. ASSUME NEW w \in Workers, NEW d \in Docs, CreateDocument(w, d)
        PROVE  TypeOK'
    <3>1. PICK t \in Titles, u \in Users \cup {NoUser}, deadline \in Times \cup {NoTime} :
            LET row == [Blank("draft") EXCEPT !.title = t, !.responsible = u,
                                              !.deadline = deadline]
            IN /\ rows' = [rows EXCEPT ![d] = row]
               /\ req' = [req EXCEPT ![w] = [step |-> "logStatus", doc |-> d,
                            old |-> Blank("unused"), new |-> Blank("draft"), found |-> {}]]
      BY <2>1 DEF CreateDocument
    <3>2. /\ Blank("draft") \in Row /\ Blank("unused") \in Row
      BY BlankIsRow DEF RowStates, Statuses
    <3>3. [Blank("draft") EXCEPT !.title = t, !.responsible = u, !.deadline = deadline] \in Row
      BY <3>2 DEF Row
    <3>4. rows' \in [Docs -> Row]
      BY <3>1, <3>3 DEF TypeOK
    <3>5. req' \in [Workers -> Request]
      BY <3>1, <3>2 DEF TypeOK, Request, Steps
    <3>6. QED
      BY <2>1, <3>4, <3>5 DEF CreateDocument, TypeOK
  <2>2. ASSUME NEW w \in Workers, NEW d \in Docs, UpdateDocument(w, d)
        PROVE  TypeOK'
    <3>1. PICK t \in Titles, deadline \in Times \cup {rows[d].deadline} :
            Begin(w, d, "edit", Blank("unused"),
                  [Blank("unused") EXCEPT !.title = t, !.deadline = deadline])
      BY <2>2 DEF UpdateDocument
    <3>2. Blank("unused") \in Row
      BY BlankIsRow DEF RowStates
    <3>3. deadline \in Times \cup {NoTime}
      BY DEF TypeOK, Row
    <3>4. [Blank("unused") EXCEPT !.title = t, !.deadline = deadline] \in Row
      BY <3>2, <3>3 DEF Row
    <3>5. QED
      BY <3>1, <3>2, <3>4, <2>a DEF Steps
  <2>3. ASSUME NEW w \in Workers, NEW d \in Docs, DeleteDocument(w, d)
        PROVE  TypeOK'
    <3>1. Blank("unused") \in Row /\ Blank(rows[d].status) \in Row
      BY BlankIsRow DEF RowStates, TypeOK, Row
    <3>2. QED
      BY <2>3, <3>1, <2>a DEF DeleteDocument, Steps
  <2>4. ASSUME NEW w \in Workers, NEW d \in Docs, AssignResponsible(w, d)
        PROVE  TypeOK'
    <3>1. PICK u \in Users :
            Begin(w, d, "assign", [Blank(rows[d].status) EXCEPT !.responsible = rows[d].responsible],
                  [Blank("assigned") EXCEPT !.responsible = u])
      BY <2>4 DEF AssignResponsible
    <3>2. rows[d].status \in RowStates /\ rows[d].responsible \in Users \cup {NoUser}
      BY DEF TypeOK, Row
    <3>3. Blank(rows[d].status) \in Row /\ Blank("assigned") \in Row
      BY <3>2, BlankIsRow DEF RowStates, Statuses
    <3>4. /\ [Blank(rows[d].status) EXCEPT !.responsible = rows[d].responsible] \in Row
          /\ [Blank("assigned") EXCEPT !.responsible = u] \in Row
      BY <3>2, <3>3 DEF Row
    <3>5. QED
      BY <3>1, <3>4, <2>a DEF Steps
  <2>5. ASSUME NEW w \in Workers, NEW d \in Docs, ChangeStatus(w, d)
        PROVE  TypeOK'
    <3>1. PICK to \in Statuses : Begin(w, d, "status", Blank(rows[d].status), Blank(to))
      BY <2>5 DEF ChangeStatus
    <3>2. Blank(rows[d].status) \in Row /\ Blank(to) \in Row
      BY BlankIsRow DEF RowStates, TypeOK, Row
    <3>3. QED
      BY <3>1, <3>2, <2>a DEF Steps
  <2>6. ASSUME NEW w \in Workers, NEW d \in Docs, ArchiveDocument(w, d)
        PROVE  TypeOK'
    <3>1. Blank(rows[d].status) \in Row /\ Blank("archived") \in Row
      BY BlankIsRow DEF RowStates, Statuses, TypeOK, Row
    <3>2. QED
      BY <2>6, <3>1, <2>a DEF ArchiveDocument, Steps
  <2>7. ASSUME NEW w \in Workers, MarkOverdue(w)
        PROVE  TypeOK'
    <3>1. {<<d, rows[d].status>> : d \in {e \in Docs : Overdue(e)}} \in SUBSET (Docs \X Statuses)
      BY DEF Overdue, Sweepable
    <3>2. req' \in [Workers -> Request]
      <4>1. req[w] \in Request /\ "mark" \in Steps
        BY DEF TypeOK, Steps
      <4>2. [req[w] EXCEPT !.step = "mark",
                           !.found = {<<d, rows[d].status>> : d \in {e \in Docs : Overdue(e)}}] \in Request
        BY <3>1, <4>1, FoundTyping
      <4>3. QED
        BY <2>7, <4>2 DEF MarkOverdue, TypeOK
    <3>3. QED
      BY <2>7, <3>2 DEF MarkOverdue, TypeOK
  <2>8. ASSUME NEW w \in Workers, WriteEdit(w)
        PROVE  TypeOK'
    <3>1. CASE Vanished(w)
      BY <3>1, <2>b
    <3>2. CASE ~Vanished(w)
      <4>1. req[w].doc \in Docs /\ req[w].new \in Row
        BY DEF TypeOK, Request
      <4>2. rows' \in [Docs -> Row]
        <5>1. rows[req[w].doc] \in Row
          BY <4>1 DEF TypeOK
        <5>2. [rows[req[w].doc] EXCEPT !.title = req[w].new.title,
                                       !.deadline = req[w].new.deadline] \in Row
          BY <4>1, <5>1 DEF Row
        <5>3. rows' = [rows EXCEPT ![req[w].doc] =
                         [rows[req[w].doc] EXCEPT !.title = req[w].new.title,
                                                  !.deadline = req[w].new.deadline]]
          BY <2>8, <3>2 DEF WriteEdit
        <5>4. QED
          BY <5>2, <5>3 DEF TypeOK
      <4>3. req' \in [Workers -> Request]
        BY <2>8, <3>2, ProceedTyping DEF WriteEdit, Steps
      <4>4. QED
        BY <2>8, <3>2, <4>2, <4>3 DEF WriteEdit, TypeOK
    <3>3. QED
      BY <3>1, <3>2
  <2>9. ASSUME NEW w \in Workers, LogEdit(w)
        PROVE  TypeOK'
    BY <2>9, IdleIsRequest DEF LogEdit, Finish, TypeOK
  <2>10. ASSUME NEW w \in Workers, DeleteRow(w)
         PROVE  TypeOK'
    <3>1. CASE Vanished(w)
      BY <3>1, <2>b
    <3>2. CASE ~Vanished(w)
      <4>1. Blank("deleted") \in Row /\ NoTrail \in Trail
        BY BlankIsRow DEF RowStates, NoTrail, Trail
      <4>2. QED
        BY <2>10, <3>2, <4>1, IdleIsRequest DEF DeleteRow, Finish, TypeOK
    <3>3. QED
      BY <3>1, <3>2
  <2>11. ASSUME NEW w \in Workers, WriteResponsible(w)
         PROVE  TypeOK'
    <3>1. CASE Vanished(w)
      BY <3>1, <2>b
    <3>2. CASE ~Vanished(w)
      <4>1. req[w].doc \in Docs /\ req[w].new \in Row
        BY DEF TypeOK, Request
      <4>2. rows' \in [Docs -> Row]
        BY <2>11, <3>2, <4>1 DEF WriteResponsible, TypeOK, Row
      <4>3. req' \in [Workers -> Request]
        BY <2>11, <3>2, ProceedTyping DEF WriteResponsible, Steps
      <4>4. QED
        BY <2>11, <3>2, <4>2, <4>3 DEF WriteResponsible, TypeOK
    <3>3. QED
      BY <3>1, <3>2
  <2>12. ASSUME NEW w \in Workers, LogResponsible(w)
         PROVE  TypeOK'
    <3>1. CASE Vanished(w)
      BY <3>1, <2>b
    <3>2. CASE ~Vanished(w)
      <4>1. req[w] \in Request /\ Live(req[w].doc)
        BY <2>12, <3>2 DEF LogResponsible, TypeOK
      <4>2. history' \in [Docs -> Trail]
        <5> DEFINE d == req[w].doc
                   entry == [old |-> req[w].old.responsible, new |-> req[w].new.responsible]
        <5>1. d \in Docs /\ history[d] \in Trail
          BY <4>1 DEF Request, TypeOK
        <5>2. entry \in ResponsibleEntry
          BY <4>1 DEF Request, Row, ResponsibleEntry
        <5>3. Append(history[d].responsible, entry) \in Seq(ResponsibleEntry)
          BY <5>1, <5>2 DEF Trail
        <5>4. [history[d] EXCEPT !.responsible = Append(history[d].responsible, entry)] \in Trail
          BY <5>1, <5>3 DEF Trail
        <5>5. history' = [history EXCEPT ![d] =
                            [history[d] EXCEPT !.responsible = Append(history[d].responsible, entry)]]
          BY <2>12, <3>2, <5>1 DEF LogResponsible, TypeOK
        <5>6. QED
          BY <5>4, <5>5 DEF TypeOK
      <4>3. req' \in [Workers -> Request]
        BY <2>12, <3>2, ProceedTyping, FinishTyping DEF LogResponsible, Steps
      <4>4. QED
        BY <2>12, <3>2, <4>2, <4>3 DEF LogResponsible, TypeOK
    <3>3. QED
      BY <3>1, <3>2
  <2>13. ASSUME NEW w \in Workers, WriteStatus(w)
         PROVE  TypeOK'
    <3>1. CASE Vanished(w)
      BY <3>1, <2>b
    <3>2. CASE ~Vanished(w)
      <4>1. req[w].doc \in Docs /\ req[w].new \in Row
        BY DEF TypeOK, Request
      <4>2. rows' \in [Docs -> Row]
        <5>1. Rewritten(rows[req[w].doc], req[w].new.status) \in Row
          BY <4>1 DEF Rewritten, TypeOK, Row
        <5>2. rows' = [rows EXCEPT ![req[w].doc] = Rewritten(rows[req[w].doc], req[w].new.status)]
          BY <2>13, <3>2 DEF WriteStatus
        <5>3. QED
          BY <5>1, <5>2 DEF TypeOK
      <4>3. req' \in [Workers -> Request]
        BY <2>13, <3>2, ProceedTyping DEF WriteStatus, Steps
      <4>4. QED
        BY <2>13, <3>2, <4>2, <4>3 DEF WriteStatus, TypeOK
    <3>3. QED
      BY <3>1, <3>2
  <2>14. ASSUME NEW w \in Workers, LogStatus(w)
         PROVE  TypeOK'
    <3>1. CASE Vanished(w)
      BY <3>1, <2>b
    <3>2. CASE ~Vanished(w)
      <4> DEFINE entry == [old |-> RecordedAs(req[w].old.status), new |-> req[w].new.status]
      <4>1. req[w].doc \in Docs /\ entry \in StatusEntry
        BY DEF TypeOK, Request, Row, StatusEntry, RecordedAs
      <4>2. RecordStatus(req[w].doc, entry)
        BY <2>14, <3>2 DEF LogStatus
      <4>3. history' \in [Docs -> Trail]
        BY <4>1, <4>2, RecordTyping
      <4>4. req' \in [Workers -> Request]
        BY <2>14, <3>2, FinishTyping DEF LogStatus
      <4>5. QED
        BY <2>14, <3>2, <4>3, <4>4 DEF LogStatus, TypeOK
    <3>3. QED
      BY <3>1, <3>2
  <2>15. ASSUME NEW w \in Workers, MarkRows(w)
         PROVE  TypeOK'
    <3>1. req' \in [Workers -> Request]
      BY <2>15, ProceedTyping DEF MarkRows, Steps
    <3>2. \A d \in Docs : [rows[d] EXCEPT !.status = "overdue", !.isOverdue = TRUE] \in Row
      BY DEF TypeOK, Row, RowStates, Statuses
    <3>3. rows' \in [Docs -> Row]
      BY <2>15, <3>2 DEF MarkRows, TypeOK
    <3>4. QED
      BY <2>15, <3>1, <3>3 DEF MarkRows, TypeOK
  <2>16. ASSUME NEW w \in Workers, LogMark(w)
         PROVE  TypeOK'
    <3>1. PICK f \in req[w].found :
            /\ IF Live(f[1]) THEN RecordStatus(f[1], [old |-> f[2], new |-> "overdue"])
                             ELSE UNCHANGED history
            /\ NextMark(w, f)
      BY <2>16 DEF LogMark
    <3>2. f \in Docs \X Statuses
      BY DEF TypeOK, Request
    <3>3. f[1] \in Docs /\ [old |-> f[2], new |-> "overdue"] \in StatusEntry
      BY <3>2 DEF StatusEntry, RowStates, Statuses
    <3>4. history' \in [Docs -> Trail]
      BY <3>1, <3>3, RecordTyping DEF TypeOK
    <3>5. QED
      BY <2>16, <3>1, <3>4, NextMarkTyping DEF LogMark, TypeOK
  <2>17. ASSUME NEW w \in Workers, Fail(w)
         PROVE  TypeOK'
    BY <2>17, FinishTyping, OwedTyping DEF Fail, TypeOK
  <2>18. ASSUME NEW w \in Workers, FailMark(w)
         PROVE  TypeOK'
    <3>1. PICK f \in req[w].found : /\ NextMark(w, f)
                                    /\ unrecorded' = unrecorded \cup {<<f[1], "status">>}
      BY <2>18 DEF FailMark
    <3>2. f \in Docs \X Statuses
      BY DEF TypeOK, Request
    <3>3. unrecorded' \subseteq Docs \X {"status", "responsible"}
      BY <3>1, <3>2 DEF TypeOK
    <3>4. QED
      BY <2>18, <3>1, <3>3, NextMarkTyping DEF FailMark, TypeOK
  <2>19. CASE Crash
    BY <2>19, IdleIsRequest, OwedTyping DEF Crash, TypeOK
  <2>20. CASE Tick
    BY <2>20, ConstantsOK DEF Tick, TypeOK
  <2>21. CASE UNCHANGED vars
    BY <2>21 DEF vars, TypeOK
  <2>22. QED
    BY <2>1, <2>2, <2>3, <2>4, <2>5, <2>6, <2>7, <2>8, <2>9, <2>10, <2>11, <2>12,
       <2>13, <2>14, <2>15, <2>16, <2>17, <2>18, <2>19, <2>20, <2>21
       DEF Next, Arrive, Continue
<1>3. QED
  BY <1>1, <1>2, PTL DEF Spec

-----------------------------------------------------------------------------
\* The trail is lawful because what a handler is about to record is: it holds
\* the status it read and a status the table, or the sweep, allows from there.

PendingLawful ==
    \A w \in Workers :
        /\ req[w].step \in {"status", "logStatus"}
             => Lawful(RecordedAs(req[w].old.status), req[w].new.status)
        /\ req[w].step \in {"assign", "logAssign"} /\ req[w].old.status = "draft"
             => req[w].new.status = "assigned"
        /\ req[w].step \in {"mark", "logMarks"}
             => \A f \in req[w].found : f[2] \in Sweepable

LEMMA IdlePending ==
  ASSUME NEW w \in Workers, TypeOK, PendingLawful, Finish(w)
  PROVE  PendingLawful'
BY DEF Finish, PendingLawful, TypeOK, Idle

LEMMA ProceedPending ==
  ASSUME NEW w \in Workers, TypeOK, PendingLawful,
         NEW step \in Steps, Proceed(w, step),
         step \in {"status", "logStatus"}
           => Lawful(RecordedAs(req[w].old.status), req[w].new.status),
         step \in {"assign", "logAssign"} /\ req[w].old.status = "draft"
           => req[w].new.status = "assigned",
         step \in {"mark", "logMarks"} => \A f \in req[w].found : f[2] \in Sweepable
  PROVE  PendingLawful'
<1>1. /\ req'[w].step = step /\ req'[w].old = req[w].old
      /\ req'[w].new = req[w].new /\ req'[w].found = req[w].found
  BY DEF Proceed, TypeOK, Request
<1>2. \A v \in Workers \ {w} : req'[v] = req[v]
  BY DEF Proceed, TypeOK
<1>3. QED
  BY <1>1, <1>2 DEF PendingLawful

LEMMA RecordLawful ==
  ASSUME TypeOK, TrailLawful, NEW d \in Docs, NEW entry \in StatusEntry,
         Lawful(entry.old, entry.new), RecordStatus(d, entry)
  PROVE  TrailLawful'
<1> SUFFICES ASSUME NEW e \in Docs, NEW i \in 1 .. Len(history'[e].status)
             PROVE  Lawful(history'[e].status[i].old, history'[e].status[i].new)
  BY DEF TrailLawful
<1>1. history[e].status \in Seq(StatusEntry)
  BY TrailTyping
<1>2. CASE e = d
  <2>1. history'[d].status = Append(history[d].status, entry)
    BY DEF RecordStatus, TypeOK, Trail
  <2>2. QED
    BY <1>1, <1>2, <2>1 DEF TrailLawful
<1>3. CASE e # d
  BY <1>3 DEF RecordStatus, TypeOK, TrailLawful
<1>4. QED
  BY <1>2, <1>3

\* A request that begins owes what it was begun with.
LEMMA BeginPending ==
  ASSUME NEW w \in Workers, NEW d \in Docs, NEW step \in Steps, NEW old, NEW new,
         TypeOK, PendingLawful, Begin(w, d, step, old, new),
         step \notin {"logStatus", "logAssign", "mark", "logMarks"},
         step = "status" => Lawful(RecordedAs(old.status), new.status),
         step = "assign" /\ old.status = "draft" => new.status = "assigned"
  PROVE  PendingLawful'
<1>1. req'[w] = [step |-> step, doc |-> d, old |-> old, new |-> new, found |-> {}]
  BY DEF Begin, TypeOK
<1>2. \A v \in Workers \ {w} : req'[v] = req[v]
  BY DEF Begin, TypeOK
<1>3. QED
  BY <1>1, <1>2 DEF PendingLawful

\* Trails that stay as they are stay lawful.
LEMMA SameTrails ==
  ASSUME TrailLawful, UNCHANGED history
  PROVE  TrailLawful'
BY DEF TrailLawful

\* The sweep's loop leaves only documents it selected.
LEMMA NextMarkPending ==
  ASSUME NEW w \in Workers, NEW f, TypeOK, PendingLawful,
         req[w].step = "logMarks", NextMark(w, f)
  PROVE  PendingLawful'
<1>1. CASE req[w].found = {f}
  BY <1>1, IdlePending DEF NextMark
<1>2. CASE req[w].found # {f}
  <2>1. /\ req'[w].step = "logMarks"
        /\ req'[w].found = req[w].found \ {f}
    BY <1>2 DEF NextMark, TypeOK, Request
  <2>2. \A v \in Workers \ {w} : req'[v] = req[v]
    BY <1>2 DEF NextMark, TypeOK
  <2>3. QED
    BY <2>1, <2>2 DEF PendingLawful
<1>3. QED
  BY <1>1, <1>2

\* No interleaving, failing statement or restart puts an entry in a trail that
\* the status table and the sweep would not have allowed: each handler checks
\* and records the same row copy, however stale that copy has become.
THEOREM TrailIsLawful == Spec => []TrailLawful
<1>1. Init => PendingLawful /\ TrailLawful
  BY DEF Init, Idle, NoTrail, PendingLawful, TrailLawful
<1>2. TypeOK /\ TypeOK' /\ PendingLawful /\ TrailLawful /\ [Next]_vars
        => PendingLawful' /\ TrailLawful'
  <2> SUFFICES ASSUME TypeOK, TypeOK', PendingLawful, TrailLawful, [Next]_vars
               PROVE  PendingLawful' /\ TrailLawful'
    OBVIOUS
  <2>a. ASSUME NEW w \in Workers, Vanished(w)
        PROVE  PendingLawful' /\ TrailLawful'
    BY <2>a, IdlePending, SameTrails DEF Vanished
  <2>1. ASSUME NEW w \in Workers, NEW d \in Docs, CreateDocument(w, d)
        PROVE  PendingLawful' /\ TrailLawful'
    <3>1. req' = [req EXCEPT ![w] = [step |-> "logStatus", doc |-> d, old |-> Blank("unused"),
                                     new |-> Blank("draft"), found |-> {}]]
      BY <2>1 DEF CreateDocument
    <3>2. Lawful(RecordedAs(Blank("unused").status), Blank("draft").status)
      BY DEF Lawful, RecordedAs, Blank
    <3>3. PendingLawful'
      BY <3>1, <3>2 DEF PendingLawful, TypeOK
    <3>4. QED
      BY <2>1, <3>3, SameTrails DEF CreateDocument
  <2>2. ASSUME NEW w \in Workers, NEW d \in Docs, UpdateDocument(w, d)
        PROVE  PendingLawful' /\ TrailLawful'
    <3>1. PICK t \in Titles, deadline \in Times \cup {rows[d].deadline} :
            Begin(w, d, "edit", Blank("unused"),
                  [Blank("unused") EXCEPT !.title = t, !.deadline = deadline])
      BY <2>2 DEF UpdateDocument
    <3>2. PendingLawful'
      BY <3>1, BeginPending DEF Steps
    <3>3. QED
      BY <3>1, <3>2, SameTrails DEF Begin
  <2>3. ASSUME NEW w \in Workers, NEW d \in Docs, DeleteDocument(w, d)
        PROVE  PendingLawful' /\ TrailLawful'
    <3>1. Begin(w, d, "delete", Blank(rows[d].status), Blank("unused"))
      BY <2>3 DEF DeleteDocument
    <3>2. PendingLawful'
      BY <3>1, BeginPending DEF Steps
    <3>3. QED
      BY <3>1, <3>2, SameTrails DEF Begin
  <2>4. ASSUME NEW w \in Workers, NEW d \in Docs, AssignResponsible(w, d)
        PROVE  PendingLawful' /\ TrailLawful'
    <3>1. PICK u \in Users :
            Begin(w, d, "assign", [Blank(rows[d].status) EXCEPT !.responsible = rows[d].responsible],
                  [Blank("assigned") EXCEPT !.responsible = u])
      BY <2>4 DEF AssignResponsible
    <3>2. [Blank("assigned") EXCEPT !.responsible = u].status = "assigned"
      BY DEF Blank
    <3>3. PendingLawful'
      BY <3>1, <3>2, BeginPending DEF Steps
    <3>4. QED
      BY <3>1, <3>3, SameTrails DEF Begin
  <2>5. ASSUME NEW w \in Workers, NEW d \in Docs, ChangeStatus(w, d)
        PROVE  PendingLawful' /\ TrailLawful'
    <3>1. PICK to \in Statuses : /\ CanTransition(rows[d].status, to)
                                 /\ Begin(w, d, "status", Blank(rows[d].status), Blank(to))
      BY <2>5 DEF ChangeStatus
    <3>2. Lawful(RecordedAs(Blank(rows[d].status).status), Blank(to).status)
      BY <2>5, <3>1 DEF ChangeStatus, Live, Statuses, Lawful, RecordedAs, Blank
    <3>3. PendingLawful'
      BY <3>1, <3>2, BeginPending DEF Steps
    <3>4. QED
      BY <3>1, <3>3, SameTrails DEF Begin
  <2>6. ASSUME NEW w \in Workers, NEW d \in Docs, ArchiveDocument(w, d)
        PROVE  PendingLawful' /\ TrailLawful'
    <3>1. /\ CanTransition(rows[d].status, "archived")
          /\ Begin(w, d, "status", Blank(rows[d].status), Blank("archived"))
      BY <2>6 DEF ArchiveDocument
    <3>2. Lawful(RecordedAs(Blank(rows[d].status).status), Blank("archived").status)
      BY <2>6, <3>1 DEF ArchiveDocument, Live, Statuses, Lawful, RecordedAs, Blank
    <3>3. PendingLawful'
      BY <3>1, <3>2, BeginPending DEF Steps
    <3>4. QED
      BY <3>1, <3>3, SameTrails DEF Begin
  <2>7. ASSUME NEW w \in Workers, MarkOverdue(w)
        PROVE  PendingLawful' /\ TrailLawful'
    <3>1. /\ req'[w].step = "mark"
          /\ req'[w].found = {<<d, rows[d].status>> : d \in {e \in Docs : Overdue(e)}}
      BY <2>7 DEF MarkOverdue, TypeOK, Request
    <3>2. \A f \in req'[w].found : f[2] \in Sweepable
      BY <3>1 DEF Overdue
    <3>3. \A v \in Workers \ {w} : req'[v] = req[v]
      BY <2>7 DEF MarkOverdue, TypeOK
    <3>4. PendingLawful'
      BY <3>1, <3>2, <3>3 DEF PendingLawful
    <3>5. QED
      BY <2>7, <3>4, SameTrails DEF MarkOverdue
  <2>8. ASSUME NEW w \in Workers, WriteEdit(w) \/ WriteResponsible(w) \/ WriteStatus(w) \/ MarkRows(w)
        PROVE  PendingLawful' /\ TrailLawful'
    <3>1. CASE Vanished(w)
      BY <3>1, <2>a
    <3>2. CASE ~Vanished(w)
      <4>1. UNCHANGED history
        BY <2>8, <3>2 DEF WriteEdit, WriteResponsible, WriteStatus, MarkRows
      <4>2. CASE WriteEdit(w)
        <5>1. Proceed(w, "logEdit")
          BY <4>2, <3>2 DEF WriteEdit
        <5>2. PendingLawful'
          BY <5>1, ProceedPending DEF Steps
        <5>3. QED
          BY <4>1, <5>2, SameTrails
      <4>3. CASE WriteResponsible(w)
        <5>1. Proceed(w, "logAssign") /\ req[w].step = "assign"
          BY <4>3, <3>2 DEF WriteResponsible
        <5>2. PendingLawful'
          BY <5>1, ProceedPending DEF PendingLawful, Steps
        <5>3. QED
          BY <4>1, <5>2, SameTrails
      <4>4. CASE WriteStatus(w)
        <5>1. Proceed(w, "logStatus") /\ req[w].step = "status"
          BY <4>4, <3>2 DEF WriteStatus
        <5>2. PendingLawful'
          BY <5>1, ProceedPending DEF PendingLawful, Steps
        <5>3. QED
          BY <4>1, <5>2, SameTrails
      <4>5. CASE MarkRows(w)
        <5>1. Proceed(w, "logMarks") /\ req[w].step = "mark"
          BY <4>5 DEF MarkRows
        <5>2. PendingLawful'
          BY <5>1, ProceedPending DEF PendingLawful, Steps
        <5>3. QED
          BY <4>1, <5>2, SameTrails
      <4>6. QED
        BY <2>8, <4>1, <4>2, <4>3, <4>4, <4>5, SameTrails
    <3>3. QED
      BY <3>1, <3>2
  <2>9. ASSUME NEW w \in Workers, LogEdit(w) \/ Fail(w)
        PROVE  PendingLawful' /\ TrailLawful'
    BY <2>9, IdlePending, SameTrails DEF LogEdit, Fail
  <2>10. ASSUME NEW w \in Workers, DeleteRow(w)
         PROVE  PendingLawful' /\ TrailLawful'
    <3>1. CASE Vanished(w)
      BY <3>1, <2>a
    <3>2. CASE ~Vanished(w)
      <4>1. history' = [history EXCEPT ![req[w].doc] = NoTrail] /\ Finish(w)
        BY <2>10, <3>2 DEF DeleteRow
      <4>2. TrailLawful'
        BY <4>1 DEF TrailLawful, NoTrail, TypeOK
      <4>3. QED
        BY <4>1, <4>2, IdlePending
    <3>3. QED
      BY <3>1, <3>2
  <2>11. ASSUME NEW w \in Workers, LogResponsible(w)
         PROVE  PendingLawful' /\ TrailLawful'
    <3>1. CASE Vanished(w)
      BY <3>1, <2>a
    <3>2. CASE ~Vanished(w)
      <4>1. /\ req[w].step = "logAssign"
            /\ IF req[w].old.status = "draft" THEN Proceed(w, "status") ELSE Finish(w)
        BY <2>11, <3>2 DEF LogResponsible
      <4>2. req[w].old.status = "draft" => Lawful(RecordedAs(req[w].old.status), req[w].new.status)
        BY <4>1 DEF PendingLawful, Lawful, RecordedAs, CanTransition, AllowedTransitions
      <4>3. PendingLawful'
        BY <4>1, <4>2, ProceedPending, IdlePending DEF Steps
      <4>4. \A d \in Docs : history'[d].status = history[d].status
        <5>1. PICK t : history' = [history EXCEPT ![req[w].doc].responsible = t]
          BY <2>11, <3>2 DEF LogResponsible
        <5>2. QED
          BY <5>1 DEF TypeOK, Trail
      <4>5. TrailLawful'
        BY <4>4 DEF TrailLawful
      <4>6. QED
        BY <4>3, <4>5
    <3>3. QED
      BY <3>1, <3>2
  <2>12. ASSUME NEW w \in Workers, LogStatus(w)
         PROVE  PendingLawful' /\ TrailLawful'
    <3>1. CASE Vanished(w)
      BY <3>1, <2>a
    <3>2. CASE ~Vanished(w)
      <4> DEFINE entry == [old |-> RecordedAs(req[w].old.status), new |-> req[w].new.status]
      <4>1. req[w].doc \in Docs /\ entry \in StatusEntry
        BY DEF TypeOK, Request, Row, StatusEntry, RecordedAs
      <4>2. RecordStatus(req[w].doc, entry) /\ Finish(w)
        BY <2>12, <3>2 DEF LogStatus
      <4>3. Lawful(entry.old, entry.new)
        BY <2>12 DEF LogStatus, PendingLawful
      <4>4. TrailLawful'
        <5> HIDE DEF entry
        <5>1. QED
          BY <4>1, <4>2, <4>3, RecordLawful
      <4>5. QED
        BY <4>2, <4>4, IdlePending
    <3>3. QED
      BY <3>1, <3>2
  <2>13. ASSUME NEW w \in Workers, LogMark(w)
         PROVE  PendingLawful' /\ TrailLawful'
    <3>1. PICK f \in req[w].found :
            /\ IF Live(f[1]) THEN RecordStatus(f[1], [old |-> f[2], new |-> "overdue"])
                             ELSE UNCHANGED history
            /\ NextMark(w, f)
      BY <2>13 DEF LogMark
    <3>2. f \in Docs \X Statuses /\ f[2] \in Sweepable
      BY <2>13 DEF LogMark, PendingLawful, TypeOK, Request
    <3>3. /\ f[1] \in Docs /\ [old |-> f[2], new |-> "overdue"] \in StatusEntry
          /\ Lawful(f[2], "overdue")
      BY <3>2 DEF StatusEntry, RowStates, Statuses, Lawful
    <3>4. TrailLawful'
      BY <3>1, <3>3, RecordLawful, SameTrails
    <3>5. QED
      BY <2>13, <3>1, <3>4, NextMarkPending DEF LogMark
  <2>14. ASSUME NEW w \in Workers, FailMark(w)
         PROVE  PendingLawful' /\ TrailLawful'
    <3>1. PICK f \in req[w].found : NextMark(w, f)
      BY <2>14 DEF FailMark
    <3>2. QED
      BY <2>14, <3>1, NextMarkPending, SameTrails DEF FailMark
  <2>15. CASE Crash
    BY <2>15, SameTrails DEF Crash, PendingLawful, Idle
  <2>16. CASE Tick \/ UNCHANGED vars
    BY <2>16, SameTrails DEF Tick, vars, PendingLawful
  <2>17. QED
    BY <2>1, <2>2, <2>3, <2>4, <2>5, <2>6, <2>7, <2>8, <2>9, <2>10, <2>11, <2>12,
       <2>13, <2>14, <2>15, <2>16 DEF Next, Arrive, Continue
<1>3. QED
  BY <1>1, <1>2, TypeCorrect, PTL DEF Spec

-----------------------------------------------------------------------------
\* A row's status stays accounted for: StatusAccountedFor is inductive with the
\* typing, since each write leaves its writer answering for what it wrote.

Accounted(d) == \/ Recorded(d)
                \/ \E w \in Workers : AnswersFor(w, d)
                \/ <<d, "status">> \in unrecorded

\* A step of one worker that leaves the row's status and trail alone, and the
\* worker answering if it did, leaves the document accounted for.
LEMMA StillAccounted ==
  ASSUME NEW d \in Docs, NEW w \in Workers, Accounted(d),
         rows'[d].status = rows[d].status,
         history'[d].status = history[d].status,
         <<d, "status">> \in unrecorded => <<d, "status">> \in unrecorded',
         \A v \in Workers \ {w} : req'[v] = req[v],
         AnswersFor(w, d) => AnswersFor(w, d)'
  PROVE  Accounted(d)'
<1>1. Recorded(d) => Recorded(d)'
  BY DEF Recorded
<1>2. \A v \in Workers : AnswersFor(v, d) => AnswersFor(v, d)'
  BY DEF AnswersFor
<1>3. QED
  BY <1>1, <1>2 DEF Accounted

\* Inserting a status entry for one document: what was recorded stays so, and
\* the new value of the entry is recorded.
LEMMA RecordKeeps ==
  ASSUME TypeOK, NEW d \in Docs, NEW e \in Docs, NEW entry \in StatusEntry,
         RecordStatus(d, entry), rows' = rows
  PROVE  /\ Recorded(e) => Recorded(e)'
         /\ e = d /\ entry.new = rows[d].status => Recorded(e)'
<1>1. history[e].status \in Seq(StatusEntry)
  BY TrailTyping
<1>2. CASE e = d
  <2>1. history'[d].status = Append(history[d].status, entry)
    BY DEF RecordStatus, TypeOK, Trail
  <2>2. /\ Len(history'[d].status) = Len(history[d].status) + 1
        /\ \A i \in 1 .. Len(history[d].status) : history'[d].status[i] = history[d].status[i]
        /\ history'[d].status[Len(history'[d].status)] = entry
    BY <1>1, <1>2, <2>1
  <2>3. Len(history[d].status) \in Nat
    BY <1>1, <1>2
  <2>4. Recorded(e) => Recorded(e)'
    <3>1. SUFFICES ASSUME NEW i \in 1 .. Len(history[d].status),
                          history[d].status[i].new = rows[d].status
                   PROVE  Recorded(d)'
      BY <1>2 DEF Recorded
    <3>2. i \in 1 .. Len(history'[d].status) /\ history'[d].status[i] = history[d].status[i]
      BY <2>2, <2>3
    <3>3. QED
      BY <3>1, <3>2 DEF Recorded
  <2>5. e = d /\ entry.new = rows[d].status => Recorded(e)'
    <3>1. Len(history'[d].status) \in 1 .. Len(history'[d].status)
      BY <2>2, <2>3
    <3>2. QED
      BY <2>2, <3>1 DEF Recorded
  <2>6. QED
    BY <2>4, <2>5
<1>3. CASE e # d
  <2>1. history'[e] = history[e]
    BY <1>3 DEF RecordStatus, TypeOK
  <2>2. QED
    BY <1>3, <2>1 DEF Recorded
<1>4. QED
  BY <1>2, <1>3

\* The loop's step drops one document from the worker's set and no other.
LEMMA NextMarkAnswers ==
  ASSUME TypeOK, NEW w \in Workers, NEW f, NEW d \in Docs, req[w].step = "logMarks",
         NextMark(w, f), f[1] # d, AnswersFor(w, d), rows' = rows
  PROVE  AnswersFor(w, d)'
<1>1. PICK g \in req[w].found : g[1] = d /\ g # f
  BY DEF AnswersFor
<1>2. req'[w].step = "logMarks" /\ req'[w].found = req[w].found \ {f}
  BY <1>1 DEF NextMark, TypeOK, Request
<1>3. QED
  BY <1>1, <1>2 DEF AnswersFor

\* Whatever the interleaving, the failing statement or the restart, the status a
\* row shows has an entry, a handler about to insert it, or a lost insert to blame.
THEOREM StatusIsAccountedFor == Spec => []StatusAccountedFor
<1>1. Init => StatusAccountedFor
  BY DEF Init, StatusAccountedFor, Live, Blank, Statuses
<1>2. TypeOK /\ TypeOK' /\ StatusAccountedFor /\ [Next]_vars => StatusAccountedFor'
  <2> SUFFICES ASSUME TypeOK, TypeOK', StatusAccountedFor, [Next]_vars,
                      NEW d \in Docs, Live(d)'
               PROVE  Accounted(d)'
    BY DEF StatusAccountedFor, Accounted
  <2>a. Live(d) => Accounted(d)
    BY DEF StatusAccountedFor, Accounted
  <2>b. ASSUME NEW w \in Workers, Finish(w)
        PROVE  \A v \in Workers \ {w} : req'[v] = req[v]
    BY <2>b DEF Finish, TypeOK
  <2>c. ASSUME NEW w \in Workers, NEW step \in Steps, Proceed(w, step)
        PROVE  \A v \in Workers \ {w} : req'[v] = req[v]
    BY <2>c DEF Proceed, TypeOK
  <2>d. ASSUME NEW w \in Workers, Vanished(w), req[w].step # "logMarks"
        PROVE  Accounted(d)'
    <3>1. Live(d) /\ req[w].doc # d
      BY <2>d DEF Vanished, Live
    <3>2. ~AnswersFor(w, d)
      BY <2>d, <3>1 DEF AnswersFor
    <3>3. QED
      BY <2>a, <2>b, <2>d, <3>1, <3>2, StillAccounted DEF Vanished
  <2>e. ASSUME NEW w \in Workers, NEW e \in Docs, NEW step, NEW old, NEW new,
               Begin(w, e, step, old, new), ~Busy(w)
        PROVE  Accounted(d)'
    <3>1. Live(d) /\ rows' = rows /\ history' = history /\ unrecorded' = unrecorded
      BY <2>e DEF Begin, Live
    <3>2. ~AnswersFor(w, d)
      BY <2>e DEF AnswersFor, Busy
    <3>3. \A v \in Workers \ {w} : req'[v] = req[v]
      BY <2>e DEF Begin, TypeOK
    <3>4. QED
      BY <2>a, <3>1, <3>2, <3>3, StillAccounted
  <2>1. ASSUME NEW w \in Workers, NEW e \in Docs, CreateDocument(w, e)
        PROVE  Accounted(d)'
    <3>1. PICK t \in Titles, u \in Users \cup {NoUser}, deadline \in Times \cup {NoTime} :
            /\ rows' = [rows EXCEPT ![e] = [Blank("draft") EXCEPT !.title = t, !.responsible = u,
                                                                  !.deadline = deadline]]
            /\ req' = [req EXCEPT ![w] = [step |-> "logStatus", doc |-> e, old |-> Blank("unused"),
                                          new |-> Blank("draft"), found |-> {}]]
      BY <2>1 DEF CreateDocument
    <3>2. CASE d = e
      <4>1. rows'[d].status = "draft"
        BY <3>1, <3>2 DEF TypeOK, Blank
      <4>2. req'[w].step = "logStatus" /\ req'[w].doc = d /\ req'[w].new.status = "draft"
        BY <3>1, <3>2 DEF TypeOK, Blank
      <4>3. QED
        BY <4>1, <4>2 DEF Accounted, AnswersFor
    <3>3. CASE d # e
      <4>1. rows'[d] = rows[d] /\ \A v \in Workers \ {w} : req'[v] = req[v]
        BY <3>1, <3>3 DEF TypeOK
      <4>2. Live(d) /\ ~AnswersFor(w, d) /\ history' = history /\ unrecorded' = unrecorded
        BY <2>1, <4>1 DEF CreateDocument, Admit, Busy, Live, AnswersFor
      <4>3. QED
        BY <2>a, <4>1, <4>2, StillAccounted
    <3>4. QED
      BY <3>2, <3>3
  <2>2. ASSUME NEW w \in Workers, NEW e \in Docs,
               \/ UpdateDocument(w, e) \/ DeleteDocument(w, e) \/ AssignResponsible(w, e)
               \/ ChangeStatus(w, e) \/ ArchiveDocument(w, e)
        PROVE  Accounted(d)'
    <3>1. ~Busy(w) /\ \E step, old, new : Begin(w, e, step, old, new)
      BY <2>2 DEF UpdateDocument, DeleteDocument, AssignResponsible, ChangeStatus,
                  ArchiveDocument, Admit
    <3>2. QED
      BY <3>1, <2>e
  <2>3. ASSUME NEW w \in Workers, MarkOverdue(w)
        PROVE  Accounted(d)'
    <3>1. Live(d) /\ ~AnswersFor(w, d) /\ rows' = rows /\ history' = history
          /\ unrecorded' = unrecorded
      BY <2>3 DEF MarkOverdue, Busy, AnswersFor, Live
    <3>2. \A v \in Workers \ {w} : req'[v] = req[v]
      BY <2>3 DEF MarkOverdue, TypeOK
    <3>3. QED
      BY <2>a, <3>1, <3>2, StillAccounted
  <2>4. ASSUME NEW w \in Workers, WriteEdit(w) \/ WriteResponsible(w)
        PROVE  Accounted(d)'
    <3>1. CASE Vanished(w)
      BY <2>4, <2>d, <3>1 DEF WriteEdit, WriteResponsible
    <3>2. CASE ~Vanished(w)
      <4>1. rows'[d].status = rows[d].status
        <5>1. CASE WriteEdit(w)
          <6>1. PICK t, dl : rows' = [rows EXCEPT ![req[w].doc] =
                                        [rows[req[w].doc] EXCEPT !.title = t, !.deadline = dl]]
            BY <5>1, <3>2 DEF WriteEdit
          <6>2. rows[d] \in Row
            BY DEF TypeOK
          <6>3. QED
            BY <6>1, <6>2 DEF TypeOK, Row
        <5>2. CASE WriteResponsible(w)
          <6>1. PICK u : rows' = [rows EXCEPT ![req[w].doc] =
                                    [rows[req[w].doc] EXCEPT !.responsible = u]]
            BY <5>2, <3>2 DEF WriteResponsible
          <6>2. QED
            BY <6>1 DEF TypeOK, Row
        <5>3. QED
          BY <2>4, <5>1, <5>2
      <4>2. Live(d) /\ ~AnswersFor(w, d) /\ history' = history /\ unrecorded' = unrecorded
        BY <2>4, <3>2, <4>1 DEF WriteEdit, WriteResponsible, Live, AnswersFor
      <4>3. \A v \in Workers \ {w} : req'[v] = req[v]
        BY <2>4, <3>2 DEF WriteEdit, WriteResponsible, Proceed, TypeOK
      <4>4. QED
        BY <2>a, <4>1, <4>2, <4>3, StillAccounted
    <3>3. QED
      BY <3>1, <3>2
  <2>5. ASSUME NEW w \in Workers, LogEdit(w)
        PROVE  Accounted(d)'
    <3>1. Live(d) /\ ~AnswersFor(w, d) /\ rows' = rows /\ history' = history
          /\ unrecorded' = unrecorded
      BY <2>5 DEF LogEdit, AnswersFor, Live
    <3>2. QED
      BY <2>a, <2>b, <2>5, <3>1, StillAccounted DEF LogEdit
  <2>6. ASSUME NEW w \in Workers, DeleteRow(w)
        PROVE  Accounted(d)'
    <3>1. CASE Vanished(w)
      BY <2>6, <2>d, <3>1 DEF DeleteRow
    <3>2. CASE ~Vanished(w)
      <4>1. req[w].step = "delete" /\ Finish(w)
            /\ rows' = [rows EXCEPT ![req[w].doc] = Blank("deleted")]
            /\ history' = [history EXCEPT ![req[w].doc] = NoTrail]
            /\ unrecorded' = {u \in unrecorded : u[1] # req[w].doc}
        BY <2>6, <3>2 DEF DeleteRow
      <4>2. req[w].doc # d
        BY <4>1 DEF Live, Blank, Statuses, TypeOK
      <4>3. rows'[d] = rows[d] /\ history'[d] = history[d]
        BY <4>1, <4>2 DEF TypeOK
      <4>4. Live(d) /\ ~AnswersFor(w, d)
        BY <4>1, <4>3 DEF Live, AnswersFor
      <4>5. <<d, "status">> \in unrecorded => <<d, "status">> \in unrecorded'
        BY <4>1, <4>2
      <4>6. QED
        BY <2>a, <2>b, <4>1, <4>3, <4>4, <4>5, StillAccounted
    <3>3. QED
      BY <3>1, <3>2
  <2>7. ASSUME NEW w \in Workers, LogResponsible(w)
        PROVE  Accounted(d)'
    <3>1. CASE Vanished(w)
      BY <2>7, <2>d, <3>1 DEF LogResponsible
    <3>2. CASE ~Vanished(w)
      <4>1. PICK t : history' = [history EXCEPT ![req[w].doc].responsible = t]
        BY <2>7, <3>2 DEF LogResponsible
      <4>2. history'[d].status = history[d].status
        BY <4>1 DEF TypeOK, Trail
      <4>3. Live(d) /\ ~AnswersFor(w, d) /\ rows' = rows /\ unrecorded' = unrecorded
        BY <2>7, <3>2 DEF LogResponsible, Live, AnswersFor
      <4>4. \A v \in Workers \ {w} : req'[v] = req[v]
        BY <2>7, <3>2 DEF LogResponsible, Proceed, Finish, TypeOK
      <4>5. QED
        BY <2>a, <4>2, <4>3, <4>4, StillAccounted
    <3>3. QED
      BY <3>1, <3>2
  <2>8. ASSUME NEW w \in Workers, WriteStatus(w)
        PROVE  Accounted(d)'
    <3>1. CASE Vanished(w)
      BY <2>8, <2>d, <3>1 DEF WriteStatus
    <3>2. CASE ~Vanished(w)
      <4>1. /\ req[w].step = "status" /\ Proceed(w, "logStatus")
            /\ rows' = [rows EXCEPT ![req[w].doc] = Rewritten(rows[req[w].doc], req[w].new.status)]
            /\ history' = history /\ unrecorded' = unrecorded
        BY <2>8, <3>2 DEF WriteStatus
      <4>2. CASE req[w].doc = d
        <5>1. rows[d] \in Row
          BY DEF TypeOK
        <5>2. rows'[d].status = req[w].new.status
          BY <4>1, <4>2, <5>1 DEF Rewritten, TypeOK, Row
        <5>3. req'[w].step = "logStatus" /\ req'[w].doc = d /\ req'[w].new = req[w].new
          BY <4>1, <4>2 DEF Proceed, TypeOK, Request
        <5>4. QED
          BY <5>2, <5>3 DEF Accounted, AnswersFor
      <4>3. CASE req[w].doc # d
        <5>1. rows'[d] = rows[d]
          BY <4>1, <4>3 DEF TypeOK
        <5>2. Live(d) /\ ~AnswersFor(w, d)
          BY <4>1, <5>1 DEF Live, AnswersFor
        <5>3. \A v \in Workers \ {w} : req'[v] = req[v]
          BY <4>1 DEF Proceed, TypeOK
        <5>4. QED
          BY <2>a, <4>1, <5>1, <5>2, <5>3, StillAccounted
      <4>4. QED
        BY <4>2, <4>3
    <3>3. QED
      BY <3>1, <3>2
  <2>9. ASSUME NEW w \in Workers, LogStatus(w)
        PROVE  Accounted(d)'
    <3>1. CASE Vanished(w)
      BY <2>9, <2>d, <3>1 DEF LogStatus
    <3>2. CASE ~Vanished(w)
      <4> DEFINE entry == [old |-> RecordedAs(req[w].old.status), new |-> req[w].new.status]
      <4>1. /\ req[w].step = "logStatus" /\ req[w].doc \in Docs /\ entry \in StatusEntry
            /\ RecordStatus(req[w].doc, entry) /\ Finish(w)
            /\ rows' = rows /\ unrecorded' = unrecorded /\ entry.new = req[w].new.status
        BY <2>9, <3>2 DEF LogStatus, TypeOK, Request, Row, StatusEntry, RecordedAs
      <4> HIDE DEF entry
      <4>2. Live(d) /\ Accounted(d)
        BY <4>1, <2>a DEF Live
      <4>3. CASE Recorded(d)
        BY <4>1, <4>3, RecordKeeps DEF Accounted
      <4>4. CASE AnswersFor(w, d)
        <5>1. req[w].doc = d /\ entry.new = rows[d].status
          BY <4>1, <4>4 DEF AnswersFor
        <5>2. QED
          BY <4>1, <5>1, RecordKeeps DEF Accounted
      <4>5. ASSUME NEW v \in Workers \ {w}, AnswersFor(v, d)
            PROVE  Accounted(d)'
        <5>1. req'[v] = req[v]
          BY <4>1, <2>b
        <5>2. QED
          BY <4>1, <4>5, <5>1 DEF Accounted, AnswersFor
      <4>6. CASE <<d, "status">> \in unrecorded
        BY <4>1, <4>6 DEF Accounted
      <4>7. QED
        BY <4>2, <4>3, <4>4, <4>5, <4>6 DEF Accounted
    <3>3. QED
      BY <3>1, <3>2
  <2>10. ASSUME NEW w \in Workers, MarkRows(w)
         PROVE  Accounted(d)'
    <3>1. /\ req[w].step = "mark" /\ Proceed(w, "logMarks")
          /\ history' = history /\ unrecorded' = unrecorded
          /\ rows'[d] = IF Live(d) /\ \E f \in req[w].found : f[1] = d
                        THEN [rows[d] EXCEPT !.status = "overdue", !.isOverdue = TRUE]
                        ELSE rows[d]
      BY <2>10 DEF MarkRows
    <3>2. CASE Live(d) /\ \E f \in req[w].found : f[1] = d
      <4>1. rows'[d].status = "overdue"
        BY <3>1, <3>2 DEF TypeOK, Row
      <4>2. req'[w].step = "logMarks" /\ req'[w].found = req[w].found
        BY <3>1 DEF Proceed, TypeOK, Request
      <4>3. QED
        BY <3>2, <4>1, <4>2 DEF Accounted, AnswersFor
    <3>3. CASE ~(Live(d) /\ \E f \in req[w].found : f[1] = d)
      <4>1. rows'[d] = rows[d] /\ \A v \in Workers \ {w} : req'[v] = req[v]
        BY <3>1, <3>3 DEF Proceed, TypeOK
      <4>2. Live(d) /\ ~AnswersFor(w, d)
        BY <3>1, <4>1 DEF Live, AnswersFor
      <4>3. QED
        BY <2>a, <3>1, <4>1, <4>2, StillAccounted
    <3>4. QED
      BY <3>2, <3>3
  <2>11. ASSUME NEW w \in Workers, LogMark(w)
         PROVE  Accounted(d)'
    <3>1. PICK f \in req[w].found :
            /\ IF Live(f[1]) THEN RecordStatus(f[1], [old |-> f[2], new |-> "overdue"])
                             ELSE UNCHANGED history
            /\ NextMark(w, f)
      BY <2>11 DEF LogMark
    <3>2. /\ f \in Docs \X Statuses /\ rows' = rows /\ unrecorded' = unrecorded
          /\ req[w].step = "logMarks"
      BY <2>11 DEF LogMark, TypeOK, Request
    <3>3. \A v \in Workers \ {w} : req'[v] = req[v]
      BY <3>1 DEF NextMark, Finish, TypeOK
    <3>4. Live(d) /\ Accounted(d)
      BY <3>2, <2>a DEF Live
    <3>5. f[1] \in Docs /\ [old |-> f[2], new |-> "overdue"] \in StatusEntry
      BY <3>2 DEF StatusEntry, RowStates, Statuses
    <3>6. CASE Recorded(d)
      <4>1. Recorded(d)'
        BY <3>1, <3>2, <3>5, <3>6, RecordKeeps DEF Recorded
      <4>2. QED
        BY <4>1 DEF Accounted
    <3>7. CASE AnswersFor(w, d) /\ f[1] = d
      <4>1. rows[d].status = "overdue" /\ RecordStatus(d, [old |-> f[2], new |-> "overdue"])
        BY <3>1, <3>2, <3>4, <3>7 DEF AnswersFor
      <4>2. Recorded(d)'
        BY <3>2, <3>5, <3>7, <4>1, RecordKeeps
      <4>3. QED
        BY <4>2 DEF Accounted
    <3>8. CASE AnswersFor(w, d) /\ f[1] # d
      BY <3>1, <3>2, <3>8, NextMarkAnswers DEF Accounted
    <3>9. ASSUME NEW v \in Workers \ {w}, AnswersFor(v, d)
          PROVE  Accounted(d)'
      BY <3>2, <3>3, <3>9 DEF Accounted, AnswersFor
    <3>10. CASE <<d, "status">> \in unrecorded
      BY <3>2, <3>10 DEF Accounted
    <3>11. QED
      BY <3>4, <3>6, <3>7, <3>8, <3>9, <3>10 DEF Accounted
  <2>12. ASSUME NEW w \in Workers, Fail(w)
         PROVE  Accounted(d)'
    <3>1. /\ req[w].step # "logMarks" /\ Finish(w) /\ rows' = rows /\ history' = history
          /\ unrecorded' = unrecorded \cup Owed(w)
      BY <2>12 DEF Fail
    <3>2. Live(d) /\ Accounted(d)
      BY <3>1, <2>a DEF Live
    <3>3. CASE AnswersFor(w, d)
      BY <3>1, <3>3 DEF AnswersFor, Owed, Accounted
    <3>4. CASE ~AnswersFor(w, d)
      BY <2>b, <3>1, <3>2, <3>4, StillAccounted
    <3>5. QED
      BY <3>3, <3>4
  <2>13. ASSUME NEW w \in Workers, FailMark(w)
         PROVE  Accounted(d)'
    <3>1. PICK f \in req[w].found : /\ NextMark(w, f)
                                    /\ unrecorded' = unrecorded \cup {<<f[1], "status">>}
      BY <2>13 DEF FailMark
    <3>2. /\ req[w].step = "logMarks" /\ rows' = rows /\ history' = history
          /\ Live(d) /\ Accounted(d)
      BY <2>13, <2>a DEF FailMark, Live
    <3>3. \A v \in Workers \ {w} : req'[v] = req[v]
      BY <3>1 DEF NextMark, Finish, TypeOK
    <3>4. CASE f[1] = d
      BY <3>1, <3>4 DEF Accounted
    <3>5. CASE f[1] # d
      <4>1. AnswersFor(w, d) => AnswersFor(w, d)'
        BY <3>1, <3>2, <3>5, NextMarkAnswers
      <4>2. QED
        BY <3>1, <3>2, <3>3, <4>1, StillAccounted
    <3>6. QED
      BY <3>4, <3>5
  <2>14. CASE Crash
    <3>1. /\ rows' = rows /\ history' = history
          /\ unrecorded' = unrecorded \cup UNION {Owed(w) : w \in Workers}
      BY <2>14 DEF Crash
    <3>2. Live(d) /\ Accounted(d)
      BY <3>1, <2>a DEF Live
    <3>3. ASSUME NEW w \in Workers, AnswersFor(w, d)
          PROVE  <<d, "status">> \in Owed(w)
      BY <3>3 DEF AnswersFor, Owed
    <3>4. QED
      BY <3>1, <3>2, <3>3 DEF Accounted, Recorded
  <2>15. CASE Tick \/ UNCHANGED vars
    BY <2>15, <2>a DEF Tick, vars, Accounted, Recorded, AnswersFor, Live
  <2>16. QED
    BY <2>1, <2>2, <2>3, <2>4, <2>5, <2>6, <2>7, <2>8, <2>9, <2>10, <2>11, <2>12,
       <2>13, <2>14, <2>15 DEF Next, Arrive, Continue
<1>3. QED
  BY <1>1, <1>2, TypeCorrect, PTL DEF Spec

-----------------------------------------------------------------------------
\* Only two statements touch archived_at and status together: the creation, which
\* makes a draft, and Archive(), which stamps.  Everything else keeps the stamp.
THEOREM ArchivedAreStamped == Spec => []ArchivedIsStamped
<1>1. Init => ArchivedIsStamped
  BY DEF Init, ArchivedIsStamped, Blank
<1>2. TypeOK /\ ArchivedIsStamped /\ [Next]_vars => ArchivedIsStamped'
  <2> SUFFICES ASSUME TypeOK, ArchivedIsStamped, [Next]_vars PROVE ArchivedIsStamped'
    OBVIOUS
  <2>1. CASE UNCHANGED rows
    BY <2>1 DEF ArchivedIsStamped
  <2>2. ASSUME NEW w \in Workers, NEW d \in Docs, CreateDocument(w, d)
        PROVE  ArchivedIsStamped'
    BY <2>2 DEF CreateDocument, ArchivedIsStamped, Blank, TypeOK
  <2>3. ASSUME NEW w \in Workers, WriteEdit(w) \/ WriteResponsible(w), ~UNCHANGED rows
        PROVE  ArchivedIsStamped'
    <3>1. CASE WriteEdit(w)
      <4>1. PICK t, dl : rows' = [rows EXCEPT ![req[w].doc] =
                                    [rows[req[w].doc] EXCEPT !.title = t, !.deadline = dl]]
        BY <2>3, <3>1 DEF WriteEdit, Vanished
      <4>2. \A d \in Docs : /\ rows'[d].status = rows[d].status
                            /\ rows'[d].archivedAt = rows[d].archivedAt
        BY <4>1 DEF TypeOK, Row
      <4>3. QED
        BY <4>2 DEF ArchivedIsStamped
    <3>2. CASE WriteResponsible(w)
      <4>1. PICK u : rows' = [rows EXCEPT ![req[w].doc] =
                                [rows[req[w].doc] EXCEPT !.responsible = u]]
        BY <2>3, <3>2 DEF WriteResponsible, Vanished
      <4>2. \A d \in Docs : /\ rows'[d].status = rows[d].status
                            /\ rows'[d].archivedAt = rows[d].archivedAt
        BY <4>1 DEF TypeOK, Row
      <4>3. QED
        BY <4>2 DEF ArchivedIsStamped
    <3>3. QED
      BY <2>3, <3>1, <3>2
  <2>4. ASSUME NEW w \in Workers, DeleteRow(w), ~UNCHANGED rows
        PROVE  ArchivedIsStamped'
    BY <2>4 DEF DeleteRow, Vanished, ArchivedIsStamped, TypeOK, Blank
  <2>5. ASSUME NEW w \in Workers, WriteStatus(w), ~UNCHANGED rows
        PROVE  ArchivedIsStamped'
    <3>1. rows' = [rows EXCEPT ![req[w].doc] = Rewritten(rows[req[w].doc], req[w].new.status)]
      BY <2>5 DEF WriteStatus, Vanished
    <3>2. \A d \in Docs : LET row == Rewritten(rows[d], req[w].new.status)
                          IN row.status = "archived" => row.archivedAt
      BY DEF Rewritten, TypeOK, Row
    <3>3. QED
      BY <3>1, <3>2 DEF ArchivedIsStamped, TypeOK
  <2>6. ASSUME NEW w \in Workers, MarkRows(w)
        PROVE  ArchivedIsStamped'
    <3>1. \A d \in Docs : rows[d] \in Row /\ (rows[d].status = "archived" => rows[d].archivedAt)
      BY DEF TypeOK, ArchivedIsStamped
    <3>2. \A d \in Docs : \/ rows'[d] = rows[d]
                         \/ rows'[d] = [rows[d] EXCEPT !.status = "overdue", !.isOverdue = TRUE]
      BY <2>6 DEF MarkRows
    <3>3. \A d \in Docs : rows'[d].status = "archived" => rows'[d] = rows[d]
      BY <3>1, <3>2 DEF Row
    <3>4. QED
      BY <3>1, <3>3 DEF ArchivedIsStamped
  <2>7. ASSUME NEW w \in Workers, Arrive(w), ~UNCHANGED rows
        PROVE  \E d \in Docs : CreateDocument(w, d)
    BY <2>7 DEF Arrive, UpdateDocument, DeleteDocument, AssignResponsible, ChangeStatus,
                ArchiveDocument, Begin, MarkOverdue
  <2>8. ASSUME NEW w \in Workers, Continue(w), ~UNCHANGED rows
        PROVE  \/ WriteEdit(w) \/ WriteResponsible(w) \/ DeleteRow(w)
               \/ WriteStatus(w) \/ MarkRows(w)
    BY <2>8 DEF Continue, LogEdit, LogResponsible, LogStatus, LogMark, Vanished
  <2>9. CASE UNCHANGED vars \/ Crash \/ Tick \/ \E w \in Workers : Fail(w) \/ FailMark(w)
    BY <2>1, <2>9 DEF vars, Crash, Tick, Fail, FailMark
  <2>10. QED
    BY <2>1, <2>2, <2>3, <2>4, <2>5, <2>6, <2>7, <2>8, <2>9 DEF Next
<1>3. QED
  BY <1>1, <1>2, TypeCorrect, PTL DEF Spec

-----------------------------------------------------------------------------
\* No handler that has read a row is on its way to write draft.

Onward == \A w \in Workers : req[w].step \in {"assign", "logAssign", "status"}
                                => req[w].new.status # "draft"

\* A request that is over, goes on with the copy it has, or has taken a new one.
LEMMA StillOnward ==
  ASSUME TypeOK, Onward, NEW w \in Workers, \A v \in Workers \ {w} : req'[v] = req[v],
         req'[w].step \in {"assign", "logAssign", "status"} => req'[w].new.status # "draft"
  PROVE  Onward'
BY DEF Onward

LEMMA StepOnward ==
  ASSUME TypeOK, Onward, [Next]_vars
  PROVE  Onward'
<1>1. CASE UNCHANGED vars \/ Tick
  BY <1>1 DEF Onward, vars, Tick
<1>2. CASE Crash
  <2>1. Idle.step = "idle"
    BY DEF Idle
  <2>2. QED
    BY <1>2, <2>1 DEF Crash, Onward
<1>3. ASSUME NEW w \in Workers, Finish(w)
      PROVE  Onward'
  <2>1. req'[w].step = "idle" /\ \A v \in Workers \ {w} : req'[v] = req[v]
    BY <1>3 DEF Finish, TypeOK, Idle
  <2>2. QED
    BY <2>1, StillOnward
<1>4. ASSUME NEW w \in Workers, NEW step, Proceed(w, step),
             step = "status" => req[w].step = "logAssign", step = "logAssign" => req[w].step = "assign",
             step # "assign"
      PROVE  Onward'
  <2>1. /\ req'[w].step = step /\ req'[w].new = req[w].new
        /\ \A v \in Workers \ {w} : req'[v] = req[v]
    BY <1>4 DEF Proceed, TypeOK, Request
  <2>2. QED
    BY <1>4, <2>1, StillOnward DEF Onward
<1>5. ASSUME NEW w \in Workers, NEW d, NEW step, NEW old, NEW new, Begin(w, d, step, old, new),
             step \in {"assign", "status"} => new.status # "draft", step # "logAssign"
      PROVE  Onward'
  <2>1. /\ req'[w].step = step /\ req'[w].new = new
        /\ \A v \in Workers \ {w} : req'[v] = req[v]
    BY <1>5 DEF Begin, TypeOK
  <2>2. QED
    BY <1>5, <2>1, StillOnward
<1>6. ASSUME NEW w \in Workers, Arrive(w)
      PROVE  Onward'
  <2>1. CASE MarkOverdue(w)
    <3>1. req'[w].step = "mark" /\ \A v \in Workers \ {w} : req'[v] = req[v]
      BY <2>1 DEF MarkOverdue, TypeOK, Request
    <3>2. QED
      BY <3>1, StillOnward
  <2>2. ASSUME NEW d \in Docs, CreateDocument(w, d)
        PROVE  Onward'
    <3>1. req'[w].step = "logStatus" /\ \A v \in Workers \ {w} : req'[v] = req[v]
      BY <2>2 DEF CreateDocument, TypeOK
    <3>2. QED
      BY <3>1, StillOnward
  <2>3. ASSUME NEW d \in Docs, UpdateDocument(w, d) \/ DeleteDocument(w, d)
        PROVE  Onward'
    BY <1>5, <2>3 DEF UpdateDocument, DeleteDocument
  <2>4. ASSUME NEW d \in Docs, AssignResponsible(w, d)
        PROVE  Onward'
    <3>1. PICK u \in Users :
            Begin(w, d, "assign", [Blank(rows[d].status) EXCEPT !.responsible = rows[d].responsible],
                  [Blank("assigned") EXCEPT !.responsible = u])
      BY <2>4 DEF AssignResponsible
    <3>2. [Blank("assigned") EXCEPT !.responsible = u].status = "assigned"
      BY DEF Blank
    <3>3. QED
      BY <1>5, <3>1, <3>2
  <2>5. ASSUME NEW d \in Docs, ChangeStatus(w, d) \/ ArchiveDocument(w, d)
        PROVE  Onward'
    <3>1. PICK to : /\ CanTransition(rows[d].status, to)
                    /\ Begin(w, d, "status", Blank(rows[d].status), Blank(to))
      BY <2>5 DEF ChangeStatus, ArchiveDocument
    <3>2. Blank(to).status = to /\ to # "draft"
      BY <3>1 DEF Blank, CanTransition, AllowedTransitions
    <3>3. QED
      BY <1>5, <3>1, <3>2
  <2>6. QED
    BY <1>6, <2>1, <2>2, <2>3, <2>4, <2>5 DEF Arrive
<1>7. ASSUME NEW w \in Workers, NEW f \in req[w].found, NextMark(w, f), req[w].step = "logMarks"
      PROVE  Onward'
  <2>1. CASE req[w].found = {f}
    BY <1>3, <1>7, <2>1 DEF NextMark
  <2>2. CASE req[w].found # {f}
    <3>1. req'[w].step = "logMarks" /\ \A v \in Workers \ {w} : req'[v] = req[v]
      BY <1>7, <2>2 DEF NextMark, TypeOK, Request
    <3>2. QED
      BY <3>1, StillOnward
  <2>3. QED
    BY <2>1, <2>2
<1>8. ASSUME NEW w \in Workers, Continue(w)
      PROVE  Onward'
  <2>1. CASE Vanished(w) \/ LogEdit(w) \/ DeleteRow(w) \/ LogStatus(w)
    BY <1>3, <2>1 DEF Vanished, LogEdit, DeleteRow, LogStatus
  <2>2. CASE WriteEdit(w) \/ WriteResponsible(w) \/ WriteStatus(w) \/ MarkRows(w)
    BY <1>4, <2>1, <2>2 DEF WriteEdit, WriteResponsible, WriteStatus, MarkRows
  <2>3. CASE LogResponsible(w)
    BY <1>3, <1>4, <2>1, <2>3 DEF LogResponsible
  <2>4. CASE LogMark(w)
    BY <1>7, <2>4 DEF LogMark
  <2>5. QED
    BY <1>8, <2>1, <2>2, <2>3, <2>4 DEF Continue
<1>9. ASSUME NEW w \in Workers, Fail(w) \/ FailMark(w)
      PROVE  Onward'
  BY <1>3, <1>7, <1>9 DEF Fail, FailMark
<1>10. QED
  BY <1>1, <1>2, <1>6, <1>8, <1>9 DEF Next

\* Whatever has left draft never becomes deletable again, races, failing statements and
\* restarts included: no statement but the INSERT writes draft.
THEOREM NoWayBackToDraft == Spec => DraftNeverReturns
<1>1. Init => Onward
  BY DEF Init, Idle, Onward
<1>2. TypeOK /\ Onward /\ [Next]_vars => Onward'
  BY StepOnward
<1>3. TypeOK /\ Onward /\ [Next]_vars =>
        [\A d \in Docs : rows'[d].status = "draft" => rows[d].status \in {"draft", "unused"}]_rows
  <2> SUFFICES ASSUME TypeOK, Onward, [Next]_vars, ~UNCHANGED rows,
                      NEW d \in Docs, rows'[d].status = "draft"
               PROVE  rows[d].status \in {"draft", "unused"}
    OBVIOUS
  <2>1. ASSUME NEW w \in Workers, NEW e \in Docs, CreateDocument(w, e)
        PROVE  rows[d].status \in {"draft", "unused"}
    BY <2>1 DEF CreateDocument, TypeOK
  <2>2. ASSUME NEW w \in Workers, WriteEdit(w) \/ WriteResponsible(w)
        PROVE  rows[d].status \in {"draft", "unused"}
    <3>1. PICK e \in Docs : req[w].doc = e
      BY DEF TypeOK, Request
    <3>2. \/ rows' = [rows EXCEPT ![e] = [@ EXCEPT !.title = req[w].new.title,
                                                   !.deadline = req[w].new.deadline]]
          \/ rows' = [rows EXCEPT ![e] = [@ EXCEPT !.responsible = req[w].new.responsible]]
      BY <2>2, <3>1 DEF WriteEdit, WriteResponsible, Vanished
    <3>3. rows[d] \in Row
      BY DEF TypeOK
    <3>4. CASE e = d
      <4>1. \/ rows'[d] = [rows[d] EXCEPT !.title = req[w].new.title, !.deadline = req[w].new.deadline]
            \/ rows'[d] = [rows[d] EXCEPT !.responsible = req[w].new.responsible]
        BY <3>2, <3>4 DEF TypeOK
      <4>2. QED
        BY <3>3, <4>1 DEF Row
    <3>5. CASE e # d
      BY <3>2, <3>5 DEF TypeOK
    <3>6. QED
      BY <3>4, <3>5
  <2>3. ASSUME NEW w \in Workers, WriteStatus(w)
        PROVE  rows[d].status \in {"draft", "unused"}
    <3>1. /\ req[w].step = "status" /\ req[w].new.status # "draft"
          /\ rows' = [rows EXCEPT ![req[w].doc] = Rewritten(@, req[w].new.status)]
      BY <2>3 DEF WriteStatus, Vanished, Onward
    <3>2. rows[d] \in Row
      BY DEF TypeOK
    <3>3. rows'[d] = Rewritten(rows[d], req[w].new.status) \/ rows'[d] = rows[d]
      BY <3>1 DEF TypeOK
    <3>4. Rewritten(rows[d], req[w].new.status).status = req[w].new.status
      BY <3>2 DEF Rewritten, Row
    <3>5. QED
      BY <3>1, <3>3, <3>4
  <2>4. ASSUME NEW w \in Workers, DeleteRow(w)
        PROVE  rows[d].status \in {"draft", "unused"}
    <3>1. rows' = [rows EXCEPT ![req[w].doc] = Blank("deleted")]
      BY <2>4 DEF DeleteRow, Vanished
    <3>2. Blank("deleted").status = "deleted"
      BY DEF Blank
    <3>3. QED
      BY <3>1, <3>2 DEF TypeOK
  <2>5. ASSUME NEW w \in Workers, MarkRows(w)
        PROVE  rows[d].status \in {"draft", "unused"}
    <3>1. rows'[d] = [rows[d] EXCEPT !.status = "overdue", !.isOverdue = TRUE] \/ rows'[d] = rows[d]
      BY <2>5 DEF MarkRows
    <3>2. rows[d] \in Row
      BY DEF TypeOK
    <3>3. QED
      BY <3>1, <3>2 DEF Row
  <2>6. ASSUME NEW w \in Workers, Arrive(w)
        PROVE  \E e \in Docs : CreateDocument(w, e)
    BY <2>6 DEF Arrive, UpdateDocument, DeleteDocument, AssignResponsible, ChangeStatus,
                ArchiveDocument, Begin, MarkOverdue
  <2>7. ASSUME NEW w \in Workers, Continue(w)
        PROVE  \/ WriteEdit(w) \/ WriteResponsible(w) \/ DeleteRow(w)
               \/ WriteStatus(w) \/ MarkRows(w)
    BY <2>7 DEF Continue, LogEdit, LogResponsible, LogStatus, LogMark, Vanished
  <2>8. ~(UNCHANGED vars \/ Crash \/ Tick \/ \E w \in Workers : Fail(w) \/ FailMark(w))
    BY DEF vars, Crash, Tick, Fail, FailMark
  <2>9. QED
    BY <2>1, <2>2, <2>3, <2>4, <2>5, <2>6, <2>7, <2>8 DEF Next
<1>4. QED
  BY <1>1, <1>2, <1>3, TypeCorrect, PTL DEF Spec, DraftNeverReturns

-----------------------------------------------------------------------------
\* A status changes from what its writer read.

\* The statuses read of document d that worker w may still act on.
HasRead(w, d) ==
    CASE req[w].step = "mark" -> {f[2] : f \in {g \in req[w].found : g[1] = d}}
      [] req[w].step \in {"assign", "logAssign", "status", "delete"} /\ req[w].doc = d
           -> {req[w].old.status}
      [] OTHER -> {}

\* What a handler's record holds at each statement.
HoldsRight(r) ==
    /\ r.step \in {"assign", "logAssign", "status", "delete"} => r.old.status \in Statuses
    /\ r.step \in {"assign", "logAssign"} /\ r.old.status = "draft" => r.new.status = "assigned"
    /\ r.step = "status" => CanTransition(r.old.status, r.new.status)
    /\ r.step = "delete" => r.old.status = "draft"
    /\ r.step \in {"mark", "logMarks"} => \A f \in r.found : f[2] \in Sweepable
    /\ r.step \notin {"mark", "logMarks"} => r.found = {}

Holding == \A w \in Workers : HoldsRight(req[w])

\* A reading that another request has overtaken is of a contended document.
Readings == \A w \in Workers, d \in Docs : \A seen \in HasRead(w, d) :
                seen # rows[d].status => d \in contended
Tracked == Holding /\ Readings /\ Met \subseteq contended

\* Who has read a status of a document is at work on it.
LEMMA ReadIsOn ==
  ASSUME Holding, NEW w \in Workers, NEW d \in Docs, NEW seen \in HasRead(w, d)
  PROVE  On(w, d) /\ seen \in Statuses
<1>1. CASE req[w].step = "mark"
  BY <1>1 DEF HasRead, On, Busy, Holding, HoldsRight, Sweepable
<1>2. CASE req[w].step \in {"assign", "logAssign", "status", "delete"} /\ req[w].doc = d
  BY <1>2 DEF HasRead, On, Busy, Holding, HoldsRight
<1>3. QED
  BY <1>1, <1>2 DEF HasRead

\* A step of worker w keeps track: the readings it has afterwards are of the rows as
\* they are, or as they were when it leaves them alone; and a status it changes is of
\* a document it is at work on, or of none yet.
LEMMA KeepsTrack ==
  ASSUME TypeOK, Tracked, NEW w \in Workers, contended' = contended \cup Met',
         HoldsRight(req'[w]), \A v \in Workers \ {w} : req'[v] = req[v],
         \A d \in Docs : \A seen \in HasRead(w, d)' :
             \/ seen = rows'[d].status
             \/ seen \in HasRead(w, d) /\ rows'[d].status = rows[d].status,
         \A d \in Docs : rows'[d].status # rows[d].status =>
             On(w, d) \/ rows[d].status = "unused"
  PROVE  Tracked'
<1>1. contended \subseteq contended' /\ Met' \subseteq contended'
  OBVIOUS
<1>2. Holding'
  BY DEF Tracked, Holding
<1>3. Readings'
  <2> SUFFICES ASSUME NEW v \in Workers, NEW d \in Docs, NEW seen \in HasRead(v, d)',
                      seen # rows'[d].status
               PROVE  d \in contended'
    BY DEF Readings
  <2>1. CASE v = w
    BY <1>1, <2>1 DEF Tracked, Readings
  <2>2. CASE v # w
    <3>1. seen \in HasRead(v, d) /\ On(v, d) /\ seen \in Statuses
      <4>1. seen \in HasRead(v, d)
        BY <2>2 DEF HasRead
      <4>2. QED
        BY <4>1, ReadIsOn DEF Tracked
    <3>2. CASE rows'[d].status = rows[d].status \/ rows[d].status = "unused"
      BY <1>1, <3>1, <3>2 DEF Tracked, Readings, Statuses
    <3>3. CASE On(w, d)
      BY <1>1, <2>2, <3>1, <3>3 DEF Tracked, Met
    <3>4. QED
      BY <3>2, <3>3
  <2>3. QED
    BY <2>1, <2>2
<1>4. QED
  BY <1>1, <1>2, <1>3 DEF Tracked

\* A handler that reads a row, or creates one.
LEMMA ArriveTracks ==
  ASSUME TypeOK, Tracked, contended' = contended \cup Met', NEW w \in Workers, NEW d \in Docs,
         \/ CreateDocument(w, d) \/ UpdateDocument(w, d)    \/ DeleteDocument(w, d)
         \/ ChangeStatus(w, d)   \/ AssignResponsible(w, d) \/ ArchiveDocument(w, d)
  PROVE  Tracked'
<1>1. \A s : Blank(s).status = s
  BY DEF Blank
<1>2. rows[d] \in Row /\ rows[d].status \in RowStates
  BY DEF TypeOK, Row
<1>3. \A e \in Docs : rows'[e].status # rows[e].status => rows[e].status = "unused"
  BY DEF CreateDocument, UpdateDocument, DeleteDocument, ChangeStatus, AssignResponsible,
         ArchiveDocument, Begin, TypeOK
<1>4. ASSUME NEW step \in {"logStatus", "edit", "delete", "assign", "status"}, NEW old, NEW new,
             req' = [req EXCEPT ![w] = [step |-> step, doc |-> d, old |-> old, new |-> new,
                                        found |-> {}]],
             step \in {"delete", "assign", "status"} =>
                 Live(d) /\ old.status = rows[d].status /\ rows' = rows,
             step = "delete" => old.status = "draft",
             step = "assign" => new.status = "assigned",
             step = "status" => CanTransition(old.status, new.status)
      PROVE  Tracked'
  <2>1. /\ req'[w] = [step |-> step, doc |-> d, old |-> old, new |-> new, found |-> {}]
        /\ \A v \in Workers \ {w} : req'[v] = req[v]
    BY <1>4 DEF TypeOK
  <2>2. HoldsRight(req'[w])
    BY <1>4, <2>1 DEF HoldsRight, Live
  <2>3. \A e \in Docs : \A seen \in HasRead(w, e)' : seen = rows'[e].status
    BY <1>4, <2>1 DEF HasRead
  <2>4. QED
    BY <1>3, <2>1, <2>2, <2>3, KeepsTrack
<1>5. ASSUME Live(d), NEW to, CanTransition(rows[d].status, to),
             Begin(w, d, "status", Blank(rows[d].status), Blank(to))
      PROVE  Tracked'
  <2>1. Blank(rows[d].status).status = rows[d].status /\ Blank(to).status = to
    BY <1>1
  <2>2. QED
    BY <1>4, <1>5, <2>1 DEF Begin
<1>6. CASE CreateDocument(w, d)
  BY <1>4, <1>6 DEF CreateDocument
<1>7. CASE UpdateDocument(w, d)
  <2>1. PICK new : Begin(w, d, "edit", Blank("unused"), new)
    BY <1>7 DEF UpdateDocument
  <2>2. QED
    BY <1>4, <2>1 DEF Begin
<1>8. CASE DeleteDocument(w, d)
  BY <1>1, <1>4, <1>8 DEF DeleteDocument, Begin
<1>9. CASE AssignResponsible(w, d)
  <2> DEFINE old == [Blank(rows[d].status) EXCEPT !.responsible = rows[d].responsible]
  <2>1. PICK u \in Users : Begin(w, d, "assign", old, [Blank("assigned") EXCEPT !.responsible = u])
    BY <1>9 DEF AssignResponsible
  <2>2. [Blank("assigned") EXCEPT !.responsible = u].status = "assigned"
    BY DEF Blank
  <2>3. old.status = rows[d].status
    BY DEF Blank
  <2>4. Live(d)
    BY <1>9 DEF AssignResponsible
  <2> HIDE DEF old
  <2>5. QED
    BY <1>4, <2>1, <2>2, <2>3, <2>4 DEF Begin
<1>10. CASE ChangeStatus(w, d)
  <2>1. PICK to \in Statuses : /\ CanTransition(rows[d].status, to)
                               /\ Begin(w, d, "status", Blank(rows[d].status), Blank(to))
    BY <1>10 DEF ChangeStatus
  <2>2. Live(d)
    BY <1>10 DEF ChangeStatus
  <2>3. QED
    BY <1>5, <2>1, <2>2
<1>11. CASE ArchiveDocument(w, d)
  BY <1>5, <1>11 DEF ArchiveDocument
<1>12. QED
  BY <1>6, <1>7, <1>8, <1>9, <1>10, <1>11

\* The sweep's selection.
LEMMA SelectTracks ==
  ASSUME TypeOK, Tracked, contended' = contended \cup Met', NEW w \in Workers, MarkOverdue(w)
  PROVE  Tracked'
<1> DEFINE found == {<<d, rows[d].status>> : d \in {e \in Docs : Overdue(e)}}
<1>1. rows' = rows /\ req' = [req EXCEPT ![w] = [@ EXCEPT !.step = "mark", !.found = found]]
  BY DEF MarkOverdue
<1>2. /\ req'[w].step = "mark" /\ req'[w].found = found
      /\ \A v \in Workers \ {w} : req'[v] = req[v]
  BY <1>1 DEF TypeOK, Request
<1>3. \A f \in found : f[1] \in Docs /\ f[2] = rows[f[1]].status /\ f[2] \in Sweepable
  BY DEF Overdue
<1> HIDE DEF found
<1>4. HoldsRight(req'[w])
  BY <1>2, <1>3 DEF HoldsRight
<1>5. \A d \in Docs : \A seen \in HasRead(w, d)' : seen = rows'[d].status
  BY <1>1, <1>2, <1>3 DEF HasRead
<1>6. QED
  BY <1>1, <1>2, <1>4, <1>5, KeepsTrack

\* An edit or a new responsible user leaves every status as it is.
LEMMA EditKeepsStatus ==
  ASSUME TypeOK, NEW w \in Workers, WriteEdit(w) \/ WriteResponsible(w), ~Vanished(w)
  PROVE  \A d \in Docs : rows'[d].status = rows[d].status
<1>1. PICK row : rows' = [rows EXCEPT ![req[w].doc] = row]
                 /\ row.status = rows[req[w].doc].status
  <2>1. req[w].doc \in Docs /\ rows[req[w].doc] \in Row
    BY DEF TypeOK, Request
  <2> DEFINE edited == [rows[req[w].doc] EXCEPT !.title = req[w].new.title,
                                                !.deadline = req[w].new.deadline]
             assigned == [rows[req[w].doc] EXCEPT !.responsible = req[w].new.responsible]
  <2>2. edited.status = rows[req[w].doc].status /\ assigned.status = rows[req[w].doc].status
    BY <2>1 DEF Row
  <2>3. CASE WriteEdit(w)
    <3>1. rows' = [rows EXCEPT ![req[w].doc] = edited]
      BY <2>3 DEF WriteEdit
    <3>2. QED
      BY <2>2, <3>1
  <2>4. CASE WriteResponsible(w)
    <3>1. rows' = [rows EXCEPT ![req[w].doc] = assigned]
      BY <2>4 DEF WriteResponsible
    <3>2. QED
      BY <2>2, <3>1
  <2>5. QED
    BY <2>3, <2>4
<1>2. QED
  BY <1>1 DEF TypeOK

\* What a handler under way has read afterwards: nothing more, and of a document whose
\* status it leaves alone.
LEMMA ContinueTracks ==
  ASSUME TypeOK, Tracked, contended' = contended \cup Met', NEW w \in Workers,
         Continue(w) \/ Fail(w) \/ FailMark(w)
  PROVE  Tracked'
<1>1. /\ req[w] \in Request /\ req[w].doc \in Docs /\ rows[req[w].doc] \in Row
      /\ HoldsRight(req[w]) /\ rows \in [Docs -> Row]
  BY DEF TypeOK, Request, Tracked, Holding
<1>2. \A v \in Workers \ {w} : req'[v] = req[v]
  BY DEF Continue, WriteEdit, LogEdit, DeleteRow, WriteResponsible, LogResponsible, WriteStatus,
         LogStatus, MarkRows, LogMark, Vanished, Fail, FailMark, Finish, Proceed, NextMark, TypeOK
<1>3. ASSUME req'[w].step \in {"idle", "logEdit", "logStatus", "logMarks"}
      PROVE  \A d \in Docs : HasRead(w, d)' = {}
  BY <1>3 DEF HasRead
<1>4. ASSUME Finish(w), rows' = rows
      PROVE  Tracked'
  <2>1. req'[w] = Idle
    BY <1>4 DEF Finish, TypeOK
  <2>2. HoldsRight(req'[w]) /\ req'[w].step = "idle"
    BY <2>1 DEF HoldsRight, Idle
  <2>3. QED
    BY <1>2, <1>3, <1>4, <2>2, KeepsTrack
<1>5. ASSUME NEW step \in {"logEdit", "logAssign", "status", "logStatus", "logMarks"}, Proceed(w, step)
      PROVE  /\ req'[w].step = step /\ req'[w].doc = req[w].doc /\ req'[w].found = req[w].found
             /\ req'[w].old = req[w].old /\ req'[w].new = req[w].new
  BY <1>1, <1>5 DEF Proceed, TypeOK, Request
<1>6. ASSUME req[w].step = "logMarks", NEW f \in req[w].found, NextMark(w, f), rows' = rows
      PROVE  Tracked'
  <2>1. CASE ~Finish(w)
    <3>1. req' = [req EXCEPT ![w].found = @ \ {f}]
      BY <1>6, <2>1 DEF NextMark
    <3>2. req'[w].step = "logMarks" /\ req'[w].found = req[w].found \ {f}
      BY <1>1, <1>6, <3>1 DEF TypeOK, Request
    <3>3. HoldsRight(req'[w])
      BY <1>1, <1>6, <3>2 DEF HoldsRight
    <3>4. QED
      BY <1>2, <1>3, <1>6, <3>2, <3>3, KeepsTrack
  <2>2. QED
    BY <1>4, <1>6, <2>1
<1>7. CASE Vanished(w) \/ LogEdit(w) \/ LogStatus(w) \/ Fail(w)
  BY <1>4, <1>7 DEF Vanished, LogEdit, LogStatus, Fail
<1>8. CASE WriteEdit(w) /\ ~Vanished(w)
  <2>1. Proceed(w, "logEdit") /\ req[w].step = "edit"
    BY <1>8 DEF WriteEdit
  <2>2. \A d \in Docs : rows'[d].status = rows[d].status
    BY <1>8, EditKeepsStatus
  <2>3. req'[w].step = "logEdit" /\ HoldsRight(req'[w])
    BY <1>1, <1>5, <2>1 DEF HoldsRight
  <2>4. QED
    BY <1>2, <1>3, <2>2, <2>3, KeepsTrack
<1>9. CASE DeleteRow(w) /\ ~Vanished(w)
  <2>1. Finish(w) /\ req[w].step = "delete"
    BY <1>9 DEF DeleteRow
  <2>2. req'[w].step = "idle" /\ HoldsRight(req'[w])
    BY <2>1 DEF Finish, TypeOK, HoldsRight, Idle
  <2>3. \A d \in Docs : rows'[d].status # rows[d].status => On(w, d)
    BY <1>1, <1>9, <2>1 DEF DeleteRow, On, Busy, HoldsRight
  <2>4. QED
    BY <1>2, <1>3, <2>2, <2>3, KeepsTrack
<1>10. CASE WriteResponsible(w) /\ ~Vanished(w)
  <2>1. Proceed(w, "logAssign") /\ req[w].step = "assign"
    BY <1>10 DEF WriteResponsible
  <2>2. \A d \in Docs : rows'[d].status = rows[d].status
    BY <1>10, EditKeepsStatus
  <2>3. HoldsRight(req'[w]) /\ \A d \in Docs : HasRead(w, d)' = HasRead(w, d)
    BY <1>1, <1>5, <2>1 DEF HoldsRight, HasRead
  <2>4. QED
    BY <1>2, <2>2, <2>3, KeepsTrack
<1>11. CASE LogResponsible(w) /\ ~Vanished(w) /\ ~Finish(w)
  <2>1. /\ Proceed(w, "status") /\ req[w].step = "logAssign" /\ rows' = rows
        /\ req[w].old.status = "draft"
    BY <1>11 DEF LogResponsible
  <2>2. CanTransition("draft", "assigned")
    BY DEF CanTransition, AllowedTransitions
  <2>3. HoldsRight(req'[w]) /\ \A d \in Docs : HasRead(w, d)' = HasRead(w, d)
    BY <1>1, <1>5, <2>1, <2>2 DEF HoldsRight, HasRead
  <2>4. QED
    BY <1>2, <2>1, <2>3, KeepsTrack
<1>12. CASE LogResponsible(w) /\ ~Vanished(w) /\ Finish(w)
  BY <1>4, <1>12 DEF LogResponsible
<1>13. CASE WriteStatus(w) /\ ~Vanished(w)
  <2>1. Proceed(w, "logStatus") /\ req[w].step = "status"
    BY <1>13 DEF WriteStatus
  <2>2. req'[w].step = "logStatus" /\ HoldsRight(req'[w])
    BY <1>1, <1>5, <2>1 DEF HoldsRight
  <2>3. \A d \in Docs : rows'[d].status # rows[d].status => On(w, d)
    BY <1>1, <1>13, <2>1 DEF WriteStatus, On, Busy, HoldsRight
  <2>4. QED
    BY <1>2, <1>3, <2>2, <2>3, KeepsTrack
<1>14. CASE MarkRows(w)
  <2>1. Proceed(w, "logMarks") /\ req[w].step = "mark"
    BY <1>14 DEF MarkRows
  <2>2. req'[w].step = "logMarks" /\ HoldsRight(req'[w])
    BY <1>1, <1>5, <2>1 DEF HoldsRight
  <2>3. \A d \in Docs : rows'[d].status # rows[d].status => On(w, d)
    BY <1>1, <1>14, <2>1 DEF MarkRows, On, Busy
  <2>4. QED
    BY <1>2, <1>3, <2>2, <2>3, KeepsTrack
<1>15. CASE LogMark(w) \/ FailMark(w)
  BY <1>6, <1>15 DEF LogMark, FailMark
<1>16. QED
  BY <1>7, <1>8, <1>9, <1>10, <1>11, <1>12, <1>13, <1>14, <1>15 DEF Continue

LEMMA NextTracks == TypeOK /\ Tracked /\ [Next]_vars => Tracked'
<1> SUFFICES ASSUME TypeOK, Tracked, [Next]_vars PROVE Tracked'
  OBVIOUS
<1>1. CASE UNCHANGED vars
  BY <1>1 DEF vars, Tracked, Holding, Readings, HasRead, Met, On, Busy
<1>2. CASE Next
  <2>1. contended' = contended \cup Met'
    BY <1>2 DEF Next
  <2>2. CASE Crash
    <3>1. \A w \in Workers : req'[w].step = "idle" /\ req'[w].found = {}
      BY <2>2 DEF Crash, Idle
    <3>2. Holding' /\ Readings'
      BY <3>1 DEF Holding, HoldsRight, Readings, HasRead
    <3>3. QED
      BY <2>1, <3>2 DEF Tracked
  <2>3. CASE Tick
    <3>1. UNCHANGED <<rows, req>>
      BY <2>3 DEF Tick
    <3>2. QED
      BY <2>1, <3>1 DEF Tracked, Holding, Readings, HasRead
  <2>4. QED
    BY <1>2, <2>1, <2>2, <2>3, ArriveTracks, SelectTracks, ContinueTracks DEF Next, Arrive
<1>3. QED
  BY <1>1, <1>2

\* The action of ChangesFollowReading.
FollowsReading ==
    \A d \in Docs : rows[d].status # rows'[d].status /\ Live(d) =>
        \E w \in Workers : \E seen \in SeenBy(w, d) :
           /\ req'[w] # req[w]
           /\ seen # rows[d].status => d \in contended
           /\ IF rows'[d].status = "deleted" THEN seen = "draft"
              ELSE Lawful(seen, rows'[d].status)

\* Only three statements change the status of a live document, each from a status read.
LEMMA StepFollowsReading ==
  ASSUME TypeOK, Tracked, [Next]_vars
  PROVE  FollowsReading
<1> SUFFICES ASSUME NEW d \in Docs, rows[d].status # rows'[d].status, Live(d)
             PROVE  \E w \in Workers : \E seen \in SeenBy(w, d) :
                       /\ req'[w] # req[w]
                       /\ seen # rows[d].status => d \in contended
                       /\ IF rows'[d].status = "deleted" THEN seen = "draft"
                          ELSE Lawful(seen, rows'[d].status)
  BY DEF FollowsReading
<1>1. PICK w \in Workers : \/ WriteStatus(w) /\ ~Vanished(w)
                           \/ DeleteRow(w) /\ ~Vanished(w)
                           \/ MarkRows(w)
  <2>1. ASSUME NEW w \in Workers, NEW e \in Docs, CreateDocument(w, e)
        PROVE  FALSE
    BY <2>1 DEF CreateDocument, Live, Statuses, TypeOK
  <2>2. ASSUME NEW w \in Workers, WriteEdit(w) \/ WriteResponsible(w), ~Vanished(w)
        PROVE  FALSE
    BY <2>2, EditKeepsStatus
  <2>3. rows' # rows
    OBVIOUS
  <2>4. \A w \in Workers : ~Vanished(w)
    BY <2>3 DEF Vanished
  <2>5. QED
    BY <2>1, <2>2, <2>3, <2>4
       DEF Next, Arrive, Continue, UpdateDocument, DeleteDocument, AssignResponsible, ChangeStatus,
           ArchiveDocument, Begin, MarkOverdue, LogEdit, LogResponsible, LogStatus, LogMark, Fail,
           FailMark, Crash, Tick, vars
<1>2. /\ req[w] \in Request /\ req[w].doc \in Docs /\ rows \in [Docs -> Row] /\ HoldsRight(req[w])
  BY DEF TypeOK, Request, Tracked, Holding
<1>3. \A seen \in SeenBy(w, d) : seen # rows[d].status => d \in contended
  BY DEF Tracked, Readings, HasRead, SeenBy
<1>4. CASE WriteStatus(w) /\ ~Vanished(w)
  <2>1. req[w].step = "status" /\ d = req[w].doc
    BY <1>2, <1>4 DEF WriteStatus
  <2>2. rows'[d].status = req[w].new.status
    BY <1>2, <1>4, <2>1 DEF WriteStatus, Rewritten, Row
  <2>3. req'[w].step = "logStatus"
    BY <1>2, <1>4 DEF WriteStatus, Proceed, TypeOK, Request
  <2>4. CanTransition(req[w].old.status, req[w].new.status) /\ req[w].new.status # "deleted"
    BY <1>2, <2>1 DEF HoldsRight, CanTransition, AllowedTransitions
  <2>5. req[w].old.status \in SeenBy(w, d)
    BY <2>1 DEF SeenBy
  <2>6. QED
    BY <1>3, <2>1, <2>2, <2>3, <2>4, <2>5 DEF Lawful
<1>5. CASE DeleteRow(w) /\ ~Vanished(w)
  <2>1. req[w].step = "delete" /\ d = req[w].doc
    BY <1>2, <1>5 DEF DeleteRow
  <2>2. rows'[d].status = "deleted"
    BY <1>2, <1>5, <2>1 DEF DeleteRow, Blank
  <2>3. req'[w].step = "idle"
    BY <1>5 DEF DeleteRow, Finish, Idle, TypeOK
  <2>4. req[w].old.status = "draft"
    BY <1>2, <2>1 DEF HoldsRight
  <2>5. req[w].old.status \in SeenBy(w, d)
    BY <2>1 DEF SeenBy
  <2>6. QED
    BY <1>3, <2>1, <2>2, <2>3, <2>4, <2>5
<1>6. CASE MarkRows(w)
  <2>1. req[w].step = "mark" /\ \E f \in req[w].found : f[1] = d
    BY <1>6 DEF MarkRows
  <2>2. PICK f \in req[w].found : f[1] = d
    BY <2>1
  <2>3. rows'[d].status = "overdue"
    BY <1>2, <1>6, <2>1 DEF MarkRows, Row
  <2>4. req'[w].step = "logMarks"
    BY <1>2, <1>6 DEF MarkRows, Proceed, TypeOK, Request
  <2>5. f[2] \in Sweepable
    BY <1>2, <2>1 DEF HoldsRight
  <2>6. f[2] \in SeenBy(w, d)
    BY <2>1, <2>2 DEF SeenBy
  <2>7. QED
    BY <1>3, <2>1, <2>3, <2>4, <2>5, <2>6 DEF Lawful
<1>7. QED
  BY <1>1, <1>4, <1>5, <1>6

\* However any number of requests and sweeps interleave, a status only changes in a
\* lawful way from the status its writer read, and only a document read as a draft is
\* deleted; a reading that was overtaken is of a document two requests met on.
THEOREM ChangesFollow == Spec => ChangesFollowReading
<1>1. Init => Tracked
  <2>1. ASSUME Init, NEW w \in Workers
        PROVE  req[w].step = "idle" /\ req[w].found = {}
    BY <2>1 DEF Init, Idle
  <2>2. QED
    BY <2>1 DEF Tracked, Holding, HoldsRight, Readings, HasRead, Met, On, Busy
<1>2. TypeOK /\ Tracked /\ [Next]_vars => [FollowsReading]_vars
  BY StepFollowsReading
<1>3. ChangesFollowReading <=> [][FollowsReading]_vars
  BY DEF ChangesFollowReading, FollowsReading
<1>4. QED
  BY NextTracks, <1>1, <1>2, <1>3, TypeCorrect, PTL DEF Spec

-----------------------------------------------------------------------------
\* What holds when requests on one document do not overlap (Exclusive).

\* What a creation's entry has for the old status.
NoStatus == ""

\* The value after the last entry, and a chain of entries from the first value on.
Last(trail, first) == IF trail = <<>> THEN first ELSE trail[Len(trail)].new
Joined(trail, first) ==
    \A i \in 1 .. Len(trail) : trail[i].old = IF i = 1 THEN first ELSE trail[i - 1].new

\* Two requests under way are on different documents, and a sweep is alone.
Separate == \A v, w \in Workers : v # w /\ Busy(v) /\ Busy(w) =>
                req[v].doc # req[w].doc /\ req[v].found = {} /\ req[w].found = {}

\* What handler w has read is still so, and what it wrote still stands.
HoldsOf(w) ==
    LET row == rows[req[w].doc]
        step == req[w].step
    IN  /\ step \notin {"mark", "logMarks"} => req[w].found = {}
        /\ step \notin {"idle", "mark", "logMarks"} => Live(req[w].doc)
        /\ step = "edit" => (row.isOverdue => req[w].new.deadline # NoTime)
        /\ step = "delete" => row.status = "draft"
        /\ step \in {"assign", "logAssign", "status"} => req[w].old.status = row.status
        /\ step \in {"assign", "logAssign"} /\ req[w].old.status = "draft"
              => req[w].new.status = "assigned"
        /\ step = "assign" => req[w].old.responsible = row.responsible
        /\ step = "logAssign" => req[w].new.responsible = row.responsible
        /\ step = "status" => CanTransition(req[w].old.status, req[w].new.status)
        /\ step = "logStatus" => req[w].new.status = row.status
        /\ step \in {"mark", "logMarks"} =>
              req[w].found # {} /\ \A f, g \in req[w].found : f[1] = g[1] => f = g
        /\ step = "mark" => \A f \in req[w].found :
              rows[f[1]].status = f[2] /\ f[2] \in Sweepable /\ rows[f[1]].deadline # NoTime
        /\ step = "logMarks" => \A f \in req[w].found : rows[f[1]].status = "overdue"
Holds == \A w \in Workers : HoldsOf(w)

\* What the columns of a row say of each other; a row to come has no trail.
RowFits(d) == /\ rows[d].archivedAt => rows[d].status = "archived"
              /\ rows[d].isOverdue => rows[d].deadline # NoTime
              /\ rows[d].status = "unused" => history[d] = NoTrail

Owes(field, d) == \E w \in Workers : <<d, field>> \in Owed(w)

\* The entry worker w has still to insert joins up with the trail.
StatusFits(w, d) ==
    /\ req[w].step = "logStatus" /\ req[w].doc = d =>
          Last(history[d].status, NoStatus) = RecordedAs(req[w].old.status)
    /\ req[w].step = "logMarks" =>
          \A f \in req[w].found : f[1] = d => Last(history[d].status, NoStatus) = f[2]
UserFits(w, d, first) ==
    req[w].step = "logAssign" /\ req[w].doc = d =>
        Last(history[d].responsible, first) = req[w].old.responsible

StatusReplays(d) ==
    \/ <<d, "status">> \in unrecorded
    \/ /\ Joined(history[d].status, NoStatus)
       /\ Owes("status", d) \/ Last(history[d].status, NoStatus) = rows[d].status
       /\ \A w \in Workers : StatusFits(w, d)
\* A creation may have named a responsible user without an entry.
UserReplays(d) ==
    \/ <<d, "responsible">> \in unrecorded
    \/ \E first :
          /\ Joined(history[d].responsible, first)
          /\ Owes("responsible", d) \/ Last(history[d].responsible, first) = rows[d].responsible
          /\ \A w \in Workers : UserFits(w, d, first)

Agrees == /\ Separate /\ Holds
          /\ \A d \in Docs : RowFits(d) /\ (Live(d) => StatusReplays(d) /\ UserReplays(d))

\* A trail with one entry more.
Longer(trail, e, longer) ==
    /\ Len(trail) \in Nat /\ (Len(trail) = 0 <=> trail = <<>>)
    /\ Len(longer) = Len(trail) + 1 /\ longer # <<>>
    /\ \A i \in 1 .. Len(trail) : longer[i] = trail[i]
    /\ longer[Len(trail) + 1] = e

LEMMA AppendIsLonger ==
  ASSUME NEW E, NEW trail \in Seq(E), NEW e \in E, NEW longer, longer = Append(trail, e)
  PROVE  Longer(trail, e, longer)
<1>1. Len(trail) \in Nat /\ (Len(trail) = 0 <=> trail = <<>>)
  OBVIOUS
<1>2. Len(longer) = Len(trail) + 1 /\ longer \in Seq(E)
  OBVIOUS
<1>3. longer # <<>>
  BY <1>1, <1>2
<1>4. (\A i \in 1 .. Len(trail) : longer[i] = trail[i]) /\ longer[Len(trail) + 1] = e
  BY <1>1
<1>5. QED
  BY <1>1, <1>2, <1>3, <1>4 DEF Longer

\* An entry whose old value is the last new one joins up, and its new value is the last.
LEMMA Appended ==
  ASSUME NEW trail, NEW e, NEW longer, NEW first, Longer(trail, e, longer),
         Joined(trail, first), e.old = Last(trail, first)
  PROVE  Joined(longer, first) /\ Last(longer, first) = e.new
<1>1. /\ Len(trail) \in Nat /\ Len(longer) = Len(trail) + 1 /\ longer # <<>>
      /\ \A i \in 1 .. Len(trail) : longer[i] = trail[i]
      /\ longer[Len(trail) + 1] = e
      /\ Len(trail) = 0 <=> trail = <<>>
  BY DEF Longer
<1>2. Last(longer, first) = e.new
  BY <1>1 DEF Last
<1>3. ASSUME NEW i \in 1 .. Len(longer)
      PROVE  longer[i].old = IF i = 1 THEN first ELSE longer[i - 1].new
  <2>1. CASE i \in 1 .. Len(trail)
    <3>1. i # 1 => i - 1 \in 1 .. Len(trail)
      BY <1>1, <2>1
    <3>2. QED
      BY <1>1, <2>1, <3>1 DEF Joined
  <2>2. CASE i = Len(trail) + 1
    <3>1. CASE trail = <<>>
      BY <1>1, <2>2, <3>1 DEF Last
    <3>2. CASE trail # <<>>
      <4>1. i # 1 /\ i - 1 = Len(trail) /\ Len(trail) \in 1 .. Len(trail)
        BY <1>1, <2>2, <3>2
      <4>2. longer[i - 1] = trail[Len(trail)] /\ longer[i] = e
        BY <1>1, <2>2, <4>1
      <4>3. QED
        BY <3>2, <4>1, <4>2 DEF Last
    <3>3. QED
      BY <3>1, <3>2
  <2>3. QED
    BY <1>1, <2>1, <2>2
<1>4. Joined(longer, first)
  BY <1>3 DEF Joined
<1>5. QED
  BY <1>2, <1>4

\* A worker that owes an entry of a document is on the document.
LEMMA OwesIsOn ==
  ASSUME Holds, NEW w \in Workers, NEW d \in Docs, NEW field, <<d, field>> \in Owed(w)
  PROVE  On(w, d)
<1>1. HoldsOf(w)
  BY DEF Holds
<1>2. CASE req[w].step = "logStatus" \/ req[w].step = "logAssign"
  BY <1>1, <1>2 DEF Owed, On, Busy, HoldsOf
<1>3. CASE req[w].step = "logMarks"
  BY <1>3 DEF Owed, On, Busy
<1>4. CASE req[w].step \notin {"logStatus", "logAssign", "logMarks"}
  BY <1>4 DEF Owed
<1>5. QED
  BY <1>2, <1>3, <1>4

\* A worker that is not on a document has no entry of it in hand, whatever becomes of it.
LEMMA OffDocument ==
  ASSUME Holds, NEW w \in Workers, NEW d \in Docs, ~On(w, d), req'[w] = req[w]
  PROVE  /\ StatusFits(w, d)' /\ \A first : UserFits(w, d, first)'
         /\ \A field : <<d, field>> \notin Owed(w)
<1>1. HoldsOf(w)
  BY DEF Holds
<1>2. req[w].step \in {"logStatus", "logAssign"} => req[w].doc # d
  BY <1>1 DEF On, Busy, HoldsOf
<1>3. req[w].step = "logMarks" => \A f \in req[w].found : f[1] # d
  BY DEF On, Busy
<1>4. StatusFits(w, d)' /\ \A first : UserFits(w, d, first)'
  BY <1>2, <1>3 DEF StatusFits, UserFits
<1>5. QED
  BY <1>4, OwesIsOn

\* A document is one handler's at a time.
LEMMA Alone ==
  ASSUME Separate, NEW w \in Workers, NEW d \in Docs, On(w, d)
  PROVE  \A v \in Workers \ {w} : ~On(v, d)
BY DEF Separate, On

\* What a document and the one handler on it, if any, say of its trails.
Settled(w, d) ==
    /\ RowFits(d)
    /\ Live(d) =>
         /\ \/ <<d, "status">> \in unrecorded
            \/ /\ Joined(history[d].status, NoStatus)
               /\ <<d, "status">> \in Owed(w) \/ Last(history[d].status, NoStatus) = rows[d].status
               /\ StatusFits(w, d)
         /\ \/ <<d, "responsible">> \in unrecorded
            \/ \E first :
                  /\ Joined(history[d].responsible, first)
                  /\ \/ <<d, "responsible">> \in Owed(w)
                     \/ Last(history[d].responsible, first) = rows[d].responsible
                  /\ UserFits(w, d, first)

LEMMA SettledBefore ==
  ASSUME Agrees, NEW w \in Workers, NEW d \in Docs, \A v \in Workers \ {w} : ~On(v, d)
  PROVE  Settled(w, d)
<1>1. \A v \in Workers \ {w} : \A field : <<d, field>> \notin Owed(v)
  BY OwesIsOn DEF Agrees
<1>2. \A field : Owes(field, d) => <<d, field>> \in Owed(w)
  BY <1>1 DEF Owes
<1>3. RowFits(d) /\ (Live(d) => StatusReplays(d) /\ UserReplays(d))
  BY DEF Agrees
<1>4. Live(d) => \/ <<d, "status">> \in unrecorded
                 \/ /\ Joined(history[d].status, NoStatus)
                    /\ <<d, "status">> \in Owed(w) \/ Last(history[d].status, NoStatus) = rows[d].status
                    /\ StatusFits(w, d)
  BY <1>2, <1>3 DEF StatusReplays
<1>5. Live(d) => \/ <<d, "responsible">> \in unrecorded
                 \/ \E first :
                       /\ Joined(history[d].responsible, first)
                       /\ \/ <<d, "responsible">> \in Owed(w)
                          \/ Last(history[d].responsible, first) = rows[d].responsible
                       /\ UserFits(w, d, first)
  BY <1>2, <1>3 DEF UserReplays
<1>6. QED
  BY <1>3, <1>4, <1>5 DEF Settled

\* A step of one worker keeps the agreement if it settles the documents the worker
\* is alone on and leaves the others to the others.
LEMMA Rejoin ==
  ASSUME TypeOK, Agrees, NEW w \in Workers, \A v \in Workers \ {w} : req'[v] = req[v],
         HoldsOf(w)',
         \A v \in Workers \ {w} : Busy(v) /\ Busy(w)' =>
             req[v].doc # req'[w].doc /\ req[v].found = {} /\ req'[w].found = {},
         \A d \in Docs :
            \/ Settled(w, d)' /\ \A v \in Workers \ {w} : ~On(v, d)
            \/ /\ rows'[d] = rows[d] /\ history'[d] = history[d]
               /\ \A field : <<d, field>> \in unrecorded => <<d, field>> \in unrecorded'
               /\ ~On(w, d) /\ \A field : <<d, field>> \notin Owed(w)'
               /\ StatusFits(w, d)' /\ \A first : UserFits(w, d, first)'
  PROVE  Agrees'
<1>1. Separate'
  <2>1. \A v \in Workers \ {w} : Busy(v)' <=> Busy(v)
    BY DEF Busy
  <2>2. QED
    BY <2>1 DEF Agrees, Separate
<1>2. Holds'
  <2> SUFFICES ASSUME NEW v \in Workers \ {w} PROVE HoldsOf(v)'
    BY DEF Holds
  <2>1. HoldsOf(v) /\ req'[v] = req[v] /\ req[v].doc \in Docs
        /\ \A f \in req[v].found : f[1] \in Docs
    BY DEF Agrees, Holds, TypeOK, Request
  <2>2. CASE req[v].step = "idle"
    BY <2>1, <2>2 DEF HoldsOf
  <2>3. CASE req[v].step \in {"mark", "logMarks"}
    <3>1. \A f \in req[v].found : On(v, f[1])
      BY <2>3 DEF On, Busy
    <3>2. \A f \in req[v].found : rows'[f[1]] = rows[f[1]]
      BY <2>1, <3>1
    <3>3. QED
      BY <2>1, <2>3, <3>2 DEF HoldsOf
  <2>4. CASE req[v].step \notin {"idle", "mark", "logMarks"}
    <3>1. On(v, req[v].doc)
      BY <2>1, <2>4 DEF On, Busy, HoldsOf
    <3>2. rows'[req[v].doc] = rows[req[v].doc]
      BY <2>1, <3>1
    <3>3. QED
      BY <2>1, <2>4, <3>2 DEF HoldsOf, Live
  <2>5. QED
    BY <2>2, <2>3, <2>4
<1>3. ASSUME NEW d \in Docs
      PROVE  RowFits(d)' /\ (Live(d)' => StatusReplays(d)' /\ UserReplays(d)')
  <2>1. \A field : <<d, field>> \in Owed(w)' => Owes(field, d)'
    BY DEF Owes
  <2>2. CASE Settled(w, d)' /\ \A v \in Workers \ {w} : ~On(v, d)
    <3>1. \A v \in Workers \ {w} : StatusFits(v, d)' /\ \A first : UserFits(v, d, first)'
      BY <2>2, OffDocument DEF Agrees
    <3>2. Live(d)' => StatusReplays(d)'
      BY <2>1, <2>2, <3>1 DEF Settled, StatusReplays
    <3>3. Live(d)' => UserReplays(d)'
      BY <2>1, <2>2, <3>1 DEF Settled, UserReplays
    <3>4. QED
      BY <2>2, <3>2, <3>3 DEF Settled
  <2>3. CASE /\ rows'[d] = rows[d] /\ history'[d] = history[d]
             /\ \A field : <<d, field>> \in unrecorded => <<d, field>> \in unrecorded'
             /\ ~On(w, d) /\ \A field : <<d, field>> \notin Owed(w)'
             /\ StatusFits(w, d)' /\ \A first : UserFits(w, d, first)'
    <3>1. \A v \in Workers \ {w} : /\ Owed(v)' = Owed(v) /\ (StatusFits(v, d) => StatusFits(v, d)')
                                   /\ \A first : UserFits(v, d, first) => UserFits(v, d, first)'
      BY <2>3 DEF Owed, StatusFits, UserFits
    <3>2. \A field : <<d, field>> \notin Owed(w)
      BY <2>3, OwesIsOn DEF Agrees
    <3>3. \A field : Owes(field, d) => Owes(field, d)'
      BY <3>1, <3>2 DEF Owes
    <3>4. RowFits(d)' /\ (Live(d)' => Live(d))
      BY <2>3 DEF Agrees, RowFits, Live
    <3>5. StatusReplays(d) => StatusReplays(d)'
      BY <2>3, <3>1, <3>3 DEF StatusReplays
    <3>6. UserReplays(d) => UserReplays(d)'
      BY <2>3, <3>1, <3>3 DEF UserReplays
    <3>7. QED
      BY <3>4, <3>5, <3>6 DEF Agrees
  <2>4. QED
    BY <2>2, <2>3
<1>4. QED
  BY <1>1, <1>2, <1>3 DEF Agrees

\* A step of the only handler on one document, about nothing else.
LEMMA OneRow ==
  ASSUME TypeOK, Agrees, NEW w \in Workers, NEW d \in Docs,
         \A v \in Workers \ {w} : req'[v] = req[v] /\ (Busy(v) => req[v].doc # d /\ req[v].found = {}),
         ~Busy(w) \/ (req[w].doc = d /\ req[w].found = {}),
         req'[w].found = {}, req'[w].step \notin {"mark", "logMarks"},
         req'[w].step = "idle" \/ req'[w].doc = d,
         \A e \in Docs \ {d} :
            /\ rows'[e] = rows[e] /\ history'[e] = history[e]
            /\ \A field : <<e, field>> \in unrecorded => <<e, field>> \in unrecorded',
         HoldsOf(w)', Settled(w, d)'
  PROVE  Agrees'
<1>1. \A v \in Workers \ {w} : ~On(v, d)
  BY DEF On
<1>2. ASSUME NEW e \in Docs \ {d}
      PROVE  /\ ~On(w, e) /\ \A field : <<e, field>> \notin Owed(w)'
             /\ StatusFits(w, e)' /\ \A first : UserFits(w, e, first)'
  <2>1. ~On(w, e)
    BY DEF On
  <2>2. req'[w].step \in {"logStatus", "logAssign"} => req'[w].doc # e
    OBVIOUS
  <2>3. \A field : <<e, field>> \notin Owed(w)'
    BY <2>2 DEF Owed
  <2>4. StatusFits(w, e)' /\ \A first : UserFits(w, e, first)'
    BY <2>2 DEF StatusFits, UserFits
  <2>5. QED
    BY <2>1, <2>3, <2>4
<1>3. ASSUME NEW v \in Workers \ {w}, Busy(v), Busy(w)'
      PROVE  req[v].doc # req'[w].doc /\ req[v].found = {} /\ req'[w].found = {}
  BY <1>3 DEF Busy
<1>4. QED
  BY <1>1, <1>2, <1>3, Rejoin

\* What the request of a typed state is made of, and where a statement's handler stands.
LEMMA RequestTyping ==
  ASSUME NEW w \in Workers, TypeOK
  PROVE  /\ req[w] \in Request
         /\ req[w].step \in Steps /\ req[w].doc \in Docs
         /\ req[w].old \in Row /\ req[w].new \in Row
         /\ req[w].found \in SUBSET (Docs \X Statuses)
         /\ rows[req[w].doc] \in Row /\ history[req[w].doc] \in Trail
BY DEF TypeOK, Request

LEMMA AtStatement ==
  ASSUME TypeOK, Agrees, NEW w \in Workers, req[w].step \notin {"idle", "mark", "logMarks"}
  PROVE  /\ HoldsOf(w) /\ req[w].found = {} /\ Live(req[w].doc) /\ Settled(w, req[w].doc)
         /\ \A v \in Workers \ {w} : Busy(v) => req[v].doc # req[w].doc /\ req[v].found = {}
<1>1. HoldsOf(w) /\ Busy(w)
  BY DEF Agrees, Holds, Busy
<1>2. req[w].found = {} /\ Live(req[w].doc)
  BY <1>1 DEF HoldsOf
<1>3. On(w, req[w].doc) /\ req[w].doc \in Docs
  BY <1>1, <1>2, RequestTyping DEF On
<1>4. Settled(w, req[w].doc)
  BY <1>3, Alone, SettledBefore DEF Agrees
<1>5. QED
  BY <1>1, <1>2, <1>4 DEF Agrees, Separate

\* A handler that begins has read the row as it is and is alone on it.
LEMMA BeginAgrees ==
  ASSUME Exclusive, TypeOK, Agrees, NEW w \in Workers, NEW d \in Docs, Admit(w, d), Live(d),
         NEW step \in {"edit", "delete", "assign", "status"}, NEW old, NEW new,
         Begin(w, d, step, old, new),
         step = "edit" => (rows[d].isOverdue => new.deadline # NoTime),
         step = "delete" => rows[d].status = "draft",
         step \in {"assign", "status"} => old.status = rows[d].status,
         step = "assign" => /\ old.status = "draft" => new.status = "assigned"
                            /\ old.responsible = rows[d].responsible,
         step = "status" => CanTransition(old.status, new.status)
  PROVE  Agrees'
<1>1. /\ req'[w].step = step /\ req'[w].doc = d /\ req'[w].old = old /\ req'[w].new = new
      /\ req'[w].found = {}
      /\ \A v \in Workers \ {w} : req'[v] = req[v]
      /\ UNCHANGED <<rows, history, unrecorded>>
  BY DEF Begin, TypeOK
<1>2. ~Busy(w) /\ \A v \in Workers : Busy(v) => req[v].doc # d /\ req[v].found = {}
  BY DEF Admit
<1>3. HoldsOf(w)'
  BY <1>1 DEF HoldsOf, Live
<1>4. Settled(w, d)
  BY <1>2, SettledBefore DEF On
<1>5. \A field : <<d, field>> \notin Owed(w)
  BY <1>2 DEF Owed, Busy
<1>6. StatusFits(w, d)' /\ \A first : UserFits(w, d, first)'
  BY <1>1 DEF StatusFits, UserFits
<1>7. Settled(w, d)'
  <2>1. RowFits(d)' /\ (Live(d)' <=> Live(d))
    BY <1>1, <1>4 DEF RowFits, Settled, Live
  <2>2. QED
    BY <1>1, <1>4, <1>5, <1>6, <2>1 DEF Settled
<1>8. QED
  BY <1>1, <1>2, <1>3, <1>7, OneRow

\* The handlers up to their first write.
LEMMA ReadAgrees ==
  ASSUME Exclusive, TypeOK, Agrees, NEW w \in Workers, NEW d \in Docs,
         \/ UpdateDocument(w, d) \/ DeleteDocument(w, d) \/ AssignResponsible(w, d)
         \/ ChangeStatus(w, d) \/ ArchiveDocument(w, d)
  PROVE  Agrees'
<1>1. rows[d] \in Row /\ rows[d].status \in RowStates /\ RowFits(d)
  BY DEF TypeOK, Row, Agrees
<1>2. \A s \in RowStates : Blank(s) \in Row /\ Blank(s).status = s
  BY BlankIsRow DEF Blank
<1>3. CASE UpdateDocument(w, d)
  <2>1. PICK t \in Titles, deadline \in Times \cup {rows[d].deadline} :
          Begin(w, d, "edit", Blank("unused"), [Blank("unused") EXCEPT !.title = t, !.deadline = deadline])
    BY <1>3 DEF UpdateDocument
  <2>2. [Blank("unused") EXCEPT !.title = t, !.deadline = deadline].deadline = deadline
    BY DEF Blank
  <2>3. rows[d].isOverdue => deadline # NoTime
    BY <1>1, ConstantsOK DEF RowFits
  <2>4. QED
    BY <1>3, <2>1, <2>2, <2>3, BeginAgrees DEF UpdateDocument
<1>4. CASE DeleteDocument(w, d)
  BY <1>4, BeginAgrees DEF DeleteDocument
<1>5. CASE AssignResponsible(w, d)
  <2>1. PICK u \in Users :
          Begin(w, d, "assign", [Blank(rows[d].status) EXCEPT !.responsible = rows[d].responsible],
                [Blank("assigned") EXCEPT !.responsible = u])
    BY <1>5 DEF AssignResponsible
  <2>2. /\ [Blank(rows[d].status) EXCEPT !.responsible = rows[d].responsible].status = rows[d].status
        /\ [Blank(rows[d].status) EXCEPT !.responsible = rows[d].responsible].responsible =
              rows[d].responsible
        /\ [Blank("assigned") EXCEPT !.responsible = u].status = "assigned"
    BY DEF Blank
  <2>3. QED
    BY <1>5, <2>1, <2>2, BeginAgrees DEF AssignResponsible
<1>6. CASE ChangeStatus(w, d)
  <2>1. PICK to \in Statuses : /\ CanTransition(rows[d].status, to)
                               /\ Begin(w, d, "status", Blank(rows[d].status), Blank(to))
    BY <1>6 DEF ChangeStatus
  <2>2. Blank(rows[d].status).status = rows[d].status /\ Blank(to).status = to
    BY DEF Blank
  <2>3. QED
    BY <1>6, <2>1, <2>2, BeginAgrees DEF ChangeStatus
<1>7. CASE ArchiveDocument(w, d)
  <2>1. Blank(rows[d].status).status = rows[d].status /\ Blank("archived").status = "archived"
    BY DEF Blank
  <2>2. QED
    BY <1>7, <2>1, BeginAgrees DEF ArchiveDocument
<1>8. QED
  BY <1>3, <1>4, <1>5, <1>6, <1>7

\* A creation leaves the first entry due and the responsible user it named.
LEMMA CreateAgrees ==
  ASSUME Exclusive, TypeOK, Agrees, NEW w \in Workers, NEW d \in Docs, CreateDocument(w, d)
  PROVE  Agrees'
<1>1. PICK t \in Titles, u \in Users \cup {NoUser}, deadline \in Times \cup {NoTime} :
         /\ rows' = [rows EXCEPT ![d] = [Blank("draft") EXCEPT !.title = t, !.responsible = u,
                                                              !.deadline = deadline]]
         /\ req' = [req EXCEPT ![w] = [step |-> "logStatus", doc |-> d, old |-> Blank("unused"),
                                       new |-> Blank("draft"), found |-> {}]]
  BY DEF CreateDocument
<1>2. rows[d].status = "unused" /\ UNCHANGED <<history, unrecorded>>
  BY DEF CreateDocument
<1>3. /\ rows'[d].status = "draft" /\ rows'[d].responsible = u
      /\ ~rows'[d].isOverdue /\ ~rows'[d].archivedAt
      /\ \A e \in Docs \ {d} : rows'[e] = rows[e]
  BY <1>1 DEF Blank, TypeOK
<1>4. /\ req'[w].step = "logStatus" /\ req'[w].doc = d /\ req'[w].found = {}
      /\ req'[w].old.status = "unused" /\ req'[w].new.status = "draft"
      /\ \A v \in Workers \ {w} : req'[v] = req[v]
  BY <1>1 DEF TypeOK, Blank
<1>5. ~Busy(w) /\ \A v \in Workers : Busy(v) => req[v].doc # d /\ req[v].found = {}
  BY DEF CreateDocument, Admit
<1>6. HoldsOf(w)'
  BY <1>3, <1>4 DEF HoldsOf, Live, Statuses
<1>7. history'[d] = NoTrail
  BY <1>2 DEF Agrees, RowFits
<1>8. /\ Joined(history'[d].status, NoStatus) /\ Last(history'[d].status, NoStatus) = NoStatus
      /\ Joined(history'[d].responsible, u) /\ Last(history'[d].responsible, u) = u
  BY <1>7 DEF NoTrail, Joined, Last
<1>9. StatusFits(w, d)' /\ UserFits(w, d, u)'
  <2>1. RecordedAs("unused") = NoStatus
    BY DEF RecordedAs, NoStatus
  <2>2. QED
    BY <1>4, <1>8, <2>1 DEF StatusFits, UserFits
<1>10. <<d, "status">> \in Owed(w)'
  BY <1>4 DEF Owed
<1>11. Settled(w, d)'
  BY <1>3, <1>7, <1>8, <1>9, <1>10 DEF Settled, RowFits
<1>12. QED
  BY <1>2, <1>3, <1>4, <1>5, <1>6, <1>11, OneRow

\* A statement of a handler about the one document it is on.
LEMMA StatementAgrees ==
  ASSUME TypeOK, Agrees, NEW w \in Workers, NEW d \in Docs, req[w].doc = d,
         req[w].step \notin {"idle", "mark", "logMarks"},
         \A v \in Workers \ {w} : req'[v] = req[v],
         req'[w].found = {}, req'[w].step \notin {"mark", "logMarks"},
         req'[w].step = "idle" \/ req'[w].doc = d,
         \A e \in Docs \ {d} :
            /\ rows'[e] = rows[e] /\ history'[e] = history[e]
            /\ \A field : <<e, field>> \in unrecorded => <<e, field>> \in unrecorded',
         HoldsOf(w)', Settled(w, d)'
  PROVE  Agrees'
BY AtStatement, OneRow

\* A request that is over, or went one step on.
LEMMA Finished ==
  ASSUME TypeOK, NEW w \in Workers, Finish(w)
  PROVE  /\ req'[w].step = "idle" /\ req'[w].found = {} /\ HoldsOf(w)' /\ Owed(w)' = {}
         /\ \A v \in Workers \ {w} : req'[v] = req[v]
         /\ \A d \in Docs : StatusFits(w, d)' /\ \A first : UserFits(w, d, first)'
<1>1. req'[w] = Idle /\ \A v \in Workers \ {w} : req'[v] = req[v]
  BY DEF Finish, TypeOK
<1>2. req'[w].step = "idle" /\ req'[w].found = {}
  BY <1>1 DEF Idle
<1>3. HoldsOf(w)' /\ Owed(w)' = {}
  BY <1>2 DEF HoldsOf, Owed
<1>4. \A d \in Docs : StatusFits(w, d)' /\ \A first : UserFits(w, d, first)'
  BY <1>2 DEF StatusFits, UserFits
<1>5. QED
  BY <1>1, <1>2, <1>3, <1>4

LEMMA Proceeded ==
  ASSUME TypeOK, NEW w \in Workers, NEW step, Proceed(w, step)
  PROVE  /\ req'[w].step = step /\ req'[w].doc = req[w].doc /\ req'[w].found = req[w].found
         /\ req'[w].old = req[w].old /\ req'[w].new = req[w].new
         /\ \A v \in Workers \ {w} : req'[v] = req[v]
BY DEF Proceed, TypeOK, Request

\* Nothing of a document's trails changes and no entry of it is due.
LEMMA StillSettled ==
  ASSUME NEW w \in Workers, NEW d \in Docs, Settled(w, d), RowFits(d)',
         rows'[d].status = rows[d].status, rows'[d].responsible = rows[d].responsible,
         history'[d] = history[d],
         \A field : <<d, field>> \in unrecorded \cup Owed(w) => <<d, field>> \in unrecorded',
         StatusFits(w, d)', \A first : UserFits(w, d, first)'
  PROVE  Settled(w, d)'
<1>1. Live(d)' <=> Live(d)
  BY DEF Live
<1>2. QED
  BY <1>1 DEF Settled

LEMMA EditAgrees ==
  ASSUME TypeOK, Agrees, NEW w \in Workers, WriteEdit(w) \/ LogEdit(w)
  PROVE  Agrees'
<1>1. PICK d \in Docs : req[w].doc = d
  BY RequestTyping
<1>2. req[w].step \in {"edit", "logEdit"} /\ UNCHANGED <<history, unrecorded>>
  BY DEF WriteEdit, LogEdit, Vanished
<1>3. HoldsOf(w) /\ req[w].found = {} /\ Live(d) /\ Settled(w, d) /\ Owed(w) = {}
  BY <1>1, <1>2, AtStatement DEF Owed
<1>4. CASE WriteEdit(w)
  <2>1. /\ rows' = [rows EXCEPT ![d] = [@ EXCEPT !.title = req[w].new.title,
                                                 !.deadline = req[w].new.deadline]]
        /\ Proceed(w, "logEdit") /\ req[w].step = "edit"
    BY <1>1, <1>3, <1>4 DEF WriteEdit, Vanished
  <2>2. rows[d] \in Row /\ rows'[d] = [rows[d] EXCEPT !.title = req[w].new.title,
                                                      !.deadline = req[w].new.deadline]
        /\ \A e \in Docs \ {d} : rows'[e] = rows[e]
    BY <2>1 DEF TypeOK
  <2>3. /\ rows'[d].status = rows[d].status /\ rows'[d].responsible = rows[d].responsible
        /\ rows'[d].isOverdue = rows[d].isOverdue /\ rows'[d].archivedAt = rows[d].archivedAt
        /\ rows'[d].deadline = req[w].new.deadline
    BY <2>2 DEF Row
  <2>4. rows[d].isOverdue => req[w].new.deadline # NoTime
    BY <1>1, <1>3, <2>1 DEF HoldsOf
  <2>5. RowFits(d)'
    BY <1>2, <1>3, <2>3, <2>4 DEF RowFits, Settled
  <2>6. /\ req'[w].step = "logEdit" /\ req'[w].doc = d /\ req'[w].found = {}
        /\ \A v \in Workers \ {w} : req'[v] = req[v]
    BY <1>1, <1>3, <2>1, Proceeded
  <2>7. HoldsOf(w)'
    BY <1>3, <2>3, <2>6 DEF HoldsOf, Live
  <2>8. StatusFits(w, d)' /\ \A first : UserFits(w, d, first)'
    BY <2>6 DEF StatusFits, UserFits
  <2>9. Settled(w, d)'
    BY <1>2, <1>3, <2>3, <2>5, <2>8, StillSettled
  <2>10. QED
    BY <1>1, <1>2, <2>1, <2>2, <2>6, <2>7, <2>9, StatementAgrees
<1>5. CASE LogEdit(w)
  <2>1. Finish(w) /\ UNCHANGED rows
    BY <1>5 DEF LogEdit
  <2>2. RowFits(d)'
    BY <1>2, <1>3, <2>1 DEF RowFits, Settled
  <2>3. Settled(w, d)'
    BY <1>2, <1>3, <2>1, <2>2, Finished, StillSettled
  <2>4. QED
    BY <1>1, <1>2, <2>1, <2>3, Finished, StatementAgrees
<1>6. QED
  BY <1>4, <1>5

\* The first two statements of an assignment: the row then differs from its trail by
\* the entry that is due, and the entry brings them together.
LEMMA AssignAgrees ==
  ASSUME TypeOK, Agrees, NEW w \in Workers, WriteResponsible(w)
  PROVE  Agrees'
<1>1. PICK d \in Docs : req[w].doc = d
  BY RequestTyping
<1>2. req[w].step = "assign" /\ UNCHANGED <<history, unrecorded>>
  BY DEF WriteResponsible, Vanished
<1>3. HoldsOf(w) /\ req[w].found = {} /\ Live(d) /\ Settled(w, d) /\ Owed(w) = {}
  BY <1>1, <1>2, AtStatement DEF Owed
<1>4. /\ rows' = [rows EXCEPT ![d] = [@ EXCEPT !.responsible = req[w].new.responsible]]
      /\ Proceed(w, "logAssign")
  BY <1>1, <1>3 DEF WriteResponsible, Vanished
<1>5. rows[d] \in Row /\ rows'[d] = [rows[d] EXCEPT !.responsible = req[w].new.responsible]
      /\ \A e \in Docs \ {d} : rows'[e] = rows[e]
  BY <1>4 DEF TypeOK
<1>6. /\ rows'[d].status = rows[d].status /\ rows'[d].deadline = rows[d].deadline
      /\ rows'[d].isOverdue = rows[d].isOverdue /\ rows'[d].archivedAt = rows[d].archivedAt
      /\ rows'[d].responsible = req[w].new.responsible
  BY <1>5 DEF Row
<1>7. /\ req'[w].step = "logAssign" /\ req'[w].doc = d /\ req'[w].found = {}
      /\ req'[w].old = req[w].old /\ req'[w].new = req[w].new
      /\ \A v \in Workers \ {w} : req'[v] = req[v]
  BY <1>1, <1>3, <1>4, Proceeded
<1>8. HoldsOf(w)'
  BY <1>1, <1>2, <1>3, <1>6, <1>7 DEF HoldsOf, Live
<1>9. <<d, "responsible">> \in Owed(w)'
  BY <1>7 DEF Owed
<1>10. StatusFits(w, d)'
  BY <1>7 DEF StatusFits
<1>11. \A first : Last(history[d].responsible, first) = rows[d].responsible => UserFits(w, d, first)'
  BY <1>1, <1>2, <1>3, <1>7 DEF UserFits, HoldsOf
<1>12. RowFits(d)' /\ (Live(d)' <=> Live(d))
  BY <1>2, <1>3, <1>6 DEF RowFits, Settled, Live
<1>13. Settled(w, d)'
  BY <1>2, <1>3, <1>6, <1>9, <1>10, <1>11, <1>12 DEF Settled
<1>14. QED
  BY <1>1, <1>2, <1>5, <1>7, <1>8, <1>13, StatementAgrees

LEMMA LogAssignAgrees ==
  ASSUME TypeOK, Agrees, NEW w \in Workers, LogResponsible(w)
  PROVE  Agrees'
<1> DEFINE entry == [old |-> req[w].old.responsible, new |-> req[w].new.responsible]
<1>1. PICK d \in Docs : req[w].doc = d
  BY RequestTyping
<1>2. req[w].step = "logAssign" /\ UNCHANGED <<rows, unrecorded>>
  BY DEF LogResponsible, Vanished
<1>3. HoldsOf(w) /\ req[w].found = {} /\ Live(d) /\ Settled(w, d)
  BY <1>1, <1>2, AtStatement
<1>4. /\ history' = [history EXCEPT ![d].responsible = Append(@, entry)]
      /\ IF req[w].old.status = "draft" THEN Proceed(w, "status") ELSE Finish(w)
  BY <1>1, <1>3 DEF LogResponsible, Vanished
<1>5. history[d] \in Trail /\ entry \in ResponsibleEntry
  BY RequestTyping DEF ResponsibleEntry, Row, TypeOK
<1>6. /\ history'[d].status = history[d].status
      /\ history'[d].responsible = Append(history[d].responsible, entry)
      /\ \A e \in Docs \ {d} : history'[e] = history[e]
  BY <1>4, <1>5 DEF TypeOK, Trail
<1>7. Longer(history[d].responsible, entry, history'[d].responsible)
  BY <1>5, <1>6, AppendIsLonger DEF Trail
<1>8. entry.old = req[w].old.responsible /\ entry.new = rows[d].responsible
  BY <1>1, <1>2, <1>3 DEF HoldsOf
<1> HIDE DEF entry
<1>9. \A first : Joined(history[d].responsible, first)
                   /\ Last(history[d].responsible, first) = req[w].old.responsible
                 => /\ Joined(history'[d].responsible, first)
                    /\ Last(history'[d].responsible, first) = rows[d].responsible
  BY <1>7, <1>8, Appended
<1>10. \/ <<d, "status">> \in unrecorded
       \/ /\ Joined(history[d].status, NoStatus)
          /\ Last(history[d].status, NoStatus) = rows[d].status
  BY <1>2, <1>3 DEF Settled, Owed
<1>11. \/ <<d, "responsible">> \in unrecorded
       \/ \E first : /\ Joined(history[d].responsible, first)
                     /\ Last(history[d].responsible, first) = req[w].old.responsible
  BY <1>1, <1>2, <1>3 DEF Settled, UserFits
<1>12. /\ req'[w].found = {} /\ req'[w].step \in {"idle", "status"}
       /\ req'[w].step = "idle" \/ req'[w].doc = d
       /\ \A v \in Workers \ {w} : req'[v] = req[v]
       /\ HoldsOf(w)'
  <2>1. CASE req[w].old.status = "draft"
    <3>1. Proceed(w, "status")
      BY <1>4, <2>1
    <3>2. /\ req'[w].step = "status" /\ req'[w].doc = d /\ req'[w].found = {}
          /\ req'[w].old = req[w].old /\ req'[w].new = req[w].new
          /\ \A v \in Workers \ {w} : req'[v] = req[v]
      BY <1>1, <1>3, <3>1, Proceeded
    <3>3. CanTransition(req[w].old.status, req[w].new.status)
      BY <1>2, <1>3, <2>1 DEF HoldsOf, CanTransition, AllowedTransitions
    <3>4. HoldsOf(w)'
      BY <1>1, <1>2, <1>3, <3>2, <3>3 DEF HoldsOf, Live
    <3>5. QED
      BY <3>2, <3>4
  <2>2. CASE req[w].old.status # "draft"
    BY <1>4, <2>2, Finished
  <2>3. QED
    BY <2>1, <2>2
<1>13. StatusFits(w, d)' /\ \A first : UserFits(w, d, first)'
  BY <1>12 DEF StatusFits, UserFits
<1>14. RowFits(d)' /\ (Live(d)' <=> Live(d))
  BY <1>2, <1>3 DEF RowFits, Settled, Live, Statuses
<1>15. Settled(w, d)'
  BY <1>2, <1>6, <1>9, <1>10, <1>11, <1>13, <1>14 DEF Settled
<1>16. QED
  BY <1>1, <1>2, <1>6, <1>12, <1>15, StatementAgrees

\* The same two statements for the status.
LEMMA MoveAgrees ==
  ASSUME TypeOK, Agrees, NEW w \in Workers, WriteStatus(w)
  PROVE  Agrees'
<1>1. PICK d \in Docs : req[w].doc = d
  BY RequestTyping
<1>2. req[w].step = "status" /\ UNCHANGED <<history, unrecorded>>
  BY DEF WriteStatus, Vanished
<1>3. HoldsOf(w) /\ req[w].found = {} /\ Live(d) /\ Settled(w, d) /\ Owed(w) = {}
  BY <1>1, <1>2, AtStatement DEF Owed
<1>4. rows' = [rows EXCEPT ![d] = Rewritten(@, req[w].new.status)] /\ Proceed(w, "logStatus")
  BY <1>1, <1>3 DEF WriteStatus, Vanished
<1>5. rows[d] \in Row /\ rows'[d] = Rewritten(rows[d], req[w].new.status)
      /\ \A e \in Docs \ {d} : rows'[e] = rows[e]
  BY <1>4 DEF TypeOK
<1>6. CanTransition(rows[d].status, req[w].new.status) /\ req[w].old.status = rows[d].status
  BY <1>1, <1>2, <1>3 DEF HoldsOf
<1>7. rows[d].status # "archived" /\ req[w].new.status \in Statuses
  BY <1>6 DEF CanTransition, AllowedTransitions, Statuses
<1>8. /\ rows'[d].status = req[w].new.status /\ rows'[d].deadline = rows[d].deadline
      /\ rows'[d].isOverdue = rows[d].isOverdue /\ rows'[d].responsible = rows[d].responsible
      /\ rows'[d].archivedAt => rows'[d].status = "archived" \/ rows[d].archivedAt
  BY <1>5 DEF Row, Rewritten
<1>9. /\ req'[w].step = "logStatus" /\ req'[w].doc = d /\ req'[w].found = {}
      /\ req'[w].old = req[w].old /\ req'[w].new = req[w].new
      /\ \A v \in Workers \ {w} : req'[v] = req[v]
  BY <1>1, <1>3, <1>4, Proceeded
<1>10. HoldsOf(w)'
  BY <1>7, <1>8, <1>9 DEF HoldsOf, Live
<1>11. <<d, "status">> \in Owed(w)'
  BY <1>9 DEF Owed
<1>12. Last(history[d].status, NoStatus) = rows[d].status => StatusFits(w, d)'
  <2>1. RecordedAs(rows[d].status) = rows[d].status
    BY <1>3 DEF RecordedAs, Live, Statuses
  <2>2. QED
    BY <1>2, <1>6, <1>9, <2>1 DEF StatusFits
<1>13. \A first : UserFits(w, d, first)'
  BY <1>9 DEF UserFits
<1>14. RowFits(d)'
  BY <1>3, <1>7, <1>8 DEF RowFits, Settled, Statuses
<1>15. Settled(w, d)'
  BY <1>2, <1>3, <1>8, <1>11, <1>12, <1>13, <1>14 DEF Settled
<1>16. QED
  BY <1>1, <1>2, <1>5, <1>9, <1>10, <1>15, StatementAgrees

LEMMA LogMoveAgrees ==
  ASSUME TypeOK, Agrees, NEW w \in Workers, LogStatus(w)
  PROVE  Agrees'
<1> DEFINE entry == [old |-> RecordedAs(req[w].old.status), new |-> req[w].new.status]
<1>1. PICK d \in Docs : req[w].doc = d
  BY RequestTyping
<1>2. req[w].step = "logStatus" /\ UNCHANGED <<rows, unrecorded>>
  BY DEF LogStatus, Vanished
<1>3. HoldsOf(w) /\ req[w].found = {} /\ Live(d) /\ Settled(w, d)
  BY <1>1, <1>2, AtStatement
<1>4. RecordStatus(d, entry) /\ Finish(w)
  BY <1>1, <1>3 DEF LogStatus, Vanished
<1>5. history[d] \in Trail /\ history[d].status \in Seq(StatusEntry)
  BY DEF TypeOK, Trail
<1>6. /\ history'[d].status = Append(history[d].status, entry)
      /\ history'[d].responsible = history[d].responsible
      /\ \A e \in Docs \ {d} : history'[e] = history[e]
  BY <1>4, <1>5 DEF TypeOK, Trail, RecordStatus
<1>7. entry.old = RecordedAs(req[w].old.status) /\ entry.new = rows[d].status
  BY <1>1, <1>2, <1>3 DEF HoldsOf
<1> HIDE DEF entry
<1>8. history[d].status \in Seq(StatusEntry \cup {entry})
  BY <1>5
<1>9. Longer(history[d].status, entry, history'[d].status)
  BY <1>6, <1>8, AppendIsLonger
<1>10. Joined(history[d].status, NoStatus)
         /\ Last(history[d].status, NoStatus) = RecordedAs(req[w].old.status)
       => /\ Joined(history'[d].status, NoStatus)
          /\ Last(history'[d].status, NoStatus) = rows[d].status
  BY <1>7, <1>9, Appended
<1>11. \/ <<d, "status">> \in unrecorded
       \/ /\ Joined(history[d].status, NoStatus)
          /\ Last(history[d].status, NoStatus) = RecordedAs(req[w].old.status)
  BY <1>1, <1>2, <1>3 DEF Settled, StatusFits
<1>12. <<d, "responsible">> \notin Owed(w)
  BY <1>2 DEF Owed
<1>13. RowFits(d)' /\ (Live(d)' <=> Live(d))
  BY <1>2, <1>3 DEF RowFits, Settled, Live, Statuses
<1>14. StatusFits(w, d)' /\ \A first : UserFits(w, d, first)'
  BY <1>4, Finished
<1>15. Settled(w, d)'
  BY <1>2, <1>3, <1>6, <1>10, <1>11, <1>12, <1>13, <1>14 DEF Settled
<1>16. QED
  BY <1>1, <1>2, <1>4, <1>6, <1>15, Finished, StatementAgrees

\* A deleted document has no trail and never returns.
LEMMA DeleteAgrees ==
  ASSUME TypeOK, Agrees, NEW w \in Workers, DeleteRow(w)
  PROVE  Agrees'
<1>1. PICK d \in Docs : req[w].doc = d
  BY RequestTyping
<1>2. req[w].step = "delete"
  BY DEF DeleteRow
<1>3. Live(d)
  BY <1>1, <1>2, AtStatement
<1>4. /\ rows' = [rows EXCEPT ![d] = Blank("deleted")]
      /\ history' = [history EXCEPT ![d] = NoTrail]
      /\ unrecorded' = {u \in unrecorded : u[1] # d}
      /\ Finish(w)
  BY <1>1, <1>3 DEF DeleteRow, Vanished
<1>5. \A e \in Docs \ {d} :
         /\ rows'[e] = rows[e] /\ history'[e] = history[e]
         /\ \A field : <<e, field>> \in unrecorded => <<e, field>> \in unrecorded'
  BY <1>4 DEF TypeOK
<1>6. rows'[d].status = "deleted" /\ ~rows'[d].isOverdue /\ ~rows'[d].archivedAt
  BY <1>4 DEF TypeOK, Blank
<1>7. RowFits(d)' /\ ~Live(d)'
  BY <1>6 DEF RowFits, Live, Statuses
<1>8. Settled(w, d)'
  BY <1>7 DEF Settled
<1>9. QED
  BY <1>1, <1>2, <1>4, <1>5, <1>8, Finished, StatementAgrees

\* Nothing else runs beside a sweep.
LEMMA SweepAlone ==
  ASSUME TypeOK, Agrees, NEW w \in Workers, req[w].step \in {"mark", "logMarks"}
  PROVE  /\ HoldsOf(w)
         /\ \A v \in Workers \ {w} : ~Busy(v)
         /\ \A d \in Docs : Settled(w, d)
<1>1. HoldsOf(w) /\ Busy(w) /\ req[w].found # {}
  BY DEF Agrees, Holds, Busy, HoldsOf
<1>2. \A v \in Workers \ {w} : ~Busy(v)
  BY <1>1 DEF Agrees, Separate
<1>3. \A d \in Docs : Settled(w, d)
  BY <1>2, SettledBefore DEF On
<1>4. QED
  BY <1>1, <1>2, <1>3

\* A step of the only handler there is.
LEMMA OnlyWorker ==
  ASSUME TypeOK, Agrees, NEW w \in Workers,
         \A v \in Workers \ {w} : ~Busy(v) /\ req'[v] = req[v],
         HoldsOf(w)', \A d \in Docs : Settled(w, d)'
  PROVE  Agrees'
<1>1. \A d \in Docs : \A v \in Workers \ {w} : ~On(v, d)
  BY DEF On
<1>2. QED
  BY <1>1, Rejoin

\* A failed statement leaves its entry among the lost ones.
LEMMA FailAgrees ==
  ASSUME TypeOK, Agrees, NEW w \in Workers, Fail(w)
  PROVE  Agrees'
<1>1. /\ req[w].step \notin {"idle", "logMarks"} /\ Finish(w)
      /\ unrecorded' = unrecorded \cup Owed(w) /\ UNCHANGED <<rows, history>>
  BY DEF Fail, Busy
<1>2. ASSUME NEW d \in Docs, Settled(w, d)
      PROVE  Settled(w, d)'
  <2>1. RowFits(d)'
    BY <1>1, <1>2 DEF RowFits, Settled
  <2>2. StatusFits(w, d)' /\ \A first : UserFits(w, d, first)'
    BY <1>1, Finished
  <2>3. QED
    BY <1>1, <1>2, <2>1, <2>2, StillSettled
<1>3. CASE req[w].step = "mark"
  BY <1>1, <1>2, <1>3, SweepAlone, Finished, OnlyWorker
<1>4. CASE req[w].step # "mark"
  <2>1. PICK d \in Docs : req[w].doc = d
    BY RequestTyping
  <2>2. Settled(w, d)
    BY <1>1, <1>4, <2>1, AtStatement
  <2>3. QED
    BY <1>1, <1>2, <1>4, <2>1, <2>2, Finished, StatementAgrees
<1>5. QED
  BY <1>3, <1>4

\* The sweep has selected each document once, with the status it still has.
LEMMA SelectAgrees ==
  ASSUME Exclusive, TypeOK, Agrees, NEW w \in Workers, MarkOverdue(w)
  PROVE  Agrees'
<1> DEFINE found == {<<d, rows[d].status>> : d \in {e \in Docs : Overdue(e)}}
<1>1. /\ req'[w].step = "mark" /\ req'[w].found = found
      /\ \A v \in Workers \ {w} : ~Busy(v) /\ req'[v] = req[v]
      /\ ~Busy(w) /\ UNCHANGED <<rows, history, unrecorded>>
  BY DEF MarkOverdue, TypeOK, Request
<1>2. found # {}
  BY DEF MarkOverdue
<1>3. \A f \in found : /\ rows[f[1]].status = f[2] /\ f[2] \in Sweepable
                       /\ rows[f[1]].deadline # NoTime
  BY DEF Overdue
<1>4. \A f, g \in found : f[1] = g[1] => f = g
  OBVIOUS
<1> HIDE DEF found
<1>5. HoldsOf(w)'
  BY <1>1, <1>2, <1>3, <1>4 DEF HoldsOf
<1>6. ASSUME NEW d \in Docs
      PROVE  Settled(w, d)'
  <2>1. Settled(w, d) /\ Owed(w) = {}
    BY <1>1, SettledBefore DEF On, Owed, Busy
  <2>2. RowFits(d)'
    BY <1>1, <2>1 DEF RowFits, Settled
  <2>3. StatusFits(w, d)' /\ \A first : UserFits(w, d, first)'
    BY <1>1 DEF StatusFits, UserFits
  <2>4. QED
    BY <1>1, <2>1, <2>2, <2>3, StillSettled
<1>7. QED
  BY <1>1, <1>5, <1>6, OnlyWorker

LEMMA MarkAgrees ==
  ASSUME TypeOK, Agrees, NEW w \in Workers, MarkRows(w)
  PROVE  Agrees'
<1>1. /\ req[w].step = "mark" /\ Proceed(w, "logMarks") /\ UNCHANGED <<history, unrecorded>>
      /\ rows' = [d \in Docs |-> IF Live(d) /\ \E f \in req[w].found : f[1] = d
                                 THEN [rows[d] EXCEPT !.status = "overdue", !.isOverdue = TRUE]
                                 ELSE rows[d]]
  BY DEF MarkRows
<1>2. HoldsOf(w) /\ \A v \in Workers \ {w} : ~Busy(v)
  BY <1>1, SweepAlone
<1>3. /\ req'[w].step = "logMarks" /\ req'[w].found = req[w].found
      /\ \A v \in Workers \ {w} : req'[v] = req[v]
  BY <1>1, Proceeded
<1>4. \A f \in req[w].found : /\ f[1] \in Docs /\ rows[f[1]].status = f[2] /\ f[2] \in Sweepable
                              /\ rows[f[1]].deadline # NoTime /\ Live(f[1])
  BY <1>1, <1>2, RequestTyping DEF HoldsOf, Live, Sweepable
<1>5. \A f \in req[w].found : rows'[f[1]] = [rows[f[1]] EXCEPT !.status = "overdue", !.isOverdue = TRUE]
  BY <1>1, <1>4
<1>6. \A d \in Docs : rows[d] \in Row
  BY DEF TypeOK
<1>7. \A f \in req[w].found :
         /\ rows'[f[1]].status = "overdue" /\ rows'[f[1]].deadline = rows[f[1]].deadline
         /\ rows'[f[1]].responsible = rows[f[1]].responsible
         /\ rows'[f[1]].archivedAt = rows[f[1]].archivedAt
  BY <1>4, <1>5, <1>6 DEF Row
<1>8. HoldsOf(w)'
  BY <1>1, <1>2, <1>3, <1>7 DEF HoldsOf
<1>9. \A d \in Docs : Owed(w) = {} /\ \A first : UserFits(w, d, first)'
  BY <1>1, <1>3 DEF Owed, UserFits
<1>10. ASSUME NEW d \in Docs, NEW f \in req[w].found, f[1] = d
       PROVE  Settled(w, d)'
  <2>1. Settled(w, d) /\ Live(d) /\ rows[d].status = f[2] /\ \A g \in req[w].found : g[1] = d => g = f
    BY <1>1, <1>2, <1>4, <1>10, SweepAlone DEF HoldsOf
  <2>2. RowFits(d)'
    BY <1>4, <1>7, <1>10, <2>1 DEF RowFits, Settled, Sweepable
  <2>3. <<d, "status">> \in Owed(w)'
    BY <1>3, <1>10 DEF Owed
  <2>4. Last(history[d].status, NoStatus) = rows[d].status => StatusFits(w, d)'
    BY <1>1, <1>3, <2>1 DEF StatusFits
  <2>5. rows'[d].responsible = rows[d].responsible
    BY <1>7, <1>10
  <2>6. QED
    BY <1>1, <1>9, <2>1, <2>2, <2>3, <2>4, <2>5 DEF Settled
<1>11. ASSUME NEW d \in Docs, \A f \in req[w].found : f[1] # d
       PROVE  Settled(w, d)'
  <2>1. Settled(w, d) /\ rows'[d] = rows[d]
    BY <1>1, <1>11, SweepAlone
  <2>2. RowFits(d)' /\ StatusFits(w, d)'
    BY <1>1, <1>3, <1>11, <2>1 DEF RowFits, Settled, StatusFits
  <2>3. QED
    BY <1>1, <1>9, <2>1, <2>2, StillSettled
<1>12. QED
  BY <1>2, <1>3, <1>8, <1>10, <1>11, OnlyWorker

\* One turn of the sweep's loop: what stays due is about the other documents.
LEMMA NextMarked ==
  ASSUME TypeOK, Agrees, NEW w \in Workers, req[w].step = "logMarks", UNCHANGED rows,
         NEW f \in req[w].found, NextMark(w, f)
  PROVE  /\ f[1] \in Docs /\ Live(f[1]) /\ rows[f[1]].status = "overdue" /\ HoldsOf(w)'
         /\ \A v \in Workers \ {w} : ~Busy(v) /\ req'[v] = req[v]
         /\ StatusFits(w, f[1])'
         /\ \A d \in Docs : /\ \A first : UserFits(w, d, first)'
                            /\ RowFits(d) /\ history'[d] = history[d] => RowFits(d)'
                            /\ \A field : <<d, field>> \in Owed(w) =>
                                  field = "status" /\ (d # f[1] => <<d, field>> \in Owed(w)')
                            /\ history'[d] = history[d] /\ StatusFits(w, d) => StatusFits(w, d)'
<1>1. /\ HoldsOf(w) /\ \A v \in Workers \ {w} : ~Busy(v)
      /\ \A g \in req[w].found : rows[g[1]].status = "overdue" /\ (g[1] = f[1] => g = f)
  BY SweepAlone DEF HoldsOf
<1>2. f[1] \in Docs /\ Live(f[1]) /\ rows[f[1]].status = "overdue"
  BY <1>1, RequestTyping DEF Live, Statuses
<1>3. CASE req[w].found = {f}
  <2>1. Finish(w)
    BY <1>3 DEF NextMark
  <2>2. /\ req'[w].step = "idle" /\ req'[w].found = {} /\ HoldsOf(w)'
        /\ \A v \in Workers \ {w} : req'[v] = req[v]
        /\ \A d \in Docs : StatusFits(w, d)' /\ \A first : UserFits(w, d, first)'
    BY <2>1, Finished
  <2>3. \A d, field : <<d, field>> \in Owed(w) => field = "status" /\ d = f[1]
    BY <1>3 DEF Owed
  <2>4. \A d \in Docs : RowFits(d) /\ history'[d] = history[d] => RowFits(d)'
    BY DEF RowFits
  <2>5. QED
    BY <1>1, <1>2, <2>2, <2>3, <2>4
<1>4. CASE req[w].found # {f}
  <2>1. /\ req'[w].step = "logMarks" /\ req'[w].found = req[w].found \ {f}
        /\ \A v \in Workers \ {w} : req'[v] = req[v]
    BY <1>4 DEF NextMark, TypeOK, Request
  <2>2. req'[w].found # {}
    BY <1>4, <2>1
  <2>3. HoldsOf(w)'
    BY <1>1, <2>1, <2>2 DEF HoldsOf
  <2>4. StatusFits(w, f[1])'
    BY <1>1, <2>1 DEF StatusFits
  <2>5. \A d, field : <<d, field>> \in Owed(w) =>
           field = "status" /\ (d # f[1] => <<d, field>> \in Owed(w)')
    BY <2>1 DEF Owed
  <2>6. \A d \in Docs : /\ \A first : UserFits(w, d, first)'
                        /\ RowFits(d) /\ history'[d] = history[d] => RowFits(d)'
                        /\ history'[d] = history[d] /\ StatusFits(w, d) => StatusFits(w, d)'
    BY <2>1 DEF UserFits, RowFits, StatusFits
  <2>7. QED
    BY <1>1, <1>2, <2>1, <2>3, <2>4, <2>5, <2>6
<1>5. QED
  BY <1>3, <1>4

LEMMA OthersSettled ==
  ASSUME TypeOK, Agrees, NEW w \in Workers, req[w].step = "logMarks", UNCHANGED rows,
         NEW f \in req[w].found, NextMark(w, f),
         NEW d \in Docs, d # f[1], history'[d] = history[d],
         \A field : <<d, field>> \in unrecorded => <<d, field>> \in unrecorded'
  PROVE  Settled(w, d)'
<1>1. Settled(w, d) /\ \A v \in Workers \ {w} : ~Busy(v)
  BY SweepAlone
<1>2. /\ \A first : UserFits(w, d, first)'
      /\ RowFits(d)' /\ (StatusFits(w, d) => StatusFits(w, d)')
      /\ <<d, "responsible">> \notin Owed(w)
      /\ <<d, "status">> \in Owed(w) => <<d, "status">> \in Owed(w)'
  BY <1>1, NextMarked DEF Settled
<1>3. Live(d)' <=> Live(d)
  BY DEF Live
<1>4. QED
  BY <1>1, <1>2, <1>3 DEF Settled

LEMMA LogMarkAgrees ==
  ASSUME TypeOK, Agrees, NEW w \in Workers, LogMark(w)
  PROVE  Agrees'
<1>1. PICK f \in req[w].found :
         /\ IF Live(f[1]) THEN RecordStatus(f[1], [old |-> f[2], new |-> "overdue"])
                          ELSE UNCHANGED history
         /\ NextMark(w, f)
  BY DEF LogMark
<1>2. req[w].step = "logMarks" /\ UNCHANGED <<rows, unrecorded>>
  BY DEF LogMark
<1>3. PICK d \in Docs : f[1] = d
  BY <1>1, RequestTyping
<1> DEFINE entry == [old |-> f[2], new |-> "overdue"]
<1>4. /\ Live(d) /\ rows[d].status = "overdue" /\ HoldsOf(w)'
      /\ \A v \in Workers \ {w} : ~Busy(v) /\ req'[v] = req[v]
      /\ StatusFits(w, d)' /\ \A first : UserFits(w, d, first)'
      /\ <<d, "responsible">> \notin Owed(w)
  BY <1>1, <1>2, <1>3, NextMarked
<1>5. Settled(w, d)
  BY <1>2, SweepAlone
<1>6. RecordStatus(d, entry)
  BY <1>1, <1>3, <1>4
<1>7. history[d] \in Trail /\ history[d].status \in Seq(StatusEntry)
  BY DEF TypeOK, Trail
<1>8. /\ history'[d].status = Append(history[d].status, entry)
      /\ history'[d].responsible = history[d].responsible
      /\ \A e \in Docs \ {d} : history'[e] = history[e]
  BY <1>6, <1>7 DEF TypeOK, Trail, RecordStatus
<1>9. entry.old = f[2] /\ entry.new = "overdue"
  OBVIOUS
<1> HIDE DEF entry
<1>10. history[d].status \in Seq(StatusEntry \cup {entry})
  BY <1>7
<1>11. Longer(history[d].status, entry, history'[d].status)
  BY <1>8, <1>10, AppendIsLonger
<1>12. Joined(history[d].status, NoStatus) /\ Last(history[d].status, NoStatus) = f[2]
       => /\ Joined(history'[d].status, NoStatus)
          /\ Last(history'[d].status, NoStatus) = rows[d].status
  BY <1>4, <1>9, <1>11, Appended
<1>13. \/ <<d, "status">> \in unrecorded
       \/ /\ Joined(history[d].status, NoStatus)
          /\ Last(history[d].status, NoStatus) = f[2]
  BY <1>1, <1>2, <1>3, <1>4, <1>5 DEF Settled, StatusFits
<1>14. RowFits(d)' /\ (Live(d)' <=> Live(d))
  BY <1>2, <1>4, <1>5 DEF RowFits, Settled, Live
<1>15. Settled(w, d)'
  BY <1>2, <1>4, <1>5, <1>8, <1>12, <1>13, <1>14 DEF Settled
<1>16. ASSUME NEW e \in Docs \ {d}
       PROVE  Settled(w, e)'
  BY <1>1, <1>2, <1>3, <1>8, OthersSettled
<1>17. QED
  BY <1>4, <1>15, <1>16, OnlyWorker

LEMMA FailMarkAgrees ==
  ASSUME TypeOK, Agrees, NEW w \in Workers, FailMark(w)
  PROVE  Agrees'
<1>1. PICK f \in req[w].found :
         NextMark(w, f) /\ unrecorded' = unrecorded \cup {<<f[1], "status">>}
  BY DEF FailMark
<1>2. req[w].step = "logMarks" /\ UNCHANGED <<rows, history>>
  BY DEF FailMark
<1>3. /\ f[1] \in Docs /\ HoldsOf(w)'
      /\ \A v \in Workers \ {w} : ~Busy(v) /\ req'[v] = req[v]
      /\ StatusFits(w, f[1])' /\ \A first : UserFits(w, f[1], first)'
  BY <1>1, <1>2, NextMarked
<1>4. Settled(w, f[1])
  BY <1>2, <1>3, SweepAlone
<1>5. \A field : <<f[1], field>> \in Owed(w) => field = "status"
  BY <1>1, <1>2, <1>3, NextMarked
<1>6. RowFits(f[1])'
  BY <1>2, <1>4 DEF RowFits, Settled
<1>7. Settled(w, f[1])'
  BY <1>1, <1>2, <1>3, <1>4, <1>5, <1>6, StillSettled
<1>8. ASSUME NEW e \in Docs, e # f[1]
      PROVE  Settled(w, e)'
  BY <1>1, <1>2, <1>8, OthersSettled
<1>9. QED
  BY <1>3, <1>7, <1>8, OnlyWorker

\* A restart: no handler is left, and every entry that was due is among the lost.
LEMMA CrashAgrees ==
  ASSUME TypeOK, Agrees, Crash
  PROVE  Agrees'
<1>1. /\ \A w \in Workers : req'[w] = Idle
      /\ unrecorded' = unrecorded \cup UNION {Owed(w) : w \in Workers}
      /\ UNCHANGED <<rows, history>>
  BY DEF Crash
<1>2. \A w \in Workers : req'[w].step = "idle" /\ req'[w].found = {}
  <2>1. Idle.step = "idle" /\ Idle.found = {}
    BY DEF Idle
  <2>2. QED
    BY <1>1, <2>1
<1>3. Separate' /\ Holds'
  <2>1. \A w \in Workers : ~Busy(w)'
    BY <1>2 DEF Busy
  <2>2. ASSUME NEW w \in Workers
        PROVE  HoldsOf(w)'
    BY <1>2 DEF HoldsOf
  <2>3. QED
    BY <2>1, <2>2 DEF Separate, Holds
<1>4. ASSUME NEW d \in Docs
      PROVE  RowFits(d)' /\ (Live(d)' => StatusReplays(d)' /\ UserReplays(d)')
  <2>1. \A w \in Workers : StatusFits(w, d)' /\ \A first : UserFits(w, d, first)'
    BY <1>2 DEF StatusFits, UserFits
  <2>2. \A field : Owes(field, d) \/ <<d, field>> \in unrecorded => <<d, field>> \in unrecorded'
    BY <1>1 DEF Owes
  <2>3. RowFits(d)' /\ (Live(d)' <=> Live(d))
    BY <1>1 DEF Agrees, RowFits, Live
  <2>4. StatusReplays(d) => StatusReplays(d)'
    BY <1>1, <2>1, <2>2 DEF StatusReplays
  <2>5. UserReplays(d) => UserReplays(d)'
    BY <1>1, <2>1, <2>2 DEF UserReplays
  <2>6. QED
    BY <2>3, <2>4, <2>5 DEF Agrees
<1>5. QED
  BY <1>3, <1>4 DEF Agrees

LEMMA SameAgrees ==
  ASSUME Agrees, UNCHANGED <<rows, history, req, unrecorded>>
  PROVE  Agrees'
<1>1. Separate'
  BY DEF Agrees, Separate, Busy
<1>2. \A w \in Workers : HoldsOf(w) => HoldsOf(w)'
  BY DEF HoldsOf, Live
<1>3. \A w \in Workers : Owed(w)' = Owed(w)
  BY DEF Owed
<1>4. ASSUME NEW d \in Docs
      PROVE  RowFits(d)' /\ (Live(d)' => StatusReplays(d)' /\ UserReplays(d)')
  <2>1. \A w \in Workers : /\ StatusFits(w, d) => StatusFits(w, d)'
                           /\ \A first : UserFits(w, d, first) => UserFits(w, d, first)'
    BY DEF StatusFits, UserFits
  <2>2. \A field : Owes(field, d) => Owes(field, d)'
    BY <1>3 DEF Owes
  <2>3. RowFits(d)' /\ (Live(d)' => Live(d))
    BY DEF Agrees, RowFits, Live
  <2>4. StatusReplays(d) => StatusReplays(d)'
    BY <2>1, <2>2 DEF StatusReplays
  <2>5. UserReplays(d) => UserReplays(d)'
    BY <2>1, <2>2 DEF UserReplays
  <2>6. QED
    BY <2>3, <2>4, <2>5 DEF Agrees
<1>5. QED
  BY <1>1, <1>2, <1>4 DEF Agrees, Holds

LEMMA StepAgrees ==
  ASSUME Exclusive, TypeOK, Agrees, [Next]_vars
  PROVE  Agrees'
<1>1. CASE UNCHANGED vars \/ Tick
  BY <1>1, SameAgrees DEF vars, Tick
<1>2. CASE Crash
  BY <1>2, CrashAgrees
<1>3. ASSUME NEW w \in Workers, Arrive(w)
      PROVE  Agrees'
  <2>1. CASE MarkOverdue(w)
    BY <2>1, SelectAgrees
  <2>2. ASSUME NEW d \in Docs, CreateDocument(w, d)
        PROVE  Agrees'
    BY <2>2, CreateAgrees
  <2>3. ASSUME NEW d \in Docs, \/ UpdateDocument(w, d) \/ DeleteDocument(w, d)
                               \/ AssignResponsible(w, d) \/ ChangeStatus(w, d)
                               \/ ArchiveDocument(w, d)
        PROVE  Agrees'
    BY <2>3, ReadAgrees
  <2>4. QED
    BY <1>3, <2>1, <2>2, <2>3 DEF Arrive
<1>4. ASSUME NEW w \in Workers, Continue(w)
      PROVE  Agrees'
  BY <1>4, EditAgrees, DeleteAgrees, AssignAgrees, LogAssignAgrees, MoveAgrees, LogMoveAgrees,
     MarkAgrees, LogMarkAgrees DEF Continue
<1>5. ASSUME NEW w \in Workers, Fail(w) \/ FailMark(w)
      PROVE  Agrees'
  BY <1>5, FailAgrees, FailMarkAgrees
<1>6. QED
  BY <1>1, <1>2, <1>3, <1>4, <1>5 DEF Next

LEMMA InitAgrees == Init => Agrees
<1> SUFFICES ASSUME Init PROVE Agrees
  OBVIOUS
<1>1. \A w \in Workers : req[w].step = "idle" /\ req[w].found = {}
  BY DEF Init, Idle
<1>2. \A d \in Docs : /\ rows[d].status = "unused" /\ ~rows[d].archivedAt /\ ~rows[d].isOverdue
                      /\ history[d] = NoTrail
  BY DEF Init, Blank
<1>3. Separate /\ Holds
  BY <1>1 DEF Separate, Holds, HoldsOf, Busy
<1>4. \A d \in Docs : RowFits(d) /\ ~Live(d)
  BY <1>2 DEF RowFits, Live, Statuses
<1>5. QED
  BY <1>3, <1>4 DEF Agrees

\* What Agrees says of the two trails is what the runs check.
LEMMA AgreesIsRecorded ==
  ASSUME TypeOK, Agrees
  PROVE  RecordAgrees
<1>1. ASSUME NEW d \in Docs, Live(d), <<d, "status">> \notin unrecorded
      PROVE  LET trail == history[d].status
             IN /\ \A i \in 1 .. Len(trail) :
                     trail[i].old = IF i = 1 THEN "" ELSE trail[i - 1].new
                /\ \/ \E w \in Workers : <<d, "status">> \in Owed(w)
                   \/ trail # <<>> /\ trail[Len(trail)].new = rows[d].status
  <2>1. StatusReplays(d)
    BY <1>1 DEF Agrees
  <2>2. Joined(history[d].status, NoStatus)
    BY <1>1, <2>1 DEF StatusReplays
  <2>3. Owes("status", d) \/ Last(history[d].status, NoStatus) = rows[d].status
    BY <1>1, <2>1 DEF StatusReplays
  <2>4. rows[d].status # NoStatus
    BY <1>1 DEF Live, Statuses, NoStatus
  <2>5. Last(history[d].status, NoStatus) = rows[d].status =>
           history[d].status # <<>> /\ history[d].status[Len(history[d].status)].new = rows[d].status
    BY <2>4 DEF Last
  <2>6. \A i \in 1 .. Len(history[d].status) :
           history[d].status[i].old = IF i = 1 THEN "" ELSE history[d].status[i - 1].new
    BY <2>2 DEF Joined, NoStatus
  <2>7. QED
    BY <2>3, <2>5, <2>6 DEF Owes
<1>2. ASSUME NEW d \in Docs, Live(d), <<d, "responsible">> \notin unrecorded
      PROVE  LET trail == history[d].responsible
             IN /\ \A i \in 2 .. Len(trail) : trail[i].old = trail[i - 1].new
                /\ \/ \E w \in Workers : <<d, "responsible">> \in Owed(w)
                   \/ trail = <<>>
                   \/ trail[Len(trail)].new = rows[d].responsible
  <2>1. UserReplays(d)
    BY <1>2 DEF Agrees
  <2>2. PICK first :
          /\ Joined(history[d].responsible, first)
          /\ Owes("responsible", d) \/ Last(history[d].responsible, first) = rows[d].responsible
    BY <1>2, <2>1 DEF UserReplays
  <2>3. Len(history[d].responsible) \in Nat
    BY DEF TypeOK, Trail
  <2>4. \A i \in 2 .. Len(history[d].responsible) :
           history[d].responsible[i].old = history[d].responsible[i - 1].new
    BY <2>2, <2>3 DEF Joined
  <2>5. QED
    BY <2>2, <2>4 DEF Owes, Last
<1>3. OverdueHasDeadline
  BY DEF Agrees, RowFits, OverdueHasDeadline
<1>4. TrailReplays
  BY <1>1 DEF TrailReplays
<1>5. ResponsibleReplays
  BY <1>2 DEF ResponsibleReplays
<1>6. QED
  BY <1>3, <1>4, <1>5 DEF RecordAgrees

\* When the callers never let two requests on a document overlap, what the tables say
\* of a document agrees: each trail starts at the creation, joins up entry by entry and
\* ends at the value the row has, unless an entry is due or was lost to a failed
\* statement or a restart; and a document flagged overdue has a deadline.
THEOREM RecordsAgree ==
  ASSUME Exclusive
  PROVE  Spec => []RecordAgrees
<1>1. Init => Agrees
  BY InitAgrees
<1>2. TypeOK /\ Agrees /\ [Next]_vars => Agrees'
  BY StepAgrees
<1>3. TypeOK /\ Agrees => RecordAgrees
  BY AgreesIsRecorded
<1>4. QED
  BY <1>1, <1>2, <1>3, TypeCorrect, PTL DEF Spec

-----------------------------------------------------------------------------
\* The handlers implement DocumentLifecycle: one write of each is the lifecycle's
\* step, everything else leaves its two variables alone.

LEMMA LifecycleStands ==
  ASSUME \A d \in Docs : /\ rows'[d].status = rows[d].status
                         /\ rows'[d].archivedAt = rows[d].archivedAt
  PROVE  UNCHANGED Lifecycle!vars
BY DEF Lifecycle!vars

LEMMA CreateIsCreate ==
  ASSUME NEW d \in Docs, rows[d].status = "unused", rows'[d].status = "draft",
         ~rows[d].archivedAt, ~rows'[d].archivedAt,
         \A e \in Docs \ {d} : rows'[e] = rows[e]
  PROVE  Lifecycle!Next
<1>1. [e \in Docs |-> rows'[e].status] = [[e \in Docs |-> rows[e].status] EXCEPT ![d] = "draft"]
  OBVIOUS
<1>2. {e \in Docs : rows'[e].archivedAt} = {e \in Docs : rows[e].archivedAt}
  OBVIOUS
<1>3. Lifecycle!Create(d)
  BY <1>1, <1>2 DEF Lifecycle!Create
<1>4. QED
  BY <1>3 DEF Lifecycle!Next

LEMMA MoveIsMove ==
  ASSUME NEW d \in Docs, NEW to \in Statuses, CanTransition(rows[d].status, to),
         rows'[d].status = to, rows'[d].archivedAt <=> to = "archived", ~rows[d].archivedAt,
         \A e \in Docs \ {d} : rows'[e] = rows[e]
  PROVE  Lifecycle!Next
<1>1. [e \in Docs |-> rows'[e].status] = [[e \in Docs |-> rows[e].status] EXCEPT ![d] = to]
  OBVIOUS
<1>2. {e \in Docs : rows'[e].archivedAt} =
         IF to = "archived" THEN {e \in Docs : rows[e].archivedAt} \cup {d}
                            ELSE {e \in Docs : rows[e].archivedAt}
  OBVIOUS
<1>3. Lifecycle!CanTransition([e \in Docs |-> rows[e].status][d], to)
  BY DEF Lifecycle!CanTransition, Lifecycle!AllowedTransitions, CanTransition, AllowedTransitions
<1>4. Lifecycle!Move(d, to)
  BY <1>1, <1>2, <1>3 DEF Lifecycle!Move
<1>5. to \in Lifecycle!Statuses
  BY DEF Statuses, Lifecycle!Statuses
<1>6. QED
  BY <1>4, <1>5 DEF Lifecycle!Next

LEMMA DeleteIsDelete ==
  ASSUME NEW d \in Docs, rows[d].status = "draft", rows'[d].status = "deleted",
         ~rows[d].archivedAt, ~rows'[d].archivedAt,
         \A e \in Docs \ {d} : rows'[e] = rows[e]
  PROVE  Lifecycle!Next
<1>1. [e \in Docs |-> rows'[e].status] = [[e \in Docs |-> rows[e].status] EXCEPT ![d] = "deleted"]
  OBVIOUS
<1>2. {e \in Docs : rows'[e].archivedAt} = {e \in Docs : rows[e].archivedAt}
  OBVIOUS
<1>3. Lifecycle!Delete(d)
  BY <1>1, <1>2 DEF Lifecycle!Delete
<1>4. QED
  BY <1>3 DEF Lifecycle!Next

LEMMA MarkIsSweep ==
  ASSUME NEW found \in SUBSET Docs, found # {}, \A d \in found : rows[d].status \in Sweepable,
         \A d \in found : rows'[d].status = "overdue" /\ rows'[d].archivedAt = rows[d].archivedAt,
         \A d \in Docs \ found : rows'[d] = rows[d]
  PROVE  Lifecycle!Next
<1>1. [d \in Docs |-> rows'[d].status] =
         [d \in Docs |-> IF d \in found THEN "overdue" ELSE [e \in Docs |-> rows[e].status][d]]
  OBVIOUS
<1>2. {d \in Docs : rows'[d].archivedAt} = {d \in Docs : rows[d].archivedAt}
  OBVIOUS
<1>3. \A d \in found : [e \in Docs |-> rows[e].status][d] \in Lifecycle!Sweepable
  BY DEF Sweepable, Statuses, Lifecycle!Sweepable, Lifecycle!Statuses
<1>4. Lifecycle!Sweep(found)
  BY <1>1, <1>2, <1>3 DEF Lifecycle!Sweep
<1>5. QED
  BY <1>4 DEF Lifecycle!Next

LEMMA StepFollows ==
  ASSUME TypeOK, Agrees, [Next]_vars
  PROVE  [Lifecycle!Next]_Lifecycle!vars
<1>1. CASE UNCHANGED rows
  BY <1>1, LifecycleStands
<1>2. ASSUME NEW w \in Workers, NEW d \in Docs, CreateDocument(w, d)
      PROVE  Lifecycle!Next
  <2>1. PICK t \in Titles, u \in Users \cup {NoUser}, deadline \in Times \cup {NoTime} :
          rows' = [rows EXCEPT ![d] = [Blank("draft") EXCEPT !.title = t, !.responsible = u,
                                                             !.deadline = deadline]]
    BY <1>2 DEF CreateDocument
  <2>2. /\ rows'[d].status = "draft" /\ ~rows'[d].archivedAt
        /\ \A e \in Docs \ {d} : rows'[e] = rows[e]
    BY <2>1 DEF Blank, TypeOK
  <2>3. rows[d].status = "unused" /\ RowFits(d)
    BY <1>2 DEF CreateDocument, Agrees
  <2>4. ~rows[d].archivedAt
    BY <2>3 DEF RowFits
  <2>5. QED
    BY <2>2, <2>3, <2>4, CreateIsCreate
<1>3. ASSUME NEW w \in Workers, WriteEdit(w) \/ WriteResponsible(w), ~UNCHANGED rows
      PROVE  UNCHANGED Lifecycle!vars
  <2>1. PICK d \in Docs : req[w].doc = d
    BY RequestTyping
  <2>2. \/ rows' = [rows EXCEPT ![d] = [@ EXCEPT !.title = req[w].new.title,
                                                 !.deadline = req[w].new.deadline]]
        \/ rows' = [rows EXCEPT ![d] = [@ EXCEPT !.responsible = req[w].new.responsible]]
    BY <1>3, <2>1 DEF WriteEdit, WriteResponsible, Vanished
  <2>3. rows[d] \in Row /\ \A e \in Docs \ {d} : rows'[e] = rows[e]
    BY <2>2 DEF TypeOK
  <2>4. rows'[d].status = rows[d].status /\ rows'[d].archivedAt = rows[d].archivedAt
    BY <2>2, <2>3 DEF TypeOK, Row
  <2>5. QED
    BY <2>3, <2>4, LifecycleStands
<1>4. ASSUME NEW w \in Workers, WriteStatus(w), ~UNCHANGED rows
      PROVE  Lifecycle!Next
  <2>1. PICK d \in Docs : req[w].doc = d
    BY RequestTyping
  <2>2. /\ req[w].step = "status"
        /\ rows' = [rows EXCEPT ![d] = Rewritten(@, req[w].new.status)]
    BY <1>4, <2>1 DEF WriteStatus, Vanished
  <2>3. rows[d] \in Row /\ rows'[d] = Rewritten(rows[d], req[w].new.status)
        /\ \A e \in Docs \ {d} : rows'[e] = rows[e]
    BY <2>2 DEF TypeOK
  <2>4. CanTransition(rows[d].status, req[w].new.status)
    BY <2>1, <2>2, AtStatement DEF HoldsOf
  <2>5. req[w].new.status \in Statuses /\ rows[d].status # "archived" /\ RowFits(d)
    BY <2>4 DEF CanTransition, AllowedTransitions, Statuses, Agrees
  <2>6. ~rows[d].archivedAt
    BY <2>5 DEF RowFits
  <2>7. rows'[d].status = req[w].new.status /\ (rows'[d].archivedAt <=> req[w].new.status = "archived")
    BY <2>3, <2>6 DEF Row, Rewritten
  <2>8. QED
    BY <2>3, <2>4, <2>5, <2>6, <2>7, MoveIsMove
<1>5. ASSUME NEW w \in Workers, DeleteRow(w), ~UNCHANGED rows
      PROVE  Lifecycle!Next
  <2>1. PICK d \in Docs : req[w].doc = d
    BY RequestTyping
  <2>2. req[w].step = "delete" /\ rows' = [rows EXCEPT ![d] = Blank("deleted")]
    BY <1>5, <2>1 DEF DeleteRow, Vanished
  <2>3. rows[d].status = "draft" /\ RowFits(d)
    BY <2>1, <2>2, AtStatement DEF HoldsOf, Agrees
  <2>4. ~rows[d].archivedAt
    BY <2>3 DEF RowFits
  <2>5. /\ rows'[d].status = "deleted" /\ ~rows'[d].archivedAt
        /\ \A e \in Docs \ {d} : rows'[e] = rows[e]
    BY <2>2 DEF Blank, TypeOK
  <2>6. QED
    BY <2>3, <2>4, <2>5, DeleteIsDelete
<1>6. ASSUME NEW w \in Workers, MarkRows(w)
      PROVE  Lifecycle!Next
  <2> DEFINE found == {f[1] : f \in req[w].found}
  <2>1. /\ req[w].step = "mark"
        /\ rows' = [d \in Docs |-> IF Live(d) /\ \E f \in req[w].found : f[1] = d
                                   THEN [rows[d] EXCEPT !.status = "overdue", !.isOverdue = TRUE]
                                   ELSE rows[d]]
    BY <1>6 DEF MarkRows
  <2>2. HoldsOf(w) /\ req[w].found # {}
    BY <2>1, SweepAlone DEF HoldsOf
  <2>3. \A f \in req[w].found : f[1] \in Docs /\ rows[f[1]].status \in Sweepable /\ Live(f[1])
    BY <2>1, <2>2, RequestTyping DEF HoldsOf, Live, Sweepable
  <2>4. found \in SUBSET Docs /\ found # {} /\ \A d \in found : rows[d].status \in Sweepable
    BY <2>2, <2>3
  <2>5. \A d \in Docs : rows[d] \in Row
    BY DEF TypeOK
  <2>6. \A d \in found : rows'[d] = [rows[d] EXCEPT !.status = "overdue", !.isOverdue = TRUE]
    BY <2>1, <2>3
  <2>7. \A d \in found : rows'[d].status = "overdue" /\ rows'[d].archivedAt = rows[d].archivedAt
    <3>1. ASSUME NEW d \in found
          PROVE  rows'[d].status = "overdue" /\ rows'[d].archivedAt = rows[d].archivedAt
      <4>1. rows[d] \in Row /\ rows'[d] = [rows[d] EXCEPT !.status = "overdue", !.isOverdue = TRUE]
        BY <2>4, <2>5, <2>6
      <4>2. QED
        BY <4>1 DEF Row
    <3>2. QED
      BY <3>1
  <2>8. \A d \in Docs \ found : rows'[d] = rows[d]
    BY <2>1
  <2> HIDE DEF found
  <2>9. QED
    BY <2>4, <2>7, <2>8, MarkIsSweep
<1>7. ASSUME NEW w \in Workers, Arrive(w), ~UNCHANGED rows
      PROVE  \E d \in Docs : CreateDocument(w, d)
  BY <1>7 DEF Arrive, UpdateDocument, DeleteDocument, AssignResponsible, ChangeStatus,
              ArchiveDocument, Begin, MarkOverdue
<1>8. ASSUME NEW w \in Workers, Continue(w), ~UNCHANGED rows
      PROVE  \/ WriteEdit(w) \/ WriteResponsible(w) \/ DeleteRow(w)
             \/ WriteStatus(w) \/ MarkRows(w)
  BY <1>8 DEF Continue, LogEdit, LogResponsible, LogStatus, LogMark, Vanished
<1>9. CASE UNCHANGED vars \/ Crash \/ Tick \/ \E w \in Workers : Fail(w) \/ FailMark(w)
  BY <1>1, <1>9 DEF vars, Crash, Tick, Fail, FailMark
<1>10. QED
  BY <1>1, <1>2, <1>3, <1>4, <1>5, <1>6, <1>7, <1>8, <1>9 DEF Next

\* When the callers never let two requests on a document overlap, the handlers implement
\* the lifecycle of DocumentLifecycle: each write of a row's status is one of its atomic
\* steps, although the handler read the row statements earlier, and failing statements
\* and restarts add no other.
THEOREM LifecycleFollowed ==
  ASSUME Exclusive
  PROVE  Spec => FollowsLifecycle
<1>1. Init => Agrees
  BY InitAgrees
<1>2. TypeOK /\ Agrees /\ [Next]_vars => Agrees'
  BY StepAgrees
<1>3. Init => Lifecycle!Init
  <2> SUFFICES ASSUME Init PROVE Lifecycle!Init
    OBVIOUS
  <2>1. \A d \in Docs : rows[d].status = "unused" /\ ~rows[d].archivedAt
    BY DEF Init, Blank
  <2>2. [d \in Docs |-> rows[d].status] = [d \in Docs |-> "unused"]
    BY <2>1
  <2>3. {d \in Docs : rows[d].archivedAt} = {}
    BY <2>1
  <2>4. QED
    BY <2>2, <2>3 DEF Lifecycle!Init
<1>4. TypeOK /\ Agrees /\ [Next]_vars => [Lifecycle!Next]_Lifecycle!vars
  BY StepFollows
<1>5. QED
  BY <1>1, <1>2, <1>3, <1>4, TypeCorrect, PTL DEF Spec, FollowsLifecycle, Lifecycle!Spec
=============================================================================
