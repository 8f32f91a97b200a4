----------------------------- MODULE CalendarEvents -----------------------------
(***************************************************************************)
(* calendar-service: when the events of one user start and end.  An update *)
(* and a delete read the event and then write it, two statements with no   *)
(* transaction around them; an action here is a statement with the code up *)
(* to the next.  app.go takes the constructor without a cache (New), and   *)
(* the repository has no EventCache to take the other with: there is none. *)
(*                                                                         *)
(* Not here: titles and the other texts; queries, which only read; what    *)
(* another user asks, refused after the read with nothing written.         *)
(***************************************************************************)
EXTENDS CalendarWeeks

CONSTANTS Ids,       \* what gen_random_uuid() hands out, each once
          Times,     \* the days events start and end on
          Workers,   \* requests the server can be serving at one time
          None       \* not given, not used

ASSUME ConstantsOK == Times \subseteq Nat /\ None \notin Nat

VARIABLES event,       \* the table events
          req,         \* what each worker is doing
          wanted,      \* what the edits make of an event one after the other (ghost)
          lopsided,    \* events whose last bound to be given was given alone (ghost)
          overtaken    \* events written from a reading since overtaken (ghost)

evars == <<event, req, wanted, lopsided, overtaken>>

-----------------------------------------------------------------------------

Span == [start : Times, end : Times]
Event == [state : {"unused", "kept", "deleted"}, span : Span \cup {None}]
Unused == [state |-> "unused", span |-> None]

\* UpdateEventInput; what is not given stays.
Edit == [start : Times \cup {None}, end : Times \cup {None}]
Both(edit) == edit.start # None /\ edit.end # None
Neither(edit) == edit.start = None /\ edit.end = None

\* fresh: nobody has written the event since it was read (ghost).
Request == [step : {"idle", "update", "delete"}, id : Ids \cup {None}, span : Span \cup {None},
            edit : Edit \cup {None}, fresh : BOOLEAN]
Idle == [step |-> "idle", id |-> None, span |-> None, edit |-> None, fresh |-> FALSE]

CalendarTypeOK == /\ event \in [Ids -> Event]
                  /\ req \in [Workers -> Request]
                  /\ wanted \in [Ids -> Span \cup {None}]
                  /\ lopsided \subseteq Ids /\ overtaken \subseteq Ids

Kept(i) == event[i].state = "kept"
Busy(w) == req[w].step # "idle"
Goto(w, new) == req' = [req EXCEPT ![w] = new]
Finish(w) == Goto(w, Idle)

-----------------------------------------------------------------------------

\* Mutation: the end is not compared with the start.
CreateEventUnchecked(w, i, span) ==
    /\ ~Busy(w) /\ event[i].state = "unused"
    /\ event' = [event EXCEPT ![i] = [state |-> "kept", span |-> span]]
    /\ wanted' = [wanted EXCEPT ![i] = span]
    /\ UNCHANGED <<req, lopsided, overtaken>>

\* One INSERT.  Without an end the event ends when it starts.
CreateEvent(w, i, span) ==
    /\ ~Busy(w) /\ event[i].state = "unused" /\ span.start <= span.end
    /\ event' = [event EXCEPT ![i] = [state |-> "kept", span |-> span]]
    /\ wanted' = [wanted EXCEPT ![i] = span]
    /\ UNCHANGED <<req, lopsided, overtaken>>

\* GetByID, and the owner compared.  Start and end are compared only if both are given.
UpdateEvent(w, i, edit) ==
    /\ ~Busy(w) /\ Kept(i)
    /\ Both(edit) => edit.start <= edit.end
    /\ Goto(w, [step |-> "update", id |-> i, span |-> event[i].span, edit |-> edit, fresh |-> TRUE])
    /\ UNCHANGED <<event, wanted, lopsided, overtaken>>

\* Mutation: without an end the event ends when it starts, as when it is created.
MergeAsCreated(span, edit) ==
    LET start == IF edit.start = None THEN span.start ELSE edit.start
    IN  [start |-> start, end |-> IF edit.end = None THEN start ELSE edit.end]

Merge(span, edit) == [start |-> IF edit.start = None THEN span.start ELSE edit.start,
                      end   |-> IF edit.end = None THEN span.end ELSE edit.end]

\* What the ghosts make of an edit that is written.
Given(i, edit) == [bound \in {"start", "end"} |-> IF edit[bound] = None THEN wanted[i][bound] ELSE edit[bound]]
Blame(set, i, blamed) == IF blamed THEN set \cup {i} ELSE set \ {i}

\* UPDATE ... WHERE id: both columns, from what was read and the edit.
Update(w) ==
    LET i == req[w].id
        edit == req[w].edit
    IN  /\ req[w].step = "update" /\ Kept(i)
        /\ event' = [event EXCEPT ![i].span = Merge(req[w].span, edit)]
        /\ req' = [v \in Workers |-> IF v = w THEN Idle
                                     ELSE IF req[v].id = i THEN [req[v] EXCEPT !.fresh = FALSE] ELSE req[v]]
        /\ wanted' = [wanted EXCEPT ![i] = Given(i, edit)]
        /\ lopsided' = IF Neither(edit) THEN lopsided ELSE Blame(lopsided, i, ~Both(edit))
        /\ overtaken' = Blame(overtaken, i, ~Both(edit) /\ (~req[w].fresh \/ i \in overtaken))

DeleteEvent(w, i) ==
    /\ ~Busy(w) /\ Kept(i)
    /\ Goto(w, [Idle EXCEPT !.step = "delete", !.id = i])
    /\ UNCHANGED <<event, wanted, lopsided, overtaken>>

Delete(w) ==
    /\ req[w].step = "delete" /\ Kept(req[w].id)
    /\ event' = [event EXCEPT ![req[w].id].state = "deleted"]
    /\ Finish(w)
    /\ UNCHANGED <<wanted, lopsided, overtaken>>

\* ErrEventNotFound: the row went between the read and the write.
Vanished(w) == /\ req[w].step \in {"update", "delete"} /\ ~Kept(req[w].id)
               /\ Finish(w)
               /\ UNCHANGED <<event, wanted, lopsided, overtaken>>

\* A statement fails, the caller leaves or the process dies.
Stop(w) == /\ Busy(w)
           /\ Finish(w)
           /\ UNCHANGED <<event, wanted, lopsided, overtaken>>

-----------------------------------------------------------------------------

InitEvents == /\ event = [i \in Ids |-> Unused]
              /\ req = [w \in Workers |-> Idle]
              /\ wanted = [i \in Ids |-> None]
              /\ lopsided = {} /\ overtaken = {}

Begin(w) == \E i \in Ids : \/ \E span \in Span : CreateEvent(w, i, span)
                           \/ \E edit \in Edit : UpdateEvent(w, i, edit)
                           \/ DeleteEvent(w, i)

Continue(w) == Update(w) \/ Delete(w) \/ Vanished(w)

NextEvents == \E w \in Workers : Begin(w) \/ Continue(w) \/ Stop(w)

EventsSpec == InitEvents /\ [][NextEvents]_evars

-----------------------------------------------------------------------------
\* Properties.

\* However requests interleave, an event is when its creation and its edits one after
\* the other put it, unless an edit was written over a reading that another had
\* overtaken (UpdateEvent writes both columns back); giving both bounds settles it.
EditsKept == \A i \in Ids \ overtaken : Kept(i) => event[i].span = wanted[i]

\* An event ends before it starts only if the last bound to be given was given alone,
\* which the service compares with nothing (UpdateEventInput.Validate), or if a
\* reading since overtaken was written back.
EndFollowsStart ==
    \A i \in Ids : Kept(i) /\ event[i].span.end < event[i].span.start => i \in lopsided \cup overtaken
=============================================================================
