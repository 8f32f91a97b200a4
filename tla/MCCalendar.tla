------------------------------- MODULE MCCalendar -------------------------------
(***************************************************************************)
(* The days turn while the calendar is empty; events come and go on the    *)
(* first of them.                                                          *)
(***************************************************************************)
EXTENDS CalendarEvents, TLC

Init == InitEvents /\ InitDay

Turn == /\ event = [i \in Ids |-> Unused] /\ \A w \in Workers : ~Busy(w)
        /\ TurnDay /\ UNCHANGED evars

Next == \/ today = FirstDay /\ NextEvents /\ UNCHANGED today
        \/ Turn

Symmetry == Permutations(Workers)
=============================================================================
