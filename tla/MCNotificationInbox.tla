------------------------- MODULE MCNotificationInbox -------------------------
(* An instance of NotificationInbox for TLC: requests one after the other and     *)
(* nothing goes wrong; two at a time and anything may, but NATS is there; one     *)
(* after the other and anything may, NATS missing included.                       *)
EXTENDS NotificationInbox, TLC

LOCAL OneNote == {CHOOSE n \in Ids : TRUE}

CalmAndRough ==
    {[exclusive |-> TRUE,  faults |-> {}, notes |-> Ids],
     [exclusive |-> FALSE, faults |-> {"redis", "sql", "crash"}, notes |-> OneNote],
     [exclusive |-> TRUE,  faults |-> {"redis", "sql", "nats", "crash"}, notes |-> OneNote]}

\* Idle fixes a notification with CHOOSE, so only handlers are interchangeable.
Symmetry == Permutations(Handlers)
=============================================================================
