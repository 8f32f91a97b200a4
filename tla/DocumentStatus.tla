---------------------------- MODULE DocumentStatus ----------------------------
(***************************************************************************)
(* The status machine of document-service (internal/domain/document.go)    *)
(* and the selection the overdue sweep makes.                              *)
(***************************************************************************)

Statuses == {"draft", "assigned", "in_progress", "completed", "overdue", "archived"}

\* "unused": no row yet.  "deleted": the row is gone and its UUID never returns.
RowStates == Statuses \cup {"unused", "deleted"}

AllowedTransitions ==
    { <<"draft", "assigned">>,       <<"draft", "archived">>,
      <<"assigned", "in_progress">>, <<"assigned", "overdue">>, <<"assigned", "archived">>,
      <<"in_progress", "completed">>, <<"in_progress", "overdue">>, <<"in_progress", "archived">>,
      <<"completed", "archived">>,
      <<"overdue", "in_progress">>,  <<"overdue", "archived">> }

CanTransition(from, to) == from # to /\ <<from, to>> \in AllowedTransitions

\* Statuses the sweep's WHERE clause lets through: a draft is one of them,
\* although the table has no transition from draft to overdue.
Sweepable == Statuses \ {"completed", "overdue", "archived"}
===============================================================================
