---------------------------- MODULE MCTaskService ----------------------------
(* Instances of TaskService for TLC. *)
EXTENDS TaskService, TLC

\* Idle fixes a task with CHOOSE: workers and users are interchangeable.
Symmetry == Permutations(Workers) \cup Permutations(Users)
=============================================================================
