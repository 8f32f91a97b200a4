-------------------------- MODULE DocumentLifecycle --------------------------
(***************************************************************************)
(* What document-service promises about a document's status, with every    *)
(* request atomic: the status machine of domain/document.go, the overdue   *)
(* sweep, archiving as the end of the road and deletion of drafts only.    *)
(* DocumentService is shown to implement this module when the requests on  *)
(* one document do not overlap.                                            *)
(***************************************************************************)

EXTENDS DocumentStatus

CONSTANTS Docs          \* the identifiers gen_random_uuid() may hand out

VARIABLES status,       \* the status of each identifier's row
          stamped       \* the identifiers whose archived_at is set

vars == <<status, stamped>>

-----------------------------------------------------------------------------

Init == /\ status = [d \in Docs |-> "unused"]
        /\ stamped = {}

Create(d) == /\ status[d] = "unused"
             /\ status' = [status EXCEPT ![d] = "draft"]
             /\ UNCHANGED stamped

Move(d, to) == /\ CanTransition(status[d], to)
               /\ status' = [status EXCEPT ![d] = to]
               /\ stamped' = IF to = "archived" THEN stamped \cup {d} ELSE stamped

Delete(d) == /\ status[d] = "draft"
             /\ status' = [status EXCEPT ![d] = "deleted"]
             /\ UNCHANGED stamped

\* One UPDATE ... WHERE id = ANY($2) moves every document the sweep found.
Sweep(found) == /\ found # {}
                /\ \A d \in found : status[d] \in Sweepable
                /\ status' = [d \in Docs |-> IF d \in found THEN "overdue" ELSE status[d]]
                /\ UNCHANGED stamped

Next == \/ \E d \in Docs : Create(d) \/ Delete(d) \/ \E to \in Statuses : Move(d, to)
        \/ \E found \in SUBSET Docs : Sweep(found)

Spec == Init /\ [][Next]_vars
=============================================================================
