--------------------------- MODULE MCDocumentService ---------------------------
(* Instances of DocumentService for TLC. *)
EXTENDS DocumentService, TLC

\* Only workers and users are interchangeable: Idle and Blank fix a document and
\* a title with CHOOSE.
Symmetry == Permutations(Workers) \cup Permutations(Users)
=============================================================================
