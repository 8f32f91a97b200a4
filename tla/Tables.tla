--------------------------------- MODULE Tables ---------------------------------
(***************************************************************************)
(* Tables by name: what a layer does with each operation is a record with  *)
(* one field per operation, written in the parts its source file has.      *)
(***************************************************************************)

\* One table of two that have no name in common.
Together(f, g) == [name \in DOMAIN f \cup DOMAIN g |-> IF name \in DOMAIN f THEN f[name] ELSE g[name]]

\* What a layer does with the fields that carry a name: a rule for each of them.
NoRule == [field \in {} |-> "unset"]
Ruled(fields, rule, names) == Together([field \in fields |-> rule], names)

\* The fields that come as a text of a date or a number: one that cannot be read is left
\* out by the layers that parse it themselves, and where JSON is bound to a type the
\* body is refused.
Dates == {"deadline", "start", "end", "from_date", "to_date", "times"}
Numbers == {"page", "year", "month", "day", "week", "days", "attempts"}
Parsing(fields, row) == [row EXCEPT !.parses = fields]

=============================================================================
