---------------------------- MODULE MCContainer ----------------------------
(* Small instances of Container for TLC. *)
EXTENDS Container

\* One author, ops of each readable kind, the value writes between structure.
DesktopKinds == <<"structure", "value", "formula", "value", "structure">>
OneAuthor == [op \in Op |-> "a"]

\* Cell writes of two authors, interleaved in canonical order.
SharedKinds == <<"value", "formula", "value", "formula">>
TwoAuthors == [op \in Op |-> IF op % 2 = 0 THEN "b" ELSE "a"]
=============================================================================
