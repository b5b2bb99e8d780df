------------------------ MODULE MCSessionDocuments ------------------------
(* Small instances of SessionDocuments for TLC. *)
EXTENDS SessionDocuments, TLC

CONSTANTS x, y

\* A node or a wire is there or not; the title and the frame have two values.
Values == [i \in Item |-> IF i \in Graph THEN {x, NULL} ELSE {x, y}]

\* Every item is there from the start.
First == [i \in Item |-> x]
=============================================================================
