------------------------------ MODULE MCCache ------------------------------
(* Finite instances of Cache. *)
EXTENDS CacheProperties

\* Entries of two units, and one as large as the budget of four.
CONSTANTS Large
MCSizeOf == [e \in Entries |-> IF e \in Large THEN 4 ELSE 2]
=============================================================================
