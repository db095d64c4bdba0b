--------------------------- MODULE MCOfficeExecution ---------------------------
(* Two requests of one client key.                                            *)
EXTENDS OfficeExecution

CONSTANTS r1, r2, k

MCKeyOf == [r \in {r1, r2} |-> {k}]
================================================================================
