------------------------------ MODULE MCExecution ------------------------------
(* A diamond: after step a, which may be tried twice, steps b and d run in    *)
(* parallel and step c joins them.                                            *)
EXTENDS ExecutionDriver, TLC

CONSTANTS a, b, c, d

MCSteps == {a, b, c, d}
MCDependencies == (a :> {}) @@ (b :> {a}) @@ (d :> {a}) @@ (c :> {b, d})
MCMaxAttempts == [s \in MCSteps |-> IF s = a THEN 2 ELSE 1]
================================================================================
