---------------------------- MODULE MCRuntimeWorker ----------------------------
(* Small instances of RuntimeWorker for TLC. *)
EXTENDS RuntimeWorker, TLC

\* Workers, slots and claims are only compared for equality.
Symmetry == Permutations(Workers) \cup Permutations(Slots) \cup Permutations(Claims)

================================================================================
