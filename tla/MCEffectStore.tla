----------------------------- MODULE MCEffectStore -----------------------------
(* Small instances of EffectStore for TLC. *)
EXTENDS EffectStore, TLC

\* Callers, claims and request ids are only compared for equality.
Symmetry == Permutations(Callers) \cup Permutations(Claims) \cup Permutations(RequestIds)

================================================================================
