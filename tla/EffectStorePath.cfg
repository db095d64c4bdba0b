CONSTANTS
  Effects = {e1}
  Claims = {c1, c2}
  RequestIds = {r1, r2}
  Callers = {p}
  Results = {"delivered"}
  Observations = {"confirmed_not_delivered"}
  ClaimsByAppend = FALSE
  MaxTime = 3
  MaxAttempts = 1
  MaxRevisions = 5
SPECIFICATION Spec
SYMMETRY Symmetry
INVARIANTS DueIsSelectable
PROPERTIES ImplementsDelivery
CHECK_DEADLOCK FALSE
