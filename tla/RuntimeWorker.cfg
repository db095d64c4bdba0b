CONSTANTS
  Effects = {e1}
  Claims = {c1, c2}
  Workers = {w1, w2}
  Slots = {s1}
  MaxConcurrency = 1
  Withdrawals = {"retry_scheduled", "dead_lettered"}
  Decisions = {"delivered", "retry_scheduled", "dead_lettered"}
  MaxVersion = 7
  MaxFaults = 2
  MaxEarly = 1
SPECIFICATION Spec
SYMMETRY Symmetry
INVARIANTS CallIsDurable OutcomeFollowsCall
PROPERTIES NoRepeatedCall
CHECK_DEADLOCK FALSE
