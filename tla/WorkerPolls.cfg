CONSTANTS
  Effects = {e1, e2}
  Claims = {c1, c2}
  Workers = {w1}
  Slots = {s1, s2}
  MaxConcurrency = 1
  Withdrawals = {"dead_lettered", "retry_scheduled"}
  Decisions = {}
  MaxVersion = 5
  MaxFaults = 1
  MaxEarly = 1
SPECIFICATION FairSpec
PROPERTIES ShutdownCompletes EffectsSettle
CHECK_DEADLOCK FALSE
