CONSTANTS
  Effects = {e1}
  Claims = {c1, c2}
  Workers = {w1}
  Slots = {s1, s2}
  MaxConcurrency = 2
  Withdrawals = {"dead_lettered", "retry_scheduled"}
  Decisions = {}
  MaxVersion = 8
  MaxFaults = 2
  MaxEarly = 1
SPECIFICATION FairSpec
PROPERTIES NoClaimAfterShutdown
CHECK_DEADLOCK FALSE
