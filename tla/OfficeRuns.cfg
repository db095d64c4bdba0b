CONSTANTS
  r1 = r1
  r2 = r2
  k = k
  Requests = {r1, r2}
  Keys = {k}
  KeyOf <- MCKeyOf
  AgentCount = 2
  MaxRetries = 1
  MaxFaults = 0
SPECIFICATION Spec
INVARIANTS RunsReachTerminalState
CHECK_DEADLOCK FALSE
