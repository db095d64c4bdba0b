CONSTANTS
  r1 = r1
  r2 = r2
  k = k
  Requests = {r1, r2}
  Keys = {k}
  KeyOf <- MCKeyOf
  AgentCount = 2
  MaxRetries = 1
  MaxFaults = 2
SPECIFICATION FairSpec
INVARIANTS AgentsRunOncePerKey PackageAgreesWithRuns AuditsCoverCalls
PROPERTIES RequestsEnd
CHECK_DEADLOCK FALSE
