CONSTANTS
  pol = pol
  a1 = a1
  a2 = a2
  a3 = a3
  Sessions = {p, q}
  Policies = {pol}
  Ids = {a1, a2, a3}
  Admissions <- MCAdmissions
  Revocations <- MCRevocations
  Provisions <- MCProvisions
  Limit = 2
  TicksPerSecond = 2
  WindowSeconds = 2
  ValidFrom = 1
  ValidUntil = 5
SPECIFICATION FairSpec
INVARIANTS LimitHolds DecisionsProveCounter RetryMeetsNextWindow
PROPERTIES TransactionsEnd RevocationIsFinal ImplementsContract
CHECK_DEADLOCK FALSE
