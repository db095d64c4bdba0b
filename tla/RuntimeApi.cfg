CONSTANTS
  Sessions = {p, q}
  Users = {"u", "v", "m", "n"}
  Orgs = {"o1", "o2"}
  Roles = {"r", "s"}
  Permissions = {"submit"}
  OrgOf <- MCOrgOf
  RolesOf <- MCRolesOf
  Kept = {"state", "audit"}
  Results = {"result"}
  Facts = {"request"}
  Submissions <- MCSubmissions
  WriteSets <- MCWriteSets
  Changes <- MCChanges
  Rank <- MCRank
  LockKey <- MCLockKey
SPECIFICATION FairSpec
INVARIANTS LedgerProvesLinks HistoryProvesHeads ReceiptsProveMutations AnswersAreTrue
PROPERTIES RepeatIsRecognized ImplementsContract TransactionsEnd
CHECK_DEADLOCK FALSE
