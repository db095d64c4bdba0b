CONSTANTS
  Effects = {e1}
  Claims = {c1, c2}
  RequestIds = {r1, r2}
  Callers = {p, q}
  Results = {"delivered"}
  Observations = {"confirmed_not_delivered"}
  ClaimsByAppend = FALSE
  MaxTime = 2
  MaxAttempts = 1
  MaxRevisions = 4
SPECIFICATION Spec
SYMMETRY Symmetry
INVARIANTS HeadProjectsHistory HistoryFollowsGraph OneRevisionPerRequest AnswersAreTrue
CHECK_DEADLOCK FALSE
