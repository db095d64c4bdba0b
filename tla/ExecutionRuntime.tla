--------------------------- MODULE ExecutionRuntime ---------------------------
(***************************************************************************)
(* The runtime of one execution plan: app/execution/runtime.py over the    *)
(* scheduling queries of app/execution/scheduler.py.                       *)
(*                                                                         *)
(* The functions of runtime.py are pure: each takes a session, a plan and  *)
(* a runtime state that carry the same revision and returns their          *)
(* successors.  A caller whose snapshot is old is refused by               *)
(* expected_revision, so a function is one atomic step on the current      *)
(* snapshot.  A refused call changes nothing and is not a step.            *)
(*                                                                         *)
(* Dependencies are those of the plan; an optional instant (started_at,    *)
(* next_retry_at, completed_at) is a set of at most one instant.           *)
(***************************************************************************)
EXTENDS Naturals, FiniteSets

CONSTANTS
  Steps,          \* step identifiers of the plan
  Dependencies,   \* the steps each step waits for
  Required,       \* the steps whose failure fails the execution
  MaxAttempts,    \* retry_policy.max_attempts of each step
  Instants        \* the instants a caller may supply

\* validate_dependency_graph: topological_step_ids always finds, among the
\* steps that are left, one that depends on none of them.
ASSUME PlanAssumption ==
  /\ IsFiniteSet(Steps) /\ Steps # {}
  /\ Dependencies \in [Steps -> SUBSET Steps]
  /\ \A left \in SUBSET Steps : left # {} => \E s \in left : Dependencies[s] \cap left = {}

\* RetryPolicy.max_attempts is at least one.
ASSUME PolicyAssumption ==
  /\ Required \subseteq Steps
  /\ MaxAttempts \in [Steps -> Nat \ {0}]
  /\ Instants \subseteq Nat

VARIABLES
  session,    \* ExecutionSession.status
  run,        \* ExecutionRuntimeState.status; "none" before initialize_runtime
  cancelling, \* ExecutionRuntimeState.cancellation_requested
  updatedAt,  \* ExecutionRuntimeState.updated_at
  terminal,   \* the terminal RuntimeEvents emitted so far
  status, attempts, startedAt, retryAt, completedAt   \* RuntimeStepState

steps == <<status, attempts, startedAt, retryAt, completedAt>>
runtime == <<session, run, cancelling, updatedAt, terminal, steps>>

\* Statuses a step keeps, and those of them that its dependents cannot use.
Failed == {"failed", "skipped", "cancelled", "timed_out"}
StepTerminal == Failed \cup {"succeeded"}
StepOpen == {"blocked", "ready"}
StepStatus == StepTerminal \cup StepOpen \cup {"running"}

RunTerminal == {"succeeded", "partial", "failed", "cancelled", "timed_out"}
TerminalEvent == {"execution_completed", "execution_failed",
                  "execution_cancelled", "execution_timed_out"}
SessionStatus == {"created", "running", "cancelling", "completed", "failed",
                  "cancelled", "timed_out"}

Instant == {S \in SUBSET Nat : \A i, j \in S : i = j}

TypeOK ==
  /\ session \in SessionStatus
  /\ run \in {"none", "running"} \cup RunTerminal
  /\ cancelling \in BOOLEAN
  /\ updatedAt \in Nat
  /\ terminal \subseteq TerminalEvent
  /\ status \in [Steps -> StepStatus]
  /\ attempts \in [Steps -> Nat]
  /\ \A s \in Steps : attempts[s] <= MaxAttempts[s]
  /\ startedAt \in [Steps -> Instant]
  /\ retryAt \in [Steps -> Instant]
  /\ completedAt \in [Steps -> Instant]

Init ==
  /\ session = "created" /\ run = "none" /\ cancelling = FALSE
  /\ updatedAt = 0 /\ terminal = {}
  /\ status = [s \in Steps |-> "blocked"]
  /\ attempts = [s \in Steps |-> 0]
  /\ startedAt = [s \in Steps |-> {}]
  /\ retryAt = [s \in Steps |-> {}]
  /\ completedAt = [s \in Steps |-> {}]

--------------------------------------------------------------------------------
(* Scheduling queries *)

\* Faulty variant: a dependency must only not have failed.
NoDependencyFailed(st, s) == \A d \in Dependencies[s] : st[d] \notin Failed

DependenciesSucceeded(st, s) == \A d \in Dependencies[s] : st[d] = "succeeded"

\* Faulty variant: a blocked step is not looked at again.
IsReadyAlready(st, s, t) ==
  /\ ~cancelling
  /\ st[s] = "ready"
  /\ \A r \in retryAt[s] : r <= t
  /\ DependenciesSucceeded(st, s)

\* ready_step_ids: membership of step s at instant t.
IsReady(st, s, t) ==
  /\ ~cancelling
  /\ st[s] \in StepOpen
  /\ \A r \in retryAt[s] : r <= t
  /\ DependenciesSucceeded(st, s)

RefreshReady(st, t) == [s \in Steps |-> IF IsReady(st, s, t) THEN "ready" ELSE st[s]]

\* Faulty variant: only the direct dependents of the failed steps are skipped.
DirectDependents(st) ==
  {s \in Steps : st[s] \in StepOpen /\ \E d \in Dependencies[s] : st[d] \in Failed}

\* The open steps that a walk in topological order skips: the least set that
\* has every open step with a dependency that failed or is in the set.
FailedDependents(st) ==
  LET Open == {s \in Steps : st[s] \in StepOpen}
      Closed(X) == \A s \in Open : (\E d \in Dependencies[s] : st[d] \in Failed \/ d \in X) => s \in X
  IN  {s \in Open : \A X \in SUBSET Open : Closed(X) => s \in X}

PropagateFailed(st) == [s \in Steps |-> IF s \in FailedDependents(st) THEN "skipped" ELSE st[s]]

\* Faulty variant: skipped required steps do not count.
OutcomeOfFailures(st) ==
  IF \E s \in Required : st[s] = "timed_out" THEN "timed_out"
  ELSE IF \E s \in Required : st[s] \in {"failed", "cancelled"} THEN "failed"
  ELSE IF \E s \in Steps : st[s] # "succeeded" THEN "partial"
  ELSE "succeeded"

\* The status of an execution whose steps are all settled.
Outcome(st) ==
  IF \E s \in Required : st[s] = "timed_out" THEN "timed_out"
  ELSE IF \E s \in Required : st[s] \in {"failed", "cancelled", "skipped"} THEN "failed"
  ELSE IF \E s \in Steps : st[s] # "succeeded" THEN "partial"
  ELSE "succeeded"

SessionOf(outcome) == IF outcome \in {"timed_out", "failed"} THEN outcome ELSE "completed"

Settled(st) == \A s \in Steps : st[s] \in StepTerminal

\* Faulty variant: only a success ends the execution.
FinishIfSucceeded(st, event) ==
  IF \A s \in Steps : st[s] = "succeeded"
  THEN /\ run' = Outcome(st)
       /\ session' = SessionOf(Outcome(st))
       /\ terminal' = terminal \cup {event}
  ELSE UNCHANGED <<run, session, terminal>>

\* _finish_if_terminal, and the terminal event of the caller.
FinishIfTerminal(st, event) ==
  IF Settled(st)
  THEN /\ run' = Outcome(st)
       /\ session' = SessionOf(Outcome(st))
       /\ terminal' = terminal \cup {event}
  ELSE UNCHANGED <<run, session, terminal>>

--------------------------------------------------------------------------------
(* Transitions: t is the instant the caller supplies *)

InitializeRuntime(t) ==
  /\ session = "created"
  /\ session' = "running"
  /\ run' = "running"
  /\ updatedAt' = t
  /\ status' = [s \in Steps |-> IF Dependencies[s] = {} THEN "ready" ELSE "blocked"]
  /\ UNCHANGED <<cancelling, terminal, attempts, startedAt, retryAt, completedAt>>

MayDispatch(s, t) ==
  /\ run = "running"
  /\ ~cancelling /\ session # "cancelling"
  /\ updatedAt <= t
  /\ IsReady(status, s, t)
  /\ attempts[s] < MaxAttempts[s]

\* create_dispatch_request; its deadline belongs to the request, not the state.
CreateDispatchRequest(s, t) ==
  /\ MayDispatch(s, t)
  /\ status' = [status EXCEPT ![s] = "running"]
  /\ attempts' = [attempts EXCEPT ![s] = @ + 1]
  /\ startedAt' = [startedAt EXCEPT ![s] = {t}]
  /\ retryAt' = [retryAt EXCEPT ![s] = {}]
  /\ updatedAt' = t
  /\ UNCHANGED <<session, run, cancelling, terminal, completedAt>>

\* The result carries the attempt and the start instant of the running attempt.
MayComplete(s, attempt, started, t) ==
  /\ run # "none" /\ updatedAt <= t
  /\ status[s] = "running"
  /\ startedAt[s] = {started}
  /\ attempts[s] = attempt

\* complete_step: the instant is the completed_at of the result.
CompleteStep(s, attempt, started, t) ==
  /\ MayComplete(s, attempt, started, t)
  /\ LET st == RefreshReady([status EXCEPT ![s] = "succeeded"], t)
     IN  status' = st /\ FinishIfTerminal(st, "execution_completed")
  /\ completedAt' = [completedAt EXCEPT ![s] = {t}]
  /\ updatedAt' = t
  /\ UNCHANGED <<cancelling, attempts, startedAt, retryAt>>

\* fail_step of a retry decision with a delay.
ScheduleRetry(s, t, delay) ==
  /\ run # "none" /\ updatedAt <= t
  /\ status[s] = "running"
  /\ attempts[s] < MaxAttempts[s]
  /\ status' = [status EXCEPT ![s] = "blocked"]
  /\ startedAt' = [startedAt EXCEPT ![s] = {}]
  /\ retryAt' = [retryAt EXCEPT ![s] = {t + delay}]
  /\ updatedAt' = t
  /\ UNCHANGED <<session, run, cancelling, terminal, attempts, completedAt>>

\* fail_step without retry: the dependents are skipped with the step.
FailStep(s, t, category) ==
  /\ run # "none" /\ updatedAt <= t
  /\ status[s] = "running"
  /\ LET st == PropagateFailed([status EXCEPT ![s] = IF category = "timeout" THEN "timed_out"
                                                     ELSE "failed"])
     IN  /\ status' = st
         /\ FinishIfTerminal(st, IF Outcome(st) = "timed_out" THEN "execution_timed_out"
                                 ELSE "execution_failed")
         /\ completedAt' = [z \in Steps |-> IF z = s \/ st[z] # status[z] THEN {t} ELSE completedAt[z]]
  /\ updatedAt' = t
  /\ UNCHANGED <<cancelling, attempts, startedAt, retryAt>>

RequestCancellation(t) ==
  /\ run = "running" /\ ~cancelling
  /\ updatedAt <= t
  /\ cancelling' = TRUE
  /\ session' = "cancelling"
  /\ updatedAt' = t
  /\ UNCHANGED <<run, terminal, steps>>

Unsettled(st) == {s \in Steps : st[s] \notin StepTerminal}

ApplyCancellation(t) ==
  /\ run = "running" /\ cancelling
  /\ updatedAt <= t
  /\ status' = [s \in Steps |-> IF s \in Unsettled(status) THEN "cancelled" ELSE status[s]]
  /\ completedAt' = [s \in Steps |-> IF s \in Unsettled(status) THEN {t} ELSE completedAt[s]]
  /\ run' = "cancelled"
  /\ session' = "cancelled"
  /\ terminal' = terminal \cup {"execution_cancelled"}
  /\ updatedAt' = t
  /\ UNCHANGED <<cancelling, attempts, startedAt, retryAt>>

RuntimeNext ==
  \E t \in Instants :
    \/ InitializeRuntime(t)
    \/ RequestCancellation(t)
    \/ ApplyCancellation(t)
    \/ \E s \in Steps :
         \/ CreateDispatchRequest(s, t)
         \/ \E attempt, started \in Nat : CompleteStep(s, attempt, started, t)
         \/ \E delay \in Nat : ScheduleRetry(s, t, delay)
         \/ \E category \in {"timeout", "other"} : FailStep(s, t, category)

RuntimeSpec == Init /\ [][RuntimeNext]_runtime

--------------------------------------------------------------------------------
(* Properties *)

\* A step is offered, run or succeeds only after everything it depends on has
\* succeeded, whatever order the results of parallel branches arrive in.
WorkFollowsDependencies ==
  \A s \in Steps :
    status[s] \in {"ready", "running", "succeeded"} => \A d \in Dependencies[s] : status[d] = "succeeded"

\* No step of a running execution waits for a step that will not succeed: a
\* failure reaches every transitive dependent at once.
NothingWaitsOnAFailure ==
  \A s \in Steps : status[s] \in StepOpen => \A d \in Dependencies[s] : status[d] \notin Failed

\* The execution ends with its last step, and not before: no running execution
\* has all its steps settled, no ended one has a step left.  The session says
\* the same, and the end is announced exactly once.
EndsWithItsLastStep ==
  /\ run \in RunTerminal <=> Settled(status)
  /\ run \in RunTerminal => session = IF run = "cancelled" THEN run ELSE SessionOf(run)
  /\ run = "running" => session = IF cancelling THEN "cancelling" ELSE "running"
  /\ Cardinality(terminal) = IF run \in RunTerminal THEN 1 ELSE 0

\* The outcome is the one the settled steps give: full success only with every
\* step, partial success with every required one, failure only with a required
\* step that did not succeed, cancellation only if it was asked for.
OutcomeIsEarned ==
  /\ run = "succeeded" => \A s \in Steps : status[s] = "succeeded"
  /\ run = "partial" => /\ \A s \in Required : status[s] = "succeeded"
                        /\ \E s \in Steps : status[s] # "succeeded"
  /\ run \in {"failed", "timed_out"} => \E s \in Required : status[s] # "succeeded"
  /\ run = "cancelled" => cancelling

\* Steps are not all waiting for each other: while the execution runs and is
\* not being cancelled, a step is running or only its retry time is missing.
SomeStepCanMove ==
  run = "running" /\ ~cancelling =>
    \E s \in Steps : \/ status[s] = "running"
                     \/ /\ status[s] \in StepOpen
                        /\ \A d \in Dependencies[s] : status[d] = "succeeded"
                        /\ attempts[s] < MaxAttempts[s]

\* A settled step, and an ended execution, are never changed again: a late
\* result, a repeated report or a cancellation finds them closed.
SettledIsFinal ==
  [][ /\ \A s \in Steps : status[s] \in StepTerminal =>
           status'[s] = status[s] /\ completedAt'[s] = completedAt[s]
      /\ run \in RunTerminal => UNCHANGED <<run, session, terminal>> ]_runtime

\* After cancellation was requested no step is started, by any path.
NoStartAfterCancellation == [][cancelling => attempts' = attempts]_runtime
================================================================================
