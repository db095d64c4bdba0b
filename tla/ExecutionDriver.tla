---------------------------- MODULE ExecutionDriver ----------------------------
(***************************************************************************)
(* An execution run against a clock: the transitions of ExecutionRuntime,  *)
(* the retry decisions of app/execution/runtime.py, and the provider calls *)
(* of DeterministicProviderExecutor (app/execution/executor.py).           *)
(*                                                                         *)
(* No module of app/ owns the loop that calls these functions: it is the   *)
(* caller the signatures ask for, and external.  It dispatches ready       *)
(* steps, hands each dispatch to the executor, reports what the executor   *)
(* returns, gives up a step past its deadline (is_step_timed_out), cancels *)
(* an execution past its deadline (is_execution_timed_out) and may be      *)
(* asked to cancel at any time.  Calls run concurrently; a call or its     *)
(* answer may be lost.                                                     *)
(***************************************************************************)
EXTENDS ExecutionRuntime

CONSTANTS
  Timeout,            \* timeout_seconds of a step
  Deadlines,          \* deadlines a session may have: each is at most one instant
  InitialDelay, Multiplier, MaxDelay   \* RetryPolicy

ASSUME DriverAssumption ==
  /\ 0 \in Instants
  /\ Timeout \in Nat \ {0}
  /\ Deadlines \subseteq Instant
  /\ InitialDelay \in Nat /\ Multiplier \in Nat \ {0} /\ MaxDelay \in Nat

\* Powers of the multiplier are numbers; the prover knows nothing of them.
ASSUME BackoffAssumption ==
  \A s \in Steps : \A n \in 0..MaxAttempts[s] : Multiplier ^ n \in Nat

VARIABLES
  now,
  expiry,     \* ExecutionSession.deadline
  deadline,   \* DispatchRequest.deadline of the last dispatch of each step
  calls       \* the provider calls in flight and the answers not yet reported

clock == <<now, expiry>>
vars == <<runtime, clock, deadline, calls>>

\* An outcome names its error category, if it is one; an error may be retryable.
Outcomes == [category : {"none"}, retryable : {FALSE}]
              \cup [category : {"timeout", "other"}, retryable : BOOLEAN]
Late == [category |-> "timeout", retryable |-> TRUE]

Call == [step : Steps, attempt : Nat, deadline : Instant,
         stage : {"bound", "invoked", "answered"},
         started : Instants, completed : Instants, outcome : Outcomes]

DriverTypeOK ==
  /\ TypeOK
  /\ now \in Instants
  /\ expiry \in Deadlines
  /\ deadline \in [Steps -> Instant]
  /\ calls \subseteq Call

DriverInit ==
  /\ Init
  /\ now = 0
  /\ expiry \in Deadlines
  /\ deadline = [s \in Steps |-> {}]
  /\ calls = {}

\* decide_retry
DecideRetry(s, retryable) ==
  /\ ~cancelling
  /\ \A e \in expiry : now < e
  /\ retryable
  /\ attempts[s] < MaxAttempts[s]

Smaller(a, b) == IF a < b THEN a ELSE b

RetryDelay(attempt) ==
  Smaller(InitialDelay * Multiplier ^ (IF attempt > 0 THEN attempt - 1 ELSE 0), MaxDelay)

\* The caller reports a failure: fail_step with the decision on it.  fail_step
\* takes neither the attempt nor the dispatch the failure belongs to.
ReportFailure(s, outcome) ==
  IF DecideRetry(s, outcome.retryable)
  THEN ScheduleRetry(s, now, RetryDelay(attempts[s]))
  ELSE FailStep(s, now, outcome.category)

Start == InitializeRuntime(now) /\ UNCHANGED <<clock, deadline, calls>>

\* The caller names a deadline within the step timeout and the session deadline,
\* or none, which only a session without a deadline accepts.
DispatchDeadlines ==
  {x \in {{t} : t \in now..(now + Timeout)} \cup {{}} :
     \A e \in expiry : \E t \in x : t <= e}

\* A dispatch whose deadline is now is not bound to a provider (bind_dispatch).
Dispatch(s) ==
  /\ CreateDispatchRequest(s, now)
  /\ \E x \in DispatchDeadlines :
       /\ deadline' = [deadline EXCEPT ![s] = x]
       /\ calls' = IF now \in x THEN calls
                   ELSE calls \cup {[step |-> s, attempt |-> attempts[s] + 1, deadline |-> x,
                                     stage |-> "bound", started |-> now, completed |-> now,
                                     outcome |-> Late]}
  /\ UNCHANGED clock

\* Faulty variant: preflight looks at the step alone.
PreflightStepOnly(c) == status[c.step] = "running"

\* _validate_preflight: the step still runs this dispatch, and nobody cancelled.
Preflight(c) ==
  /\ session = "running" /\ run = "running"
  /\ status[c.step] = "running"
  /\ attempts[c.step] = c.attempt

Overdue(x) == \E t \in x : now >= t

Replace(c, d) == calls' = (calls \ {c}) \cup {d}

\* execute up to the await: refused, expired before the call, or invoked.
Execute(c) ==
  /\ c.stage = "bound"
  /\ \/ ~Preflight(c) /\ calls' = calls \ {c}
     \/ /\ Preflight(c) /\ Overdue(c.deadline)
        /\ Replace(c, [c EXCEPT !.stage = "answered", !.started = now, !.completed = now])
     \/ /\ Preflight(c) /\ ~Overdue(c.deadline)
        /\ Replace(c, [c EXCEPT !.stage = "invoked", !.started = now])
  /\ UNCHANGED <<runtime, clock, deadline>>

\* Faulty variant: the deadline is not looked at again.
NormalizedAnyTime(c, outcome) == outcome

\* What execute returns for an answer that arrives now: late ones are discarded.
Normalized(c, outcome) == IF Overdue(c.deadline) THEN Late ELSE outcome

\* The adapter answers, or raises: an error that is not retryable.
Answer(c, outcome) ==
  /\ c.stage = "invoked"
  /\ Replace(c, [c EXCEPT !.stage = "answered", !.completed = now,
                          !.outcome = Normalized(c, outcome)])
  /\ UNCHANGED <<runtime, clock, deadline>>

\* The caller reports an answer to the runtime.
Report(c) ==
  /\ c.stage = "answered"
  /\ \/ c.outcome.category = "none" /\ CompleteStep(c.step, c.attempt, c.started, c.completed)
     \/ c.outcome.category # "none" /\ ReportFailure(c.step, c.outcome)
  /\ calls' = calls \ {c}
  /\ UNCHANGED <<clock, deadline>>

\* The process of a call ends, its answer is lost or its report was refused.
Lose(c) == calls' = calls \ {c} /\ UNCHANGED <<runtime, clock, deadline>>

\* is_step_timed_out: the step has no answer and its deadline has passed.  A
\* step that was dispatched without a deadline is never given up.
GiveUp(s) ==
  /\ Overdue(deadline[s])
  /\ ReportFailure(s, Late)
  /\ UNCHANGED <<clock, deadline, calls>>

Cancel == RequestCancellation(now) /\ UNCHANGED <<clock, deadline, calls>>

\* is_execution_timed_out: the caller's answer is to cancel.
CancelOverdue == (\E e \in expiry : now >= e) /\ Cancel

Terminate == ApplyCancellation(now) /\ UNCHANGED <<clock, deadline, calls>>

\* Time passes while some instant is being waited for.
Awaited ==
  UNION ({retryAt[s] : s \in {z \in Steps : status[z] \in StepOpen}}
           \cup {deadline[s] : s \in {z \in Steps : status[z] = "running"}}
           \cup (IF run = "running" THEN {expiry} ELSE {}))

Tick ==
  /\ \E x \in Awaited : now < x
  /\ now + 1 \in Instants
  /\ now' = now + 1
  /\ UNCHANGED <<runtime, expiry, deadline, calls>>

DriverNext ==
  \/ Start
  \/ \E s \in Steps : Dispatch(s) \/ GiveUp(s)
  \/ \E c \in calls : \/ Execute(c)
                      \/ \E outcome \in Outcomes : Answer(c, outcome)
                      \/ Report(c)
                      \/ Lose(c)
  \/ Cancel
  \/ Terminate
  \/ Tick

DriverSpec == DriverInit /\ [][DriverNext]_vars

\* The caller keeps dispatching, giving up and finishing cancellations, and
\* time passes.  Nothing is assumed of providers, nor of their reports: a call
\* may stay unanswered, and an answer unreported, for ever.
Fairness ==
  /\ \A s \in Steps : WF_vars(Dispatch(s)) /\ WF_vars(GiveUp(s))
  /\ WF_vars(CancelOverdue)
  /\ WF_vars(Terminate)
  /\ WF_vars(Tick)

FairDriverSpec == DriverSpec /\ Fairness

--------------------------------------------------------------------------------
(* Properties *)

\* A step succeeds only with the output of the attempt that runs, produced
\* after it was dispatched and before its deadline, if it has one: output of an
\* attempt that was given up, or that came late, is never used.
SuccessIsTimely ==
  \A s \in Steps : status[s] = "succeeded" =>
    \A i \in startedAt[s], t \in completedAt[s] : i <= t /\ \A x \in deadline[s] : t < x

\* Once cancellation was requested no provider is called any more, although the
\* step still runs the dispatch that was made before it.
NoCallAfterCancellation ==
  [][\A c \in calls' \ calls : c.stage = "invoked" => ~cancelling]_vars

\* An execution that has started ends, even if no provider ever answers,
\* answers arrive in another order than they are reported, or reports are
\* refused; what can keep it running for ever is only a step that a session
\* without a deadline dispatched without one, since nothing gives that step up.
ExecutionEnds ==
  <>[](run = "running") => <>[](\E s \in Steps : status[s] = "running" /\ deadline[s] = {})
================================================================================
