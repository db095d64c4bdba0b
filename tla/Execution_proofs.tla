--------------------------- MODULE Execution_proofs ---------------------------
(***************************************************************************)
(* Safety of the execution runtime for every plan, every retry policy and  *)
(* every order of reports, and of the driver that runs it against a clock, *)
(* for every clock and deadline.                                           *)
(*                                                                         *)
(* The inductive invariant RuntimeInv is the conjunction of the safety     *)
(* properties with two facts they rest on: an open step has an attempt     *)
(* left, and nothing happened before initialize_runtime.  The driver       *)
(* implements the runtime, so DriverInv keeps RuntimeInv and adds what the *)
(* executor knows: late output is never used, and nothing is called after  *)
(* cancellation.                                                           *)
(***************************************************************************)
EXTENDS ExecutionDriver, FiniteSetTheorems, TLAPS

OpenHasAttempt == \A s \in Steps : status[s] \in StepOpen => attempts[s] < MaxAttempts[s]

NotBegun == session = "created" \/ run = "none" =>
              /\ session = "created" /\ run = "none" /\ ~cancelling
              /\ \A s \in Steps : status[s] = "blocked"

\* EndsWithItsLastStep, with the set of terminal events spelled out.
Announced == IF run \in RunTerminal THEN \E e \in TerminalEvent : terminal = {e} ELSE terminal = {}

EndKnown ==
  /\ run \in RunTerminal <=> Settled(status)
  /\ run \in RunTerminal => session = IF run = "cancelled" THEN run ELSE SessionOf(run)
  /\ run = "running" => session = IF cancelling THEN "cancelling" ELSE "running"
  /\ Announced

RuntimeInv ==
  /\ TypeOK
  /\ WorkFollowsDependencies
  /\ NothingWaitsOnAFailure
  /\ EndKnown
  /\ OutcomeIsEarned
  /\ OpenHasAttempt
  /\ NotBegun

--------------------------------------------------------------------------------
(* The queries *)

LEMMA InstantOne == \A t \in Nat : {t} \in Instant /\ {} \in Instant
BY DEF Instant

LEMMA StatusParts ==
  /\ StepOpen \cap StepTerminal = {} /\ Failed \subseteq StepTerminal
  /\ "running" \notin StepOpen \cup StepTerminal
  /\ "succeeded" \in StepTerminal \ Failed
  /\ StepStatus = StepTerminal \cup StepOpen \cup {"running"}
BY DEF StepOpen, StepTerminal, Failed, StepStatus

LEMMA OutcomeType ==
  ASSUME NEW st
  PROVE  /\ Outcome(st) \in RunTerminal \ {"cancelled"}
         /\ SessionOf(Outcome(st)) \in SessionStatus \ {"created"}
BY DEF Outcome, SessionOf, RunTerminal, SessionStatus

\* What a status vector says when it gives an outcome.
LEMMA OutcomeMeaning ==
  ASSUME NEW st
  PROVE  /\ Outcome(st) = "succeeded" => \A s \in Steps : st[s] = "succeeded"
         /\ Outcome(st) = "partial" => \E s \in Steps : st[s] # "succeeded"
         /\ Outcome(st) = "partial" /\ Settled(st) => \A s \in Required : st[s] = "succeeded"
         /\ Outcome(st) \in {"failed", "timed_out"} => \E s \in Required : st[s] # "succeeded"
BY PolicyAssumption DEF Outcome, Settled, StepTerminal, Failed

\* Refreshing offers open steps and touches nothing else.
LEMMA Refreshed ==
  ASSUME NEW st \in [Steps -> StepStatus], NEW t
  PROVE  /\ RefreshReady(st, t) \in [Steps -> StepStatus]
         /\ \A s \in Steps :
              \/ RefreshReady(st, t)[s] = st[s]
              \/ /\ st[s] \in StepOpen
                 /\ RefreshReady(st, t)[s] = "ready"
                 /\ \A d \in Dependencies[s] : st[d] = "succeeded"
BY DEF RefreshReady, IsReady, DependenciesSucceeded, StepStatus, StepOpen

\* The dependents of failed steps are open steps, and no other open step has a
\* dependency that failed or is one of them.
LEMMA Dependents ==
  ASSUME NEW st \in [Steps -> StepStatus]
  PROVE  /\ FailedDependents(st) \subseteq {s \in Steps : st[s] \in StepOpen}
         /\ \A s \in Steps, d \in Steps :
              /\ st[s] \in StepOpen /\ d \in Dependencies[s]
              /\ st[d] \in Failed \/ d \in FailedDependents(st)
              => s \in FailedDependents(st)
<1> DEFINE Open == {s \in Steps : st[s] \in StepOpen}
           Closed(X) == \A s \in Open :
             (\E d \in Dependencies[s] : st[d] \in Failed \/ d \in X) => s \in X
<1>1. FailedDependents(st) = {s \in Open : \A X \in SUBSET Open : Closed(X) => s \in X}
  BY DEF FailedDependents
<1>2. ASSUME NEW s \in Steps, NEW d \in Steps, st[s] \in StepOpen, d \in Dependencies[s],
             st[d] \in Failed \/ d \in FailedDependents(st),
             NEW X \in SUBSET Open, Closed(X)
      PROVE  s \in X
  BY <1>1, <1>2
<1> QED
  BY <1>1, <1>2

LEMMA Propagated ==
  ASSUME NEW st \in [Steps -> StepStatus]
  PROVE  /\ PropagateFailed(st) \in [Steps -> StepStatus]
         /\ \A s \in Steps : \/ PropagateFailed(st)[s] = st[s]
                             \/ st[s] \in StepOpen /\ PropagateFailed(st)[s] = "skipped"
         /\ \A s \in Steps : PropagateFailed(st)[s] \in StepOpen =>
              \A d \in Dependencies[s] : PropagateFailed(st)[d] \notin Failed
<1>1. \A s \in Steps : Dependencies[s] \subseteq Steps
  BY PlanAssumption
<1>2. \A s \in Steps : PropagateFailed(st)[s] =
        IF s \in FailedDependents(st) THEN "skipped" ELSE st[s]
  BY DEF PropagateFailed
<1>3. PropagateFailed(st) \in [Steps -> StepStatus]
  BY DEF PropagateFailed, StepStatus, StepTerminal, Failed
<1>4. "skipped" \notin StepOpen
  BY DEF StepOpen
<1> QED
  BY <1>1, <1>2, <1>3, <1>4, Dependents

--------------------------------------------------------------------------------
(* Actions.  Each lemma shows the whole invariant for one of them. *)

\* A settled step has reached the end of what may be said about it: with a
\* running step, an execution that began is running.
LEMMA RunsWithAStep ==
  ASSUME RuntimeInv, run # "none", NEW s \in Steps, status[s] = "running"
  PROVE  run = "running" /\ session # "created" /\ terminal = {}
<1>1. ~Settled(status)
  BY StatusParts DEF Settled
<1>2. run \notin RunTerminal
  BY <1>1 DEF RuntimeInv, EndKnown
<1>3. run = "running"
  BY <1>2 DEF RuntimeInv, TypeOK
<1> QED
  BY <1>2, <1>3 DEF RuntimeInv, EndKnown, Announced

\* The end of an execution, reached by the settling of its last step.
LEMMA Finishing ==
  ASSUME TypeOK, EndKnown, run = "running", UNCHANGED cancelling,
         NEW e \in TerminalEvent, FinishIfTerminal(status', e)
  PROVE  /\ run' \in {"running"} \cup RunTerminal /\ session' \in SessionStatus \ {"created"}
         /\ terminal' \subseteq TerminalEvent
         /\ EndKnown' /\ OutcomeIsEarned'
<1>0. "running" \notin RunTerminal /\ "none" \notin RunTerminal
  BY DEF RunTerminal
<1>1. terminal = {} /\ session = IF cancelling THEN "cancelling" ELSE "running"
  BY <1>0 DEF EndKnown, Announced
<1>2. CASE Settled(status')
  <2>1. /\ run' = Outcome(status') /\ session' = SessionOf(Outcome(status')) /\ terminal' = {e}
    BY <1>1, <1>2 DEF FinishIfTerminal
  <2>2. run' \in RunTerminal \ {"cancelled"} /\ session' \in SessionStatus \ {"created"}
    BY <2>1, OutcomeType
  <2>3. EndKnown'
    BY <1>0, <1>2, <2>1, <2>2 DEF EndKnown, Announced
  <2>4. OutcomeIsEarned'
    BY <1>2, <2>1, <2>2, OutcomeMeaning DEF OutcomeIsEarned
  <2> QED
    BY <2>1, <2>2, <2>3, <2>4
<1>3. CASE ~Settled(status')
  <2>1. run' = run /\ session' = session /\ terminal' = terminal
    BY <1>3 DEF FinishIfTerminal
  <2>2. EndKnown'
    BY <1>0, <1>1, <1>3, <2>1 DEF EndKnown, Announced
  <2>3. OutcomeIsEarned'
    BY <2>1 DEF OutcomeIsEarned
  <2>4. session \in SessionStatus \ {"created"}
    BY <1>1 DEF SessionStatus
  <2> QED
    BY <1>1, <2>1, <2>2, <2>3, <2>4
<1> QED
  BY <1>2, <1>3

LEMMA InitInv == Init => RuntimeInv
<1> SUFFICES ASSUME Init
             PROVE  RuntimeInv
  OBVIOUS
<1>1. TypeOK
  <2>1. /\ attempts \in [Steps -> Nat]
        /\ \A s \in Steps : attempts[s] <= MaxAttempts[s]
    BY PolicyAssumption DEF Init
  <2>2. /\ startedAt \in [Steps -> Instant] /\ retryAt \in [Steps -> Instant]
        /\ completedAt \in [Steps -> Instant]
    BY InstantOne DEF Init
  <2> QED
    BY <2>1, <2>2 DEF Init, TypeOK, SessionStatus, StepStatus, StepOpen
<1>2. ~Settled(status)
  BY PlanAssumption DEF Init, Settled, StepTerminal, Failed
<1>3. WorkFollowsDependencies /\ NothingWaitsOnAFailure
  BY PlanAssumption DEF Init, WorkFollowsDependencies, NothingWaitsOnAFailure, Failed
<1>4. EndKnown /\ OutcomeIsEarned
  BY <1>2 DEF Init, EndKnown, Announced, OutcomeIsEarned, RunTerminal
<1>5. OpenHasAttempt /\ NotBegun
  BY PolicyAssumption DEF Init, OpenHasAttempt, NotBegun
<1> QED
  BY <1>1, <1>3, <1>4, <1>5 DEF RuntimeInv

LEMMA InitializeInv ==
  ASSUME RuntimeInv, NEW t \in Instants, InitializeRuntime(t)
  PROVE  RuntimeInv'
<1> USE DEF InitializeRuntime
<1>0. run = "none" /\ ~cancelling /\ \A s \in Steps : status[s] = "blocked"
  BY DEF RuntimeInv, NotBegun
<1>1. TypeOK'
  BY PolicyAssumption DEF RuntimeInv, TypeOK, SessionStatus, StepStatus, StepOpen
<1>2. \A s \in Steps : /\ status'[s] \in {"ready", "blocked"}
                       /\ status'[s] = "ready" => Dependencies[s] = {}
  OBVIOUS
<1>3. ~Settled(status')
  BY <1>2, PlanAssumption DEF Settled, StepTerminal, Failed
<1>4. WorkFollowsDependencies' /\ NothingWaitsOnAFailure'
  BY <1>2, PlanAssumption DEF WorkFollowsDependencies, NothingWaitsOnAFailure, Failed
<1>5. terminal = {}
  BY <1>0 DEF RuntimeInv, EndKnown, Announced, RunTerminal
<1>6. EndKnown' /\ OutcomeIsEarned'
  BY <1>0, <1>3, <1>5 DEF EndKnown, Announced, OutcomeIsEarned, RunTerminal
<1>7. OpenHasAttempt' /\ NotBegun'
  BY <1>0 DEF RuntimeInv, OpenHasAttempt, NotBegun, StepOpen
<1> QED
  BY <1>1, <1>4, <1>6, <1>7 DEF RuntimeInv

LEMMA DispatchInv ==
  ASSUME RuntimeInv, NEW t \in Instants, NEW s \in Steps, CreateDispatchRequest(s, t)
  PROVE  RuntimeInv'
<1> USE DEF CreateDispatchRequest
<1>0. /\ run = "running" /\ status[s] \in StepOpen /\ attempts[s] < MaxAttempts[s]
      /\ \A d \in Dependencies[s] : status[d] = "succeeded"
  BY DEF MayDispatch, IsReady, DependenciesSucceeded
<1>1. TypeOK'
  <2>1. /\ attempts' \in [Steps -> Nat]
        /\ \A z \in Steps : attempts'[z] <= MaxAttempts[z]
    <3>1. attempts \in [Steps -> Nat] /\ \A z \in Steps : attempts[z] <= MaxAttempts[z]
      BY DEF RuntimeInv, TypeOK
    <3>2. MaxAttempts[s] \in Nat /\ attempts[s] \in Nat
      BY <3>1, PolicyAssumption
    <3>3. attempts[s] + 1 \in Nat /\ attempts[s] + 1 <= MaxAttempts[s]
      BY <1>0, <3>2
    <3>4. \A z \in Steps : attempts'[z] = IF z = s THEN attempts[s] + 1 ELSE attempts[z]
      BY <3>1
    <3>5. attempts' \in [Steps -> Nat]
      BY <3>1, <3>3
    <3> QED
      BY <3>1, <3>3, <3>4, <3>5
  <2>2. {t} \in Instant /\ {} \in Instant /\ t \in Nat
    BY PolicyAssumption, InstantOne
  <2>3. startedAt' \in [Steps -> Instant] /\ retryAt' \in [Steps -> Instant]
    BY <2>2 DEF RuntimeInv, TypeOK
  <2>4. status' \in [Steps -> StepStatus]
    BY StatusParts DEF RuntimeInv, TypeOK
  <2> QED
    BY <2>1, <2>2, <2>3, <2>4 DEF RuntimeInv, TypeOK
<1>2. status \in [Steps -> StepStatus] /\ \A z \in Steps : Dependencies[z] \subseteq Steps
  BY PlanAssumption DEF RuntimeInv, TypeOK
<1>3. \A z \in Steps : status'[z] = IF z = s THEN "running" ELSE status[z]
  BY <1>2
<1>4. ~Settled(status')
  BY <1>3, StatusParts DEF Settled
<1>5. WorkFollowsDependencies'
  BY <1>0, <1>2, <1>3, StatusParts DEF RuntimeInv, WorkFollowsDependencies, StepOpen
<1>6. NothingWaitsOnAFailure'
  BY <1>2, <1>3, StatusParts DEF RuntimeInv, NothingWaitsOnAFailure
<1>7. EndKnown' /\ OutcomeIsEarned'
  BY <1>0, <1>4 DEF RuntimeInv, EndKnown, Announced, OutcomeIsEarned, RunTerminal
<1>8. OpenHasAttempt' /\ NotBegun'
  BY <1>0, <1>3, StatusParts DEF RuntimeInv, OpenHasAttempt, NotBegun, TypeOK
<1> QED
  BY <1>1, <1>5, <1>6, <1>7, <1>8 DEF RuntimeInv

LEMMA CompleteInv ==
  ASSUME RuntimeInv, NEW t \in Instants, NEW s \in Steps, NEW n, NEW i, CompleteStep(s, n, i, t)
  PROVE  RuntimeInv'
<1> DEFINE st == [status EXCEPT ![s] = "succeeded"]
<1>0. /\ status[s] = "running" /\ run = "running"
      /\ \A d \in Dependencies[s] : status[d] = "succeeded"
  BY RunsWithAStep DEF CompleteStep, MayComplete, RuntimeInv, WorkFollowsDependencies
<1>1. /\ status' = RefreshReady(st, t) /\ FinishIfTerminal(status', "execution_completed")
      /\ UNCHANGED <<cancelling, attempts, startedAt, retryAt>>
      /\ completedAt' = [completedAt EXCEPT ![s] = {t}] /\ updatedAt' = t
  BY DEF CompleteStep
<1>2. status \in [Steps -> StepStatus] /\ st \in [Steps -> StepStatus]
      /\ \A z \in Steps : Dependencies[z] \subseteq Steps
  BY PlanAssumption, StatusParts DEF RuntimeInv, TypeOK
<1>3. \A z \in Steps : st[z] = IF z = s THEN "succeeded" ELSE status[z]
  BY <1>2
<1> HIDE DEF st
<1>4. /\ status' \in [Steps -> StepStatus]
      /\ \A z \in Steps :
           \/ status'[z] = st[z]
           \/ /\ st[z] \in StepOpen /\ status'[z] = "ready"
              /\ \A d \in Dependencies[z] : st[d] = "succeeded"
  BY <1>1, <1>2, Refreshed
<1>5. "succeeded" \notin StepOpen /\ "ready" \in StepOpen /\ "running" \notin StepOpen
      /\ "succeeded" \notin Failed /\ StepOpen \cap Failed = {} /\ "ready" \notin StepTerminal
  BY DEF StepOpen, Failed, StepTerminal
<1>6. \A z \in Steps : /\ status[z] = "succeeded" => status'[z] = "succeeded"
                       /\ st[z] = "succeeded" => status'[z] = "succeeded"
  BY <1>0, <1>3, <1>4, <1>5
<1>7. WorkFollowsDependencies'
  <2> SUFFICES ASSUME NEW z \in Steps, status'[z] \in {"ready", "running", "succeeded"},
                      NEW d \in Dependencies[z]
               PROVE  status'[d] = "succeeded"
    BY DEF WorkFollowsDependencies
  <2>1. st[d] = "succeeded" \/ status[d] = "succeeded"
    BY <1>0, <1>3, <1>4 DEF RuntimeInv, WorkFollowsDependencies
  <2> QED
    BY <1>2, <1>6, <2>1
<1>8. NothingWaitsOnAFailure'
  <2> SUFFICES ASSUME NEW z \in Steps, status'[z] \in StepOpen, NEW d \in Dependencies[z]
               PROVE  status'[d] \notin Failed
    BY DEF NothingWaitsOnAFailure
  <2>1. status[z] \in StepOpen /\ d \in Steps
    BY <1>2, <1>3, <1>4, <1>5
  <2>2. status[d] \notin Failed
    BY <2>1 DEF RuntimeInv, NothingWaitsOnAFailure
  <2> QED
    BY <1>3, <1>4, <1>5, <2>1, <2>2
<1>9. /\ run' \in {"running"} \cup RunTerminal /\ session' \in SessionStatus \ {"created"}
      /\ terminal' \subseteq TerminalEvent /\ EndKnown' /\ OutcomeIsEarned'
  BY <1>0, <1>1, Finishing DEF RuntimeInv, TerminalEvent
<1>10. TypeOK'
  <2>1. {t} \in Instant /\ t \in Nat
    BY PolicyAssumption, InstantOne
  <2>2. completedAt' \in [Steps -> Instant]
    BY <1>1, <2>1 DEF RuntimeInv, TypeOK
  <2> QED
    BY <1>1, <1>4, <1>9, <2>1, <2>2 DEF RuntimeInv, TypeOK
<1>11. OpenHasAttempt' /\ NotBegun'
  BY <1>1, <1>3, <1>4, <1>5, <1>9 DEF RuntimeInv, OpenHasAttempt, NotBegun, RunTerminal
<1> QED
  BY <1>7, <1>8, <1>9, <1>10, <1>11 DEF RuntimeInv

LEMMA RetryInv ==
  ASSUME RuntimeInv, NEW t \in Instants, NEW s \in Steps, NEW delay \in Nat,
         ScheduleRetry(s, t, delay)
  PROVE  RuntimeInv'
<1> USE DEF ScheduleRetry
<1>0. /\ run = "running" /\ status[s] = "running"
      /\ \A d \in Dependencies[s] : status[d] = "succeeded"
  BY RunsWithAStep DEF RuntimeInv, WorkFollowsDependencies
<1>1. TypeOK'
  <2>1. {t + delay} \in Instant /\ {} \in Instant /\ t \in Nat
    BY PolicyAssumption, InstantOne
  <2>2. startedAt' \in [Steps -> Instant] /\ retryAt' \in [Steps -> Instant]
    BY <2>1 DEF RuntimeInv, TypeOK
  <2>3. status' \in [Steps -> StepStatus]
    BY DEF RuntimeInv, TypeOK, StepStatus, StepOpen
  <2> QED
    BY <2>1, <2>2, <2>3 DEF RuntimeInv, TypeOK
<1>2. status \in [Steps -> StepStatus] /\ \A z \in Steps : Dependencies[z] \subseteq Steps
  BY PlanAssumption DEF RuntimeInv, TypeOK
<1>3. \A z \in Steps : status'[z] = IF z = s THEN "blocked" ELSE status[z]
  BY <1>2
<1>4. "blocked" \in StepOpen /\ "blocked" \notin StepTerminal /\ Failed \subseteq StepTerminal
      /\ "succeeded" \notin Failed
  BY DEF StepOpen, StepTerminal, Failed
<1>5. ~Settled(status')
  BY <1>3, <1>4 DEF Settled
<1>6. WorkFollowsDependencies'
  BY <1>0, <1>2, <1>3 DEF RuntimeInv, WorkFollowsDependencies
<1>7. NothingWaitsOnAFailure'
  BY <1>0, <1>2, <1>3, <1>4 DEF RuntimeInv, NothingWaitsOnAFailure
<1>8. EndKnown' /\ OutcomeIsEarned'
  BY <1>0, <1>5 DEF RuntimeInv, EndKnown, Announced, OutcomeIsEarned, RunTerminal
<1>9. OpenHasAttempt' /\ NotBegun'
  BY <1>0, <1>3 DEF RuntimeInv, OpenHasAttempt, NotBegun
<1> QED
  BY <1>1, <1>6, <1>7, <1>8, <1>9 DEF RuntimeInv

LEMMA FailInv ==
  ASSUME RuntimeInv, NEW t \in Instants, NEW s \in Steps, NEW category, FailStep(s, t, category)
  PROVE  RuntimeInv'
<1> DEFINE verdict == IF category = "timeout" THEN "timed_out" ELSE "failed"
           st == [status EXCEPT ![s] = verdict]
<1>0. /\ status[s] = "running" /\ run = "running"
      /\ verdict \in Failed
  <2>1. run # "none" /\ status[s] = "running"
    BY DEF FailStep
  <2> QED
    BY <2>1, RunsWithAStep DEF Failed
<1>1. /\ status' = PropagateFailed(st)
      /\ \E e \in {"execution_timed_out", "execution_failed"} : FinishIfTerminal(status', e)
      /\ UNCHANGED <<cancelling, attempts, startedAt, retryAt>>
      /\ completedAt' = [z \in Steps |->
                           IF z = s \/ status'[z] # status[z] THEN {t} ELSE completedAt[z]]
      /\ updatedAt' = t
  BY DEF FailStep
<1>2. status \in [Steps -> StepStatus] /\ st \in [Steps -> StepStatus]
      /\ \A z \in Steps : Dependencies[z] \subseteq Steps
  BY <1>0, PlanAssumption, StatusParts DEF RuntimeInv, TypeOK
<1>3. \A z \in Steps : st[z] = IF z = s THEN verdict ELSE status[z]
  BY <1>2
<1> HIDE DEF st, verdict
<1>4. /\ status' \in [Steps -> StepStatus]
      /\ \A z \in Steps : \/ status'[z] = st[z]
                          \/ st[z] \in StepOpen /\ status'[z] = "skipped"
      /\ NothingWaitsOnAFailure'
  BY <1>1, <1>2, Propagated DEF NothingWaitsOnAFailure
<1>5. "succeeded" \notin StepOpen /\ Failed \cap {"ready", "running", "succeeded"} = {}
      /\ "skipped" \in Failed /\ StepOpen \cap Failed = {}
  BY DEF StepOpen, Failed
<1>6. WorkFollowsDependencies'
  <2> SUFFICES ASSUME NEW z \in Steps, status'[z] \in {"ready", "running", "succeeded"},
                      NEW d \in Dependencies[z]
               PROVE  status'[d] = "succeeded"
    BY DEF WorkFollowsDependencies
  <2>1. status[z] \in {"ready", "running", "succeeded"}
    BY <1>0, <1>3, <1>4, <1>5
  <2>2. status[d] = "succeeded" /\ d \in Steps
    BY <1>2, <2>1 DEF RuntimeInv, WorkFollowsDependencies
  <2> QED
    BY <1>0, <1>3, <1>4, <1>5, <2>2
<1>7. /\ run' \in {"running"} \cup RunTerminal /\ session' \in SessionStatus \ {"created"}
      /\ terminal' \subseteq TerminalEvent /\ EndKnown' /\ OutcomeIsEarned'
  <2>1. PICK e \in {"execution_timed_out", "execution_failed"} : FinishIfTerminal(status', e)
    BY <1>1
  <2>2. e \in TerminalEvent
    BY DEF TerminalEvent
  <2> QED
    BY <1>0, <1>1, <2>1, <2>2, Finishing DEF RuntimeInv
<1>8. TypeOK'
  <2>1. {t} \in Instant /\ t \in Nat
    BY PolicyAssumption, InstantOne
  <2>2. completedAt' \in [Steps -> Instant]
    BY <1>1, <2>1 DEF RuntimeInv, TypeOK
  <2> QED
    BY <1>1, <1>4, <1>7, <2>1, <2>2 DEF RuntimeInv, TypeOK
<1>9. OpenHasAttempt' /\ NotBegun'
  BY <1>0, <1>1, <1>3, <1>4, <1>5, <1>7 DEF RuntimeInv, OpenHasAttempt, NotBegun, RunTerminal
<1> QED
  BY <1>4, <1>6, <1>7, <1>8, <1>9 DEF RuntimeInv

LEMMA RequestInv ==
  ASSUME RuntimeInv, NEW t \in Instants, RequestCancellation(t)
  PROVE  RuntimeInv'
<1> USE DEF RequestCancellation
<1>1. TypeOK'
  BY PolicyAssumption DEF RuntimeInv, TypeOK, SessionStatus, steps
<1>2. WorkFollowsDependencies' /\ NothingWaitsOnAFailure' /\ OpenHasAttempt'
  BY DEF RuntimeInv, WorkFollowsDependencies, NothingWaitsOnAFailure, OpenHasAttempt, steps
<1>3. EndKnown' /\ OutcomeIsEarned' /\ NotBegun'
  BY DEF RuntimeInv, EndKnown, Announced, Settled, OutcomeIsEarned, NotBegun, RunTerminal, steps
<1> QED
  BY <1>1, <1>2, <1>3 DEF RuntimeInv

LEMMA CancelInv ==
  ASSUME RuntimeInv, NEW t \in Instants, ApplyCancellation(t)
  PROVE  RuntimeInv'
<1> USE DEF ApplyCancellation
<1>1. /\ status \in [Steps -> StepStatus] /\ \A z \in Steps : Dependencies[z] \subseteq Steps
      /\ run = "running" /\ terminal = {}
  BY PlanAssumption DEF RuntimeInv, TypeOK, EndKnown, Announced, RunTerminal
<1>2. \A z \in Steps : status'[z] = IF status[z] \in StepTerminal THEN status[z] ELSE "cancelled"
  BY DEF Unsettled
<1>3. "cancelled" \in StepTerminal /\ StepOpen \cap StepTerminal = {}
  BY DEF StepTerminal, Failed, StepOpen
<1>4. Settled(status') /\ \A z \in Steps : status'[z] \notin StepOpen
  BY <1>2, <1>3 DEF Settled
<1>5. TypeOK'
  <2>1. {t} \in Instant /\ t \in Nat
    BY PolicyAssumption, InstantOne
  <2>2. completedAt' \in [Steps -> Instant]
    BY <2>1 DEF RuntimeInv, TypeOK
  <2>3. status' \in [Steps -> StepStatus]
    BY <1>1, <1>3, StatusParts
  <2> QED
    BY <2>1, <2>2, <2>3 DEF RuntimeInv, TypeOK, SessionStatus, RunTerminal, TerminalEvent
<1>6. WorkFollowsDependencies' /\ NothingWaitsOnAFailure' /\ OpenHasAttempt'
  BY <1>1, <1>2, <1>3, <1>4
  DEF RuntimeInv, WorkFollowsDependencies, NothingWaitsOnAFailure, OpenHasAttempt, StepTerminal
<1>7. EndKnown' /\ OutcomeIsEarned' /\ NotBegun'
  BY <1>1, <1>4 DEF EndKnown, Announced, OutcomeIsEarned, NotBegun, RunTerminal, TerminalEvent
<1> QED
  BY <1>5, <1>6, <1>7 DEF RuntimeInv

LEMMA StepInv == RuntimeInv /\ [RuntimeNext]_runtime => RuntimeInv'
<1> SUFFICES ASSUME RuntimeInv, [RuntimeNext]_runtime
             PROVE  RuntimeInv'
  OBVIOUS
<1>1. CASE RuntimeNext
  <2> PICK t \in Instants :
        \/ InitializeRuntime(t)
        \/ RequestCancellation(t)
        \/ ApplyCancellation(t)
        \/ \E s \in Steps :
             \/ CreateDispatchRequest(s, t)
             \/ \E attempt, started \in Nat : CompleteStep(s, attempt, started, t)
             \/ \E delay \in Nat : ScheduleRetry(s, t, delay)
             \/ \E category \in {"timeout", "other"} : FailStep(s, t, category)
    BY <1>1 DEF RuntimeNext
  <2> QED
    BY InitializeInv, RequestInv, CancelInv, DispatchInv, CompleteInv, RetryInv, FailInv
<1>2. CASE UNCHANGED runtime
  BY <1>2 DEF runtime, steps, RuntimeInv, TypeOK, WorkFollowsDependencies, NothingWaitsOnAFailure,
              EndKnown, Announced, Settled, OutcomeIsEarned, OpenHasAttempt, NotBegun
<1> QED
  BY <1>1, <1>2

--------------------------------------------------------------------------------
(* Theorems *)

\* The inductive invariant holds in every behaviour of the runtime.
THEOREM RuntimeInvariance == RuntimeSpec => []RuntimeInv
BY InitInv, StepInv, PTL DEF RuntimeSpec

\* Sessions, events and step states keep their types, and no step is tried more
\* often than its retry policy allows.
THEOREM RuntimeTypeCorrect == RuntimeSpec => []TypeOK
<1>1. RuntimeInv => TypeOK
  BY DEF RuntimeInv
<1> QED
  BY <1>1, RuntimeInvariance, PTL

\* scheduler.ready_step_ids: no step is offered, run or successful before all
\* its dependencies succeeded.
THEOREM DependenciesFirst == RuntimeSpec => []WorkFollowsDependencies
<1>1. RuntimeInv => WorkFollowsDependencies
  BY DEF RuntimeInv
<1> QED
  BY <1>1, RuntimeInvariance, PTL

\* _propagate_failed_dependencies: one pass leaves no open step behind a step
\* that failed, however long the path between them.
THEOREM FailuresReachDependents == RuntimeSpec => []NothingWaitsOnAFailure
<1>1. RuntimeInv => NothingWaitsOnAFailure
  BY DEF RuntimeInv
<1> QED
  BY <1>1, RuntimeInvariance, PTL

\* _finish_if_terminal and apply_cancellation: an execution ends exactly when its
\* last step is settled; the session agrees and the end is announced once.
THEOREM EndsOnce == RuntimeSpec => []EndsWithItsLastStep
<1>1. ASSUME RuntimeInv
      PROVE  EndsWithItsLastStep
  <2>1. EndKnown
    BY <1>1 DEF RuntimeInv
  <2>2. Cardinality(terminal) = IF run \in RunTerminal THEN 1 ELSE 0
    <3>1. CASE run \in RunTerminal
      <4>1. PICK e \in TerminalEvent : terminal = {e}
        BY <2>1, <3>1 DEF EndKnown, Announced
      <4> QED
        BY <3>1, <4>1, FS_Singleton
    <3>2. CASE run \notin RunTerminal
      <4>1. terminal = {}
        BY <2>1, <3>2 DEF EndKnown, Announced
      <4> QED
        BY <3>2, <4>1, FS_EmptySet
    <3> QED
      BY <3>1, <3>2
  <2> QED
    BY <2>1, <2>2 DEF EndKnown, EndsWithItsLastStep
<1> QED
  BY <1>1, RuntimeInvariance, PTL

\* _finish_if_terminal: the outcome is the one that the settled steps give.
THEOREM OutcomesAreEarned == RuntimeSpec => []OutcomeIsEarned
<1>1. RuntimeInv => OutcomeIsEarned
  BY DEF RuntimeInv
<1> QED
  BY <1>1, RuntimeInvariance, PTL

\* The steps of a running plan never all wait for each other: among those that
\* are not settled, one depends on none of the others.
THEOREM NoStepDeadlock == RuntimeSpec => []SomeStepCanMove
<1>1. ASSUME RuntimeInv
      PROVE  SomeStepCanMove
  <2> SUFFICES ASSUME run = "running", ~cancelling
               PROVE  \E s \in Steps : \/ status[s] = "running"
                                       \/ /\ status[s] \in StepOpen
                                          /\ \A d \in Dependencies[s] : status[d] = "succeeded"
                                          /\ attempts[s] < MaxAttempts[s]
    BY DEF SomeStepCanMove
  <2> DEFINE left == {s \in Steps : status[s] \notin StepTerminal}
  <2>1. left # {}
    BY <1>1 DEF RuntimeInv, EndKnown, Settled, RunTerminal
  <2>2. PICK s \in left : Dependencies[s] \cap left = {}
    <3>1. left \in SUBSET Steps
      OBVIOUS
    <3> QED
      BY <2>1, <3>1, PlanAssumption
  <2>3. CASE status[s] \in StepOpen
    <3>1. \A d \in Dependencies[s] : d \in Steps /\ status[d] \in StepTerminal
      BY <2>2, PlanAssumption
    <3>2. \A d \in Dependencies[s] : status[d] \notin Failed
      BY <1>1, <2>2, <2>3 DEF RuntimeInv, NothingWaitsOnAFailure
    <3>3. \A d \in Dependencies[s] : status[d] = "succeeded"
      BY <3>1, <3>2 DEF StepTerminal
    <3>4. attempts[s] < MaxAttempts[s]
      BY <1>1, <2>2, <2>3 DEF RuntimeInv, OpenHasAttempt
    <3> QED
      BY <2>2, <2>3, <3>3, <3>4
  <2>4. status[s] \in StepOpen \/ status[s] = "running"
    BY <1>1, <2>2, StatusParts DEF RuntimeInv, TypeOK
  <2> QED
    BY <2>2, <2>3, <2>4
<1> QED
  BY <1>1, RuntimeInvariance, PTL

\* The steps an action may touch, and whether it may run at all once the
\* execution has ended.
LEMMA OnlyOpenChange ==
  ASSUME RuntimeInv, RuntimeNext
  PROVE  /\ run \notin RunTerminal
         /\ \A s \in Steps : status[s] \in StepTerminal =>
              status'[s] = status[s] /\ completedAt'[s] = completedAt[s]
<1>0. status \in [Steps -> StepStatus] /\ completedAt \in [Steps -> Instant]
  BY DEF RuntimeInv, TypeOK
<1>1. PICK t \in Instants :
        \/ InitializeRuntime(t)
        \/ RequestCancellation(t)
        \/ ApplyCancellation(t)
        \/ \E s \in Steps :
             \/ CreateDispatchRequest(s, t)
             \/ \E attempt, started \in Nat : CompleteStep(s, attempt, started, t)
             \/ \E delay \in Nat : ScheduleRetry(s, t, delay)
             \/ \E category \in {"timeout", "other"} : FailStep(s, t, category)
  BY DEF RuntimeNext
<1>2. CASE InitializeRuntime(t)
  BY <1>2 DEF InitializeRuntime, RuntimeInv, NotBegun, RunTerminal, StepTerminal, Failed
<1>3. CASE RequestCancellation(t)
  BY <1>3 DEF RequestCancellation, RunTerminal, steps
<1>4. CASE ApplyCancellation(t)
  BY <1>0, <1>4 DEF ApplyCancellation, Unsettled, RunTerminal
<1>5. ASSUME NEW s \in Steps,
             \/ CreateDispatchRequest(s, t)
             \/ \E attempt, started \in Nat : CompleteStep(s, attempt, started, t)
             \/ \E delay \in Nat : ScheduleRetry(s, t, delay)
             \/ \E category \in {"timeout", "other"} : FailStep(s, t, category)
      PROVE  /\ run \notin RunTerminal
             /\ \A z \in Steps : status[z] \in StepTerminal =>
                  status'[z] = status[z] /\ completedAt'[z] = completedAt[z]
  <2>1. CASE CreateDispatchRequest(s, t)
    BY <1>0, <2>1, StatusParts DEF CreateDispatchRequest, MayDispatch, IsReady, RunTerminal
  <2>2. CASE \E attempt, started \in Nat : CompleteStep(s, attempt, started, t)
    <3>1. status[s] = "running" /\ run # "none"
      BY <2>2 DEF CompleteStep, MayComplete
    <3>2. run = "running"
      BY <3>1, RunsWithAStep
    <3> DEFINE st == [status EXCEPT ![s] = "succeeded"]
    <3>3. status' = RefreshReady(st, t) /\ completedAt' = [completedAt EXCEPT ![s] = {t}]
      BY <2>2 DEF CompleteStep
    <3>4. st \in [Steps -> StepStatus] /\ \A z \in Steps \ {s} : st[z] = status[z]
      BY <1>0, StatusParts
    <3>5. \A z \in Steps : status'[z] = st[z] \/ st[z] \in StepOpen
      BY <3>3, <3>4, Refreshed
    <3> QED
      BY <1>0, <3>1, <3>2, <3>3, <3>4, <3>5, StatusParts DEF RunTerminal
  <2>3. CASE \E delay \in Nat : ScheduleRetry(s, t, delay)
    <3>1. /\ status[s] = "running" /\ run # "none"
          /\ status' = [status EXCEPT ![s] = "blocked"] /\ completedAt' = completedAt
      BY <2>3 DEF ScheduleRetry
    <3>2. run = "running"
      BY <3>1, RunsWithAStep
    <3> QED
      BY <1>0, <3>1, <3>2, StatusParts DEF RunTerminal
  <2>4. CASE \E category \in {"timeout", "other"} : FailStep(s, t, category)
    <3>1. PICK category \in {"timeout", "other"} : FailStep(s, t, category)
      BY <2>4
    <3> DEFINE st == [status EXCEPT ![s] = IF category = "timeout" THEN "timed_out" ELSE "failed"]
    <3>2. /\ status[s] = "running" /\ run # "none"
          /\ status' = PropagateFailed(st)
          /\ completedAt' = [z \in Steps |->
                               IF z = s \/ status'[z] # status[z] THEN {t} ELSE completedAt[z]]
      BY <3>1 DEF FailStep
    <3>3. run = "running"
      BY <3>2, RunsWithAStep
    <3>4. st \in [Steps -> StepStatus] /\ \A z \in Steps \ {s} : st[z] = status[z]
      BY <1>0, StatusParts DEF Failed
    <3>5. \A z \in Steps : status'[z] = st[z] \/ st[z] \in StepOpen
      BY <3>2, <3>4, Propagated
    <3>6. \A z \in Steps : status[z] \in StepTerminal => z # s /\ status'[z] = status[z]
      BY <3>2, <3>4, <3>5, StatusParts
    <3> QED
      BY <3>2, <3>3, <3>6 DEF RunTerminal
  <2> QED
    BY <1>5, <2>1, <2>2, <2>3, <2>4
<1> QED
  BY <1>1, <1>2, <1>3, <1>4, <1>5

\* complete_step, fail_step and apply_cancellation: what is settled, a step or
\* the whole execution, is never changed again.
THEOREM SettledStaysSettled == RuntimeSpec => SettledIsFinal
<1> DEFINE Closed == /\ \A s \in Steps : status[s] \in StepTerminal =>
                          status'[s] = status[s] /\ completedAt'[s] = completedAt[s]
                     /\ run \in RunTerminal => UNCHANGED <<run, session, terminal>>
<1>1. RuntimeInv /\ [RuntimeNext]_runtime => [Closed]_runtime
  BY OnlyOpenChange
<1>2. SettledIsFinal <=> [][Closed]_runtime
  BY DEF SettledIsFinal
<1> HIDE DEF Closed
<1> QED
  BY <1>1, <1>2, RuntimeInvariance, PTL DEF RuntimeSpec

\* create_dispatch_request refuses a cancelling execution: no attempt starts
\* after a cancellation was requested.
THEOREM NoStartOnceCancelled == RuntimeSpec => NoStartAfterCancellation
<1> DEFINE Stays == cancelling => attempts' = attempts
<1>1. ASSUME RuntimeNext
      PROVE  Stays
  <2>1. PICK t \in Instants :
        \/ InitializeRuntime(t)
        \/ RequestCancellation(t)
        \/ ApplyCancellation(t)
        \/ \E s \in Steps :
             \/ CreateDispatchRequest(s, t)
             \/ \E attempt, started \in Nat : CompleteStep(s, attempt, started, t)
             \/ \E delay \in Nat : ScheduleRetry(s, t, delay)
             \/ \E category \in {"timeout", "other"} : FailStep(s, t, category)
    BY <1>1 DEF RuntimeNext
  <2>2. CASE InitializeRuntime(t) \/ RequestCancellation(t) \/ ApplyCancellation(t)
    BY <2>2 DEF InitializeRuntime, RequestCancellation, ApplyCancellation, steps
  <2>3. ASSUME NEW s \in Steps, CreateDispatchRequest(s, t)
        PROVE  Stays
    BY <2>3 DEF CreateDispatchRequest, MayDispatch
  <2>4. ASSUME NEW s \in Steps,
               \/ \E attempt, started \in Nat : CompleteStep(s, attempt, started, t)
               \/ \E delay \in Nat : ScheduleRetry(s, t, delay)
               \/ \E category \in {"timeout", "other"} : FailStep(s, t, category)
        PROVE  Stays
    BY <2>4 DEF CompleteStep, ScheduleRetry, FailStep
  <2> QED
    BY <2>1, <2>2, <2>3, <2>4
<1>2. [RuntimeNext]_runtime => [Stays]_runtime
  BY <1>1
<1>3. NoStartAfterCancellation <=> [][Stays]_runtime
  BY DEF NoStartAfterCancellation
<1> HIDE DEF Stays
<1> QED
  BY <1>2, <1>3, PTL DEF RuntimeSpec

--------------------------------------------------------------------------------
(* The driver: the calls in flight, the clock and the deadlines.               *)

Before(t, x) == \A y \in x : t < y

\* What the calls in flight know: the attempt they belong to, whose deadline
\* they carry while it is the last one, and the order of their instants.
CallsKnown ==
  \A c \in calls :
    /\ c.attempt <= attempts[c.step]
    /\ c.attempt = attempts[c.step] => deadline[c.step] = c.deadline
    /\ c.stage = "bound" => c.outcome.category # "none"
    /\ c.stage = "invoked" => c.started <= now
    /\ c.stage = "answered" =>
         c.started <= c.completed /\ (c.outcome.category = "none" => Before(c.completed, c.deadline))

DriverInv == RuntimeInv /\ DriverTypeOK /\ CallsKnown /\ SuccessIsTimely

LEMMA DelayType ==
  ASSUME TypeOK, NEW s \in Steps
  PROVE  RetryDelay(attempts[s]) \in Nat
<1> DEFINE n == IF attempts[s] > 0 THEN attempts[s] - 1 ELSE 0
<1>1. n \in 0..MaxAttempts[s]
  <2>1. attempts[s] \in Nat /\ MaxAttempts[s] \in Nat /\ attempts[s] <= MaxAttempts[s]
    BY PolicyAssumption DEF TypeOK
  <2> QED
    BY <2>1
<1>2. Multiplier ^ n \in Nat
  BY <1>1, BackoffAssumption
<1>3. RetryDelay(attempts[s]) = Smaller(InitialDelay * Multiplier ^ n, MaxDelay)
  BY DEF RetryDelay
<1> HIDE DEF n
<1>4. \A m \in Nat : InitialDelay * m \in Nat
  BY DriverAssumption
<1> QED
  BY <1>2, <1>3, <1>4, DriverAssumption DEF Smaller

LEMMA OutcomeCategory ==
  /\ Late \in Outcomes /\ Late.category = "timeout"
  /\ \A o \in Outcomes : o.category # "none" => o.category \in {"timeout", "other"}
BY DEF Late, Outcomes

\* A reported failure is a step of the runtime.
LEMMA ReportStep ==
  ASSUME TypeOK, now \in Instants, NEW s \in Steps, NEW o,
         o.category \in {"timeout", "other"}, ReportFailure(s, o)
  PROVE  \/ \E delay \in Nat : ScheduleRetry(s, now, delay)
         \/ \E category \in {"timeout", "other"} : FailStep(s, now, category)
<1>1. CASE DecideRetry(s, o.retryable)
  BY <1>1, DelayType DEF ReportFailure
<1>2. CASE ~DecideRetry(s, o.retryable)
  BY <1>2 DEF ReportFailure
<1> QED
  BY <1>1, <1>2

LEMMA DriverStep ==
  ASSUME DriverTypeOK, [DriverNext]_vars
  PROVE  [RuntimeNext]_runtime
<1>0. /\ now \in Instants /\ TypeOK
      /\ \A c \in calls : /\ c.step \in Steps /\ c.attempt \in Nat
                          /\ c.started \in Instants /\ c.completed \in Instants
                          /\ c.started \in Nat /\ c.outcome \in Outcomes
  BY PolicyAssumption DEF DriverTypeOK, Call
<1>1. CASE Start
  BY <1>0, <1>1 DEF Start, RuntimeNext
<1>2. ASSUME NEW s \in Steps, Dispatch(s)
      PROVE  RuntimeNext
  BY <1>0, <1>2 DEF Dispatch, RuntimeNext
<1>3. ASSUME NEW s \in Steps, GiveUp(s)
      PROVE  RuntimeNext
  BY <1>0, <1>3, ReportStep, OutcomeCategory DEF GiveUp, RuntimeNext
<1>4. ASSUME NEW c \in calls, Execute(c) \/ (\E outcome \in Outcomes : Answer(c, outcome)) \/ Lose(c)
      PROVE  UNCHANGED runtime
  BY <1>4 DEF Execute, Answer, Lose
<1>5. ASSUME NEW c \in calls, Report(c)
      PROVE  RuntimeNext
  <2>1. CASE c.outcome.category = "none" /\ CompleteStep(c.step, c.attempt, c.started, c.completed)
    BY <1>0, <2>1 DEF RuntimeNext
  <2>2. CASE c.outcome.category # "none" /\ ReportFailure(c.step, c.outcome)
    BY <1>0, <2>2, ReportStep, OutcomeCategory DEF RuntimeNext
  <2> QED
    BY <1>5, <2>1, <2>2 DEF Report
<1>6. CASE Cancel
  BY <1>0, <1>6 DEF Cancel, RuntimeNext
<1>7. CASE Terminate
  BY <1>0, <1>7 DEF Terminate, RuntimeNext
<1>8. CASE Tick
  BY <1>8 DEF Tick
<1>9. CASE UNCHANGED vars
  BY <1>9 DEF vars
<1> QED
  BY <1>1, <1>2, <1>3, <1>4, <1>5, <1>6, <1>7, <1>8, <1>9 DEF DriverNext

--------------------------------------------------------------------------------
(* What a step of the runtime leaves to the calls in flight *)

\* Only a dispatch moves attempts, and only a report of success makes one.
LEMMA RuntimeEffect ==
  ASSUME RuntimeInv, NEW t \in Instants,
         \/ InitializeRuntime(t) \/ RequestCancellation(t) \/ ApplyCancellation(t)
         \/ \E s \in Steps :
              \/ \E delay \in Nat : ScheduleRetry(s, t, delay)
              \/ \E category \in {"timeout", "other"} : FailStep(s, t, category)
  PROVE  /\ attempts' = attempts
         /\ \A z \in Steps : status'[z] = "succeeded" =>
              status[z] = "succeeded" /\ startedAt'[z] = startedAt[z]
              /\ completedAt'[z] = completedAt[z]
<1>0. /\ status \in [Steps -> StepStatus] /\ completedAt \in [Steps -> Instant]
      /\ startedAt \in [Steps -> Instant]
  BY DEF RuntimeInv, TypeOK
<1>1. CASE InitializeRuntime(t)
  BY <1>1 DEF InitializeRuntime
<1>2. CASE RequestCancellation(t)
  BY <1>2 DEF RequestCancellation, steps
<1>3. CASE ApplyCancellation(t)
  BY <1>0, <1>3, StatusParts DEF ApplyCancellation, Unsettled
<1>4. ASSUME NEW s \in Steps, NEW delay \in Nat, ScheduleRetry(s, t, delay)
      PROVE  /\ attempts' = attempts
             /\ \A z \in Steps : status'[z] = "succeeded" =>
                  status[z] = "succeeded" /\ startedAt'[z] = startedAt[z]
                  /\ completedAt'[z] = completedAt[z]
  BY <1>0, <1>4 DEF ScheduleRetry
<1>5. ASSUME NEW s \in Steps, NEW category \in {"timeout", "other"}, FailStep(s, t, category)
      PROVE  /\ attempts' = attempts
             /\ \A z \in Steps : status'[z] = "succeeded" =>
                  status[z] = "succeeded" /\ startedAt'[z] = startedAt[z]
                  /\ completedAt'[z] = completedAt[z]
  <2> DEFINE st == [status EXCEPT ![s] = IF category = "timeout" THEN "timed_out" ELSE "failed"]
  <2>1. /\ status' = PropagateFailed(st) /\ attempts' = attempts /\ startedAt' = startedAt
        /\ completedAt' = [z \in Steps |->
                             IF z = s \/ status'[z] # status[z] THEN {t} ELSE completedAt[z]]
    BY <1>5 DEF FailStep
  <2>2. /\ st \in [Steps -> StepStatus] /\ \A z \in Steps \ {s} : st[z] = status[z]
        /\ st[s] # "succeeded"
    BY <1>0, StatusParts DEF Failed
  <2> HIDE DEF st
  <2>3. \A z \in Steps : status'[z] = st[z] \/ status'[z] = "skipped"
    BY <2>1, <2>2, Propagated
  <2>4. \A z \in Steps : status'[z] = "succeeded" => z # s /\ status[z] = "succeeded"
    BY <2>2, <2>3
  <2> QED
    BY <2>1, <2>4
<1> QED
  BY <1>1, <1>2, <1>3, <1>4, <1>5

\* Such a step, with the clock and the deadlines as they were and no call that
\* is new, keeps what the calls know and what the steps owe to them.
LEMMA QuietStep ==
  ASSUME DriverInv, attempts' = attempts, deadline' = deadline, now' = now, calls' \subseteq calls,
         \A z \in Steps : status'[z] = "succeeded" =>
           status[z] = "succeeded" /\ startedAt'[z] = startedAt[z]
           /\ completedAt'[z] = completedAt[z]
  PROVE  CallsKnown' /\ SuccessIsTimely'
<1>1. CallsKnown'
  BY DEF DriverInv, CallsKnown
<1>2. SuccessIsTimely'
  BY DEF DriverInv, SuccessIsTimely
<1> QED
  BY <1>1, <1>2

LEMMA DispatchKnown ==
  ASSUME DriverInv, NEW s \in Steps, Dispatch(s)
  PROVE  (deadline' \in [Steps -> Instant] /\ calls' \subseteq Call) /\ CallsKnown' /\ SuccessIsTimely'
<1>0. /\ now \in Instants /\ now \in Nat /\ Timeout \in Nat
      /\ attempts \in [Steps -> Nat] /\ startedAt \in [Steps -> Instant]
      /\ status \in [Steps -> StepStatus]
      /\ deadline \in [Steps -> Instant] /\ calls \subseteq Call
  BY PolicyAssumption, DriverAssumption DEF DriverInv, DriverTypeOK, TypeOK
<1>1. /\ attempts' = [attempts EXCEPT ![s] = @ + 1]
      /\ status' = [status EXCEPT ![s] = "running"]
      /\ startedAt' = [startedAt EXCEPT ![s] = {now}]
      /\ completedAt' = completedAt /\ now' = now
  BY DEF Dispatch, CreateDispatchRequest, clock
<1>2. PICK x \in DispatchDeadlines :
        /\ deadline' = [deadline EXCEPT ![s] = x]
        /\ calls' = IF now \in x THEN calls
                    ELSE calls \cup {[step |-> s, attempt |-> attempts[s] + 1, deadline |-> x,
                                      stage |-> "bound", started |-> now, completed |-> now,
                                      outcome |-> Late]}
  BY DEF Dispatch
<1> DEFINE new == [step |-> s, attempt |-> attempts[s] + 1, deadline |-> x, stage |-> "bound",
                   started |-> now, completed |-> now, outcome |-> Late]
<1>3. x \in Instant
  <2>1. \A t \in now..(now + Timeout) : t \in Nat
    BY <1>0
  <2>2. x = {} \/ \E t \in Nat : x = {t}
    BY <2>1 DEF DispatchDeadlines
  <2> QED
    BY <2>2 DEF Instant
<1>4. /\ new.step = s /\ new.attempt = attempts[s] + 1 /\ new.deadline = x /\ new.stage = "bound"
      /\ new.outcome.category # "none" /\ new \in Call
  BY <1>0, <1>3, OutcomeCategory DEF Call
<1>5. calls' \subseteq calls \cup {new}
  BY <1>2
<1> HIDE DEF new
<1>6. deadline' \in [Steps -> Instant] /\ calls' \subseteq Call
  BY <1>0, <1>2, <1>3, <1>4, <1>5, InstantOne
<1>7. CallsKnown'
  <2> SUFFICES ASSUME NEW c \in calls'
               PROVE  /\ c.attempt <= attempts'[c.step]
                      /\ c.attempt = attempts'[c.step] => deadline'[c.step] = c.deadline
                      /\ c.stage = "bound" => c.outcome.category # "none"
                      /\ c.stage = "invoked" => c.started <= now'
                      /\ c.stage = "answered" =>
                           c.started <= c.completed
                           /\ (c.outcome.category = "none" => Before(c.completed, c.deadline))
    BY DEF CallsKnown
  <2>1. CASE c = new
    BY <1>0, <1>1, <1>2, <1>4, <2>1
  <2>2. CASE c \in calls
    <3>1. c.step \in Steps /\ c.attempt \in Nat /\ c.attempt <= attempts[c.step]
      BY <1>0, <2>2 DEF Call, DriverInv, CallsKnown
    <3>2. CASE c.step = s
      BY <1>0, <1>1, <2>2, <3>1, <3>2 DEF DriverInv, CallsKnown
    <3>3. CASE c.step # s
      BY <1>0, <1>1, <1>2, <2>2, <3>1, <3>3 DEF DriverInv, CallsKnown
    <3> QED
      BY <3>2, <3>3
  <2> QED
    BY <1>5, <2>1, <2>2
<1>8. SuccessIsTimely'
  <2>1. \A z \in Steps : status'[z] = "succeeded" =>
          z # s /\ status[z] = "succeeded" /\ startedAt'[z] = startedAt[z]
          /\ deadline'[z] = deadline[z]
    BY <1>0, <1>1, <1>2
  <2> QED
    BY <1>1, <2>1 DEF DriverInv, SuccessIsTimely
<1> QED
  BY <1>6, <1>7, <1>8

\* The three places where a call moves on, each of which replaces it.
LEMMA ReplaceKnown ==
  ASSUME DriverInv, NEW c \in calls, NEW d \in Call, Replace(c, d), UNCHANGED <<runtime, clock, deadline>>,
         d.step = c.step, d.attempt = c.attempt, d.deadline = c.deadline,
         d.stage # "bound", d.stage = "invoked" => d.started <= now,
         d.stage = "answered" =>
           d.started <= d.completed /\ (d.outcome.category = "none" => Before(d.completed, d.deadline))
  PROVE  calls' \subseteq Call /\ CallsKnown' /\ SuccessIsTimely'
<1>1. /\ calls' \subseteq calls \cup {d} /\ attempts' = attempts /\ deadline' = deadline /\ now' = now
      /\ status' = status /\ startedAt' = startedAt /\ completedAt' = completedAt
  BY DEF Replace, runtime, steps, clock
<1>2. calls' \subseteq Call
  BY <1>1 DEF DriverInv, DriverTypeOK
<1>3. CallsKnown'
  BY <1>1 DEF DriverInv, CallsKnown
<1>4. SuccessIsTimely'
  BY <1>1 DEF DriverInv, SuccessIsTimely
<1> QED
  BY <1>2, <1>3, <1>4

LEMMA CallType ==
  ASSUME DriverTypeOK, NEW c \in calls
  PROVE  /\ c \in Call /\ c.step \in Steps /\ c.attempt \in Nat /\ c.deadline \in Instant
         /\ c.started \in Instants /\ c.completed \in Instants /\ c.outcome \in Outcomes
         /\ c.started \in Nat /\ c.completed \in Nat /\ now \in Instants /\ now \in Nat
BY PolicyAssumption DEF DriverTypeOK, Call

LEMMA ExecuteKnown ==
  ASSUME DriverInv, NEW c \in calls, Execute(c)
  PROVE  calls' \subseteq Call /\ CallsKnown' /\ SuccessIsTimely'
<1>0. /\ c.stage = "bound" /\ UNCHANGED <<runtime, clock, deadline>>
      /\ c \in Call /\ now \in Instants /\ now \in Nat
  BY CallType DEF Execute, DriverInv
<1>1. CASE calls' = calls \ {c}
  <2>1. /\ attempts' = attempts /\ deadline' = deadline /\ now' = now
        /\ status' = status /\ startedAt' = startedAt /\ completedAt' = completedAt
    BY <1>0 DEF runtime, steps, clock
  <2> QED
    BY <1>1, <2>1, QuietStep DEF DriverInv, DriverTypeOK
<1>2. CASE Overdue(c.deadline)
           /\ Replace(c, [c EXCEPT !.stage = "answered", !.started = now, !.completed = now])
  <2> DEFINE d == [c EXCEPT !.stage = "answered", !.started = now, !.completed = now]
  <2>1. /\ d \in Call /\ d.step = c.step /\ d.attempt = c.attempt /\ d.deadline = c.deadline
        /\ d.stage = "answered" /\ d.started = now /\ d.completed = now /\ d.outcome = c.outcome
    BY <1>0 DEF Call
  <2>2. c.outcome.category # "none"
    BY <1>0 DEF DriverInv, CallsKnown
  <2> HIDE DEF d
  <2>3. Replace(c, d)
    BY <1>2 DEF d
  <2> QED
    BY <1>0, <2>1, <2>2, <2>3, ReplaceKnown
<1>3. CASE Replace(c, [c EXCEPT !.stage = "invoked", !.started = now])
  <2> DEFINE d == [c EXCEPT !.stage = "invoked", !.started = now]
  <2>1. /\ d \in Call /\ d.step = c.step /\ d.attempt = c.attempt /\ d.deadline = c.deadline
        /\ d.stage = "invoked" /\ d.started = now
    BY <1>0 DEF Call
  <2> HIDE DEF d
  <2>2. Replace(c, d)
    BY <1>3 DEF d
  <2> QED
    BY <1>0, <2>1, <2>2, ReplaceKnown
<1> QED
  BY <1>1, <1>2, <1>3 DEF Execute

LEMMA AnswerKnown ==
  ASSUME DriverInv, NEW c \in calls, NEW outcome \in Outcomes, Answer(c, outcome)
  PROVE  calls' \subseteq Call /\ CallsKnown' /\ SuccessIsTimely'
<1> DEFINE o == Normalized(c, outcome)
           d == [c EXCEPT !.stage = "answered", !.completed = now, !.outcome = o]
<1>0. /\ c.stage = "invoked" /\ UNCHANGED <<runtime, clock, deadline>> /\ Replace(c, d)
      /\ c \in Call /\ now \in Instants /\ now \in Nat /\ c.started <= now /\ c.deadline \in Instant
  BY CallType DEF Answer, DriverInv, CallsKnown
<1>1. o \in Outcomes /\ (o.category = "none" => Before(now, c.deadline))
  <2>1. ~Overdue(c.deadline) => Before(now, c.deadline)
    BY <1>0 DEF Overdue, Before, Instant
  <2> QED
    BY <1>0, <2>1, OutcomeCategory DEF Normalized
<1> HIDE DEF o
<1>2. /\ d \in Call /\ d.step = c.step /\ d.attempt = c.attempt /\ d.deadline = c.deadline
      /\ d.stage = "answered" /\ d.started = c.started /\ d.completed = now /\ d.outcome = o
  BY <1>0, <1>1 DEF Call
<1> HIDE DEF d
<1> QED
  BY <1>0, <1>1, <1>2, ReplaceKnown

\* A report of success: the step ends with the instants of the call.
LEMMA SuccessKnown ==
  ASSUME DriverInv, NEW c \in calls, c.stage = "answered", c.outcome.category = "none",
         CompleteStep(c.step, c.attempt, c.started, c.completed),
         calls' = calls \ {c}, UNCHANGED <<clock, deadline>>
  PROVE  CallsKnown' /\ SuccessIsTimely'
<1> DEFINE s == c.step
           st == [status EXCEPT ![s] = "succeeded"]
<1>0. /\ status \in [Steps -> StepStatus] /\ completedAt \in [Steps -> Instant] /\ s \in Steps
  BY CallType DEF DriverInv, RuntimeInv, TypeOK
<1>1. /\ status' = RefreshReady(st, c.completed) /\ attempts' = attempts /\ startedAt' = startedAt
      /\ completedAt' = [completedAt EXCEPT ![s] = {c.completed}]
      /\ startedAt[s] = {c.started} /\ attempts[s] = c.attempt
      /\ now' = now /\ deadline' = deadline
  BY DEF CompleteStep, MayComplete, clock
<1>2. st \in [Steps -> StepStatus] /\ \A z \in Steps \ {s} : st[z] = status[z]
  BY <1>0, StatusParts
<1> HIDE DEF st
<1>3. \A z \in Steps \ {s} : status'[z] = "succeeded" => status[z] = "succeeded"
  BY <1>1, <1>2, Refreshed
<1>4. CallsKnown'
  BY <1>1 DEF DriverInv, CallsKnown
<1>5. deadline[s] = c.deadline /\ c.started <= c.completed /\ Before(c.completed, c.deadline)
  BY <1>1 DEF DriverInv, CallsKnown
<1>6. SuccessIsTimely'
  <2> SUFFICES ASSUME NEW z \in Steps, status'[z] = "succeeded",
                      NEW i \in startedAt'[z], NEW t \in completedAt'[z]
               PROVE  i <= t /\ \A x \in deadline'[z] : t < x
    BY DEF SuccessIsTimely
  <2>1. CASE z = s
    BY <1>0, <1>1, <1>5, <2>1 DEF Before
  <2>2. CASE z # s
    BY <1>0, <1>1, <1>3, <2>2 DEF DriverInv, SuccessIsTimely
  <2> QED
    BY <2>1, <2>2
<1> QED
  BY <1>4, <1>6

LEMMA ReportKnown ==
  ASSUME DriverInv, NEW c \in calls, Report(c)
  PROVE  CallsKnown' /\ SuccessIsTimely'
<1>0. /\ calls' = calls \ {c} /\ UNCHANGED <<clock, deadline>> /\ c.stage = "answered"
      /\ c.step \in Steps /\ c.outcome \in Outcomes /\ now \in Instants /\ TypeOK
  BY CallType DEF Report, DriverInv, DriverTypeOK
<1>1. CASE c.outcome.category = "none" /\ CompleteStep(c.step, c.attempt, c.started, c.completed)
  BY <1>0, <1>1, SuccessKnown
<1>2. CASE c.outcome.category # "none" /\ ReportFailure(c.step, c.outcome)
  <2>1. \/ \E delay \in Nat : ScheduleRetry(c.step, now, delay)
        \/ \E category \in {"timeout", "other"} : FailStep(c.step, now, category)
    BY <1>0, <1>2, ReportStep, OutcomeCategory
  <2>2. /\ attempts' = attempts
        /\ \A z \in Steps : status'[z] = "succeeded" =>
             status[z] = "succeeded" /\ startedAt'[z] = startedAt[z]
             /\ completedAt'[z] = completedAt[z]
    BY <1>0, <2>1, RuntimeEffect DEF DriverInv
  <2> QED
    BY <1>0, <2>2, QuietStep DEF clock
<1> QED
  BY <1>1, <1>2 DEF Report

\* The steps of the runtime that no call takes part in.
LEMMA CallerKnown ==
  ASSUME DriverInv, Start \/ Cancel \/ Terminate \/ \E s \in Steps : GiveUp(s)
  PROVE  UNCHANGED <<clock, deadline, calls>> /\ CallsKnown' /\ SuccessIsTimely'
<1>0. UNCHANGED <<clock, deadline, calls>> /\ now \in Instants /\ TypeOK
  BY DEF Start, Cancel, Terminate, GiveUp, DriverInv, DriverTypeOK
<1>1. \/ InitializeRuntime(now) \/ RequestCancellation(now) \/ ApplyCancellation(now)
      \/ \E s \in Steps :
           \/ \E delay \in Nat : ScheduleRetry(s, now, delay)
           \/ \E category \in {"timeout", "other"} : FailStep(s, now, category)
  BY <1>0, ReportStep, OutcomeCategory DEF Start, Cancel, Terminate, GiveUp
<1>2. /\ attempts' = attempts
      /\ \A z \in Steps : status'[z] = "succeeded" =>
           status[z] = "succeeded" /\ startedAt'[z] = startedAt[z]
           /\ completedAt'[z] = completedAt[z]
  BY <1>0, <1>1, RuntimeEffect DEF DriverInv
<1> QED
  BY <1>0, <1>2, QuietStep DEF clock

LEMMA TickKnown ==
  ASSUME DriverInv, Tick
  PROVE  /\ now' \in Instants /\ UNCHANGED <<expiry, deadline, calls>>
         /\ CallsKnown' /\ SuccessIsTimely'
<1>1. /\ now' \in Instants /\ now' = now + 1 /\ UNCHANGED <<expiry, deadline, calls>>
      /\ status' = status /\ attempts' = attempts /\ startedAt' = startedAt
      /\ completedAt' = completedAt
  BY DEF Tick, runtime, steps
<1>2. \A c \in calls : c.started \in Nat /\ now \in Nat
  BY CallType DEF DriverInv
<1>3. CallsKnown'
  BY <1>1, <1>2 DEF DriverInv, CallsKnown
<1>4. SuccessIsTimely'
  BY <1>1 DEF DriverInv, SuccessIsTimely
<1> QED
  BY <1>1, <1>3, <1>4

--------------------------------------------------------------------------------
(* The invariant *)

LEMMA DriverInitInv == DriverInit => DriverInv
<1> SUFFICES ASSUME DriverInit
             PROVE  DriverInv
  OBVIOUS
<1>1. RuntimeInv
  BY InitInv DEF DriverInit
<1>2. DriverTypeOK
  <2>1. deadline \in [Steps -> Instant]
    BY InstantOne DEF DriverInit
  <2> QED
    BY <1>1, <2>1, DriverAssumption DEF DriverInit, DriverTypeOK, RuntimeInv
<1>3. CallsKnown /\ SuccessIsTimely
  BY DEF DriverInit, Init, CallsKnown, SuccessIsTimely
<1> QED
  BY <1>1, <1>2, <1>3 DEF DriverInv

LEMMA DriverStepInv == DriverInv /\ [DriverNext]_vars => DriverInv'
<1> SUFFICES ASSUME DriverInv, [DriverNext]_vars
             PROVE  DriverInv'
  OBVIOUS
<1>0. /\ now \in Instants /\ expiry \in Deadlines /\ deadline \in [Steps -> Instant]
      /\ calls \subseteq Call
  BY DEF DriverInv, DriverTypeOK
<1>1. RuntimeInv'
  BY DriverStep, StepInv DEF DriverInv
<1> DEFINE Kept == /\ now' \in Instants /\ expiry' \in Deadlines /\ deadline' \in [Steps -> Instant]
                   /\ calls' \subseteq Call /\ CallsKnown' /\ SuccessIsTimely'
<1>2. ASSUME Start \/ Cancel \/ Terminate \/ \E s \in Steps : GiveUp(s)
      PROVE  Kept
  BY <1>0, <1>2, CallerKnown DEF clock
<1>3. ASSUME NEW s \in Steps, Dispatch(s)
      PROVE  Kept
  <2>1. UNCHANGED clock
    BY <1>3 DEF Dispatch
  <2> QED
    BY <1>0, <1>3, <2>1, DispatchKnown DEF clock
<1>4. ASSUME NEW c \in calls, Execute(c)
      PROVE  Kept
  BY <1>0, <1>4, ExecuteKnown DEF Execute, clock
<1>5. ASSUME NEW c \in calls, NEW outcome \in Outcomes, Answer(c, outcome)
      PROVE  Kept
  BY <1>0, <1>5, AnswerKnown DEF Answer, clock
<1>6. ASSUME NEW c \in calls, Report(c)
      PROVE  Kept
  <2>1. calls' \subseteq calls /\ UNCHANGED <<clock, deadline>>
    BY <1>6 DEF Report
  <2> QED
    BY <1>0, <1>6, <2>1, ReportKnown DEF clock
<1>7. ASSUME NEW c \in calls, Lose(c)
      PROVE  Kept
  <2>1. /\ attempts' = attempts /\ deadline' = deadline /\ now' = now /\ calls' \subseteq calls
        /\ status' = status /\ startedAt' = startedAt /\ completedAt' = completedAt
        /\ expiry' = expiry
    BY <1>7 DEF Lose, runtime, steps, clock
  <2> QED
    BY <1>0, <2>1, QuietStep
<1>8. ASSUME Tick
      PROVE  Kept
  BY <1>0, <1>8, TickKnown
<1>9. ASSUME UNCHANGED vars
      PROVE  Kept
  <2>1. /\ attempts' = attempts /\ deadline' = deadline /\ now' = now /\ calls' \subseteq calls
        /\ status' = status /\ startedAt' = startedAt /\ completedAt' = completedAt
        /\ expiry' = expiry
    BY <1>9 DEF vars, runtime, steps, clock
  <2> QED
    BY <1>0, <2>1, QuietStep
<1>10. Kept
  <2> HIDE DEF Kept
  <2> QED
    BY <1>2, <1>3, <1>4, <1>5, <1>6, <1>7, <1>8, <1>9 DEF DriverNext
<1> QED
  BY <1>1, <1>10 DEF DriverInv, DriverTypeOK, RuntimeInv

THEOREM DriverInvariance == DriverSpec => []DriverInv
BY DriverInitInv, DriverStepInv, PTL DEF DriverSpec

--------------------------------------------------------------------------------
(* Theorems *)

\* executor.py and the loop around it only ever take steps of the runtime, so
\* every property proved of RuntimeSpec holds of the driven execution.
THEOREM DriverImplementsRuntime == DriverSpec => RuntimeSpec
<1>1. DriverInit => Init
  BY DEF DriverInit
<1>2. DriverInv /\ [DriverNext]_vars => [RuntimeNext]_runtime
  BY DriverStep DEF DriverInv
<1> QED
  BY <1>1, <1>2, DriverInvariance, PTL DEF DriverSpec, RuntimeSpec

\* The clock, the dispatch deadlines and the calls in flight keep their types.
THEOREM DriverTypeCorrect == DriverSpec => []DriverTypeOK
<1>1. DriverInv => DriverTypeOK
  BY DEF DriverInv
<1> QED
  BY <1>1, DriverInvariance, PTL

\* execute and complete_step: the output of a step is that of the attempt that
\* ran, made within its deadline, whatever late answers are still reported.
THEOREM LateOutputIsUnused == DriverSpec => []SuccessIsTimely
<1>1. DriverInv => SuccessIsTimely
  BY DEF DriverInv
<1> QED
  BY <1>1, DriverInvariance, PTL

\* _validate_preflight: no provider is called once cancellation was requested.
THEOREM CancelledIsNotCalled == DriverSpec => NoCallAfterCancellation
<1> DEFINE Quiet == \A c \in calls' \ calls : c.stage = "invoked" => ~cancelling
<1>1. ASSUME DriverInv, DriverNext, NEW n \in calls' \ calls, n.stage = "invoked"
      PROVE  ~cancelling
  <2>1. ASSUME NEW s \in Steps, Dispatch(s)
        PROVE  FALSE
    BY <1>1, <2>1 DEF Dispatch
  <2>2. ASSUME NEW c \in calls, Execute(c)
        PROVE  ~cancelling
    <3>1. CASE Preflight(c)
      <4>1. run = "running" /\ session = "running"
        BY <3>1 DEF Preflight
      <4> QED
        BY <1>1, <4>1 DEF DriverInv, RuntimeInv, EndKnown
    <3>2. CASE ~Preflight(c)
      BY <1>1, <2>2, <3>2 DEF Execute
    <3> QED
      BY <3>1, <3>2
  <2>3. ASSUME NEW c \in calls, NEW outcome \in Outcomes, Answer(c, outcome)
        PROVE  FALSE
    <3>1. c \in Call
      BY <1>1 DEF DriverInv, DriverTypeOK
    <3>2. [c EXCEPT !.stage = "answered", !.completed = now,
                    !.outcome = Normalized(c, outcome)].stage = "answered"
      BY <3>1 DEF Call
    <3> QED
      BY <1>1, <2>3, <3>2 DEF Answer, Replace
  <2>4. CASE \/ Start \/ Cancel \/ Terminate \/ Tick \/ \E s \in Steps : GiveUp(s)
             \/ \E c \in calls : Report(c) \/ Lose(c)
    BY <1>1, <2>4 DEF Start, Cancel, Terminate, Tick, GiveUp, Report, Lose
  <2> QED
    BY <1>1, <2>1, <2>2, <2>3, <2>4 DEF DriverNext
<1>2. DriverInv /\ [DriverNext]_vars => [Quiet]_vars
  BY <1>1
<1>3. NoCallAfterCancellation <=> [][Quiet]_vars
  BY DEF NoCallAfterCancellation
<1> HIDE DEF Quiet
<1> QED
  BY <1>2, <1>3, DriverInvariance, PTL DEF DriverSpec

================================================================================
