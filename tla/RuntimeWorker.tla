----------------------------- MODULE RuntimeWorker -----------------------------
(***************************************************************************)
(* The delivery Worker: a polling loop that admits one asyncio task per    *)
(* due effect, and the tasks, each of which claims its effect, makes       *)
(* DELIVERING durable, revalidates, calls the adapter once and appends the *)
(* outcome.  Tasks of one worker interleave at every await, workers share  *)
(* nothing but the effect store, and the store is the abstract register of *)
(* EffectDelivery, which EffectStore implements.                           *)
(*                                                                         *)
(* A capability that fails raises the operational marker, before or after  *)
(* its effect is durable; a process may crash; a lease may end before its  *)
(* task is done.                                                           *)
(***************************************************************************)
EXTENDS EffectDelivery, FiniteSets

CONSTANTS Workers,        \* worker processes
          Slots,          \* bound of the model: tasks of one worker alive at once
          MaxConcurrency, \* configuration.maximum_concurrency
          Withdrawals,    \* statuses a definitely-not-invoked append may name
          Decisions,      \* statuses a reconciled effect may be given
          MaxVersion,     \* bound of the model: revisions of one effect
          MaxFaults,      \* bound of the model: marker failures and crashes
          MaxEarly        \* bound of the model: leases that end under a live task

ASSUME WorkerAssumption ==
  /\ MaxConcurrency \in Nat \ {0} /\ MaxVersion \in Nat
  /\ MaxFaults \in Nat /\ MaxEarly \in Nat
  /\ Withdrawals \subseteq {"retry_scheduled", "dead_lettered"}
  /\ Decisions \subseteq Follows["ambiguous"]

VARIABLES loop,      \* worker -> where its run() is
          requested, \* worker -> has the host requested shutdown?  (sticky)
          task,      \* worker and slot -> the admitted task
          receipts,  \* claim and DELIVERING revisions, as the replay lookup finds them
          calls,     \* effect -> DELIVERING versions the adapter was called for
          faults, early

vars == <<effect, loop, requested, task, receipts, calls, faults, early>>

Tasks == Workers \X Slots
Live  == {"preparing", "claiming", "starting", "revalidating", "withdrawing",
          "delivering", "recording"}

Task == [pc : Live \cup {"none", "waiting", "raised"}, effect : Option(Effects),
         version : Nat, claim : Option(Claims)]
Receipt == [effect : Effects, version : Nat, claim : Claims, status : {"claimed", "delivering"}]

TypeOK ==
  /\ RegisterOK
  /\ loop \in [Workers -> {"cycle", "select", "report", "wait", "again",
                           "drain", "stopped", "failed", "down"}]
  /\ requested \in [Workers -> BOOLEAN]
  /\ task \in [Tasks -> Task]
  /\ receipts \subseteq Receipt
  /\ calls \in [Effects -> SUBSET Nat]
  /\ faults \in 0 .. MaxFaults
  /\ early \in 0 .. MaxEarly

NoTask == [pc |-> "none", effect |-> {}, version |-> 0, claim |-> {}]

Init ==
  /\ DeliveryInit
  /\ loop = [w \in Workers |-> "cycle"]
  /\ requested = [w \in Workers |-> FALSE]
  /\ task = [t \in Tasks |-> NoTask]
  /\ receipts = {}
  /\ calls = [e \in Effects |-> {}]
  /\ faults = 0
  /\ early = 0

Fault   == faults < MaxFaults /\ faults' = faults + 1
NoFault == UNCHANGED faults

\* run() returns or raises only when its finally block has cancelled every
\* task that was still pending.
Leave(w, pc) ==
  /\ loop' = [loop EXCEPT ![w] = pc]
  /\ task' = [t \in Tasks |-> IF t[1] = w THEN NoTask ELSE task[t]]

Raised(w) == \E s \in Slots : task[<<w, s>>].pc = "raised"

--------------------------------------------------------------------------------
\* The polling loop.

\* The preparation or the report around an observation, and _observe_shutdown:
\* requested shutdown starts the drain; a marker failure ends run(), apart from
\* that of the observation at the start of a cycle, which is reported and
\* followed by another cycle.
Observe(w, from, to) ==
  /\ loop[w] = from
  /\ from # "cycle" => ~Raised(w)
  /\ \/ /\ loop' = [loop EXCEPT ![w] = IF requested[w] THEN "drain" ELSE to]
        /\ NoFault
        /\ UNCHANGED task
     \/ from = "cycle" /\ Fault /\ UNCHANGED <<loop, task>>
     \/ Fault /\ Leave(w, "failed")
  /\ UNCHANGED <<effect, requested, receipts, calls, early>>

\* _raise_completed_failures: after the cycle, after the wait and after the
\* observation that follows it.
RaiseCompleted(w) ==
  /\ loop[w] \in {"report", "wait", "again"}
  /\ Raised(w)
  /\ Leave(w, "failed")
  /\ UNCHANGED <<effect, requested, receipts, calls, faults, early>>

NextCycle(w) ==
  /\ loop[w] = "again"
  /\ ~Raised(w)
  /\ loop' = [loop EXCEPT ![w] = "cycle"]
  /\ UNCHANGED <<effect, requested, task, receipts, calls, faults, early>>

\* Faulty variant: an expired claim is not discovered.
DueWithoutReclaim(e) == effect[e].status \in {"enqueued", "retry_scheduled"}

Due(e) ==
  \/ effect[e].status \in {"enqueued", "retry_scheduled"}
  \/ effect[e].status = "claimed" /\ \A m \in effect[e].lease : m.over

\* A due retry that still shows a claim makes the whole selection raise.
Selectable(e) == effect[e].status = "retry_scheduled" => effect[e].lease = {}

Candidate(e) == [pc |-> "waiting", effect |-> {e}, version |-> effect[e].version,
                 claim |-> {m.claim : m \in effect[e].lease}]

Free(w) == {s \in Slots : task[<<w, s>>].pc = "none"}

\* Due selection and the admission of the candidates, whether or not a task
\* for the same effect is still pending.  A selection admits no more than the
\* free slots.
Select(w) ==
  /\ loop[w] = "select"
  /\ LET due == {e \in Effects : Due(e)} IN
       \/ /\ \A e \in due : Selectable(e)
          /\ \E E \in SUBSET due :
               /\ Cardinality(E) <= Cardinality(Free(w))
               /\ E # due => Cardinality(E) = Cardinality(Free(w))
               /\ \E place \in [E -> Free(w)] :
                    /\ \A e, f \in E : place[e] = place[f] => e = f
                    /\ task' = [t \in Tasks |->
                         IF t[1] = w /\ \E e \in E : place[e] = t[2]
                         THEN Candidate(CHOOSE e \in E : place[e] = t[2])
                         ELSE task[t]]
          /\ loop' = [loop EXCEPT ![w] = "report"]
          /\ NoFault
       \/ /\ \E e \in due : ~Selectable(e)
          /\ Leave(w, "failed")
          /\ NoFault
       \/ /\ loop' = [loop EXCEPT ![w] = "report"]
          /\ Fault
          /\ UNCHANGED task
  /\ UNCHANGED <<effect, requested, receipts, calls, early>>

\* Faulty variant: the drain waits for its tasks without a deadline.
DrainedWhenIdle(w) ==
  /\ loop[w] = "drain"
  /\ \A s \in Slots : task[<<w, s>>].pc \in {"none", "raised"}
  /\ Leave(w, IF Raised(w) THEN "failed" ELSE "stopped")
  /\ UNCHANGED <<effect, requested, receipts, calls, faults, early>>

\* _drain: the budget has run out, or every task is done; tasks that are
\* still pending are cancelled wherever they are.
Drained(w) ==
  /\ loop[w] = "drain"
  /\ Leave(w, IF Raised(w) THEN "failed" ELSE "stopped")
  /\ UNCHANGED <<effect, requested, receipts, calls, faults, early>>

--------------------------------------------------------------------------------
\* One admitted task t = <<worker, slot>>.

Goto(t, pc) == task' = [task EXCEPT ![t].pc = pc]
Done(t)     == task' = [task EXCEPT ![t] = NoTask]

At(t, pc) == task[t].pc = pc

\* The semaphore is free; a candidate that was still waiting when the worker
\* began to stop is dropped.
Enter(t) ==
  /\ At(t, "waiting")
  /\ Cardinality({s \in Slots : task[<<t[1], s>>].pc \in Live}) < MaxConcurrency
  /\ IF loop[t[1]] = "drain" THEN Done(t) ELSE Goto(t, "preparing")
  /\ UNCHANGED <<effect, loop, requested, receipts, calls, faults, early>>

\* The prepared package: a claim distinct from the one the candidate shows.
Prepare(t) ==
  /\ At(t, "preparing")
  /\ \/ /\ \E c \in Claims \ task[t].claim :
             task' = [task EXCEPT ![t].pc = "claiming", ![t].claim = {c}]
        /\ NoFault
     \/ Done(t) /\ Fault
  /\ UNCHANGED <<effect, loop, requested, receipts, calls, early>>

Written(e, v, c, s) == [effect |-> e, version |-> v, claim |-> c, status |-> s]

\* Ways in which the answer to a write that took effect reaches the task:
\* normally, or as a marker failure.
Answered(t, pc) ==
  \/ Goto(t, pc) /\ NoFault
  \/ Done(t) /\ Fault

\* Ways in which a write that did not take effect ends: an exact replay stops
\* the task, a conflict is raised, a marker failure stops the task.
NotWritten(t, receipt, refused) ==
  /\ \/ receipt \in receipts /\ Done(t) /\ NoFault
     \/ refused /\ Goto(t, "raised") /\ NoFault
     \/ Done(t) /\ Fault
  /\ UNCHANGED <<effect, receipts>>

CommitClaim(t) ==
  /\ At(t, "claiming")
  /\ \E e \in task[t].effect, c \in task[t].claim :
       LET v == task[t].version
           r == Written(e, v + 1, c, "claimed")
           free == /\ effect[e].version = v
                   /\ \A m \in effect[e].lease : m.over /\ m.claim # c
       IN  \/ /\ v < MaxVersion
              /\ Claimed(e, v, c, FALSE)
              /\ receipts' = receipts \cup {r}
              /\ Answered(t, "starting")
           \/ NotWritten(t, r, ~free)
  /\ UNCHANGED <<loop, requested, calls, early>>

CommitDelivering(t) ==
  /\ At(t, "starting")
  /\ \E e \in task[t].effect, c \in task[t].claim :
       LET v == task[t].version + 1
           r == Written(e, v + 1, c, "delivering")
       IN  \/ /\ StartDelivering(e, v)
              /\ receipts' = receipts \cup {r}
              /\ Answered(t, "revalidating")
           \/ NotWritten(t, r, effect[e].version # v)
  /\ UNCHANGED <<loop, requested, calls, early>>

\* Pre-invocation revalidation, with the call of the adapter that follows an
\* INVOKABLE answer.
Revalidate(t) ==
  /\ At(t, "revalidating")
  /\ \/ /\ Goto(t, "delivering")
        /\ calls' = [e \in Effects |-> calls[e] \cup
             (IF e \in task[t].effect THEN {task[t].version + 2} ELSE {})]
        /\ NoFault
     \/ requested[t[1]] /\ Done(t) /\ NoFault /\ UNCHANGED calls
     \/ Withdrawals # {} /\ Goto(t, "withdrawing") /\ NoFault /\ UNCHANGED calls
     \/ Done(t) /\ Fault /\ UNCHANGED calls
  /\ UNCHANGED <<effect, loop, requested, receipts, early>>

\* The append of an outcome; nothing follows it, so its answer only matters
\* when it is an exception.
CommitOutcome(t, statuses, keep) ==
  /\ \E e \in task[t].effect :
       LET v == task[t].version + 2 IN
         \/ /\ \E s \in statuses : Conclude(e, v, s, IF keep THEN effect[e].lease ELSE {})
            /\ Done(t)
            /\ NoFault \/ Fault
         \/ /\ effect[e].version # v /\ Goto(t, "raised") /\ NoFault
            /\ UNCHANGED effect
         \/ Done(t) /\ Fault /\ UNCHANGED effect
  /\ UNCHANGED <<loop, requested, receipts, calls, early>>

\* Faulty variant: a call that was not made is recorded as ambiguous.
WithdrawAsAmbiguous(t) == At(t, "withdrawing") /\ CommitOutcome(t, {"ambiguous"}, FALSE)

Withdraw(t) == At(t, "withdrawing") /\ CommitOutcome(t, Withdrawals, TRUE)

\* Faulty variant: a failed call is made again.
AdapterRetries(t) ==
  /\ At(t, "delivering")
  /\ \/ Goto(t, "recording") /\ NoFault
     \/ Goto(t, "revalidating") /\ Fault
  /\ UNCHANGED <<effect, loop, requested, receipts, calls, early>>

\* The adapter returns a result, or fails.
AdapterAnswers(t) ==
  /\ At(t, "delivering")
  /\ \/ Goto(t, "recording") /\ NoFault
     \/ Done(t) /\ Fault
  /\ UNCHANGED <<effect, loop, requested, receipts, calls, early>>

\* Result completion accepts DELIVERED and AMBIGUOUS only.
Record(t) == At(t, "recording") /\ CommitOutcome(t, {"delivered", "ambiguous"}, FALSE)

--------------------------------------------------------------------------------
\* The environment.

\* A runtime write set commits its initial effect.
Submit(e) ==
  /\ Enqueue(e)
  /\ UNCHANGED <<loop, requested, task, receipts, calls, faults, early>>

\* A lease ends.  Under a task that still holds it, it does so MaxEarly times.
Held(e) == \E t \in Tasks : /\ e \in task[t].effect
                            /\ \E m \in effect[e].lease : m.claim \in task[t].claim
                            /\ At(t, "starting")
LeaseEnds(e) ==
  /\ \E m \in effect[e].lease : ~m.over
  /\ effect[e].status = "claimed"
  /\ IF Held(e) THEN early < MaxEarly /\ early' = early + 1 ELSE UNCHANGED early
  /\ LeasesEnd({e})
  /\ UNCHANGED <<loop, requested, task, receipts, calls, faults>>

\* An operator reconciles an ambiguous effect.
Reconcile(e) ==
  /\ effect[e].status = "ambiguous"
  /\ effect[e].version < MaxVersion
  /\ \E s \in Decisions : Conclude(e, effect[e].version, s, {})
  /\ UNCHANGED <<loop, requested, task, receipts, calls, faults, early>>

RequestShutdown(w) ==
  /\ loop[w] \notin {"stopped", "failed", "down"}
  /\ requested' = [requested EXCEPT ![w] = TRUE]
  /\ UNCHANGED <<effect, loop, task, receipts, calls, faults, early>>

Crash(w) ==
  /\ loop[w] \notin {"stopped", "failed", "down"}
  /\ Fault
  /\ Leave(w, "down")
  /\ UNCHANGED <<effect, requested, receipts, calls, early>>

\* A process that crashed is started again; one that returned or raised has
\* left the work to the others.
Restart(w) ==
  /\ loop[w] = "down"
  /\ loop' = [loop EXCEPT ![w] = "cycle"]
  /\ requested' = [requested EXCEPT ![w] = FALSE]
  /\ UNCHANGED <<effect, task, receipts, calls, faults, early>>

LoopStep(w) ==
  \/ Observe(w, "cycle", "select")
  \/ Select(w)
  \/ Observe(w, "report", "wait")
  \/ Observe(w, "wait", "again")
  \/ NextCycle(w)
  \/ RaiseCompleted(w)
  \/ Drained(w)

\* Everything a task does by itself; the adapter answers when it does.
TaskStep(t) ==
  \/ Enter(t) \/ Prepare(t) \/ CommitClaim(t) \/ CommitDelivering(t)
  \/ Revalidate(t) \/ Withdraw(t) \/ Record(t)

Next ==
  \/ \E w \in Workers : LoopStep(w) \/ RequestShutdown(w) \/ Crash(w) \/ Restart(w)
  \/ \E t \in Tasks : TaskStep(t) \/ AdapterAnswers(t)
  \/ \E e \in Effects : Submit(e) \/ LeaseEnds(e) \/ Reconcile(e)

Spec == Init /\ [][Next]_vars

\* The event loop runs every task that can run, leases end by the clock, and
\* the host restarts a process that went down.  Nothing makes an adapter
\* answer, an operator act or the host stop a worker.
Fairness ==
  /\ \A w \in Workers : WF_vars(LoopStep(w)) /\ WF_vars(Restart(w))
  /\ \A t \in Tasks : WF_vars(TaskStep(t))
  /\ \A e \in Effects : WF_vars(LeaseEnds(e))

FairSpec == Spec /\ Fairness

--------------------------------------------------------------------------------
\* Properties

\* While an adapter is being called, the effect is durably DELIVERING, in the
\* very revision this task appended under its own claim.
CallIsDurable ==
  \A t \in Tasks : At(t, "delivering") => \E e \in task[t].effect :
    /\ effect[e].status = "delivering"
    /\ effect[e].version = task[t].version + 2
    /\ \E m \in effect[e].lease : m.claim \in task[t].claim

(***************************************************************************)
(* The adapter is called at most once for one DELIVERING revision: not     *)
(* again after a crash, an exact replay or a lost answer, and not by two   *)
(* tasks, of one worker or of two, that were given the same candidate.     *)
(***************************************************************************)
NoRepeatedCall ==
  [][\A t \in Tasks, e \in Effects :
       task'[t].pc = "delivering" /\ task[t].pc # "delivering" /\ e \in task'[t].effect
         => task[t].version + 2 \notin calls[e]]_vars

(***************************************************************************)
(* What is recorded of an effect is what happened to it: a call that was   *)
(* withdrawn as definitely not invoked was never made, and nothing is      *)
(* delivered or ambiguous that was not called for, by the worker or by the *)
(* operator who settled it later.                                          *)
(***************************************************************************)
OutcomeFollowsCall ==
  \A e \in Effects :
    /\ effect[e].status \in {"retry_scheduled", "dead_lettered"} /\ effect[e].lease # {} =>
         effect[e].version - 1 \notin calls[e]
    /\ effect[e].status = "ambiguous" => effect[e].version - 1 \in calls[e]
    /\ effect[e].status = "delivered" =>
         effect[e].version - 1 \in calls[e] \/ effect[e].version - 2 \in calls[e]

\* A requested shutdown ends run(), even if an adapter never answers.
ShutdownCompletes ==
  \A w \in Workers : requested[w] ~> loop[w] \in {"stopped", "failed", "down"}

\* Every permit of the worker's semaphore is held by a call of an adapter.
Jammed(w) ==
  Cardinality({s \in Slots : At(<<w, s>>, "delivering")}) = MaxConcurrency

(***************************************************************************)
(* Work is not lost: an effect that waits for delivery, also under a claim *)
(* whose owner has crashed or has given up, in the end leaves the          *)
(* claimable statuses.  Only two things can leave it there for ever: a     *)
(* worker that stops or fails, and adapters that never answer and so keep  *)
(* every permit of a worker, also for the effects of other adapters.       *)
(***************************************************************************)
EffectsSettle ==
  \A e \in Effects :
    <>[](effect[e].status \in Claimable) =>
      <>[](\E w \in Workers : loop[w] \in {"stopped", "failed"} \/ Jammed(w))

--------------------------------------------------------------------------------
\* What the decision records say of the worker and its code does not do.

\* Once shutdown is observed, the service starts no new claim (ADR-122).
NoClaimAfterShutdown ==
  [][\A t \in Tasks :
       task[t].pc = "claiming" /\ task'[t].pc = "starting" => loop[t[1]] # "drain"]_vars

================================================================================
