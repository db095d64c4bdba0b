-------------------------- MODULE RuntimeWorker_proofs --------------------------
(***************************************************************************)
(* Proofs about RuntimeWorker: its types, and that for any number of       *)
(* workers, tasks and effects an adapter is called under a durable         *)
(* DELIVERING revision, once for each, and that what is recorded of an     *)
(* effect is what happened to it.                                          *)
(***************************************************************************)
EXTENDS RuntimeWorker, TLAPS

Lease == [claim : Claims, over : BOOLEAN]

--------------------------------------------------------------------------------
\* The register

\* A compare-and-set moves one row on by one version.
LEMMA AdvanceEffect ==
  ASSUME RegisterOK, NEW e \in Effects, NEW v, NEW s \in Status \cup {"absent"},
         NEW l \in Option(Lease), Advance(e, v, s, l)
  PROVE  /\ RegisterOK'
         /\ effect[e].version = v /\ effect'[e].version = v + 1
         /\ effect'[e].status = s /\ effect'[e].lease = l
         /\ \A f \in Effects \ {e} : effect'[f] = effect[f]
<1> DEFINE row == [version |-> v + 1, status |-> s, lease |-> l]
<1>1. effect[e].version = v /\ v \in Nat
  BY DEF Advance, RegisterOK, EffectRow
<1>2. row \in EffectRow
  BY <1>1 DEF EffectRow, Lease
<1>3. row.version = v + 1 /\ row.status = s /\ row.lease = l
  OBVIOUS
<1>4. effect' = [effect EXCEPT ![e] = row]
  BY DEF Advance
<1> HIDE DEF row
<1>5. effect' \in [Effects -> EffectRow] /\ effect'[e] = row
  BY <1>2, <1>4 DEF RegisterOK
<1>6. \A f \in Effects \ {e} : effect'[f] = effect[f]
  BY <1>4 DEF RegisterOK
<1> QED
  BY <1>1, <1>3, <1>5, <1>6 DEF RegisterOK

LEMMA RowTyped ==
  ASSUME RegisterOK, NEW e \in Effects
  PROVE  /\ effect[e].version \in Nat /\ effect[e].status \in Status \cup {"absent"}
         /\ effect[e].lease \in Option(Lease)
  BY DEF RegisterOK, EffectRow, Lease

LEMMA NoLease == {} \in Option(Lease)
  BY DEF Option

LEMMA NewLease ==
  ASSUME NEW c \in Claims
  PROVE  {[claim |-> c, over |-> FALSE]} \in Option(Lease)
<1> DEFINE m == [claim |-> c, over |-> FALSE]
<1>1. m \in Lease
  BY DEF Lease
<1> HIDE DEF m
<1>2. {m} \in Option(Lease)
  BY <1>1 DEF Option
<1> QED
  BY <1>2 DEF m

LEMMA ClaimedEffect ==
  ASSUME RegisterOK, NEW e \in Effects, NEW v, NEW c \in Claims, Claimed(e, v, c, FALSE)
  PROVE  /\ RegisterOK'
         /\ effect[e].status \in Claimable
         /\ effect[e].version = v /\ effect'[e].version = v + 1
         /\ effect'[e].status = "claimed" /\ \E m \in effect'[e].lease : m.claim = c
         /\ \A f \in Effects \ {e} : effect'[f] = effect[f]
<1> DEFINE m == [claim |-> c, over |-> FALSE]
<1>1. m.claim = c
  OBVIOUS
<1>2. {m} \in Option(Lease)
  BY NewLease
<1>3. Advance(e, v, "claimed", {m}) /\ effect[e].status \in Claimable
  BY DEF Claimed
<1> HIDE DEF m
<1>4. "claimed" \in Status \cup {"absent"}
  BY DEF Status, Claimable
<1> QED
  BY <1>1, <1>2, <1>3, <1>4, AdvanceEffect

LEMMA StartEffect ==
  ASSUME RegisterOK, NEW e \in Effects, NEW v, StartDelivering(e, v)
  PROVE  /\ RegisterOK'
         /\ effect[e].status = "claimed"
         /\ effect[e].version = v /\ effect'[e].version = v + 1
         /\ effect'[e].status = "delivering" /\ effect'[e].lease = effect[e].lease
         /\ \A f \in Effects \ {e} : effect'[f] = effect[f]
<1>1. "delivering" \in Status \cup {"absent"}
  BY DEF Status
<1>2. effect[e].status = "claimed" /\ Advance(e, v, "delivering", effect[e].lease)
  BY DEF StartDelivering
<1>3. effect[e].lease \in Option(Lease)
  BY RowTyped
<1> QED
  BY <1>1, <1>2, <1>3, AdvanceEffect

LEMMA ConcludeEffect ==
  ASSUME RegisterOK, NEW e \in Effects, NEW v, NEW s, NEW l, Conclude(e, v, s, l)
  PROVE  /\ RegisterOK'
         /\ effect[e].status \in {"delivering", "ambiguous"}
         /\ effect[e].version = v /\ effect'[e].version = v + 1
         /\ effect'[e].status = s /\ effect'[e].lease = l
         /\ s \in {"delivered", "retry_scheduled", "ambiguous", "dead_lettered"}
         /\ \A f \in Effects \ {e} : effect'[f] = effect[f]
<1>1. s \in {"delivered", "retry_scheduled", "ambiguous", "dead_lettered"}
  BY DEF Conclude, Follows
<1>2. s \in Status \cup {"absent"}
  BY <1>1 DEF Status, Terminal, Claimable
<1>3. l \in Option(Lease)
  BY NoLease, RowTyped DEF Conclude
<1> QED
  BY <1>1, <1>2, <1>3, AdvanceEffect DEF Conclude

\* When a lease ends, the claim stays with the row.
LEMMA LeaseEndsEffect ==
  ASSUME RegisterOK, NEW e \in Effects, LeasesEnd({e})
  PROVE  /\ RegisterOK'
         /\ \A f \in Effects \ {e} : effect'[f] = effect[f]
         /\ effect'[e].version = effect[e].version /\ effect'[e].status = effect[e].status
         /\ \A m \in effect[e].lease : \E n \in effect'[e].lease : n.claim = m.claim
<1> DEFINE over(m) == [claim |-> m.claim, over |-> TRUE]
           l == {over(m) : m \in effect[e].lease}
<1>1. effect[e] \in EffectRow
  BY DEF RegisterOK
<1>2. \A m \in effect[e].lease : m.claim \in Claims /\ over(m) \in Lease /\ over(m).claim = m.claim
  <2>1. effect[e].lease \subseteq Lease
    BY RowTyped DEF Option
  <2> QED
    BY <2>1 DEF Lease
<1>3. \A x, y \in l : x = y
  <2>1. \A m, n \in effect[e].lease : m = n
    BY RowTyped DEF Option
  <2> QED
    BY <2>1
<1>4. l \subseteq Lease
  BY <1>2
<1>5. effect'[e] = [effect[e] EXCEPT !.lease = l]
  BY DEF LeasesEnd
<1>6. \A m \in effect[e].lease : \E n \in l : n.claim = m.claim
  BY <1>2
<1> HIDE DEF l
<1>7. /\ effect'[e] \in EffectRow /\ effect'[e].version = effect[e].version
      /\ effect'[e].status = effect[e].status /\ effect'[e].lease = l
  <2>1. l \in Option(Lease)
    BY <1>3, <1>4 DEF Option
  <2> QED
    BY <1>1, <1>5, <2>1 DEF EffectRow, Lease
<1>8. \A f \in Effects \ {e} : effect'[f] = effect[f]
  BY DEF LeasesEnd
<1>9. effect' = [f \in Effects |-> effect'[f]]
  BY DEF LeasesEnd
<1>10. \A f \in Effects : effect'[f] \in EffectRow
  BY <1>7, <1>8 DEF RegisterOK
<1>11. RegisterOK'
  BY <1>9, <1>10 DEF RegisterOK
<1> QED
  BY <1>6, <1>7, <1>8, <1>11

--------------------------------------------------------------------------------
\* Tasks

Places == Live \cup {"none", "waiting", "raised"}

LEMMA TaskFields ==
  ASSUME NEW x \in Task
  PROVE  /\ x.pc \in Places /\ x.effect \in Option(Effects) /\ x.version \in Nat
         /\ x.claim \in Option(Claims)
  BY DEF Task, Places

LEMMA NoTaskTyped == NoTask \in Task /\ NoTask.pc = "none"
<1>1. {} \in Option(Effects) /\ {} \in Option(Claims)
  BY DEF Option
<1> QED
  BY <1>1 DEF NoTask, Task

\* A task that moves keeps its candidate and its claim.
LEMMA GotoEffect ==
  ASSUME TypeOK, NEW t \in Tasks, NEW pc \in Places, Goto(t, pc)
  PROVE  /\ task' \in [Tasks -> Task]
         /\ \A u \in Tasks \ {t} : task'[u] = task[u]
         /\ task'[t].pc = pc /\ task'[t].effect = task[t].effect
         /\ task'[t].version = task[t].version /\ task'[t].claim = task[t].claim
<1>1. task[t] \in Task /\ task \in [Tasks -> Task]
  BY DEF TypeOK
<1> DEFINE x == [task[t] EXCEPT !.pc = pc]
<1>2. task' = [task EXCEPT ![t] = x]
  BY DEF Goto
<1>3. x \in Task
  BY <1>1 DEF Task, Places
<1>4. /\ x.pc = pc /\ x.effect = task[t].effect
      /\ x.version = task[t].version /\ x.claim = task[t].claim
  BY <1>1 DEF Task
<1> HIDE DEF x
<1> QED
  BY <1>1, <1>2, <1>3, <1>4

LEMMA DoneEffect ==
  ASSUME TypeOK, NEW t \in Tasks, Done(t)
  PROVE  /\ task' \in [Tasks -> Task]
         /\ \A u \in Tasks \ {t} : task'[u] = task[u]
         /\ task'[t] = NoTask
  BY NoTaskTyped DEF Done, TypeOK

LEMMA LeaveEffect ==
  ASSUME TypeOK, NEW w \in Workers,
         NEW pc \in {"stopped", "failed", "down"}, Leave(w, pc)
  PROVE  /\ task' \in [Tasks -> Task]
         /\ loop' \in [Workers -> {"cycle", "select", "report", "wait", "again",
                                   "drain", "stopped", "failed", "down"}]
         /\ \A u \in Tasks : task'[u] = task[u] \/ task'[u] = NoTask
  BY NoTaskTyped DEF Leave, TypeOK

LEMMA CandidateTyped ==
  ASSUME TypeOK, NEW e \in Effects
  PROVE  Candidate(e) \in Task /\ Candidate(e).pc = "waiting"
<1> DEFINE cs == {m.claim : m \in effect[e].lease}
           x  == Candidate(e)
<1>1. RegisterOK
  BY DEF TypeOK
<1>2. effect[e].lease \in Option(Lease) /\ effect[e].version \in Nat
  BY <1>1, RowTyped
<1>3. \A m \in effect[e].lease : m.claim \in Claims
  BY <1>2 DEF Option, Lease
<1>4. cs \in Option(Claims)
  BY <1>2, <1>3 DEF Option
<1>5. {e} \in Option(Effects)
  BY DEF Option
<1> HIDE DEF cs
<1>6. Candidate(e) = [pc |-> "waiting", effect |-> {e}, version |-> effect[e].version, claim |-> cs]
  BY DEF Candidate, cs
<1> QED
  BY <1>2, <1>4, <1>5, <1>6 DEF Task

--------------------------------------------------------------------------------
\* The inductive invariant

\* A task whose DELIVERING revision is written and not yet concluded.
Called   == {"delivering", "recording"}
Uncalled == {"revalidating", "withdrawing"}
Busy(t)  == task[t].pc \in Called \cup Uncalled

HasClaim(t, e) == \E m \in effect[e].lease : m.claim \in task[t].claim

\* A task that has claimed may have lost its claim, but then to a later one.
Started(t) ==
  task[t].pc = "starting" =>
    /\ task[t].effect # {}
    /\ \A e \in task[t].effect :
         /\ effect[e].version >= task[t].version + 1
         /\ effect[e].version = task[t].version + 1 =>
              effect[e].status = "claimed" /\ HasClaim(t, e)

\* From its DELIVERING revision on nobody but the task moves the effect, and
\* the call for that revision is made when the task has passed revalidation.
Underway(t) ==
  Busy(t) =>
    /\ task[t].effect # {}
    /\ \A e \in task[t].effect :
         /\ effect[e].version = task[t].version + 2
         /\ effect[e].status = "delivering" /\ HasClaim(t, e)
         /\ task[t].version + 2 \in calls[e] <=> task[t].pc \in Called

OneTaskPerEffect ==
  \A t, u \in Tasks : t # u /\ Busy(t) /\ Busy(u) => task[t].effect \cap task[u].effect = {}

\* Calls are for revisions that were written.
CallsWereWritten == \A e \in Effects : \A n \in calls[e] : n <= effect[e].version

\* OutcomeFollowsCall, of one effect.
Outcome(e) ==
  /\ effect[e].status \in {"retry_scheduled", "dead_lettered"} /\ effect[e].lease # {} =>
       effect[e].version - 1 \notin calls[e]
  /\ effect[e].status = "ambiguous" => effect[e].version - 1 \in calls[e]
  /\ effect[e].status = "delivered" =>
       effect[e].version - 1 \in calls[e] \/ effect[e].version - 2 \in calls[e]

WorkerInv ==
  /\ TypeOK
  /\ \A t \in Tasks : Started(t) /\ Underway(t)
  /\ OneTaskPerEffect
  /\ CallsWereWritten
  /\ \A e \in Effects : Outcome(e)

LEMMA Typed ==
  ASSUME TypeOK
  PROVE  /\ RegisterOK
         /\ \A t \in Tasks : task[t] \in Task /\ task[t].version \in Nat /\ task[t].effect \subseteq Effects
         /\ \A e \in Effects : effect[e].version \in Nat /\ calls[e] \subseteq Nat
<1>1. \A t \in Tasks : task[t] \in Task
  BY DEF TypeOK
<1>2. \A x \in Task : x.version \in Nat /\ x.effect \subseteq Effects
  BY TaskFields DEF Option
<1> QED
  BY <1>1, <1>2, RowTyped DEF TypeOK

\* A task changes in this way without the register or the calls.
Tame(t) ==
  \/ task'[t] = task[t]
  \/ task'[t].pc \in {"none", "waiting", "raised", "preparing", "claiming"}
  \/ /\ task'[t].effect = task[t].effect /\ task'[t].version = task[t].version
     /\ task'[t].claim = task[t].claim
     /\ \/ task[t].pc = "revalidating" /\ task'[t].pc = "withdrawing"
        \/ task[t].pc = "delivering" /\ task'[t].pc = "recording"

LEMMA TasksMove ==
  ASSUME WorkerInv, TypeOK', UNCHANGED <<effect, calls>>, \A t \in Tasks : Tame(t)
  PROVE  WorkerInv'
<1>1. ASSUME NEW t \in Tasks PROVE Started(t)' /\ Underway(t)'
  <2>1. Started(t) /\ Underway(t) /\ Tame(t)
    BY DEF WorkerInv
  <2>2. CASE task'[t] = task[t]
    BY <2>1, <2>2 DEF Started, Underway, Busy, HasClaim
  <2>3. CASE task'[t].pc \in {"none", "waiting", "raised", "preparing", "claiming"}
    BY <2>3 DEF Started, Underway, Busy, Called, Uncalled
  <2>4. CASE /\ task'[t].effect = task[t].effect /\ task'[t].version = task[t].version
             /\ task'[t].claim = task[t].claim
             /\ \/ task[t].pc = "revalidating" /\ task'[t].pc = "withdrawing"
                \/ task[t].pc = "delivering" /\ task'[t].pc = "recording"
    BY <2>1, <2>4 DEF Started, Underway, Busy, HasClaim, Called, Uncalled
  <2> QED
    BY <2>1, <2>2, <2>3, <2>4 DEF Tame
<1>2. \A t \in Tasks : Busy(t)' => Busy(t) /\ task'[t].effect = task[t].effect
  BY DEF Tame, Busy, Called, Uncalled
<1>3. OneTaskPerEffect'
  BY <1>2 DEF WorkerInv, OneTaskPerEffect
<1>4. CallsWereWritten' /\ \A e \in Effects : Outcome(e)'
  BY DEF WorkerInv, CallsWereWritten, Outcome
<1> QED
  BY <1>1, <1>3, <1>4 DEF WorkerInv

\* One row moves on by one version, under the tasks of T.
LEMMA RowMoves ==
  ASSUME WorkerInv, TypeOK', UNCHANGED calls, NEW e \in Effects, NEW T \in SUBSET Tasks,
         effect'[e].version = effect[e].version + 1,
         \A f \in Effects \ {e} : effect'[f] = effect[f],
         \A u \in Tasks \ T : task'[u] = task[u] /\ (Busy(u) => e \notin task[u].effect),
         \A t \in T : Started(t)' /\ Underway(t)',
         \A t \in T : Busy(t)' => \A u \in Tasks \ T : Busy(u) => task'[t].effect \cap task[u].effect = {},
         \A t, u \in T : t = u,
         Outcome(e)'
  PROVE  WorkerInv'
<1>1. ASSUME NEW u \in Tasks \ T PROVE Started(u)' /\ Underway(u)'
  <2>1. Started(u) /\ Underway(u) /\ task'[u] = task[u] /\ task[u].effect \subseteq Effects
    BY Typed DEF WorkerInv
  <2>2. Underway(u)'
    <3> SUFFICES ASSUME Busy(u), NEW f \in task[u].effect, task[u].effect # {}
                 PROVE  effect'[f] = effect[f]
      BY <2>1 DEF Underway, Busy, HasClaim
    <3> QED
      BY <2>1
  <2>3. Started(u)'
    <3> SUFFICES ASSUME task[u].pc = "starting", NEW f \in task[u].effect
                 PROVE  /\ effect'[f].version >= task[u].version + 1
                        /\ effect'[f].version = task[u].version + 1 =>
                             effect'[f].status = "claimed" /\ HasClaim(u, f)'
      BY <2>1 DEF Started
    <3>1. CASE f # e
      BY <2>1, <3>1 DEF Started, HasClaim
    <3>2. CASE f = e
      <4>1. effect[e].version >= task[u].version + 1
        BY <2>1, <3>2 DEF Started
      <4>2. effect[e].version \in Nat /\ task[u].version \in Nat
        BY Typed DEF WorkerInv
      <4> QED
        BY <3>2, <4>1, <4>2
    <3> QED
      BY <3>1, <3>2
  <2> QED
    BY <2>2, <2>3
<1>2. OneTaskPerEffect'
  <2> SUFFICES ASSUME NEW t \in Tasks, NEW u \in Tasks, t # u, Busy(t)', Busy(u)'
               PROVE  task'[t].effect \cap task'[u].effect = {}
    BY DEF OneTaskPerEffect
  <2>1. \A x \in Tasks \ T : (Busy(x)' <=> Busy(x)) /\ task'[x] = task[x]
    BY DEF Busy
  <2>2. CASE t \notin T /\ u \notin T
    BY <2>1, <2>2 DEF WorkerInv, OneTaskPerEffect
  <2>3. CASE t \in T
    BY <2>1, <2>3
  <2>4. CASE u \in T
    BY <2>1, <2>4
  <2> QED
    BY <2>2, <2>3, <2>4
<1>3. CallsWereWritten'
  <2> SUFFICES ASSUME NEW f \in Effects, NEW n \in calls[f] PROVE n <= effect'[f].version
    BY DEF CallsWereWritten
  <2>1. n <= effect[f].version /\ n \in Nat /\ effect[f].version \in Nat
    BY Typed DEF WorkerInv, CallsWereWritten
  <2> QED
    BY <2>1
<1>4. \A f \in Effects : Outcome(f)'
  BY DEF WorkerInv, Outcome
<1> QED
  BY <1>1, <1>2, <1>3, <1>4 DEF WorkerInv

\* The same, under one task.
LEMMA TaskMovesRow ==
  ASSUME WorkerInv, TypeOK', UNCHANGED calls, NEW e \in Effects, NEW t \in Tasks,
         effect'[e].version = effect[e].version + 1,
         \A f \in Effects \ {e} : effect'[f] = effect[f],
         \A u \in Tasks \ {t} : task'[u] = task[u] /\ (Busy(u) => e \notin task[u].effect),
         Started(t)', Underway(t)', Outcome(e)',
         Busy(t)' => \A u \in Tasks \ {t} : Busy(u) => task'[t].effect \cap task[u].effect = {}
  PROVE  WorkerInv'
<1> DEFINE T == {t}
<1>1. T \in SUBSET Tasks /\ (\A u \in T : u = t) /\ (\A u, x \in T : u = x)
  OBVIOUS
<1>2. \A u \in Tasks \ T : task'[u] = task[u] /\ (Busy(u) => e \notin task[u].effect)
  OBVIOUS
<1>3. \A u \in T : Started(u)' /\ Underway(u)'
  OBVIOUS
<1>4. \A u \in T : Busy(u)' => \A x \in Tasks \ T : Busy(x) => task'[u].effect \cap task[x].effect = {}
  BY <1>1
<1> HIDE DEF T
<1> QED
  BY <1>1, <1>2, <1>3, <1>4, RowMoves

\* The same, under nobody's task.
LEMMA RowMovesAlone ==
  ASSUME WorkerInv, TypeOK', UNCHANGED <<calls, task>>, NEW e \in Effects,
         effect'[e].version = effect[e].version + 1,
         \A f \in Effects \ {e} : effect'[f] = effect[f],
         \A u \in Tasks : Busy(u) => e \notin task[u].effect,
         Outcome(e)'
  PROVE  WorkerInv'
<1> DEFINE T == {}
<1>1. T \in SUBSET Tasks /\ \A u : u \notin T
  OBVIOUS
<1> HIDE DEF T
<1> QED
  BY <1>1, RowMoves

--------------------------------------------------------------------------------
\* Steps that leave the register and the calls alone

Positions == {"cycle", "select", "report", "wait", "again", "drain", "stopped", "failed", "down"}

LEMMA FaultTyped ==
  ASSUME TypeOK, Fault \/ NoFault
  PROVE  faults' \in 0 .. MaxFaults
  BY WorkerAssumption DEF TypeOK, Fault, NoFault

LEMMA QuietStep ==
  ASSUME WorkerInv, UNCHANGED <<effect, calls, receipts, early>>,
         loop' \in [Workers -> Positions], requested' \in [Workers -> BOOLEAN],
         task' \in [Tasks -> Task], Fault \/ NoFault,
         \A t \in Tasks : Tame(t)
  PROVE  WorkerInv'
<1>1. TypeOK /\ faults' \in 0 .. MaxFaults
  BY FaultTyped DEF WorkerInv
<1>2. RegisterOK'
  BY <1>1 DEF TypeOK, RegisterOK
<1>3. TypeOK'
  BY <1>1, <1>2 DEF TypeOK, Positions
<1> QED
  BY <1>3, TasksMove

LEMMA StateTyped ==
  ASSUME WorkerInv
  PROVE  /\ TypeOK /\ task \in [Tasks -> Task] /\ loop \in [Workers -> Positions]
         /\ requested \in [Workers -> BOOLEAN]
  BY DEF WorkerInv, TypeOK, Positions

\* A worker that leaves its loop takes its tasks with it.
LEMMA LeaveStep ==
  ASSUME WorkerInv, NEW w \in Workers, NEW pc \in {"stopped", "failed", "down"}, Leave(w, pc),
         Fault \/ NoFault, UNCHANGED <<effect, calls, receipts, early, requested>>
  PROVE  WorkerInv'
<1>1. /\ task' \in [Tasks -> Task] /\ loop' \in [Workers -> Positions]
      /\ \A u \in Tasks : task'[u] = task[u] \/ task'[u] = NoTask
  BY LeaveEffect, StateTyped DEF Positions
<1>2. \A t \in Tasks : Tame(t)
  BY <1>1, NoTaskTyped DEF Tame
<1> QED
  BY <1>1, <1>2, QuietStep, StateTyped

\* A worker that only moves on in its loop.
LEMMA MoveStep ==
  ASSUME WorkerInv, NEW w \in Workers, NEW pc \in Positions, loop' = [loop EXCEPT ![w] = pc],
         Fault \/ NoFault, UNCHANGED <<effect, calls, receipts, early, requested, task>>
  PROVE  WorkerInv'
<1>1. \A t \in Tasks : Tame(t)
  BY DEF Tame
<1> QED
  BY <1>1, QuietStep, StateTyped

LEMMA StillStep ==
  ASSUME WorkerInv, Fault \/ NoFault,
         UNCHANGED <<effect, calls, receipts, early, requested, task, loop>>
  PROVE  WorkerInv'
<1>1. \A t \in Tasks : Tame(t)
  BY DEF Tame
<1> QED
  BY <1>1, QuietStep, StateTyped

LEMMA ObserveStep ==
  ASSUME WorkerInv, NEW w \in Workers, NEW from, NEW to \in Positions, Observe(w, from, to)
  PROVE  WorkerInv'
<1> DEFINE pc == IF requested[w] THEN "drain" ELSE to
<1>1. pc \in Positions
  BY DEF Positions
<1> HIDE DEF pc
<1>2. CASE loop' = [loop EXCEPT ![w] = pc] /\ NoFault /\ UNCHANGED task
  BY <1>1, <1>2, MoveStep DEF Observe
<1>3. CASE Fault /\ UNCHANGED <<loop, task>>
  BY <1>3, StillStep DEF Observe
<1>4. CASE Fault /\ Leave(w, "failed")
  BY <1>4, LeaveStep DEF Observe
<1> QED
  BY <1>2, <1>3, <1>4 DEF Observe, pc

LEMMA SelectStep ==
  ASSUME WorkerInv, NEW w \in Workers, Select(w)
  PROVE  WorkerInv'
<1> USE DEF Positions
<1>1. CASE Leave(w, "failed") /\ NoFault
  BY <1>1, LeaveStep DEF Select
<1>2. CASE loop' = [loop EXCEPT ![w] = "report"] /\ Fault /\ UNCHANGED task
  BY <1>2, MoveStep DEF Select
<1>3. ASSUME loop' = [loop EXCEPT ![w] = "report"], NoFault,
             NEW E \in SUBSET Effects, NEW place \in [E -> Free(w)],
             task' = [t \in Tasks |->
               IF t[1] = w /\ \E e \in E : place[e] = t[2]
               THEN Candidate(CHOOSE e \in E : place[e] = t[2])
               ELSE task[t]]
      PROVE  WorkerInv'
  <2>1. ASSUME NEW t \in Tasks
        PROVE  \/ task'[t] = task[t]
               \/ \E e \in Effects : task'[t] = Candidate(e)
    <3>1. CASE t[1] = w /\ \E e \in E : place[e] = t[2]
      <4> DEFINE e == CHOOSE e \in E : place[e] = t[2]
      <4>1. e \in E
        BY <3>1
      <4>2. task'[t] = Candidate(e)
        BY <1>3, <3>1
      <4> HIDE DEF e
      <4> QED
        BY <4>1, <4>2
    <3>2. CASE ~(t[1] = w /\ \E e \in E : place[e] = t[2])
      BY <1>3, <3>2
    <3> QED
      BY <3>1, <3>2
  <2>2. \A e \in Effects : Candidate(e) \in Task /\ Candidate(e).pc = "waiting"
    BY CandidateTyped, StateTyped
  <2>3. \A t \in Tasks : task'[t] \in Task /\ Tame(t)
    BY <2>1, <2>2, StateTyped DEF Tame
  <2>4. task' = [t \in Tasks |-> task'[t]]
    BY <1>3
  <2>5. task' \in [Tasks -> Task]
    BY <2>3, <2>4
  <2>6. loop' \in [Workers -> Positions]
    BY <1>3, StateTyped
  <2> QED
    BY <1>3, <2>3, <2>5, <2>6, QuietStep, StateTyped DEF Select
<1> QED
  BY <1>1, <1>2, <1>3 DEF Select

LEMMA LoopStepKeeps ==
  ASSUME WorkerInv, NEW w \in Workers, LoopStep(w)
  PROVE  WorkerInv'
<1> USE DEF Positions
<1>1. CASE Observe(w, "cycle", "select")
  BY <1>1, ObserveStep
<1>2. CASE Select(w)
  BY <1>2, SelectStep
<1>3. CASE Observe(w, "report", "wait")
  BY <1>3, ObserveStep
<1>4. CASE Observe(w, "wait", "again")
  BY <1>4, ObserveStep
<1>5. CASE NextCycle(w)
  BY <1>5, MoveStep DEF NextCycle, NoFault
<1>6. CASE RaiseCompleted(w)
  BY <1>6, LeaveStep DEF RaiseCompleted, NoFault
<1>7. CASE Drained(w)
  <2> DEFINE pc == IF Raised(w) THEN "failed" ELSE "stopped"
  <2>1. pc \in {"stopped", "failed", "down"} /\ Leave(w, pc)
    BY <1>7 DEF Drained
  <2> HIDE DEF pc
  <2> QED
    BY <1>7, <2>1, LeaveStep DEF Drained, NoFault
<1> QED
  BY <1>1, <1>2, <1>3, <1>4, <1>5, <1>6, <1>7 DEF LoopStep

LEMMA HostStepKeeps ==
  ASSUME WorkerInv, NEW w \in Workers, RequestShutdown(w) \/ Crash(w) \/ Restart(w)
  PROVE  WorkerInv'
<1>1. CASE Crash(w)
  BY <1>1, LeaveStep DEF Crash
<1>2. CASE RequestShutdown(w) \/ Restart(w)
  <2>1. requested' \in [Workers -> BOOLEAN]
    <3>1. PICK b \in BOOLEAN : requested' = [requested EXCEPT ![w] = b]
      BY <1>2 DEF RequestShutdown, Restart
    <3> QED
      BY <3>1, StateTyped
  <2>2. loop' \in [Workers -> Positions]
    BY <1>2, StateTyped DEF RequestShutdown, Restart, Positions
  <2>3. UNCHANGED <<effect, calls, receipts, early, task, faults>>
    BY <1>2 DEF RequestShutdown, Restart
  <2>4. \A t \in Tasks : Tame(t)
    BY <2>3 DEF Tame
  <2> QED
    BY <2>1, <2>2, <2>3, <2>4, QuietStep, StateTyped DEF NoFault
<1> QED
  BY <1>1, <1>2

--------------------------------------------------------------------------------
\* Steps of a task that leave the register and the calls alone

LEMMA TaskQuiet ==
  ASSUME WorkerInv, NEW t \in Tasks, task' \in [Tasks -> Task],
         \A u \in Tasks \ {t} : task'[u] = task[u], Tame(t),
         Fault \/ NoFault, UNCHANGED <<effect, calls, receipts, early, loop, requested>>
  PROVE  WorkerInv'
<1>1. \A u \in Tasks : Tame(u)
  BY DEF Tame
<1> QED
  BY <1>1, QuietStep, StateTyped

LEMMA DoneQuiet ==
  ASSUME WorkerInv, NEW t \in Tasks, Done(t),
         Fault \/ NoFault, UNCHANGED <<effect, calls, receipts, early, loop, requested>>
  PROVE  WorkerInv'
<1>1. /\ task' \in [Tasks -> Task] /\ \A u \in Tasks \ {t} : task'[u] = task[u]
      /\ task'[t].pc = "none"
  BY DoneEffect, NoTaskTyped, StateTyped
<1> QED
  BY <1>1, TaskQuiet DEF Tame

LEMMA GotoQuiet ==
  ASSUME WorkerInv, NEW t \in Tasks, NEW pc \in Places, Goto(t, pc),
         \/ pc \in {"none", "waiting", "raised", "preparing", "claiming"}
         \/ At(t, "revalidating") /\ pc = "withdrawing"
         \/ At(t, "delivering") /\ pc = "recording",
         Fault \/ NoFault, UNCHANGED <<effect, calls, receipts, early, loop, requested>>
  PROVE  WorkerInv'
<1>1. /\ task' \in [Tasks -> Task]
      /\ \A u \in Tasks \ {t} : task'[u] = task[u]
      /\ task'[t].pc = pc /\ task'[t].effect = task[t].effect
      /\ task'[t].version = task[t].version /\ task'[t].claim = task[t].claim
  BY GotoEffect, StateTyped
<1>2. Tame(t)
  BY <1>1 DEF Tame, At
<1> QED
  BY <1>1, <1>2, TaskQuiet

LEMMA EnterStep ==
  ASSUME WorkerInv, NEW t \in Tasks, Enter(t)
  PROVE  WorkerInv'
<1>1. UNCHANGED <<effect, calls, receipts, early, loop, requested>> /\ NoFault
  BY DEF Enter, NoFault
<1>2. CASE Done(t)
  BY <1>1, <1>2, DoneQuiet
<1>3. CASE Goto(t, "preparing")
  BY <1>1, <1>3, GotoQuiet DEF Places, Live
<1> QED
  BY <1>2, <1>3 DEF Enter

LEMMA PrepareStep ==
  ASSUME WorkerInv, NEW t \in Tasks, Prepare(t)
  PROVE  WorkerInv'
<1>1. UNCHANGED <<effect, calls, receipts, early, loop, requested>>
  BY DEF Prepare
<1>2. CASE Done(t) /\ Fault
  BY <1>1, <1>2, DoneQuiet
<1>3. ASSUME NEW c \in Claims, NoFault,
             task' = [task EXCEPT ![t].pc = "claiming", ![t].claim = {c}]
      PROVE  WorkerInv'
  <2>1. task[t] \in Task /\ task \in [Tasks -> Task]
    BY StateTyped
  <2> DEFINE x == [task[t] EXCEPT !.pc = "claiming", !.claim = {c}]
  <2>2. task' = [task EXCEPT ![t] = x]
    BY <1>3, <2>1
  <2>3. {c} \in Option(Claims)
    BY DEF Option
  <2>4. x \in Task /\ x.pc = "claiming"
    BY <2>1, <2>3 DEF Task, Live
  <2> HIDE DEF x
  <2>5. task' \in [Tasks -> Task] /\ task'[t].pc = "claiming" /\ \A u \in Tasks \ {t} : task'[u] = task[u]
    BY <2>1, <2>2, <2>4
  <2> QED
    BY <1>1, <1>3, <2>5, TaskQuiet DEF Tame
<1> QED
  BY <1>2, <1>3 DEF Prepare

LEMMA AdapterStep ==
  ASSUME WorkerInv, NEW t \in Tasks, AdapterAnswers(t)
  PROVE  WorkerInv'
<1>1. UNCHANGED <<effect, calls, receipts, early, loop, requested>>
  BY DEF AdapterAnswers
<1>2. CASE Done(t) /\ Fault
  BY <1>1, <1>2, DoneQuiet
<1>3. CASE Goto(t, "recording") /\ NoFault
  BY <1>1, <1>3, GotoQuiet DEF AdapterAnswers, Places, Live
<1> QED
  BY <1>2, <1>3 DEF AdapterAnswers

\* A write that does not take effect.
LEMMA NotWrittenStep ==
  ASSUME WorkerInv, NEW t \in Tasks, NEW r, NEW refused, NotWritten(t, r, refused),
         UNCHANGED <<loop, requested, calls, early>>
  PROVE  WorkerInv'
<1>1. UNCHANGED <<effect, calls, receipts, early, loop, requested>>
  BY DEF NotWritten
<1>2. CASE Done(t) /\ (Fault \/ NoFault)
  BY <1>1, <1>2, DoneQuiet
<1>3. CASE Goto(t, "raised") /\ NoFault
  BY <1>1, <1>3, GotoQuiet DEF Places
<1> QED
  BY <1>2, <1>3 DEF NotWritten

--------------------------------------------------------------------------------
\* Steps that write

\* What moves the register has the types in common.
LEMMA WriteTyped ==
  ASSUME WorkerInv, RegisterOK', task' \in [Tasks -> Task], receipts' \subseteq Receipt,
         Fault \/ NoFault, UNCHANGED <<loop, requested, calls, early>>
  PROVE  TypeOK'
<1>1. TypeOK /\ faults' \in 0 .. MaxFaults
  BY FaultTyped DEF WorkerInv
<1> QED
  BY <1>1 DEF TypeOK

\* The task that wrote moves on, or fails before it has the answer.
LEMMA AnsweredEffect ==
  ASSUME TypeOK, NEW t \in Tasks, NEW pc \in Places, Answered(t, pc)
  PROVE  /\ task' \in [Tasks -> Task] /\ (Fault \/ NoFault)
         /\ \A u \in Tasks \ {t} : task'[u] = task[u]
         /\ \/ /\ task'[t].pc = pc /\ task'[t].effect = task[t].effect
               /\ task'[t].version = task[t].version /\ task'[t].claim = task[t].claim
            \/ task'[t].pc = "none"
<1>1. CASE Goto(t, pc) /\ NoFault
  BY <1>1, GotoEffect
<1>2. CASE Done(t) /\ Fault
  BY <1>2, DoneEffect, NoTaskTyped
<1> QED
  BY <1>1, <1>2 DEF Answered

\* A task names at most one effect.
LEMMA OneEffect ==
  ASSUME TypeOK, NEW t \in Tasks, NEW e \in task[t].effect
  PROVE  e \in Effects /\ task[t].effect = {e}
<1>1. task[t].effect \in Option(Effects)
  BY TaskFields DEF TypeOK
<1> QED
  BY <1>1 DEF Option

LEMMA OneClaim ==
  ASSUME TypeOK, NEW t \in Tasks, NEW c \in task[t].claim
  PROVE  c \in Claims
<1>1. task[t].claim \in Option(Claims)
  BY TaskFields DEF TypeOK
<1> QED
  BY <1>1 DEF Option

LEMMA ReceiptTyped ==
  ASSUME WorkerInv, NEW e \in Effects, NEW v \in Nat, NEW c \in Claims,
         NEW s \in {"claimed", "delivering"}, receipts' = receipts \cup {Written(e, v, c, s)}
  PROVE  receipts' \subseteq Receipt
  BY DEF WorkerInv, TypeOK, Written, Receipt

\* No task has begun the delivery of an effect that is not DELIVERING.
LEMMA NobodyUnderway ==
  ASSUME WorkerInv, NEW e \in Effects, effect[e].status # "delivering"
  PROVE  \A u \in Tasks : Busy(u) => e \notin task[u].effect
  BY DEF WorkerInv, Underway

LEMMA ClaimStep ==
  ASSUME WorkerInv, NEW t \in Tasks, CommitClaim(t)
  PROVE  WorkerInv'
<1>1. PICK e \in task[t].effect, c \in task[t].claim :
        LET v == task[t].version
            r == Written(e, v + 1, c, "claimed")
            free == /\ effect[e].version = v
                    /\ \A m \in effect[e].lease : m.over /\ m.claim # c
        IN  \/ /\ v < MaxVersion
               /\ Claimed(e, v, c, FALSE)
               /\ receipts' = receipts \cup {r}
               /\ Answered(t, "starting")
            \/ NotWritten(t, r, ~free)
  BY DEF CommitClaim
<1>2. UNCHANGED <<loop, requested, calls, early>>
  BY DEF CommitClaim
<1> DEFINE v == task[t].version
           r == Written(e, v + 1, c, "claimed")
           free == /\ effect[e].version = v
                   /\ \A m \in effect[e].lease : m.over /\ m.claim # c
<1>3. CASE NotWritten(t, r, ~free)
  BY <1>2, <1>3, NotWrittenStep
<1>4. CASE Claimed(e, v, c, FALSE) /\ receipts' = receipts \cup {r} /\ Answered(t, "starting")
  <2>1. /\ TypeOK /\ RegisterOK /\ e \in Effects /\ c \in Claims /\ task[t].effect = {e} /\ v \in Nat
    BY OneEffect, OneClaim, Typed, StateTyped
  <2>2. /\ RegisterOK' /\ effect[e].status \in Claimable
        /\ effect[e].version = v /\ effect'[e].version = v + 1
        /\ effect'[e].status = "claimed" /\ \E m \in effect'[e].lease : m.claim = c
        /\ \A f \in Effects \ {e} : effect'[f] = effect[f]
    <3>1. Claimed(e, v, c, FALSE)
      BY <1>4
    <3>2. RegisterOK /\ e \in Effects /\ c \in Claims
      BY <2>1
    <3> HIDE DEF v
    <3> QED
      BY <3>1, <3>2, ClaimedEffect
  <2>3. /\ task' \in [Tasks -> Task] /\ (Fault \/ NoFault)
        /\ \A u \in Tasks \ {t} : task'[u] = task[u]
        /\ \/ /\ task'[t].pc = "starting" /\ task'[t].effect = task[t].effect
              /\ task'[t].version = task[t].version /\ task'[t].claim = task[t].claim
           \/ task'[t].pc = "none"
    BY <1>4, <2>1, AnsweredEffect DEF Places, Live
  <2>4. receipts' \subseteq Receipt
    BY <1>4, <2>1, ReceiptTyped
  <2>5. TypeOK'
    BY <1>2, <2>2, <2>3, <2>4, WriteTyped
  <2>6. Started(t)' /\ Underway(t)' /\ ~Busy(t)'
    <3>1. Underway(t)' /\ ~Busy(t)'
      BY <2>3 DEF Underway, Busy, Called, Uncalled
    <3>2. Started(t)'
      BY <2>1, <2>2, <2>3 DEF Started, HasClaim
    <3> QED
      BY <3>1, <3>2
  <2>7. \A u \in Tasks : Busy(u) => e \notin task[u].effect
    BY <2>1, <2>2, NobodyUnderway DEF Claimable
  <2>8. Outcome(e)'
    BY <2>2 DEF Outcome
  <2> QED
    BY <1>2, <2>1, <2>2, <2>3, <2>5, <2>6, <2>7, <2>8, TaskMovesRow
<1> QED
  BY <1>1, <1>3, <1>4

LEMMA DeliveringStep ==
  ASSUME WorkerInv, NEW t \in Tasks, CommitDelivering(t)
  PROVE  WorkerInv'
<1>1. PICK e \in task[t].effect, c \in task[t].claim :
        LET v == task[t].version + 1
            r == Written(e, v + 1, c, "delivering")
        IN  \/ /\ StartDelivering(e, v)
               /\ receipts' = receipts \cup {r}
               /\ Answered(t, "revalidating")
            \/ NotWritten(t, r, effect[e].version # v)
  BY DEF CommitDelivering
<1>2. UNCHANGED <<loop, requested, calls, early>> /\ task[t].pc = "starting"
  BY DEF CommitDelivering, At
<1> DEFINE v == task[t].version + 1
           r == Written(e, v + 1, c, "delivering")
<1>3. CASE NotWritten(t, r, effect[e].version # v)
  BY <1>2, <1>3, NotWrittenStep
<1>4. CASE StartDelivering(e, v) /\ receipts' = receipts \cup {r} /\ Answered(t, "revalidating")
  <2>1. /\ TypeOK /\ RegisterOK /\ e \in Effects /\ c \in Claims /\ task[t].effect = {e}
        /\ task[t].version \in Nat
    BY OneEffect, OneClaim, Typed, StateTyped
  <2>2. /\ RegisterOK' /\ effect[e].status = "claimed"
        /\ effect[e].version = v /\ effect'[e].version = v + 1
        /\ effect'[e].status = "delivering" /\ effect'[e].lease = effect[e].lease
        /\ \A f \in Effects \ {e} : effect'[f] = effect[f]
    BY <1>4, <2>1, StartEffect
  <2>3. /\ task' \in [Tasks -> Task] /\ (Fault \/ NoFault)
        /\ \A u \in Tasks \ {t} : task'[u] = task[u]
        /\ \/ /\ task'[t].pc = "revalidating" /\ task'[t].effect = task[t].effect
              /\ task'[t].version = task[t].version /\ task'[t].claim = task[t].claim
           \/ task'[t].pc = "none"
    BY <1>4, <2>1, AnsweredEffect DEF Places, Live
  <2>4. receipts' \subseteq Receipt
    BY <1>4, <2>1, ReceiptTyped
  <2>5. TypeOK'
    BY <1>2, <2>2, <2>3, <2>4, WriteTyped
  <2>6. \A u \in Tasks : Busy(u) => e \notin task[u].effect
    BY <2>1, <2>2, NobodyUnderway
  <2>7. effect'[e].version = task[t].version + 2 /\ task[t].version + 2 \notin calls[e]
    <3>1. effect'[e].version = task[t].version + 2
      BY <2>1, <2>2
    <3>2. \A n \in calls[e] : n <= task[t].version + 1
      BY <2>1, <2>2 DEF WorkerInv, CallsWereWritten
    <3> QED
      BY <2>1, <3>1, <3>2
  <2>8. HasClaim(t, e)
    BY <1>2, <2>1, <2>2 DEF WorkerInv, Started
  <2>9. Started(t)' /\ Underway(t)'
    <3>1. CASE task'[t].pc = "none"
      BY <3>1 DEF Started, Underway, Busy, Called, Uncalled
    <3>2. CASE /\ task'[t].pc = "revalidating" /\ task'[t].effect = task[t].effect
               /\ task'[t].version = task[t].version /\ task'[t].claim = task[t].claim
      BY <1>2, <2>1, <2>2, <2>7, <2>8, <3>2 DEF Started, Underway, Busy, HasClaim, Called, Uncalled
    <3> QED
      BY <2>3, <3>1, <3>2
  <2>10. Busy(t)' => \A u \in Tasks \ {t} : Busy(u) => task'[t].effect \cap task[u].effect = {}
    BY <2>1, <2>3, <2>6 DEF Busy, Called, Uncalled
  <2>11. Outcome(e)'
    BY <2>2 DEF Outcome
  <2> QED
    BY <1>2, <2>1, <2>2, <2>3, <2>5, <2>6, <2>9, <2>10, <2>11, TaskMovesRow
<1> QED
  BY <1>1, <1>3, <1>4

\* A task that is busy holds its effect alone.
LEMMA BusyAlone ==
  ASSUME WorkerInv, NEW t \in Tasks, Busy(t), NEW e \in task[t].effect
  PROVE  /\ e \in Effects /\ task[t].effect = {e} /\ task[t].version \in Nat
         /\ effect[e].version = task[t].version + 2 /\ effect[e].status = "delivering"
         /\ task[t].version + 2 \in calls[e] <=> task[t].pc \in Called
         /\ \A u \in Tasks \ {t} : Busy(u) => e \notin task[u].effect
<1>1. e \in Effects /\ task[t].effect = {e}
  BY OneEffect, StateTyped
<1>2. \A u \in Tasks \ {t} : Busy(u) => e \notin task[u].effect
  BY <1>1 DEF WorkerInv, OneTaskPerEffect
<1> QED
  BY <1>1, <1>2, Typed DEF WorkerInv, Underway

\* An outcome that says what was done.
LEMMA OutcomeStep ==
  ASSUME WorkerInv, NEW t \in Tasks, NEW statuses, NEW keep \in BOOLEAN,
         CommitOutcome(t, statuses, keep), Busy(t),
         task[t].pc \in Called => statuses = {"delivered", "ambiguous"},
         task[t].pc \in Uncalled => statuses \subseteq {"retry_scheduled", "dead_lettered"},
         keep => task[t].pc \in Uncalled
  PROVE  WorkerInv'
<1>1. PICK e \in task[t].effect :
        LET v == task[t].version + 2 IN
          \/ /\ \E s \in statuses : Conclude(e, v, s, IF keep THEN effect[e].lease ELSE {})
             /\ Done(t)
             /\ NoFault \/ Fault
          \/ /\ effect[e].version # v /\ Goto(t, "raised") /\ NoFault
             /\ UNCHANGED effect
          \/ Done(t) /\ Fault /\ UNCHANGED effect
  BY DEF CommitOutcome
<1>2. UNCHANGED <<loop, requested, receipts, calls, early>>
  BY DEF CommitOutcome
<1> DEFINE v == task[t].version + 2
           l == IF keep THEN effect[e].lease ELSE {}
<1>3. CASE effect[e].version # v /\ Goto(t, "raised") /\ NoFault /\ UNCHANGED effect
  BY <1>2, <1>3, GotoQuiet DEF Places
<1>4. CASE Done(t) /\ Fault /\ UNCHANGED effect
  BY <1>2, <1>4, DoneQuiet
<1>5. ASSUME NEW s \in statuses, Conclude(e, v, s, l), Done(t), NoFault \/ Fault
      PROVE  WorkerInv'
  <2>1. /\ e \in Effects /\ task[t].effect = {e} /\ task[t].version \in Nat
        /\ effect[e].version = task[t].version + 2 /\ effect[e].status = "delivering"
        /\ v \in calls[e] <=> task[t].pc \in Called
        /\ \A u \in Tasks \ {t} : Busy(u) => e \notin task[u].effect
    BY BusyAlone
  <2> HIDE DEF l
  <2>2. /\ RegisterOK' /\ effect[e].version = v /\ effect'[e].version = v + 1
        /\ effect'[e].status = s
        /\ \A f \in Effects \ {e} : effect'[f] = effect[f]
    BY <1>5, <2>1, ConcludeEffect, Typed, StateTyped
  <2>3. /\ task' \in [Tasks -> Task] /\ \A u \in Tasks \ {t} : task'[u] = task[u]
        /\ task'[t].pc = "none"
    BY <1>5, DoneEffect, NoTaskTyped, StateTyped
  <2>4. TypeOK'
    <3>1. receipts' \subseteq Receipt
      BY <1>2 DEF WorkerInv, TypeOK
    <3> QED
      BY <1>2, <1>5, <2>2, <2>3, <3>1, WriteTyped
  <2>5. Started(t)' /\ Underway(t)' /\ ~Busy(t)'
    BY <2>3 DEF Started, Underway, Busy, Called, Uncalled
  <2>6. effect'[e].version - 1 = v /\ calls'[e] = calls[e]
    BY <1>2, <2>1, <2>2
  <2>7. Outcome(e)'
    <3>1. CASE task[t].pc \in Called
      BY <2>1, <2>2, <2>6, <3>1 DEF Outcome
    <3>2. CASE task[t].pc \in Uncalled
      <4>1. v \notin calls[e]
        BY <2>1, <3>2 DEF Called, Uncalled
      <4> QED
        BY <2>1, <2>2, <2>6, <3>2, <4>1 DEF Outcome
    <3> QED
      BY <3>1, <3>2 DEF Busy
  <2> QED
    BY <1>2, <2>1, <2>2, <2>3, <2>4, <2>5, <2>7, TaskMovesRow
<1> QED
  BY <1>1, <1>3, <1>4, <1>5

LEMMA RevalidateStep ==
  ASSUME WorkerInv, NEW t \in Tasks, Revalidate(t)
  PROVE  WorkerInv'
<1>1. UNCHANGED <<effect, loop, requested, receipts, early>> /\ task[t].pc = "revalidating"
  BY DEF Revalidate, At
<1>2. CASE Done(t) /\ (Fault \/ NoFault) /\ UNCHANGED calls
  BY <1>1, <1>2, DoneQuiet
<1>3. CASE Goto(t, "withdrawing") /\ NoFault /\ UNCHANGED calls
  BY <1>1, <1>3, GotoQuiet DEF Places, Live, At
<1>4. ASSUME Goto(t, "delivering"), NoFault,
             calls' = [e \in Effects |-> calls[e] \cup
               (IF e \in task[t].effect THEN {task[t].version + 2} ELSE {})]
      PROVE  WorkerInv'
  <2>1. Busy(t) /\ task[t].effect # {}
    BY <1>1 DEF WorkerInv, Underway, Busy, Uncalled
  <2>2. PICK e \in task[t].effect : TRUE
    BY <2>1
  <2> DEFINE v == task[t].version + 2
  <2>3. /\ e \in Effects /\ task[t].effect = {e} /\ task[t].version \in Nat
        /\ effect[e].version = task[t].version + 2 /\ effect[e].status = "delivering"
        /\ v \in calls[e] <=> task[t].pc \in Called
        /\ \A u \in Tasks \ {t} : Busy(u) => e \notin task[u].effect
    BY <2>1, BusyAlone
  <2>4. /\ task' \in [Tasks -> Task]
        /\ \A u \in Tasks \ {t} : task'[u] = task[u]
        /\ task'[t].pc = "delivering" /\ task'[t].effect = task[t].effect
        /\ task'[t].version = task[t].version /\ task'[t].claim = task[t].claim
    BY <1>4, GotoEffect, StateTyped DEF Places, Live
  <2>5. /\ \A f \in Effects \ {e} : calls'[f] = calls[f]
        /\ calls'[e] = calls[e] \cup {v}
    BY <1>4, <2>3
  <2>6. TypeOK'
    <3>1. \A f \in Effects : calls'[f] \subseteq Nat
      BY <2>3, <2>5, Typed DEF WorkerInv
    <3>2. calls' \in [Effects -> SUBSET Nat]
      BY <1>4, <3>1
    <3>3. faults' \in 0 .. MaxFaults
      BY <1>4, FaultTyped DEF WorkerInv
    <3>4. RegisterOK'
      BY <1>1 DEF WorkerInv, TypeOK, RegisterOK
    <3> QED
      BY <1>1, <2>4, <3>2, <3>3, <3>4 DEF WorkerInv, TypeOK
  <2>7. \A u \in Tasks : Started(u)'
    <3>1. \A u \in Tasks \ {t} : Started(u)'
      BY <1>1, <2>4 DEF WorkerInv, Started, HasClaim
    <3>2. Started(t)'
      BY <2>4 DEF Started
    <3> QED
      BY <3>1, <3>2
  <2>8. \A u \in Tasks : Underway(u)'
    <3>1. ASSUME NEW u \in Tasks \ {t} PROVE Underway(u)'
      <4>1. Underway(u) /\ task[u].effect \subseteq Effects
        BY Typed DEF WorkerInv
      <4>2. Busy(u) => \A f \in task[u].effect : calls'[f] = calls[f]
        BY <2>3, <2>5, <4>1
      <4> QED
        BY <1>1, <2>4, <4>1, <4>2 DEF Underway, Busy, HasClaim
    <3>2. HasClaim(t, e)
      BY <2>1, <2>2 DEF WorkerInv, Underway
    <3>3. HasClaim(t, e)'
      BY <1>1, <2>4, <3>2 DEF HasClaim
    <3>4. Underway(t)'
      BY <1>1, <2>3, <2>4, <2>5, <3>3 DEF Underway, Called
    <3> QED
      BY <3>1, <3>4
  <2>9. OneTaskPerEffect'
    <3>1. \A u \in Tasks : Busy(u)' => Busy(u) /\ task'[u].effect = task[u].effect
      BY <2>1, <2>4 DEF Busy
    <3> QED
      BY <3>1 DEF WorkerInv, OneTaskPerEffect
  <2>10. CallsWereWritten'
    <3> SUFFICES ASSUME NEW f \in Effects, NEW n \in calls'[f] PROVE n <= effect[f].version
      BY <1>1 DEF CallsWereWritten
    <3>1. CASE n \in calls[f]
      BY <3>1 DEF WorkerInv, CallsWereWritten
    <3>2. CASE n \notin calls[f]
      BY <2>3, <2>5, <3>2
    <3> QED
      BY <3>1, <3>2
  <2>11. \A f \in Effects : Outcome(f)'
    <3>1. Outcome(e)'
      BY <1>1, <2>3 DEF Outcome
    <3>2. \A f \in Effects \ {e} : Outcome(f)'
      BY <1>1, <2>5 DEF WorkerInv, Outcome
    <3> QED
      BY <3>1, <3>2
  <2> QED
    BY <2>6, <2>7, <2>8, <2>9, <2>10, <2>11 DEF WorkerInv
<1> QED
  BY <1>2, <1>3, <1>4 DEF Revalidate

LEMMA TaskStepKeeps ==
  ASSUME WorkerInv, NEW t \in Tasks, TaskStep(t) \/ AdapterAnswers(t)
  PROVE  WorkerInv'
<1>1. CASE Enter(t)
  BY <1>1, EnterStep
<1>2. CASE Prepare(t)
  BY <1>2, PrepareStep
<1>3. CASE CommitClaim(t)
  BY <1>3, ClaimStep
<1>4. CASE CommitDelivering(t)
  BY <1>4, DeliveringStep
<1>5. CASE Revalidate(t)
  BY <1>5, RevalidateStep
<1>6. CASE Withdraw(t)
  BY <1>6, OutcomeStep, WorkerAssumption DEF Withdraw, At, Busy, Called, Uncalled
<1>7. CASE Record(t)
  BY <1>7, OutcomeStep DEF Record, At, Busy, Called, Uncalled
<1>8. CASE AdapterAnswers(t)
  BY <1>8, AdapterStep
<1> QED
  BY <1>1, <1>2, <1>3, <1>4, <1>5, <1>6, <1>7, <1>8 DEF TaskStep

--------------------------------------------------------------------------------
\* Steps of the environment

LEMMA RegisterTyped ==
  ASSUME WorkerInv, RegisterOK', early' \in 0 .. MaxEarly,
         UNCHANGED <<loop, requested, task, receipts, calls, faults>>
  PROVE  TypeOK'
  BY DEF WorkerInv, TypeOK

LEMMA SubmitStep ==
  ASSUME WorkerInv, NEW e \in Effects, Submit(e)
  PROVE  WorkerInv'
<1>1. effect[e].status = "absent" /\ Advance(e, 0, "enqueued", {})
  BY DEF Submit, Enqueue
<1>2. UNCHANGED <<loop, requested, task, receipts, calls, faults, early>>
  BY DEF Submit
<1>3. "enqueued" \in Status \cup {"absent"}
  BY DEF Status, Claimable
<1>4. /\ RegisterOK' /\ effect[e].version = 0 /\ effect'[e].version = 0 + 1
      /\ effect'[e].status = "enqueued" /\ effect'[e].lease = {}
      /\ \A f \in Effects \ {e} : effect'[f] = effect[f]
  BY <1>1, <1>3, AdvanceEffect, NoLease, Typed, StateTyped
<1>5. early' \in 0 .. MaxEarly
  BY <1>2 DEF WorkerInv, TypeOK
<1>6. TypeOK'
  BY <1>2, <1>4, <1>5, RegisterTyped
<1>7. Outcome(e)'
  BY <1>4 DEF Outcome
<1>8. \A u \in Tasks : Busy(u) => e \notin task[u].effect
  BY <1>1, NobodyUnderway
<1> QED
  BY <1>2, <1>4, <1>6, <1>7, <1>8, RowMovesAlone

LEMMA ReconcileStep ==
  ASSUME WorkerInv, NEW e \in Effects, Reconcile(e)
  PROVE  WorkerInv'
<1>1. PICK s \in Decisions : Conclude(e, effect[e].version, s, {})
  BY DEF Reconcile
<1>2. /\ UNCHANGED <<loop, requested, task, receipts, calls, faults, early>>
      /\ effect[e].status = "ambiguous"
  BY DEF Reconcile
<1>3. /\ RegisterOK' /\ effect'[e].version = effect[e].version + 1
      /\ effect'[e].status = s /\ effect'[e].lease = {}
      /\ \A f \in Effects \ {e} : effect'[f] = effect[f]
  BY <1>1, ConcludeEffect, Typed, StateTyped
<1>4. s \in {"delivered", "retry_scheduled", "dead_lettered"}
  BY WorkerAssumption DEF Follows
<1>5. early' \in 0 .. MaxEarly
  BY <1>2 DEF WorkerInv, TypeOK
<1>6. TypeOK'
  BY <1>2, <1>3, <1>5, RegisterTyped
<1>7. Outcome(e)'
  <2>1. effect[e].version - 1 \in calls[e] /\ effect[e].version \in Nat
    BY <1>2, Typed DEF WorkerInv, Outcome
  <2>2. effect'[e].version - 2 = effect[e].version - 1
    BY <1>3, <2>1
  <2> QED
    BY <1>2, <1>3, <1>4, <2>1, <2>2 DEF Outcome
<1>8. \A u \in Tasks : Busy(u) => e \notin task[u].effect
  BY <1>2, NobodyUnderway
<1> QED
  BY <1>2, <1>3, <1>6, <1>7, <1>8, RowMovesAlone

\* When a lease ends, the claim stays where it was.
LEMMA LeaseEndsStep ==
  ASSUME WorkerInv, NEW e \in Effects, LeaseEnds(e)
  PROVE  WorkerInv'
<1>1. /\ UNCHANGED <<loop, requested, task, receipts, calls, faults>>
      /\ effect[e].status = "claimed" /\ LeasesEnd({e})
  BY DEF LeaseEnds
<1>2. /\ RegisterOK'
      /\ \A f \in Effects \ {e} : effect'[f] = effect[f]
      /\ effect'[e].version = effect[e].version /\ effect'[e].status = effect[e].status
      /\ \A m \in effect[e].lease : \E n \in effect'[e].lease : n.claim = m.claim
  BY <1>1, LeaseEndsEffect, Typed, StateTyped
<1>3. early' \in 0 .. MaxEarly
  <2>1. early \in 0 .. MaxEarly /\ MaxEarly \in Nat
    BY WorkerAssumption DEF WorkerInv, TypeOK
  <2>2. (early < MaxEarly /\ early' = early + 1) \/ early' = early
    BY DEF LeaseEnds
  <2> QED
    BY <2>1, <2>2
<1>4. TypeOK'
  BY <1>1, <1>2, <1>3, RegisterTyped
<1>5. \A f \in Effects : effect'[f].version = effect[f].version /\ effect'[f].status = effect[f].status
  BY <1>2
<1>6. \A t \in Tasks, f \in Effects : HasClaim(t, f) => HasClaim(t, f)'
  <2> SUFFICES ASSUME NEW t \in Tasks, NEW f \in Effects, HasClaim(t, f) PROVE HasClaim(t, f)'
    OBVIOUS
  <2>1. CASE f = e
    BY <1>1, <1>2, <2>1 DEF HasClaim
  <2>2. CASE f # e
    BY <1>1, <1>2, <2>2 DEF HasClaim
  <2> QED
    BY <2>1, <2>2
<1>7. \A t \in Tasks : Started(t)' /\ Underway(t)'
  <2> SUFFICES ASSUME NEW t \in Tasks PROVE Started(t)' /\ Underway(t)'
    OBVIOUS
  <2>1. Started(t) /\ Underway(t) /\ task[t].effect \subseteq Effects
    BY Typed DEF WorkerInv
  <2>2. Started(t)'
    BY <1>1, <1>5, <1>6, <2>1 DEF Started
  <2>3. Underway(t)'
    BY <1>1, <1>5, <1>6, <2>1 DEF Underway, Busy
  <2> QED
    BY <2>2, <2>3
<1>8. OneTaskPerEffect' /\ CallsWereWritten'
  BY <1>1, <1>5 DEF WorkerInv, OneTaskPerEffect, CallsWereWritten, Busy
<1>9. \A f \in Effects : Outcome(f)'
  <2>1. Outcome(e)'
    BY <1>1, <1>2 DEF Outcome
  <2>2. \A f \in Effects \ {e} : Outcome(f)'
    BY <1>1, <1>2 DEF WorkerInv, Outcome
  <2> QED
    BY <2>1, <2>2
<1> QED
  BY <1>4, <1>7, <1>8, <1>9 DEF WorkerInv

--------------------------------------------------------------------------------
\* The invariant, and what it gives

LEMMA InitHolds == Init => WorkerInv
<1> SUFFICES ASSUME Init PROVE WorkerInv
  OBVIOUS
<1> DEFINE row == [version |-> 0, status |-> "absent", lease |-> {}]
<1>1. row \in EffectRow
  BY NoLease DEF EffectRow, Lease
<1>2. row.status = "absent"
  OBVIOUS
<1>3. effect = [e \in Effects |-> row]
  BY DEF Init, DeliveryInit
<1> HIDE DEF row
<1>4. RegisterOK /\ \A e \in Effects : effect[e].status = "absent"
  BY <1>1, <1>2, <1>3 DEF RegisterOK
<1>5. task \in [Tasks -> Task] /\ \A t \in Tasks : task[t].pc = "none"
  BY NoTaskTyped DEF Init
<1>6. calls \in [Effects -> SUBSET Nat] /\ \A e \in Effects : calls[e] = {}
  BY DEF Init
<1>7. TypeOK
  BY <1>4, <1>5, <1>6, WorkerAssumption DEF Init, TypeOK
<1>8. \A t \in Tasks : Started(t) /\ Underway(t)
  BY <1>5 DEF Started, Underway, Busy, Called, Uncalled
<1>9. OneTaskPerEffect /\ CallsWereWritten
  BY <1>5, <1>6 DEF OneTaskPerEffect, CallsWereWritten, Busy, Called, Uncalled
<1>10. \A e \in Effects : Outcome(e)
  BY <1>4 DEF Outcome
<1> QED
  BY <1>7, <1>8, <1>9, <1>10 DEF WorkerInv

LEMMA NextKeeps == WorkerInv /\ [Next]_vars => WorkerInv'
<1> SUFFICES ASSUME WorkerInv, [Next]_vars PROVE WorkerInv'
  OBVIOUS
<1>1. CASE UNCHANGED vars
  BY <1>1, StillStep DEF vars, NoFault
<1>2. ASSUME NEW w \in Workers, LoopStep(w) \/ RequestShutdown(w) \/ Crash(w) \/ Restart(w)
      PROVE  WorkerInv'
  BY <1>2, LoopStepKeeps, HostStepKeeps
<1>3. ASSUME NEW t \in Tasks, TaskStep(t) \/ AdapterAnswers(t) PROVE WorkerInv'
  BY <1>3, TaskStepKeeps
<1>4. ASSUME NEW e \in Effects, Submit(e) \/ LeaseEnds(e) \/ Reconcile(e) PROVE WorkerInv'
  BY <1>4, SubmitStep, LeaseEndsStep, ReconcileStep
<1> QED
  BY <1>1, <1>2, <1>3, <1>4 DEF Next

LEMMA Invariance == Spec => []WorkerInv
<1> QED
  BY InitHolds, NextKeeps, PTL DEF Spec

\* A step that begins no call.
NoCallBegins == \A t \in Tasks : task'[t].pc = "delivering" => task[t].pc = "delivering"

LEMMA DoneBeginsNone ==
  ASSUME WorkerInv, NEW t \in Tasks, Done(t)
  PROVE  NoCallBegins
  BY DoneEffect, NoTaskTyped, StateTyped DEF NoCallBegins

LEMMA GotoBeginsNone ==
  ASSUME WorkerInv, NEW t \in Tasks, NEW pc \in Places \ {"delivering"}, Goto(t, pc)
  PROVE  NoCallBegins
<1>1. task'[t].pc = pc /\ \A u \in Tasks \ {t} : task'[u] = task[u]
  BY GotoEffect, StateTyped
<1> QED
  BY <1>1 DEF NoCallBegins

LEMMA LeaveBeginsNone ==
  ASSUME WorkerInv, NEW w \in Workers, NEW pc \in {"stopped", "failed", "down"}, Leave(w, pc)
  PROVE  NoCallBegins
<1>1. \A u \in Tasks : task'[u] = task[u] \/ task'[u] = NoTask
  BY LeaveEffect, StateTyped
<1> QED
  BY <1>1, NoTaskTyped DEF NoCallBegins

LEMMA LoopBeginsNone ==
  ASSUME WorkerInv, NEW w \in Workers, LoopStep(w) \/ RequestShutdown(w) \/ Crash(w) \/ Restart(w)
  PROVE  NoCallBegins
<1>1. CASE \E pc \in {"stopped", "failed", "down"} : Leave(w, pc)
  BY <1>1, LeaveBeginsNone
<1>2. CASE task' = task
  BY <1>2 DEF NoCallBegins
<1>3. ASSUME NEW E, NEW place,
             task' = [t \in Tasks |->
               IF t[1] = w /\ \E e \in E : place[e] = t[2]
               THEN Candidate(CHOOSE e \in E : place[e] = t[2])
               ELSE task[t]]
      PROVE  NoCallBegins
  <2>1. \A e : Candidate(e).pc = "waiting"
    BY DEF Candidate
  <2> QED
    BY <1>3, <2>1 DEF NoCallBegins
<1>4. CASE Select(w)
  BY <1>1, <1>2, <1>3, <1>4 DEF Select
<1>5. CASE \E from, to \in Positions : Observe(w, from, to)
  BY <1>1, <1>2, <1>5 DEF Observe
<1>6. CASE RaiseCompleted(w) \/ NextCycle(w) \/ Drained(w) \/ RequestShutdown(w)
           \/ Crash(w) \/ Restart(w)
  BY <1>1, <1>2, <1>6 DEF RaiseCompleted, NextCycle, Drained, RequestShutdown, Crash, Restart
<1> QED
  BY <1>4, <1>5, <1>6 DEF LoopStep, Positions

\* Only the task that has passed revalidation comes to call its adapter.
LEMMA TaskBeginsCall ==
  ASSUME WorkerInv, NEW t \in Tasks, TaskStep(t) \/ AdapterAnswers(t)
  PROVE  \/ NoCallBegins
         \/ /\ Revalidate(t) /\ task'[t].effect = task[t].effect
            /\ \A u \in Tasks \ {t} : task'[u] = task[u]
<1> USE DEF Places, Live
<1>1. CASE Done(t)
  BY <1>1, DoneBeginsNone
<1>2. CASE Goto(t, "preparing") \/ Goto(t, "starting") \/ Goto(t, "revalidating")
           \/ Goto(t, "withdrawing") \/ Goto(t, "recording") \/ Goto(t, "raised")
  BY <1>2, GotoBeginsNone
<1>3. CASE Enter(t)
  BY <1>1, <1>2, <1>3 DEF Enter
<1>4. CASE Prepare(t)
  <2>1. ASSUME NEW c, task' = [task EXCEPT ![t].pc = "claiming", ![t].claim = {c}]
        PROVE  NoCallBegins
    <3>1. task[t] \in Task /\ task \in [Tasks -> Task]
      BY StateTyped
    <3> DEFINE x == [task[t] EXCEPT !.pc = "claiming", !.claim = {c}]
    <3>2. task' = [task EXCEPT ![t] = x]
      BY <2>1, <3>1
    <3>3. x.pc = "claiming"
      BY <3>1 DEF Task
    <3> HIDE DEF x
    <3> QED
      BY <3>1, <3>2, <3>3 DEF NoCallBegins
  <2> QED
    BY <1>1, <1>4, <2>1 DEF Prepare
<1>5. CASE CommitClaim(t)
  BY <1>1, <1>2, <1>5 DEF CommitClaim, Answered, NotWritten
<1>6. CASE CommitDelivering(t)
  BY <1>1, <1>2, <1>6 DEF CommitDelivering, Answered, NotWritten
<1>7. CASE Withdraw(t) \/ Record(t)
  BY <1>1, <1>2, <1>7 DEF Withdraw, Record, CommitOutcome
<1>8. CASE AdapterAnswers(t)
  BY <1>1, <1>2, <1>8 DEF AdapterAnswers
<1>9. CASE Revalidate(t)
  <2>1. CASE Goto(t, "delivering")
    BY <1>9, <2>1, GotoEffect, StateTyped
  <2> QED
    BY <1>1, <1>2, <1>9, <2>1 DEF Revalidate
<1> QED
  BY <1>3, <1>4, <1>5, <1>6, <1>7, <1>8, <1>9 DEF TaskStep

LEMMA DeliveringIsCalled ==
  ASSUME WorkerInv, [Next]_vars, NEW t \in Tasks,
         task'[t].pc = "delivering", task[t].pc # "delivering"
  PROVE  Revalidate(t) /\ task'[t].effect = task[t].effect
<1>1. ~NoCallBegins /\ task' # task
  BY DEF NoCallBegins
<1>2. PICK u \in Tasks : TaskStep(u) \/ AdapterAnswers(u)
  BY <1>1, LoopBeginsNone DEF Next, vars, Submit, LeaseEnds, Reconcile
<1> QED
  BY <1>1, <1>2, TaskBeginsCall

(***************************************************************************)
(* The variables keep their types: in particular every version is counted  *)
(* and a task never carries two effects or two claims.                     *)
(***************************************************************************)
THEOREM TypeCorrect == Spec => []TypeOK
<1>1. WorkerInv => TypeOK
  BY DEF WorkerInv
<1> QED
  BY <1>1, Invariance, PTL

(***************************************************************************)
(* While the orchestration awaits an adapter, the effect is DELIVERING in  *)
(* the store, in the revision that this very task appended and under the   *)
(* claim it committed, whatever the other tasks and workers have done.     *)
(***************************************************************************)
THEOREM CallsAreDurable == Spec => []CallIsDurable
<1>1. WorkerInv => CallIsDurable
  <2> SUFFICES ASSUME WorkerInv, NEW t \in Tasks, task[t].pc = "delivering"
               PROVE  \E e \in task[t].effect :
                        /\ effect[e].status = "delivering"
                        /\ effect[e].version = task[t].version + 2
                        /\ \E m \in effect[e].lease : m.claim \in task[t].claim
    BY DEF CallIsDurable, At
  <2> QED
    BY DEF WorkerInv, Underway, Busy, HasClaim, Called
<1> QED
  BY <1>1, Invariance, PTL

(***************************************************************************)
(* No adapter call is repeated for a DELIVERING revision: neither a crash  *)
(* and restart, nor a replayed write, nor a lost answer, nor two tasks     *)
(* admitted for one candidate lead the worker to call it again.            *)
(***************************************************************************)
THEOREM CallsAreNotRepeated == Spec => NoRepeatedCall
<1> DEFINE Once ==
      \A t \in Tasks, e \in Effects :
        task'[t].pc = "delivering" /\ task[t].pc # "delivering" /\ e \in task'[t].effect
          => task[t].version + 2 \notin calls[e]
<1>1. WorkerInv /\ [Next]_vars => [Once]_vars
  <2> SUFFICES ASSUME WorkerInv, [Next]_vars, NEW t \in Tasks, NEW e \in Effects,
                      task'[t].pc = "delivering", task[t].pc # "delivering", e \in task'[t].effect
               PROVE  task[t].version + 2 \notin calls[e]
    OBVIOUS
  <2>1. Revalidate(t) /\ task'[t].effect = task[t].effect
    BY DeliveringIsCalled
  <2>2. task[t].pc = "revalidating"
    BY <2>1 DEF Revalidate, At
  <2> QED
    BY <2>1, <2>2 DEF WorkerInv, Underway, Busy, Called, Uncalled
<1>2. NoRepeatedCall <=> [][Once]_vars
  BY DEF NoRepeatedCall
<1> HIDE DEF Once
<1> QED
  BY <1>1, <1>2, Invariance, PTL DEF Spec

(***************************************************************************)
(* The recorded outcome is what happened: what was withdrawn as definitely *)
(* not invoked was not called for, and what is delivered or ambiguous was, *)
(* also when an operator has reconciled it since.                          *)
(***************************************************************************)
THEOREM OutcomesFollowCalls == Spec => []OutcomeFollowsCall
<1>1. WorkerInv => OutcomeFollowsCall
  BY DEF WorkerInv, OutcomeFollowsCall, Outcome
<1> QED
  BY <1>1, Invariance, PTL

(***************************************************************************)
(* No two tasks, of one worker or of two, call an adapter for the same     *)
(* effect at the same time: a lease that ends while its task has begun to  *)
(* deliver lets nobody else claim the effect.                              *)
(***************************************************************************)
OneCallPerEffect ==
  \A t, u \in Tasks : At(t, "delivering") /\ At(u, "delivering") /\ t # u =>
    task[t].effect \cap task[u].effect = {}

THEOREM CallsDoNotOverlap == Spec => []OneCallPerEffect
<1>1. WorkerInv => OneCallPerEffect
  BY DEF WorkerInv, OneTaskPerEffect, OneCallPerEffect, Busy, Called, At
<1> QED
  BY <1>1, Invariance, PTL

--------------------------------------------------------------------------------
(* The workers and the register *)

LEMMA LoopLeavesRegister ==
  ASSUME NEW w \in Workers, LoopStep(w) \/ RequestShutdown(w) \/ Crash(w) \/ Restart(w)
  PROVE  UNCHANGED effect
  BY DEF LoopStep, Observe, Select, NextCycle, RaiseCompleted, Drained,
         RequestShutdown, Crash, Restart

LEMMA ClaimImplements ==
  ASSUME RegisterOK, NEW t \in Tasks, task[t] \in Task, CommitClaim(t)
  PROVE  [DeliveryNext]_effect
<1>1. PICK e \in task[t].effect, c \in task[t].claim :
        Claimed(e, task[t].version, c, FALSE) \/ UNCHANGED effect
  BY DEF CommitClaim, NotWritten
<1>2. e \in Effects /\ c \in Claims
  BY DEF Task, Option
<1>3. CASE Claimed(e, task[t].version, c, FALSE)
  <2>1. effect[e].version = task[t].version
    BY <1>3 DEF Claimed, Advance
  <2> QED
    BY <1>2, <1>3, <2>1 DEF DeliveryNext
<1> QED
  BY <1>1, <1>3

LEMMA DeliveringImplements ==
  ASSUME RegisterOK, NEW t \in Tasks, task[t] \in Task, CommitDelivering(t)
  PROVE  [DeliveryNext]_effect
<1>1. PICK e \in task[t].effect :
        StartDelivering(e, task[t].version + 1) \/ UNCHANGED effect
  BY DEF CommitDelivering, NotWritten
<1>2. e \in Effects
  BY DEF Task, Option
<1>3. CASE StartDelivering(e, task[t].version + 1)
  <2>1. effect[e].version = task[t].version + 1
    BY <1>3 DEF StartDelivering, Advance
  <2> QED
    BY <1>2, <1>3, <2>1 DEF DeliveryNext
<1> QED
  BY <1>1, <1>3

\* Every status that an effect under delivery is given is one of the graph.
LEMMA ConcludeImplements ==
  ASSUME NEW e \in Effects, NEW v, NEW s, NEW l, Conclude(e, v, s, l)
  PROVE  DeliveryNext
<1>1. effect[e].version = v /\ l \in {{}, effect[e].lease}
  BY DEF Conclude, Advance
<1>2. s \in Status
  BY DEF Conclude, Follows, Status, Terminal, Claimable
<1> QED
  BY <1>1, <1>2 DEF DeliveryNext

LEMMA TaskImplements ==
  ASSUME RegisterOK, NEW t \in Tasks, task[t] \in Task, TaskStep(t) \/ AdapterAnswers(t)
  PROVE  [DeliveryNext]_effect
<1>1. CASE Enter(t) \/ Prepare(t) \/ Revalidate(t) \/ AdapterAnswers(t)
  BY <1>1 DEF Enter, Prepare, Revalidate, AdapterAnswers
<1>2. CASE Withdraw(t) \/ Record(t)
  <2>1. PICK e \in task[t].effect :
          UNCHANGED effect \/ \E v, s, l : Conclude(e, v, s, l)
    BY <1>2 DEF Withdraw, Record, CommitOutcome
  <2>2. e \in Effects
    BY DEF Task, Option
  <2> QED
    BY <2>1, <2>2, ConcludeImplements
<1> QED
  BY <1>1, <1>2, ClaimImplements, DeliveringImplements DEF TaskStep

LEMMA EnvironmentImplements ==
  ASSUME NEW e \in Effects, Submit(e) \/ LeaseEnds(e) \/ Reconcile(e)
  PROVE  DeliveryNext
<1>1. CASE Submit(e)
  BY <1>1 DEF Submit, DeliveryNext
<1>2. CASE LeaseEnds(e)
  BY <1>2 DEF LeaseEnds, DeliveryNext
<1>3. CASE Reconcile(e)
  BY <1>3, ConcludeImplements DEF Reconcile
<1> QED
  BY <1>1, <1>2, <1>3

(***************************************************************************)
(* Whatever the workers, their tasks, the operator and the clock do, with  *)
(* crashes and failing capabilities, they do to the effect store through   *)
(* the operations of EffectDelivery, one compare-and-set at a time: the    *)
(* register the workers run on is the one that the store implements.       *)
(***************************************************************************)
THEOREM WorkerImplementsDelivery == Spec => DeliverySpec
<1>1. Init => DeliveryInit
  BY DEF Init
<1>2. WorkerInv /\ [Next]_vars => [DeliveryNext]_effect
  <2> SUFFICES ASSUME WorkerInv, [Next]_vars PROVE [DeliveryNext]_effect
    OBVIOUS
  <2>1. RegisterOK /\ \A t \in Tasks : task[t] \in Task
    BY DEF WorkerInv, TypeOK
  <2>2. CASE UNCHANGED vars
    BY <2>2 DEF vars
  <2>3. ASSUME NEW w \in Workers, LoopStep(w) \/ RequestShutdown(w) \/ Crash(w) \/ Restart(w)
        PROVE  [DeliveryNext]_effect
    BY <2>3, LoopLeavesRegister
  <2>4. ASSUME NEW t \in Tasks, TaskStep(t) \/ AdapterAnswers(t)
        PROVE  [DeliveryNext]_effect
    BY <2>1, <2>4, TaskImplements
  <2>5. ASSUME NEW e \in Effects, Submit(e) \/ LeaseEnds(e) \/ Reconcile(e)
        PROVE  [DeliveryNext]_effect
    BY <2>5, EnvironmentImplements
  <2> QED
    BY <2>2, <2>3, <2>4, <2>5 DEF Next
<1> QED
  BY <1>1, <1>2, Invariance, PTL DEF Spec, DeliverySpec

================================================================================
