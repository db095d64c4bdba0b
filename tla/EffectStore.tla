------------------------------ MODULE EffectStore ------------------------------
(***************************************************************************)
(* The PostgreSQL effect store and the callers of its short transactions.  *)
(*                                                                         *)
(* Per effect the store keeps an append-only list of revisions and one     *)
(* mutable head, the coordination row that due selection and claims read.  *)
(* A caller builds a request from the revision it has just read, and may   *)
(* submit it much later: every request runs as two transactions, a replay  *)
(* lookup and the write.  The write of a claim or an append repeats the    *)
(* lookup under the row lock of the head; that of an initial enqueue does  *)
(* not, and relies on the keys of what it writes.  Other callers run       *)
(* between the two.  A caller whose answer is lost submits the same        *)
(* request again, and so may another process that holds a copy of it.      *)
(***************************************************************************)
EXTENDS EffectLifecycle

CONSTANTS Callers,       \* processes that hold a database session
          Results,       \* certainties the adapter is made to return
          Observations,  \* outcomes reconciliation is made to return
          ClaimsByAppend, \* do callers also write CLAIMED through the append?
          MaxRevisions   \* bound of the model: revisions of one effect

ASSUME EvidenceAssumption ==
  Results \subseteq Certainty /\ Observations \subseteq Outcome /\ ClaimsByAppend \in BOOLEAN

VARIABLES now,           \* the injected clock all callers read
          revisions,     \* effect -> the immutable lifecycle revisions
          head,          \* effect -> its runtime_effect_lifecycle_heads row
          call           \* caller -> the request it is submitting

vars == <<now, revisions, head, call>>

\* Revision 0 stands for the row that does not exist yet.
HeadRow == [revision : Nat, status : Status \cup {"absent"}, lease : Option(Lease),
            eligible : Option(Time), attempts : 0 .. MaxAttempts]

NoHead == [revision |-> 0, status |-> "absent", lease |-> {}, eligible |-> {},
           attempts |-> 0]

Response == {"appended", "exact_replay", "replay_conflict",
             "revision_conflict", "terminal", "claim_refused"}

Call == [pc : {"idle", "lookup", "commit", "answered"},
         request : Option(Request), response : Option(Response)]

TypeOK ==
  /\ now \in Time
  /\ revisions \in [Effects -> Seq(Request)]
  /\ head \in [Effects -> HeadRow]
  /\ call \in [Callers -> Call]

NoCall == [pc |-> "idle", request |-> {}, response |-> {}]

Init ==
  /\ now = 0
  /\ revisions = [e \in Effects |-> <<>>]
  /\ head = [e \in Effects |-> NoHead]
  /\ call = [p \in Callers |-> NoCall]

--------------------------------------------------------------------------------
\* Requests a caller can build from the last revision of an effect.

Last(e) == revisions[e][Len(revisions[e])]

Draft(via, e, id, status) ==
  [id |-> id, via |-> via, effect |-> e, previous |-> Len(revisions[e]),
   status |-> status, lease |-> {}, attempt |-> 0, result |-> {},
   observation |-> {}, retry |-> {}, notInvoked |-> {}, at |-> now]

RetryDecisions == {[eligible |-> t] : t \in Option(now .. MaxTime)}

\* The initial effect, committed with the runtime write set that owns it.
EnqueueRequests(e, id) == {Draft("enqueue", e, id, "enqueued")}

ClaimRequests(e, id) ==
  {[Draft("claim", e, id, "claimed") EXCEPT !.lease = {[claim |-> c, expires |-> t]}] :
     c \in Claims, t \in Time}

DeliveringRequests(e, id) ==
  {[Draft("append", e, id, "delivering") EXCEPT !.lease = Last(e).lease, !.attempt = n] :
     n \in 1 .. MaxAttempts}

\* The outcome of an adapter call, with the result the adapter returned.
ResultRequests(e, id) ==
  UNION {{[Draft("append", e, id, s) EXCEPT !.attempt = Last(e).attempt, !.result = {c}] :
            c \in Results} : s \in {"delivered", "ambiguous", "dead_lettered"}}

RetryRequests(e, id) ==
  {[Draft("append", e, id, "retry_scheduled") EXCEPT !.attempt = Last(e).attempt,
                                                     !.retry = {d}] : d \in RetryDecisions}

\* A call that was not made, with the claim and the attempt that show it.
NotInvokedRequests(e, id) ==
  {[Draft("append", e, id, "dead_lettered") EXCEPT
      !.lease = Last(e).lease, !.attempt = Last(e).attempt, !.notInvoked = {w}] :
     w \in NotInvokedReason}

NotInvokedRetryRequests(e, id) ==
  UNION {{[r EXCEPT !.status = "retry_scheduled", !.retry = {d}] : d \in RetryDecisions} :
            r \in NotInvokedRequests(e, id)}

\* The same records under an observation of a reconciliation.
ReconciliationRequests(e, id) ==
  UNION {{[Draft("append", e, id, s) EXCEPT !.attempt = Last(e).attempt,
                                            !.result = Last(e).result,
                                            !.observation = {o}] : o \in Observations} :
            s \in {"delivered", "dead_lettered"}}

ReconciledRetryRequests(e, id) ==
  {[r EXCEPT !.observation = {o}] : r \in RetryRequests(e, id), o \in Observations}

\* The append operation takes any successor status, CLAIMED included.
ClaimAppendRequests(e, id) ==
  IF ClaimsByAppend THEN {[r EXCEPT !.via = "append"] : r \in ClaimRequests(e, id)} ELSE {}

DeadLetterRequests(e, id) == {Draft("append", e, id, "dead_lettered")}

Requests(e, id) ==
  IF revisions[e] = <<>>
  THEN EnqueueRequests(e, id)
  ELSE {r \in ClaimRequests(e, id) \cup ClaimAppendRequests(e, id)
              \cup DeliveringRequests(e, id) \cup DeadLetterRequests(e, id)
              \cup ResultRequests(e, id) \cup RetryRequests(e, id)
              \cup NotInvokedRequests(e, id) \cup NotInvokedRetryRequests(e, id)
              \cup ReconciliationRequests(e, id) \cup ReconciledRetryRequests(e, id) :
          ValidRequest(Last(e), r)}

--------------------------------------------------------------------------------
\* The two transactions of one submission.

\* Faulty variant: the lookup compares whole requests instead of their ids.
ExistingByValue(r) ==
  {x \in UNION {{revisions[e][i] : i \in DOMAIN revisions[e]} : e \in Effects} : x = r}

\* Rows the replay lookup finds: by effect for the initial enqueue, by request
\* id for a claim or an append.
Existing(r) ==
  {x \in UNION {{revisions[e][i] : i \in DOMAIN revisions[e]} : e \in Effects} :
     IF r.via = "enqueue" THEN x.via = "enqueue" /\ x.effect = r.effect
                          ELSE x.via = r.via /\ x.id = r.id}

\* Faulty variant of the head update: a revision without a claim leaves the
\* old claim in place.
NextHeadKeepsClaim(h, r) ==
  [revision |-> h.revision + 1,
   status   |-> r.status,
   lease    |-> IF r.lease = {} THEN h.lease ELSE r.lease,
   eligible |-> IF r.status = "enqueued" THEN {r.at} ELSE UNION {d.eligible : d \in r.retry},
   attempts |-> IF r.attempt > h.attempts THEN r.attempt ELSE h.attempts]

NextHead(h, r) ==
  [revision |-> h.revision + 1,
   status   |-> r.status,
   lease    |-> r.lease,
   eligible |-> IF r.status = "enqueued" THEN {r.at} ELSE UNION {d.eligible : d \in r.retry},
   attempts |-> IF r.attempt > h.attempts THEN r.attempt ELSE h.attempts]

\* Faulty variant: any head at least as new as the revision read will do.
UnchangedOrNewer(h, r) == h.revision >= r.previous

\* The head is the very revision the caller had read.
Unchanged(h, r) == h.revision = r.previous

\* Faulty variant: only the identity of the claim is compared.
ClaimRefusedByIdentity(h, r) ==
  /\ r.via = "claim"
  /\ \/ h.status = "delivering"
     \/ \E m \in h.lease, l \in r.lease : m.claim = l.claim

\* A claim may not replace a claim whose lease has not ended by the time the
\* claimer observed, nor reuse its identity, nor touch an effect in delivery.
ClaimRefused(h, r) ==
  /\ r.via = "claim"
  /\ \/ h.status = "delivering"
     \/ \E m \in h.lease : m.expires > r.at
     \/ \E m \in h.lease, l \in r.lease : m.claim = l.claim

Answer(p, response) ==
  call' = [call EXCEPT ![p].pc = "answered", ![p].response = {response}]

AnswerReplay(p, r) ==
  Answer(p, IF r \in Existing(r) THEN "exact_replay" ELSE "replay_conflict")

Submit(p, e, id) ==
  /\ call[p].pc = "idle"
  /\ Len(revisions[e]) < MaxRevisions
  /\ \E r \in Requests(e, id) :
       call' = [call EXCEPT ![p] = [pc |-> "lookup", request |-> {r}, response |-> {}]]
  /\ UNCHANGED <<now, revisions, head>>

\* Another process submits a copy of a request that p holds.
Copy(p, q) ==
  /\ call[p].pc # "idle"
  /\ call[q].pc = "idle"
  /\ call' = [call EXCEPT ![q] = [pc |-> "lookup", request |-> call[p].request,
                                  response |-> {}]]
  /\ UNCHANGED <<now, revisions, head>>

\* The answer was lost, or was an error: the caller submits the request again.
Resend(p) ==
  /\ call[p].pc = "answered"
  /\ call' = [call EXCEPT ![p].pc = "lookup"]
  /\ UNCHANGED <<now, revisions, head>>

\* The caller is done with the request, or has crashed with it.
Forget(p) ==
  /\ call[p].pc # "idle"
  /\ call' = [call EXCEPT ![p] = NoCall]
  /\ UNCHANGED <<now, revisions, head>>

\* First transaction: has this request been written already?
LookUp(p) ==
  /\ call[p].pc = "lookup"
  /\ \E r \in call[p].request :
       IF Existing(r) = {} THEN call' = [call EXCEPT ![p].pc = "commit"]
                           ELSE AnswerReplay(p, r)
  /\ UNCHANGED <<now, revisions, head>>

\* The second transaction of an initial enqueue takes no row lock and looks for
\* no replay.  It stages the runtime write set that owns the effect first: a
\* copy of a written request, or a commit that has moved the same state record,
\* makes that fail.  Only another write set can get as far as the effect's
\* unique keys, and is then compared with the effect that is there.
RefuseEnqueue(p, r) ==
  /\ r.via = "enqueue"
  /\ \/ Answer(p, "revision_conflict")
     \/ Existing(r) # {} /\ r \notin Existing(r) /\ Answer(p, "replay_conflict")

\* Faulty variant: no replay lookup under the row lock.
RefuseWithoutLookUp(p, r) ==
  /\ r.via # "enqueue"
  /\ LET h == head[r.effect] IN
       \/ h.status \in Terminal /\ Answer(p, "terminal")
       \/ h.status \notin Terminal /\ ~Unchanged(h, r) /\ Answer(p, "revision_conflict")
       \/ /\ h.status \notin Terminal
          /\ Unchanged(h, r)
          /\ ClaimRefused(h, r)
          /\ Answer(p, "claim_refused")

\* Second transaction of a claim or an append, under the row lock of the head:
\* the checks in the order of the code.
RefuseUnderLock(p, r) ==
  /\ r.via # "enqueue"
  /\ \/ Existing(r) # {} /\ AnswerReplay(p, r)
     \/ /\ Existing(r) = {}
        /\ LET h == head[r.effect] IN
             \/ h.status \in Terminal /\ Answer(p, "terminal")
             \/ /\ h.status \notin Terminal
                /\ ~Unchanged(h, r)
                /\ Answer(p, "revision_conflict")
             \/ /\ h.status \notin Terminal
                /\ Unchanged(h, r)
                /\ ClaimRefused(h, r)
                /\ Answer(p, "claim_refused")

\* The revision and the head are written together.
Write(p, r) ==
  /\ Existing(r) = {}
  /\ head[r.effect].status \notin Terminal
  /\ Unchanged(head[r.effect], r)
  /\ ~ClaimRefused(head[r.effect], r)
  /\ revisions' = [revisions EXCEPT ![r.effect] = Append(@, r)]
  /\ head' = [head EXCEPT ![r.effect] = NextHead(@, r)]
  /\ Answer(p, "appended")

Commit(p) ==
  /\ call[p].pc = "commit"
  /\ \E r \in call[p].request :
       \/ /\ RefuseEnqueue(p, r) \/ RefuseUnderLock(p, r)
          /\ UNCHANGED <<revisions, head>>
       \/ Write(p, r)
  /\ UNCHANGED now

\* The clock stops one instant short, so that a lease can outlive it.
Tick ==
  /\ now + 1 < MaxTime
  /\ now' = now + 1
  /\ UNCHANGED <<revisions, head, call>>

Next ==
  \/ Tick
  \/ \E p \in Callers :
       \/ \E e \in Effects, id \in RequestIds : Submit(p, e, id)
       \/ \E q \in Callers : Copy(p, q)
       \/ Resend(p)
       \/ Forget(p)
       \/ LookUp(p)
       \/ Commit(p)

Spec == Init /\ [][Next]_vars

--------------------------------------------------------------------------------
\* Due selection: a read of the heads at the clock the selector supplies.

Due(h, t) ==
  \/ h.status \in {"enqueued", "retry_scheduled"} /\ \E u \in h.eligible : u <= t
  \/ h.status = "claimed" /\ \E m \in h.lease : m.expires <= t

\* validate_runtime_effect_due_candidates on the candidate built from a head;
\* one candidate that fails it makes the whole selection raise.
ValidCandidate(e) ==
  LET h == head[e] IN
    CASE h.status = "enqueued" -> h.lease = {} /\ h.eligible = {Last(e).at}
      [] h.status = "retry_scheduled" ->
           /\ h.lease = {}
           /\ \E d \in Last(e).retry : d.eligible = h.eligible
      [] OTHER -> h.lease # {} /\ h.lease = Last(e).lease

\* The register of EffectDelivery that a head row stands for.
Register(e) ==
  [version |-> head[e].revision, status |-> head[e].status,
   lease |-> {[claim |-> m.claim, over |-> m.expires <= now] : m \in head[e].lease}]

Delivery == INSTANCE EffectDelivery WITH effect <- [e \in Effects |-> Register(e)]

--------------------------------------------------------------------------------
\* Properties

(***************************************************************************)
(* The coordination row is a projection of the evidence: it carries the    *)
(* number, the status and the lease of the last immutable revision, and    *)
(* the highest attempt number of all of them, however callers interleave.  *)
(***************************************************************************)
HeadProjectsHistory ==
  \A e \in Effects :
    /\ head[e].revision = Len(revisions[e])
    /\ revisions[e] # <<>> =>
         /\ head[e].status = Last(e).status
         /\ head[e].lease = Last(e).lease
         /\ \A i \in DOMAIN revisions[e] : revisions[e][i].attempt <= head[e].attempts

(***************************************************************************)
(* The revisions of an effect are one path of the closed graph, each with  *)
(* its evidence, although every writer validated its step against the      *)
(* revision it had read some transactions earlier.                         *)
(***************************************************************************)
HistoryFollowsGraph ==
  \A e \in Effects : \A i \in DOMAIN revisions[e] :
    IF i = 1 THEN revisions[e][i].status = "enqueued"
             ELSE ValidRequest(revisions[e][i - 1], revisions[e][i])

\* However often a request is submitted, it writes at most one revision.
OneRevisionPerRequest ==
  \A e, f \in Effects : \A i \in DOMAIN revisions[e], j \in DOMAIN revisions[f] :
    /\ revisions[e][i].via = revisions[f][j].via
    /\ revisions[e][i].id = revisions[f][j].id
    /\ revisions[e][i].via # "enqueue"
    => e = f /\ i = j

(***************************************************************************)
(* An error answer is the truth: a caller told of a revision conflict, a   *)
(* terminal effect, a refused claim or a replay with other facts has not   *)
(* written, and no copy of its request can be written later.  A caller     *)
(* told "appended" or "exact_replay" finds its request in the history.     *)
(* The one exception is an initial enqueue that conflicts with a copy of   *)
(* itself: its writer answers a conflict of the runtime write set, and     *)
(* the caller learns only from a further lookup that it was written.       *)
(***************************************************************************)
AnswersAreTrue ==
  \A p \in Callers : \A r \in call[p].request, a \in call[p].response :
    LET written == \E i \in DOMAIN revisions[r.effect] : revisions[r.effect][i] = r
    IN  /\ a \in {"appended", "exact_replay"} => written
        /\ a \in {"terminal", "claim_refused", "replay_conflict"} => ~written
        /\ a = "revision_conflict" /\ r.via # "enqueue" => ~written

\* Every due effect of due selection is one it can return, apart from retries
\* that follow a call that was not made.
DueIsSelectable ==
  \A e \in Effects :
    Due(head[e], now) /\ Last(e).notInvoked = {} => ValidCandidate(e)

(***************************************************************************)
(* One local effect has at most one active unexpired claim: a claim takes  *)
(* the place of another one only when the lease of that one is over.       *)
(***************************************************************************)
LeaseIsRespected ==
  [][\A e \in Effects :
       head'[e].status = "claimed" /\ head'[e] # head[e] =>
         \A m \in head[e].lease :
           /\ m.expires <= now
           /\ \A l \in head'[e].lease : l.claim # m.claim]_vars

(***************************************************************************)
(* Whatever the interleaving of lookups, row locks, retries and lost       *)
(* answers, a reader of the head sees a register that moves by one         *)
(* compare-and-set at a time, never hands a running lease over and never   *)
(* leaves a terminal status.                                               *)
(***************************************************************************)
ImplementsDelivery == Delivery!DeliverySpec

--------------------------------------------------------------------------------
\* What the decision records say of the store and its code does not do.

\* Due selection answers: every effect that is due can be returned
\* (ADR-112, "Initial Worker operation set").
DueSelectionAnswers == \A e \in Effects : Due(head[e], now) => ValidCandidate(e)

================================================================================
