--------------------------- MODULE EffectStore_proofs ---------------------------
(***************************************************************************)
(* Safety of the effect store for every set of effects, callers, claims    *)
(* and request ids and for every bound.                                    *)
(*                                                                         *)
(* The inductive invariant adds one fact to the checked properties: every  *)
(* request in flight was valid for the revision it names as the one it     *)
(* read, and that revision is still in the history (WellRead).  The        *)
(* compare-and-set of Write then turns "valid for what was read" into      *)
(* "valid for the last revision".                                          *)
(***************************************************************************)
EXTENDS EffectStore, TLAPS

LEMMA OptionNone ==
  ASSUME NEW S
  PROVE  {} \in Option(S)
BY DEF Option

LEMMA OptionOne ==
  ASSUME NEW S, NEW x \in S
  PROVE  {x} \in Option(S)
BY DEF Option

\* The values an optional record field can take, collected over an option.
LEMMA OptionEligible ==
  ASSUME NEW D \in Option(RetryDecision)
  PROVE  UNION {d.eligible : d \in D} \in Option(Time)
<1>1. CASE D = {}
  BY <1>1 DEF Option
<1>2. CASE D # {}
  <2>1. PICK d \in D : TRUE
    BY <1>2
  <2>2. D = {d} /\ d \in RetryDecision
    BY <2>1 DEF Option
  <2>3. UNION {x.eligible : x \in D} = d.eligible
    BY <2>2
  <2> QED
    BY <2>2, <2>3 DEF RetryDecision
<1> QED
  BY <1>1, <1>2

--------------------------------------------------------------------------------
\* Requests

\* What every builder keeps of the draft it starts from.
Built(r, e) == r \in Request /\ r.effect = e /\ r.previous = Len(revisions[e])

LEMMA DraftBuilt ==
  ASSUME TypeOK, NEW e \in Effects, NEW id \in RequestIds,
         NEW via \in {"enqueue", "claim", "append"}, NEW s \in Status
  PROVE  Built(Draft(via, e, id, s), e)
<1>1. Len(revisions[e]) \in Nat /\ now \in Time
  BY DEF TypeOK
<1>2. 0 \in 0 .. MaxAttempts
  BY BoundsAssumption
<1> QED
  BY <1>1, <1>2, OptionNone DEF Draft, Request, Built

LEMMA LastType ==
  ASSUME TypeOK, NEW e \in Effects, revisions[e] # <<>>
  PROVE  Last(e) \in Request
<1>1. revisions[e] \in Seq(Request)
  BY DEF TypeOK
<1>2. Len(revisions[e]) \in DOMAIN revisions[e]
  BY <1>1
<1> QED
  BY <1>1, <1>2 DEF Last

LEMMA RetryDecisionsType ==
  ASSUME TypeOK, NEW d \in RetryDecisions
  PROVE  {d} \in Option(RetryDecision)
<1>1. now .. MaxTime \subseteq Time
  BY BoundsAssumption DEF TypeOK, Time
<1>2. \A t \in Option(now .. MaxTime) : t \in Option(Time)
  BY <1>1 DEF Option
<1> QED
  BY <1>2, OptionOne DEF RetryDecisions, RetryDecision

LEMMA ClaimRequestsBuilt ==
  ASSUME TypeOK, NEW e \in Effects, NEW id \in RequestIds, NEW r \in ClaimRequests(e, id)
  PROVE  Built(r, e)
<1> DEFINE D == Draft("claim", e, id, "claimed")
<1>1. Built(D, e)
  BY DraftBuilt DEF Status, Claimable
<1>2. PICK c \in Claims, t \in Time : r = [D EXCEPT !.lease = {[claim |-> c, expires |-> t]}]
  BY DEF ClaimRequests
<1>3. {[claim |-> c, expires |-> t]} \in Option(Lease)
  BY OptionOne DEF Lease
<1> HIDE DEF D
<1> QED
  BY <1>1, <1>2, <1>3 DEF Request, Built

LEMMA DeliveringRequestsBuilt ==
  ASSUME TypeOK, NEW e \in Effects, revisions[e] # <<>>, NEW id \in RequestIds,
         NEW r \in DeliveringRequests(e, id)
  PROVE  Built(r, e)
<1> DEFINE D == Draft("append", e, id, "delivering")
<1>1. Built(D, e)
  BY DraftBuilt DEF Status
<1>2. PICK n \in 1 .. MaxAttempts : r = [D EXCEPT !.lease = Last(e).lease, !.attempt = n]
  BY DEF DeliveringRequests
<1>3. Last(e).lease \in Option(Lease) /\ n \in 0 .. MaxAttempts
  BY LastType, BoundsAssumption DEF Request
<1> HIDE DEF D
<1> QED
  BY <1>1, <1>2, <1>3 DEF Request, Built

\* The two shapes of an outcome that keep the draft they start from.
LEMMA ResultBuilt ==
  ASSUME NEW e, NEW D, Built(D, e), NEW n \in 0 .. MaxAttempts, NEW c \in Option(Certainty),
         NEW o \in Option(Outcome)
  PROVE  /\ Built([D EXCEPT !.attempt = n, !.result = c], e)
         /\ Built([D EXCEPT !.attempt = n, !.result = c, !.observation = o], e)
BY DEF Built, Request

LEMMA ResultRequestsBuilt ==
  ASSUME TypeOK, NEW e \in Effects, revisions[e] # <<>>, NEW id \in RequestIds,
         NEW r \in ResultRequests(e, id)
  PROVE  Built(r, e)
<1>1. PICK s \in {"delivered", "ambiguous", "dead_lettered"}, c \in Results :
         r = [Draft("append", e, id, s) EXCEPT !.attempt = Last(e).attempt, !.result = {c}]
  BY DEF ResultRequests
<1>2. Built(Draft("append", e, id, s), e)
  BY DraftBuilt DEF Status, Terminal
<1>3. Last(e).attempt \in 0 .. MaxAttempts /\ {c} \in Option(Certainty)
  BY LastType, OptionOne, EvidenceAssumption DEF Request
<1> QED
  BY <1>1, <1>2, <1>3, OptionNone, ResultBuilt

LEMMA RetryRequestsBuilt ==
  ASSUME TypeOK, NEW e \in Effects, revisions[e] # <<>>, NEW id \in RequestIds,
         NEW r \in RetryRequests(e, id)
  PROVE  Built(r, e)
<1> DEFINE D == Draft("append", e, id, "retry_scheduled")
<1>1. PICK d \in RetryDecisions : r = [D EXCEPT !.attempt = Last(e).attempt, !.retry = {d}]
  BY DEF RetryRequests
<1>2. Built(D, e)
  BY DraftBuilt DEF Status, Claimable
<1>3. Last(e).attempt \in 0 .. MaxAttempts /\ {d} \in Option(RetryDecision)
  BY LastType, RetryDecisionsType DEF Request
<1> HIDE DEF D
<1> QED
  BY <1>1, <1>2, <1>3 DEF Request, Built

LEMMA NotInvokedRequestsBuilt ==
  ASSUME TypeOK, NEW e \in Effects, revisions[e] # <<>>, NEW id \in RequestIds,
         NEW r \in NotInvokedRequests(e, id)
  PROVE  Built(r, e)
<1> DEFINE D == Draft("append", e, id, "dead_lettered")
<1>1. PICK w \in NotInvokedReason :
         r = [D EXCEPT !.lease = Last(e).lease, !.attempt = Last(e).attempt,
                       !.notInvoked = {w}]
  BY DEF NotInvokedRequests
<1>2. Built(D, e)
  BY DraftBuilt DEF Status, Terminal
<1>3. /\ Last(e).attempt \in 0 .. MaxAttempts
      /\ Last(e).lease \in Option(Lease)
      /\ {w} \in Option(NotInvokedReason)
  BY LastType, OptionOne DEF Request
<1> HIDE DEF D
<1> QED
  BY <1>1, <1>2, <1>3 DEF Request, Built

LEMMA NotInvokedRetryRequestsBuilt ==
  ASSUME TypeOK, NEW e \in Effects, revisions[e] # <<>>, NEW id \in RequestIds,
         NEW r \in NotInvokedRetryRequests(e, id)
  PROVE  Built(r, e)
<1>1. PICK n \in NotInvokedRequests(e, id), d \in RetryDecisions :
         r = [n EXCEPT !.status = "retry_scheduled", !.retry = {d}]
  BY DEF NotInvokedRetryRequests
<1>2. Built(n, e) /\ {d} \in Option(RetryDecision)
  BY NotInvokedRequestsBuilt, RetryDecisionsType
<1>3. "retry_scheduled" \in Status
  BY DEF Status, Claimable
<1> QED
  BY <1>1, <1>2, <1>3 DEF Request, Built

LEMMA ReconciliationRequestsBuilt ==
  ASSUME TypeOK, NEW e \in Effects, revisions[e] # <<>>, NEW id \in RequestIds,
         NEW r \in ReconciliationRequests(e, id)
  PROVE  Built(r, e)
<1>1. PICK s \in {"delivered", "dead_lettered"}, o \in Observations :
         r = [Draft("append", e, id, s) EXCEPT
                !.attempt = Last(e).attempt, !.result = Last(e).result, !.observation = {o}]
  BY DEF ReconciliationRequests
<1>2. Built(Draft("append", e, id, s), e)
  BY DraftBuilt DEF Status, Terminal
<1>3. /\ Last(e).attempt \in 0 .. MaxAttempts
      /\ Last(e).result \in Option(Certainty)
      /\ {o} \in Option(Outcome)
  BY LastType, OptionOne, EvidenceAssumption DEF Request
<1> QED
  BY <1>1, <1>2, <1>3, ResultBuilt

LEMMA ReconciledRetryRequestsBuilt ==
  ASSUME TypeOK, NEW e \in Effects, revisions[e] # <<>>, NEW id \in RequestIds,
         NEW r \in ReconciledRetryRequests(e, id)
  PROVE  Built(r, e)
<1>1. PICK n \in RetryRequests(e, id), o \in Observations : r = [n EXCEPT !.observation = {o}]
  BY DEF ReconciledRetryRequests
<1>2. Built(n, e) /\ {o} \in Option(Outcome)
  BY RetryRequestsBuilt, OptionOne, EvidenceAssumption
<1> QED
  BY <1>1, <1>2 DEF Request, Built

LEMMA ClaimAppendRequestsBuilt ==
  ASSUME TypeOK, NEW e \in Effects, NEW id \in RequestIds, NEW r \in ClaimAppendRequests(e, id)
  PROVE  Built(r, e)
<1>1. PICK c \in ClaimRequests(e, id) : r = [c EXCEPT !.via = "append"]
  BY DEF ClaimAppendRequests
<1>2. Built(c, e)
  BY ClaimRequestsBuilt
<1> QED
  BY <1>1, <1>2 DEF Request, Built

(***************************************************************************)
(* Every request a caller builds has its type and names the last revision  *)
(* of its effect; it is the initial effect when there is no revision yet,  *)
(* and valid for the last revision when there is one.                      *)
(***************************************************************************)
LEMMA RequestsBuilt ==
  ASSUME TypeOK, NEW e \in Effects, NEW id \in RequestIds, NEW r \in Requests(e, id)
  PROVE  /\ Built(r, e)
         /\ revisions[e] = <<>> => r.via = "enqueue" /\ r.status = "enqueued"
         /\ revisions[e] # <<>> => ValidRequest(Last(e), r)
<1>1. CASE revisions[e] = <<>>
  <2>1. r = Draft("enqueue", e, id, "enqueued")
    BY <1>1 DEF Requests, EnqueueRequests
  <2>2. Built(r, e)
    BY <2>1, DraftBuilt DEF Status, Claimable
  <2> QED
    BY <1>1, <2>1, <2>2 DEF Draft
<1>2. CASE revisions[e] # <<>>
  <2>1. CASE r \in DeadLetterRequests(e, id)
    <3>1. r = Draft("append", e, id, "dead_lettered")
      BY <2>1 DEF DeadLetterRequests
    <3> QED
      BY <1>2, <3>1, DraftBuilt DEF Status, Terminal, Requests
  <2> QED
    BY <1>2, <2>1, ClaimRequestsBuilt, ClaimAppendRequestsBuilt, DeliveringRequestsBuilt,
       ResultRequestsBuilt, RetryRequestsBuilt, NotInvokedRequestsBuilt,
       NotInvokedRetryRequestsBuilt, ReconciliationRequestsBuilt,
       ReconciledRetryRequestsBuilt DEF Requests
<1> QED
  BY <1>1, <1>2

--------------------------------------------------------------------------------
\* What a step can do to the rows and to the requests in flight

\* Only Write touches the rows.
LEMMA StoreStep ==
  ASSUME [Next]_vars
  PROVE  \/ UNCHANGED <<revisions, head>>
         \/ \E p \in Callers : \E r \in call[p].request : Write(p, r)
<1>1. CASE Tick
  BY <1>1 DEF Tick
<1>2. CASE \E p \in Callers : \E e \in Effects, id \in RequestIds : Submit(p, e, id)
  BY <1>2 DEF Submit
<1>3. CASE \E p, q \in Callers : Copy(p, q)
  BY <1>3 DEF Copy
<1>4. CASE \E p \in Callers : Resend(p) \/ Forget(p) \/ LookUp(p)
  BY <1>4 DEF Resend, Forget, LookUp
<1>5. CASE \E p \in Callers : Commit(p)
  BY <1>5 DEF Commit
<1>6. CASE UNCHANGED vars
  BY <1>6 DEF vars
<1> QED
  BY <1>1, <1>2, <1>3, <1>4, <1>5, <1>6 DEF Next

\* A call after a step: as before, forgotten, or with a request that another
\* caller holds or that has just been built from the last revision.
LEMMA CallStep ==
  ASSUME TypeOK, [Next]_vars, NEW p \in Callers
  PROVE  /\ call'[p] \in Call
         /\ \A r \in call'[p].request :
              \/ \E q \in Callers : r \in call[q].request
              \/ /\ UNCHANGED revisions
                 /\ \E e \in Effects, id \in RequestIds : r \in Requests(e, id)
<1> USE DEF TypeOK
<1>0. \A q \in Callers : call[q] \in Call
  OBVIOUS
<1>1. CASE Tick
  BY <1>0, <1>1 DEF Tick
<1>2. ASSUME NEW q \in Callers, NEW e \in Effects, NEW id \in RequestIds, Submit(q, e, id)
      PROVE  /\ call'[p] \in Call
             /\ \A r \in call'[p].request :
                  \/ \E o \in Callers : r \in call[o].request
                  \/ UNCHANGED revisions /\ r \in Requests(e, id)
  <2>1. PICK r \in Requests(e, id) :
           call' = [call EXCEPT ![q] = [pc |-> "lookup", request |-> {r}, response |-> {}]]
    BY <1>2 DEF Submit
  <2>2. r \in Request
    BY RequestsBuilt DEF Built
  <2>3. [pc |-> "lookup", request |-> {r}, response |-> {}] \in Call
    BY <2>2, OptionOne, OptionNone DEF Call
  <2>4. CASE p = q
    BY <1>2, <2>1, <2>3, <2>4 DEF Submit
  <2>5. CASE p # q
    BY <1>0, <2>1, <2>5
  <2> QED
    BY <2>4, <2>5
<1>3. ASSUME NEW o \in Callers, NEW q \in Callers, Copy(o, q)
      PROVE  call'[p] \in Call /\ \A r \in call'[p].request : r \in call[o].request \cup call[p].request
  <2>1. [pc |-> "lookup", request |-> call[o].request, response |-> {}] \in Call
    BY <1>0, OptionNone DEF Call
  <2> QED
    BY <1>0, <1>3, <2>1 DEF Copy
<1>4. ASSUME NEW q \in Callers, Resend(q)
      PROVE  call'[p] \in Call /\ call'[p].request = call[p].request
  BY <1>0, <1>4 DEF Resend, Call
<1>5. ASSUME NEW q \in Callers, Forget(q)
      PROVE  call'[p] \in Call /\ call'[p].request \subseteq call[p].request
  <2>1. NoCall \in Call /\ NoCall.request = {}
    BY OptionNone DEF NoCall, Call
  <2> QED
    BY <1>0, <1>5, <2>1 DEF Forget
<1>6. ASSUME NEW q \in Callers, NEW a \in Response, Answer(q, a)
      PROVE  call'[p] \in Call /\ call'[p].request = call[p].request
  BY <1>0, <1>6, OptionOne DEF Answer, Call
<1>7. ASSUME NEW q \in Callers, NEW r, AnswerReplay(q, r)
      PROVE  call'[p] \in Call /\ call'[p].request = call[p].request
  BY <1>6, <1>7 DEF AnswerReplay, Response
<1>8. ASSUME NEW q \in Callers, LookUp(q)
      PROVE  call'[p] \in Call /\ call'[p].request = call[p].request
  <2>1. CASE call' = [call EXCEPT ![q].pc = "commit"]
    BY <1>0, <2>1 DEF Call
  <2> QED
    BY <1>7, <1>8, <2>1 DEF LookUp
<1>9. ASSUME NEW q \in Callers, Commit(q)
      PROVE  call'[p] \in Call /\ call'[p].request = call[p].request
  BY <1>6, <1>7, <1>9 DEF Commit, RefuseEnqueue, RefuseUnderLock, Write, Response
<1>10. CASE UNCHANGED vars
  BY <1>0, <1>10 DEF vars
<1> QED
  BY <1>1, <1>2, <1>3, <1>4, <1>5, <1>8, <1>9, <1>10 DEF Next

\* A history with one more revision.
LEMMA Appended ==
  ASSUME NEW s \in Seq(Request), NEW r \in Request
  PROVE  LET z == Append(s, r) IN
         /\ z \in Seq(Request) /\ z # <<>> /\ Len(z) = Len(s) + 1
         /\ z[Len(z)] = r
         /\ DOMAIN z = 1 .. Len(s) + 1 /\ DOMAIN s = 1 .. Len(s)
         /\ \A i \in 1 .. Len(s) : z[i] = s[i]
OBVIOUS

LEMMA NextHeadType ==
  ASSUME NEW h \in HeadRow, NEW r \in Request
  PROVE  NextHead(h, r) \in HeadRow
<1>1. UNION {d.eligible : d \in r.retry} \in Option(Time)
  BY OptionEligible DEF Request
<1>2. {r.at} \in Option(Time)
  BY OptionOne DEF Request
<1> QED
  BY <1>1, <1>2 DEF NextHead, HeadRow, Request

LEMMA NextHeadProjects ==
  ASSUME NEW h \in HeadRow, NEW r \in Request
  PROVE  LET n == NextHead(h, r) IN
         /\ n.revision = h.revision + 1 /\ n.status = r.status /\ n.lease = r.lease
         /\ n.attempts >= h.attempts /\ n.attempts >= r.attempt
         /\ n.attempts \in Nat /\ h.attempts \in Nat
BY BoundsAssumption DEF NextHead, HeadRow, Request

--------------------------------------------------------------------------------
\* Type correctness

LEMMA TypeInit == Init => TypeOK
<1> SUFFICES ASSUME Init PROVE TypeOK
  OBVIOUS
<1>1. NoHead \in HeadRow
  BY BoundsAssumption, OptionNone DEF NoHead, HeadRow
<1>2. NoCall \in Call
  BY OptionNone DEF NoCall, Call
<1>3. 0 \in Time
  BY BoundsAssumption DEF Time
<1> QED
  BY <1>1, <1>2, <1>3 DEF Init, TypeOK

LEMMA TypeStep == TypeOK /\ [Next]_vars => TypeOK'
<1> SUFFICES ASSUME TypeOK, [Next]_vars PROVE TypeOK'
  OBVIOUS
<1>1. now' \in Time
  BY BoundsAssumption
     DEF TypeOK, Time, Next, vars, Tick, Submit, Copy, Resend, Forget, LookUp, Commit
<1>2. revisions' \in [Effects -> Seq(Request)] /\ head' \in [Effects -> HeadRow]
  <2>1. CASE UNCHANGED <<revisions, head>>
    BY <2>1 DEF TypeOK
  <2>2. ASSUME NEW p \in Callers, NEW r \in call[p].request, Write(p, r)
        PROVE  revisions' \in [Effects -> Seq(Request)] /\ head' \in [Effects -> HeadRow]
    <3>1. r \in Request /\ r.effect \in Effects
      BY DEF TypeOK, Call, Option, Request
    <3>2. NextHead(head[r.effect], r) \in HeadRow
      BY <3>1, NextHeadType DEF TypeOK
    <3>3. Append(revisions[r.effect], r) \in Seq(Request)
      BY <3>1, Appended DEF TypeOK
    <3> QED
      BY <2>2, <3>1, <3>2, <3>3 DEF TypeOK, Write
  <2> QED
    BY <2>1, <2>2, StoreStep
<1>3. call' \in [Callers -> Call]
  <2>1. call = [p \in Callers |-> call[p]]
    BY DEF TypeOK
  <2>2. ASSUME NEW p \in Callers, NEW v, call' = [call EXCEPT ![p] = v]
        PROVE  call' = [q \in Callers |-> call'[q]]
    BY <2>1, <2>2
  <2>3. ASSUME UNCHANGED call PROVE call' = [q \in Callers |-> call'[q]]
    BY <2>1, <2>3
  <2>4. ASSUME NEW p \in Callers,
               (\E e \in Effects, id \in RequestIds : Submit(p, e, id))
                 \/ (\E q \in Callers : Copy(p, q)) \/ Resend(p) \/ Forget(p)
        PROVE  call' = [q \in Callers |-> call'[q]]
    BY <2>1, <2>4 DEF Submit, Copy, Resend, Forget
  <2>5. ASSUME NEW p \in Callers, NEW response, Answer(p, response)
        PROVE  call' = [q \in Callers |-> call'[q]]
    BY <2>1, <2>5 DEF Answer
  <2>6. ASSUME NEW p \in Callers, LookUp(p)
        PROVE  call' = [q \in Callers |-> call'[q]]
    BY <2>1, <2>5, <2>6 DEF LookUp, AnswerReplay
  <2>7. ASSUME NEW p \in Callers, NEW r \in call[p].request, RefuseEnqueue(p, r) \/ RefuseUnderLock(p, r) \/ Write(p, r)
        PROVE  call' = [q \in Callers |-> call'[q]]
    BY <2>5, <2>7 DEF RefuseEnqueue, RefuseUnderLock, Write, AnswerReplay
  <2>8. call' = [p \in Callers |-> call'[p]]
    BY <2>3, <2>4, <2>6, <2>7 DEF Next, vars, Tick, Commit
  <2> QED
    BY <2>8, CallStep
<1> QED
  BY <1>1, <1>2, <1>3 DEF TypeOK

\* Every variable keeps its type: rows, requests in flight, and the clock
\* inside its bound.
THEOREM TypeCorrect == Spec => []TypeOK
BY TypeInit, TypeStep, PTL DEF Spec

--------------------------------------------------------------------------------
\* The inductive invariant

\* Every request in flight was valid for the revision it names as the one it
\* was built from, and that revision is still where it was.
WellRead ==
  \A p \in Callers : \A r \in call[p].request :
    /\ r.previous <= Len(revisions[r.effect])
    /\ r.previous = 0 => r.status = "enqueued"
    /\ r.previous > 0 => ValidRequest(revisions[r.effect][r.previous], r)

IInv == TypeOK /\ HeadProjectsHistory /\ HistoryFollowsGraph /\ WellRead

LEMMA RequestInFlight ==
  ASSUME TypeOK, NEW p \in Callers, NEW r \in call[p].request
  PROVE  r \in Request /\ r.effect \in Effects /\ r.previous \in Nat
BY DEF TypeOK, Call, Option, Request

\* What a write does to the effect it is for, and that it leaves the others.
LEMMA WriteStep ==
  ASSUME TypeOK, NEW p \in Callers, NEW r \in call[p].request, Write(p, r)
  PROVE  LET e == r.effect
             s == revisions[e]
             z == revisions'[e]
         IN  /\ z = Append(s, r) /\ z # <<>>
             /\ Len(s) \in Nat /\ Len(z) = Len(s) + 1
             /\ z[Len(z)] = r
             /\ DOMAIN z = 1 .. Len(s) + 1 /\ DOMAIN s = 1 .. Len(s)
             /\ \A i \in 1 .. Len(s) : z[i] = s[i]
             /\ head'[e] = NextHead(head[e], r)
             /\ \A f \in Effects : f # e => revisions'[f] = revisions[f] /\ head'[f] = head[f]
<1>1. r \in Request /\ r.effect \in Effects
  BY RequestInFlight
<1>2. revisions[r.effect] \in Seq(Request)
  BY <1>1 DEF TypeOK
<1>3. /\ revisions' = [revisions EXCEPT ![r.effect] = Append(@, r)]
      /\ head' = [head EXCEPT ![r.effect] = NextHead(@, r)]
  BY DEF Write
<1>4. /\ revisions'[r.effect] = Append(revisions[r.effect], r)
      /\ head'[r.effect] = NextHead(head[r.effect], r)
      /\ \A f \in Effects : f # r.effect => revisions'[f] = revisions[f] /\ head'[f] = head[f]
  BY <1>1, <1>3 DEF TypeOK
<1> QED
  BY <1>1, <1>2, <1>4, Appended

LEMMA ProjectionStep == IInv /\ [Next]_vars => HeadProjectsHistory'
<1> SUFFICES ASSUME IInv, [Next]_vars PROVE HeadProjectsHistory'
  OBVIOUS
<1>1. CASE UNCHANGED <<revisions, head>>
  BY <1>1 DEF IInv, HeadProjectsHistory, Last
<1>2. ASSUME NEW p \in Callers, NEW r \in call[p].request, Write(p, r)
      PROVE  HeadProjectsHistory'
  <2> DEFINE e == r.effect
             h == head[e]
  <2>1. r \in Request /\ e \in Effects
    BY RequestInFlight DEF IInv
  <2>2. h \in HeadRow /\ h.revision = Len(revisions[e])
    BY <2>1 DEF IInv, TypeOK, HeadProjectsHistory
  <2>3. /\ head'[e].revision = h.revision + 1
        /\ head'[e].status = r.status
        /\ head'[e].lease = r.lease
        /\ head'[e].attempts >= h.attempts /\ head'[e].attempts >= r.attempt
        /\ head'[e].attempts \in Nat /\ h.attempts \in Nat
    <3>1. head'[e] = NextHead(h, r)
      BY <1>2, WriteStep DEF IInv
    <3> QED
      BY <2>1, <2>2, <3>1, NextHeadProjects
  <2>4. \A i \in DOMAIN revisions[e] :
          revisions[e][i].attempt <= h.attempts /\ revisions[e][i].attempt \in Nat
    <3>1. \A i \in DOMAIN revisions[e] : revisions[e][i] \in Request
      BY <2>1 DEF IInv, TypeOK
    <3>2. \A i \in DOMAIN revisions[e] : revisions[e][i].attempt <= h.attempts
      BY <2>1 DEF IInv, HeadProjectsHistory
    <3> QED
      BY <3>1, <3>2, BoundsAssumption DEF Request
  <2>5. \A i \in DOMAIN revisions'[e] : revisions'[e][i].attempt <= head'[e].attempts
    <3> SUFFICES ASSUME NEW i \in DOMAIN revisions'[e]
                 PROVE  revisions'[e][i].attempt <= head'[e].attempts
      OBVIOUS
    <3>1. CASE i \in DOMAIN revisions[e]
      <4>1. revisions'[e][i] = revisions[e][i]
        BY <1>2, <3>1, WriteStep DEF IInv
      <4> HIDE DEF h, e
      <4> QED
        BY <2>3, <2>4, <3>1, <4>1
    <3>2. CASE i \notin DOMAIN revisions[e]
      <4>1. revisions'[e][i] = r
        BY <1>2, <3>2, WriteStep DEF IInv
      <4> QED
        BY <2>3, <4>1
    <3> QED
      BY <3>1, <3>2
  <2>6. ASSUME NEW f \in Effects, f # e
        PROVE  revisions'[f] = revisions[f] /\ head'[f] = head[f]
    BY <1>2, <2>6, WriteStep DEF IInv
  <2>7. /\ head'[e].revision = Len(revisions'[e])
        /\ head'[e].status = Last(e)'.status
        /\ head'[e].lease = Last(e)'.lease
    <3>1. Len(revisions'[e]) = Len(revisions[e]) + 1 /\ revisions'[e][Len(revisions'[e])] = r
      BY <1>2, WriteStep DEF IInv
    <3> QED
      BY <2>2, <2>3, <3>1 DEF Last
  <2>8. \A f \in Effects : f # e => Last(f)' = Last(f)
    BY <2>6 DEF Last
  <2> QED
    BY <2>1, <2>5, <2>6, <2>7, <2>8 DEF IInv, HeadProjectsHistory
<1> QED
  BY <1>1, <1>2, StoreStep

\* A request that Write accepts continues the history: what it was valid for
\* is still the last revision.
LEMMA WriteContinues ==
  ASSUME IInv, NEW p \in Callers, NEW r \in call[p].request, Write(p, r)
  PROVE  LET s == revisions[r.effect]
         IN  IF Len(s) = 0 THEN r.status = "enqueued" ELSE ValidRequest(s[Len(s)], r)
<1>1. r \in Request /\ r.effect \in Effects
  BY RequestInFlight DEF IInv
<1>2. head[r.effect].revision = r.previous
  BY DEF Write, Unchanged
<1>3. head[r.effect].revision = Len(revisions[r.effect])
  BY <1>1 DEF IInv, HeadProjectsHistory
<1>4. Len(revisions[r.effect]) \in Nat
  BY <1>1 DEF IInv, TypeOK
<1>5. /\ r.previous = 0 => r.status = "enqueued"
      /\ r.previous > 0 => ValidRequest(revisions[r.effect][r.previous], r)
  BY DEF IInv, WellRead
<1> QED
  BY <1>2, <1>3, <1>4, <1>5

LEMMA HistoryStep == IInv /\ [Next]_vars => HistoryFollowsGraph'
<1> SUFFICES ASSUME IInv, [Next]_vars PROVE HistoryFollowsGraph'
  OBVIOUS
<1>1. CASE UNCHANGED <<revisions, head>>
  BY <1>1 DEF IInv, HistoryFollowsGraph
<1>2. ASSUME NEW p \in Callers, NEW r \in call[p].request, Write(p, r)
      PROVE  HistoryFollowsGraph'
  <2> DEFINE s == revisions[r.effect]
             z == revisions'[r.effect]
  <2>1. /\ Len(s) \in Nat /\ DOMAIN s = 1 .. Len(s) /\ DOMAIN z = 1 .. Len(s) + 1
        /\ \A i \in 1 .. Len(s) : z[i] = s[i]
        /\ z[Len(s) + 1] = r
    BY <1>2, WriteStep DEF IInv
  <2>2. IF Len(s) = 0 THEN r.status = "enqueued" ELSE ValidRequest(s[Len(s)], r)
    BY <1>2, WriteContinues
  <2>3. \A i \in DOMAIN s : IF i = 1 THEN s[i].status = "enqueued"
                                     ELSE ValidRequest(s[i - 1], s[i])
    BY <1>2, RequestInFlight DEF IInv, HistoryFollowsGraph
  <2>4. ASSUME NEW i \in DOMAIN z
        PROVE  IF i = 1 THEN z[i].status = "enqueued" ELSE ValidRequest(z[i - 1], z[i])
    <3> HIDE DEF s, z
    <3>1. CASE i \in DOMAIN s
      BY <2>1, <2>3, <3>1
    <3>2. CASE i = Len(s) + 1
      BY <2>1, <2>2, <3>2
    <3> QED
      BY <2>1, <2>4, <3>1, <3>2
  <2>5. \A f \in Effects : f # r.effect => revisions'[f] = revisions[f]
    BY <1>2, WriteStep DEF IInv
  <2> QED
    BY <2>4, <2>5 DEF IInv, HistoryFollowsGraph
<1> QED
  BY <1>1, <1>2, StoreStep

LEMMA WellReadStep == IInv /\ [Next]_vars => WellRead'
<1> SUFFICES ASSUME IInv, [Next]_vars, NEW p \in Callers, NEW r \in call'[p].request
             PROVE  /\ r.previous <= Len(revisions'[r.effect])
                    /\ r.previous = 0 => r.status = "enqueued"
                    /\ r.previous > 0 => ValidRequest(revisions'[r.effect][r.previous], r)
  BY DEF WellRead
<1>1. CASE \E q \in Callers : r \in call[q].request
  <2>1. PICK q \in Callers : r \in call[q].request
    BY <1>1
  <2>2. r \in Request /\ r.effect \in Effects /\ r.previous \in Nat
    BY <2>1, RequestInFlight DEF IInv
  <2>3. /\ r.previous <= Len(revisions[r.effect])
        /\ r.previous = 0 => r.status = "enqueued"
        /\ r.previous > 0 => ValidRequest(revisions[r.effect][r.previous], r)
    BY <2>1 DEF IInv, WellRead
  <2>4. /\ Len(revisions[r.effect]) \in Nat
        /\ Len(revisions'[r.effect]) \in Nat
        /\ Len(revisions[r.effect]) <= Len(revisions'[r.effect])
        /\ \A i \in 1 .. Len(revisions[r.effect]) :
             revisions'[r.effect][i] = revisions[r.effect][i]
    <3>1. Len(revisions[r.effect]) \in Nat
      BY <2>2 DEF IInv, TypeOK
    <3>2. CASE UNCHANGED <<revisions, head>>
      BY <3>1, <3>2
    <3>3. ASSUME NEW o \in Callers, NEW x \in call[o].request, Write(o, x)
          PROVE  /\ Len(revisions'[r.effect]) \in Nat
                 /\ Len(revisions[r.effect]) <= Len(revisions'[r.effect])
                 /\ \A i \in 1 .. Len(revisions[r.effect]) :
                      revisions'[r.effect][i] = revisions[r.effect][i]
      <4>1. CASE x.effect = r.effect
        BY <3>1, <3>3, <4>1, WriteStep DEF IInv
      <4>2. CASE x.effect # r.effect
        BY <2>2, <3>1, <3>3, <4>2, WriteStep DEF IInv
      <4> QED
        BY <4>1, <4>2
    <3> QED
      BY <3>1, <3>2, <3>3, StoreStep
  <2> QED
    BY <2>2, <2>3, <2>4
<1>2. CASE /\ UNCHANGED revisions
           /\ \E e \in Effects, id \in RequestIds : r \in Requests(e, id)
  <2>1. PICK e \in Effects, id \in RequestIds : r \in Requests(e, id)
    BY <1>2
  <2>2. /\ r.effect = e /\ r.previous = Len(revisions[e])
        /\ revisions[e] = <<>> => r.status = "enqueued"
        /\ revisions[e] # <<>> => ValidRequest(Last(e), r)
    BY <2>1, RequestsBuilt DEF IInv, Built
  <2>3. /\ Len(revisions[e]) \in Nat
        /\ Len(revisions[e]) = 0 <=> revisions[e] = <<>>
    BY DEF IInv, TypeOK
  <2> QED
    BY <1>2, <2>2, <2>3 DEF Last
<1> QED
  BY <1>1, <1>2, CallStep DEF IInv

LEMMA IInvInit == Init => IInv
<1> SUFFICES ASSUME Init PROVE IInv
  OBVIOUS
<1>1. TypeOK
  BY TypeInit
<1>2. HeadProjectsHistory
  BY DEF Init, HeadProjectsHistory, NoHead
<1>3. HistoryFollowsGraph
  BY DEF Init, HistoryFollowsGraph
<1>4. WellRead
  BY DEF Init, WellRead, NoCall
<1> QED
  BY <1>1, <1>2, <1>3, <1>4 DEF IInv

LEMMA IInvInvariant == Spec => []IInv
<1>1. IInv /\ [Next]_vars => IInv'
  BY TypeStep, ProjectionStep, HistoryStep, WellReadStep DEF IInv
<1> QED
  BY <1>1, IInvInit, PTL DEF Spec

\* The coordination row of an effect carries the number, the status and the
\* lease of its last revision and bounds all its attempt numbers, for every
\* interleaving of the two transactions of every caller.
THEOREM HeadProjects == Spec => []HeadProjectsHistory
BY IInvInvariant, PTL DEF IInv

\* The immutable revisions of an effect are one path of the closed graph, each
\* valid for its predecessor, although it was validated some transactions
\* before it was written.
THEOREM HistoryFollows == Spec => []HistoryFollowsGraph
BY IInvInvariant, PTL DEF IInv

--------------------------------------------------------------------------------
\* Requests and answers

Rows == UNION {{revisions[e][i] : i \in DOMAIN revisions[e]} : e \in Effects}

Written(r) == \E i \in DOMAIN revisions[r.effect] : revisions[r.effect][i] = r

\* A row of an effect was written by a request for that effect.
RowsOwned == \A e \in Effects : \A i \in DOMAIN revisions[e] : revisions[e][i].effect = e

\* What makes an answer true, and keeps it true: another row under the request
\* id, a history that has passed the revision read, a terminal effect, or the
\* very head that refuses the claim.
Kept(r, a) ==
  /\ a \in {"appended", "exact_replay"} => Written(r)
  /\ a = "replay_conflict" => Existing(r) # {} /\ ~Written(r)
  /\ a = "revision_conflict" /\ r.via # "enqueue" => r.previous < Len(revisions[r.effect]) /\ ~Written(r)
  /\ a = "terminal" => head[r.effect].status \in Terminal /\ ~Written(r)
  /\ a = "claim_refused" =>
       /\ ~Written(r)
       /\ r.previous <= Len(revisions[r.effect])
       /\ r.previous = Len(revisions[r.effect]) => ClaimRefused(head[r.effect], r)

AnswersKept == \A p \in Callers : \A r \in call[p].request, a \in call[p].response : Kept(r, a)

LEMMA RowsStep ==
  ASSUME TypeOK, NEW p \in Callers, NEW x \in call[p].request, Write(p, x)
  PROVE  Rows' = Rows \cup {x}
<1>1. x.effect \in Effects
  BY RequestInFlight
<1>2. /\ \A f \in Effects : f # x.effect => revisions'[f] = revisions[f]
      /\ DOMAIN revisions'[x.effect] = DOMAIN revisions[x.effect] \cup {Len(revisions[x.effect]) + 1}
      /\ revisions'[x.effect][Len(revisions[x.effect]) + 1] = x
      /\ \A i \in DOMAIN revisions[x.effect] : revisions'[x.effect][i] = revisions[x.effect][i]
  BY WriteStep
<1>3. ASSUME NEW y \in Rows' PROVE y \in Rows \cup {x}
  <2>1. PICK f \in Effects : \E i \in DOMAIN revisions'[f] : y = revisions'[f][i]
    BY <1>3 DEF Rows
  <2> QED
    BY <1>2, <2>1 DEF Rows
<1>4. ASSUME NEW y \in Rows PROVE y \in Rows'
  <2>1. PICK f \in Effects : \E i \in DOMAIN revisions[f] : y = revisions[f][i]
    BY <1>4 DEF Rows
  <2>2. \E i \in DOMAIN revisions'[f] : revisions'[f][i] = y
    BY <1>2, <2>1
  <2> QED
    BY <2>2 DEF Rows
<1>5. x \in Rows'
  <2>1. Len(revisions[x.effect]) + 1 \in DOMAIN revisions'[x.effect]
    BY <1>2
  <2> QED
    BY <1>1, <1>2, <2>1 DEF Rows
<1> QED
  BY <1>3, <1>4, <1>5

LEMMA WrittenExists ==
  ASSUME NEW r \in Request, RowsOwned
  PROVE  r \in Existing(r) <=> Written(r)
<1>1. ASSUME Written(r) PROVE r \in Existing(r)
  BY <1>1 DEF Written, Existing, Request
<1>2. ASSUME r \in Existing(r) PROVE Written(r)
  <2>1. PICK f \in Effects : \E i \in DOMAIN revisions[f] : r = revisions[f][i]
    BY <1>2 DEF Existing
  <2>2. r.effect = f
    BY <2>1 DEF RowsOwned
  <2> QED
    BY <2>1, <2>2 DEF Written
<1> QED
  BY <1>1, <1>2

LEMMA WrittenStep ==
  ASSUME TypeOK, NEW p \in Callers, NEW x \in call[p].request, Write(p, x),
         NEW r \in Request
  PROVE  /\ Written(r)' <=> (Written(r) \/ r = x)
         /\ Existing(r) \subseteq Existing(r)'
<1>1. Existing(r) \subseteq Existing(r)'
  BY RowsStep DEF Existing, Rows
<1>2. x.effect \in Effects /\ r.effect \in Effects
  BY RequestInFlight DEF Request
<1>3. /\ \A f \in Effects : f # x.effect => revisions'[f] = revisions[f]
      /\ DOMAIN revisions'[x.effect] = DOMAIN revisions[x.effect] \cup {Len(revisions[x.effect]) + 1}
      /\ revisions'[x.effect][Len(revisions[x.effect]) + 1] = x
      /\ \A i \in DOMAIN revisions[x.effect] : revisions'[x.effect][i] = revisions[x.effect][i]
  BY WriteStep
<1>4. CASE r.effect = x.effect
  BY <1>1, <1>3, <1>4 DEF Written
<1>5. CASE r.effect # x.effect
  BY <1>1, <1>2, <1>3, <1>5 DEF Written
<1> QED
  BY <1>4, <1>5

LEMMA RowsOwnedStep ==
  ASSUME TypeOK, RowsOwned, [Next]_vars
  PROVE  RowsOwned'
<1>1. CASE UNCHANGED <<revisions, head>>
  BY <1>1 DEF RowsOwned
<1>2. ASSUME NEW p \in Callers, NEW x \in call[p].request, Write(p, x)
      PROVE  RowsOwned'
  <2>1. /\ \A f \in Effects : f # x.effect => revisions'[f] = revisions[f]
        /\ DOMAIN revisions'[x.effect] = DOMAIN revisions[x.effect] \cup {Len(revisions[x.effect]) + 1}
        /\ revisions'[x.effect][Len(revisions[x.effect]) + 1] = x
        /\ \A i \in DOMAIN revisions[x.effect] : revisions'[x.effect][i] = revisions[x.effect][i]
    BY <1>2, WriteStep
  <2> QED
    BY <2>1 DEF RowsOwned
<1> QED
  BY <1>1, <1>2, StoreStep

\* No step of anybody makes an answer untrue.
LEMMA AnswerStays ==
  ASSUME IInv, [Next]_vars, NEW r \in Request, NEW a, Kept(r, a)
  PROVE  Kept(r, a)'
<1>1. CASE UNCHANGED <<revisions, head>>
  BY <1>1 DEF Kept, Written, Existing
<1>2. ASSUME NEW p \in Callers, NEW x \in call[p].request, Write(p, x)
      PROVE  Kept(r, a)'
  <2>1. /\ Written(r)' <=> (Written(r) \/ r = x)
        /\ Existing(r) \subseteq Existing(r)'
    BY <1>2, WrittenStep DEF IInv
  <2>2. /\ Existing(x) = {}
        /\ head[x.effect].status \notin Terminal
        /\ head[x.effect].revision = x.previous
    BY <1>2 DEF Write, Unchanged
  <2>3. x.effect \in Effects /\ r.effect \in Effects /\ r.previous \in Nat
    BY <1>2, RequestInFlight DEF IInv, Request
  <2>4. /\ head[x.effect].revision = Len(revisions[x.effect])
        /\ Len(revisions[r.effect]) \in Nat
    BY <2>3 DEF IInv, HeadProjectsHistory, TypeOK
  <2>5. /\ Len(revisions'[x.effect]) = Len(revisions[x.effect]) + 1
        /\ \A f \in Effects : f # x.effect => revisions'[f] = revisions[f] /\ head'[f] = head[f]
    BY <1>2, WriteStep DEF IInv
  <2>6. CASE a \in {"appended", "exact_replay"}
    BY <2>1, <2>6 DEF Kept
  <2>7. CASE a = "replay_conflict"
    BY <2>1, <2>2, <2>7 DEF Kept
  <2>8. CASE a = "revision_conflict" /\ r.via # "enqueue"
    <3>1. r.previous < Len(revisions[r.effect]) /\ ~Written(r)
      BY <2>8 DEF Kept
    <3>2. r # x
      <4>1. x.previous = Len(revisions[x.effect])
        BY <2>2, <2>4
      <4>2. r.previous # Len(revisions[r.effect])
        BY <2>3, <2>4, <3>1
      <4> QED
        BY <4>1, <4>2
    <3>3. r.previous < Len(revisions'[r.effect])
      BY <2>3, <2>4, <2>5, <3>1
    <3> QED
      BY <2>1, <2>8, <3>1, <3>2, <3>3 DEF Kept
  <2>9. CASE a = "terminal"
    BY <2>1, <2>2, <2>3, <2>5, <2>9 DEF Kept
  <2>10. CASE a = "claim_refused"
    <3>1. /\ ~Written(r)
          /\ r.previous <= Len(revisions[r.effect])
          /\ r.previous = Len(revisions[r.effect]) => ClaimRefused(head[r.effect], r)
      BY <2>10 DEF Kept
    <3>2. r # x
      <4>1. x.previous = Len(revisions[x.effect])
        BY <2>2, <2>4
      <4>2. ~ClaimRefused(head[x.effect], x)
        BY <1>2 DEF Write
      <4> QED
        BY <2>3, <2>4, <3>1, <4>1, <4>2
    <3>3. CASE r.effect # x.effect
      <4>1. revisions'[r.effect] = revisions[r.effect] /\ head'[r.effect] = head[r.effect]
        BY <2>3, <2>5, <3>3
      <4> QED
        BY <2>1, <2>10, <3>1, <3>2, <4>1 DEF Kept, ClaimRefused
    <3>4. CASE r.effect = x.effect
      <4>1. r.previous < Len(revisions'[r.effect])
        BY <2>3, <2>4, <2>5, <3>1, <3>4
      <4>2. r.previous \in Nat /\ Len(revisions'[r.effect]) \in Nat
        BY <2>3, <2>4, <2>5, <3>4
      <4> QED
        BY <2>1, <2>10, <3>1, <3>2, <4>1, <4>2 DEF Kept
    <3> QED
      BY <3>3, <3>4
  <2> QED
    BY <2>6, <2>7, <2>8, <2>9, <2>10 DEF Kept
<1> QED
  BY <1>1, <1>2, StoreStep

\* The answer a step gives is true when it is given.
LEMMA AnswerGiven ==
  ASSUME IInv, RowsOwned, [Next]_vars, NEW p \in Callers, NEW r \in call'[p].request,
         NEW a \in call'[p].response
  PROVE  \/ r \in call[p].request /\ a \in call[p].response
         \/ Kept(r, a)'
<1> USE DEF IInv
<1>0. /\ call \in [Callers -> Call]
      /\ \A q \in Callers : call[q] \in Call
  BY DEF TypeOK
<1>1. ASSUME NEW q \in Callers, NEW x \in call[q].request, NEW b, Answer(q, b)
      PROVE  \/ p = q /\ r = x /\ a = b
             \/ r \in call[p].request /\ a \in call[p].response
  BY <1>0, <1>1 DEF Answer, Call, Option
<1>2. ASSUME NEW q \in Callers, NEW x \in call[q].request, Existing(x) # {}, AnswerReplay(q, x),
             UNCHANGED <<revisions, head>>
      PROVE  \/ r \in call[p].request /\ a \in call[p].response
             \/ Kept(r, a)'
  <2>1. x \in Existing(x) <=> Written(x)
    BY <1>2, RequestInFlight, WrittenExists
  <2>2. CASE x \in Existing(x)
    <3>1. Answer(q, "exact_replay")
      BY <1>2, <2>2 DEF AnswerReplay
    <3>2. Kept(x, "exact_replay")'
      BY <1>2, <2>1, <2>2 DEF Kept, Written, Existing
    <3> QED
      BY <1>1, <3>1, <3>2
  <2>3. CASE x \notin Existing(x)
    <3>1. Answer(q, "replay_conflict")
      BY <1>2, <2>3 DEF AnswerReplay
    <3>2. Kept(x, "replay_conflict")'
      BY <1>2, <2>1, <2>3 DEF Kept, Written, Existing
    <3> QED
      BY <1>1, <3>1, <3>2
  <2> QED
    BY <2>2, <2>3
<1>3. CASE Tick \/ UNCHANGED vars
  BY <1>3 DEF Tick, vars
<1>4. ASSUME NEW q \in Callers, NEW e \in Effects, NEW id \in RequestIds, Submit(q, e, id)
      PROVE  r \in call[p].request /\ a \in call[p].response
  BY <1>0, <1>4 DEF Submit
<1>5. ASSUME NEW o \in Callers, NEW q \in Callers, Copy(o, q)
      PROVE  r \in call[p].request /\ a \in call[p].response
  BY <1>0, <1>5 DEF Copy
<1>6. ASSUME NEW q \in Callers, Resend(q)
      PROVE  r \in call[p].request /\ a \in call[p].response
  BY <1>0, <1>6 DEF Resend, Call
<1>7. ASSUME NEW q \in Callers, Forget(q)
      PROVE  r \in call[p].request /\ a \in call[p].response
  BY <1>0, <1>7 DEF Forget, NoCall
<1>8. ASSUME NEW q \in Callers, LookUp(q)
      PROVE  \/ r \in call[p].request /\ a \in call[p].response
             \/ Kept(r, a)'
  <2>1. PICK x \in call[q].request :
           IF Existing(x) = {} THEN call' = [call EXCEPT ![q].pc = "commit"]
                               ELSE AnswerReplay(q, x)
    BY <1>8 DEF LookUp
  <2>2. CASE Existing(x) = {}
    BY <1>0, <2>1, <2>2 DEF Call
  <2>3. CASE Existing(x) # {}
    BY <1>2, <1>8, <2>1, <2>3 DEF LookUp
  <2> QED
    BY <2>2, <2>3
<1>9. ASSUME NEW q \in Callers, NEW x \in call[q].request,
             RefuseEnqueue(q, x) \/ RefuseUnderLock(q, x), UNCHANGED <<revisions, head>>
      PROVE  \/ r \in call[p].request /\ a \in call[p].response
             \/ Kept(r, a)'
  <2>1. UNCHANGED <<revisions, head>>
    BY <1>9
  <2>2. x \in Request /\ x.effect \in Effects /\ x.previous \in Nat
    BY RequestInFlight
  <2>3. CASE RefuseEnqueue(q, x)
    <3>1. CASE Answer(q, "revision_conflict")
      <4>1. Kept(x, "revision_conflict")'
        BY <2>3 DEF Kept, RefuseEnqueue
      <4> QED
        BY <1>1, <3>1, <4>1
    <3>2. CASE Existing(x) # {} /\ x \notin Existing(x) /\ Answer(q, "replay_conflict")
      <4>1. Kept(x, "replay_conflict")'
        BY <2>1, <2>2, <3>2, WrittenExists DEF Kept, Written, Existing
      <4> QED
        BY <1>1, <3>2, <4>1
    <3> QED
      BY <2>3, <3>1, <3>2 DEF RefuseEnqueue
  <2>4. CASE Existing(x) # {} /\ AnswerReplay(q, x)
    BY <1>2, <2>1, <2>4
  <2>5. CASE RefuseUnderLock(q, x) /\ Existing(x) = {}
    <3>1. ~Written(x)
      BY <2>2, <2>5, WrittenExists
    <3>2. x.previous <= Len(revisions[x.effect]) /\ Len(revisions[x.effect]) \in Nat
      BY <2>2 DEF WellRead, TypeOK
    <3>3. head[x.effect].revision = Len(revisions[x.effect])
      BY <2>2 DEF HeadProjectsHistory
    <3>4. CASE head[x.effect].status \in Terminal /\ Answer(q, "terminal")
      <4>1. Kept(x, "terminal")'
        BY <2>1, <3>1, <3>4 DEF Kept, Written, Existing
      <4> QED
        BY <1>1, <3>4, <4>1
    <3>5. CASE ~Unchanged(head[x.effect], x) /\ Answer(q, "revision_conflict")
      <4>1. x.previous < Len(revisions[x.effect])
        BY <2>2, <3>2, <3>3, <3>5 DEF Unchanged
      <4>2. Kept(x, "revision_conflict")'
        BY <2>1, <3>1, <4>1 DEF Kept, Written, Existing
      <4> QED
        BY <1>1, <3>5, <4>2
    <3>6. CASE ClaimRefused(head[x.effect], x) /\ Answer(q, "claim_refused")
      <4>1. Kept(x, "claim_refused")'
        BY <2>1, <3>1, <3>2, <3>3, <3>6 DEF Kept, Written, ClaimRefused
      <4> QED
        BY <1>1, <3>6, <4>1
    <3> QED
      BY <2>5, <3>4, <3>5, <3>6 DEF RefuseUnderLock
  <2> QED
    BY <1>9, <2>3, <2>4, <2>5 DEF RefuseUnderLock
<1>10. ASSUME NEW q \in Callers, NEW x \in call[q].request, Write(q, x)
       PROVE  \/ r \in call[p].request /\ a \in call[p].response
              \/ Kept(r, a)'
  <2>1. Written(x)'
    BY <1>10, RequestInFlight, WrittenStep
  <2>2. Kept(x, "appended")'
    BY <2>1 DEF Kept
  <2>3. Answer(q, "appended")
    BY <1>10 DEF Write
  <2> QED
    BY <1>1, <2>2, <2>3
<1>11. ASSUME NEW q \in Callers, Commit(q)
       PROVE  \/ r \in call[p].request /\ a \in call[p].response
              \/ Kept(r, a)'
  BY <1>9, <1>10, <1>11 DEF Commit
<1> QED
  BY <1>3, <1>4, <1>5, <1>6, <1>7, <1>8, <1>11 DEF Next

AInv == IInv /\ RowsOwned /\ AnswersKept

LEMMA AnswersStep == AInv /\ [Next]_vars => AInv'
<1> SUFFICES ASSUME AInv, [Next]_vars PROVE AInv'
  OBVIOUS
<1>1. IInv'
  BY TypeStep, ProjectionStep, HistoryStep, WellReadStep DEF AInv, IInv
<1>2. RowsOwned'
  BY RowsOwnedStep DEF AInv, IInv
<1>3. ASSUME NEW p \in Callers, NEW r \in call'[p].request, NEW a \in call'[p].response
      PROVE  Kept(r, a)'
  <2>1. r \in Request
    BY <1>1, <1>3 DEF IInv, TypeOK, Call, Option
  <2>2. CASE r \in call[p].request /\ a \in call[p].response
    <3>1. Kept(r, a)
      BY <2>2 DEF AInv, AnswersKept
    <3> QED
      BY <2>1, <3>1, AnswerStays DEF AInv
  <2> QED
    BY <1>3, <2>2, AnswerGiven DEF AInv
<1> QED
  BY <1>1, <1>2, <1>3 DEF AInv, AnswersKept

\* A caller told that its request lost has not written and never will; a
\* caller told that it was written finds it in the history.
THEOREM AnswersTrue == Spec => []AnswersAreTrue
<1>1. Init => AInv
  <2>1. Init => RowsOwned /\ AnswersKept
    BY DEF Init, RowsOwned, AnswersKept, NoCall
  <2> QED
    BY <2>1, IInvInit DEF AInv
<1>2. AInv => AnswersAreTrue
  BY DEF AInv, AnswersKept, Kept, Written, AnswersAreTrue
<1> QED
  BY <1>1, <1>2, AnswersStep, PTL DEF Spec

--------------------------------------------------------------------------------
\* One revision for a request

LEMMA OneRevisionStep ==
  ASSUME TypeOK, OneRevisionPerRequest, [Next]_vars
  PROVE  OneRevisionPerRequest'
<1>1. CASE UNCHANGED <<revisions, head>>
  BY <1>1 DEF OneRevisionPerRequest
<1>2. ASSUME NEW p \in Callers, NEW x \in call[p].request, Write(p, x)
      PROVE  OneRevisionPerRequest'
  <2> DEFINE new == Len(revisions[x.effect]) + 1
  <2>1. /\ \A f \in Effects : f # x.effect => revisions'[f] = revisions[f]
        /\ DOMAIN revisions'[x.effect] = DOMAIN revisions[x.effect] \cup {new}
        /\ revisions'[x.effect][new] = x
        /\ \A i \in DOMAIN revisions[x.effect] : revisions'[x.effect][i] = revisions[x.effect][i]
    BY <1>2, WriteStep
  <2>2. \A f \in Effects : \A j \in DOMAIN revisions[f] :
          x.via # "enqueue" => ~(revisions[f][j].via = x.via /\ revisions[f][j].id = x.id)
    BY <1>2 DEF Write, Existing
  <2>3. ASSUME NEW e \in Effects, NEW i \in DOMAIN revisions'[e]
        PROVE  \/ e = x.effect /\ i = new /\ revisions'[e][i] = x
               \/ i \in DOMAIN revisions[e] /\ revisions'[e][i] = revisions[e][i]
    BY <2>1, <2>3
  <2> HIDE DEF new
  <2>4. ASSUME NEW e \in Effects, NEW f \in Effects,
               NEW i \in DOMAIN revisions'[e], NEW j \in DOMAIN revisions'[f],
               revisions'[e][i].via = revisions'[f][j].via,
               revisions'[e][i].id = revisions'[f][j].id,
               revisions'[e][i].via # "enqueue"
        PROVE  e = f /\ i = j
    <3>1. CASE i \in DOMAIN revisions[e] /\ revisions'[e][i] = revisions[e][i]
      <4>1. CASE j \in DOMAIN revisions[f] /\ revisions'[f][j] = revisions[f][j]
        BY <2>4, <3>1, <4>1 DEF OneRevisionPerRequest
      <4>2. CASE f = x.effect /\ j = new /\ revisions'[f][j] = x
        BY <2>2, <2>4, <3>1, <4>2
      <4> QED
        BY <2>3, <4>1, <4>2
    <3>2. CASE e = x.effect /\ i = new /\ revisions'[e][i] = x
      <4>1. CASE j \in DOMAIN revisions[f] /\ revisions'[f][j] = revisions[f][j]
        BY <2>2, <2>4, <3>2, <4>1
      <4>2. CASE f = x.effect /\ j = new
        BY <3>2, <4>2
      <4> QED
        BY <2>3, <4>1, <4>2
    <3> QED
      BY <2>3, <3>1, <3>2
  <2> QED
    BY <2>4 DEF OneRevisionPerRequest
<1> QED
  BY <1>1, <1>2, StoreStep

\* However often a request is submitted, by its caller or by a process with a
\* copy of it, the store writes at most one revision for it.
THEOREM OneRevision == Spec => []OneRevisionPerRequest
<1>1. Init => OneRevisionPerRequest
  BY DEF Init, OneRevisionPerRequest
<1> QED
  BY <1>1, OneRevisionStep, TypeCorrect, PTL DEF Spec

--------------------------------------------------------------------------------
(***************************************************************************)
(* The effect store implements the compare-and-set register of             *)
(* EffectDelivery, and hands over no running lease, as long as no caller   *)
(* appends a claim (ClaimsByAppend).                                       *)
(*                                                                         *)
(* Besides the invariant above the argument needs what a request in flight *)
(* still carries from the moment it was built: the clock reading of its    *)
(* caller and the operation it is for (InFlight), and that a history opens *)
(* with an enqueue that has no claim (Openings).                           *)
(***************************************************************************)

\* Leases, when callers claim through the claim operation only

\* A request carries the clock its caller read, and claims are claim requests.
Dated(r) == r.at = now /\ (r.status = "claimed" /\ ~ClaimsByAppend => r.via = "claim")

LEMMA RequestsDated ==
  ASSUME NEW e \in Effects, NEW id \in RequestIds, NEW r \in Requests(e, id)
  PROVE  Dated(r)
<1>1. \A via, s : /\ Draft(via, e, id, s).at = now
                  /\ Draft(via, e, id, s).status = s
                  /\ Draft(via, e, id, s).via = via
  BY DEF Draft
<1>2. ASSUME NEW c \in ClaimRequests(e, id) PROVE c.at = now /\ c.via = "claim"
  BY <1>2 DEF ClaimRequests, Draft
<1>3. CASE r \in EnqueueRequests(e, id) \cup DeadLetterRequests(e, id)
  BY <1>1, <1>3 DEF EnqueueRequests, DeadLetterRequests, Dated
<1>4. CASE r \in ClaimRequests(e, id)
  BY <1>2, <1>4 DEF Dated
<1>5. CASE r \in ClaimAppendRequests(e, id)
  <2>1. ClaimsByAppend /\ \E c \in ClaimRequests(e, id) : r = [c EXCEPT !.via = "append"]
    BY <1>5 DEF ClaimAppendRequests
  <2>2. r.at = now
    BY <1>2, <2>1 DEF ClaimRequests, Draft
  <2> QED
    BY <2>1, <2>2 DEF Dated
<1>6. CASE r \in DeliveringRequests(e, id)
  BY <1>6 DEF DeliveringRequests, Draft, Dated
<1>7. CASE r \in ResultRequests(e, id)
  <2>1. PICK s \in {"delivered", "ambiguous", "dead_lettered"}, c \in Results :
           r = [Draft("append", e, id, s) EXCEPT !.attempt = Last(e).attempt, !.result = {c}]
    BY <1>7 DEF ResultRequests
  <2> QED
    BY <2>1 DEF Draft, Dated
<1>8. ASSUME NEW x \in RetryRequests(e, id)
      PROVE  x.at = now /\ x.status = "retry_scheduled"
  BY <1>8 DEF RetryRequests, Draft
<1>9. ASSUME NEW x \in NotInvokedRequests(e, id)
      PROVE  x.at = now /\ x.status = "dead_lettered"
  BY <1>9 DEF NotInvokedRequests, Draft
<1>10. CASE r \in NotInvokedRetryRequests(e, id)
  <2>1. PICK n \in NotInvokedRequests(e, id), d \in RetryDecisions :
           r = [n EXCEPT !.status = "retry_scheduled", !.retry = {d}]
    BY <1>10 DEF NotInvokedRetryRequests
  <2>2. r.at = now /\ r.status = "retry_scheduled"
    BY <2>1 DEF NotInvokedRequests, Draft
  <2> QED
    BY <2>2 DEF Dated
<1>11. CASE r \in ReconciliationRequests(e, id)
  <2>1. PICK s \in {"delivered", "dead_lettered"}, o \in Observations :
           r = [Draft("append", e, id, s) EXCEPT
                  !.attempt = Last(e).attempt, !.result = Last(e).result, !.observation = {o}]
    BY <1>11 DEF ReconciliationRequests
  <2> QED
    BY <2>1 DEF Draft, Dated
<1>12. CASE r \in ReconciledRetryRequests(e, id)
  <2>1. PICK n \in RetryRequests(e, id), o \in Observations : r = [n EXCEPT !.observation = {o}]
    BY <1>12 DEF ReconciledRetryRequests
  <2>2. n.at = now /\ n.status = "retry_scheduled"
    BY DEF RetryRequests, Draft
  <2>3. r.at = n.at /\ r.status = n.status
    BY <2>1 DEF RetryRequests, Draft
  <2> QED
    BY <2>2, <2>3 DEF Dated
<1> QED
  BY <1>3, <1>4, <1>5, <1>6, <1>7, <1>8, <1>9, <1>10, <1>11, <1>12 DEF Requests, Dated

\* Requests in flight are at most as old as the clock.
InFlight ==
  \A p \in Callers : \A r \in call[p].request :
    r.at <= now /\ (r.status = "claimed" /\ ~ClaimsByAppend => r.via = "claim")

LEMMA InFlightStep ==
  ASSUME TypeOK, InFlight, [Next]_vars
  PROVE  InFlight'
<1> SUFFICES ASSUME NEW p \in Callers, NEW r \in call'[p].request
             PROVE  r.at <= now' /\ (r.status = "claimed" /\ ~ClaimsByAppend => r.via = "claim")
  BY DEF InFlight
<1>1. now \in Nat /\ now' \in Nat /\ now <= now'
  <2>1. UNCHANGED now \/ Tick
    BY DEF Next, vars, Submit, Copy, Resend, Forget, LookUp, Commit
  <2> QED
    BY <2>1 DEF TypeOK, Time, Tick
<1>2. CASE \E q \in Callers : r \in call[q].request
  <2>1. PICK q \in Callers : r \in call[q].request
    BY <1>2
  <2>2. r.at \in Nat
    BY <2>1, RequestInFlight DEF Request, Time
  <2> QED
    BY <1>1, <2>1, <2>2 DEF InFlight
<1>3. CASE \E e \in Effects, id \in RequestIds : r \in Requests(e, id)
  BY <1>1, <1>3, RequestsDated DEF Dated
<1> QED
  BY <1>2, <1>3, CallStep

(***************************************************************************)
(* When callers claim through the claim operation only, a claim replaces   *)
(* another only after the other's lease has ended, and under a new         *)
(* identity.  The run claim_by_append shows that the assumption is needed. *)
(***************************************************************************)
THEOREM LeaseRespected ==
  ASSUME ~ClaimsByAppend
  PROVE  Spec => LeaseIsRespected
<1> DEFINE Respected ==
      \A e \in Effects :
        head'[e].status = "claimed" /\ head'[e] # head[e] =>
          \A m \in head[e].lease :
            /\ m.expires <= now
            /\ \A l \in head'[e].lease : l.claim # m.claim
<1>1. Init => InFlight
  BY DEF Init, InFlight, NoCall
<1>2. ASSUME TypeOK, InFlight, [Next]_vars PROVE Respected
  <2>1. CASE UNCHANGED <<revisions, head>>
    BY <2>1
  <2>2. ASSUME NEW p \in Callers, NEW x \in call[p].request, Write(p, x)
        PROVE  Respected
    <3> SUFFICES ASSUME NEW e \in Effects, head'[e].status = "claimed", head'[e] # head[e],
                        NEW m \in head[e].lease
                 PROVE  m.expires <= now /\ \A l \in head'[e].lease : l.claim # m.claim
      OBVIOUS
    <3>1. e = x.effect /\ head'[e] = NextHead(head[e], x)
      BY <1>2, <2>2, WriteStep
    <3>2. x.status = "claimed" /\ head'[e].lease = x.lease
      BY <3>1 DEF NextHead
    <3>3. x.via = "claim" /\ x.at <= now
      BY <1>2, <3>2 DEF InFlight
    <3>4. ~(m.expires > x.at) /\ \A l \in x.lease : m.claim # l.claim
      BY <2>2, <3>1, <3>3 DEF Write, ClaimRefused
    <3>5. m.expires \in Nat /\ x.at \in Nat /\ now \in Nat
      <4>1. head[e].lease \in Option(Lease) /\ now \in Nat
        BY <1>2 DEF TypeOK, HeadRow, Time
      <4> QED
        BY <1>2, <4>1, RequestInFlight DEF Option, Lease, Request, Time
    <3> QED
      BY <3>2, <3>3, <3>4, <3>5
  <2> QED
    BY <1>2, <2>1, <2>2, StoreStep
<1>3. TypeOK /\ InFlight /\ [Next]_vars => [Respected]_vars
  BY <1>2
<1> HIDE DEF Respected
<1>4. Spec => [][Respected]_vars
  BY <1>1, <1>3, InFlightStep, TypeCorrect, PTL DEF Spec
<1> QED
  BY <1>4 DEF LeaseIsRespected, Respected

--------------------------------------------------------------------------------
\* The store implements the register of EffectDelivery

\* Only an enqueue is built where there is no revision; it carries no claim.
Opening(r) == (r.via = "enqueue" <=> r.previous = 0) /\ (r.previous = 0 => r.lease = {})

LEMMA RequestsOpening ==
  ASSUME TypeOK, NEW e \in Effects, NEW id \in RequestIds, NEW r \in Requests(e, id)
  PROVE  Opening(r)
<1>0. /\ r.previous = Len(revisions[e])
      /\ Len(revisions[e]) \in Nat
      /\ Len(revisions[e]) = 0 <=> revisions[e] = <<>>
  BY RequestsBuilt DEF Built, TypeOK
<1>1. CASE revisions[e] = <<>>
  BY <1>0, <1>1 DEF Requests, EnqueueRequests, Draft, Opening
<1>2. CASE revisions[e] # <<>>
  <2>1. CASE r \in ClaimRequests(e, id)
    BY <1>0, <1>2, <2>1 DEF ClaimRequests, Draft, Opening
  <2>8. CASE r \in DeliveringRequests(e, id)
    BY <1>0, <1>2, <2>8 DEF DeliveringRequests, Draft, Opening
  <2>9. CASE r \in DeadLetterRequests(e, id)
    BY <1>0, <1>2, <2>9 DEF DeadLetterRequests, Draft, Opening
  <2>2. CASE r \in ClaimAppendRequests(e, id)
    BY <1>0, <1>2, <2>2 DEF ClaimAppendRequests, ClaimRequests, Draft, Opening
  <2>3. CASE r \in RetryRequests(e, id) \cup NotInvokedRequests(e, id)
    BY <1>0, <1>2, <2>3 DEF RetryRequests, NotInvokedRequests, Draft, Opening
  <2>4. CASE r \in ReconciledRetryRequests(e, id)
    <3>1. PICK n \in RetryRequests(e, id), o \in Observations : r = [n EXCEPT !.observation = {o}]
      BY <2>4 DEF ReconciledRetryRequests
    <3>2. r.via = "append"
      BY <3>1 DEF RetryRequests, Draft
    <3> QED
      BY <1>0, <1>2, <3>2 DEF Opening
  <2>5. CASE r \in NotInvokedRetryRequests(e, id)
    <3>1. PICK n \in NotInvokedRequests(e, id), d \in RetryDecisions :
             r = [n EXCEPT !.status = "retry_scheduled", !.retry = {d}]
      BY <2>5 DEF NotInvokedRetryRequests
    <3>2. r.via = "append"
      BY <3>1 DEF NotInvokedRequests, Draft
    <3> QED
      BY <1>0, <1>2, <3>2 DEF Opening
  <2>6. CASE r \in ResultRequests(e, id)
    <3>1. PICK s \in {"delivered", "ambiguous", "dead_lettered"}, c \in Results :
             r = [Draft("append", e, id, s) EXCEPT !.attempt = Last(e).attempt, !.result = {c}]
      BY <2>6 DEF ResultRequests
    <3> QED
      BY <1>0, <1>2, <3>1 DEF Draft, Opening
  <2>7. CASE r \in ReconciliationRequests(e, id)
    <3>1. PICK s \in {"delivered", "dead_lettered"}, o \in Observations :
             r = [Draft("append", e, id, s) EXCEPT
                    !.attempt = Last(e).attempt, !.result = Last(e).result, !.observation = {o}]
      BY <2>7 DEF ReconciliationRequests
    <3> QED
      BY <1>0, <1>2, <3>1 DEF Draft, Opening
  <2> QED
    BY <1>2, <2>1, <2>2, <2>3, <2>4, <2>5, <2>6, <2>7, <2>8, <2>9 DEF Requests
<1> QED
  BY <1>1, <1>2

\* What the refinement needs beyond IInv: how histories open.
Openings ==
  /\ \A p \in Callers : \A r \in call[p].request : Opening(r)
  /\ \A e \in Effects : revisions[e] = <<>> => head[e] = NoHead

LEMMA OpeningsStep ==
  ASSUME TypeOK, Openings, [Next]_vars
  PROVE  Openings'
<1>1. ASSUME NEW p \in Callers, NEW r \in call'[p].request PROVE Opening(r)
  BY <1>1, CallStep, RequestsOpening DEF Openings
<1>2. ASSUME NEW e \in Effects, revisions'[e] = <<>> PROVE head'[e] = NoHead
  <2>1. CASE UNCHANGED <<revisions, head>>
    BY <1>2, <2>1 DEF Openings
  <2>2. ASSUME NEW p \in Callers, NEW x \in call[p].request, Write(p, x)
        PROVE  head'[e] = NoHead
    <3>1. revisions'[x.effect] # <<>>
      BY <2>2, WriteStep
    <3>2. revisions'[e] = revisions[e] /\ head'[e] = head[e]
      BY <1>2, <2>2, <3>1, WriteStep
    <3> QED
      BY <1>2, <3>2 DEF Openings
  <2> QED
    BY <2>1, <2>2, StoreStep
<1> QED
  BY <1>1, <1>2 DEF Openings, Opening

\* The lease of a head as the register shows it.
Shown(L, t) == {[claim |-> m.claim, over |-> m.expires <= t] : m \in L}

\* What the end of a lease does to it.
Ended(S) == {[claim |-> m.claim, over |-> TRUE] : m \in S}

LEMMA ShownLater ==
  ASSUME NEW L \in Option(Lease), NEW t \in Nat
  PROVE  Shown(L, t + 1) =
           IF \E m \in L : m.expires <= t + 1 THEN Ended(Shown(L, t))
                                              ELSE Shown(L, t)
<1>1. CASE L = {}
  BY <1>1 DEF Shown, Ended
<1>2. CASE L # {}
  <2>1. PICK m \in L : TRUE
    BY <1>2
  <2>2. L = {m} /\ m \in Lease /\ m.expires \in Nat
    BY <2>1 DEF Option, Lease, Time
  <2>3. \A u : Shown(L, u) = {[claim |-> m.claim, over |-> m.expires <= u]}
    BY <2>2 DEF Shown
  <2>4. CASE m.expires <= t + 1
    <3>1. Shown(L, t + 1) = {[claim |-> m.claim, over |-> TRUE]}
      BY <2>3, <2>4
    <3>2. Ended(Shown(L, t)) = {[claim |-> m.claim, over |-> TRUE]}
      <4> DEFINE x == [claim |-> m.claim, over |-> m.expires <= t]
      <4>1. Shown(L, t) = {x} /\ x.claim = m.claim
        BY <2>3
      <4> HIDE DEF x
      <4> QED
        BY <4>1 DEF Ended
    <3> QED
      BY <2>2, <2>4, <3>1, <3>2
  <2>5. CASE ~(m.expires <= t + 1)
    <3>1. ~(m.expires <= t)
      BY <2>2, <2>5
    <3>2. /\ Shown(L, t + 1) = {[claim |-> m.claim, over |-> FALSE]}
          /\ Shown(L, t) = {[claim |-> m.claim, over |-> FALSE]}
      <4>1. (m.expires <= t) = FALSE /\ (m.expires <= t + 1) = FALSE
        BY <2>5, <3>1
      <4> QED
        BY <2>3, <4>1, Zenon
    <3>3. ~\E x \in L : x.expires <= t + 1
      BY <2>2, <2>5
    <3> QED
      BY <3>2, <3>3
  <2> QED
    BY <2>4, <2>5
<1> QED
  BY <1>1, <1>2

\* A tick ends leases.
LEMMA TickImplements ==
  ASSUME TypeOK, Tick
  PROVE  \E E \in SUBSET Effects : Delivery!LeasesEnd(E)
<1> DEFINE E == {e \in Effects : \E m \in head[e].lease : m.expires <= now + 1}
<1>1. now \in Nat /\ now' = now + 1 /\ head' = head
  BY DEF TypeOK, Time, Tick
<1>2. ASSUME NEW e \in Effects
      PROVE  Register(e)' = IF e \in E
                            THEN [Register(e) EXCEPT !.lease = {[claim |-> m.claim, over |-> TRUE] : m \in @}]
                            ELSE Register(e)
  <2>1. head[e].lease \in Option(Lease)
    BY DEF TypeOK, HeadRow
  <2>2. /\ Register(e) = [version |-> head[e].revision, status |-> head[e].status,
                          lease |-> Shown(head[e].lease, now)]
        /\ Register(e)' = [version |-> head[e].revision, status |-> head[e].status,
                           lease |-> Shown(head[e].lease, now + 1)]
    BY <1>1 DEF Register, Shown
  <2>3. [Register(e) EXCEPT !.lease = Ended(@)] =
          [version |-> head[e].revision, status |-> head[e].status,
           lease |-> Ended(Shown(head[e].lease, now))]
    BY <2>2
  <2>4. Shown(head[e].lease, now + 1) = IF e \in E THEN Ended(Shown(head[e].lease, now))
                                                   ELSE Shown(head[e].lease, now)
    BY <1>1, <2>1, ShownLater
  <2>5. Register(e)' = IF e \in E THEN [Register(e) EXCEPT !.lease = Ended(@)] ELSE Register(e)
    <3> HIDE DEF E
    <3> QED
      BY <2>2, <2>3, <2>4
  <2> QED
    BY <2>5 DEF Ended
<1>3. Delivery!LeasesEnd(E)
  BY <1>2 DEF Delivery!LeasesEnd
<1> QED
  BY <1>3

LEMMA ClockStep ==
  ASSUME [Next]_vars
  PROVE  \/ UNCHANGED <<now, head>>
         \/ Tick
         \/ UNCHANGED now /\ \E p \in Callers : \E r \in call[p].request : Write(p, r)
<1>1. CASE \E p \in Callers : \E e \in Effects, id \in RequestIds : Submit(p, e, id)
  BY <1>1 DEF Submit
<1>2. CASE \E p, q \in Callers : Copy(p, q)
  BY <1>2 DEF Copy
<1>3. CASE \E p \in Callers : Resend(p) \/ Forget(p) \/ LookUp(p)
  BY <1>3 DEF Resend, Forget, LookUp
<1>4. CASE \E p \in Callers : Commit(p)
  BY <1>4 DEF Commit
<1>5. CASE UNCHANGED vars
  BY <1>5 DEF vars
<1> QED
  BY <1>1, <1>2, <1>3, <1>4, <1>5 DEF Next

\* A write is a compare-and-set of the register.
LEMMA WriteAdvances ==
  ASSUME TypeOK, NEW p \in Callers, NEW x \in call[p].request, Write(p, x), UNCHANGED now
  PROVE  Delivery!Advance(x.effect, head[x.effect].revision, x.status, Shown(x.lease, now))
<1>1. x.effect \in Effects
  BY RequestInFlight
<1>2. head'[x.effect] = NextHead(head[x.effect], x)
  BY WriteStep
<1>3. \A f \in Effects : f # x.effect => head'[f] = head[f]
  BY WriteStep
<1>4. Register(x.effect)' = [version |-> head[x.effect].revision + 1, status |-> x.status,
                            lease |-> Shown(x.lease, now)]
  BY <1>2 DEF Register, NextHead, Shown
<1>5. \A f \in Effects : f # x.effect => Register(f)' = Register(f)
  BY <1>3 DEF Register
<1>6. Register(x.effect).version = head[x.effect].revision
  BY DEF Register
<1> HIDE DEF Register
<1> QED
  BY <1>1, <1>4, <1>5, <1>6 DEF Delivery!Advance

\* What a written request owes to the revision before it.
LEMMA Continuation ==
  ASSUME ~ClaimsByAppend, IInv, InFlight, Openings,
         NEW p \in Callers, NEW x \in call[p].request, Write(p, x)
  PROVE  LET h == head[x.effect]
         IN  \/ /\ h = NoHead /\ x.status = "enqueued" /\ x.lease = {}
             \/ /\ x.status \in Follows[h.status] /\ h.status \in Status
                /\ ValidEvidence(x)
                /\ x.status = "claimed" => x.via = "claim"
                /\ x.status = "delivering" => x.lease = h.lease
                /\ x.notInvoked # {} => h.status = "delivering" /\ x.lease = h.lease
<1> DEFINE h == head[x.effect]
           s == revisions[x.effect]
<1>1. x \in Request /\ x.effect \in Effects
  BY RequestInFlight DEF IInv
<1>2. IF Len(s) = 0 THEN x.status = "enqueued" ELSE ValidRequest(s[Len(s)], x)
  BY WriteContinues
<1>3. /\ s \in Seq(Request) /\ Len(s) \in Nat
      /\ Len(s) = 0 <=> s = <<>>
  BY <1>1 DEF IInv, TypeOK
<1>4. x.previous = Len(s)
  BY <1>1 DEF Write, Unchanged, IInv, HeadProjectsHistory
<1>5. Opening(x)
  BY DEF Openings
<1>6. CASE Len(s) = 0
  BY <1>1, <1>2, <1>3, <1>4, <1>5, <1>6 DEF Openings, Opening
<1>7. CASE Len(s) # 0
  <2>1. s[Len(s)] \in Request /\ h.status = s[Len(s)].status /\ h.lease = s[Len(s)].lease
    BY <1>1, <1>3, <1>7 DEF IInv, HeadProjectsHistory, Last
  <2>2. x.via \in {"claim", "append"}
    BY <1>1, <1>4, <1>5, <1>7 DEF Opening, Request
  <2>3. x.status = "claimed" => x.via = "claim"
    BY DEF InFlight
  <2>4. ValidRequest(s[Len(s)], x)
    BY <1>2, <1>7
  <2>5. x.via = "claim" => x.status = "claimed" /\ x.notInvoked = {}
    <3>1. ASSUME x.via = "claim", x.notInvoked # {} PROVE FALSE
      <4>1. x.status = "claimed" /\ ValidEvidence(x)
        BY <2>4, <3>1 DEF ValidRequest
      <4>2. "claim" \in Required["claimed"] /\ "claim" \notin Evidence(x)
        BY <3>1 DEF Required, Evidence
      <4> QED
        BY <4>1, <4>2 DEF ValidEvidence
    <3> QED
      BY <2>4, <3>1 DEF ValidRequest
  <2> HIDE DEF s, h
  <2>6. x.status = "delivering" => x.lease = h.lease
    BY <2>1, <2>2, <2>4, <2>5 DEF ValidRequest, ValidAttempt
  <2>7. x.notInvoked # {} => h.status = "delivering" /\ x.lease = h.lease
    BY <2>1, <2>2, <2>4, <2>5 DEF ValidRequest, ValidNotInvoked
  <2>8. x.status \in Follows[h.status] /\ h.status \in Status /\ ValidEvidence(x)
    BY <2>1, <2>4 DEF ValidRequest, ValidTransition, Request
  <2> QED
    BY <2>3, <2>6, <2>7, <2>8 DEF h
<1> QED
  BY <1>6, <1>7

\* The register is defined over the same graph of statuses.
LEMMA SameGraph ==
  /\ Delivery!Claimable = Claimable /\ Delivery!Status = Status
  /\ Delivery!Follows = Follows
BY DEF Delivery!Claimable, Claimable, Delivery!Terminal, Terminal, Delivery!Status, Status,
       Delivery!Follows, Follows

\* Every write is one of the operations of the register.
LEMMA WriteImplements ==
  ASSUME ~ClaimsByAppend, IInv, InFlight, Openings, UNCHANGED now,
         NEW p \in Callers, NEW x \in call[p].request, Write(p, x)
  PROVE  Delivery!DeliveryNext
<1> DEFINE e == x.effect
           h == head[e]
           R == [f \in Effects |-> Register(f)]
<1>1. x \in Request /\ e \in Effects
  BY RequestInFlight DEF IInv
<1>2. R[e].version = h.revision /\ R[e].status = h.status /\ R[e].lease = Shown(h.lease, now)
  BY <1>1 DEF Register, Shown
<1>3. Delivery!Advance(e, h.revision, x.status, Shown(x.lease, now))
  BY WriteAdvances DEF IInv
<1>4. Shown({}, now) = {}
  BY DEF Shown
<1>5. CASE h = NoHead /\ x.status = "enqueued" /\ x.lease = {}
  <2>1. Delivery!Enqueue(e)
    BY <1>2, <1>3, <1>4, <1>5 DEF Delivery!Enqueue, NoHead
  <2> QED
    BY <1>1, <2>1 DEF Delivery!DeliveryNext
<1>6. CASE /\ x.status \in Follows[h.status] /\ h.status \in Status
           /\ ValidEvidence(x)
           /\ x.status = "claimed" => x.via = "claim"
           /\ x.status = "delivering" => x.lease = h.lease
           /\ x.notInvoked # {} => h.status = "delivering" /\ x.lease = h.lease
  <2>1. CASE x.status = "claimed"
    <3>1. h.status \in Claimable
      BY <1>6, <2>1 DEF Follows, Status, Claimable, Terminal
    <3>2. "claim" \in Evidence(x)
      BY <1>6, <2>1 DEF ValidEvidence, Required
    <3>3. x.lease # {}
      BY <3>2 DEF Evidence
    <3>4. PICK l \in x.lease : x.lease = {l} /\ l \in Lease
      BY <1>1, <3>3 DEF Request, Option
    <3> DEFINE over == l.expires <= now
    <3>5. Shown(x.lease, now) = {[claim |-> l.claim, over |-> over]}
      BY <3>4 DEF Shown
    <3>6. \A m \in h.lease : ~(m.expires > x.at) /\ m.claim # l.claim
      BY <1>6, <2>1, <3>4 DEF Write, ClaimRefused
    <3>7. \A m \in h.lease : m.expires <= now
      <4>1. x.at <= now /\ x.at \in Nat /\ now \in Nat
        BY <1>1 DEF InFlight, IInv, TypeOK, Time, Request
      <4>2. \A m \in h.lease : m.expires \in Nat
        BY <1>1 DEF IInv, TypeOK, HeadRow, Option, Lease, Time
      <4> QED
        BY <3>6, <4>1, <4>2
    <3>8. \A m \in Shown(h.lease, now) : m.over /\ m.claim # l.claim
      <4> SUFFICES ASSUME NEW y \in Shown(h.lease, now) PROVE y.over /\ y.claim # l.claim
        OBVIOUS
      <4>1. PICK m \in h.lease : y = [claim |-> m.claim, over |-> m.expires <= now]
        BY DEF Shown
      <4>2. (m.expires <= now) = TRUE /\ m.claim # l.claim
        BY <3>6, <3>7
      <4>3. y.over = (m.expires <= now) /\ y.claim = m.claim
        BY <4>1, Zenon
      <4> QED
        BY <4>2, <4>3
    <3>9. l.claim \in Claims /\ over \in BOOLEAN
      BY <3>4 DEF Lease
    <3> HIDE DEF over
    <3>10. Delivery!Claimed(e, R[e].version, l.claim, over)
      BY <1>2, <1>3, <2>1, <3>1, <3>5, <3>8, SameGraph DEF Delivery!Claimed
    <3> QED
      BY <1>1, <3>9, <3>10 DEF Delivery!DeliveryNext
  <2>2. CASE x.status = "delivering"
    <3>1. h.status = "claimed" /\ x.lease = h.lease
      BY <1>6, <2>2 DEF Follows, Status, Claimable, Terminal
    <3>2. Delivery!StartDelivering(e, R[e].version)
      BY <1>2, <1>3, <2>2, <3>1 DEF Delivery!StartDelivering
    <3> QED
      BY <1>1, <3>2 DEF Delivery!DeliveryNext
  <2>3. CASE x.status \notin {"claimed", "delivering"}
    <3>1. x.notInvoked = {} => x.lease = {}
      <4>1. "claim" \notin Required[x.status] \cup Optional[x.status]
        BY <1>1, <2>3 DEF Request, Status, Terminal, Claimable, Required, Optional
      <4>2. "claim" \notin Evidence(x)
        BY <1>6, <4>1 DEF ValidEvidence
      <4> QED
        BY <4>2 DEF Evidence
    <3>2. Shown(x.lease, now) \in {{}, R[e].lease}
      BY <1>2, <1>4, <1>6, <3>1
    <3>3. CASE h.status \in {"delivering", "ambiguous"}
      <4>1. Delivery!Conclude(e, R[e].version, x.status, Shown(x.lease, now))
        BY <1>2, <1>3, <1>6, <3>2, <3>3, SameGraph DEF Delivery!Conclude
      <4>2. x.status \in Status
        BY <1>1 DEF Request
      <4> QED
        BY <1>1, <1>2, <3>2, <4>1, <4>2, SameGraph DEF Delivery!DeliveryNext
    <3>4. CASE h.status \notin {"delivering", "ambiguous"}
      <4>1. h.status \in Claimable /\ x.status = "dead_lettered"
        BY <1>6, <2>3, <3>4 DEF Follows, Status, Claimable, Terminal
      <4>2. Shown(x.lease, now) = {}
        BY <1>4, <1>6, <3>1, <3>4
      <4>3. Delivery!Discard(e, R[e].version)
        BY <1>2, <1>3, <4>1, <4>2, SameGraph DEF Delivery!Discard
      <4> QED
        BY <1>1, <4>3 DEF Delivery!DeliveryNext
    <3> QED
      BY <3>3, <3>4
  <2> QED
    BY <2>1, <2>2, <2>3
<1> QED
  BY <1>5, <1>6, Continuation

(***************************************************************************)
(* When callers claim through the claim operation only, whatever they do   *)
(* to the store in two transactions per request, with replays and copies,  *)
(* is one compare-and-set at a time on the register of EffectDelivery.     *)
(***************************************************************************)
THEOREM StoreImplementsDelivery ==
  ASSUME ~ClaimsByAppend
  PROVE  Spec => ImplementsDelivery
<1> DEFINE RInv == IInv /\ InFlight /\ Openings
<1>1. Init => RInv
  BY IInvInit DEF Init, InFlight, Openings, NoCall
<1>2. RInv /\ [Next]_vars => RInv'
  BY TypeStep, ProjectionStep, HistoryStep, WellReadStep, InFlightStep, OpeningsStep DEF IInv
<1>3. Init => Delivery!DeliveryInit
  <2> SUFFICES ASSUME Init, NEW e \in Effects
               PROVE  Register(e) = [version |-> 0, status |-> "absent", lease |-> {}]
    BY DEF Delivery!DeliveryInit
  <2>1. head[e].revision = 0 /\ head[e].status = "absent" /\ head[e].lease = {}
    BY DEF Init, NoHead
  <2> QED
    BY <2>1 DEF Register
<1>4. RInv /\ [Next]_vars => [Delivery!DeliveryNext]_[e \in Effects |-> Register(e)]
  <2> SUFFICES ASSUME RInv, [Next]_vars
               PROVE  [Delivery!DeliveryNext]_[e \in Effects |-> Register(e)]
    OBVIOUS
  <2>1. CASE UNCHANGED <<now, head>>
    BY <2>1 DEF Register
  <2>2. CASE Tick
    BY <2>2, TickImplements DEF Delivery!DeliveryNext, IInv
  <2>3. ASSUME UNCHANGED now, NEW p \in Callers, NEW x \in call[p].request, Write(p, x)
        PROVE  Delivery!DeliveryNext
    BY <2>3, WriteImplements
  <2> QED
    BY <2>1, <2>2, <2>3, ClockStep
<1> HIDE DEF RInv
<1>5. Spec => Delivery!DeliverySpec
  BY <1>1, <1>2, <1>3, <1>4, PTL DEF Spec, Delivery!DeliverySpec
<1> QED
  BY <1>5 DEF ImplementsDelivery

--------------------------------------------------------------------------------
(* Due selection *)

\* The evidence of the last revision and what its head shows of its retry.
Shows(r, h) ==
  /\ r.status = "enqueued" => r.lease = {}
  /\ r.status # "enqueued" => ValidEvidence(r)
  /\ h.status = r.status /\ h.lease = r.lease
  /\ h.eligible = IF r.status = "enqueued" THEN {r.at} ELSE UNION {d.eligible : d \in r.retry}

HeadsShow == \A e \in Effects : revisions[e] # <<>> => Shows(Last(e), head[e])

\* No revision follows another as enqueued.
LEMMA EnqueuedIsFirst ==
  ASSUME NEW prev, prev.status \in Status, NEW r, ValidRequest(prev, r)
  PROVE  r.status # "enqueued" /\ ValidEvidence(r)
BY DEF ValidRequest, ValidTransition, Follows, Status, Terminal, Claimable

LEMMA WriteShows ==
  ASSUME IInv, Openings, NEW p \in Callers, NEW x \in call[p].request, Write(p, x)
  PROVE  Shows(x, NextHead(head[x.effect], x))
<1> DEFINE s == revisions[x.effect]
<1>1. x \in Request /\ x.effect \in Effects
  BY RequestInFlight DEF IInv
<1>2. IF Len(s) = 0 THEN x.status = "enqueued" ELSE ValidRequest(s[Len(s)], x)
  BY WriteContinues
<1>3. s \in Seq(Request) /\ Len(s) \in Nat
  BY <1>1 DEF IInv, TypeOK
<1>4. x.previous = Len(s)
  BY <1>1 DEF Write, Unchanged, IInv, HeadProjectsHistory
<1>5. Opening(x)
  BY DEF Openings
<1>6. /\ x.status = "enqueued" => x.lease = {}
      /\ x.status # "enqueued" => ValidEvidence(x)
  <2>1. CASE Len(s) = 0
    BY <1>2, <1>4, <1>5, <2>1 DEF Opening
  <2>2. CASE Len(s) # 0
    <3>1. s[Len(s)] \in Request
      BY <1>3, <2>2
    <3>2. s[Len(s)].status \in Status
      BY <3>1 DEF Request
    <3> HIDE DEF s
    <3> QED
      BY <1>2, <2>2, <3>2, EnqueuedIsFirst
  <2> QED
    BY <2>1, <2>2
<1> QED
  BY <1>6 DEF Shows, NextHead

LEMMA HeadsShowStep ==
  ASSUME IInv, Openings, HeadsShow, [Next]_vars
  PROVE  HeadsShow'
<1>1. CASE UNCHANGED <<revisions, head>>
  BY <1>1 DEF HeadsShow, Last
<1>2. ASSUME NEW p \in Callers, NEW x \in call[p].request, Write(p, x)
      PROVE  HeadsShow'
  <2> SUFFICES ASSUME NEW e \in Effects, revisions'[e] # <<>>
               PROVE  Shows(revisions'[e][Len(revisions'[e])], head'[e])
    BY DEF HeadsShow, Last
  <2>1. CASE e = x.effect
    <3>1. revisions'[e][Len(revisions'[e])] = x /\ head'[e] = NextHead(head[e], x)
      BY <1>2, <2>1, WriteStep DEF IInv
    <3> QED
      BY <1>2, <2>1, <3>1, WriteShows
  <2>2. CASE e # x.effect
    <3>1. revisions'[e] = revisions[e] /\ head'[e] = head[e]
      BY <1>2, <2>2, WriteStep DEF IInv
    <3> QED
      BY <3>1 DEF HeadsShow, Last
  <2> QED
    BY <2>1, <2>2
<1> QED
  BY <1>1, <1>2, StoreStep

\* A revision whose evidence is valid makes a candidate that can be returned.
LEMMA ShownIsValid ==
  ASSUME NEW e \in Effects, Last(e) \in Request, Shows(Last(e), head[e]),
         head[e].status \in Claimable, Last(e).notInvoked = {}
  PROVE  ValidCandidate(e)
<1> DEFINE r == Last(e)
           h == head[e]
<1>1. /\ r \in Request /\ Shows(r, h) /\ h.status \in Claimable /\ r.notInvoked = {}
  OBVIOUS
<1>2. CASE h.status = "enqueued"
  <2>1. h.lease = {} /\ h.eligible = {r.at}
    BY <1>1, <1>2 DEF Shows
  <2> QED
    BY <1>2, <2>1 DEF ValidCandidate
<1>3. CASE h.status = "retry_scheduled"
  <2>1. /\ Required["retry_scheduled"] \subseteq Evidence(r)
        /\ Evidence(r) \subseteq Required["retry_scheduled"] \cup Optional["retry_scheduled"]
        /\ r.status = "retry_scheduled"
    BY <1>1, <1>3 DEF Shows, ValidEvidence
  <2>2. "claim" \notin Evidence(r) /\ "retry" \in Evidence(r)
    BY <2>1 DEF Required, Optional
  <2>3. r.lease = {} /\ r.retry # {}
    BY <1>1, <2>2 DEF Evidence
  <2>4. PICK d \in r.retry : r.retry = {d}
    BY <1>1, <2>3 DEF Request, Option
  <2>5. h.lease = {} /\ h.eligible = d.eligible
    <3>1. UNION {c.eligible : c \in r.retry} = d.eligible
      BY <2>4
    <3> QED
      BY <1>1, <2>1, <2>3, <3>1 DEF Shows
  <2> QED
    BY <1>3, <2>5 DEF ValidCandidate
<1>4. CASE h.status = "claimed"
  <2>1. Required["claimed"] \subseteq Evidence(r)
    BY <1>1, <1>4 DEF Shows, ValidEvidence
  <2>2. "claim" \in Evidence(r)
    BY <2>1 DEF Required
  <2>3. r.lease # {} /\ h.lease = r.lease
    BY <1>1, <2>2 DEF Evidence, Shows
  <2> QED
    BY <1>4, <2>3 DEF ValidCandidate
<1> QED
  BY <1>1, <1>2, <1>3, <1>4 DEF Claimable

(***************************************************************************)
(* What due selection builds from a head is a candidate that its validator *)
(* lets pass, unless the last revision schedules the retry of a call that  *)
(* was not made: one such row makes the selection raise for all effects.   *)
(***************************************************************************)
THEOREM DueAreSelectable == Spec => []DueIsSelectable
<1> DEFINE SInv == IInv /\ Openings /\ HeadsShow
<1>1. Init => SInv
  BY IInvInit DEF Init, Openings, HeadsShow, NoCall
<1>2. SInv /\ [Next]_vars => SInv'
  BY TypeStep, ProjectionStep, HistoryStep, WellReadStep, OpeningsStep, HeadsShowStep DEF IInv
<1>3. SInv => DueIsSelectable
  <2> SUFFICES ASSUME SInv, NEW e \in Effects, Due(head[e], now), Last(e).notInvoked = {}
               PROVE  ValidCandidate(e)
    BY DEF DueIsSelectable
  <2>1. head[e].status \in Claimable
    BY DEF Due, Claimable
  <2>2. revisions[e] # <<>>
    BY <2>1 DEF Openings, NoHead, Claimable
  <2>3. Last(e) \in Request
    BY <2>2, LastType DEF IInv
  <2> QED
    BY <2>1, <2>2, <2>3, ShownIsValid DEF HeadsShow
<1> HIDE DEF SInv
<1> QED
  BY <1>1, <1>2, <1>3, PTL DEF Spec

================================================================================
