------------------------- MODULE OfficeExecution_proofs -------------------------
(***************************************************************************)
(* Proofs about OfficeExecution: its types, and that the agents of a       *)
(* client request key run for one request only, that a stored package      *)
(* agrees with its runs and artifacts, and that stored outcomes come with  *)
(* the audits of their calls.                                              *)
(***************************************************************************)
EXTENDS OfficeExecution, TLAPS

--------------------------------------------------------------------------------
\* Types

\* A request's rows, field by field.
LEMMA WorkFields ==
  ASSUME NEW w \in Work
  PROVE  /\ w.package \in {"none", "running", "needs_review", "failed", "cancelled"}
         /\ w.runs \in [Agents -> {"none", "running", "succeeded", "failed", "cancelled"}]
         /\ w.artifacts \in SUBSET Agents /\ w.audits \in SUBSET Agents
  BY DEF Work

\* What the actions write is a request's rows again.
LEMMA MarkedFields ==
  ASSUME NEW w \in Work, NEW s \in {"running", "failed", "cancelled"}
  PROVE  /\ Marked(w, s) \in Work
         /\ Marked(w, s).package = s
         /\ \A a \in Agents : Marked(w, s).runs[a] = s
         /\ Marked(w, s).artifacts = w.artifacts /\ Marked(w, s).audits = w.audits
  BY DEF Work, AllRuns, Marked

LEMMA AuditedFields ==
  ASSUME TypeOK, NEW r \in Requests
  PROVE  /\ Audited(r) \in Work
         /\ Audited(r).package = session[r].package /\ Audited(r).runs = session[r].runs
         /\ Audited(r).artifacts = session[r].artifacts
         /\ Audited(r).audits = session[r].audits \cup {next[r]}
<1>1. session[r] \in Work /\ next[r] \in Agents
  BY DEF TypeOK
<1> QED
  BY <1>1 DEF Work, Audited

LEMMA DeniedFields ==
  ASSUME NEW w \in Work
  PROVE  LET d == [w EXCEPT !.audits = Agents] IN
         /\ d \in Work /\ d.package = w.package /\ d.runs = w.runs
         /\ d.artifacts = w.artifacts /\ d.audits = Agents
<1> DEFINE d == [w EXCEPT !.audits = Agents]
<1>1. Agents \in SUBSET Agents
  OBVIOUS
<1>2. d \in Work
  BY <1>1 DEF Work
<1>3. d.package = w.package /\ d.runs = w.runs /\ d.artifacts = w.artifacts
  BY DEF Work
<1>4. d.audits = Agents
  BY DEF Work
<1> QED
  BY <1>2, <1>3, <1>4

LEMMA OutcomeFields ==
  ASSUME TypeOK, NEW r \in Requests
  PROVE  /\ Outcome(r) \in Work
         /\ Outcome(r).package = IF TotalFailure(r) THEN "failed" ELSE "needs_review"
         /\ Outcome(r).runs = result[r]
         /\ Outcome(r).artifacts = {a \in Agents : result[r][a] = "succeeded"}
         /\ Outcome(r).audits = session[r].audits
<1> DEFINE p == IF TotalFailure(r) THEN "failed" ELSE "needs_review"
           w == session[r]
           res == result[r]
<1>1. w \in Work /\ res \in [Agents -> {"none", "succeeded", "failed"}]
  BY DEF TypeOK
<1>2. p \in {"failed", "needs_review"}
  OBVIOUS
<1> HIDE DEF p, w, res
<1>3. Outcome(r) = [w EXCEPT !.package = p, !.runs = res,
                             !.artifacts = {a \in Agents : res[a] = "succeeded"}]
  BY DEF Outcome, p, w, res
<1> DEFINE o == [w EXCEPT !.package = p, !.runs = res,
                          !.artifacts = {a \in Agents : res[a] = "succeeded"}]
<1>4. o \in Work
  BY <1>1, <1>2 DEF Work
<1>5. o.package = p
  BY <1>1 DEF Work
<1>6. o.runs = res
  BY <1>1 DEF Work
<1>7. o.artifacts = {a \in Agents : res[a] = "succeeded"}
  BY <1>1 DEF Work
<1>8. o.audits = w.audits
  BY <1>1 DEF Work
<1> QED
  BY <1>3, <1>4, <1>5, <1>6, <1>7, <1>8 DEF p, w, res

LEMMA OneInAgents == 1 \in Agents
  BY OfficeAssumption DEF Agents

LEMMA InitTypes == Init => TypeOK
<1>1. NoWork \in Work
  BY DEF NoWork, Work, AllRuns
<1>2. 0 \in 0..MaxRetries /\ 0 \in 0..MaxFaults
  BY OfficeAssumption
<1> QED
  BY <1>1, <1>2, OneInAgents DEF Init, TypeOK, AllRuns

\* The end of a request changes its place, its answer and its cleanup.
LEMMA LeaveTypes ==
  ASSUME TypeOK, NEW r \in Requests, NEW a, Leave(r, a),
         a \in {"none", "package", "existing", "error", "cancelled"}
  PROVE  /\ pc' \in [Requests -> {"idle", "opening", "lookup", "preparing", "inserting", "saving",
                          "calling", "sending", "backoff", "undoing", "finishing",
                          "recording", "closing", "ended", "crashed"}]
         /\ answer' \in [Requests -> {"none", "package", "existing", "error", "cancelled"}]
         /\ cleanup' \in [Requests -> {"none", "revoking", "releasing", "done"}]
  BY DEF TypeOK, Leave, Goto

LEMMA ScopeTypes ==
  ASSUME TypeOK, NEW r \in Requests,
         \/ Enter(r) \/ OpenScope(r) \/ Revoke(r) \/ Release(r) \/ LookUp(r) \/ Prepare(r)
         \/ SendAgain(r) \/ CancelClosing(r) \/ Close(r)
  PROVE  TypeOK'
<1>1. CASE Enter(r)
  BY <1>1 DEF TypeOK, Enter, Goto, calls, scope
<1>2. CASE OpenScope(r)
  <2>1. CASE Leave(r, "error")
    BY <1>2, <2>1, LeaveTypes DEF TypeOK, OpenScope, calls
  <2>2. CASE Goto(r, "lookup")
    BY <1>2, <2>2, LeaveTypes DEF TypeOK, OpenScope, Goto, calls
  <2> QED
    BY <1>2, <2>1, <2>2 DEF OpenScope
<1>3. CASE Revoke(r)
  BY <1>3 DEF TypeOK, Revoke, calls
<1>4. CASE Release(r)
  BY <1>4 DEF TypeOK, Release, calls
<1>5. CASE LookUp(r) \/ Prepare(r)
  <2>1. UNCHANGED <<calls, session, stored, lease, faults>>
    BY <1>5 DEF LookUp, Prepare
  <2>2. CASE Leave(r, "existing") \/ Leave(r, "error")
    BY <2>1, <2>2, LeaveTypes DEF TypeOK, calls
  <2>3. CASE (Goto(r, "preparing") \/ Goto(r, "inserting")) /\ UNCHANGED <<cleanup, answer>>
    BY <2>1, <2>3 DEF TypeOK, Goto, calls
  <2> QED
    BY <1>5, <2>2, <2>3 DEF LookUp, Prepare
<1>6. CASE SendAgain(r)
  BY <1>6 DEF TypeOK, SendAgain, Goto, calls, scope
<1>7. CASE CancelClosing(r)
  BY <1>7, OfficeAssumption DEF TypeOK, CancelClosing, Fault, calls, scope
<1>8. CASE Close(r)
  BY <1>8 DEF TypeOK, Close, Goto, calls, scope
<1> QED
  BY <1>1, <1>2, <1>3, <1>4, <1>5, <1>6, <1>7, <1>8

LEMMA SessionTyped ==
  ASSUME TypeOK, NEW r \in Requests, NEW w \in Work, session' = [session EXCEPT ![r] = w]
  PROVE  session' \in [Requests -> Work]
  BY DEF TypeOK

LEMMA TransactionTypes ==
  ASSUME TypeOK, NEW r \in Requests,
         \/ Insert(r) \/ CommitRunning(r) \/ CommitUndone(r) \/ CommitOutcome(r)
         \/ Fail(r) \/ Interrupt(r) \/ CancelCall(r) \/ Crash(r)
  PROVE  TypeOK'
<1>1. CASE Insert(r)
  <2>1. UNCHANGED <<calls, stored, lease, faults>>
    BY <1>1 DEF Insert
  <2>2. CASE Leave(r, "error") /\ UNCHANGED session
    BY <2>1, <2>2, LeaveTypes DEF TypeOK, calls
  <2>3. CASE /\ session' = [session EXCEPT ![r] = Marked(session[r], "running")]
             /\ Goto(r, "saving") /\ UNCHANGED <<cleanup, answer>>
    <3>1. session' \in [Requests -> Work]
      BY <2>3, SessionTyped, MarkedFields DEF TypeOK
    <3> QED
      BY <2>1, <2>3, <3>1 DEF TypeOK, Goto, calls
  <2> QED
    BY <1>1, <2>2, <2>3 DEF Insert
<1>2. CASE CommitRunning(r)
  BY <1>2 DEF TypeOK, CommitRunning, Goto, calls, scope
<1>3. CASE CommitUndone(r)
  BY <1>3, LeaveTypes DEF TypeOK, CommitUndone, calls
<1>4. CASE CommitOutcome(r)
  BY <1>4, LeaveTypes DEF TypeOK, CommitOutcome, calls
<1>5. CASE Fail(r)
  <2>1. session' \in [Requests -> Work]
    BY <1>5, SessionTyped, MarkedFields DEF Fail, TypeOK
  <2> QED
    BY <1>5, <2>1 DEF TypeOK, Fail, Goto, calls, scope
<1>6. CASE Interrupt(r)
  <2>1. PICK a \in {"cancelled", "error"} : Leave(r, a)
    BY <1>6 DEF Interrupt
  <2>2. stored' \in [Requests -> Work]
    BY <1>6 DEF Interrupt, MaybeStored, TypeOK
  <2>3. faults' \in 0..MaxFaults
    BY <1>6, OfficeAssumption DEF Interrupt, Fault, TypeOK
  <2> QED
    BY <1>6, <2>1, <2>2, <2>3, LeaveTypes DEF TypeOK, Interrupt, calls
<1>7. CASE CancelCall(r)
  <2>1. session' = [session EXCEPT ![r] = Marked(Audited(r), "cancelled")]
    BY <1>7 DEF CancelCall, CancelCalls
  <2>2. session' \in [Requests -> Work]
    <3>1. Audited(r) \in Work
      BY AuditedFields
    <3>2. Marked(Audited(r), "cancelled") \in Work
      BY <3>1, MarkedFields
    <3> QED
      BY <2>1, <3>2, SessionTyped
  <2> QED
    BY <1>7, <2>2, OfficeAssumption
    DEF TypeOK, CancelCall, CancelCalls, Fault, Goto, calls, scope
<1>8. CASE Crash(r)
  BY <1>8 DEF TypeOK, Crash, MaybeStored, Goto, calls
<1> QED
  BY <1>1, <1>2, <1>3, <1>4, <1>5, <1>6, <1>7, <1>8

LEMMA CallTypes ==
  ASSUME TypeOK, NEW r \in Requests,
         \/ Generate(r) \/ Deny(r) \/ Answered(r) \/ BackOff(r) \/ Finish(r)
  PROVE  TypeOK'
<1>1. CASE Generate(r)
  BY <1>1 DEF TypeOK, Generate, Goto, scope
<1>2. CASE Deny(r)
  <2>1. [session[r] EXCEPT !.audits = Agents] \in Work
    BY DeniedFields DEF TypeOK
  <2>2. session' \in [Requests -> Work]
    BY <1>2, <2>1, SessionTyped DEF Deny
  <2>3. AllRuns("failed") \in [Agents -> {"none", "succeeded", "failed"}]
    BY DEF AllRuns
  <2> QED
    BY <1>2, <2>2, <2>3 DEF TypeOK, Deny, Goto, scope
<1>3. CASE Answered(r)
  <2>1. PICK s \in {"succeeded", "failed"} : Settle(r, s)
    BY <1>3 DEF Answered
  <2>2. session' \in [Requests -> Work]
    BY <2>1, SessionTyped, AuditedFields DEF Settle
  <2>3. result' \in [Requests -> [Agents -> {"none", "succeeded", "failed"}]]
    BY <2>1 DEF Settle, TypeOK
  <2>4. next[r] # AgentCount => next[r] + 1 \in Agents
    BY OfficeAssumption DEF TypeOK, Agents
  <2>5. next' \in [Requests -> Agents]
    BY <2>1, <2>4 DEF Settle, TypeOK
  <2>6. tries' \in [Requests -> 0..MaxRetries]
    BY <2>1, OfficeAssumption DEF Settle, TypeOK
  <2> QED
    BY <1>3, <2>1, <2>2, <2>3, <2>5, <2>6 DEF TypeOK, Answered, Settle, Goto, scope
<1>5. CASE Finish(r)
  <2>1. CASE Leave(r, "error") /\ UNCHANGED session
    BY <1>5, <2>1, LeaveTypes DEF TypeOK, Finish, calls
  <2>2. CASE session' = [session EXCEPT ![r] = Outcome(r)] /\ Goto(r, "recording")
             /\ UNCHANGED <<cleanup, answer>>
    <3>1. session' \in [Requests -> Work]
      BY <2>2, SessionTyped, OutcomeFields
    <3> QED
      BY <1>5, <2>2, <3>1 DEF TypeOK, Finish, Goto, calls
  <2> QED
    BY <1>5, <2>1, <2>2 DEF Finish
<1>4. CASE BackOff(r)
  <2>1. tries[r] + 1 \in 0..MaxRetries
    BY <1>4, OfficeAssumption DEF BackOff, TypeOK
  <2> QED
    BY <1>4, <2>1 DEF TypeOK, BackOff, Goto, scope
<1> QED
  BY <1>1, <1>2, <1>3, <1>4, <1>5

\* The type invariant is inductive by itself.
LEMMA TypesKept == TypeOK /\ [Next]_vars => TypeOK'
<1> SUFFICES ASSUME TypeOK, [Next]_vars PROVE TypeOK'
  OBVIOUS
<1>1. CASE UNCHANGED vars
  BY <1>1 DEF TypeOK, vars, calls, scope
<1>2. CASE Next
  <2>1. PICK r \in Requests :
          \/ Enter(r) \/ Step(r) \/ Revoke(r) \/ Release(r)
          \/ Interrupt(r) \/ CancelCall(r) \/ CancelClosing(r) \/ Crash(r)
    BY <1>2 DEF Next
  <2> QED
    BY <2>1, ScopeTypes, TransactionTypes, CallTypes DEF Step
<1> QED
  BY <1>1, <1>2

(***************************************************************************)
(* The values of the variables stay in their types.                        *)
(***************************************************************************)
THEOREM TypeCorrect == Spec => []TypeOK
<1>1. Spec => []TypeOK
  BY InitTypes, TypesKept, PTL DEF Spec
<1> QED
  BY <1>1

--------------------------------------------------------------------------------
\* The inductive invariant, request by request

Early  == {"idle", "opening", "lookup", "preparing", "inserting"}
Places == Early \cup {"saving", "calling", "sending", "backoff", "undoing", "finishing",
                      "recording", "closing", "ended", "crashed"}

\* How far the rows and the results are at every place of a request.
Progress(r) ==
  /\ pc[r] \in Early \cup {"saving"} =>
       /\ stored[r].package = "none" /\ sent[r] = {} /\ next[r] = 1
       /\ \A a \in Agents : result[r][a] = "none"
  /\ pc[r] \in Early => session[r].package = "none"
  /\ pc[r] = "saving" => session[r].package = "running"
  /\ pc[r] \in {"calling", "sending", "backoff", "finishing"} =>
       stored[r].package = "running" /\ session[r].package = "running"
  /\ pc[r] \in {"calling", "sending", "backoff"} =>
       \A a \in Agents : result[r][a] = "none" <=> next[r] <= a
  /\ pc[r] \in {"finishing", "recording"} => \A a \in Agents : result[r][a] # "none"
  /\ pc[r] = "recording" =>
       /\ stored[r].package = "running"
       /\ session[r].package = IF TotalFailure(r) THEN "failed" ELSE "needs_review"
  /\ pc[r] = "undoing" =>
       /\ stored[r].package = "running"
       /\ session[r].package \in {"failed", "cancelled"}
       /\ session[r].package = "failed" => \E a \in Agents : result[r][a] = "none"

\* The rows that have the audit of every call made for them.
Covers(r, w) ==
  \/ w.package \in {"needs_review", "cancelled"}
  \/ w.package = "failed" /\ \A a \in Agents : result[r][a] # "none"
  => sent[r] \subseteq w.audits

\* Only the call that is under way is not audited yet.
Audits(r) ==
  /\ Covers(r, stored[r])
  /\ pc[r] \in {"undoing", "recording"} => Covers(r, session[r])
  /\ pc[r] \in {"calling", "finishing"} => sent[r] \subseteq session[r].audits
  /\ pc[r] \in {"sending", "backoff"} => sent[r] \subseteq session[r].audits \cup {next[r]}

\* Rows and answers.
Books(r) ==
  /\ Consistent(stored[r]) /\ Consistent(session[r])
  /\ sent[r] # {} => stored[r].package # "none"
  /\ answer[r] = "package" =>
       pc[r] \in {"closing", "ended", "crashed"} /\ stored[r].package = "needs_review"

Local(r) == Progress(r) /\ Audits(r) /\ Books(r)

\* A request has its key from the insert of its package on.
Holds(r) == stored[r].package # "none" \/ session[r].package # "none"

KeysAreHeldOnce ==
  \A r, o \in Requests : r # o /\ SameKey(r, o) => ~Holds(r) \/ ~Holds(o)

OfficeInv ==
  /\ TypeOK
  /\ \A r \in Requests : Local(r)
  /\ KeysAreHeldOnce
  /\ \A r \in Requests : answer[r] = "existing" => KeyTaken(r)

\* A step of r leaves the other requests alone.
Alone(r) ==
  \A o \in Requests \ {r} :
    /\ pc'[o] = pc[o] /\ next'[o] = next[o] /\ result'[o] = result[o] /\ sent'[o] = sent[o]
    /\ session'[o] = session[o] /\ stored'[o] = stored[o] /\ answer'[o] = answer[o]

\* What the others may rely on: a stored package stays, a key is taken only
\* where nobody else holds it, and an existing package exists.
Honest(r) ==
  /\ stored[r].package # "none" => stored'[r].package # "none"
  /\ Holds(r)' => Holds(r) \/ \A o \in Requests \ {r} : SameKey(r, o) => ~Holds(o)
  /\ answer'[r] = "existing" => answer[r] = "existing" \/ KeyTaken(r)

LEMMA InitInvariant == Init => OfficeInv
<1> SUFFICES ASSUME Init PROVE OfficeInv
  OBVIOUS
<1>1. TypeOK
  BY InitTypes
<1>2. \A r \in Requests :
        /\ pc[r] = "idle" /\ next[r] = 1 /\ sent[r] = {} /\ answer[r] = "none"
        /\ stored[r] = NoWork /\ session[r] = NoWork
        /\ \A a \in Agents : result[r][a] = "none"
  BY DEF Init, AllRuns
<1>3. NoWork.package = "none" /\ NoWork.artifacts = {} /\ \A a \in Agents : NoWork.runs[a] = "none"
  BY DEF NoWork, AllRuns
<1>4. Consistent(NoWork)
  BY <1>3 DEF Consistent
<1>5. ASSUME NEW r \in Requests PROVE Local(r)
  <2>1. Progress(r)
    BY <1>2, <1>3 DEF Progress, Early
  <2>2. Audits(r)
    BY <1>2, <1>3 DEF Audits, Covers
  <2>3. Books(r)
    BY <1>2, <1>3, <1>4 DEF Books
  <2> QED
    BY <2>1, <2>2, <2>3 DEF Local
<1>6. KeysAreHeldOnce
  BY <1>2, <1>3 DEF KeysAreHeldOnce, Holds
<1> QED
  BY <1>1, <1>2, <1>5, <1>6 DEF OfficeInv

\* The invariant needs to be shown for the request that moves only.
LEMMA OneMoves ==
  ASSUME OfficeInv, TypeOK', NEW r \in Requests, Alone(r), Honest(r), Local(r)'
  PROVE  OfficeInv'
<1>1. ASSUME NEW o \in Requests \ {r} PROVE Local(o)'
  <2>1. Local(o)
    BY DEF OfficeInv
  <2>2. /\ pc'[o] = pc[o] /\ next'[o] = next[o] /\ result'[o] = result[o]
        /\ sent'[o] = sent[o] /\ session'[o] = session[o] /\ stored'[o] = stored[o]
        /\ answer'[o] = answer[o]
    BY DEF Alone
  <2>3. Progress(o)'
    BY <2>1, <2>2 DEF Local, Progress, TotalFailure
  <2>4. Audits(o)'
    BY <2>1, <2>2 DEF Local, Audits, Covers
  <2>5. Books(o)'
    BY <2>1, <2>2 DEF Local, Books, Consistent
  <2> QED
    BY <2>3, <2>4, <2>5 DEF Local
<1>2. \A o \in Requests \ {r} : Holds(o)' <=> Holds(o)
  BY DEF Alone, Holds
<1>3. KeysAreHeldOnce'
  <2> SUFFICES ASSUME NEW x \in Requests, NEW y \in Requests, x # y, SameKey(x, y)
               PROVE  ~Holds(x)' \/ ~Holds(y)'
    BY DEF KeysAreHeldOnce, SameKey
  <2>1. ~Holds(x) \/ ~Holds(y)
    BY DEF OfficeInv, KeysAreHeldOnce
  <2>2. SameKey(y, x)
    BY DEF SameKey
  <2>3. CASE x # r /\ y # r
    BY <1>2, <2>1, <2>3
  <2>4. CASE x = r
    BY <1>2, <2>1, <2>4 DEF Honest
  <2>5. CASE y = r
    BY <1>2, <2>1, <2>2, <2>5 DEF Honest
  <2> QED
    BY <2>3, <2>4, <2>5
<1>4. ASSUME NEW o \in Requests, answer'[o] = "existing" PROVE KeyTaken(o)'
  <2>1. KeyTaken(o)
    BY <1>4 DEF OfficeInv, Alone, Honest
  <2>2. PICK x \in Requests \ {o} : SameKey(o, x) /\ stored[x].package # "none"
    BY <2>1 DEF KeyTaken
  <2>3. stored'[x].package # "none"
    BY <2>2 DEF Alone, Honest
  <2> QED
    BY <2>2, <2>3 DEF KeyTaken, SameKey
<1> QED
  BY <1>1, <1>3, <1>4 DEF OfficeInv

--------------------------------------------------------------------------------
\* Steps that touch neither rows nor calls

\* Where such a step may lead.
QuietMove(from, to) ==
  \/ to = from \/ to = "closing"
  \/ from \in Early /\ to \in Early
  \/ from \in {"sending", "backoff"} /\ to \in {"sending", "backoff"}

LEMMA Quiet ==
  ASSUME OfficeInv, TypeOK', NEW r \in Requests,
         UNCHANGED <<next, result, sent, session, stored>>,
         NEW to, pc' = [pc EXCEPT ![r] = to], QuietMove(pc[r], to),
         NEW a, answer' = [answer EXCEPT ![r] = a],
         a = "package" => answer[r] = "package" /\ to \in {pc[r], "closing"},
         a = "existing" => answer[r] = "existing" \/ KeyTaken(r)
  PROVE  OfficeInv'
<1>1. Local(r)
  BY DEF OfficeInv
<1>2. pc'[r] = to /\ answer'[r] = a
  BY DEF OfficeInv, TypeOK
<1>3. Progress(r)'
  BY <1>1, <1>2 DEF Local, Progress, QuietMove, Early, TotalFailure
<1>4. Audits(r)'
  BY <1>1, <1>2 DEF Local, Audits, Covers, QuietMove, Early
<1>5. Books(r)'
  BY <1>1, <1>2 DEF Local, Books, Consistent
<1>6. Alone(r)
  BY DEF Alone, OfficeInv, TypeOK
<1>7. Honest(r)
  BY <1>2 DEF Honest, Holds
<1> QED
  BY <1>3, <1>4, <1>5, <1>6, <1>7, OneMoves DEF Local

\* A request that leaves with its rows as they are.
LEMMA Leaving ==
  ASSUME OfficeInv, TypeOK', NEW r \in Requests, NEW a, Leave(r, a),
         UNCHANGED <<next, result, sent, session, stored>>,
         a # "package", a = "existing" => KeyTaken(r)
  PROVE  OfficeInv'
<1>1. pc' = [pc EXCEPT ![r] = "closing"] /\ answer' = [answer EXCEPT ![r] = a]
  BY DEF Leave, Goto
<1>2. QuietMove(pc[r], "closing")
  BY DEF QuietMove
<1> QED
  BY <1>1, <1>2, Quiet

\* A request that goes on with the same answer.
LEMMA GoingOn ==
  ASSUME OfficeInv, TypeOK', NEW r \in Requests, NEW to, Goto(r, to),
         UNCHANGED <<next, result, sent, session, stored, answer>>,
         to # pc[r],
         \/ pc[r] \in Early /\ to \in Early
         \/ pc[r] \in {"sending", "backoff"} /\ to \in {"sending", "backoff"}
  PROVE  OfficeInv'
<1>1. pc' = [pc EXCEPT ![r] = to] /\ QuietMove(pc[r], to)
  BY DEF Goto, QuietMove
<1>2. answer' = [answer EXCEPT ![r] = answer[r]]
  BY DEF OfficeInv, TypeOK
<1>3. answer[r] # "package"
  BY DEF OfficeInv, Local, Books, Early
<1> QED
  BY <1>1, <1>2, <1>3, Quiet

\* A step of the task that releases the scope, or one that waits for it.
LEMMA Waiting ==
  ASSUME OfficeInv, TypeOK', NEW r \in Requests, UNCHANGED pc,
         UNCHANGED <<next, result, sent, session, stored>>,
         NEW a, answer' = [answer EXCEPT ![r] = a],
         a = answer[r] \/ a \in {"error", "cancelled"}
  PROVE  OfficeInv'
<1>1. pc' = [pc EXCEPT ![r] = pc[r]]
  BY DEF OfficeInv, TypeOK
<1>2. QuietMove(pc[r], pc[r])
  BY DEF QuietMove
<1> QED
  BY <1>1, <1>2, Quiet

LEMMA QuietSteps ==
  ASSUME OfficeInv, TypeOK', NEW r \in Requests,
         \/ Enter(r) \/ OpenScope(r) \/ Revoke(r) \/ Release(r) \/ LookUp(r) \/ Prepare(r)
         \/ SendAgain(r) \/ BackOff(r) \/ CancelClosing(r)
  PROVE  OfficeInv'
<1>0. answer = [answer EXCEPT ![r] = answer[r]]
  BY DEF OfficeInv, TypeOK
<1>1. CASE Enter(r)
  BY <1>1, GoingOn DEF Enter, At, calls, Early
<1>2. CASE OpenScope(r)
  BY <1>2, GoingOn, Leaving DEF OpenScope, At, calls, Early
<1>3. CASE Revoke(r)
  BY <1>0, <1>3, Waiting DEF Revoke, calls
<1>4. CASE Release(r)
  BY <1>0, <1>4, Waiting DEF Release, calls
<1>5. CASE LookUp(r)
  BY <1>5, GoingOn, Leaving DEF LookUp, At, calls, Early
<1>6. CASE Prepare(r)
  BY <1>6, GoingOn, Leaving DEF Prepare, At, calls, Early
<1>7. CASE SendAgain(r)
  BY <1>7, GoingOn DEF SendAgain, At, calls
<1>8. CASE BackOff(r)
  BY <1>8, GoingOn DEF BackOff, At
<1>9. CASE CancelClosing(r)
  BY <1>9, Waiting DEF CancelClosing, calls, scope
<1> QED
  BY <1>1, <1>2, <1>3, <1>4, <1>5, <1>6, <1>7, <1>8, <1>9

--------------------------------------------------------------------------------
\* Steps that commit, roll back or lose a session

\* A request that stores its session or not, and is over.
LEMMA Ending ==
  ASSUME OfficeInv, TypeOK', NEW r \in Requests, UNCHANGED <<next, result, sent>>,
         NEW to \in {"closing", "ended", "crashed"}, pc' = [pc EXCEPT ![r] = to],
         MaybeStored(r),
         UNCHANGED session \/ session' = [session EXCEPT ![r] = stored'[r]],
         NEW a, answer' = [answer EXCEPT ![r] = a],
         a = "package" => answer[r] = "package" \/ stored'[r].package = "needs_review",
         a = "existing" => answer[r] = "existing" \/ KeyTaken(r)
  PROVE  OfficeInv'
<1>1. Local(r) /\ TypeOK
  BY DEF OfficeInv
<1>2. pc'[r] = to /\ answer'[r] = a
  BY <1>1 DEF TypeOK
<1>3. \/ stored'[r] = stored[r]
      \/ Committing(r) /\ stored'[r] = session[r]
  BY <1>1 DEF MaybeStored, TypeOK
<1>4. session'[r] = session[r] \/ session'[r] = stored'[r]
  BY <1>1 DEF TypeOK
<1>5. Progress(r)'
  BY <1>2 DEF Progress, Early
<1>6. Covers(r, stored[r]) /\ (Committing(r) => Covers(r, session[r]))
  BY <1>1 DEF Local, Audits, Progress, Committing, Covers
<1>7. Audits(r)'
  BY <1>2, <1>3, <1>6 DEF Audits, Covers
<1>8. Committing(r) => stored[r].package # "needs_review" /\ session[r].package # "none"
  BY <1>1 DEF Local, Progress, Committing
<1>9. Books(r)'
  <2>1. Consistent(stored'[r]) /\ Consistent(session'[r])
    BY <1>1, <1>3, <1>4 DEF Local, Books
  <2>2. sent'[r] # {} => stored'[r].package # "none"
    BY <1>1, <1>3, <1>8 DEF Local, Books
  <2>3. a = "package" => stored'[r].package = "needs_review"
    <3>1. answer[r] = "package" => ~Committing(r) /\ stored[r].package = "needs_review"
      BY <1>1 DEF Local, Books, Committing
    <3> QED
      BY <1>3, <3>1
  <2> QED
    BY <1>2, <2>1, <2>2, <2>3 DEF Books, Consistent
<1>10. Alone(r)
  BY <1>1 DEF Alone, MaybeStored, TypeOK
<1>11. Honest(r)
  BY <1>2, <1>3, <1>4, <1>8 DEF Honest, Holds
<1> QED
  BY <1>5, <1>7, <1>9, <1>10, <1>11, OneMoves DEF Local

LEMMA EndingSteps ==
  ASSUME OfficeInv, TypeOK', NEW r \in Requests,
         \/ CommitUndone(r) \/ CommitOutcome(r) \/ Close(r) \/ Interrupt(r) \/ Crash(r)
  PROVE  OfficeInv'
<1>1. Local(r) /\ TypeOK
  BY DEF OfficeInv
<1>2. answer = [answer EXCEPT ![r] = answer[r]]
  BY <1>1 DEF TypeOK
<1>3. CASE CommitUndone(r)
  <2>1. MaybeStored(r)
    BY <1>3 DEF CommitUndone, MaybeStored, Committing, At
  <2>2. pc' = [pc EXCEPT ![r] = "closing"] /\ answer' = [answer EXCEPT ![r] = answer[r]]
    BY <1>3 DEF CommitUndone, Leave, Goto
  <2> QED
    BY <1>3, <2>1, <2>2, Ending DEF CommitUndone, calls
<1>4. CASE CommitOutcome(r)
  <2> DEFINE a == IF TotalFailure(r) THEN "error" ELSE "package"
  <2>1. MaybeStored(r)
    BY <1>4 DEF CommitOutcome, MaybeStored, Committing, At
  <2>2. pc' = [pc EXCEPT ![r] = "closing"] /\ answer' = [answer EXCEPT ![r] = a]
    BY <1>4 DEF CommitOutcome, Leave, Goto
  <2>3. stored'[r] = session[r]
    BY <1>1, <1>4 DEF CommitOutcome, TypeOK
  <2>4. a = "package" => stored'[r].package = "needs_review"
    BY <1>1, <1>4, <2>3 DEF Local, Progress, CommitOutcome, At
  <2>5. a # "existing"
    OBVIOUS
  <2> HIDE DEF a
  <2> QED
    BY <1>4, <2>1, <2>2, <2>4, <2>5, Ending DEF CommitOutcome, calls
<1>5. CASE Close(r)
  <2>1. MaybeStored(r) /\ session' = [session EXCEPT ![r] = stored'[r]]
    BY <1>5 DEF Close, MaybeStored
  <2> QED
    BY <1>2, <1>5, <2>1, Ending DEF Close, Goto, calls
<1>6. CASE Interrupt(r)
  <2>1. PICK a \in {"cancelled", "error"} : Leave(r, a)
    BY <1>6 DEF Interrupt
  <2>2. pc' = [pc EXCEPT ![r] = "closing"] /\ answer' = [answer EXCEPT ![r] = a]
    BY <2>1 DEF Leave, Goto
  <2> QED
    BY <1>6, <2>2, Ending DEF Interrupt, calls
<1>7. CASE Crash(r)
  BY <1>2, <1>7, Ending DEF Crash, Goto, calls
<1> QED
  BY <1>3, <1>4, <1>5, <1>6, <1>7

\* The package and its runs are in the session, and hold the key.
LEMMA InsertStep ==
  ASSUME OfficeInv, TypeOK', NEW r \in Requests, Insert(r)
  PROVE  OfficeInv'
<1>1. Local(r) /\ TypeOK
  BY DEF OfficeInv
<1>2. CASE KeyTaken(r)
  BY <1>2, Leaving DEF Insert, calls
<1>3. CASE ~KeyTaken(r)
  <2>1. /\ session' = [session EXCEPT ![r] = Marked(session[r], "running")]
        /\ Goto(r, "saving") /\ UNCHANGED <<calls, stored, answer>> /\ pc[r] = "inserting"
    BY <1>3 DEF Insert, At
  <2>2. /\ session'[r] = Marked(session[r], "running") /\ pc'[r] = "saving"
        /\ session[r] \in Work
    BY <1>1, <2>1 DEF TypeOK, Goto
  <2>3. /\ session'[r].package = "running" /\ session'[r].artifacts = session[r].artifacts
        /\ \A a \in Agents : session'[r].runs[a] = "running"
    BY <2>2, MarkedFields
  <2>4. session[r].package = "none"
    BY <1>1, <2>1 DEF Local, Progress, Early
  <2>5. session[r].artifacts = {}
    BY <1>1, <2>4 DEF Local, Books, Consistent
  <2>6. Consistent(session'[r])
    BY <2>3, <2>5 DEF Consistent
  <2>7. Progress(r)'
    BY <1>1, <2>1, <2>2, <2>3 DEF Local, Progress, Early, calls
  <2>8. Audits(r)'
    BY <1>1, <2>1, <2>2 DEF Local, Audits, Covers, calls
  <2>9. Books(r)'
    BY <1>1, <2>1, <2>2, <2>6 DEF Local, Books, Consistent, calls
  <2>10. Alone(r)
    BY <1>1, <2>1 DEF Alone, TypeOK, Goto, calls
  <2>11. \A o \in Requests \ {r} : SameKey(r, o) => ~Holds(o)
    BY <1>3 DEF Insert, KeyWaits, KeyTaken, Pending, Holds
  <2>12. Honest(r)
    BY <2>1, <2>11 DEF Honest
  <2> QED
    BY <2>7, <2>8, <2>9, <2>10, <2>12, OneMoves DEF Local
<1> QED
  BY <1>2, <1>3

LEMMA CommitRunningStep ==
  ASSUME OfficeInv, TypeOK', NEW r \in Requests, CommitRunning(r)
  PROVE  OfficeInv'
<1>1. Local(r) /\ TypeOK
  BY DEF OfficeInv
<1>2. /\ pc[r] = "saving" /\ pc'[r] = "calling" /\ stored'[r] = session[r]
      /\ UNCHANGED <<next, result, sent, session, answer>>
  BY <1>1 DEF CommitRunning, At, Goto, TypeOK, calls
<1>3. /\ session[r].package = "running" /\ sent[r] = {} /\ next[r] = 1
      /\ stored[r].package = "none" /\ \A a \in Agents : result[r][a] = "none" /\ 1 <= a
  BY <1>1, <1>2, OfficeAssumption DEF Local, Progress, Agents
<1>4. Progress(r)'
  BY <1>2, <1>3 DEF Progress, Early
<1>5. Audits(r)'
  BY <1>2, <1>3 DEF Audits, Covers
<1>6. Books(r)'
  BY <1>1, <1>2, <1>3 DEF Local, Books, Consistent
<1>7. Alone(r)
  BY <1>1 DEF CommitRunning, Alone, Goto, TypeOK, calls
<1>8. Honest(r)
  BY <1>2, <1>3 DEF Honest, Holds
<1> QED
  BY <1>4, <1>5, <1>6, <1>7, <1>8, OneMoves DEF Local

--------------------------------------------------------------------------------
\* Steps of the agents

LEMMA GenerateStep ==
  ASSUME OfficeInv, TypeOK', NEW r \in Requests, Generate(r)
  PROVE  OfficeInv'
<1>1. Local(r) /\ TypeOK
  BY DEF OfficeInv
<1>2. /\ pc[r] = "calling" /\ pc'[r] = "sending" /\ sent'[r] = sent[r] \cup {next[r]}
      /\ UNCHANGED <<next, result, session, stored, answer>>
  BY <1>1 DEF Generate, At, Goto, TypeOK, scope
<1>3. Progress(r)'
  BY <1>1, <1>2 DEF Local, Progress, Early
<1>4. Audits(r)'
  BY <1>1, <1>2 DEF Local, Progress, Audits, Covers
<1>5. Books(r)'
  BY <1>1, <1>2 DEF Local, Progress, Books, Consistent
<1>6. Alone(r)
  BY <1>1 DEF Generate, Alone, Goto, TypeOK, scope
<1>7. Honest(r)
  BY <1>2 DEF Honest, Holds
<1> QED
  BY <1>3, <1>4, <1>5, <1>6, <1>7, OneMoves DEF Local

\* A denial of the data of the task is the result of every agent.
LEMMA DenyStep ==
  ASSUME OfficeInv, TypeOK', NEW r \in Requests, Deny(r)
  PROVE  OfficeInv'
<1>1. Local(r) /\ TypeOK
  BY DEF OfficeInv
<1>2. /\ pc[r] = "calling" /\ pc'[r] = "finishing"
      /\ session'[r] = [session[r] EXCEPT !.audits = Agents] /\ session[r] \in Work
      /\ \A a \in Agents : result'[r][a] = "failed"
      /\ UNCHANGED <<next, sent, stored, answer>>
  BY <1>1 DEF Deny, At, Goto, TypeOK, AllRuns, scope
<1>3. /\ session'[r].package = session[r].package /\ session'[r].runs = session[r].runs
      /\ session'[r].artifacts = session[r].artifacts /\ session'[r].audits = Agents
  BY <1>2, DeniedFields
<1>4. stored[r].package = "running" /\ session[r].package = "running"
  BY <1>1, <1>2 DEF Local, Progress
<1>5. Progress(r)'
  BY <1>2, <1>3, <1>4 DEF Progress, Early
<1>6. sent[r] \subseteq Agents
  BY <1>1 DEF TypeOK
<1>7. Audits(r)'
  BY <1>2, <1>3, <1>4, <1>6 DEF Audits, Covers
<1>8. Books(r)'
  BY <1>1, <1>2, <1>3 DEF Local, Books, Consistent
<1>9. Alone(r)
  BY <1>1 DEF Deny, Alone, Goto, TypeOK, scope
<1>10. Honest(r)
  BY <1>2, <1>3 DEF Honest, Holds
<1> QED
  BY <1>5, <1>7, <1>8, <1>9, <1>10, OneMoves DEF Local

\* The agent has its result, and its call its audit.
LEMMA SettleStep ==
  ASSUME OfficeInv, TypeOK', NEW r \in Requests, Answered(r)
  PROVE  OfficeInv'
<1>1. Local(r) /\ TypeOK
  BY DEF OfficeInv
<1>2. PICK s \in {"succeeded", "failed"} : Settle(r, s)
  BY DEF Answered
<1>3. /\ pc[r] \in {"sending", "backoff"} /\ UNCHANGED <<sent, stored, answer>>
      /\ session'[r] = Audited(r)
      /\ \A a \in Agents : result'[r][a] = IF a = next[r] THEN s ELSE result[r][a]
  BY <1>1, <1>2 DEF Answered, Settle, TypeOK, scope
<1>4. \/ next[r] = AgentCount /\ pc'[r] = "finishing" /\ next' = next
      \/ next[r] # AgentCount /\ pc'[r] = "calling" /\ next'[r] = next[r] + 1
  BY <1>1, <1>2 DEF Settle, Goto, TypeOK
<1>5. /\ session'[r].package = session[r].package /\ session'[r].runs = session[r].runs
      /\ session'[r].artifacts = session[r].artifacts
      /\ session'[r].audits = session[r].audits \cup {next[r]}
  BY <1>1, <1>3, AuditedFields
<1>6. /\ stored[r].package = "running" /\ session[r].package = "running"
      /\ \A a \in Agents : result[r][a] = "none" <=> next[r] <= a
      /\ sent[r] \subseteq session[r].audits \cup {next[r]}
  BY <1>1, <1>3 DEF Local, Progress, Audits
<1>7. pc'[r] = "calling" => \A a \in Agents : result'[r][a] = "none" <=> next'[r] <= a
  <2> SUFFICES ASSUME pc'[r] = "calling", NEW a \in Agents
               PROVE  result'[r][a] = "none" <=> next'[r] <= a
    OBVIOUS
  <2>1. next'[r] = next[r] + 1 /\ next[r] \in Nat /\ a \in Nat
    BY <1>1, <1>4 DEF TypeOK, Agents
  <2>2. next'[r] <= a <=> next[r] <= a /\ a # next[r]
    BY <2>1
  <2> QED
    BY <1>3, <1>6, <2>2
<1>8. pc'[r] = "finishing" => \A a \in Agents : result'[r][a] # "none"
  <2> SUFFICES ASSUME pc'[r] = "finishing", NEW a \in Agents PROVE result'[r][a] # "none"
    OBVIOUS
  <2>1. next[r] = AgentCount /\ a \in 1..AgentCount
    BY <1>4 DEF Agents
  <2>2. next[r] <= a => a = next[r]
    BY <2>1, OfficeAssumption
  <2> QED
    BY <1>3, <1>6, <2>2
<1>9. Progress(r)'
  BY <1>3, <1>4, <1>5, <1>6, <1>7, <1>8 DEF Progress, Early
<1>10. Audits(r)'
  BY <1>3, <1>4, <1>5, <1>6 DEF Audits, Covers
<1>11. Books(r)'
  BY <1>1, <1>3, <1>5 DEF Local, Books, Consistent
<1>12. Alone(r)
  BY <1>1, <1>2 DEF Answered, Settle, Alone, Goto, TypeOK, scope
<1>13. Honest(r)
  BY <1>3, <1>5 DEF Honest, Holds
<1> QED
  BY <1>9, <1>10, <1>11, <1>12, <1>13, OneMoves DEF Local

\* The whole of a request's work fails, or is cancelled in a call.
LEMMA FailStep ==
  ASSUME OfficeInv, TypeOK', NEW r \in Requests, Fail(r)
  PROVE  OfficeInv'
<1>1. Local(r) /\ TypeOK
  BY DEF OfficeInv
<1>2. /\ pc[r] \in {"calling", "sending"} /\ pc'[r] = "undoing" /\ answer'[r] = "error"
      /\ session'[r] = Marked(stored[r], "failed") /\ stored[r] \in Work
      /\ UNCHANGED <<next, result, sent, stored>>
  BY <1>1 DEF Fail, Goto, TypeOK, calls
<1>3. /\ session'[r].package = "failed" /\ session'[r].artifacts = stored[r].artifacts
      /\ \A a \in Agents : session'[r].runs[a] = "failed"
  BY <1>2, MarkedFields
<1>4. stored[r].package = "running" /\ result[r][next[r]] = "none" /\ next[r] \in Agents
  BY <1>1, <1>2 DEF Local, Progress, TypeOK, Agents
<1>5. stored[r].artifacts = {}
  BY <1>1, <1>4 DEF Local, Books, Consistent
<1>6. Progress(r)'
  BY <1>2, <1>3, <1>4 DEF Progress, Early
<1>7. Audits(r)'
  BY <1>2, <1>3, <1>4 DEF Audits, Covers
<1>8. Consistent(session'[r])
  BY <1>3, <1>5 DEF Consistent
<1>9. Books(r)'
  BY <1>1, <1>2, <1>8 DEF Local, Books, Consistent
<1>10. Alone(r)
  BY <1>1 DEF Fail, Alone, Goto, TypeOK, calls
<1>11. Honest(r)
  BY <1>2, <1>4 DEF Honest, Holds
<1> QED
  BY <1>6, <1>7, <1>9, <1>10, <1>11, OneMoves DEF Local

LEMMA CancelCallStep ==
  ASSUME OfficeInv, TypeOK', NEW r \in Requests, CancelCall(r)
  PROVE  OfficeInv'
<1>1. Local(r) /\ TypeOK
  BY DEF OfficeInv
<1>2. /\ pc[r] \in {"sending", "backoff"} /\ pc'[r] = "undoing" /\ answer'[r] = "cancelled"
      /\ session'[r] = Marked(Audited(r), "cancelled")
      /\ UNCHANGED <<next, result, sent, stored>>
  BY <1>1 DEF CancelCall, CancelCalls, Goto, TypeOK, calls
<1>3. /\ Audited(r) \in Work /\ Audited(r).artifacts = session[r].artifacts
      /\ Audited(r).audits = session[r].audits \cup {next[r]}
  BY <1>1, AuditedFields
<1>4. /\ session'[r].package = "cancelled" /\ session'[r].artifacts = session[r].artifacts
      /\ session'[r].audits = session[r].audits \cup {next[r]}
      /\ \A a \in Agents : session'[r].runs[a] = "cancelled"
  BY <1>2, <1>3, MarkedFields
<1>5. /\ stored[r].package = "running" /\ session[r].package = "running"
      /\ sent[r] \subseteq session[r].audits \cup {next[r]}
  BY <1>1, <1>2 DEF Local, Progress, Audits
<1>6. session[r].artifacts = {}
  BY <1>1, <1>5 DEF Local, Books, Consistent
<1>7. Progress(r)'
  BY <1>2, <1>4, <1>5 DEF Progress, Early
<1>8. Audits(r)'
  BY <1>2, <1>4, <1>5 DEF Audits, Covers
<1>9. Consistent(session'[r])
  BY <1>4, <1>6 DEF Consistent
<1>10. Books(r)'
  BY <1>1, <1>2, <1>9 DEF Local, Books, Consistent
<1>11. Alone(r)
  BY <1>1 DEF CancelCall, CancelCalls, Alone, Goto, TypeOK, calls
<1>12. Honest(r)
  BY <1>2, <1>5 DEF Honest, Holds
<1> QED
  BY <1>7, <1>8, <1>10, <1>11, <1>12, OneMoves DEF Local

\* The outcome agrees with the results, or the request leaves without one.
LEMMA FinishStep ==
  ASSUME OfficeInv, TypeOK', NEW r \in Requests, Finish(r)
  PROVE  OfficeInv'
<1>1. Local(r) /\ TypeOK
  BY DEF OfficeInv
<1>2. CASE Leave(r, "error") /\ UNCHANGED session
  BY <1>2, Leaving DEF Finish, calls
<1>3. CASE session' = [session EXCEPT ![r] = Outcome(r)] /\ Goto(r, "recording")
           /\ UNCHANGED answer
  <2>1. /\ pc[r] = "finishing" /\ pc'[r] = "recording" /\ session'[r] = Outcome(r)
        /\ UNCHANGED <<next, result, sent, stored, answer>>
    BY <1>1, <1>3 DEF Finish, At, Goto, TypeOK, calls
  <2>2. /\ session'[r].package = IF TotalFailure(r) THEN "failed" ELSE "needs_review"
        /\ session'[r].runs = result[r]
        /\ session'[r].artifacts = {a \in Agents : result[r][a] = "succeeded"}
        /\ session'[r].audits = session[r].audits
    BY <1>1, <2>1, OutcomeFields
  <2>3. /\ stored[r].package = "running" /\ sent[r] \subseteq session[r].audits
        /\ \A a \in Agents : result[r][a] \in {"succeeded", "failed"}
    BY <1>1, <2>1 DEF Local, Progress, Audits, TypeOK
  <2>4. Consistent(session'[r])
    <3>1. TotalFailure(r) <=> session'[r].artifacts = {}
      BY <2>2, <2>3 DEF TotalFailure
    <3> QED
      BY <2>2, <2>3, <3>1 DEF Consistent
  <2>5. Progress(r)'
    BY <2>1, <2>2, <2>3 DEF Progress, Early, TotalFailure
  <2>6. Audits(r)'
    BY <2>1, <2>2, <2>3 DEF Audits, Covers
  <2>7. Books(r)'
    BY <1>1, <2>1, <2>4 DEF Local, Books, Consistent
  <2>8. Alone(r)
    BY <1>1, <1>3 DEF Finish, Alone, Goto, TypeOK, calls
  <2>9. Honest(r)
    BY <2>1, <2>3 DEF Honest, Holds
  <2> QED
    BY <2>5, <2>6, <2>7, <2>8, <2>9, OneMoves DEF Local
<1> QED
  BY <1>2, <1>3 DEF Finish

--------------------------------------------------------------------------------
\* Theorems

LEMMA InvariantKept == OfficeInv /\ [Next]_vars => OfficeInv'
<1> SUFFICES ASSUME OfficeInv, [Next]_vars PROVE OfficeInv'
  OBVIOUS
<1>1. TypeOK'
  BY TypesKept DEF OfficeInv
<1>2. CASE UNCHANGED vars
  BY <1>2 DEF OfficeInv, TypeOK, Local, Progress, Audits, Books, Covers, Consistent, TotalFailure,
              KeysAreHeldOnce, Holds, KeyTaken, vars, calls, scope
<1>3. CASE Next
  <2>1. PICK r \in Requests :
          \/ Enter(r) \/ Step(r) \/ Revoke(r) \/ Release(r)
          \/ Interrupt(r) \/ CancelCall(r) \/ CancelClosing(r) \/ Crash(r)
    BY <1>3 DEF Next
  <2>2. CASE \/ Enter(r) \/ Revoke(r) \/ Release(r) \/ CancelClosing(r)
             \/ Interrupt(r) \/ Crash(r) \/ CancelCall(r)
    BY <1>1, <2>2, QuietSteps, EndingSteps, CancelCallStep
  <2>3. CASE Step(r)
    BY <1>1, <2>3, QuietSteps, EndingSteps, InsertStep, CommitRunningStep, GenerateStep,
       DenyStep, SettleStep, FailStep, FinishStep DEF Step
  <2> QED
    BY <2>1, <2>2, <2>3
<1> QED
  BY <1>2, <1>3

LEMMA Invariance == Spec => []OfficeInv
  BY InitInvariant, InvariantKept, PTL DEF Spec

(***************************************************************************)
(* However many requests carry a client key, and in whatever order they    *)
(* run, fail and crash, the provider is called for one of them only.       *)
(***************************************************************************)
THEOREM AgentsRunOnce == Spec => []AgentsRunOncePerKey
<1>1. OfficeInv => AgentsRunOncePerKey
  BY DEF OfficeInv, KeysAreHeldOnce, Holds, Local, Books, AgentsRunOncePerKey
<1> QED
  BY <1>1, Invariance, PTL

(***************************************************************************)
(* A stored package always agrees with its runs and artifacts, and what a  *)
(* caller was given is stored.                                             *)
(***************************************************************************)
THEOREM PackagesAgree == Spec => []PackageAgreesWithRuns
<1>1. OfficeInv => PackageAgreesWithRuns
  BY DEF OfficeInv, Local, Books, PackageAgreesWithRuns
<1> QED
  BY <1>1, Invariance, PTL

(***************************************************************************)
(* A stored outcome comes with the audit of every call made for it.        *)
(***************************************************************************)
THEOREM AuditsCover == Spec => []AuditsCoverCalls
<1>1. OfficeInv => AuditsCoverCalls
  BY DEF OfficeInv, Local, Audits, Covers, AuditsCoverCalls
<1> QED
  BY <1>1, Invariance, PTL

================================================================================
