---------------------------- MODULE OfficeExecution ----------------------------
(***************************************************************************)
(* Work-package requests of the AI Office: one request opens a provider    *)
(* scope with a credential lease, stores its package and runs as running,  *)
(* lets the agents of its route call the provider one after the other,     *)
(* stores what came of it in a second transaction, and closes the scope.   *)
(* Requests run in tasks of an event loop, or in other processes, and meet *)
(* in the database, where a client request key is unique.                  *)
(*                                                                         *)
(* A step ends where the code awaits, which is where a request can be      *)
(* cancelled, lose its database or its process.  The task record has the   *)
(* status of its package and is left out; so is the first transaction's    *)
(* task row, which nothing reads.                                          *)
(***************************************************************************)
EXTENDS Naturals, FiniteSets

CONSTANTS Requests,
          Keys,        \* client request ids, within their organization
          KeyOf,       \* request -> the set of its key, empty without one
          AgentCount,  \* the length of the package's route
          MaxRetries,
          MaxFaults    \* bound: cancellations and database failures

ASSUME OfficeAssumption ==
  /\ KeyOf \in [Requests -> {{}} \cup {{k} : k \in Keys}]
  /\ AgentCount \in Nat \ {0}
  /\ MaxRetries \in Nat /\ MaxFaults \in Nat

VARIABLES pc,       \* where each request is
          next,     \* the agent that works
          tries,    \* retries of its call
          result,   \* agent -> its result
          sent,     \* agents whose call was transmitted
          session,  \* what the request's database session sees
          stored,   \* what is committed
          lease,    \* the credential lease of the scope
          cleanup,  \* the task that releases the scope
          answer,   \* what the caller is told
          faults

calls  == <<next, tries, result, sent>>
scope  == <<lease, cleanup>>
vars   == <<pc, calls, session, stored, scope, answer, faults>>

Agents == 1..AgentCount

\* The rows of one request: its package, the run of each agent, the agents
\* that have an artifact, and those whose call was audited.
Work == [package : {"none", "running", "needs_review", "failed", "cancelled"},
         runs : [Agents -> {"none", "running", "succeeded", "failed", "cancelled"}],
         artifacts : SUBSET Agents,
         audits : SUBSET Agents]

AllRuns(s) == [a \in Agents |-> s]
NoWork     == [package |-> "none", runs |-> AllRuns("none"), artifacts |-> {}, audits |-> {}]

\* The package and every run of it, in one status.
Marked(w, s) == [w EXCEPT !.package = s, !.runs = AllRuns(s)]

TypeOK ==
  /\ pc \in [Requests -> {"idle", "opening", "lookup", "preparing", "inserting", "saving",
                          "calling", "sending", "backoff", "undoing", "finishing",
                          "recording", "closing", "ended", "crashed"}]
  /\ next \in [Requests -> Agents]
  /\ tries \in [Requests -> 0..MaxRetries]
  /\ result \in [Requests -> [Agents -> {"none", "succeeded", "failed"}]]
  /\ sent \in [Requests -> SUBSET Agents]
  /\ session \in [Requests -> Work]
  /\ stored \in [Requests -> Work]
  /\ lease \in [Requests -> {"none", "held", "released", "lost"}]
  /\ cleanup \in [Requests -> {"none", "revoking", "releasing", "done"}]
  /\ answer \in [Requests -> {"none", "package", "existing", "error", "cancelled"}]
  /\ faults \in 0..MaxFaults

Init ==
  /\ pc = [r \in Requests |-> "idle"]
  /\ next = [r \in Requests |-> 1]
  /\ tries = [r \in Requests |-> 0]
  /\ result = [r \in Requests |-> AllRuns("none")]
  /\ sent = [r \in Requests |-> {}]
  /\ session = [r \in Requests |-> NoWork]
  /\ stored = [r \in Requests |-> NoWork]
  /\ lease = [r \in Requests |-> "none"]
  /\ cleanup = [r \in Requests |-> "none"]
  /\ answer = [r \in Requests |-> "none"]
  /\ faults = 0

At(r, p)  == pc[r] = p
Goto(r, p) == pc' = [pc EXCEPT ![r] = p]
SameKey(r, o) == KeyOf[r] # {} /\ KeyOf[o] = KeyOf[r]

\* An inserted package is seen by others when it is committed, and holds its
\* key from the insert on.
Pending(o)   == session[o].package # "none" /\ stored[o].package = "none"
KeyTaken(r)  == \E o \in Requests \ {r} : SameKey(r, o) /\ stored[o].package # "none"
KeyWaits(r)  == \E o \in Requests \ {r} : SameKey(r, o) /\ Pending(o)

\* The request is over but for its scope, which a task of its own releases.
Leave(r, a) ==
  /\ Goto(r, "closing")
  /\ answer' = [answer EXCEPT ![r] = a]
  /\ cleanup' = [cleanup EXCEPT ![r] = "revoking"]

--------------------------------------------------------------------------------
\* The scope

Enter(r) ==
  /\ At(r, "idle")
  /\ Goto(r, "opening")
  /\ UNCHANGED <<calls, session, stored, scope, answer, faults>>

\* The accessor gives a lease, or fails and cleans up after itself.  A
\* credential that is no credential ends the scope it was acquired for.
OpenScope(r) ==
  /\ At(r, "opening")
  /\ \/ /\ lease' = [lease EXCEPT ![r] = "held"]
        /\ \/ Goto(r, "lookup") /\ UNCHANGED <<answer, cleanup>>
           \/ Leave(r, "error")
     \/ UNCHANGED lease /\ Leave(r, "error")
  /\ UNCHANGED <<calls, session, stored, faults>>

\* The gateway is revoked before the lease that its calls used is given back.
Revoke(r) ==
  /\ cleanup[r] = "revoking"
  /\ cleanup' = [cleanup EXCEPT ![r] = "releasing"]
  /\ UNCHANGED <<pc, calls, session, stored, lease, answer, faults>>

\* A release that fails is the caller's error, unless it has one already.
Release(r) ==
  /\ cleanup[r] = "releasing"
  /\ cleanup' = [cleanup EXCEPT ![r] = "done"]
  /\ lease' = [lease EXCEPT ![r] = IF @ = "held" THEN "released" ELSE @]
  /\ \/ UNCHANGED answer
     \/ /\ lease[r] = "held" /\ answer[r] \in {"package", "existing"}
        /\ answer' = [answer EXCEPT ![r] = "error"]
  /\ UNCHANGED <<pc, calls, session, stored, faults>>

\* The owner waits for the release; then the session is closed, and with it
\* goes what it did not commit.
Close(r) ==
  /\ At(r, "closing") /\ cleanup[r] = "done"
  /\ Goto(r, "ended")
  /\ session' = [session EXCEPT ![r] = stored[r]]
  /\ UNCHANGED <<calls, stored, scope, answer, faults>>

--------------------------------------------------------------------------------
\* The first transaction

\* A key that is known returns its package, whatever became of it.
LookUp(r) ==
  /\ At(r, "lookup")
  /\ IF KeyTaken(r)
     THEN Leave(r, "existing")
     ELSE Goto(r, "preparing") /\ UNCHANGED <<cleanup, answer>>
  /\ UNCHANGED <<calls, session, stored, lease, faults>>

\* The knowledge router finds evidence, or none at all.
Prepare(r) ==
  /\ At(r, "preparing")
  /\ \/ Goto(r, "inserting") /\ UNCHANGED <<cleanup, answer>>
     \/ Leave(r, "error")
  /\ UNCHANGED <<calls, session, stored, lease, faults>>

\* Faulty variant: only the look-up keeps a key from being used twice.
InsertUnindexed(r) ==
  /\ At(r, "inserting")
  /\ session' = [session EXCEPT ![r] = Marked(@, "running")]
  /\ Goto(r, "saving")
  /\ UNCHANGED <<calls, stored, scope, answer, faults>>

\* Package and runs are flushed as running.  The unique index lets the insert
\* wait for a pending one of the same key, and refuses it once that is stored.
Insert(r) ==
  /\ At(r, "inserting") /\ ~KeyWaits(r)
  /\ IF KeyTaken(r)
     THEN Leave(r, "error") /\ UNCHANGED session
     ELSE /\ session' = [session EXCEPT ![r] = Marked(@, "running")]
          /\ Goto(r, "saving")
          /\ UNCHANGED <<cleanup, answer>>
  /\ UNCHANGED <<calls, stored, lease, faults>>

CommitRunning(r) ==
  /\ At(r, "saving")
  /\ stored' = [stored EXCEPT ![r] = session[r]]
  /\ Goto(r, "calling")
  /\ UNCHANGED <<calls, session, scope, answer, faults>>

--------------------------------------------------------------------------------
\* The agents

Audited(r) == [session[r] EXCEPT !.audits = @ \cup {next[r]}]

\* An agent has its result; the next one of the route begins.
Settle(r, s) ==
  /\ result' = [result EXCEPT ![r][next[r]] = s]
  /\ session' = [session EXCEPT ![r] = Audited(r)]
  /\ IF next[r] = AgentCount
     THEN Goto(r, "finishing") /\ UNCHANGED next
     ELSE Goto(r, "calling") /\ next' = [next EXCEPT ![r] = @ + 1]
  /\ tries' = [tries EXCEPT ![r] = 0]

Generate(r) ==
  /\ At(r, "calling")
  /\ Goto(r, "sending")
  /\ sent' = [sent EXCEPT ![r] = @ \cup {next[r]}]
  /\ UNCHANGED <<next, tries, result, session, stored, scope, answer, faults>>

\* The transmission policy judges the data of the task: it lets every agent
\* call or, without a pause between them, denies them all.
Deny(r) ==
  /\ At(r, "calling") /\ next[r] = 1
  /\ result' = [result EXCEPT ![r] = AllRuns("failed")]
  /\ session' = [session EXCEPT ![r] = [@ EXCEPT !.audits = Agents]]
  /\ Goto(r, "finishing")
  /\ UNCHANGED <<next, tries, sent, stored, scope, answer, faults>>

\* The provider answers, well or not, or the time of the call is over.
Answered(r) ==
  /\ pc[r] \in {"sending", "backoff"}
  /\ \E s \in {"succeeded", "failed"} :
       /\ s = "succeeded" => At(r, "sending")
       /\ Settle(r, s)
  /\ UNCHANGED <<sent, stored, scope, answer, faults>>

BackOff(r) ==
  /\ At(r, "sending") /\ tries[r] < MaxRetries
  /\ tries' = [tries EXCEPT ![r] = @ + 1]
  /\ Goto(r, "backoff")
  /\ UNCHANGED <<next, result, sent, session, stored, scope, answer, faults>>

SendAgain(r) ==
  /\ At(r, "backoff")
  /\ Goto(r, "sending")
  /\ UNCHANGED <<calls, session, stored, scope, answer, faults>>

\* An exception no agent turns into a result: the session is rolled back, with
\* the audits of the calls made, and the failure is written in its place.
Fail(r) ==
  /\ pc[r] \in {"calling", "sending"}
  /\ session' = [session EXCEPT ![r] = Marked(stored[r], "failed")]
  /\ Goto(r, "undoing")
  /\ answer' = [answer EXCEPT ![r] = "error"]
  /\ UNCHANGED <<calls, stored, scope, faults>>

\* Faulty variant: the cancellation goes on without the audit of its call.
CancelUnaudited(r) ==
  /\ session' = [session EXCEPT ![r] = Marked(@, "cancelled")]
  /\ Goto(r, "undoing")
  /\ answer' = [answer EXCEPT ![r] = "cancelled"]
  /\ UNCHANGED <<calls, stored, scope>>

\* A cancelled call is audited before the cancellation goes on.
CancelCalls(r) ==
  /\ session' = [session EXCEPT ![r] = Marked(Audited(r), "cancelled")]
  /\ Goto(r, "undoing")
  /\ answer' = [answer EXCEPT ![r] = "cancelled"]
  /\ UNCHANGED <<calls, stored, scope>>

\* Either way the outcome is committed and the exception goes on.
CommitUndone(r) ==
  /\ At(r, "undoing")
  /\ stored' = [stored EXCEPT ![r] = session[r]]
  /\ Leave(r, answer[r])
  /\ UNCHANGED <<calls, session, lease, faults>>

--------------------------------------------------------------------------------
\* The second transaction

\* Faulty variant: one failed agent fails the package.
AnyFailure(r) == \E a \in Agents : result[r][a] = "failed"

TotalFailure(r) == \A a \in Agents : result[r][a] = "failed"

\* Runs, artifacts and status, as the results of the agents give them.
Outcome(r) ==
  [session[r] EXCEPT !.package = IF TotalFailure(r) THEN "failed" ELSE "needs_review",
                     !.runs = result[r],
                     !.artifacts = {a \in Agents : result[r][a] = "succeeded"}]

\* The outcome is flushed; an artifact above the size that is allowed raises,
\* and nothing above catches it.
Finish(r) ==
  /\ At(r, "finishing")
  /\ \/ /\ session' = [session EXCEPT ![r] = Outcome(r)]
        /\ Goto(r, "recording")
        /\ UNCHANGED <<cleanup, answer>>
     \/ ~TotalFailure(r) /\ Leave(r, "error") /\ UNCHANGED session
  /\ UNCHANGED <<calls, stored, lease, faults>>

CommitOutcome(r) ==
  /\ At(r, "recording")
  /\ stored' = [stored EXCEPT ![r] = session[r]]
  /\ Leave(r, IF TotalFailure(r) THEN "error" ELSE "package")
  /\ UNCHANGED <<calls, session, lease, faults>>

--------------------------------------------------------------------------------
\* What can happen to a request

Fault == faults < MaxFaults /\ faults' = faults + 1

Committing(r) == pc[r] \in {"saving", "undoing", "recording"}

\* A commit whose answer is lost may have been done.
MaybeStored(r) ==
  \/ UNCHANGED stored
  \/ Committing(r) /\ stored' = [stored EXCEPT ![r] = session[r]]

\* The task is cancelled, or its database fails, while it awaits; only the
\* calls have a handler that stores it.
Interrupt(r) ==
  /\ Fault
  /\ pc[r] \in {"opening", "lookup", "preparing", "inserting", "saving", "undoing",
                "finishing", "recording"}
  /\ \E a \in {"cancelled", "error"} : Leave(r, a)
  /\ MaybeStored(r)
  /\ UNCHANGED <<calls, session, lease>>

CancelCall(r) == Fault /\ pc[r] \in {"sending", "backoff"} /\ CancelCalls(r)

\* Faulty variant: the cancellation of the request reaches the release.
CancelRelease(r) ==
  /\ Fault
  /\ At(r, "closing") /\ cleanup[r] # "done"
  /\ cleanup' = [cleanup EXCEPT ![r] = "done"]
  /\ UNCHANGED <<pc, calls, session, stored, lease, answer>>

\* The release is shielded: it goes on, and the cancellation is raised after.
CancelClosing(r) ==
  /\ Fault
  /\ At(r, "closing") /\ cleanup[r] # "done"
  /\ answer' = [answer EXCEPT ![r] = IF @ \in {"package", "existing"} THEN "cancelled" ELSE @]
  /\ UNCHANGED <<pc, calls, session, stored, scope>>

\* The process is lost with its session and its lease.
Crash(r) ==
  /\ pc[r] \notin {"idle", "ended", "crashed"}
  /\ Goto(r, "crashed")
  /\ MaybeStored(r)
  /\ session' = [session EXCEPT ![r] = stored'[r]]
  /\ lease' = [lease EXCEPT ![r] = IF @ = "held" THEN "lost" ELSE @]
  /\ cleanup' = [cleanup EXCEPT ![r] = "none"]
  /\ UNCHANGED <<calls, answer, faults>>

Step(r) ==
  \/ OpenScope(r) \/ LookUp(r) \/ Prepare(r) \/ Insert(r) \/ CommitRunning(r)
  \/ Generate(r) \/ Deny(r) \/ Answered(r) \/ BackOff(r) \/ SendAgain(r) \/ Fail(r)
  \/ CommitUndone(r) \/ Finish(r) \/ CommitOutcome(r) \/ Close(r)

Next ==
  \E r \in Requests :
    \/ Enter(r) \/ Step(r) \/ Revoke(r) \/ Release(r)
    \/ Interrupt(r) \/ CancelCall(r) \/ CancelClosing(r) \/ Crash(r)

Spec == Init /\ [][Next]_vars

\* The event loop runs every task that can run; calls and the knowledge router
\* have timeouts, and the accessor and the database are assumed to answer.
Fairness == \A r \in Requests : WF_vars(Step(r)) /\ WF_vars(Revoke(r)) /\ WF_vars(Release(r))

FairSpec == Spec /\ Fairness

--------------------------------------------------------------------------------
\* Properties

(***************************************************************************)
(* The agents of a client request key call the provider for one request    *)
(* only, however often it is submitted, by whom, and whatever became of    *)
(* the first one: its package holds the key before the first call.         *)
(***************************************************************************)
AgentsRunOncePerKey ==
  \A r, o \in Requests : r # o /\ SameKey(r, o) => sent[r] = {} \/ sent[o] = {}

\* A package and the runs, artifacts and status written with it.
Consistent(w) ==
  /\ w.package \in {"none", "running", "cancelled"} =>
       (\A a \in Agents : w.runs[a] = w.package) /\ w.artifacts = {}
  /\ w.package \in {"needs_review", "failed"} =>
       /\ \A a \in Agents : w.runs[a] = IF a \in w.artifacts THEN "succeeded" ELSE "failed"
       /\ w.package = "failed" <=> w.artifacts = {}

(***************************************************************************)
(* What is stored of a request is one of five consistent pictures, at any  *)
(* moment and after any crash: a package is for review exactly when some   *)
(* agent succeeded, with the artifacts of those that did, and a caller who *)
(* is given a package can read it.                                         *)
(***************************************************************************)
PackageAgreesWithRuns ==
  \A r \in Requests :
    /\ Consistent(stored[r])
    /\ answer[r] = "package" => stored[r].package = "needs_review"
    /\ answer[r] = "existing" => KeyTaken(r)

(***************************************************************************)
(* A stored outcome comes with the audit of every call that was made for   *)
(* it, the call that was cancelled included.  Only when the workflow       *)
(* itself fails are the audits rolled back with the rest.                  *)
(***************************************************************************)
AuditsCoverCalls ==
  \A r \in Requests :
    \/ stored[r].package \in {"needs_review", "cancelled"}
    \/ stored[r].package = "failed" /\ \A a \in Agents : result[r][a] # "none"
    => sent[r] \subseteq stored[r].audits

(***************************************************************************)
(* Every request that is begun ends and gives its lease back, if its       *)
(* process lives: through failed and cancelled opening, calls, commits and *)
(* cleanup, and although requests of one key wait for each other.          *)
(***************************************************************************)
RequestsEnd ==
  \A r \in Requests :
    At(r, "opening") ~> pc[r] \in {"ended", "crashed"} /\ lease[r] # "held"

--------------------------------------------------------------------------------
\* What the workflow document says and the code does not do.

\* Every planned run reaches a terminal state, if its process lives.
RunsReachTerminalState ==
  \A r \in Requests, a \in Agents : At(r, "ended") => stored[r].runs[a] # "running"

================================================================================
