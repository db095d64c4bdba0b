----------------------------- MODULE RateAdmission -----------------------------
(***************************************************************************)
(* Rate admission: provisioning and revoking an exact rate policy, and     *)
(* admitting requests to the fixed windows of a policy.                    *)
(*                                                                         *)
(* Every operation is one PostgreSQL transaction at READ COMMITTED: each   *)
(* statement sees what is committed when it runs, a row lock is held to    *)
(* the end of its transaction, and an insert waits for another pending     *)
(* insert of the same key.  A step of a session here is one such           *)
(* statement, so other sessions run between a lookup and the lock that     *)
(* follows it.  A transaction writes its rows and its counter together     *)
(* when it commits, and nothing when it fails.                             *)
(*                                                                         *)
(* Time is in clock ticks (microseconds in the code).  The identities of a *)
(* request (decision, request, preparation, reference) are one id.  All    *)
(* policies have the same terms.                                           *)
(***************************************************************************)
EXTENDS Integers, FiniteSets

CONSTANTS Sessions,        \* database sessions, of any number of processes
          Policies,        \* exact policy locators
          Ids,             \* request identities
          Admissions,      \* the admission requests callers may send
          Revocations,     \* the revocation commands managers may send
          Provisions,      \* the provisioning commands managers may send
          Limit,           \* admission_limit
          TicksPerSecond,
          WindowSeconds,   \* window_seconds, at most a day
          ValidFrom,       \* effective_from
          ValidUntil       \* valid_until

Instant == Nat
Window  == Instant \X Instant

ASSUME TermsAssumption ==
  /\ Limit \in Nat \ {0} /\ TicksPerSecond \in Nat \ {0} /\ WindowSeconds \in Nat \ {0}
  /\ WindowSeconds <= 86400
  /\ ValidFrom \in Instant /\ ValidUntil \in Instant

\* An admission request carries the policy as its caller knows it (its locator
\* and the request that provisioned it) and the window its caller believes in;
\* the contract only makes sure that the observation lies in that window.
ASSUME RequestsAssumption ==
  /\ Admissions \subseteq [kind : {"admit"}, id : Ids, policy : Policies, provision : Ids,
                           at : Instant, window : Window]
  /\ \A r \in Admissions : r.window[1] <= r.at /\ r.at < r.window[2]
  /\ Revocations \subseteq [kind : {"revoke"}, id : Ids, policy : Policies, at : Instant]
  /\ Provisions \subseteq [kind : {"provision"}, id : Ids, policy : Policies]

VARIABLES policies,    \* provisioning commands that are committed
          revoked,     \* revocation commands that are committed
          decisions,   \* committed decisions on admission requests
          counter,     \* admitted_count of a policy and window; 0: no row
          authority,   \* does the manager hold runtime.rate_policy.manage?
          tx           \* what each session is doing

rows == <<policies, revoked, decisions, counter, authority>>
vars == <<policies, revoked, decisions, counter, authority, tx>>

Option(S) == {x \in SUBSET S : \A y, z \in x : y = z}

Windows == {r.window : r \in Admissions}
Job     == Admissions \cup Revocations \cup Provisions

\* A denied decision says when to retry, an admitted one does not.
Decision ==
  {d \in [request : Admissions, disposition : {"admitted", "denied"}, before : Nat,
          retry : Option(Nat)] : d.disposition = "denied" <=> d.retry # {}}

PolicyRow(q)    == <<"policy", q>>
WindowLock(q, w) == <<"window", q, w>>
AuthorityRows   == <<"authority">>
Lock == {PolicyRow(q) : q \in Policies} \cup {AuthorityRows}
          \cup {WindowLock(q, w) : q \in Policies, w \in Windows}

Response == {"committed", "exact_replay", "conflict", "unavailable", "denied"}

Transaction ==
  [pc : {"idle", "lookup", "policy", "terms", "count", "authority", "insert", "commit", "answered"},
   job : Option(Job), holds : SUBSET Lock, write : Option(Decision \cup Job),
   answer : Option(Response)]

TypeOK ==
  /\ policies \subseteq Provisions
  /\ revoked \subseteq Revocations
  /\ decisions \subseteq Decision
  /\ counter \in [Policies \X Windows -> Nat]
  /\ authority \in BOOLEAN
  /\ tx \in [Sessions -> Transaction]

NoTransaction == [pc |-> "idle", job |-> {}, holds |-> {}, write |-> {}, answer |-> {}]

Init ==
  /\ policies = {} /\ revoked = {} /\ decisions = {}
  /\ counter = [k \in Policies \X Windows |-> 0]
  /\ authority \in BOOLEAN
  /\ tx = [p \in Sessions |-> NoTransaction]

--------------------------------------------------------------------------------
\* Windows

\* The window of the epoch-aligned grid that contains an observation.
WindowFor(t) ==
  LET width == WindowSeconds * TicksPerSecond
      start == (t \div width) * width
  IN  <<start, start + width>>

\* Faulty variant: the remaining time is rounded down.
RetryAfterRoundedDown(w, t) ==
  LET seconds == (w[2] - t) \div TicksPerSecond IN IF seconds < 1 THEN 1 ELSE seconds

\* Whole seconds until the window ends, rounded up, at least 1 and at most a day.
RetryAfter(w, t) ==
  LET seconds == (w[2] - t + TicksPerSecond - 1) \div TicksPerSecond
  IN  CASE seconds < 1 -> 1 [] seconds > 86400 -> 86400 [] OTHER -> seconds

--------------------------------------------------------------------------------
\* Transactions

Begin(p) ==
  /\ tx[p].pc = "idle"
  /\ \E j \in Job : tx' = [tx EXCEPT ![p].pc = "lookup", ![p].job = {j}]
  /\ UNCHANGED rows

Free(p, lock) == \A o \in Sessions \ {p} : lock \notin tx[o].holds

Advance(p, pc, locks) ==
  tx' = [tx EXCEPT ![p].pc = pc, ![p].holds = @ \cup locks]

\* Faulty variant: an answer leaves the locks of the transaction behind.
EndHoldingLocks(p, answer) ==
  tx' = [tx EXCEPT ![p].pc = "answered", ![p].write = {}, ![p].answer = {answer}]

\* The transaction commits or rolls back: its locks are gone.
End(p, answer) ==
  tx' = [tx EXCEPT ![p].pc = "answered", ![p].holds = {}, ![p].write = {},
                   ![p].answer = {answer}]

\* The committed rows that share a unique identity with a request.
Stored(j) ==
  CASE j.kind = "admit"     -> {r \in {d.request : d \in decisions} : r.id = j.id}
    [] j.kind = "revoke"    -> {v \in revoked : v.id = j.id \/ v.policy = j.policy}
    [] j.kind = "provision" -> {c \in policies : c.id = j.id \/ c.policy = j.policy}

\* The replay lookup each operation starts with.  Provisioning reads the
\* policy rows FOR UPDATE and waits for those who hold them.
LookUp(p) ==
  /\ tx[p].pc = "lookup"
  /\ \E j \in tx[p].job :
       /\ j.kind = "provision" => \A c \in Stored(j) : Free(p, PolicyRow(c.policy))
       /\ \/ /\ Stored(j) = {}
             /\ Advance(p, IF j.kind = "provision" THEN "authority" ELSE "policy", {})
          \/ Stored(j) = {j} /\ End(p, "exact_replay")
          \/ Stored(j) \notin {{}, {j}} /\ End(p, "conflict")
  /\ UNCHANGED rows

\* Faulty variant: admission reads the policy row without locking it.
LockPolicyOfManagers(p) ==
  /\ tx[p].pc = "policy"
  /\ \E j \in tx[p].job :
       \/ /\ \A c \in policies : c.policy # j.policy
          /\ End(p, "unavailable")
       \/ /\ \E c \in policies : c.policy = j.policy
          /\ j.kind = "revoke" => Free(p, PolicyRow(j.policy))
          /\ Advance(p, IF j.kind = "admit" THEN "terms" ELSE "authority",
                     IF j.kind = "admit" THEN {} ELSE {PolicyRow(j.policy)})
  /\ UNCHANGED rows

\* Admission and revocation lock the policy row.
LockPolicy(p) ==
  /\ tx[p].pc = "policy"
  /\ \E j \in tx[p].job :
       \/ /\ \A c \in policies : c.policy # j.policy
          /\ End(p, "unavailable")
       \/ /\ \E c \in policies : c.policy = j.policy
          /\ Free(p, PolicyRow(j.policy))
          /\ Advance(p, IF j.kind = "admit" THEN "terms" ELSE "authority",
                     {PolicyRow(j.policy)})
  /\ UNCHANGED rows

\* The policy of the request, its validity, its revocation and the window, in
\* the order of the code.  The revocation is read after the policy row is locked.
CheckTerms(p) ==
  /\ tx[p].pc = "terms"
  /\ \E r \in tx[p].job :
       LET known  == \E c \in policies : c.policy = r.policy /\ c.id = r.provision
           usable == /\ ValidFrom <= r.at /\ r.at < ValidUntil
                     /\ \A v \in revoked : v.policy = r.policy => r.at < v.at
       IN  \/ ~known /\ End(p, "conflict")
           \/ known /\ ~usable /\ End(p, "unavailable")
           \/ known /\ usable /\ r.window # WindowFor(r.at) /\ End(p, "conflict")
           \/ known /\ usable /\ r.window = WindowFor(r.at) /\ Advance(p, "count", {})
  /\ UNCHANGED rows

\* An insert waits for pending inserts of a row that would collide with it.
Waits(p, j) ==
  \E o \in Sessions \ {p} : \E w \in tx[o].write, k \in tx[o].job :
    /\ k.kind = j.kind
    /\ \/ k.id = j.id
       \/ j.kind # "admit" /\ k.policy = j.policy

\* Faulty variant: request identities have no unique constraint.
InsertUnconstrained(p, j, row, locks) ==
  tx' = [tx EXCEPT ![p].pc = "commit", ![p].holds = @ \cup locks, ![p].write = {row}]

\* The insert of the row of a transaction; a unique constraint may refuse it.
Insert(p, j, row, locks) ==
  IF Stored(j) # {}
  THEN End(p, "conflict")
  ELSE tx' = [tx EXCEPT ![p].pc = "commit", ![p].holds = @ \cup locks, ![p].write = {row}]

\* Faulty variant: the limit itself still admits.
AdmittedAtLimit(before) == before <= Limit

Admitted(before) == before < Limit

\* The decision on a request, given the count it found.
DecisionOn(r, before) ==
  [request |-> r, before |-> before,
   disposition |-> IF Admitted(before) THEN "admitted" ELSE "denied",
   retry |-> IF Admitted(before) THEN {} ELSE {RetryAfter(r.window, r.at)}]

\* The advisory lock of the window, the count, the decision.
Count(p) ==
  /\ tx[p].pc = "count"
  /\ \E r \in tx[p].job :
       LET lock == WindowLock(r.policy, r.window)
       IN  /\ Free(p, lock)
           /\ ~Waits(p, r)
           /\ Insert(p, r, DecisionOn(r, counter[<<r.policy, r.window>>]), {lock})
  /\ UNCHANGED rows

\* Faulty variant: the rows that grant the authority are read without a lock.
CheckAuthorityUnlocked(p) ==
  /\ tx[p].pc = "authority"
  /\ \/ ~authority /\ End(p, "denied")
     \/ authority /\ Advance(p, "insert", {})
  /\ UNCHANGED rows

\* The manager's authority is read and its rows are locked.
CheckAuthority(p) ==
  /\ tx[p].pc = "authority"
  /\ \/ ~authority /\ End(p, "denied")
     \/ authority /\ Free(p, AuthorityRows) /\ Advance(p, "insert", {AuthorityRows})
  /\ UNCHANGED rows

InsertCommand(p) ==
  /\ tx[p].pc = "insert"
  /\ \E j \in tx[p].job : ~Waits(p, j) /\ Insert(p, j, j, {})
  /\ UNCHANGED rows

\* Faulty variant: only the first admission of a window writes a counter row.
CounterCreated(d) ==
  IF d.disposition = "admitted" /\ d.before = 0
  THEN [counter EXCEPT ![<<d.request.policy, d.request.window>>] = 1]
  ELSE counter

\* The counter row an admission creates or moves on by one.
CounterAfter(d) ==
  IF d.disposition = "admitted"
  THEN [counter EXCEPT ![<<d.request.policy, d.request.window>>] = d.before + 1]
  ELSE counter

Commit(p) ==
  /\ tx[p].pc = "commit"
  /\ \E j \in tx[p].job, w \in tx[p].write :
       \/ /\ j.kind = "admit"
          /\ decisions' = decisions \cup {w}
          /\ counter' = CounterAfter(w)
          /\ UNCHANGED <<policies, revoked>>
       \/ /\ j.kind = "revoke"
          /\ revoked' = revoked \cup {w}
          /\ UNCHANGED <<policies, decisions, counter>>
       \/ /\ j.kind = "provision"
          /\ policies' = policies \cup {w}
          /\ UNCHANGED <<revoked, decisions, counter>>
  /\ End(p, "committed")
  /\ UNCHANGED authority

\* The caller has its answer; or the process or its connection is lost, and
\* PostgreSQL rolls the transaction back.
Leave(p) ==
  /\ tx[p].pc # "idle"
  /\ tx' = [tx EXCEPT ![p] = NoTransaction]
  /\ UNCHANGED rows

\* Another operation grants or withdraws the manager's permission; it changes
\* the very rows that CheckAuthority locks.
AuthorityChanges ==
  /\ \A o \in Sessions : AuthorityRows \notin tx[o].holds
  /\ authority' = ~authority
  /\ UNCHANGED <<policies, revoked, decisions, counter, tx>>

Step(p) ==
  LookUp(p) \/ LockPolicy(p) \/ CheckTerms(p) \/ Count(p) \/ CheckAuthority(p)
    \/ InsertCommand(p) \/ Commit(p)

Next ==
  \/ \E p \in Sessions : Begin(p) \/ Step(p) \/ Leave(p)
  \/ AuthorityChanges

Spec == Init /\ [][Next]_vars

\* PostgreSQL grants a lock to the sessions that wait for it in their order.
FairSpec == Spec /\ \A p \in Sessions : SF_vars(Step(p))

--------------------------------------------------------------------------------
\* Properties

\* No window of the epoch grid admits more requests of a policy than its limit,
\* whatever windows callers name and however their transactions interleave.
LimitHolds ==
  \A q \in Policies, w \in {WindowFor(d.request.at) : d \in decisions} :
    Cardinality({d \in decisions : /\ d.request.policy = q /\ d.disposition = "admitted"
                                   /\ w[1] <= d.request.at /\ d.request.at < w[2]}) <= Limit

(***************************************************************************)
(* The immutable decisions prove the counter: the admitted decisions of a  *)
(* window found the counts 0, 1, ... up to the counter, each exactly once, *)
(* and a denied one found the limit.                                       *)
(***************************************************************************)
DecisionsProveCounter ==
  \A q \in Policies, w \in Windows :
    LET here     == {d \in decisions : d.request.policy = q /\ d.request.window = w}
        admitted == {d \in here : d.disposition = "admitted"}
    IN  /\ {d.before : d \in admitted} = 0 .. counter[<<q, w>>] - 1
        /\ \A d, e \in admitted : d.before = e.before => d = e
        /\ \A d \in here \ admitted : d.before = Limit

\* No decision is committed on an observation at or after the instant of a
\* revocation that is already committed, although the revocation was read some
\* statements before.
RevocationIsFinal ==
  [][\A d \in decisions' \ decisions, v \in revoked :
       v.policy = d.request.policy => d.request.at < v.at]_vars

\* No policy is provisioned or revoked by a manager whose authority is gone
\* by the time of the commit.
CommandsAreAuthorized ==
  [][policies' # policies \/ revoked' # revoked => authority]_vars

\* A caller that comes back after the seconds it was told meets a new window,
\* and is not told a whole second more than that takes.
RetryMeetsNextWindow ==
  \A d \in decisions : \A s \in d.retry :
    LET w == d.request.window
        back == d.request.at + s * TicksPerSecond
    IN  /\ WindowFor(back) # w
        /\ back < w[2] + TicksPerSecond

\* However the statements of the sessions interleave at READ COMMITTED, each
\* transaction takes effect at one instant, its commit: what it read statements
\* before is then still so, and nothing is settled twice.
Contract == INSTANCE RateContract
ImplementsContract == Contract!ContractSpec

\* Every transaction ends: nobody waits for ever for a lock.
TransactionsEnd ==
  \A p \in Sessions :
    tx[p].pc \notin {"idle", "answered"} ~> tx[p].pc \in {"idle", "answered"}

================================================================================
