-------------------------- MODULE RateAdmission_proofs --------------------------
(***************************************************************************)
(* Safety of rate admission for every set of sessions, policies and        *)
(* requests and for all terms of a policy.                                 *)
(*                                                                         *)
(* The argument is one of locks: what a transaction read after it took a   *)
(* lock is still so when it commits, because whoever could change it needs *)
(* the same lock.                                                          *)
(***************************************************************************)
EXTENDS RateAdmission, FiniteSetTheorems, TLAPS

LEMMA OptionOne ==
  ASSUME NEW S, NEW x \in S
  PROVE  {x} \in Option(S) /\ {} \in Option(S)
BY DEF Option

LEMMA RetryAfterType ==
  ASSUME NEW r \in Admissions
  PROVE  RetryAfter(r.window, r.at) \in Nat
<1>1. r.window[2] \in Nat /\ r.at \in Nat /\ TicksPerSecond \in Nat \ {0}
  BY RequestsAssumption, TermsAssumption DEF Window, Instant
<1>2. (r.window[2] - r.at + TicksPerSecond - 1) \div TicksPerSecond \in Int
  BY <1>1
<1> QED
  BY <1>2 DEF RetryAfter

LEMMA DecisionType ==
  ASSUME NEW r \in Admissions, NEW n \in Nat
  PROVE  DecisionOn(r, n) \in Decision
<1>1. RetryAfter(r.window, r.at) \in Nat
  BY RetryAfterType
<1>2. {RetryAfter(r.window, r.at)} \in Option(Nat) /\ {} \in Option(Nat)
  BY <1>1, OptionOne
<1> QED
  BY <1>2 DEF DecisionOn, Decision

LEMMA LockType ==
  /\ AuthorityRows \in Lock
  /\ \A q \in Policies : PolicyRow(q) \in Lock
  /\ \A r \in Admissions : WindowLock(r.policy, r.window) \in Lock
BY RequestsAssumption DEF Lock, Windows

LEMMA JobType ==
  ASSUME NEW j \in Job
  PROVE  /\ j.policy \in Policies
         /\ j.kind \in {"admit", "revoke", "provision"}
         /\ j.kind = "admit" <=> j \in Admissions
         /\ j.kind = "revoke" <=> j \in Revocations
         /\ j.kind = "provision" <=> j \in Provisions
BY RequestsAssumption DEF Job

LEMMA OptionNone ==
  ASSUME NEW S
  PROVE  {} \in Option(S)
BY DEF Option

\* What the helpers leave in a transaction, and that they leave the others alone.
LEMMA EndEffect ==
  ASSUME tx \in [Sessions -> Transaction], NEW p \in Sessions, NEW a \in Response, End(p, a)
  PROVE  /\ tx' \in [Sessions -> Transaction]
         /\ \A o \in Sessions \ {p} : tx'[o] = tx[o]
         /\ tx'[p].pc = "answered" /\ tx'[p].job = tx[p].job /\ tx'[p].holds = {}
<1>1. {a} \in Option(Response) /\ {} \in Option(Decision \cup Job) /\ {} \in SUBSET Lock
  BY OptionOne, OptionNone
<1>2. tx[p] \in Transaction
  OBVIOUS
<1> DEFINE t == [tx[p] EXCEPT !.pc = "answered", !.holds = {}, !.write = {}, !.answer = {a}]
<1>3. t \in Transaction /\ t.pc = "answered" /\ t.job = tx[p].job /\ t.holds = {}
  BY <1>1, <1>2 DEF Transaction
<1>4. tx' = [tx EXCEPT ![p] = t]
  BY DEF End
<1> HIDE DEF t
<1> QED
  BY <1>3, <1>4

LEMMA AdvanceEffect ==
  ASSUME tx \in [Sessions -> Transaction], NEW p \in Sessions, NEW L \in SUBSET Lock,
         NEW pc \in {"policy", "terms", "count", "authority", "insert"}, Advance(p, pc, L)
  PROVE  /\ tx' \in [Sessions -> Transaction]
         /\ \A o \in Sessions \ {p} : tx'[o] = tx[o]
         /\ tx'[p].pc = pc /\ tx'[p].job = tx[p].job /\ tx'[p].holds = tx[p].holds \cup L
<1>1. tx[p] \in Transaction
  OBVIOUS
<1> DEFINE t == [tx[p] EXCEPT !.pc = pc, !.holds = @ \cup L]
<1>2. t \in Transaction /\ t.pc = pc /\ t.job = tx[p].job /\ t.holds = tx[p].holds \cup L
  BY <1>1 DEF Transaction
<1>3. tx' = [tx EXCEPT ![p] = t]
  BY DEF Advance
<1> HIDE DEF t
<1> QED
  BY <1>2, <1>3

LEMMA InsertEffect ==
  ASSUME tx \in [Sessions -> Transaction], NEW p \in Sessions, NEW L \in SUBSET Lock,
         NEW j, NEW row \in Decision \cup Job, Insert(p, j, row, L)
  PROVE  /\ tx' \in [Sessions -> Transaction]
         /\ \A o \in Sessions \ {p} : tx'[o] = tx[o]
         /\ tx'[p].job = tx[p].job
         /\ \/ tx'[p].pc = "answered" /\ tx'[p].holds = {}
            \/ /\ tx'[p].pc = "commit" /\ tx'[p].holds = tx[p].holds \cup L
               /\ tx'[p].write = {row} /\ Stored(j) = {}
<1>1. tx[p] \in Transaction /\ {row} \in Option(Decision \cup Job)
  BY OptionOne
<1> DEFINE t == [tx[p] EXCEPT !.pc = "commit", !.holds = @ \cup L, !.write = {row}]
<1>2. /\ t \in Transaction /\ t.pc = "commit" /\ t.job = tx[p].job
      /\ t.holds = tx[p].holds \cup L /\ t.write = {row}
  BY <1>1 DEF Transaction
<1>3. CASE Stored(j) # {}
  <2>1. End(p, "conflict") /\ "conflict" \in Response
    BY <1>3 DEF Insert, Response
  <2> QED
    BY <2>1, EndEffect
<1>4. CASE Stored(j) = {}
  <2>1. tx' = [tx EXCEPT ![p] = t]
    BY <1>4 DEF Insert
  <2> HIDE DEF t
  <2> QED
    BY <1>2, <1>4, <2>1
<1> QED
  BY <1>3, <1>4


--------------------------------------------------------------------------------
(* What a step of a session does to the transactions: only its own changes. *)

Alone(p) ==
  /\ tx' \in [Sessions -> Transaction]
  /\ \A o \in Sessions \ {p} : tx'[o] = tx[o]

LEMMA LookUpEffect ==
  ASSUME TypeOK, NEW p \in Sessions, LookUp(p)
  PROVE  /\ Alone(p) /\ UNCHANGED rows /\ tx'[p].job = tx[p].job
         /\ \/ tx'[p].pc = "answered" /\ tx'[p].holds = {}
            \/ /\ tx'[p].holds = tx[p].holds
               /\ \A j \in tx[p].job :
                    tx'[p].pc = IF j.kind = "provision" THEN "authority" ELSE "policy"
<1>1. PICK j \in tx[p].job :
        \/ Advance(p, IF j.kind = "provision" THEN "authority" ELSE "policy", {})
        \/ End(p, "exact_replay")
        \/ End(p, "conflict")
  BY DEF LookUp
<1>2. tx[p] \in Transaction /\ tx \in [Sessions -> Transaction]
  BY DEF TypeOK
<1>3. \A k \in tx[p].job : k = j
  BY <1>1, <1>2 DEF Transaction, Option
<1>4. CASE Advance(p, IF j.kind = "provision" THEN "authority" ELSE "policy", {})
  <2>1. \/ Advance(p, "authority", {}) /\ j.kind = "provision"
        \/ Advance(p, "policy", {}) /\ j.kind # "provision"
    BY <1>4
  <2> QED
    BY <1>2, <1>3, <2>1, AdvanceEffect DEF Alone, LookUp
<1>5. CASE End(p, "exact_replay") \/ End(p, "conflict")
  BY <1>2, <1>5, EndEffect DEF Alone, LookUp, Response
<1> QED
  BY <1>1, <1>4, <1>5

LEMMA LockPolicyEffect ==
  ASSUME TypeOK, NEW p \in Sessions, LockPolicy(p)
  PROVE  /\ Alone(p) /\ UNCHANGED rows /\ tx'[p].job = tx[p].job
         /\ \/ tx'[p].pc = "answered" /\ tx'[p].holds = {}
            \/ \A j \in tx[p].job :
                 /\ \E c \in policies : c.policy = j.policy
                 /\ Free(p, PolicyRow(j.policy))
                 /\ tx'[p].holds = tx[p].holds \cup {PolicyRow(j.policy)}
                 /\ tx'[p].pc = IF j.kind = "admit" THEN "terms" ELSE "authority"
<1>1. PICK j \in tx[p].job :
        \/ End(p, "unavailable")
        \/ /\ \E c \in policies : c.policy = j.policy
           /\ Free(p, PolicyRow(j.policy))
           /\ Advance(p, IF j.kind = "admit" THEN "terms" ELSE "authority", {PolicyRow(j.policy)})
  BY DEF LockPolicy
<1>2. tx[p] \in Transaction /\ tx \in [Sessions -> Transaction]
  BY DEF TypeOK
<1>3. (\A k \in tx[p].job : k = j) /\ j \in Job
  BY <1>1, <1>2 DEF Transaction, Option
<1>4. {PolicyRow(j.policy)} \in SUBSET Lock
  BY <1>3, JobType, LockType
<1>5. CASE End(p, "unavailable")
  BY <1>2, <1>5, EndEffect DEF Alone, LockPolicy, Response
<1>6. CASE /\ \E c \in policies : c.policy = j.policy
           /\ Free(p, PolicyRow(j.policy))
           /\ Advance(p, IF j.kind = "admit" THEN "terms" ELSE "authority", {PolicyRow(j.policy)})
  <2>1. \/ Advance(p, "terms", {PolicyRow(j.policy)}) /\ j.kind = "admit"
        \/ Advance(p, "authority", {PolicyRow(j.policy)}) /\ j.kind # "admit"
    BY <1>6
  <2>2. UNCHANGED rows
    BY DEF LockPolicy
  <2> QED
    BY <1>2, <1>3, <1>4, <1>6, <2>1, <2>2, AdvanceEffect DEF Alone
<1> QED
  BY <1>1, <1>5, <1>6

LEMMA CheckTermsEffect ==
  ASSUME TypeOK, NEW p \in Sessions, CheckTerms(p)
  PROVE  /\ Alone(p) /\ UNCHANGED rows /\ tx'[p].job = tx[p].job
         /\ \/ tx'[p].pc = "answered" /\ tx'[p].holds = {}
            \/ /\ tx'[p].pc = "count" /\ tx'[p].holds = tx[p].holds
               /\ \A j \in tx[p].job, v \in revoked : v.policy = j.policy => j.at < v.at
               /\ \A j \in tx[p].job :
                    /\ j.window = WindowFor(j.at)
                    /\ \E c \in policies : c.policy = j.policy /\ c.id = j.provision
                    /\ ValidFrom <= j.at /\ j.at < ValidUntil
<1> DEFINE known(r)  == \E c \in policies : c.policy = r.policy /\ c.id = r.provision
           usable(r) == /\ ValidFrom <= r.at /\ r.at < ValidUntil
                        /\ \A v \in revoked : v.policy = r.policy => r.at < v.at
<1>1. PICK r \in tx[p].job :
        \/ ~known(r) /\ End(p, "conflict")
        \/ known(r) /\ ~usable(r) /\ End(p, "unavailable")
        \/ known(r) /\ usable(r) /\ r.window # WindowFor(r.at) /\ End(p, "conflict")
        \/ known(r) /\ usable(r) /\ r.window = WindowFor(r.at) /\ Advance(p, "count", {})
  BY Zenon DEF CheckTerms
<1>2. tx[p] \in Transaction /\ tx \in [Sessions -> Transaction]
  BY DEF TypeOK
<1>3. \A k \in tx[p].job : k = r
  BY <1>1, <1>2 DEF Transaction, Option
<1>4. UNCHANGED rows
  BY DEF CheckTerms
<1>5. CASE End(p, "unavailable") \/ End(p, "conflict")
  BY <1>2, <1>4, <1>5, EndEffect DEF Alone, Response
<1>6. CASE known(r) /\ usable(r) /\ r.window = WindowFor(r.at) /\ Advance(p, "count", {})
  <2>0. \A j \in tx[p].job :
          /\ j.window = WindowFor(j.at)
          /\ \E c \in policies : c.policy = j.policy /\ c.id = j.provision
          /\ ValidFrom <= j.at /\ j.at < ValidUntil
    BY <1>3, <1>6
  <2>1. \A j \in tx[p].job, v \in revoked : v.policy = j.policy => j.at < v.at
    BY <1>3, <1>6
  <2>2. Advance(p, "count", {}) /\ {} \in SUBSET Lock
    BY <1>6
  <2> HIDE DEF known, usable
  <2>3. /\ tx' \in [Sessions -> Transaction]
        /\ \A o \in Sessions \ {p} : tx'[o] = tx[o]
        /\ tx'[p].pc = "count" /\ tx'[p].job = tx[p].job /\ tx'[p].holds = tx[p].holds \cup {}
    BY <1>2, <2>2, AdvanceEffect
  <2>4. Alone(p)
    BY <2>3 DEF Alone
  <2> QED
    BY <1>4, <2>0, <2>1, <2>3, <2>4
<1> QED
  BY <1>1, <1>5, <1>6

LEMMA CountEffect ==
  ASSUME TypeOK, NEW p \in Sessions, Count(p), \A j \in tx[p].job : j.kind = "admit"
  PROVE  /\ Alone(p) /\ UNCHANGED rows /\ tx'[p].job = tx[p].job
         /\ \/ tx'[p].pc = "answered" /\ tx'[p].holds = {}
            \/ \A j \in tx[p].job :
                 /\ Free(p, WindowLock(j.policy, j.window))
                 /\ tx'[p].holds = tx[p].holds \cup {WindowLock(j.policy, j.window)}
                 /\ tx'[p].pc = "commit"
                 /\ tx'[p].write = {DecisionOn(j, counter[<<j.policy, j.window>>])}
                 /\ Stored(j) = {} /\ ~Waits(p, j)
<1> DEFINE row(r)  == DecisionOn(r, counter[<<r.policy, r.window>>])
           lock(r) == WindowLock(r.policy, r.window)
<1>1. PICK r \in tx[p].job :
        Free(p, lock(r)) /\ ~Waits(p, r) /\ Insert(p, r, row(r), {lock(r)})
  BY DEF Count
<1>2. tx[p] \in Transaction /\ tx \in [Sessions -> Transaction]
  BY DEF TypeOK
<1>3. (\A k \in tx[p].job : k = r) /\ r \in Admissions
  BY <1>1, <1>2, JobType DEF Transaction, Option
<1>4. <<r.policy, r.window>> \in Policies \X Windows
  BY <1>3, RequestsAssumption DEF Windows
<1>5. counter[<<r.policy, r.window>>] \in Nat
  BY <1>4 DEF TypeOK
<1>6. row(r) \in Decision \cup Job /\ {lock(r)} \in SUBSET Lock
  BY <1>3, <1>5, DecisionType, LockType
<1>7. UNCHANGED rows
  BY DEF Count
<1> HIDE DEF row, lock
<1>8. /\ Alone(p) /\ tx'[p].job = tx[p].job
      /\ \/ tx'[p].pc = "answered" /\ tx'[p].holds = {}
         \/ /\ tx'[p].pc = "commit" /\ tx'[p].holds = tx[p].holds \cup {lock(r)}
            /\ tx'[p].write = {row(r)} /\ Stored(r) = {}
  BY <1>1, <1>2, <1>6, InsertEffect DEF Alone
<1> QED
  BY <1>1, <1>3, <1>7, <1>8 DEF row, lock

LEMMA CheckAuthorityEffect ==
  ASSUME TypeOK, NEW p \in Sessions, CheckAuthority(p)
  PROVE  /\ Alone(p) /\ UNCHANGED rows /\ tx'[p].job = tx[p].job
         /\ \/ tx'[p].pc = "answered" /\ tx'[p].holds = {}
            \/ /\ authority /\ Free(p, AuthorityRows)
               /\ tx'[p].pc = "insert" /\ tx'[p].holds = tx[p].holds \cup {AuthorityRows}
<1>1. tx \in [Sessions -> Transaction] /\ {AuthorityRows} \in SUBSET Lock /\ "denied" \in Response
  BY LockType DEF TypeOK, Response
<1>2. CASE End(p, "denied")
  BY <1>1, <1>2, EndEffect DEF Alone, CheckAuthority
<1>3. CASE authority /\ Free(p, AuthorityRows) /\ Advance(p, "insert", {AuthorityRows})
  BY <1>1, <1>3, AdvanceEffect DEF Alone, CheckAuthority
<1> QED
  BY <1>2, <1>3 DEF CheckAuthority

LEMMA InsertCommandEffect ==
  ASSUME TypeOK, NEW p \in Sessions, InsertCommand(p)
  PROVE  /\ Alone(p) /\ UNCHANGED rows /\ tx'[p].job = tx[p].job
         /\ \/ tx'[p].pc = "answered" /\ tx'[p].holds = {}
            \/ /\ tx'[p].pc = "commit" /\ tx'[p].holds = tx[p].holds
               /\ \A j \in tx[p].job : tx'[p].write = {j} /\ Stored(j) = {} /\ ~Waits(p, j)
<1>1. PICK j \in tx[p].job : ~Waits(p, j) /\ Insert(p, j, j, {})
  BY DEF InsertCommand
<1>2. tx[p] \in Transaction /\ tx \in [Sessions -> Transaction]
  BY DEF TypeOK
<1>3. (\A k \in tx[p].job : k = j) /\ j \in Decision \cup Job
  BY <1>1, <1>2 DEF Transaction, Option
<1>4. UNCHANGED rows
  BY DEF InsertCommand
<1>5. {} \in SUBSET Lock /\ tx[p].holds \cup {} = tx[p].holds
  OBVIOUS
<1> DEFINE none == {}
<1>6. none \in SUBSET Lock /\ Insert(p, j, j, none) /\ tx[p].holds \cup none = tx[p].holds
  BY <1>1, <1>5
<1> HIDE DEF none
<1>7. /\ tx' \in [Sessions -> Transaction]
      /\ \A o \in Sessions \ {p} : tx'[o] = tx[o]
      /\ tx'[p].job = tx[p].job
      /\ \/ tx'[p].pc = "answered" /\ tx'[p].holds = {}
         \/ /\ tx'[p].pc = "commit" /\ tx'[p].holds = tx[p].holds \cup none
            /\ tx'[p].write = {j} /\ Stored(j) = {}
  BY <1>2, <1>3, <1>6, InsertEffect
<1>8. Alone(p)
  BY <1>7 DEF Alone
<1> QED
  BY <1>1, <1>3, <1>4, <1>6, <1>7, <1>8

\* A session that begins or leaves holds nothing.
LEMMA BeginEffect ==
  ASSUME TypeOK, NEW p \in Sessions, Begin(p)
  PROVE  /\ Alone(p) /\ UNCHANGED rows
         /\ tx'[p].pc = "lookup" /\ tx'[p].holds = tx[p].holds
<1>1. PICK j \in Job : tx' = [tx EXCEPT ![p].pc = "lookup", ![p].job = {j}]
  BY DEF Begin
<1>2. tx[p] \in Transaction /\ tx \in [Sessions -> Transaction] /\ {j} \in Option(Job)
  BY OptionOne DEF TypeOK
<1> DEFINE t == [tx[p] EXCEPT !.pc = "lookup", !.job = {j}]
<1>3. t \in Transaction /\ t.pc = "lookup" /\ t.holds = tx[p].holds
  BY <1>2 DEF Transaction
<1>4. tx' = [tx EXCEPT ![p] = t]
  BY <1>1
<1>5. UNCHANGED rows
  BY DEF Begin
<1> HIDE DEF t
<1> QED
  BY <1>2, <1>3, <1>4, <1>5 DEF Alone

LEMMA NoTransactionType ==
  /\ NoTransaction \in Transaction
  /\ NoTransaction.pc = "idle" /\ NoTransaction.holds = {} /\ NoTransaction.job = {}
<1>1. /\ {} \in Option(Job) /\ {} \in SUBSET Lock
      /\ {} \in Option(Decision \cup Job) /\ {} \in Option(Response)
  BY OptionNone
<1> QED
  BY <1>1 DEF NoTransaction, Transaction

LEMMA LeaveEffect ==
  ASSUME TypeOK, NEW p \in Sessions, Leave(p)
  PROVE  /\ Alone(p) /\ UNCHANGED rows
         /\ tx'[p].pc = "idle" /\ tx'[p].holds = {} /\ tx'[p].job = {}
<1>1. tx' = [tx EXCEPT ![p] = NoTransaction] /\ UNCHANGED rows
  BY DEF Leave
<1> QED
  BY <1>1, NoTransactionType DEF TypeOK, Alone

LEMMA CommitEffect ==
  ASSUME TypeOK, NEW p \in Sessions, Commit(p)
  PROVE  /\ Alone(p) /\ tx'[p].job = tx[p].job /\ UNCHANGED authority
         /\ tx'[p].pc = "answered" /\ tx'[p].holds = {}
<1>1. /\ tx \in [Sessions -> Transaction] /\ End(p, "committed") /\ "committed" \in Response
      /\ UNCHANGED authority
  BY DEF TypeOK, Commit, Response
<1> QED
  BY <1>1, EndEffect DEF Alone

--------------------------------------------------------------------------------
(***************************************************************************)
(* The inductive invariant.  Exclusive: a lock has one holder.  Steady: a  *)
(* transaction holds the locks its statements took, and what it read under *)
(* them (the authority, the revocations, the count) is still so.           *)
(***************************************************************************)

Exclusive == \A p, o \in Sessions : p # o => tx[p].holds \cap tx[o].holds = {}

HoldsPolicy(p) ==
  \A j \in tx[p].job :
    \/ j.kind = "admit" /\ tx[p].pc \in {"terms", "count", "commit"}
    \/ j.kind = "revoke" /\ tx[p].pc \in {"authority", "insert", "commit"}
    => PolicyRow(j.policy) \in tx[p].holds

HoldsAuthority(p) ==
  \A j \in tx[p].job :
    j.kind # "admit" /\ tx[p].pc \in {"insert", "commit"}
    => authority /\ AuthorityRows \in tx[p].holds

Path(p) ==
  \A j \in tx[p].job :
    /\ tx[p].pc \in {"terms", "count"} => j.kind = "admit"
    /\ tx[p].pc \in {"authority", "insert"} => j.kind # "admit"

NotRevoked(p) ==
  \A j \in tx[p].job :
    j.kind = "admit" /\ tx[p].pc \in {"count", "commit"}
    => \A v \in revoked : v.policy = j.policy => j.at < v.at

Written(p) ==
  tx[p].pc = "commit" =>
    \A j \in tx[p].job :
      tx[p].write = {IF j.kind = "admit" THEN DecisionOn(j, counter[<<j.policy, j.window>>]) ELSE j}

Steady(p) == HoldsPolicy(p) /\ HoldsAuthority(p) /\ Path(p) /\ NotRevoked(p) /\ Written(p)

CounterBounded == \A k \in Policies \X Windows : counter[k] <= Limit

Inv ==
  /\ TypeOK
  /\ Exclusive
  /\ \A p \in Sessions : Steady(p)
  /\ CounterBounded
  /\ DecisionsProveCounter

\* A step that only takes free locks, or leaves all, keeps locks exclusive.
LEMMA ExclusiveStep ==
  ASSUME TypeOK, Exclusive, NEW p \in Sessions, NEW L, Alone(p),
         \A lock \in L : Free(p, lock),
         tx'[p].holds = {} \/ tx'[p].holds = tx[p].holds \cup L
  PROVE  Exclusive'
<1> SUFFICES ASSUME NEW a \in Sessions, NEW b \in Sessions, a # b
             PROVE  tx'[a].holds \cap tx'[b].holds = {}
  BY DEF Exclusive
<1>1. CASE a # p /\ b # p
  BY <1>1 DEF Alone, Exclusive
<1>2. CASE a = p
  BY <1>2 DEF Alone, Exclusive, Free
<1>3. CASE b = p
  BY <1>3 DEF Alone, Exclusive, Free
<1> QED
  BY <1>1, <1>2, <1>3

\* A session that leaves the rows alone does not disturb the others.
LEMMA OthersSteady ==
  ASSUME NEW p \in Sessions, NEW o \in Sessions \ {p}, Alone(p), UNCHANGED rows, Steady(o)
  PROVE  Steady(o)'
BY DEF Alone, rows, Steady, HoldsPolicy, HoldsAuthority, Path, NotRevoked, Written

\* Outside its transaction a session has nothing to keep.
LEMMA IdleSteady ==
  ASSUME NEW p \in Sessions, tx'[p].pc \in {"idle", "lookup", "answered"}
  PROVE  Steady(p)'
BY DEF Steady, HoldsPolicy, HoldsAuthority, Path, NotRevoked, Written

\* What a step must show of the session that takes it, if it writes no row.
LEMMA QuietInv ==
  ASSUME Inv, NEW p \in Sessions, Alone(p), UNCHANGED rows, Steady(p)', NEW L,
         \A lock \in L : Free(p, lock),
         tx'[p].holds = {} \/ tx'[p].holds = tx[p].holds \cup L
  PROVE  Inv'
<1>1. TypeOK'
  BY DEF Inv, TypeOK, Alone, rows
<1>2. Exclusive'
  BY ExclusiveStep DEF Inv
<1>3. \A o \in Sessions : Steady(o)'
  BY OthersSteady DEF Inv
<1>4. CounterBounded' /\ DecisionsProveCounter'
  BY DEF Inv, rows, CounterBounded, DecisionsProveCounter
<1> QED
  BY <1>1, <1>2, <1>3, <1>4 DEF Inv

\* The same for a step that takes no lock.
LEMMA LocklessInv ==
  ASSUME Inv, NEW p \in Sessions, Alone(p), UNCHANGED rows, Steady(p)',
         tx'[p].holds = {} \/ tx'[p].holds = tx[p].holds
  PROVE  Inv'
<1> DEFINE L == {}
<1>1. \A lock \in L : Free(p, lock)
  OBVIOUS
<1>2. tx'[p].holds = {} \/ tx'[p].holds = tx[p].holds \cup L
  OBVIOUS
<1> HIDE DEF L
<1> QED
  BY <1>1, <1>2, QuietInv

LEMMA QuietSteps ==
  ASSUME Inv, NEW p \in Sessions,
         \/ Begin(p) \/ LookUp(p) \/ LockPolicy(p) \/ CheckTerms(p) \/ Count(p)
         \/ CheckAuthority(p) \/ InsertCommand(p) \/ Leave(p)
  PROVE  Inv' /\ UNCHANGED rows
<1>1. TypeOK /\ Steady(p) /\ tx[p] \in Transaction
  BY DEF Inv, TypeOK
<1>2. \A j, k \in tx[p].job : j = k
  BY <1>1 DEF Transaction, Option
<1>3. CASE Begin(p)
  <2>1. Alone(p) /\ UNCHANGED rows /\ tx'[p].pc = "lookup" /\ tx'[p].holds = tx[p].holds
    BY <1>1, <1>3, BeginEffect
  <2> QED
    BY <2>1, IdleSteady, LocklessInv
<1>4. CASE Leave(p)
  <2>1. Alone(p) /\ UNCHANGED rows /\ tx'[p].pc = "idle" /\ tx'[p].holds = {}
    BY <1>1, <1>4, LeaveEffect
  <2> QED
    BY <2>1, IdleSteady, LocklessInv
<1>5. CASE LookUp(p)
  <2>1. /\ Alone(p) /\ UNCHANGED rows /\ tx'[p].job = tx[p].job
        /\ \/ tx'[p].pc = "answered" /\ tx'[p].holds = {}
           \/ /\ tx'[p].holds = tx[p].holds
              /\ \A j \in tx[p].job :
                   tx'[p].pc = IF j.kind = "provision" THEN "authority" ELSE "policy"
    BY <1>1, <1>5, LookUpEffect
  <2>2. Steady(p)'
    BY <2>1, IdleSteady DEF Steady, HoldsPolicy, HoldsAuthority, Path, NotRevoked, Written
  <2> QED
    BY <2>1, <2>2, LocklessInv
<1>6. CASE LockPolicy(p)
  <2>1. PICK j \in tx[p].job : TRUE
    BY <1>6 DEF LockPolicy
  <2> DEFINE L == {PolicyRow(j.policy)}
  <2>2. /\ Alone(p) /\ UNCHANGED rows /\ tx'[p].job = tx[p].job
        /\ \/ tx'[p].pc = "answered" /\ tx'[p].holds = {}
           \/ /\ Free(p, PolicyRow(j.policy))
              /\ tx'[p].holds = tx[p].holds \cup L
              /\ tx'[p].pc = IF j.kind = "admit" THEN "terms" ELSE "authority"
    BY <1>1, <1>6, LockPolicyEffect
  <2>3. Steady(p)'
    BY <1>2, <2>2, IdleSteady DEF Steady, HoldsPolicy, HoldsAuthority, Path, NotRevoked, Written
  <2>4. CASE tx'[p].holds = {}
    BY <2>2, <2>3, <2>4, LocklessInv
  <2>5. CASE Free(p, PolicyRow(j.policy)) /\ tx'[p].holds = tx[p].holds \cup L
    <3>1. \A lock \in L : Free(p, lock)
      BY <2>5
    <3> HIDE DEF L
    <3> QED
      BY <2>2, <2>3, <2>5, <3>1, QuietInv
  <2> QED
    BY <2>2, <2>4, <2>5
<1>7. CASE CheckTerms(p)
  <2>1. /\ Alone(p) /\ UNCHANGED rows /\ tx'[p].job = tx[p].job
        /\ \/ tx'[p].pc = "answered" /\ tx'[p].holds = {}
           \/ /\ tx'[p].pc = "count" /\ tx'[p].holds = tx[p].holds
              /\ \A j \in tx[p].job, v \in revoked : v.policy = j.policy => j.at < v.at
    BY <1>1, <1>7, CheckTermsEffect
  <2>2. tx[p].pc = "terms" /\ revoked' = revoked
    BY <1>7, <2>1 DEF CheckTerms, rows
  <2>3. Steady(p)'
    BY <1>1, <2>1, <2>2, IdleSteady
       DEF Steady, HoldsPolicy, HoldsAuthority, Path, NotRevoked, Written
  <2> QED
    BY <2>1, <2>3, LocklessInv
<1>8. CASE Count(p)
  <2>1. PICK j \in tx[p].job : TRUE
    BY <1>8 DEF Count
  <2>2. tx[p].pc = "count" /\ \A k \in tx[p].job : k.kind = "admit"
    BY <1>1, <1>8 DEF Count, Steady, Path
  <2> DEFINE L == {WindowLock(j.policy, j.window)}
  <2>3. /\ Alone(p) /\ UNCHANGED rows /\ tx'[p].job = tx[p].job
        /\ \/ tx'[p].pc = "answered" /\ tx'[p].holds = {}
           \/ /\ Free(p, WindowLock(j.policy, j.window))
              /\ tx'[p].holds = tx[p].holds \cup L
              /\ tx'[p].pc = "commit"
              /\ tx'[p].write = {DecisionOn(j, counter[<<j.policy, j.window>>])}
    BY <1>1, <1>8, <2>2, CountEffect
  <2>4. Steady(p)'
    <3>1. revoked' = revoked /\ counter' = counter
      BY <2>3 DEF rows
    <3> QED
      BY <1>1, <1>2, <2>2, <2>3, <3>1, IdleSteady
         DEF Steady, HoldsPolicy, HoldsAuthority, Path, NotRevoked, Written
  <2>5. CASE tx'[p].holds = {}
    BY <2>3, <2>4, <2>5, LocklessInv
  <2>6. CASE Free(p, WindowLock(j.policy, j.window)) /\ tx'[p].holds = tx[p].holds \cup L
    <3>1. \A lock \in L : Free(p, lock)
      BY <2>6
    <3> HIDE DEF L
    <3> QED
      BY <2>3, <2>4, <2>6, <3>1, QuietInv
  <2> QED
    BY <2>3, <2>5, <2>6
<1>9. CASE CheckAuthority(p)
  <2> DEFINE L == {AuthorityRows}
  <2>1. /\ Alone(p) /\ UNCHANGED rows /\ tx'[p].job = tx[p].job
        /\ \/ tx'[p].pc = "answered" /\ tx'[p].holds = {}
           \/ /\ authority /\ Free(p, AuthorityRows)
              /\ tx'[p].pc = "insert" /\ tx'[p].holds = tx[p].holds \cup L
    BY <1>1, <1>9, CheckAuthorityEffect
  <2>2. tx[p].pc = "authority" /\ authority' = authority
    BY <1>9, <2>1 DEF CheckAuthority, rows
  <2>3. Steady(p)'
    BY <1>1, <2>1, <2>2, IdleSteady
       DEF Steady, HoldsPolicy, HoldsAuthority, Path, NotRevoked, Written
  <2>4. CASE tx'[p].holds = {}
    BY <2>1, <2>3, <2>4, LocklessInv
  <2>5. CASE Free(p, AuthorityRows) /\ tx'[p].holds = tx[p].holds \cup L
    <3>1. \A lock \in L : Free(p, lock)
      BY <2>5
    <3> HIDE DEF L
    <3> QED
      BY <2>1, <2>3, <2>5, <3>1, QuietInv
  <2> QED
    BY <2>1, <2>4, <2>5
<1>10. CASE InsertCommand(p)
  <2>1. /\ Alone(p) /\ UNCHANGED rows /\ tx'[p].job = tx[p].job
        /\ \/ tx'[p].pc = "answered" /\ tx'[p].holds = {}
           \/ /\ tx'[p].pc = "commit" /\ tx'[p].holds = tx[p].holds
              /\ \A j \in tx[p].job : tx'[p].write = {j}
    BY <1>1, <1>10, InsertCommandEffect
  <2>2. tx[p].pc = "insert" /\ authority' = authority
    BY <1>10, <2>1 DEF InsertCommand, rows
  <2>3. Steady(p)'
    BY <1>1, <2>1, <2>2, IdleSteady
       DEF Steady, HoldsPolicy, HoldsAuthority, Path, NotRevoked, Written
  <2> QED
    BY <2>1, <2>3, LocklessInv
<1>11. UNCHANGED rows
  BY DEF Begin, LookUp, LockPolicy, CheckTerms, Count, CheckAuthority, InsertCommand, Leave
<1> QED
  BY <1>3, <1>4, <1>5, <1>6, <1>7, <1>8, <1>9, <1>10, <1>11

--------------------------------------------------------------------------------
(* A commit, and the change of the manager's authority. *)

\* What DecisionsProveCounter says of one window, its decisions D and its count n.
Here(D, q, w)      == {d \in D : d.request.policy = q /\ d.request.window = w}
AdmittedOf(E)      == {d \in E : d.disposition = "admitted"}
Proves(E, n) ==
  /\ {d.before : d \in AdmittedOf(E)} = 0 .. n - 1
  /\ \A d, e \in AdmittedOf(E) : d.before = e.before => d = e
  /\ \A d \in E \ AdmittedOf(E) : d.before = Limit

LEMMA ProvesCounter ==
  DecisionsProveCounter <=>
    \A q \in Policies, w \in Windows : Proves(Here(decisions, q, w), counter[<<q, w>>])
BY DEF DecisionsProveCounter, Proves, Here, AdmittedOf

\* The next decision, on the count the decisions so far prove.
LEMMA ProvesNext ==
  ASSUME NEW E, NEW n \in Nat, n <= Limit, Proves(E, n), NEW d, d.before = n,
         d.disposition = IF Admitted(n) THEN "admitted" ELSE "denied"
  PROVE  /\ n < Limit => Proves(E \cup {d}, n + 1) /\ d.disposition = "admitted"
         /\ ~(n < Limit) => Proves(E \cup {d}, n) /\ d.disposition # "admitted"
<1>1. CASE n < Limit
  <2>1. d.disposition = "admitted"
    BY <1>1 DEF Admitted
  <2>2. AdmittedOf(E \cup {d}) = AdmittedOf(E) \cup {d}
    BY <2>1 DEF AdmittedOf
  <2>3. {x.before : x \in AdmittedOf(E \cup {d})} = {x.before : x \in AdmittedOf(E)} \cup {n}
    BY <2>2
  <2>4. {x.before : x \in AdmittedOf(E \cup {d})} = 0 .. (n + 1) - 1
    <3>1. (0 .. n - 1) \cup {n} = 0 .. (n + 1) - 1
      OBVIOUS
    <3> QED
      BY <2>3, <3>1 DEF Proves
  <2>5. \A x \in AdmittedOf(E) : x.before # n
    <3>1. n \notin 0 .. n - 1
      OBVIOUS
    <3> QED
      BY <3>1 DEF Proves
  <2>6. \A x, y \in AdmittedOf(E \cup {d}) : x.before = y.before => x = y
    BY <2>2, <2>5 DEF Proves
  <2>7. \A x \in (E \cup {d}) \ AdmittedOf(E \cup {d}) : x.before = Limit
    BY <2>2 DEF Proves
  <2> QED
    BY <1>1, <2>1, <2>4, <2>6, <2>7 DEF Proves
<1>2. CASE ~(n < Limit)
  <2>1. d.disposition # "admitted" /\ n = Limit
    BY <1>2, TermsAssumption DEF Admitted
  <2>2. AdmittedOf(E \cup {d}) = AdmittedOf(E)
    BY <2>1 DEF AdmittedOf
  <2> QED
    BY <1>2, <2>1, <2>2 DEF Proves
<1> QED
  BY <1>1, <1>2

\* What a session at its commit writes.
LEMMA CommitWrites ==
  ASSUME Inv, NEW p \in Sessions, Commit(p)
  PROVE  \E j \in tx[p].job :
           /\ j \in Job /\ tx[p].pc = "commit"
           /\ \/ /\ j.kind = "admit"
                 /\ decisions' = decisions \cup {DecisionOn(j, counter[<<j.policy, j.window>>])}
                 /\ counter' = CounterAfter(DecisionOn(j, counter[<<j.policy, j.window>>]))
                 /\ UNCHANGED <<policies, revoked>>
              \/ /\ j.kind = "revoke" /\ revoked' = revoked \cup {j}
                 /\ UNCHANGED <<policies, decisions, counter>>
              \/ /\ j.kind = "provision" /\ policies' = policies \cup {j}
                 /\ UNCHANGED <<revoked, decisions, counter>>
<1>1. PICK j \in tx[p].job, w \in tx[p].write :
       \/ /\ j.kind = "admit"
          /\ decisions' = decisions \cup {w}
          /\ counter' = CounterAfter(w)
          /\ UNCHANGED <<policies, revoked>>
       \/ /\ j.kind = "revoke"
          /\ revoked' = revoked \cup {w}
          /\ UNCHANGED <<policies, decisions, counter>>
       \/ /\ j.kind = "provision"
          /\ policies' = policies \cup {w}
          /\ UNCHANGED <<revoked, decisions, counter>>
  BY DEF Commit
<1>2. tx[p].pc = "commit"
  BY DEF Commit
<1>3. w = IF j.kind = "admit" THEN DecisionOn(j, counter[<<j.policy, j.window>>]) ELSE j
  BY <1>1, <1>2 DEF Inv, Steady, Written
<1>4. j \in Job
  BY <1>1 DEF Inv, TypeOK, Transaction, Option
<1>5. CASE j.kind = "admit"
  BY <1>1, <1>2, <1>3, <1>4, <1>5
<1>6. CASE j.kind = "revoke"
  BY <1>1, <1>2, <1>3, <1>4, <1>6
<1>7. CASE j.kind = "provision"
  BY <1>1, <1>2, <1>3, <1>4, <1>7
<1> QED
  BY <1>1, <1>5, <1>6, <1>7

\* Two transactions that both hold the row of their policy have not the same.
LEMMA PolicyLocked ==
  ASSUME Inv, NEW p \in Sessions, NEW o \in Sessions \ {p},
         NEW j \in tx[p].job, NEW k \in tx[o].job,
         tx[p].pc = "commit", j.kind \in {"admit", "revoke"},
         tx[o].pc \in {"count", "commit"}, k.kind = "admit"
  PROVE  j.policy # k.policy
<1>1. PolicyRow(j.policy) \in tx[p].holds /\ PolicyRow(k.policy) \in tx[o].holds
  BY DEF Inv, Steady, HoldsPolicy
<1> QED
  BY <1>1 DEF Inv, Exclusive

LEMMA CommitInv ==
  ASSUME Inv, NEW p \in Sessions, Commit(p)
  PROVE  Inv'
<1> DEFINE count(j) == counter[<<j.policy, j.window>>]
<1>1. PICK j \in tx[p].job :
        /\ j \in Job /\ tx[p].pc = "commit"
        /\ \/ /\ j.kind = "admit"
              /\ decisions' = decisions \cup {DecisionOn(j, count(j))}
              /\ counter' = CounterAfter(DecisionOn(j, count(j)))
              /\ UNCHANGED <<policies, revoked>>
           \/ /\ j.kind = "revoke" /\ revoked' = revoked \cup {j}
              /\ UNCHANGED <<policies, decisions, counter>>
           \/ /\ j.kind = "provision" /\ policies' = policies \cup {j}
              /\ UNCHANGED <<revoked, decisions, counter>>
  BY CommitWrites
<1>2. /\ Alone(p) /\ UNCHANGED authority /\ tx'[p].pc = "answered" /\ tx'[p].holds = {}
  BY CommitEffect DEF Inv
<1>3. TypeOK /\ Exclusive /\ CounterBounded /\ \A o \in Sessions : Steady(o)
  BY DEF Inv
<1>4. ASSUME j.kind = "admit"
      PROVE  /\ j \in Admissions /\ <<j.policy, j.window>> \in Policies \X Windows
             /\ count(j) \in Nat /\ count(j) <= Limit
             /\ DecisionOn(j, count(j)) \in Decision
             /\ DecisionOn(j, count(j)).request = j /\ DecisionOn(j, count(j)).before = count(j)
             /\ DecisionOn(j, count(j)).disposition
                  = IF Admitted(count(j)) THEN "admitted" ELSE "denied"
  <2>1. j \in Admissions
    BY <1>1, <1>4, JobType
  <2>2. <<j.policy, j.window>> \in Policies \X Windows
    BY <2>1, RequestsAssumption DEF Windows
  <2>3. count(j) \in Nat /\ count(j) <= Limit
    BY <1>3, <2>2 DEF TypeOK, CounterBounded
  <2>4. DecisionOn(j, count(j)) \in Decision
    BY <2>1, <2>3, DecisionType
  <2>5. /\ DecisionOn(j, count(j)).request = j /\ DecisionOn(j, count(j)).before = count(j)
        /\ DecisionOn(j, count(j)).disposition
             = IF Admitted(count(j)) THEN "admitted" ELSE "denied"
    BY DEF DecisionOn
  <2> QED
    BY <2>1, <2>2, <2>3, <2>4, <2>5
<1>5. ASSUME j.kind = "admit"
      PROVE  counter' = IF count(j) < Limit
                        THEN [counter EXCEPT ![<<j.policy, j.window>>] = count(j) + 1]
                        ELSE counter
  BY <1>1, <1>4, <1>5 DEF CounterAfter, Admitted
<1> HIDE DEF count
<1>6. TypeOK'
  <2>1. tx' \in [Sessions -> Transaction] /\ authority' \in BOOLEAN
    BY <1>2, <1>3 DEF Alone, TypeOK
  <2>2. CASE j.kind = "admit"
    <3>1. counter' \in [Policies \X Windows -> Nat]
      BY <1>3, <1>4, <1>5, <2>2 DEF TypeOK
    <3>2. decisions' \subseteq Decision /\ policies' \subseteq Provisions /\ revoked' \subseteq Revocations
      BY <1>1, <1>3, <1>4, <2>2 DEF TypeOK
    <3> QED
      BY <2>1, <3>1, <3>2 DEF TypeOK
  <2>3. CASE j.kind = "revoke"
    <3>1. j \in Revocations
      BY <1>1, <2>3, JobType
    <3> QED
      BY <1>1, <1>3, <2>1, <2>3, <3>1 DEF TypeOK
  <2>4. CASE j.kind = "provision"
    <3>1. j \in Provisions
      BY <1>1, <2>4, JobType
    <3> QED
      BY <1>1, <1>3, <2>1, <2>4, <3>1 DEF TypeOK
  <2> QED
    BY <1>1, <2>2, <2>3, <2>4
<1>7. Exclusive'
  BY <1>2, <1>3 DEF Exclusive, Alone
<1>8. \A o \in Sessions : Steady(o)'
  <2> SUFFICES ASSUME NEW o \in Sessions PROVE Steady(o)'
    OBVIOUS
  <2>1. CASE o = p
    BY <1>2, <2>1, IdleSteady
  <2>2. CASE o # p
    <3>1. tx'[o] = tx[o] /\ authority' = authority /\ Steady(o)
      BY <1>2, <1>3, <2>2 DEF Alone
    <3>2. HoldsPolicy(o)' /\ HoldsAuthority(o)' /\ Path(o)'
      BY <3>1 DEF Steady, HoldsPolicy, HoldsAuthority, Path
    <3>3. NotRevoked(o)'
      <4> SUFFICES ASSUME NEW k \in tx[o].job, k.kind = "admit", tx[o].pc \in {"count", "commit"},
                          NEW v \in revoked', v.policy = k.policy
                   PROVE  k.at < v.at
        BY <3>1 DEF NotRevoked
      <4>1. CASE v \in revoked
        BY <3>1, <4>1 DEF Steady, NotRevoked
      <4>2. CASE v \notin revoked
        <5>1. v = j /\ j.kind = "revoke"
          BY <1>1, <4>2
        <5>2. j.policy # k.policy
          BY <1>1, <2>2, <5>1, PolicyLocked
        <5> QED
          BY <5>1, <5>2
      <4> QED
        BY <4>1, <4>2
    <3>4. Written(o)'
      <4> SUFFICES ASSUME tx[o].pc = "commit", NEW k \in tx[o].job, k.kind = "admit"
                   PROVE  counter'[<<k.policy, k.window>>] = counter[<<k.policy, k.window>>]
        BY <3>1 DEF Written, Steady
      <4>1. CASE j.kind = "admit"
        <5>1. j.policy # k.policy
          BY <1>1, <2>2, <4>1, PolicyLocked
        <5>2. <<j.policy, j.window>> # <<k.policy, k.window>>
          BY <5>1
        <5>3. k \in Job /\ k \in Admissions /\ <<k.policy, k.window>> \in Policies \X Windows
          <6>1. k \in Job
            BY <1>3 DEF TypeOK, Transaction, Option
          <6> QED
            BY <6>1, JobType, RequestsAssumption DEF Windows
        <5> QED
          BY <1>3, <1>4, <1>5, <4>1, <5>2, <5>3 DEF TypeOK
      <4>2. CASE j.kind # "admit"
        BY <1>1, <4>2
      <4> QED
        BY <4>1, <4>2
    <3> QED
      BY <3>2, <3>3, <3>4 DEF Steady
  <2> QED
    BY <2>1, <2>2
<1>9. CounterBounded'
  <2>1. CASE j.kind = "admit"
    <3> SUFFICES ASSUME NEW k \in Policies \X Windows PROVE counter'[k] <= Limit
      BY DEF CounterBounded
    <3>1. counter[k] <= Limit
      BY <1>3 DEF CounterBounded
    <3> QED
      BY <1>3, <1>4, <1>5, <2>1, <3>1, TermsAssumption DEF TypeOK
  <2>2. CASE j.kind # "admit"
    BY <1>1, <1>3, <2>2 DEF CounterBounded
  <2> QED
    BY <2>1, <2>2
<1>10. DecisionsProveCounter'
  <2> SUFFICES ASSUME NEW q \in Policies, NEW w \in Windows
               PROVE  Proves(Here(decisions', q, w), counter'[<<q, w>>])
    BY DEF DecisionsProveCounter, Proves, Here, AdmittedOf
  <2>1. Proves(Here(decisions, q, w), counter[<<q, w>>])
    BY ProvesCounter DEF Inv
  <2>2. CASE j.kind = "admit" /\ j.policy = q /\ j.window = w
    <3> DEFINE d == DecisionOn(j, count(j))
    <3>1. d.request = j /\ d.before = count(j)
          /\ d.disposition = IF Admitted(count(j)) THEN "admitted" ELSE "denied"
      BY <1>4, <2>2
    <3>2. decisions' = decisions \cup {d}
      BY <1>1, <2>2
    <3> HIDE DEF d
    <3>3. Here(decisions', q, w) = Here(decisions, q, w) \cup {d}
      BY <2>2, <3>1, <3>2 DEF Here
    <3>4. counter[<<q, w>>] = count(j) /\ count(j) \in Nat /\ count(j) <= Limit
      BY <1>4, <2>2 DEF count
    <3>5. counter'[<<q, w>>] = IF count(j) < Limit THEN count(j) + 1 ELSE count(j)
      BY <1>3, <1>5, <2>2, <3>4 DEF TypeOK
    <3>6. /\ count(j) < Limit => Proves(Here(decisions, q, w) \cup {d}, count(j) + 1)
          /\ ~(count(j) < Limit) => Proves(Here(decisions, q, w) \cup {d}, count(j))
      BY <2>1, <3>1, <3>4, ProvesNext
    <3> QED
      BY <3>3, <3>5, <3>6
  <2>3. CASE j.kind = "admit" /\ ~(j.policy = q /\ j.window = w)
    <3>1. Here(decisions', q, w) = Here(decisions, q, w)
      BY <1>1, <1>4, <2>3 DEF Here
    <3>2. counter'[<<q, w>>] = counter[<<q, w>>]
      <4>1. <<j.policy, j.window>> # <<q, w>>
        BY <2>3
      <4> QED
        BY <1>3, <1>4, <1>5, <2>3, <4>1 DEF TypeOK
    <3> QED
      BY <2>1, <3>1, <3>2
  <2>4. CASE j.kind # "admit"
    BY <1>1, <2>1, <2>4
  <2> QED
    BY <2>2, <2>3, <2>4
<1> QED
  BY <1>6, <1>7, <1>8, <1>9, <1>10 DEF Inv

LEMMA AuthorityInv ==
  ASSUME Inv, AuthorityChanges
  PROVE  Inv'
<1>1. /\ authority' = ~authority /\ UNCHANGED <<policies, revoked, decisions, counter, tx>>
      /\ \A o \in Sessions : AuthorityRows \notin tx[o].holds
  BY DEF AuthorityChanges
<1>2. TypeOK'
  <2>1. authority' \in BOOLEAN
    BY <1>1
  <2> QED
    BY <1>1, <2>1 DEF Inv, TypeOK
<1>3. \A o \in Sessions : HoldsAuthority(o)'
  BY <1>1 DEF Inv, Steady, HoldsAuthority
<1>4. \A o \in Sessions : HoldsPolicy(o)' /\ Path(o)' /\ NotRevoked(o)' /\ Written(o)'
  BY <1>1 DEF Inv, Steady, HoldsPolicy, Path, NotRevoked, Written
<1>5. Exclusive' /\ CounterBounded' /\ DecisionsProveCounter'
  BY <1>1 DEF Inv, Exclusive, CounterBounded, DecisionsProveCounter
<1> QED
  BY <1>2, <1>3, <1>4, <1>5 DEF Inv, Steady

LEMMA InvInit == Init => Inv
<1> SUFFICES ASSUME Init PROVE Inv
  OBVIOUS
<1>1. \A p \in Sessions : tx[p] = NoTransaction
  BY DEF Init
<1>2. TypeOK
  BY NoTransactionType DEF Init, TypeOK
<1>3. Exclusive
  BY <1>1, NoTransactionType DEF Exclusive
<1>4. \A p \in Sessions : Steady(p)
  BY <1>1, NoTransactionType DEF Steady, HoldsPolicy, HoldsAuthority, Path, NotRevoked, Written
<1>5. \A k \in Policies \X Windows : counter[k] = 0
  BY DEF Init
<1>6. CounterBounded
  BY <1>5, TermsAssumption DEF CounterBounded
<1>7. DecisionsProveCounter
  <2> SUFFICES ASSUME NEW q \in Policies, NEW w \in Windows
               PROVE  Proves(Here(decisions, q, w), counter[<<q, w>>])
    BY ProvesCounter
  <2>1. Here(decisions, q, w) = {} /\ AdmittedOf({}) = {}
    BY DEF Init, Here, AdmittedOf
  <2>2. counter[<<q, w>>] = 0 /\ 0 .. 0 - 1 = {}
    BY <1>5
  <2> QED
    BY <2>1, <2>2 DEF Proves
<1> QED
  BY <1>2, <1>3, <1>4, <1>6, <1>7 DEF Inv

LEMMA InvNext == Inv /\ [Next]_vars => Inv'
<1> SUFFICES ASSUME Inv, [Next]_vars PROVE Inv'
  OBVIOUS
<1>1. CASE UNCHANGED vars
  BY <1>1 DEF vars, Inv, TypeOK, Exclusive, CounterBounded, DecisionsProveCounter, Steady,
              HoldsPolicy, HoldsAuthority, Path, NotRevoked, Written
<1>2. CASE AuthorityChanges
  BY <1>2, AuthorityInv
<1>3. ASSUME NEW p \in Sessions, Begin(p) \/ Step(p) \/ Leave(p) PROVE Inv'
  BY <1>3, QuietSteps, CommitInv DEF Step
<1> QED
  BY <1>1, <1>2, <1>3 DEF Next

LEMMA Invariance == Spec => []Inv
BY InvInit, InvNext, PTL DEF Spec

--------------------------------------------------------------------------------
(* The results. *)

\* The state of rate admission always has its type, for any number of sessions.
THEOREM TypeCorrect == Spec => []TypeOK
<1>1. Inv => TypeOK
  BY DEF Inv
<1> QED
  BY <1>1, Invariance, PTL

\* The immutable decisions always account for the counter of their window: the
\* lock of the policy row lets no admission lose the count of another.
THEOREM CounterProved == Spec => []DecisionsProveCounter
<1>1. Inv => DecisionsProveCounter
  BY DEF Inv
<1> QED
  BY <1>1, Invariance, PTL

\* No step of the rows but a commit; what it writes was steady.
LEMMA RowsByCommit ==
  ASSUME Inv, [Next]_vars, rows' # rows
  PROVE  AuthorityChanges \/ \E p \in Sessions : Commit(p)
BY QuietSteps DEF Next, Step, vars, rows

\* A decision that is committed after a revocation lies before it: admission
\* reads the revocation under the lock that the revocation needs, too.
THEOREM RevocationFinal == Spec => RevocationIsFinal
<1> DEFINE Final == \A d \in decisions' \ decisions, v \in revoked :
                      v.policy = d.request.policy => d.request.at < v.at
<1>1. ASSUME Inv, [Next]_vars PROVE Final
  <2> SUFFICES ASSUME NEW d \in decisions', d \notin decisions, NEW v \in revoked,
                      v.policy = d.request.policy
               PROVE  d.request.at < v.at
    OBVIOUS
  <2>1. PICK p \in Sessions : Commit(p)
    <3>1. decisions' # decisions /\ rows' # rows
      BY DEF rows
    <3> QED
      BY <1>1, <3>1, RowsByCommit DEF AuthorityChanges
  <2>2. PICK j \in tx[p].job :
          /\ tx[p].pc = "commit" /\ j.kind = "admit"
          /\ d = DecisionOn(j, counter[<<j.policy, j.window>>])
    BY <1>1, <2>1, CommitWrites
  <2>3. d.request = j
    BY <2>2 DEF DecisionOn
  <2> QED
    BY <1>1, <2>2, <2>3 DEF Inv, Steady, NotRevoked
<1>2. Inv /\ [Next]_vars => [Final]_vars
  BY <1>1
<1>3. RevocationIsFinal <=> [][Final]_vars
  BY DEF RevocationIsFinal
<1> HIDE DEF Final
<1> QED
  BY <1>2, <1>3, Invariance, PTL DEF Spec

\* A policy is provisioned or revoked only while its manager has the
\* authority: the rows that grant it stay locked to the commit.
THEOREM CommandsAuthorized == Spec => CommandsAreAuthorized
<1> DEFINE Authorized == policies' # policies \/ revoked' # revoked => authority
<1>1. ASSUME Inv, [Next]_vars, policies' # policies \/ revoked' # revoked PROVE authority
  <2>1. PICK p \in Sessions : Commit(p)
    <3>1. rows' # rows
      BY <1>1 DEF rows
    <3> QED
      BY <1>1, <3>1, RowsByCommit DEF AuthorityChanges
  <2>2. PICK j \in tx[p].job : tx[p].pc = "commit" /\ j.kind # "admit"
    BY <1>1, <2>1, CommitWrites
  <2> QED
    BY <1>1, <2>2 DEF Inv, Steady, HoldsAuthority
<1>2. Inv /\ [Next]_vars => [Authorized]_vars
  BY <1>1
<1>3. CommandsAreAuthorized <=> [][Authorized]_vars
  BY DEF CommandsAreAuthorized
<1> HIDE DEF Authorized
<1> QED
  BY <1>2, <1>3, Invariance, PTL DEF Spec

--------------------------------------------------------------------------------
(* The windows of the epoch grid.                                              *)

Width == WindowSeconds * TicksPerSecond

LEMMA WidthType == Width \in Nat \ {0} /\ TicksPerSecond \in Nat \ {0}
<1>1. WindowSeconds \in Nat \ {0} /\ TicksPerSecond \in Nat \ {0}
  BY TermsAssumption
<1>2. \A a, b \in Nat \ {0} : a * b \in Nat \ {0}
  OBVIOUS
<1> QED
  BY <1>1, <1>2 DEF Width

LEMMA Quotient ==
  ASSUME NEW x \in Nat, NEW n \in Nat \ {0}
  PROVE  /\ x \div n \in Nat
         /\ (x \div n) * n <= x /\ x < (x \div n) * n + n
OBVIOUS

LEMMA QuotientUnique ==
  ASSUME NEW a \in Nat, NEW b \in Nat, NEW n \in Nat \ {0},
         a * n < b * n + n, b * n < a * n + n
  PROVE  a = b
OBVIOUS

LEMMA ProductType ==
  ASSUME NEW a \in Nat, NEW n \in Nat
  PROVE  a * n \in Nat
OBVIOUS

\* An instant lies in its window of the grid, which is as long as the policy says.
LEMMA WindowContains ==
  ASSUME NEW t \in Nat
  PROVE  /\ WindowFor(t)[1] \in Nat /\ WindowFor(t)[2] \in Nat
         /\ WindowFor(t)[2] = WindowFor(t)[1] + Width
         /\ WindowFor(t)[1] <= t /\ t < WindowFor(t)[2]
<1> DEFINE k == t \div Width
<1>1. /\ WindowFor(t)[1] = k * Width /\ WindowFor(t)[2] = k * Width + Width
  BY DEF WindowFor, Width
<1>2. k \in Nat /\ k * Width <= t /\ t < k * Width + Width
  BY WidthType, Quotient
<1>3. k * Width \in Nat /\ Width \in Nat
  BY <1>2, WidthType, ProductType
<1> HIDE DEF k
<1> QED
  BY <1>1, <1>2, <1>3

\* Windows of the grid that share an instant are one window.
LEMMA WindowUnique ==
  ASSUME NEW t \in Nat, NEW u \in Nat, WindowFor(t)[1] <= u, u < WindowFor(t)[2]
  PROVE  WindowFor(u) = WindowFor(t)
<1> DEFINE j == t \div Width
           k == u \div Width
<1>1. /\ WindowFor(t) = <<j * Width, j * Width + Width>>
      /\ WindowFor(u) = <<k * Width, k * Width + Width>>
  BY DEF WindowFor, Width
<1>2. j \in Nat /\ k \in Nat /\ k * Width <= u /\ u < k * Width + Width
  BY WidthType, Quotient
<1>3. j * Width \in Nat /\ k * Width \in Nat /\ Width \in Nat \ {0}
  BY <1>2, WidthType, ProductType
<1>4. j * Width <= u /\ u < j * Width + Width
  BY <1>1
<1> HIDE DEF j, k
<1>5. j * Width < k * Width + Width /\ k * Width < j * Width + Width
  <2>1. \A a, b, c, w \in Nat : a <= c /\ c < b + w => a < b + w
    OBVIOUS
  <2> QED
    BY <1>2, <1>3, <1>4, <2>1
<1>6. j = k
  BY <1>2, <1>3, <1>5, QuotientUnique
<1> QED
  BY <1>1, <1>6

\* The seconds told to a denied caller, rounded up, end with or after its window.
LEMMA RetryLands ==
  ASSUME NEW t \in Nat
  PROVE  LET w == WindowFor(t)
             back == t + RetryAfter(w, t) * TicksPerSecond
         IN  /\ RetryAfter(w, t) \in 1 .. WindowSeconds /\ back \in Nat
             /\ w[2] <= back /\ back < w[2] + TicksPerSecond
<1> DEFINE w == WindowFor(t)
           T == TicksPerSecond
           x == w[2] - t + T - 1
           s == x \div T
<1>1. /\ w[1] \in Nat /\ w[2] \in Nat /\ w[2] = w[1] + Width /\ w[1] <= t /\ t < w[2]
  BY WindowContains
<1>2. T \in Nat \ {0} /\ Width \in Nat \ {0} /\ WindowSeconds \in Nat /\ WindowSeconds <= 86400
  BY WidthType, TermsAssumption
<1> HIDE DEF w
<1>3. x \in Nat /\ T <= x /\ x < Width + T
  BY <1>1, <1>2
<1>4. RetryAfter(w, t) = CASE s < 1 -> 1 [] s > 86400 -> 86400 [] OTHER -> s
  BY DEF RetryAfter
<1> HIDE DEF T, x
<1>5. s \in Nat /\ s * T <= x /\ x < s * T + T
  BY <1>2, <1>3, Quotient
<1> HIDE DEF s
<1>6. s # 0
  <2> SUFFICES ASSUME s = 0 PROVE FALSE
    OBVIOUS
  <2>1. s * T = 0
    BY <1>2
  <2> QED
    BY <1>2, <1>3, <1>5, <2>1
<1>7. s <= WindowSeconds
  <2>1. s * T < WindowSeconds * T + T
    <3>1. Width = WindowSeconds * T /\ s * T \in Nat
      BY <1>2, <1>5, ProductType DEF Width, T
    <3> QED
      BY <1>2, <1>3, <1>5, <3>1
  <2>2. ASSUME NEW a \in Nat, NEW b \in Nat, NEW n \in Nat \ {0}, a * n < b * n + n
        PROVE  a <= b
    BY <2>2
  <2> QED
    BY <1>2, <1>5, <2>1, <2>2
<1>8. RetryAfter(w, t) = s
  BY <1>2, <1>4, <1>5, <1>6, <1>7
<1>9. s * T \in Nat
  BY <1>2, <1>5, ProductType
<1>10. t + s * T \in Nat /\ w[2] <= t + s * T /\ t + s * T < w[2] + T
  BY <1>1, <1>2, <1>5, <1>9 DEF x
<1>11. s \in 1 .. WindowSeconds
  BY <1>2, <1>5, <1>6, <1>7
<1> QED
  BY <1>8, <1>10, <1>11 DEF w, T

--------------------------------------------------------------------------------
(* What is decided is decided in the window of the grid, and a denied caller   *)
(* is told the rest of it.                                                     *)

InWindow(p) ==
  \A j \in tx[p].job :
    j.kind = "admit" /\ tx[p].pc \in {"count", "commit"} => j.window = WindowFor(j.at)

Decided(d) ==
  /\ d.request.window = WindowFor(d.request.at)
  /\ d.retry \subseteq {RetryAfter(d.request.window, d.request.at)}

Windowed == (\A p \in Sessions : InWindow(p)) /\ \A d \in decisions : Decided(d)

\* A step without a commit reaches the count with the terms checked, or keeps
\* the job with which it went there.
LEMMA WindowKept ==
  ASSUME Inv, NEW p \in Sessions, InWindow(p),
         \/ Begin(p) \/ LookUp(p) \/ LockPolicy(p) \/ CheckTerms(p) \/ Count(p)
         \/ CheckAuthority(p) \/ InsertCommand(p) \/ Leave(p)
  PROVE  Alone(p) /\ InWindow(p)'
<1>1. TypeOK /\ Path(p)
  BY DEF Inv, Steady
<1>2. CASE Begin(p)
  BY <1>1, <1>2, BeginEffect DEF InWindow
<1>3. CASE Leave(p)
  BY <1>1, <1>3, LeaveEffect DEF InWindow
<1>4. CASE LookUp(p)
  BY <1>1, <1>4, LookUpEffect DEF InWindow
<1>5. CASE LockPolicy(p)
  BY <1>1, <1>5, LockPolicyEffect DEF InWindow
<1>6. CASE CheckTerms(p)
  BY <1>1, <1>6, CheckTermsEffect DEF InWindow
<1>7. CASE Count(p)
  <2>1. tx[p].pc = "count" /\ \A j \in tx[p].job : j.kind = "admit"
    BY <1>1, <1>7 DEF Count, Path
  <2> QED
    BY <1>1, <1>7, <2>1, CountEffect DEF InWindow
<1>8. CASE CheckAuthority(p)
  BY <1>1, <1>8, CheckAuthorityEffect DEF InWindow
<1>9. CASE InsertCommand(p)
  <2>1. \A j \in tx[p].job : j.kind # "admit"
    BY <1>1, <1>9 DEF InsertCommand, Path
  <2> QED
    BY <1>1, <1>9, <2>1, InsertCommandEffect DEF InWindow
<1> QED
  BY <1>2, <1>3, <1>4, <1>5, <1>6, <1>7, <1>8, <1>9

LEMMA OthersInWindow ==
  ASSUME NEW p \in Sessions, Alone(p), InWindow(p)', \A o \in Sessions : InWindow(o)
  PROVE  \A o \in Sessions : InWindow(o)'
<1> SUFFICES ASSUME NEW o \in Sessions \ {p} PROVE InWindow(o)'
  OBVIOUS
<1>1. tx'[o] = tx[o] /\ InWindow(o)
  BY DEF Alone
<1> QED
  BY <1>1 DEF InWindow

LEMMA CommitDecides ==
  ASSUME Inv, Windowed, NEW p \in Sessions, Commit(p)
  PROVE  Alone(p) /\ InWindow(p)' /\ \A d \in decisions' : Decided(d)
<1>1. /\ Alone(p) /\ tx'[p].pc = "answered"
  BY CommitEffect DEF Inv
<1>2. InWindow(p)'
  BY <1>1 DEF InWindow
<1>3. ASSUME NEW d \in decisions', d \notin decisions PROVE Decided(d)
  <2>1. PICK j \in tx[p].job :
          /\ tx[p].pc = "commit" /\ j.kind = "admit"
          /\ d = DecisionOn(j, counter[<<j.policy, j.window>>])
    BY <1>3, CommitWrites
  <2>2. d.request = j /\ d.retry \subseteq {RetryAfter(j.window, j.at)}
    BY <2>1 DEF DecisionOn
  <2>3. j.window = WindowFor(j.at)
    BY <2>1 DEF Windowed, InWindow
  <2> QED
    BY <2>2, <2>3 DEF Decided
<1> QED
  BY <1>1, <1>2, <1>3 DEF Windowed

LEMMA WindowedStep == Inv /\ Windowed /\ [Next]_vars => Windowed'
<1> SUFFICES ASSUME Inv, Windowed, [Next]_vars PROVE Windowed'
  OBVIOUS
<1>1. CASE UNCHANGED vars \/ AuthorityChanges
  BY <1>1 DEF vars, AuthorityChanges, Windowed, InWindow
<1>2. ASSUME NEW p \in Sessions, Commit(p) PROVE Windowed'
  BY <1>2, CommitDecides, OthersInWindow DEF Windowed
<1>3. ASSUME NEW p \in Sessions, (Begin(p) \/ Step(p) \/ Leave(p)) /\ ~Commit(p)
      PROVE  Windowed'
  <2>1. Alone(p) /\ InWindow(p)'
    BY <1>3, WindowKept DEF Windowed, Step
  <2>2. decisions' = decisions
    BY <1>3, QuietSteps DEF Step, rows
  <2> QED
    BY <2>1, <2>2, OthersInWindow DEF Windowed
<1> QED
  BY <1>1, <1>2, <1>3 DEF Next

LEMMA WindowedAlways == Spec => []Windowed
<1>1. Init => Windowed
  BY DEF Init, Windowed, InWindow, NoTransaction
<1> QED
  BY <1>1, WindowedStep, Invariance, PTL DEF Spec

\* No window of the grid admits more than the limit: its admitted decisions
\* found different counts, all below the counter.
THEOREM LimitIsKept == Spec => []LimitHolds
<1>1. ASSUME Inv, Windowed PROVE LimitHolds
  <2> SUFFICES ASSUME NEW q \in Policies, NEW e \in decisions
               PROVE  Cardinality({d \in decisions :
                        /\ d.request.policy = q /\ d.disposition = "admitted"
                        /\ WindowFor(e.request.at)[1] <= d.request.at
                        /\ d.request.at < WindowFor(e.request.at)[2]}) <= Limit
    BY DEF LimitHolds
  <2> DEFINE w == WindowFor(e.request.at)
             A == {d \in decisions : /\ d.request.policy = q /\ d.disposition = "admitted"
                                     /\ w[1] <= d.request.at /\ d.request.at < w[2]}
             f == [d \in A |-> d.before]
  <2>1. \A d \in decisions : d.request \in Admissions /\ d.request.at \in Nat /\ d.request.window \in Windows
    BY <1>1, RequestsAssumption DEF Inv, TypeOK, Decision, Instant, Windows
  <2>2. ASSUME NEW d \in A PROVE d.request.window = w
    <3>1. WindowFor(d.request.at) = w
      BY <2>1, WindowUnique
    <3> QED
      BY <1>1, <3>1 DEF Windowed, Decided
  <2>3. e.request.window = w /\ w \in Windows
    BY <1>1, <2>1 DEF Windowed, Decided
  <2>4. A \subseteq AdmittedOf(Here(decisions, q, w))
    BY <2>2 DEF Here, AdmittedOf
  <2>5. counter[<<q, w>>] \in Nat /\ counter[<<q, w>>] <= Limit /\ Limit \in Nat
    BY <1>1, <2>3, TermsAssumption DEF Inv, TypeOK, CounterBounded
  <2>6. Proves(Here(decisions, q, w), counter[<<q, w>>])
    BY <1>1, <2>3, ProvesCounter DEF Inv
  <2>7. \A d \in A : d.before \in 0 .. Limit - 1
    <3>1. \A d \in A : d.before \in 0 .. counter[<<q, w>>] - 1
      BY <2>4, <2>6 DEF Proves
    <3> QED
      BY <2>5, <3>1
  <2>8. \A c, d \in A : c.before = d.before => c = d
    BY <2>4, <2>6 DEF Proves
  <2> HIDE DEF A, w
  <2>9. f \in Injection(A, 0 .. Limit - 1)
    BY <2>7, <2>8 DEF Injection, IsInjective
  <2>10. IsFiniteSet(0 .. Limit - 1) /\ Cardinality(0 .. Limit - 1) = Limit
    <3>1. 0 \in Int /\ Limit - 1 \in Int /\ ~(0 > Limit - 1) /\ Limit - 1 - 0 + 1 = Limit
      BY TermsAssumption
    <3> QED
      BY <3>1, FS_Interval
  <2> HIDE DEF f
  <2>11. Cardinality(A) <= Limit
    BY <2>9, <2>10, FS_Injection
  <2> QED
    BY <2>11 DEF A, w
<1> QED
  BY <1>1, Invariance, WindowedAlways, PTL

\* The seconds a denied caller is told bring it into a new window, and not a
\* whole second later than that takes.
THEOREM RetriesLand == Spec => []RetryMeetsNextWindow
<1>1. ASSUME Inv, Windowed PROVE RetryMeetsNextWindow
  <2> SUFFICES ASSUME NEW d \in decisions, NEW s \in d.retry
               PROVE  LET back == d.request.at + s * TicksPerSecond
                      IN  /\ WindowFor(back) # d.request.window
                          /\ back < d.request.window[2] + TicksPerSecond
    BY DEF RetryMeetsNextWindow
  <2> DEFINE back == d.request.at + s * TicksPerSecond
             w == d.request.window
  <2>1. d.request.at \in Nat
    BY <1>1, RequestsAssumption DEF Inv, TypeOK, Decision, Instant
  <2>2. w = WindowFor(d.request.at) /\ s = RetryAfter(w, d.request.at)
    BY <1>1 DEF Windowed, Decided
  <2>3. back \in Nat /\ w[2] <= back /\ back < w[2] + TicksPerSecond
    BY <2>1, <2>2, RetryLands
  <2>4. w[2] \in Nat
    BY <2>1, <2>2, WindowContains
  <2> HIDE DEF back, w
  <2>5. WindowFor(back) # w
    <3>1. back < WindowFor(back)[2]
      BY <2>3, WindowContains
    <3> QED
      BY <2>3, <2>4, <3>1
  <2> QED
    BY <2>3, <2>5 DEF back, w
<1> QED
  BY <1>1, Invariance, WindowedAlways, PTL

--------------------------------------------------------------------------------
(***************************************************************************)
(* The contract.  Beside what the locks keep, a commit owes two things to  *)
(* rows that nobody deletes and to unique constraints: the policy that was *)
(* found is still there (Founded), and neither a committed row nor another *)
(* pending one has the identity of the row it is about to publish (Fresh). *)
(***************************************************************************)

Founded(p) ==
  \A j \in tx[p].job :
    /\ j.kind = "admit" /\ tx[p].pc \in {"count", "commit"} =>
         /\ \E c \in policies : c.policy = j.policy /\ c.id = j.provision
         /\ ValidFrom <= j.at /\ j.at < ValidUntil
    /\ j.kind = "revoke" /\ tx[p].pc \in {"authority", "insert", "commit"} =>
         \E c \in policies : c.policy = j.policy

\* Two rows that a unique constraint keeps apart.
Collide(j, k) ==
  /\ k.kind = j.kind
  /\ k.id = j.id \/ (j.kind # "admit" /\ k.policy = j.policy)

Unstored(p) == tx[p].pc = "commit" => \A j \in tx[p].job : Stored(j) = {}

Unrivalled(p, o) ==
  tx[p].pc = "commit" /\ tx[o].pc = "commit" =>
    \A j \in tx[p].job, k \in tx[o].job : ~Collide(j, k)

Firm ==
  /\ \A p \in Sessions : Founded(p) /\ Unstored(p)
  /\ \A p, o \in Sessions : p # o => Unrivalled(p, o)

LEMMA CollideBothWays ==
  ASSUME NEW j, NEW k, Collide(j, k)
  PROVE  Collide(k, j)
BY DEF Collide

\* An insert that goes through has met no committed and no pending rival.
LEMMA InsertIsAlone ==
  ASSUME Inv, NEW p \in Sessions, NEW o \in Sessions \ {p}, NEW j \in tx[p].job,
         ~Waits(p, j), tx[o].pc = "commit"
  PROVE  \A k \in tx[o].job : ~Collide(j, k)
<1> SUFFICES ASSUME NEW k \in tx[o].job PROVE ~Collide(j, k)
  OBVIOUS
<1>1. \E w \in tx[o].write : TRUE
  BY DEF Inv, Steady, Written
<1> QED
  BY <1>1 DEF Waits, Collide

\* What a step without a commit keeps of the session that takes it.
LEMMA FirmKept ==
  ASSUME Inv, Firm, NEW p \in Sessions,
         \/ Begin(p) \/ LookUp(p) \/ LockPolicy(p) \/ CheckTerms(p) \/ Count(p)
         \/ CheckAuthority(p) \/ InsertCommand(p) \/ Leave(p)
  PROVE  /\ Alone(p) /\ UNCHANGED rows /\ Founded(p)'
         /\ tx'[p].pc = "commit" =>
              /\ tx'[p].job = tx[p].job
              /\ \A j \in tx[p].job : Stored(j) = {} /\ ~Waits(p, j)
<1>1. TypeOK /\ Path(p) /\ Founded(p) /\ tx[p] \in Transaction
  BY DEF Inv, Steady, Firm, TypeOK
<1>2. CASE Begin(p)
  BY <1>1, <1>2, BeginEffect DEF Founded
<1>3. CASE Leave(p)
  BY <1>1, <1>3, LeaveEffect DEF Founded
<1>4. CASE LookUp(p)
  <2>1. /\ Alone(p) /\ UNCHANGED rows /\ tx'[p].job = tx[p].job
        /\ \/ tx'[p].pc = "answered"
           \/ \A j \in tx[p].job :
                tx'[p].pc = IF j.kind = "provision" THEN "authority" ELSE "policy"
    BY <1>1, <1>4, LookUpEffect
  <2>2. \E j \in tx[p].job : TRUE
    BY <1>4 DEF LookUp
  <2> QED
    BY <2>1, <2>2 DEF Founded
<1>5. CASE LockPolicy(p)
  <2>1. /\ Alone(p) /\ UNCHANGED rows /\ tx'[p].job = tx[p].job
        /\ \/ tx'[p].pc = "answered"
           \/ \A j \in tx[p].job :
                /\ \E c \in policies : c.policy = j.policy
                /\ tx'[p].pc = IF j.kind = "admit" THEN "terms" ELSE "authority"
    BY <1>1, <1>5, LockPolicyEffect
  <2>2. \E j \in tx[p].job : TRUE
    BY <1>5 DEF LockPolicy
  <2> QED
    BY <2>1, <2>2 DEF Founded, rows
<1>6. CASE CheckTerms(p)
  <2>1. \A j \in tx[p].job : j.kind = "admit"
    BY <1>1, <1>6 DEF CheckTerms, Path
  <2> QED
    BY <1>1, <1>6, <2>1, CheckTermsEffect DEF Founded, rows
<1>7. CASE Count(p)
  <2>1. tx[p].pc = "count" /\ \A j \in tx[p].job : j.kind = "admit"
    BY <1>1, <1>7 DEF Count, Path
  <2> QED
    BY <1>1, <1>7, <2>1, CountEffect DEF Founded, rows
<1>8. CASE CheckAuthority(p)
  <2>1. tx[p].pc = "authority" /\ \A j \in tx[p].job : j.kind # "admit"
    BY <1>1, <1>8 DEF CheckAuthority, Path
  <2> QED
    BY <1>1, <1>8, <2>1, CheckAuthorityEffect DEF Founded, rows
<1>9. CASE InsertCommand(p)
  <2>1. tx[p].pc = "insert" /\ \A j \in tx[p].job : j.kind # "admit"
    BY <1>1, <1>9 DEF InsertCommand, Path
  <2> QED
    BY <1>1, <1>9, <2>1, InsertCommandEffect DEF Founded, rows
<1> QED
  BY <1>2, <1>3, <1>4, <1>5, <1>6, <1>7, <1>8, <1>9

LEMMA FirmQuiet ==
  ASSUME Inv, Firm, NEW p \in Sessions,
         \/ Begin(p) \/ LookUp(p) \/ LockPolicy(p) \/ CheckTerms(p) \/ Count(p)
         \/ CheckAuthority(p) \/ InsertCommand(p) \/ Leave(p)
  PROVE  Firm'
<1>1. /\ Alone(p) /\ UNCHANGED rows /\ Founded(p)'
      /\ tx'[p].pc = "commit" =>
           /\ tx'[p].job = tx[p].job
           /\ \A j \in tx[p].job : Stored(j) = {} /\ ~Waits(p, j)
  BY FirmKept
<1>2. \A o \in Sessions \ {p} : tx'[o] = tx[o]
  BY <1>1 DEF Alone
<1>3. \A j : Stored(j)' = Stored(j)
  BY <1>1 DEF Stored, rows
<1>4. \A o \in Sessions : Founded(o)' /\ Unstored(o)'
  <2> SUFFICES ASSUME NEW o \in Sessions PROVE Founded(o)' /\ Unstored(o)'
    OBVIOUS
  <2>1. CASE o = p
    BY <1>1, <1>3, <2>1 DEF Unstored
  <2>2. CASE o # p
    <3>1. tx'[o] = tx[o] /\ policies' = policies
      BY <1>1, <1>2, <2>2 DEF rows
    <3> QED
      BY <1>3, <3>1 DEF Firm, Founded, Unstored
  <2> QED
    BY <2>1, <2>2
<1>5. \A o \in Sessions \ {p} : Unrivalled(p, o)' /\ Unrivalled(o, p)'
  <2> SUFFICES ASSUME NEW o \in Sessions \ {p}, tx'[p].pc = "commit", tx'[o].pc = "commit",
                      NEW j \in tx'[p].job, NEW k \in tx'[o].job
               PROVE  ~Collide(j, k) /\ ~Collide(k, j)
    BY DEF Unrivalled
  <2>1. j \in tx[p].job /\ ~Waits(p, j) /\ tx[o].pc = "commit" /\ k \in tx[o].job
    BY <1>1, <1>2
  <2>2. ~Collide(j, k)
    BY <2>1, InsertIsAlone
  <2> QED
    BY <2>2, CollideBothWays
<1>6. \A a, b \in Sessions : a # b => Unrivalled(a, b)'
  BY <1>2, <1>5 DEF Firm, Unrivalled
<1> QED
  BY <1>4, <1>6 DEF Firm

LEMMA FirmCommit ==
  ASSUME Inv, Firm, NEW p \in Sessions, Commit(p)
  PROVE  Firm'
<1>1. PICK j \in tx[p].job :
        /\ j \in Job /\ tx[p].pc = "commit"
        /\ \/ /\ j.kind = "admit"
              /\ decisions' = decisions \cup {DecisionOn(j, counter[<<j.policy, j.window>>])}
              /\ UNCHANGED <<policies, revoked>>
           \/ /\ j.kind = "revoke" /\ revoked' = revoked \cup {j}
              /\ UNCHANGED <<policies, decisions>>
           \/ /\ j.kind = "provision" /\ policies' = policies \cup {j}
              /\ UNCHANGED <<revoked, decisions>>
  BY CommitWrites
<1>2. Alone(p) /\ tx'[p].pc = "answered"
  BY CommitEffect DEF Inv
<1>3. \A o \in Sessions \ {p} : tx'[o] = tx[o]
  BY <1>2 DEF Alone
<1>4. ASSUME NEW o \in Sessions PROVE Founded(o)'
  <2>1. CASE o = p
    BY <1>2, <2>1 DEF Founded
  <2>2. CASE o # p
    <3>1. tx'[o] = tx[o] /\ policies \subseteq policies'
      BY <1>1, <1>3, <2>2
    <3> QED
      BY <3>1 DEF Firm, Founded
  <2> QED
    BY <2>1, <2>2
<1>5. ASSUME NEW o \in Sessions PROVE Unstored(o)'
  <2>1. CASE o = p
    BY <1>2, <2>1 DEF Unstored
  <2>2. CASE o # p
    <3> SUFFICES ASSUME tx[o].pc = "commit", NEW k \in tx[o].job PROVE Stored(k)' = {}
      BY <1>3, <2>2 DEF Unstored
    <3>1. k \in Job /\ Stored(k) = {} /\ ~Collide(k, j)
      BY <1>1, <2>2 DEF Firm, Unstored, Unrivalled, Inv, TypeOK, Transaction, Option
    <3>6. j.kind = k.kind => j.id # k.id /\ (k.kind # "admit" => j.policy # k.policy)
      <4>1. ~Collide(k, j)
        BY <3>1
      <4> QED
        BY <4>1 DEF Collide
    <3>2. k.kind \in {"admit", "revoke", "provision"}
      BY <3>1, JobType
    <3>3. CASE k.kind = "admit"
      <4>1. /\ Stored(k) = {r \in {d.request : d \in decisions} : r.id = k.id}
            /\ Stored(k)' = {r \in {d.request : d \in decisions'} : r.id = k.id}
        BY <3>3 DEF Stored
      <4>2. CASE j.kind = "admit"
        <5>1. DecisionOn(j, counter[<<j.policy, j.window>>]).request = j
          BY DEF DecisionOn
        <5>2. {d.request : d \in decisions'} = {d.request : d \in decisions} \cup {j}
          BY <1>1, <4>2, <5>1
        <5>3. j.id # k.id
          BY <3>3, <3>6, <4>2
        <5> QED
          BY <3>1, <4>1, <5>2, <5>3
      <4>3. CASE j.kind # "admit"
        BY <1>1, <3>1, <4>1, <4>3
      <4> QED
        BY <4>2, <4>3
    <3>4. CASE k.kind = "revoke"
      <4>1. /\ Stored(k) = {v \in revoked : v.id = k.id \/ v.policy = k.policy}
            /\ Stored(k)' = {v \in revoked' : v.id = k.id \/ v.policy = k.policy}
        BY <3>4 DEF Stored
      <4>2. revoked' = revoked \/ (j.kind = "revoke" /\ revoked' = revoked \cup {j})
        BY <1>1
      <4> QED
        BY <3>1, <3>4, <3>6, <4>1, <4>2
    <3>5. CASE k.kind = "provision"
      <4>1. /\ Stored(k) = {c \in policies : c.id = k.id \/ c.policy = k.policy}
            /\ Stored(k)' = {c \in policies' : c.id = k.id \/ c.policy = k.policy}
        BY <3>5 DEF Stored
      <4>2. policies' = policies \/ (j.kind = "provision" /\ policies' = policies \cup {j})
        BY <1>1
      <4> QED
        BY <3>1, <3>5, <3>6, <4>1, <4>2
    <3> QED
      BY <3>2, <3>3, <3>4, <3>5
  <2> QED
    BY <2>1, <2>2
<1>6. \A a, b \in Sessions : a # b => Unrivalled(a, b)'
  BY <1>2, <1>3 DEF Firm, Unrivalled
<1> QED
  BY <1>4, <1>5, <1>6 DEF Firm

LEMMA FirmStep == Inv /\ Firm /\ [Next]_vars => Firm'
<1> SUFFICES ASSUME Inv, Firm, [Next]_vars PROVE Firm'
  OBVIOUS
<1>1. CASE UNCHANGED vars \/ AuthorityChanges
  BY <1>1 DEF vars, AuthorityChanges, Firm, Founded, Unstored, Unrivalled, Stored
<1>2. ASSUME NEW p \in Sessions, Begin(p) \/ Step(p) \/ Leave(p) PROVE Firm'
  BY <1>2, FirmCommit, FirmQuiet DEF Step
<1> QED
  BY <1>1, <1>2 DEF Next

LEMMA FirmAlways == Spec => []Firm
<1>1. Init => Firm
  BY DEF Init, NoTransaction, Firm, Founded, Unstored, Unrivalled
<1> QED
  BY <1>1, FirmStep, Invariance, PTL DEF Spec

--------------------------------------------------------------------------------
(* Every step of rate admission is a step of its contract, or one that nobody  *)
(* who only sees the committed rows and the authority can see.                 *)

\* Where an observation lies on the grid, in the words of the contract.
LEMMA WindowOnGrid ==
  ASSUME NEW t \in Nat
  PROVE  Contract!OnGrid(WindowFor(t))
<1> DEFINE k == t \div Width
           w == WindowFor(t)
<1>1. w[1] = k * Width /\ w[2] = w[1] + Width
  BY DEF WindowFor, Width
<1>2. k \in Nat /\ Width \in Nat \ {0}
  BY WidthType, Quotient
<1> HIDE DEF k, w
<1>3. k * Width \in Nat /\ k <= k * Width
  <2>1. ASSUME NEW a \in Nat, NEW n \in Nat \ {0} PROVE a * n \in Nat /\ a <= a * n
    BY <2>1
  <2> QED
    BY <1>2, <2>1
<1>4. k \in 0 .. w[1]
  BY <1>1, <1>2, <1>3
<1> QED
  BY <1>1, <1>4 DEF Contract!OnGrid, Width, w

\* The seconds told to a denied caller, in the words of the contract.
LEMMA RetrySeconds ==
  ASSUME NEW t \in Nat
  PROVE  LET w == WindowFor(t)
             s == RetryAfter(w, t)
         IN  /\ s \in 1 .. WindowSeconds
             /\ w[2] - t <= s * TicksPerSecond /\ (s - 1) * TicksPerSecond < w[2] - t
<1> DEFINE w == WindowFor(t)
           s == RetryAfter(w, t)
           T == TicksPerSecond
<1>1. /\ s \in 1 .. WindowSeconds /\ t + s * T \in Nat
      /\ w[2] <= t + s * T /\ t + s * T < w[2] + T
  BY RetryLands
<1>2. w[2] \in Nat /\ T \in Nat /\ WindowSeconds \in Nat
  BY WindowContains, WidthType, TermsAssumption
<1> HIDE DEF w, s, T
<1>3. s \in Nat /\ s * T \in Nat
  <2>1. s \in Nat
    BY <1>1, <1>2
  <2> QED
    BY <1>2, <2>1, ProductType
<1>4. (s - 1) * T = s * T - T
  BY <1>2, <1>3
<1> QED
  BY <1>1, <1>2, <1>3, <1>4 DEF w, s, T

\* The count that is proved is the number of the requests admitted.
LEMMA CountIsCardinality ==
  ASSUME NEW E, NEW n \in Nat, Proves(E, n)
  PROVE  Cardinality(AdmittedOf(E)) = n
<1> DEFINE A == AdmittedOf(E)
           f == [d \in A |-> d.before]
<1>1. {d.before : d \in A} = 0 .. n - 1 /\ \A c, d \in A : c.before = d.before => c = d
  BY DEF Proves
<1> HIDE DEF A
<1>2. f \in Injection(A, 0 .. n - 1) /\ f \in Surjection(A, 0 .. n - 1)
  BY <1>1 DEF Injection, Surjection, IsInjective
<1>3. IsFiniteSet(0 .. n - 1) /\ Cardinality(0 .. n - 1) = n
  <2>1. 0 \in Int /\ n - 1 \in Int /\ (IF 0 > n - 1 THEN 0 ELSE n - 1 - 0 + 1) = n
    OBVIOUS
  <2> QED
    BY <2>1, FS_Interval
<1> HIDE DEF f
<1> QED
  BY <1>2, <1>3, FS_Injection DEF A

LEMMA ContractCardinality ==
  ASSUME NEW S
  PROVE  Contract!Cardinality(S) = Cardinality(S)
BY DEF Contract!Cardinality, Cardinality

\* A request that commits is one the contract may decide, and decided so.
LEMMA CommitIsDecision ==
  ASSUME Inv, Windowed, Firm, NEW p \in Sessions, tx[p].pc = "commit",
         NEW j \in tx[p].job, j \in Admissions, j.kind = "admit",
         decisions' = decisions \cup {DecisionOn(j, counter[<<j.policy, j.window>>])},
         UNCHANGED <<policies, revoked, authority>>
  PROVE  Contract!Decide(j)
<1> DEFINE n == counter[<<j.policy, j.window>>]
           E == Here(decisions, j.policy, j.window)
<1>1. /\ j.at \in Nat /\ j.window[2] \in Nat /\ j.policy \in Policies /\ j.window \in Windows
  BY RequestsAssumption DEF Window, Instant, Windows
<1>2. n \in Nat /\ n <= Limit /\ Proves(E, n)
  BY <1>1, ProvesCounter DEF Inv, TypeOK, CounterBounded
<1>3. Contract!AdmittedLike(j) = AdmittedOf(E)
  BY DEF Contract!AdmittedLike, AdmittedOf, Here
<1>4. Contract!Cardinality(Contract!AdmittedLike(j)) = n
  BY <1>2, <1>3, CountIsCardinality, ContractCardinality
<1>5. \A d \in decisions : d.request.id # j.id
  BY DEF Firm, Unstored, Stored
<1>6. Contract!InForce(j)
  BY DEF Firm, Founded, Inv, Steady, NotRevoked, Contract!InForce
<1>7. j.window = WindowFor(j.at)
  BY DEF Windowed, InWindow
<1>8. Contract!OnGrid(j.window)
  BY <1>1, <1>7, WindowOnGrid
<1>9. LET s == RetryAfter(j.window, j.at)
      IN  s \in 1 .. WindowSeconds /\ Contract!LeadsOut(s, j)
  BY <1>1, <1>7, RetrySeconds DEF Contract!LeadsOut
<1> DEFINE retry == IF Admitted(n) THEN {} ELSE {RetryAfter(j.window, j.at)}
           disposition == IF Admitted(n) THEN "admitted" ELSE "denied"
<1>10. DecisionOn(j, n) = [request |-> j, before |-> n, disposition |-> disposition, retry |-> retry]
  BY DEF DecisionOn
<1>11. /\ disposition \in {"admitted", "denied"}
       /\ retry \in {{}} \cup {{s} : s \in 1 .. WindowSeconds}
       /\ disposition = "admitted" <=> n < Limit
       /\ disposition = "admitted" <=> retry = {}
       /\ \A s \in retry : Contract!LeadsOut(s, j)
  BY <1>9 DEF Admitted
<1>12. decisions' = decisions \cup {DecisionOn(j, n)}
  OBVIOUS
<1> HIDE DEF n, retry, disposition
<1> QED
  BY <1>4, <1>5, <1>6, <1>8, <1>10, <1>11, <1>12 DEF Contract!Decide

\* A command that commits is one the contract lets pass.
LEMMA CommitIsCommand ==
  ASSUME Inv, Firm, NEW p \in Sessions, tx[p].pc = "commit", NEW j \in tx[p].job,
         UNCHANGED authority
  PROVE  /\ j.kind = "revoke" /\ revoked' = revoked \cup {j}
              /\ UNCHANGED <<policies, decisions>> => Contract!Withdraw(j)
         /\ j.kind = "provision" /\ policies' = policies \cup {j}
              /\ UNCHANGED <<revoked, decisions>> => Contract!Provide(j)
<1>1. j.kind # "admit" => authority
  BY DEF Inv, Steady, HoldsAuthority
<1>2. Stored(j) = {}
  BY DEF Firm, Unstored
<1>3. j.kind = "revoke" => Contract!Fresh(j, revoked) /\ \E c \in policies : c.policy = j.policy
  BY <1>2 DEF Stored, Firm, Founded, Contract!Fresh
<1>4. j.kind = "provision" => Contract!Fresh(j, policies)
  BY <1>2 DEF Stored, Contract!Fresh
<1> QED
  BY <1>1, <1>3, <1>4 DEF Contract!Withdraw, Contract!Provide

\* However the statements of sessions interleave, each transaction takes
\* effect at its commit as the contract says: on the authority, the policies,
\* the revocations and the admissions that are committed at that instant.
THEOREM RateImplementsContract == Spec => ImplementsContract
<1>1. Init => Contract!ContractInit
  BY DEF Init, Contract!ContractInit
<1>2. ASSUME Inv, Windowed, Firm, [Next]_vars
      PROVE  [Contract!ContractNext]_(Contract!promised)
  <2>1. CASE UNCHANGED vars
    BY <2>1 DEF vars, Contract!promised
  <2>2. CASE AuthorityChanges
    BY <2>2 DEF AuthorityChanges, Contract!AuthorityMoves, Contract!ContractNext
  <2>3. ASSUME NEW p \in Sessions, (Begin(p) \/ Step(p) \/ Leave(p)) /\ ~Commit(p)
        PROVE  UNCHANGED Contract!promised
    BY <1>2, <2>3, QuietSteps DEF Step, rows, Contract!promised
  <2>4. ASSUME NEW p \in Sessions, Commit(p) PROVE Contract!ContractNext
    <3>1. PICK j \in tx[p].job :
            /\ j \in Job /\ tx[p].pc = "commit"
            /\ \/ /\ j.kind = "admit"
                  /\ decisions' = decisions \cup {DecisionOn(j, counter[<<j.policy, j.window>>])}
                  /\ UNCHANGED <<policies, revoked>>
               \/ /\ j.kind = "revoke" /\ revoked' = revoked \cup {j}
                  /\ UNCHANGED <<policies, decisions>>
               \/ /\ j.kind = "provision" /\ policies' = policies \cup {j}
                  /\ UNCHANGED <<revoked, decisions>>
      BY <1>2, <2>4, CommitWrites
    <3>2. UNCHANGED authority
      BY <2>4 DEF Commit
    <3>3. CASE j.kind = "admit"
      <4>1. j \in Admissions
        BY <3>1, <3>3, JobType
      <4>2. Contract!Decide(j)
        BY <1>2, <3>1, <3>2, <3>3, <4>1, CommitIsDecision
      <4> QED
        BY <4>1, <4>2 DEF Contract!ContractNext
    <3>4. CASE j.kind = "revoke"
      <4>1. j \in Revocations
        BY <3>1, <3>4, JobType
      <4>2. Contract!Withdraw(j)
        BY <1>2, <3>1, <3>2, <3>4, CommitIsCommand
      <4> QED
        BY <4>1, <4>2 DEF Contract!ContractNext
    <3>5. CASE j.kind = "provision"
      <4>1. j \in Provisions
        BY <3>1, <3>5, JobType
      <4>2. Contract!Provide(j)
        BY <1>2, <3>1, <3>2, <3>5, CommitIsCommand
      <4> QED
        BY <4>1, <4>2 DEF Contract!ContractNext
    <3> QED
      BY <3>1, <3>3, <3>4, <3>5
  <2> QED
    BY <1>2, <2>1, <2>2, <2>3, <2>4 DEF Next
<1> QED
  BY <1>1, <1>2, Invariance, WindowedAlways, FirmAlways, PTL
  DEF Spec, ImplementsContract, Contract!ContractSpec

================================================================================
