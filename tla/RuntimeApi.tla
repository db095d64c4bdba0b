------------------------------ MODULE RuntimeApi ------------------------------
(***************************************************************************)
(* The Runtime API facade, the permission grants and the record store as   *)
(* PostgreSQL transactions at READ COMMITTED.  A step of a session is one  *)
(* statement that may wait: each sees what is committed when it runs, a    *)
(* row lock or an advisory lock is held to the end of the transaction, and *)
(* an insert waits for a pending insert of the same unique key.  What a    *)
(* transaction wrote becomes visible when it commits.                      *)
(*                                                                         *)
(* Rows that are only ever locked right after, and together with, another  *)
(* row of the list below are left out: the membership (after its user) and *)
(* the actor's own role rows (after the binding).                          *)
(***************************************************************************)
EXTENDS ApiContract

CONSTANTS Sessions,
          Rank,       \* the order in which the rows of a write set are written
          LockKey     \* key -> advisory lock: the first 64 bits of its hash

ASSUME OrderAssumption ==
  /\ Rank \in [Row -> Nat]
  /\ \A r, s \in Row : Rank[r] = Rank[s] => r = s

VARIABLE tx    \* what each session is doing

vars == <<links, ledger, receipts, head, history, tx>>

Option(S) == {x \in SUBSET S : \A y, z \in x : y = z}
Job       == Submissions \cup WriteSets \cup Changes

User(u)    == <<"user", u>>
Org(o)     == <<"org", o>>
Binding(o) == <<"binding", o>>
Role(r)    == <<"role", r>>
Perm(q)    == <<"permission", q>>
Link(r, q) == <<"link", r, q>>
Key(k)     == <<"key", k>>
Held(r)    == <<"row", r>>
Event(i)   == <<"event", i>>
Reference(q) == <<"reference", q>>    \* a foreign key's share of a permission row

Manage == "runtime.grant.manage"

Lock ==
  {User(u) : u \in Users} \cup {Org(o) : o \in Orgs} \cup {Binding(o) : o \in Orgs}
    \cup {Role(r) : r \in Roles} \cup {Perm(q) : q \in Permissions \cup {Manage}}
    \cup {Link(r, q) : r \in Roles, q \in Permissions}
    \cup {Key(LockKey[c.key]) : c \in Submissions} \cup {Held(r) : r \in Row}
    \cup {Event(g.id) : g \in Changes} \cup {Reference(q) : q \in Permissions}

Response == {"committed", "exact_replay", "conflict", "denied", "refused"}

Transaction ==
  [pc : {"idle", "user", "org", "binding", "roles", "permission", "links", "key",
         "lookup", "authority", "role", "link", "flush", "write", "insert", "commit", "answered"},
   job : Option(Job), holds : SUBSET Lock, done : SUBSET Write, answer : Option(Response)]

TypeOK ==
  /\ links \subseteq Roles \X Permissions
  /\ ledger \subseteq [revision : Nat \ {0}, by : Changes]
  /\ receipts \subseteq Submissions
  /\ head \in [Kept -> Nat]
  /\ history \subseteq [row : Row, revision : Nat \ {0}, by : Submissions \cup WriteSets]
  /\ tx \in [Sessions -> Transaction]

NoTransaction == [pc |-> "idle", job |-> {}, holds |-> {}, done |-> {}, answer |-> {}]

Init == ContractInit /\ tx = [p \in Sessions |-> NoTransaction]

--------------------------------------------------------------------------------
\* Transactions

FirstStatement(j) ==
  CASE j.kind = "submit" -> "user" [] j.kind = "write" -> "write" [] OTHER -> "lookup"

Begin(p) ==
  /\ tx[p].pc = "idle"
  /\ \E j \in Job : tx' = [tx EXCEPT ![p].pc = FirstStatement(j), ![p].job = {j}]
  /\ UNCHANGED promised

Free(p, locks) == \A o \in Sessions \ {p} : locks \cap tx[o].holds = {}

Advance(p, pc, locks) ==
  tx' = [tx EXCEPT ![p].pc = pc, ![p].holds = @ \cup locks]

\* Faulty variant: a refusal leaves the locks of the transaction behind.
EndHoldingLocks(p, answer) ==
  tx' = [tx EXCEPT ![p].pc = "answered", ![p].done = {}, ![p].answer = {answer}]

\* The transaction commits or rolls back: its locks are gone.
End(p, answer) ==
  tx' = [tx EXCEPT ![p].pc = "answered", ![p].holds = {}, ![p].done = {}, ![p].answer = {answer}]

--------------------------------------------------------------------------------
\* Locks on the way to the permission or the authority

\* The rows each statement locks FOR UPDATE.
Locked(j, pc) ==
  CASE pc = "user"       -> {User(j.user)}
    [] pc = "org"        -> {Org(j.org)}
    [] pc = "binding"    -> {Binding(IF j.kind = "submit" THEN j.org ELSE OrgOf[j.role])}
    [] pc = "roles"      -> {Role(r) : r \in RolesIn(j.user, j.org)}
    [] pc = "permission" -> {Perm(j.permission)}
    [] pc = "authority"  -> {Perm(Manage)}

\* The order of the resolver of permission facts.
ResolverOrder ==
  [user |-> "org", org |-> "binding", binding |-> "roles", roles |-> "permission",
   permission |-> "links"]

\* The order of the grant service.
GrantOrder == [user |-> "binding", binding |-> "authority", authority |-> "role"]

Order(j) == IF j.kind = "submit" THEN ResolverOrder ELSE GrantOrder

\* FOR UPDATE also waits for the foreign keys that refer to the row.
Unlocked(p, j) ==
  LET rows == Locked(j, tx[p].pc)
  IN  Free(p, rows \cup {Reference(q) : q \in {s \in Permissions : Perm(s) \in rows}})

\* One row after the other is locked and looked at.
LockRow(p) ==
  /\ \E j \in tx[p].job :
       /\ tx[p].pc \in DOMAIN Order(j)
       /\ Unlocked(p, j)
       /\ Advance(p, Order(j)[tx[p].pc], Locked(j, tx[p].pc))
  /\ UNCHANGED promised

\* A row is missing, inactive, or gives the actor no authority.
Deny(p) ==
  /\ \E j \in tx[p].job : tx[p].pc \in DOMAIN Order(j) /\ Unlocked(p, j)
  /\ End(p, "denied")
  /\ UNCHANGED promised

\* The links that grant the permission are read and locked.
Resolve(p) ==
  /\ tx[p].pc = "links"
  /\ \E j \in tx[p].job :
       LET found == {Link(r, j.permission) :
                       r \in {s \in RolesIn(j.user, j.org) : <<s, j.permission>> \in links}}
       IN  /\ Free(p, found)
           /\ \/ found = {} /\ End(p, "denied")
              \/ found # {} /\ Advance(p, "key", found)
  /\ UNCHANGED promised

--------------------------------------------------------------------------------
\* Submissions and write sets

\* Faulty variant: a receipt under the key answers whatever the command is.
CheckKeyOnly(p) ==
  /\ tx[p].pc = "key"
  /\ \E c \in tx[p].job :
       /\ Free(p, {Key(LockKey[c.key])})
       /\ \/ /\ \A t \in receipts : t.key # c.key
             /\ Advance(p, "write", {Key(LockKey[c.key])})
          \/ (\E t \in receipts : t.key = c.key) /\ End(p, "exact_replay")
  /\ UNCHANGED promised

\* Faulty variant: the digest is part of the receipt's key.
CheckByDigest(p) ==
  /\ tx[p].pc = "key"
  /\ \E c \in tx[p].job :
       /\ Free(p, {Key(LockKey[c.key])})
       /\ \/ c \notin receipts /\ Advance(p, "write", {Key(LockKey[c.key])})
          \/ c \in receipts /\ End(p, "exact_replay")
  /\ UNCHANGED promised

\* The advisory lock of the key, then the receipt under it: replay or mutation.
CheckReceipt(p) ==
  /\ tx[p].pc = "key"
  /\ \E c \in tx[p].job :
       /\ Free(p, {Key(LockKey[c.key])})
       /\ \/ /\ \A t \in receipts : t.key # c.key
             /\ Advance(p, "write", {Key(LockKey[c.key])})
          \/ \E t \in receipts :
               /\ t.key = c.key
               /\ End(p, IF t.digest = c.digest THEN "exact_replay" ELSE "conflict")
  /\ UNCHANGED promised

\* The write whose turn it is.
NextWrites(c, done) ==
  {w \in c.writes \ done : \A v \in c.writes \ done : Rank[w.row] <= Rank[v.row]}

\* A write is flushed; the next one follows, or the commit.
Flushed(p, c, w, locks) ==
  tx' = [tx EXCEPT ![p].pc    = IF c.writes \subseteq tx[p].done \cup {w} THEN "commit" ELSE "write",
                   ![p].done  = @ \cup {w},
                   ![p].holds = @ \cup locks]

\* Faulty variant: the revision the caller expects is not compared.
AcceptsAny(w) == w.revision \notin Revisions(w.row)

\* A row that exists: the optimistic revision of a record, the unique revision
\* of a result.
Accepts(w) ==
  IF w.row \in Kept THEN head[w.row] = w.revision - 1 ELSE w.revision \notin Revisions(w.row)

\* The row is selected FOR UPDATE.  A row that nobody has committed is not
\* found, even while another transaction inserts it.
SelectRow(p) ==
  /\ tx[p].pc = "write"
  /\ \E c \in tx[p].job : \E w \in NextWrites(c, tx[p].done) :
       \/ /\ Revisions(w.row) = {}
          /\ \/ w.revision = 1 /\ Advance(p, "insert", {})
             \/ w.revision # 1 /\ End(p, "conflict")
       \/ /\ Revisions(w.row) # {}
          /\ Free(p, {Held(w.row)})
          /\ \/ Accepts(w) /\ Flushed(p, c, w, {Held(w.row)})
             \/ ~Accepts(w) /\ End(p, "conflict")
  /\ UNCHANGED promised

\* Faulty variant: the insert updates a row that has appeared meanwhile.
InsertOrUpdate(p) ==
  /\ tx[p].pc = "insert"
  /\ \E c \in tx[p].job : \E w \in NextWrites(c, tx[p].done) :
       /\ Free(p, {Held(w.row)})
       /\ Flushed(p, c, w, {Held(w.row)})
  /\ UNCHANGED promised

\* The first revision of a row: the insert waits for a pending insert of the
\* row, and a unique constraint refuses it when that one was committed.
InsertRow(p) ==
  /\ tx[p].pc = "insert"
  /\ \E c \in tx[p].job : \E w \in NextWrites(c, tx[p].done) :
       /\ Free(p, {Held(w.row)})
       /\ \/ Revisions(w.row) = {} /\ Flushed(p, c, w, {Held(w.row)})
          \/ Revisions(w.row) # {} /\ End(p, "conflict")
  /\ UNCHANGED promised

--------------------------------------------------------------------------------
\* Grants and revocations

\* The event of a request, if it is committed: an exact replay or a conflict.
Recognize(p, g) ==
  \E e \in ledger : e.by.id = g.id /\ End(p, IF e.by = g THEN "exact_replay" ELSE "conflict")

IsNew(g) == \A e \in ledger : e.by.id # g.id

LookUp(p) ==
  /\ tx[p].pc = "lookup"
  /\ \E g \in tx[p].job : Recognize(p, g) \/ (IsNew(g) /\ Advance(p, "user", {}))
  /\ UNCHANGED promised

\* Faulty variant: the request is not looked up again.
LockRoleOnly(p) ==
  /\ tx[p].pc = "role"
  /\ \E g \in tx[p].job : Free(p, {Role(g.role)}) /\ Advance(p, "link", {Role(g.role)})
  /\ UNCHANGED promised

\* The target role is locked; then the request is looked up once more.
LockRole(p) ==
  /\ tx[p].pc = "role"
  /\ \E g \in tx[p].job :
       /\ Free(p, {Role(g.role)})
       /\ Recognize(p, g) \/ (IsNew(g) /\ Advance(p, "link", {Role(g.role)}))
  /\ UNCHANGED promised

\* The link and the revision of its last event are compared with the command.
CheckLink(p) ==
  /\ tx[p].pc = "link"
  /\ \E g \in tx[p].job :
       LET link == <<g.role, g.permission>>
           due  == /\ g.kind = "grant" <=> link \notin links
                   /\ LastEvent(g.role, g.permission, g.expected)
       IN  /\ link \in links => Free(p, {Link(g.role, g.permission)})
           /\ \/ ~due /\ End(p, "refused")
              \/ /\ due
                 /\ Advance(p, "flush", IF link \in links THEN {Link(g.role, g.permission)} ELSE {})
  /\ UNCHANGED promised

\* The foreign keys lock the permission FOR KEY SHARE.  The unique constraint on
\* requests has nothing to refuse: all changes queue for the permission row of
\* the authority before they look the request up again.
FlushEvent(p) ==
  /\ tx[p].pc = "flush"
  /\ \E g \in tx[p].job :
       /\ Free(p, {Perm(g.permission), Event(g.id)})
       /\ IsNew(g)
       /\ Advance(p, "commit", {Reference(g.permission), Event(g.id)})
  /\ UNCHANGED promised

--------------------------------------------------------------------------------
Commit(p) ==
  /\ tx[p].pc = "commit"
  /\ \E j \in tx[p].job :
       \/ /\ j.kind = "submit" /\ receipts' = receipts \cup {j} /\ Store(j)
          /\ UNCHANGED <<links, ledger>>
       \/ /\ j.kind = "write" /\ Store(j)
          /\ UNCHANGED <<links, ledger, receipts>>
       \/ /\ j.kind \in {"grant", "revoke"} /\ Record(j)
          /\ UNCHANGED <<receipts, head, history>>
  /\ End(p, "committed")

\* The caller has its answer; or the domain operation fails, or the process or
\* its connection is lost before the answer arrives, and PostgreSQL rolls back
\* what is not committed.
Leave(p) ==
  /\ tx[p].pc # "idle"
  /\ tx' = [tx EXCEPT ![p] = NoTransaction]
  /\ UNCHANGED promised

Step(p) ==
  \/ LockRow(p) \/ Deny(p) \/ Resolve(p) \/ CheckReceipt(p) \/ SelectRow(p) \/ InsertRow(p)
  \/ LookUp(p) \/ LockRole(p) \/ CheckLink(p) \/ FlushEvent(p) \/ Commit(p)

Next == \E p \in Sessions : Begin(p) \/ Step(p) \/ Leave(p)

Spec == Init /\ [][Next]_vars

\* PostgreSQL grants a lock to the sessions that wait for it in their order, and
\* the domain operation between two statements returns.
FairSpec == Spec /\ \A p \in Sessions : SF_vars(Step(p))

--------------------------------------------------------------------------------
\* Properties

\* Every transaction takes effect at one instant, with all it read still true:
\* the code has no other protection against interleaving than its row locks.
ImplementsContract == ContractSpec

\* No mutation is committed by a caller whose permission was revoked before,
\* although the permission was resolved many statements earlier (ADR-089,
\* "no resolved fact survives its transaction").
MutationsArePermitted == [][\A c \in receipts' \ receipts : Permitted(c)]_vars

\* The active links are what the immutable events say: events are numbered
\* without gaps, grants and revocations alternate, and a link is there exactly
\* when the last of its events is a grant.
LedgerProvesLinks ==
  \A r \in Roles, q \in Permissions :
    LET events == Events(r, q)
    IN  /\ {e.revision : e \in events} = 1 .. Cardinality(events)
        /\ \A e \in events : e.by.kind = "grant" <=> e.revision % 2 = 1
        /\ <<r, q>> \in links <=> Cardinality(events) % 2 = 1

\* The current revision of a Runtime record is proved by its revisions: 1 up to
\* the head, each written by one command.
HistoryProvesHeads ==
  \A r \in Kept :
    /\ Revisions(r) = 1 .. head[r]
    /\ \A h, i \in history : h.row = r /\ i.row = r /\ h.revision = i.revision => h = i

\* A key has one mutation: its receipt is there exactly when all its writes are,
\* and there is no trace of a submission that was refused.
ReceiptsProveMutations ==
  /\ \A c, d \in receipts : c.key = d.key => c = d
  /\ \A h \in history : h.by.kind = "submit" => h.by \in receipts
  /\ \A c \in receipts : \A w \in c.writes : [row |-> w.row, revision |-> w.revision, by |-> c] \in history

\* A write set is stored as a whole or not at all.
WriteSetsAreWhole ==
  \A h \in history : \A w \in h.by.writes :
    [row |-> w.row, revision |-> w.revision, by |-> h.by] \in history

\* What a caller is told holds: a command answered as committed is stored with
\* all its writes; one answered as a replay was stored before, a submission under
\* the same key and digest, a grant or revocation as it is.
AnswersAreTrue ==
  \A p \in Sessions : \A j \in tx[p].job :
    /\ "committed" \in tx[p].answer =>
         IF j.kind \in {"submit", "write"}
         THEN \A w \in j.writes : [row |-> w.row, revision |-> w.revision, by |-> j] \in history
         ELSE \E e \in ledger : e.by = j
    /\ "exact_replay" \in tx[p].answer =>
         IF j.kind = "submit" THEN \E t \in receipts : t.key = j.key /\ t.digest = j.digest
                              ELSE \E e \in ledger : e.by = j

\* A repeated grant or revocation is never refused because of its own first
\* execution (ADR-088, "one commit and exact replay for the remainder").
RepeatIsRecognized ==
  [][\A p \in Sessions : \A j \in tx[p].job :
       tx[p].answer = {} /\ tx'[p].answer \in {{"refused"}, {"conflict"}}
         => \A e \in ledger : e.by # j]_vars

\* Every transaction ends: nobody waits for ever for a lock.
TransactionsEnd ==
  \A p \in Sessions :
    tx[p].pc \notin {"idle", "answered"} ~> tx[p].pc \in {"idle", "answered"}

================================================================================
