--------------------------- MODULE RuntimeApi_proofs ---------------------------
(***************************************************************************)
(* The transactions of RuntimeApi implement ApiContract, for every set of  *)
(* sessions, users, roles, rows and commands, and what the contract keeps  *)
(* of its ledger, its history and its receipts holds of them.              *)
(*                                                                         *)
(* The proof has two halves.  Promise collects what the contract alone     *)
(* preserves.  Sound says of every session what its locks keep true for    *)
(* it between two of its statements; it is what makes a commit, many       *)
(* statements after the checks, a step of the contract.                    *)
(***************************************************************************)
EXTENDS RuntimeApi, FiniteSetTheorems, TLAPS

Types ==
  /\ links \subseteq Roles \X Permissions
  /\ ledger \subseteq [revision : Nat \ {0}, by : Changes]
  /\ receipts \subseteq Submissions
  /\ head \in [Kept -> Nat]
  /\ history \subseteq [row : Row, revision : Nat \ {0}, by : Submissions \cup WriteSets]

\* A request has one event.
RequestsAreUnique ==
  /\ IsFiniteSet(ledger)
  /\ \A e, f \in ledger : e.by.id = f.by.id => e = f

Promise ==
  /\ Types
  /\ HistoryProvesHeads
  /\ ReceiptsProveMutations
  /\ WriteSetsAreWhole
  /\ LedgerProvesLinks
  /\ RequestsAreUnique

--------------------------------------------------------------------------------
\* What a write set changes.
LEMMA StoreEffect ==
  ASSUME Types, NEW c \in Submissions \cup WriteSets, Store(c)
  PROVE  /\ head' \in [Kept -> Nat]
         /\ history' \subseteq [row : Row, revision : Nat \ {0}, by : Submissions \cup WriteSets]
         /\ \A r \in Kept : IF \E w \in c.writes : w.row = r THEN head'[r] = head[r] + 1
                                                            ELSE head'[r] = head[r]
         /\ history \subseteq history'
         /\ \A w \in c.writes : [row |-> w.row, revision |-> w.revision, by |-> c] \in history'
         /\ \A h \in history' \ history :
              h.by = c /\ \E w \in c.writes : h.row = w.row /\ h.revision = w.revision
<1>1. c.writes \subseteq Write
  BY CommandsAssumption
<1>2. \A w \in c.writes : [row |-> w.row, revision |-> w.revision, by |-> c]
                             \in [row : Row, revision : Nat \ {0}, by : Submissions \cup WriteSets]
  BY <1>1 DEF Write
<1>3. head' \in [Kept -> Nat]
  BY DEF Store, Types
<1>4. history' \subseteq [row : Row, revision : Nat \ {0}, by : Submissions \cup WriteSets]
  BY <1>2 DEF Store, Types
<1>5. \A r \in Kept : IF \E w \in c.writes : w.row = r THEN head'[r] = head[r] + 1
                                                         ELSE head'[r] = head[r]
  BY DEF Store, Types
<1>6. /\ history \subseteq history'
      /\ \A w \in c.writes : [row |-> w.row, revision |-> w.revision, by |-> c] \in history'
  BY DEF Store
<1>7. \A h \in history' \ history :
        h.by = c /\ \E w \in c.writes : h.row = w.row /\ h.revision = w.revision
  BY DEF Store
<1> QED
  BY <1>3, <1>4, <1>5, <1>6, <1>7

\* The revisions of a row after a write set that leaves it alone.
LEMMA OtherRevisions ==
  ASSUME Types, NEW c \in Submissions \cup WriteSets, Store(c), NEW r,
         \A w \in c.writes : w.row # r
  PROVE  Revisions(r)' = Revisions(r)
<1>1. \A h \in history' : h.row = r => h \in history
  BY StoreEffect
<1>2. history \subseteq history'
  BY StoreEffect
<1> QED
  BY <1>1, <1>2 DEF Revisions

\* The revisions of a row after a write set that writes it.
LEMMA WrittenRevisions ==
  ASSUME Types, NEW c \in Submissions \cup WriteSets, Store(c), NEW w \in c.writes
  PROVE  Revisions(w.row)' = Revisions(w.row) \cup {w.revision}
<1>1. \A v \in c.writes : v.row = w.row => v = w
  BY CommandsAssumption
<1>2. \A h \in history' \ history : h.row = w.row => h.revision = w.revision
  BY StoreEffect, <1>1
<1>3. history \subseteq history'
  BY StoreEffect
<1>4. \E h \in history' : h.row = w.row /\ h.revision = w.revision
  <2>1. [row |-> w.row, revision |-> w.revision, by |-> c] \in history'
    BY StoreEffect
  <2> WITNESS [row |-> w.row, revision |-> w.revision, by |-> c] \in history'
  <2> QED
    OBVIOUS
<1>5. \A n : n \in Revisions(w.row)' <=> \E h \in history' : h.row = w.row /\ h.revision = n
  BY DEF Revisions
<1>6. \A n : n \in Revisions(w.row) <=> \E h \in history : h.row = w.row /\ h.revision = n
  BY DEF Revisions
<1>7. \A n : n \in Revisions(w.row)' <=> n \in Revisions(w.row) \/ n = w.revision
  <2> TAKE n
  <2>1. n \in Revisions(w.row)' => n \in Revisions(w.row) \/ n = w.revision
    BY <1>2, <1>5, <1>6
  <2>2. n \in Revisions(w.row) => n \in Revisions(w.row)'
    BY <1>3, <1>5, <1>6
  <2>3. w.revision \in Revisions(w.row)'
    BY <1>4, <1>5
  <2> QED
    BY <2>1, <2>2, <2>3
<1> HIDE DEF Revisions
<1> QED
  BY <1>7

\* Heads and revisions move together.
LEMMA StoreKeepsHistory ==
  ASSUME Types, HistoryProvesHeads, NEW c \in Submissions \cup WriteSets, Store(c),
         \A w \in c.writes : Fits(w)
  PROVE  HistoryProvesHeads'
<1>1. \A r \in Kept : Revisions(r) = 1 .. head[r]
  BY DEF HistoryProvesHeads
<1>2. \A v, w \in c.writes : v.row = w.row => v = w
  BY CommandsAssumption
<1>3. \A h \in history' \ history :
        h.by = c /\ \E w \in c.writes : h.row = w.row /\ h.revision = w.revision
  BY StoreEffect
<1>4. history' \subseteq [row : Row, revision : Nat \ {0}, by : Submissions \cup WriteSets]
  BY StoreEffect
<1>5. ASSUME NEW r \in Kept
      PROVE  Revisions(r)' = 1 .. head'[r]
  <2>1. head[r] \in Nat
    BY DEF Types
  <2>2. CASE \A w \in c.writes : w.row # r
    <3>1. Revisions(r)' = Revisions(r)
      BY <2>2, OtherRevisions
    <3>2. head'[r] = head[r]
      BY <2>2, StoreEffect
    <3> QED
      BY <3>1, <3>2, <1>1
  <2>3. CASE \E w \in c.writes : w.row = r
    <3>1. PICK w \in c.writes : w.row = r
      BY <2>3
    <3>2. Revisions(r)' = Revisions(r) \cup {w.revision}
      BY <3>1, WrittenRevisions
    <3>3. head'[r] = head[r] + 1
      BY <2>3, StoreEffect
    <3>4. w.revision = head[r] + 1
      BY <3>1 DEF Fits
    <3>5. 1 .. head[r] + 1 = 1 .. head[r] \cup {head[r] + 1}
      BY <2>1
    <3> QED
      BY <3>2, <3>3, <3>4, <3>5, <1>1
  <2> QED
    BY <2>2, <2>3
<1>6. ASSUME NEW h \in history', NEW i \in history', h.row = i.row, h.revision = i.revision,
             h.row \in Kept
      PROVE  h = i
  <2>1. \A g \in history : g.revision \in Revisions(g.row)
    BY DEF Revisions
  <2>2. \A g \in history' \ history : g.revision \notin Revisions(g.row)
    BY <1>3 DEF Fits
  <2>3. CASE h \in history /\ i \in history
    BY <2>3, <1>6 DEF HistoryProvesHeads
  <2>4. CASE h \notin history /\ i \notin history
    <3>1. h.by = c /\ i.by = c
      BY <1>3, <2>4
    <3> QED
      BY <1>4, <1>6, <3>1
  <2> QED
    BY <2>1, <2>2, <2>3, <2>4, <1>6
<1> QED
  BY <1>5, <1>6 DEF HistoryProvesHeads

\* A write set is there as a whole.
LEMMA StoreKeepsWholes ==
  ASSUME Types, WriteSetsAreWhole, NEW c \in Submissions \cup WriteSets, Store(c)
  PROVE  WriteSetsAreWhole'
<1>1. history \subseteq history'
  BY StoreEffect
<1>2. \A w \in c.writes : [row |-> w.row, revision |-> w.revision, by |-> c] \in history'
  BY StoreEffect
<1>3. \A h \in history' \ history : h.by = c
  BY StoreEffect
<1> QED
  BY <1>1, <1>2, <1>3 DEF WriteSetsAreWhole

\* A submission is stored with its receipt.
LEMMA SubmitKeepsReceipts ==
  ASSUME Types, ReceiptsProveMutations, NEW c \in Submissions, Submit(c)
  PROVE  ReceiptsProveMutations'
<1>1. Store(c) /\ receipts' = receipts \cup {c} /\ \A t \in receipts : t.key # c.key
  BY DEF Submit
<1>2. history \subseteq history'
  BY <1>1, StoreEffect
<1>3. \A w \in c.writes : [row |-> w.row, revision |-> w.revision, by |-> c] \in history'
  BY <1>1, StoreEffect
<1>4. \A h \in history' \ history : h.by = c
  BY <1>1, StoreEffect
<1>5. \A d, e \in receipts' : d.key = e.key => d = e
  BY <1>1 DEF ReceiptsProveMutations
<1>6. \A h \in history' : h.by.kind = "submit" => h.by \in receipts'
  BY <1>1, <1>4 DEF ReceiptsProveMutations
<1>7. \A d \in receipts' : \A w \in d.writes :
        [row |-> w.row, revision |-> w.revision, by |-> d] \in history'
  BY <1>1, <1>2, <1>3 DEF ReceiptsProveMutations
<1> QED
  BY <1>5, <1>6, <1>7 DEF ReceiptsProveMutations

\* A write set of its own leaves no trace of a submission.
LEMMA StoreAloneKeepsReceipts ==
  ASSUME Types, ReceiptsProveMutations, NEW c \in WriteSets, StoreAlone(c)
  PROVE  ReceiptsProveMutations'
<1>1. Store(c) /\ receipts' = receipts
  BY DEF StoreAlone
<1>2. history \subseteq history'
  BY <1>1, StoreEffect
<1>3. \A h \in history' \ history : h.by = c
  BY <1>1, StoreEffect
<1>4. c.kind # "submit"
  BY CommandsAssumption
<1> QED
  BY <1>1, <1>2, <1>3, <1>4 DEF ReceiptsProveMutations

\* The ledger grows by one event, one revision after the last.
LEMMA ChangeKeepsLedger ==
  ASSUME Types, RequestsAreUnique, LedgerProvesLinks, NEW g \in Changes, Change(g)
  PROVE  LedgerProvesLinks'
<1> DEFINE e == [revision |-> g.expected + 1, by |-> g]
<1>1. /\ ledger' = ledger \cup {e}
      /\ links' = IF g.kind = "grant" THEN links \cup {<<g.role, g.permission>>}
                                      ELSE links \ {<<g.role, g.permission>>}
  BY DEF Change, Record
<1>2. /\ \A f \in ledger : f.by.id # g.id
      /\ g.kind = "grant" <=> <<g.role, g.permission>> \notin links
      /\ LastEvent(g.role, g.permission, g.expected)
  BY DEF Change
<1>3. g.kind \in {"grant", "revoke"} /\ g.expected \in Nat
  BY CommandsAssumption
<1>4. e.by = g /\ e.revision = g.expected + 1 /\ e \notin ledger
  BY <1>2
<1> HIDE DEF e
<1> SUFFICES ASSUME NEW r \in Roles, NEW q \in Permissions
             PROVE  /\ {f.revision : f \in Events(r, q)'} = 1 .. Cardinality(Events(r, q)')
                    /\ \A f \in Events(r, q)' : f.by.kind = "grant" <=> f.revision % 2 = 1
                    /\ <<r, q>> \in links' <=> Cardinality(Events(r, q)') % 2 = 1
  BY DEF LedgerProvesLinks
<1> DEFINE n == Cardinality(Events(r, q))
<1>5. /\ {f.revision : f \in Events(r, q)} = 1 .. n
      /\ \A f \in Events(r, q) : f.by.kind = "grant" <=> f.revision % 2 = 1
      /\ <<r, q>> \in links <=> n % 2 = 1
  BY DEF LedgerProvesLinks
<1>6. IsFiniteSet(Events(r, q)) /\ Events(r, q) \subseteq ledger
  BY FS_Subset DEF Events, RequestsAreUnique
<1>7. n \in Nat
  BY <1>6, FS_CardinalityType
<1>8. CASE g.role = r /\ g.permission = q
  <2>1. Events(r, q)' = Events(r, q) \cup {e}
    BY <1>1, <1>4, <1>8 DEF Events
  <2>2. Cardinality(Events(r, q)') = n + 1
    BY <2>1, <1>4, <1>6, FS_AddElement
  <2>3. g.expected = n
    <3>1. \A f \in Events(r, q) : f.revision <= g.expected
      BY <1>2, <1>8 DEF LastEvent
    <3>2. g.expected # 0 => g.expected \in 1 .. n
      BY <1>2, <1>5, <1>8 DEF LastEvent
    <3>3. n # 0 => n <= g.expected
      <4>1. n # 0 => n \in {f.revision : f \in Events(r, q)}
        BY <1>5, <1>7
      <4> QED
        BY <4>1, <3>1
    <3> QED
      BY <3>2, <3>3, <1>3, <1>7
  <2>4. {f.revision : f \in Events(r, q)'} = 1 .. n + 1
    <3>1. {f.revision : f \in Events(r, q)'} = {f.revision : f \in Events(r, q)} \cup {e.revision}
      BY <2>1
    <3>2. 1 .. n + 1 = 1 .. n \cup {n + 1}
      BY <1>7
    <3> QED
      BY <3>1, <3>2, <2>3, <1>4, <1>5
  <2>5. g.kind = "grant" <=> (n + 1) % 2 = 1
    <3>1. n % 2 = 1 <=> ~((n + 1) % 2 = 1)
      BY <1>7
    <3> QED
      BY <3>1, <1>2, <1>5, <1>8
  <2>6. \A f \in Events(r, q)' : f.by.kind = "grant" <=> f.revision % 2 = 1
    BY <2>1, <2>3, <2>5, <1>4, <1>5
  <2>7. <<r, q>> \in links' <=> g.kind = "grant"
    BY <1>1, <1>8
  <2> QED
    BY <2>2, <2>4, <2>5, <2>6, <2>7
<1>9. CASE ~(g.role = r /\ g.permission = q)
  <2>1. Events(r, q)' = Events(r, q)
    BY <1>1, <1>4, <1>9 DEF Events
  <2>2. <<r, q>> \in links' <=> <<r, q>> \in links
    BY <1>1, <1>9
  <2> QED
    BY <2>1, <2>2, <1>5
<1> QED
  BY <1>8, <1>9

LEMMA ChangeKeepsRequests ==
  ASSUME RequestsAreUnique, NEW g \in Changes, Change(g)
  PROVE  RequestsAreUnique'
<1> DEFINE e == [revision |-> g.expected + 1, by |-> g]
<1>1. ledger' = ledger \cup {e} /\ \A f \in ledger : f.by.id # g.id
  BY DEF Change, Record
<1>2. e.by = g
  OBVIOUS
<1> HIDE DEF e
<1>3. IsFiniteSet(ledger')
  BY <1>1, FS_AddElement DEF RequestsAreUnique
<1>4. \A d, f \in ledger' : d.by.id = f.by.id => d = f
  BY <1>1, <1>2 DEF RequestsAreUnique
<1> QED
  BY <1>3, <1>4 DEF RequestsAreUnique

LEMMA ContractKeepsTypes ==
  ASSUME Types, ContractNext
  PROVE  Types'
<1>1. ASSUME NEW c \in Submissions, Submit(c)
      PROVE  Types'
  <2>1. Store(c) /\ receipts' = receipts \cup {c} /\ links' = links /\ ledger' = ledger
    BY <1>1 DEF Submit
  <2>2. /\ head' \in [Kept -> Nat]
        /\ history' \subseteq [row : Row, revision : Nat \ {0}, by : Submissions \cup WriteSets]
    BY <2>1, StoreEffect
  <2> QED
    BY <2>1, <2>2 DEF Types
<1>2. ASSUME NEW c \in WriteSets, StoreAlone(c)
      PROVE  Types'
  <2>1. Store(c) /\ receipts' = receipts /\ links' = links /\ ledger' = ledger
    BY <1>2 DEF StoreAlone
  <2>2. /\ head' \in [Kept -> Nat]
        /\ history' \subseteq [row : Row, revision : Nat \ {0}, by : Submissions \cup WriteSets]
    BY <2>1, StoreEffect
  <2> QED
    BY <2>1, <2>2 DEF Types
<1>3. ASSUME NEW g \in Changes, Change(g)
      PROVE  Types'
  <2>1. g.role \in Roles /\ g.permission \in Permissions /\ g.expected \in Nat
    BY CommandsAssumption
  <2>2. [revision |-> g.expected + 1, by |-> g] \in [revision : Nat \ {0}, by : Changes]
    BY <2>1
  <2>3. ledger' \subseteq [revision : Nat \ {0}, by : Changes]
    BY <1>3, <2>2 DEF Change, Record, Types
  <2>4. links' \subseteq Roles \X Permissions
    BY <1>3, <2>1 DEF Change, Record, Types
  <2>5. receipts' = receipts /\ head' = head /\ history' = history
    BY <1>3 DEF Change
  <2> QED
    BY <2>3, <2>4, <2>5 DEF Types
<1> QED
  BY <1>1, <1>2, <1>3 DEF ContractNext

\* What the contract keeps, it keeps in every step.
LEMMA ContractKeepsPromise ==
  ASSUME Promise, [ContractNext]_promised
  PROVE  Promise'
<1> USE DEF Promise
<1>1. ASSUME NEW c \in Submissions, Submit(c)
      PROVE  Promise'
  <2>1. Store(c) /\ (\A w \in c.writes : Fits(w)) /\ UNCHANGED <<links, ledger>>
    BY <1>1 DEF Submit
  <2>2. Types'
    BY <1>1, ContractKeepsTypes DEF ContractNext
  <2>3. HistoryProvesHeads' /\ WriteSetsAreWhole'
    BY <2>1, StoreKeepsHistory, StoreKeepsWholes
  <2>4. ReceiptsProveMutations'
    BY <1>1, SubmitKeepsReceipts
  <2>5. LedgerProvesLinks' /\ RequestsAreUnique'
    BY <2>1 DEF LedgerProvesLinks, RequestsAreUnique, Events
  <2> QED
    BY <2>2, <2>3, <2>4, <2>5
<1>2. ASSUME NEW c \in WriteSets, StoreAlone(c)
      PROVE  Promise'
  <2>1. Store(c) /\ (\A w \in c.writes : Fits(w)) /\ UNCHANGED <<links, ledger>>
    BY <1>2 DEF StoreAlone
  <2>2. Types'
    BY <1>2, ContractKeepsTypes DEF ContractNext
  <2>3. HistoryProvesHeads' /\ WriteSetsAreWhole'
    BY <2>1, StoreKeepsHistory, StoreKeepsWholes
  <2>4. ReceiptsProveMutations'
    BY <1>2, StoreAloneKeepsReceipts
  <2>5. LedgerProvesLinks' /\ RequestsAreUnique'
    BY <2>1 DEF LedgerProvesLinks, RequestsAreUnique, Events
  <2> QED
    BY <2>2, <2>3, <2>4, <2>5
<1>3. ASSUME NEW g \in Changes, Change(g)
      PROVE  Promise'
  <2>1. UNCHANGED <<receipts, head, history>>
    BY <1>3 DEF Change
  <2>2. Types'
    BY <1>3, ContractKeepsTypes DEF ContractNext
  <2>3. HistoryProvesHeads' /\ WriteSetsAreWhole' /\ ReceiptsProveMutations'
    BY <2>1 DEF HistoryProvesHeads, WriteSetsAreWhole, ReceiptsProveMutations, Revisions
  <2>4. LedgerProvesLinks' /\ RequestsAreUnique'
    BY <1>3, ChangeKeepsLedger, ChangeKeepsRequests
  <2> QED
    BY <2>2, <2>3, <2>4
<1>4. ASSUME UNCHANGED promised
      PROVE  Promise'
  <2>1. UNCHANGED <<links, ledger, receipts, head, history>>
    BY <1>4 DEF promised
  <2> QED
    BY <2>1 DEF Types, HistoryProvesHeads, ReceiptsProveMutations, WriteSetsAreWhole,
                LedgerProvesLinks, RequestsAreUnique, Revisions, Events
<1> QED
  BY <1>1, <1>2, <1>3, <1>4 DEF ContractNext

--------------------------------------------------------------------------------
(* What the locks of a session keep true between its statements. *)

Statement ==
  {"idle", "user", "org", "binding", "roles", "permission", "links", "key", "lookup",
   "authority", "role", "link", "flush", "write", "insert", "commit", "answered"}

\* Only foreign keys share a lock.
Shared == {Reference(q) : q \in Permissions}

Exclusive ==
  \A p, o \in Sessions : p # o => tx[p].holds \cap tx[o].holds \subseteq Shared

\* Between the binding's lock and the commit no link of the organization
\* changes; under the lock of the key no receipt appears.
Submitting(p, c) ==
  /\ tx[p].pc \in {"user", "org", "binding", "roles", "permission", "links", "key", "write",
                   "insert", "commit", "answered"}
  /\ tx[p].pc \in {"roles", "permission", "links", "key", "write", "insert", "commit"} =>
       Binding(c.org) \in tx[p].holds
  /\ tx[p].pc \in {"key", "write", "insert", "commit"} => Permitted(c)
  /\ tx[p].pc \in {"write", "insert", "commit"} =>
       /\ Key(LockKey[c.key]) \in tx[p].holds
       /\ \A t \in receipts : t.key # c.key

\* What was flushed still fits: its row is locked.
Writing(p, c) ==
  /\ tx[p].pc \in {"user", "org", "binding", "roles", "permission", "links", "key", "write",
                   "insert", "commit", "answered"}
  /\ \A w \in tx[p].done : w \in c.writes /\ Held(w.row) \in tx[p].holds /\ Fits(w)
  /\ tx[p].pc = "insert" => \A w \in NextWrites(c, tx[p].done) : w.revision = 1
  /\ tx[p].pc = "commit" => c.writes \subseteq tx[p].done

\* The change is the next one of its link.
Due(g) ==
  /\ g.kind = "grant" <=> <<g.role, g.permission>> \notin links
  /\ LastEvent(g.role, g.permission, g.expected)

\* All changes queue for the permission row of the authority.
Changing(p, g) ==
  /\ tx[p].pc \in {"lookup", "user", "binding", "authority", "role", "link", "flush", "commit",
                   "answered"}
  /\ tx[p].pc \in {"authority", "role", "link", "flush", "commit"} =>
       Binding(OrgOf[g.role]) \in tx[p].holds
  /\ tx[p].pc \in {"role", "link", "flush", "commit"} => Perm(Manage) \in tx[p].holds
  /\ tx[p].pc \in {"link", "flush", "commit"} => IsNew(g)
  /\ tx[p].pc \in {"flush", "commit"} => Due(g)

Sound(p) ==
  /\ tx[p].pc \in {"idle", "answered"} => tx[p].done = {}
  /\ tx[p].pc # "answered" => tx[p].answer = {}
  /\ \A j \in tx[p].job :
       /\ j \in Submissions => Submitting(p, j)
       /\ j \in Submissions \cup WriteSets => Writing(p, j)
       /\ j \in WriteSets => tx[p].pc \in {"write", "insert", "commit", "answered"}
       /\ j \in Changes => Changing(p, j)

ApiInv ==
  /\ tx \in [Sessions -> Transaction]
  /\ Promise
  /\ Exclusive
  /\ \A p \in Sessions : Sound(p)

LEMMA Kinds ==
  ASSUME NEW j \in Job
  PROVE  /\ j \in Submissions <=> j.kind = "submit"
         /\ j \in WriteSets <=> j.kind = "write"
         /\ j \in Changes <=> j.kind \in {"grant", "revoke"}
BY CommandsAssumption DEF Job

\* The locks the statements take are locks.
LEMMA LocksAreLocks ==
  /\ \A c \in Submissions :
       /\ {User(c.user)} \subseteq Lock /\ {Org(c.org)} \subseteq Lock
       /\ {Binding(c.org)} \subseteq Lock /\ {Perm(c.permission)} \subseteq Lock
       /\ {Key(LockKey[c.key])} \subseteq Lock
       /\ \A R \in SUBSET Roles : /\ {Role(r) : r \in R} \subseteq Lock
                                  /\ {Link(r, c.permission) : r \in R} \subseteq Lock
  /\ \A g \in Changes :
       /\ {User(g.user)} \subseteq Lock /\ {Binding(OrgOf[g.role])} \subseteq Lock
       /\ {Role(g.role)} \subseteq Lock /\ {Link(g.role, g.permission)} \subseteq Lock
       /\ {Reference(g.permission), Event(g.id)} \subseteq Lock
  /\ {Perm(Manage)} \subseteq Lock
  /\ \A r \in Row : {Held(r)} \subseteq Lock
<1>1. ASSUME NEW c \in Submissions
      PROVE  /\ {User(c.user)} \subseteq Lock /\ {Org(c.org)} \subseteq Lock
             /\ {Binding(c.org)} \subseteq Lock /\ {Perm(c.permission)} \subseteq Lock
             /\ {Key(LockKey[c.key])} \subseteq Lock
             /\ \A R \in SUBSET Roles : /\ {Role(r) : r \in R} \subseteq Lock
                                        /\ {Link(r, c.permission) : r \in R} \subseteq Lock
  <2>1. c.user \in Users /\ c.org \in Orgs /\ c.permission \in Permissions
    BY CommandsAssumption
  <2>2. {User(c.user)} \subseteq Lock /\ {Org(c.org)} \subseteq Lock /\ {Binding(c.org)} \subseteq Lock
    BY <2>1 DEF Lock
  <2>3. {Perm(c.permission)} \subseteq Lock /\ {Key(LockKey[c.key])} \subseteq Lock
    BY <2>1 DEF Lock
  <2>4. ASSUME NEW R \in SUBSET Roles
        PROVE  /\ {Role(r) : r \in R} \subseteq Lock
               /\ {Link(r, c.permission) : r \in R} \subseteq Lock
    BY <2>1 DEF Lock
  <2> QED
    BY <2>2, <2>3, <2>4
<1>2. ASSUME NEW g \in Changes
      PROVE  /\ {User(g.user)} \subseteq Lock /\ {Binding(OrgOf[g.role])} \subseteq Lock
             /\ {Role(g.role)} \subseteq Lock /\ {Link(g.role, g.permission)} \subseteq Lock
             /\ {Reference(g.permission), Event(g.id)} \subseteq Lock
  <2>1. g.user \in Users /\ g.role \in Roles /\ g.permission \in Permissions
    BY CommandsAssumption
  <2>2. OrgOf[g.role] \in Orgs
    BY <2>1, CommandsAssumption
  <2>3. {User(g.user)} \subseteq Lock /\ {Binding(OrgOf[g.role])} \subseteq Lock
    BY <2>1, <2>2 DEF Lock
  <2>4. {Role(g.role)} \subseteq Lock /\ {Link(g.role, g.permission)} \subseteq Lock
    BY <2>1 DEF Lock
  <2>5. {Reference(g.permission), Event(g.id)} \subseteq Lock
    BY <2>1 DEF Lock
  <2> QED
    BY <2>3, <2>4, <2>5
<1>3. {Perm(Manage)} \subseteq Lock /\ \A r \in Row : {Held(r)} \subseteq Lock
  BY DEF Lock
<1> QED
  BY <1>1, <1>2, <1>3

LEMMA OptionOne ==
  ASSUME NEW S, NEW x \in S
  PROVE  {x} \in Option(S)
BY DEF Option

LEMMA OptionNone ==
  ASSUME NEW S
  PROVE  {} \in Option(S)
BY DEF Option

\* What the helpers leave in a transaction; the others are left alone.
Alone(p) ==
  /\ tx' \in [Sessions -> Transaction]
  /\ \A o \in Sessions \ {p} : tx'[o] = tx[o]

LEMMA AdvanceEffect ==
  ASSUME tx \in [Sessions -> Transaction], NEW p \in Sessions, NEW pc \in Statement,
         NEW L \in SUBSET Lock, Advance(p, pc, L)
  PROVE  /\ Alone(p)
         /\ tx'[p].pc = pc /\ tx'[p].job = tx[p].job /\ tx'[p].holds = tx[p].holds \cup L
         /\ tx'[p].done = tx[p].done /\ tx'[p].answer = tx[p].answer
<1>1. tx[p] \in Transaction
  OBVIOUS
<1> DEFINE t == [tx[p] EXCEPT !.pc = pc, !.holds = @ \cup L]
<1>2. /\ t \in Transaction /\ t.pc = pc /\ t.job = tx[p].job /\ t.holds = tx[p].holds \cup L
      /\ t.done = tx[p].done /\ t.answer = tx[p].answer
  BY <1>1 DEF Transaction, Statement
<1>3. tx' = [tx EXCEPT ![p] = t]
  BY DEF Advance
<1> HIDE DEF t
<1> QED
  BY <1>2, <1>3 DEF Alone

LEMMA EndEffect ==
  ASSUME tx \in [Sessions -> Transaction], NEW p \in Sessions, NEW a \in Response, End(p, a)
  PROVE  /\ Alone(p)
         /\ tx'[p].pc = "answered" /\ tx'[p].job = tx[p].job /\ tx'[p].holds = {}
         /\ tx'[p].done = {} /\ tx'[p].answer = {a}
<1>1. tx[p] \in Transaction /\ {a} \in Option(Response) /\ {} \in SUBSET Lock /\ {} \in SUBSET Write
  BY OptionOne
<1> DEFINE t == [tx[p] EXCEPT !.pc = "answered", !.holds = {}, !.done = {}, !.answer = {a}]
<1>2. /\ t \in Transaction /\ t.pc = "answered" /\ t.job = tx[p].job /\ t.holds = {}
      /\ t.done = {} /\ t.answer = {a}
  BY <1>1 DEF Transaction
<1>3. tx' = [tx EXCEPT ![p] = t]
  BY DEF End
<1> HIDE DEF t
<1> QED
  BY <1>2, <1>3 DEF Alone

LEMMA FlushedEffect ==
  ASSUME tx \in [Sessions -> Transaction], NEW p \in Sessions, NEW c, NEW w \in Write,
         NEW L \in SUBSET Lock, Flushed(p, c, w, L)
  PROVE  /\ Alone(p)
         /\ tx'[p].pc = IF c.writes \subseteq tx[p].done \cup {w} THEN "commit" ELSE "write"
         /\ tx'[p].job = tx[p].job /\ tx'[p].holds = tx[p].holds \cup L
         /\ tx'[p].done = tx[p].done \cup {w} /\ tx'[p].answer = tx[p].answer
<1> DEFINE pc == IF c.writes \subseteq tx[p].done \cup {w} THEN "commit" ELSE "write"
<1>1. tx[p] \in Transaction /\ pc \in {"commit", "write"}
  OBVIOUS
<1>2. tx' = [tx EXCEPT ![p] = [tx[p] EXCEPT !.pc = pc, !.done = @ \cup {w}, !.holds = @ \cup L]]
  BY DEF Flushed
<1> HIDE DEF pc
<1> DEFINE t == [tx[p] EXCEPT !.pc = pc, !.done = @ \cup {w}, !.holds = @ \cup L]
<1>3. /\ t \in Transaction /\ t.pc = pc /\ t.job = tx[p].job /\ t.holds = tx[p].holds \cup L
      /\ t.done = tx[p].done \cup {w} /\ t.answer = tx[p].answer
  BY <1>1 DEF Transaction
<1>4. tx' = [tx EXCEPT ![p] = t]
  BY <1>2
<1> HIDE DEF t
<1>5. Alone(p) /\ tx'[p] = t
  BY <1>3, <1>4 DEF Alone
<1> QED
  BY <1>3, <1>5 DEF pc

LEMMA BeginEffect ==
  ASSUME tx \in [Sessions -> Transaction], NEW p \in Sessions, Begin(p)
  PROVE  /\ Alone(p) /\ tx[p].pc = "idle"
         /\ \E j \in Job : tx'[p].job = {j} /\ tx'[p].pc = FirstStatement(j)
         /\ tx'[p].holds = tx[p].holds /\ tx'[p].done = tx[p].done /\ tx'[p].answer = tx[p].answer
<1>1. PICK j \in Job : tx' = [tx EXCEPT ![p] = [tx[p] EXCEPT !.pc = FirstStatement(j), !.job = {j}]]
  BY DEF Begin
<1>2. tx[p] \in Transaction /\ FirstStatement(j) \in {"user", "write", "lookup"}
  BY DEF FirstStatement
<1>3. {j} \in Option(Job)
  BY OptionOne
<1> DEFINE t == [tx[p] EXCEPT !.pc = FirstStatement(j), !.job = {j}]
<1>4. /\ t \in Transaction /\ t.pc = FirstStatement(j) /\ t.job = {j} /\ t.holds = tx[p].holds
      /\ t.done = tx[p].done /\ t.answer = tx[p].answer
  BY <1>2, <1>3 DEF Transaction
<1>5. tx' = [tx EXCEPT ![p] = t]
  BY <1>1
<1> HIDE DEF t
<1>6. Alone(p) /\ tx'[p] = t
  BY <1>4, <1>5 DEF Alone
<1> QED
  BY <1>4, <1>6 DEF Begin

LEMMA LeaveEffect ==
  ASSUME tx \in [Sessions -> Transaction], NEW p \in Sessions, Leave(p)
  PROVE  /\ Alone(p)
         /\ tx'[p].pc = "idle" /\ tx'[p].job = {} /\ tx'[p].holds = {} /\ tx'[p].done = {}
         /\ tx'[p].answer = {}
<1>1. {} \in Option(Job) /\ {} \in Option(Response)
  BY OptionNone
<1>2. NoTransaction \in Transaction
  BY <1>1 DEF NoTransaction, Transaction
<1>3. tx' = [tx EXCEPT ![p] = NoTransaction]
  BY DEF Leave
<1>4. Alone(p) /\ tx'[p] = NoTransaction
  BY <1>2, <1>3 DEF Alone
<1> QED
  BY <1>4 DEF NoTransaction

--------------------------------------------------------------------------------
(* Steps before the commit *)

\* What a session adds to its locks is free, or a foreign key's share.
TakesFreeLocks(p) ==
  \A l \in tx'[p].holds \ tx[p].holds :
    l \in Shared \/ \A o \in Sessions \ {p} : l \notin tx[o].holds

\* The committed state is the same, and so is all that is said of it.
LEMMA SameState ==
  ASSUME UNCHANGED promised
  PROVE  /\ receipts' = receipts /\ links' = links /\ ledger' = ledger
         /\ \A c : Permitted(c)' <=> Permitted(c)
         /\ \A w : Fits(w)' <=> Fits(w)
         /\ \A g : (Due(g)' <=> Due(g)) /\ (IsNew(g)' <=> IsNew(g))
BY DEF promised, Permitted, RolesIn, Fits, Revisions, Due, LastEvent, Events, IsNew

LEMMA OneJob ==
  ASSUME tx \in [Sessions -> Transaction], NEW p \in Sessions, NEW j \in tx[p].job
  PROVE  j \in Job /\ \A k \in tx[p].job : k = j
BY DEF Transaction, Option

\* A session alone moves, to a state that is sound for it.
LEMMA QuietStep ==
  ASSUME ApiInv, NEW p \in Sessions, UNCHANGED promised, Alone(p), Sound(p)', TakesFreeLocks(p)
  PROVE  ApiInv'
<1>1. Promise'
  BY ContractKeepsPromise DEF ApiInv
<1>2. tx' \in [Sessions -> Transaction] /\ \A o \in Sessions \ {p} : tx'[o] = tx[o]
  BY DEF Alone
<1>3. ASSUME NEW o \in Sessions
      PROVE  Sound(o)'
  <2>1. CASE o = p
    BY <2>1
  <2>2. CASE o # p
    <3>1. tx'[o] = tx[o] /\ Sound(o)
      BY <1>2, <2>2 DEF ApiInv
    <3> QED
      BY <3>1, SameState DEF Sound, Submitting, Writing, Changing, NextWrites
  <2> QED
    BY <2>1, <2>2
<1>4. Exclusive'
  <2> SUFFICES ASSUME NEW a \in Sessions, NEW b \in Sessions, a # b,
                      NEW l \in tx'[a].holds, l \in tx'[b].holds
               PROVE  l \in Shared
    BY DEF Exclusive, Shared
  <2>1. l \in tx[a].holds /\ l \in tx[b].holds => l \in Shared
    BY DEF ApiInv, Exclusive
  <2>2. CASE a = p
    <3>1. l \in tx[b].holds
      BY <1>2, <2>2
    <3> QED
      BY <2>1, <2>2, <3>1 DEF TakesFreeLocks
  <2>3. CASE b = p
    <3>1. l \in tx[a].holds
      BY <1>2, <2>3
    <3> QED
      BY <2>1, <2>3, <3>1 DEF TakesFreeLocks
  <2>4. CASE a # p /\ b # p
    BY <1>2, <2>1, <2>4
  <2> QED
    BY <2>2, <2>3, <2>4
<1> QED
  BY <1>1, <1>2, <1>3, <1>4 DEF ApiInv

\* An answer needs nothing any more.
LEMMA EndSound ==
  ASSUME tx \in [Sessions -> Transaction], NEW p \in Sessions, NEW a \in Response, End(p, a)
  PROVE  Alone(p) /\ Sound(p)' /\ TakesFreeLocks(p)
<1>1. /\ Alone(p) /\ tx'[p].pc = "answered" /\ tx'[p].holds = {} /\ tx'[p].done = {}
  BY EndEffect
<1>2. TakesFreeLocks(p)
  BY <1>1 DEF TakesFreeLocks
<1>3. Sound(p)'
  BY <1>1 DEF Sound, Submitting, Writing, Changing
<1> QED
  BY <1>1, <1>2, <1>3

LEMMA BeginSound ==
  ASSUME ApiInv, NEW p \in Sessions, Begin(p)
  PROVE  Alone(p) /\ Sound(p)' /\ TakesFreeLocks(p) /\ UNCHANGED promised
<1>1. tx \in [Sessions -> Transaction] /\ Sound(p)
  BY DEF ApiInv
<1>2. /\ Alone(p) /\ tx[p].pc = "idle"
      /\ tx'[p].holds = tx[p].holds /\ tx'[p].done = tx[p].done /\ tx'[p].answer = tx[p].answer
  BY <1>1, BeginEffect
<1>3. PICK j \in Job : tx'[p].job = {j} /\ tx'[p].pc = FirstStatement(j)
  BY <1>1, BeginEffect
<1>4. tx'[p].done = {} /\ tx'[p].answer = {}
  BY <1>1, <1>2 DEF Sound
<1>5. /\ j \in Submissions => tx'[p].pc = "user"
      /\ j \in WriteSets => tx'[p].pc = "write"
      /\ j \in Changes => tx'[p].pc = "lookup"
      /\ tx'[p].pc \in {"user", "write", "lookup"}
  BY <1>3, Kinds DEF FirstStatement
<1>6. j \in WriteSets => j \notin Submissions
  BY CommandsAssumption
<1>7. Sound(p)'
  BY <1>3, <1>4, <1>5, <1>6 DEF Sound, Submitting, Writing, Changing
<1> QED
  BY <1>2, <1>7 DEF TakesFreeLocks, Begin

LEMMA LeaveSound ==
  ASSUME ApiInv, NEW p \in Sessions, Leave(p)
  PROVE  Alone(p) /\ Sound(p)' /\ TakesFreeLocks(p) /\ UNCHANGED promised
<1>1. tx \in [Sessions -> Transaction]
  BY DEF ApiInv
<1>2. /\ Alone(p) /\ tx'[p].pc = "idle" /\ tx'[p].job = {} /\ tx'[p].holds = {}
      /\ tx'[p].done = {} /\ tx'[p].answer = {}
  BY <1>1, LeaveEffect
<1> QED
  BY <1>2 DEF Sound, TakesFreeLocks, Leave

LEMMA DenySound ==
  ASSUME ApiInv, NEW p \in Sessions, Deny(p)
  PROVE  Alone(p) /\ Sound(p)' /\ TakesFreeLocks(p) /\ UNCHANGED promised
BY EndSound DEF ApiInv, Deny, Response

\* The rows a statement locks, and the step it takes from there.
LEMMA LockRowSound ==
  ASSUME ApiInv, NEW p \in Sessions, LockRow(p)
  PROVE  Alone(p) /\ Sound(p)' /\ TakesFreeLocks(p) /\ UNCHANGED promised
<1>1. tx \in [Sessions -> Transaction] /\ Sound(p)
  BY DEF ApiInv
<1>2. PICK j \in tx[p].job :
        /\ tx[p].pc \in DOMAIN Order(j)
        /\ Unlocked(p, j)
        /\ Advance(p, Order(j)[tx[p].pc], Locked(j, tx[p].pc))
  BY DEF LockRow
<1>3. j \in Job /\ \A k \in tx[p].job : k = j
  BY <1>1, <1>2, OneJob
<1>4. UNCHANGED promised
  BY DEF LockRow
<1> DEFINE L  == Locked(j, tx[p].pc)
           pc == Order(j)[tx[p].pc]
<1>5. \A l \in L, o \in Sessions \ {p} : l \notin tx[o].holds
  BY <1>2 DEF Unlocked, Free
<1>6. CASE j \in Submissions
  <2>1. j.kind = "submit"
    BY <1>6, CommandsAssumption
  <2>2. /\ tx[p].pc \in {"user", "org", "binding", "roles", "permission"}
        /\ pc = ResolverOrder[tx[p].pc]
    BY <2>1, <1>2 DEF Order, ResolverOrder
  <2>3. /\ pc \in {"org", "binding", "roles", "permission", "links"}
        /\ pc = "roles" => tx[p].pc = "binding"
        /\ pc \in {"permission", "links"} => tx[p].pc \in {"roles", "permission"}
    BY <2>2 DEF ResolverOrder
  <2>4. tx[p].pc = "binding" => L = {Binding(j.org)}
    BY <2>1 DEF Locked
  <2>5. L \in SUBSET Lock
    <3>1. RolesIn(j.user, j.org) \in SUBSET Roles
      BY <1>6, CommandsAssumption DEF RolesIn
    <3> QED
      BY <2>2, <2>1, <1>6, <3>1, LocksAreLocks DEF Locked
  <2> HIDE DEF L, pc
  <2>6. Advance(p, pc, L) /\ pc \in Statement
    BY <1>2, <2>3 DEF L, pc, Statement
  <2>7. /\ Alone(p) /\ tx'[p].pc = pc /\ tx'[p].job = tx[p].job
        /\ tx'[p].holds = tx[p].holds \cup L
        /\ tx'[p].done = tx[p].done /\ tx'[p].answer = tx[p].answer
    BY <1>1, <2>5, <2>6, AdvanceEffect
  <2>8. TakesFreeLocks(p)
    BY <1>5, <2>7 DEF TakesFreeLocks
  <2>9. Submitting(p, j) /\ Writing(p, j)
    BY <1>1, <1>2, <1>6 DEF Sound
  <2>10. Submitting(p, j)'
    BY <2>9, <2>7, <2>2, <2>3, <2>4 DEF Submitting
  <2>11. Writing(p, j)'
    BY <2>9, <2>7, <2>2, <2>3, <1>4, SameState DEF Writing
  <2>12. tx'[p].answer = {} /\ tx'[p].pc \notin {"idle", "answered"}
    BY <1>1, <2>2, <2>3, <2>7 DEF Sound
  <2>13. j \notin WriteSets \cup Changes
    BY <2>1, CommandsAssumption
  <2>14. Sound(p)'
    BY <2>7, <2>10, <2>11, <2>12, <2>13, <1>3 DEF Sound
  <2> QED
    BY <1>4, <2>7, <2>8, <2>14
<1>7. CASE j \in Changes
  <2>1. j.kind \in {"grant", "revoke"}
    BY <1>7, CommandsAssumption
  <2>2. tx[p].pc \in {"user", "binding", "authority"} /\ pc = GrantOrder[tx[p].pc]
    BY <2>1, <1>2 DEF Order, GrantOrder
  <2>3. /\ pc \in {"binding", "authority", "role"}
        /\ pc = "authority" => tx[p].pc = "binding"
        /\ pc = "role" => tx[p].pc = "authority"
    BY <2>2 DEF GrantOrder
  <2>4. /\ tx[p].pc = "binding" => L = {Binding(OrgOf[j.role])}
        /\ tx[p].pc = "authority" => L = {Perm(Manage)}
        /\ tx[p].pc = "user" => L = {User(j.user)}
    BY <2>1 DEF Locked
  <2>5. L \in SUBSET Lock
    BY <2>2, <2>4, <1>7, LocksAreLocks
  <2> HIDE DEF L, pc
  <2>6. Advance(p, pc, L) /\ pc \in Statement
    BY <1>2, <2>3 DEF L, pc, Statement
  <2>7. /\ Alone(p) /\ tx'[p].pc = pc /\ tx'[p].job = tx[p].job
        /\ tx'[p].holds = tx[p].holds \cup L
        /\ tx'[p].done = tx[p].done /\ tx'[p].answer = tx[p].answer
    BY <1>1, <2>5, <2>6, AdvanceEffect
  <2>8. TakesFreeLocks(p)
    BY <1>5, <2>7 DEF TakesFreeLocks
  <2>9. Changing(p, j)
    BY <1>1, <1>2, <1>7 DEF Sound
  <2>10. Changing(p, j)'
    BY <2>9, <2>7, <2>2, <2>3, <2>4 DEF Changing
  <2>11. tx'[p].answer = {} /\ tx'[p].pc \notin {"idle", "answered"}
    BY <1>1, <2>2, <2>3, <2>7 DEF Sound
  <2>12. j \notin Submissions \cup WriteSets
    BY <2>1, CommandsAssumption
  <2>13. Sound(p)'
    BY <2>7, <2>10, <2>11, <2>12, <1>3 DEF Sound
  <2> QED
    BY <1>4, <2>7, <2>8, <2>13
<1>8. CASE j \in WriteSets
  <2>1. j.kind = "write" /\ j \in Submissions \cup WriteSets
    BY <1>8, CommandsAssumption
  <2>2. tx[p].pc \in {"user", "binding", "authority"}
    BY <2>1, <1>2 DEF Order, GrantOrder
  <2>3. tx[p].pc \in {"write", "insert", "commit", "answered"}
    BY <1>1, <1>2, <1>8 DEF Sound
  <2> QED
    BY <2>2, <2>3
<1> QED
  BY <1>3, <1>6, <1>7, <1>8 DEF Job

LEMMA ResolveSound ==
  ASSUME ApiInv, NEW p \in Sessions, Resolve(p)
  PROVE  Alone(p) /\ Sound(p)' /\ TakesFreeLocks(p) /\ UNCHANGED promised
<1> DEFINE Found(j) == {Link(r, j.permission) :
                          r \in {s \in RolesIn(j.user, j.org) : <<s, j.permission>> \in links}}
<1>1. tx \in [Sessions -> Transaction] /\ Sound(p)
  BY DEF ApiInv
<1>2. PICK j \in tx[p].job : /\ Free(p, Found(j))
                            /\ \/ Found(j) = {} /\ End(p, "denied")
                               \/ Found(j) # {} /\ Advance(p, "key", Found(j))
  BY DEF Resolve
<1>3. j \in Job /\ \A k \in tx[p].job : k = j
  BY <1>1, <1>2, OneJob
<1>4. UNCHANGED promised /\ tx[p].pc = "links"
  BY DEF Resolve
<1>5. j \in Submissions
  BY <1>1, <1>3, <1>4 DEF Sound, Changing, Job
<1>6. CASE End(p, "denied")
  BY <1>1, <1>4, <1>6, EndSound DEF Response
<1>7. CASE Found(j) # {} /\ Advance(p, "key", Found(j))
  <2>1. Permitted(j)
    BY <1>7 DEF Permitted
  <2>2. Found(j) \in SUBSET Lock
    <3>1. {s \in RolesIn(j.user, j.org) : <<s, j.permission>> \in links} \in SUBSET Roles
      BY <1>5, CommandsAssumption DEF RolesIn
    <3> QED
      BY <1>5, <3>1, LocksAreLocks
  <2> DEFINE L == Found(j)
  <2>3. L \in SUBSET Lock /\ Advance(p, "key", L) /\ Free(p, L)
    BY <1>2, <1>7, <2>2
  <2> HIDE DEF L
  <2>4. "key" \in Statement
    BY DEF Statement
  <2>5. /\ Alone(p) /\ tx'[p].pc = "key" /\ tx'[p].job = tx[p].job
        /\ tx'[p].holds = tx[p].holds \cup L
        /\ tx'[p].done = tx[p].done /\ tx'[p].answer = tx[p].answer
    BY <1>1, <2>3, <2>4, AdvanceEffect
  <2>6. TakesFreeLocks(p)
    BY <2>3, <2>5 DEF TakesFreeLocks, Free
  <2>7. Submitting(p, j) /\ Writing(p, j)
    BY <1>1, <1>5 DEF Sound
  <2>8. Submitting(p, j)'
    BY <2>7, <2>5, <1>4, <2>1, SameState DEF Submitting
  <2>9. Writing(p, j)'
    BY <2>7, <2>5, <1>4, SameState DEF Writing
  <2>10. j \notin WriteSets \cup Changes
    BY <1>5, CommandsAssumption
  <2>11. Sound(p)'
    BY <1>1, <1>3, <1>4, <2>5, <2>8, <2>9, <2>10 DEF Sound
  <2> QED
    BY <1>4, <2>5, <2>6, <2>11
<1> QED
  BY <1>2, <1>6, <1>7

LEMMA CheckReceiptSound ==
  ASSUME ApiInv, NEW p \in Sessions, CheckReceipt(p)
  PROVE  Alone(p) /\ Sound(p)' /\ TakesFreeLocks(p) /\ UNCHANGED promised
<1>1. tx \in [Sessions -> Transaction] /\ Sound(p)
  BY DEF ApiInv
<1>2. PICK j \in tx[p].job :
        /\ Free(p, {Key(LockKey[j.key])})
        /\ \/ (\A t \in receipts : t.key # j.key) /\ Advance(p, "write", {Key(LockKey[j.key])})
           \/ \E t \in receipts : End(p, IF t.digest = j.digest THEN "exact_replay" ELSE "conflict")
  BY DEF CheckReceipt
<1>3. j \in Job /\ \A k \in tx[p].job : k = j
  BY <1>1, <1>2, OneJob
<1>4. UNCHANGED promised /\ tx[p].pc = "key"
  BY DEF CheckReceipt
<1>5. j \in Submissions
  BY <1>1, <1>3, <1>4 DEF Sound, Changing, Job
<1>6. CASE \E t \in receipts : End(p, IF t.digest = j.digest THEN "exact_replay" ELSE "conflict")
  BY <1>1, <1>4, <1>6, EndSound DEF Response
<1>7. CASE (\A t \in receipts : t.key # j.key) /\ Advance(p, "write", {Key(LockKey[j.key])})
  <2> DEFINE L == {Key(LockKey[j.key])}
  <2>1. L \in SUBSET Lock /\ Key(LockKey[j.key]) \in L /\ Free(p, L)
    BY <1>2, <1>5, LocksAreLocks
  <2>2. Advance(p, "write", L)
    BY <1>7
  <2> HIDE DEF L
  <2>3. "write" \in Statement
    BY DEF Statement
  <2>4. /\ Alone(p) /\ tx'[p].pc = "write" /\ tx'[p].job = tx[p].job
        /\ tx'[p].holds = tx[p].holds \cup L
        /\ tx'[p].done = tx[p].done /\ tx'[p].answer = tx[p].answer
    BY <1>1, <2>1, <2>2, <2>3, AdvanceEffect
  <2>5. TakesFreeLocks(p)
    BY <2>1, <2>4 DEF TakesFreeLocks, Free
  <2>6. Submitting(p, j) /\ Writing(p, j)
    BY <1>1, <1>5 DEF Sound
  <2>7. Submitting(p, j)'
    BY <2>6, <2>4, <1>4, <1>7, <2>1, SameState DEF Submitting
  <2>8. Writing(p, j)'
    BY <2>6, <2>4, <1>4, SameState DEF Writing
  <2>9. j \notin WriteSets \cup Changes
    BY <1>5, CommandsAssumption
  <2>10. Sound(p)'
    BY <1>1, <1>3, <1>4, <2>4, <2>7, <2>8, <2>9 DEF Sound
  <2> QED
    BY <1>4, <2>4, <2>5, <2>10
<1> QED
  BY <1>2, <1>6, <1>7

\* The write whose turn it is, is one of the command's.
LEMMA OneWrite ==
  ASSUME NEW c \in Submissions \cup WriteSets, NEW done, NEW w \in NextWrites(c, done)
  PROVE  w \in c.writes /\ w \in Write /\ \A v \in NextWrites(c, done) : v = w
<1>1. w \in c.writes /\ w \in Write
  BY CommandsAssumption DEF NextWrites
<1>2. ASSUME NEW v \in NextWrites(c, done)
      PROVE  v = w
  <2>1. v \in c.writes /\ v \in Write
    BY CommandsAssumption DEF NextWrites
  <2>2. Rank[v.row] <= Rank[w.row] /\ Rank[w.row] <= Rank[v.row]
    BY DEF NextWrites
  <2>3. v.row \in Row /\ w.row \in Row
    BY <1>1, <2>1 DEF Write
  <2>4. Rank[v.row] \in Nat /\ Rank[w.row] \in Nat
    BY <2>3, OrderAssumption
  <2>5. Rank[v.row] = Rank[w.row]
    BY <2>2, <2>4
  <2>6. v.row = w.row
    BY <2>3, <2>5, OrderAssumption
  <2> QED
    BY <1>1, <2>1, <2>6, CommandsAssumption
<1> QED
  BY <1>1, <1>2

\* A statement that writes is one of a submission or a write set.
LEMMA WriterJob ==
  ASSUME ApiInv, NEW p \in Sessions, NEW j \in tx[p].job, tx[p].pc \in {"write", "insert"}
  PROVE  j \in Submissions \cup WriteSets /\ j \notin Changes
<1>1. Sound(p) /\ j \in Job
  BY OneJob DEF ApiInv
<1>2. j \notin Changes
  BY <1>1 DEF Sound, Changing
<1> QED
  BY <1>1, <1>2 DEF Job

\* The write is flushed under the lock of its row.
LEMMA FlushSound ==
  ASSUME ApiInv, NEW p \in Sessions, NEW j \in tx[p].job, tx[p].pc \in {"write", "insert"},
         NEW w \in Write, w \in j.writes, Fits(w), Free(p, {Held(w.row)}),
         Flushed(p, j, w, {Held(w.row)}), UNCHANGED promised
  PROVE  Alone(p) /\ Sound(p)' /\ TakesFreeLocks(p)
<1>1. tx \in [Sessions -> Transaction] /\ Sound(p)
  BY DEF ApiInv
<1>2. j \in Submissions \cup WriteSets /\ j \notin Changes
  BY WriterJob
<1>3. \A k \in tx[p].job : k = j
  BY <1>1, OneJob
<1> DEFINE L == {Held(w.row)}
<1>4. L \in SUBSET Lock /\ Held(w.row) \in L /\ Free(p, L) /\ Flushed(p, j, w, L)
  BY LocksAreLocks DEF Write
<1> HIDE DEF L
<1>5. /\ Alone(p)
      /\ tx'[p].pc = IF j.writes \subseteq tx[p].done \cup {w} THEN "commit" ELSE "write"
      /\ tx'[p].job = tx[p].job /\ tx'[p].holds = tx[p].holds \cup L
      /\ tx'[p].done = tx[p].done \cup {w} /\ tx'[p].answer = tx[p].answer
  BY <1>1, <1>4, FlushedEffect
<1>6. /\ tx'[p].pc \in {"write", "commit"}
      /\ tx'[p].pc = "commit" => j.writes \subseteq tx'[p].done
  BY <1>5
<1>7. TakesFreeLocks(p)
  BY <1>4, <1>5 DEF TakesFreeLocks, Free
<1>8. Writing(p, j)
  BY <1>1, <1>2 DEF Sound
<1>9. Writing(p, j)'
  <2>1. \A v \in tx[p].done : v \in j.writes /\ Held(v.row) \in tx[p].holds /\ Fits(v)
    BY <1>8 DEF Writing
  <2>2. \A v \in tx'[p].done : v \in j.writes /\ Held(v.row) \in tx'[p].holds /\ Fits(v)'
    BY <1>4, <1>5, <2>1, SameState
  <2> QED
    BY <1>6, <2>2 DEF Writing
<1>10. j \in Submissions => Submitting(p, j)'
  <2> HAVE j \in Submissions
  <2>1. Submitting(p, j)
    BY <1>1 DEF Sound
  <2> QED
    BY <1>5, <1>6, <2>1, SameState DEF Submitting
<1>11. Sound(p)'
  BY <1>1, <1>2, <1>3, <1>5, <1>6, <1>9, <1>10 DEF Sound
<1> QED
  BY <1>5, <1>7, <1>11

\* Between the select and the insert the first revision is still to write.
LEMMA SelectRowSound ==
  ASSUME ApiInv, NEW p \in Sessions, SelectRow(p)
  PROVE  Alone(p) /\ Sound(p)' /\ TakesFreeLocks(p) /\ UNCHANGED promised
<1>1. tx \in [Sessions -> Transaction] /\ Sound(p)
  BY DEF ApiInv
<1>2. UNCHANGED promised /\ tx[p].pc = "write"
  BY DEF SelectRow
<1>3. PICK j \in tx[p].job : \E w \in NextWrites(j, tx[p].done) :
        \/ Revisions(w.row) = {} /\ w.revision = 1 /\ Advance(p, "insert", {})
        \/ End(p, "conflict")
        \/ /\ Revisions(w.row) # {} /\ Free(p, {Held(w.row)})
           /\ Accepts(w) /\ Flushed(p, j, w, {Held(w.row)})
  BY DEF SelectRow
<1>4. j \in Submissions \cup WriteSets /\ j \notin Changes /\ \A k \in tx[p].job : k = j
  BY <1>1, <1>2, WriterJob, OneJob
<1>5. PICK w \in NextWrites(j, tx[p].done) :
        \/ Revisions(w.row) = {} /\ w.revision = 1 /\ Advance(p, "insert", {})
        \/ End(p, "conflict")
        \/ /\ Revisions(w.row) # {} /\ Free(p, {Held(w.row)})
           /\ Accepts(w) /\ Flushed(p, j, w, {Held(w.row)})
  BY <1>3
<1>6. w \in j.writes /\ w \in Write /\ \A v \in NextWrites(j, tx[p].done) : v = w
  BY <1>4, OneWrite
<1>7. CASE w.revision = 1 /\ Advance(p, "insert", {})
  <2> DEFINE none == {}
  <2>1. none \in SUBSET Lock /\ Advance(p, "insert", none) /\ \A l \in none : FALSE
    BY <1>7
  <2> HIDE DEF none
  <2>2. "insert" \in Statement
    BY DEF Statement
  <2>3. /\ Alone(p) /\ tx'[p].pc = "insert" /\ tx'[p].job = tx[p].job
        /\ tx'[p].holds = tx[p].holds \cup none
        /\ tx'[p].done = tx[p].done /\ tx'[p].answer = tx[p].answer
    BY <1>1, <2>1, <2>2, AdvanceEffect
  <2>4. TakesFreeLocks(p)
    BY <2>1, <2>3 DEF TakesFreeLocks
  <2>5. Writing(p, j)
    BY <1>1, <1>4 DEF Sound
  <2>6. \A v \in NextWrites(j, tx'[p].done) : v.revision = 1
    BY <1>6, <1>7, <2>3
  <2>7. Writing(p, j)'
    BY <2>5, <2>3, <1>2, <2>6, SameState DEF Writing, NextWrites
  <2>8. j \in Submissions => Submitting(p, j)'
    <3> HAVE j \in Submissions
    <3>1. Submitting(p, j)
      BY <1>1 DEF Sound
    <3> QED
      BY <1>2, <2>3, <3>1, SameState DEF Submitting
  <2>9. Sound(p)'
    BY <1>1, <1>2, <1>4, <2>3, <2>7, <2>8 DEF Sound
  <2> QED
    BY <1>2, <2>3, <2>4, <2>9
<1>8. CASE End(p, "conflict")
  BY <1>1, <1>2, <1>8, EndSound DEF Response
<1>9. CASE /\ Revisions(w.row) # {} /\ Free(p, {Held(w.row)})
           /\ Accepts(w) /\ Flushed(p, j, w, {Held(w.row)})
  <2>1. Fits(w)
    <3>1. w.row \in Kept => Revisions(w.row) = 1 .. head[w.row]
      BY DEF ApiInv, Promise, HistoryProvesHeads
    <3>2. w.row \in Kept => head[w.row] \in Nat
      BY DEF ApiInv, Promise, Types
    <3>3. w.revision \in Nat
      BY <1>6 DEF Write
    <3>4. w.row \in Kept => head[w.row] = w.revision - 1
      BY <1>9 DEF Accepts
    <3>5. w.row \in Kept => w.revision = head[w.row] + 1 /\ w.revision \notin Revisions(w.row)
      BY <3>1, <3>2, <3>3, <3>4
    <3>6. w.row \notin Kept => w.revision \notin Revisions(w.row)
      BY <1>9 DEF Accepts
    <3> QED
      BY <1>9, <3>5, <3>6 DEF Fits
  <2> QED
    BY <1>2, <1>6, <1>9, <2>1, FlushSound
<1> QED
  BY <1>5, <1>7, <1>8, <1>9

LEMMA InsertRowSound ==
  ASSUME ApiInv, NEW p \in Sessions, InsertRow(p)
  PROVE  Alone(p) /\ Sound(p)' /\ TakesFreeLocks(p) /\ UNCHANGED promised
<1>1. tx \in [Sessions -> Transaction] /\ Sound(p)
  BY DEF ApiInv
<1>2. UNCHANGED promised /\ tx[p].pc = "insert"
  BY DEF InsertRow
<1>3. PICK j \in tx[p].job : \E w \in NextWrites(j, tx[p].done) :
        /\ Free(p, {Held(w.row)})
        /\ \/ Revisions(w.row) = {} /\ Flushed(p, j, w, {Held(w.row)})
           \/ Revisions(w.row) # {} /\ End(p, "conflict")
  BY DEF InsertRow
<1>4. j \in Submissions \cup WriteSets
  BY <1>2, WriterJob
<1>5. PICK w \in NextWrites(j, tx[p].done) :
        /\ Free(p, {Held(w.row)})
        /\ \/ Revisions(w.row) = {} /\ Flushed(p, j, w, {Held(w.row)})
           \/ Revisions(w.row) # {} /\ End(p, "conflict")
  BY <1>3
<1>6. w \in j.writes /\ w \in Write
  BY <1>4, OneWrite
<1>7. CASE End(p, "conflict")
  BY <1>1, <1>2, <1>7, EndSound DEF Response
<1>8. CASE Revisions(w.row) = {} /\ Flushed(p, j, w, {Held(w.row)})
  <2>1. w.revision = 1
    BY <1>1, <1>2, <1>4 DEF Sound, Writing
  <2>2. w.row \in Kept => head[w.row] = 0
    <3> HAVE w.row \in Kept
    <3>1. Revisions(w.row) = 1 .. head[w.row]
      BY DEF ApiInv, Promise, HistoryProvesHeads
    <3>2. head[w.row] \in Nat
      BY DEF ApiInv, Promise, Types
    <3>3. 1 \notin 1 .. head[w.row]
      BY <1>8, <3>1
    <3> QED
      BY <3>2, <3>3
  <2>3. Fits(w)
    BY <1>8, <2>1, <2>2 DEF Fits
  <2> QED
    BY <1>2, <1>5, <1>6, <1>8, <2>3, FlushSound
<1> QED
  BY <1>5, <1>7, <1>8

\* A statement of the grant service that goes on to the next.
LEMMA ChangeStep ==
  ASSUME ApiInv, NEW p \in Sessions, NEW g \in Changes, g \in tx[p].job,
         NEW pc \in {"user", "link", "flush", "commit"}, NEW L \in SUBSET Lock,
         \A l \in L : l \in Shared \/ \A o \in Sessions \ {p} : l \notin tx[o].holds,
         Advance(p, pc, L), UNCHANGED promised,
         pc = "user" => tx[p].pc = "lookup",
         pc = "link" => tx[p].pc = "role" /\ IsNew(g),
         pc = "flush" => tx[p].pc = "link" /\ Due(g),
         pc = "commit" => tx[p].pc = "flush"
  PROVE  Alone(p) /\ Sound(p)' /\ TakesFreeLocks(p)
<1>1. tx \in [Sessions -> Transaction] /\ Sound(p)
  BY DEF ApiInv
<1>2. \A k \in tx[p].job : k = g
  BY <1>1, OneJob
<1>3. pc \in Statement
  BY DEF Statement
<1>4. /\ Alone(p) /\ tx'[p].pc = pc /\ tx'[p].job = tx[p].job
      /\ tx'[p].holds = tx[p].holds \cup L
      /\ tx'[p].done = tx[p].done /\ tx'[p].answer = tx[p].answer
  BY <1>1, <1>3, AdvanceEffect
<1>5. TakesFreeLocks(p)
  BY <1>4 DEF TakesFreeLocks
<1>6. Changing(p, g)
  BY <1>1 DEF Sound
<1>7. Changing(p, g)'
  BY <1>4, <1>6, SameState DEF Changing
<1>8. g \notin Submissions \cup WriteSets
  BY CommandsAssumption
<1>9. tx[p].pc \notin {"idle", "answered"} /\ tx'[p].pc \notin {"idle", "answered"}
  BY <1>4
<1>10. Sound(p)'
  BY <1>1, <1>2, <1>4, <1>7, <1>8, <1>9 DEF Sound
<1> QED
  BY <1>4, <1>5, <1>10

\* A recognized request is answered.
LEMMA RecognizeSound ==
  ASSUME ApiInv, NEW p \in Sessions, NEW g, Recognize(p, g)
  PROVE  Alone(p) /\ Sound(p)' /\ TakesFreeLocks(p)
<1>1. PICK e \in ledger : End(p, IF e.by = g THEN "exact_replay" ELSE "conflict")
  BY DEF Recognize
<1>2. (IF e.by = g THEN "exact_replay" ELSE "conflict") \in Response
  BY DEF Response
<1> QED
  BY <1>1, <1>2, EndSound DEF ApiInv

\* Only a change reaches the statements of the grant service.
LEMMA ChangeJob ==
  ASSUME ApiInv, NEW p \in Sessions, NEW j \in tx[p].job,
         tx[p].pc \in {"lookup", "role", "link", "flush"}
  PROVE  j \in Changes
<1>1. Sound(p) /\ j \in Job
  BY OneJob DEF ApiInv
<1>2. j \notin Submissions /\ j \notin WriteSets
  BY <1>1 DEF Sound, Submitting
<1> QED
  BY <1>1, <1>2 DEF Job

LEMMA LookUpSound ==
  ASSUME ApiInv, NEW p \in Sessions, LookUp(p)
  PROVE  Alone(p) /\ Sound(p)' /\ TakesFreeLocks(p) /\ UNCHANGED promised
<1>1. UNCHANGED promised /\ tx[p].pc = "lookup"
  BY DEF LookUp
<1>2. PICK g \in tx[p].job : Recognize(p, g) \/ Advance(p, "user", {})
  BY DEF LookUp
<1>3. g \in Changes
  BY <1>1, ChangeJob
<1>4. CASE Recognize(p, g)
  BY <1>1, <1>4, RecognizeSound
<1>5. CASE Advance(p, "user", {})
  <2> DEFINE none == {}
  <2>1. none \in SUBSET Lock /\ Advance(p, "user", none) /\ \A l \in none : FALSE
    BY <1>5
  <2> HIDE DEF none
  <2> QED
    BY <1>1, <1>3, <2>1, ChangeStep
<1> QED
  BY <1>2, <1>4, <1>5

LEMMA LockRoleSound ==
  ASSUME ApiInv, NEW p \in Sessions, LockRole(p)
  PROVE  Alone(p) /\ Sound(p)' /\ TakesFreeLocks(p) /\ UNCHANGED promised
<1>1. UNCHANGED promised /\ tx[p].pc = "role"
  BY DEF LockRole
<1>2. PICK g \in tx[p].job :
        /\ Free(p, {Role(g.role)})
        /\ Recognize(p, g) \/ (IsNew(g) /\ Advance(p, "link", {Role(g.role)}))
  BY DEF LockRole
<1>3. g \in Changes
  BY <1>1, ChangeJob
<1>4. CASE Recognize(p, g)
  BY <1>1, <1>4, RecognizeSound
<1>5. CASE IsNew(g) /\ Advance(p, "link", {Role(g.role)})
  <2> DEFINE L == {Role(g.role)}
  <2>1. L \in SUBSET Lock /\ Advance(p, "link", L)
    BY <1>3, <1>5, LocksAreLocks
  <2>2. \A l \in L : \A o \in Sessions \ {p} : l \notin tx[o].holds
    BY <1>2 DEF Free
  <2> HIDE DEF L
  <2> QED
    BY <1>1, <1>3, <1>5, <2>1, <2>2, ChangeStep
<1> QED
  BY <1>2, <1>4, <1>5

LEMMA CheckLinkSound ==
  ASSUME ApiInv, NEW p \in Sessions, CheckLink(p)
  PROVE  Alone(p) /\ Sound(p)' /\ TakesFreeLocks(p) /\ UNCHANGED promised
<1>1. UNCHANGED promised /\ tx[p].pc = "link"
  BY DEF CheckLink
<1> DEFINE Mine(g) == IF <<g.role, g.permission>> \in links THEN {Link(g.role, g.permission)} ELSE {}
<1>2. PICK g \in tx[p].job :
        /\ <<g.role, g.permission>> \in links => Free(p, {Link(g.role, g.permission)})
        /\ End(p, "refused") \/ (Due(g) /\ Advance(p, "flush", Mine(g)))
  BY DEF CheckLink, Due
<1>3. g \in Changes
  BY <1>1, ChangeJob
<1>4. CASE End(p, "refused")
  BY <1>1, <1>4, EndSound DEF Response, ApiInv
<1>5. CASE Due(g) /\ Advance(p, "flush", Mine(g))
  <2> DEFINE L == Mine(g)
  <2>1. L \in SUBSET Lock
    BY <1>3, LocksAreLocks
  <2>2. \A l \in L : \A o \in Sessions \ {p} : l \notin tx[o].holds
    BY <1>2 DEF Free
  <2>3. Advance(p, "flush", L)
    BY <1>5
  <2> HIDE DEF L
  <2> QED
    BY <1>1, <1>3, <1>5, <2>1, <2>2, <2>3, ChangeStep
<1> QED
  BY <1>2, <1>4, <1>5

LEMMA FlushEventSound ==
  ASSUME ApiInv, NEW p \in Sessions, FlushEvent(p)
  PROVE  Alone(p) /\ Sound(p)' /\ TakesFreeLocks(p) /\ UNCHANGED promised
<1>1. UNCHANGED promised /\ tx[p].pc = "flush"
  BY DEF FlushEvent
<1>2. PICK g \in tx[p].job :
        /\ Free(p, {Perm(g.permission), Event(g.id)})
        /\ Advance(p, "commit", {Reference(g.permission), Event(g.id)})
  BY DEF FlushEvent
<1>3. g \in Changes
  BY <1>1, ChangeJob
<1> DEFINE L == {Reference(g.permission), Event(g.id)}
<1>4. L \in SUBSET Lock /\ Advance(p, "commit", L)
  BY <1>2, <1>3, LocksAreLocks
<1>5. Reference(g.permission) \in Shared
  BY <1>3, CommandsAssumption DEF Shared
<1>6. \A l \in L : l \in Shared \/ \A o \in Sessions \ {p} : l \notin tx[o].holds
  BY <1>2, <1>5 DEF Free
<1> HIDE DEF L
<1> QED
  BY <1>1, <1>3, <1>4, <1>6, ChangeStep

--------------------------------------------------------------------------------
(* The commit *)

\* A transaction that reaches its commit holds what the contract asks for.
LEMMA CommitIsOneStep ==
  ASSUME ApiInv, NEW p \in Sessions, Commit(p)
  PROVE  \E j \in tx[p].job :
           \/ j \in Submissions /\ Submit(j)
           \/ j \in WriteSets /\ StoreAlone(j)
           \/ j \in Changes /\ Change(j)
<1>1. tx \in [Sessions -> Transaction] /\ Sound(p) /\ tx[p].pc = "commit"
  BY DEF ApiInv, Commit
<1>2. PICK j \in tx[p].job :
        \/ /\ j.kind = "submit" /\ receipts' = receipts \cup {j} /\ Store(j)
           /\ UNCHANGED <<links, ledger>>
        \/ /\ j.kind = "write" /\ Store(j)
           /\ UNCHANGED <<links, ledger, receipts>>
        \/ /\ j.kind \in {"grant", "revoke"} /\ Record(j)
           /\ UNCHANGED <<receipts, head, history>>
  BY DEF Commit
<1>3. j \in Job
  BY <1>1, OneJob
<1>4. j \in Submissions \cup WriteSets => \A w \in j.writes : Fits(w)
  BY <1>1 DEF Sound, Writing
<1>5. CASE j.kind = "submit"
  <2>1. j \in Submissions
    BY <1>3, <1>5, Kinds
  <2>2. Permitted(j) /\ \A t \in receipts : t.key # j.key
    BY <1>1, <2>1 DEF Sound, Submitting
  <2> QED
    BY <1>2, <1>4, <1>5, <2>1, <2>2 DEF Submit
<1>6. CASE j.kind = "write"
  <2>1. j \in WriteSets
    BY <1>3, <1>6, Kinds
  <2> QED
    BY <1>2, <1>4, <1>6, <2>1 DEF StoreAlone
<1>7. CASE j.kind \in {"grant", "revoke"}
  <2>1. j \in Changes
    BY <1>3, <1>7, Kinds
  <2>2. IsNew(j) /\ Due(j)
    BY <1>1, <2>1 DEF Sound, Changing
  <2> QED
    BY <1>2, <1>7, <2>1, <2>2 DEF Change, IsNew, Due
<1> QED
  BY <1>2, <1>5, <1>6, <1>7

\* What another session has flushed is not written by the commit.
LEMMA OthersStillFit ==
  ASSUME ApiInv, NEW p \in Sessions, NEW j \in tx[p].job, j \in Submissions \cup WriteSets,
         tx[p].pc = "commit", Store(j),
         NEW o \in Sessions \ {p}, NEW w \in Write, Held(w.row) \in tx[o].holds, Fits(w)
  PROVE  Fits(w)'
<1>1. \A v \in j.writes : Held(v.row) \in tx[p].holds
  BY DEF ApiInv, Sound, Writing
<1>2. Held(w.row) \notin Shared
  BY DEF Held, Shared, Reference
<1>3. Held(w.row) \notin tx[p].holds
  BY <1>2 DEF ApiInv, Exclusive
<1>4. \A v \in j.writes : v.row # w.row
  BY <1>1, <1>3 DEF Held
<1>5. Types
  BY DEF ApiInv, Promise
<1>6. Revisions(w.row)' = Revisions(w.row)
  BY <1>4, <1>5, OtherRevisions
<1>7. w.row \in Kept => head'[w.row] = head[w.row]
  BY <1>4, <1>5, StoreEffect
<1> QED
  BY <1>6, <1>7 DEF Fits

\* The locks of two sessions on one name are one lock.
LEMMA OneHolder ==
  ASSUME Exclusive, NEW p \in Sessions, NEW o \in Sessions, o # p
  PROVE  /\ \A k : ~ (Key(k) \in tx[p].holds /\ Key(k) \in tx[o].holds)
         /\ \A b : ~ (Binding(b) \in tx[p].holds /\ Binding(b) \in tx[o].holds)
         /\ \A q : ~ (Perm(q) \in tx[p].holds /\ Perm(q) \in tx[o].holds)
<1>1. /\ \A k : Key(k) \notin Shared
      /\ \A b : Binding(b) \notin Shared
      /\ \A q : Perm(q) \notin Shared
  BY DEF Key, Binding, Perm, Shared, Reference
<1> QED
  BY <1>1 DEF Exclusive

\* The commit of a write set or a submission leaves the others sound.
LEMMA OthersAfterStore ==
  ASSUME ApiInv, NEW p \in Sessions, NEW j \in tx[p].job, j \in Submissions \cup WriteSets,
         tx[p].pc = "commit", Store(j), UNCHANGED <<links, ledger>>,
         receipts' = receipts \/ (j \in Submissions /\ receipts' = receipts \cup {j}),
         NEW o \in Sessions \ {p}, tx'[o] = tx[o]
  PROVE  Sound(o)'
<1>1. tx \in [Sessions -> Transaction] /\ Sound(o) /\ Sound(p) /\ Exclusive
  BY DEF ApiInv
<1>2. tx[o].done \subseteq Write
  BY <1>1 DEF Transaction
<1>3. \A c : Permitted(c)' <=> Permitted(c)
  BY DEF Permitted, RolesIn
<1>4. \A g : (Due(g)' <=> Due(g)) /\ (IsNew(g)' <=> IsNew(g))
  BY DEF Due, LastEvent, Events, IsNew
<1>5. ASSUME NEW w \in tx[o].done, Held(w.row) \in tx[o].holds, Fits(w)
      PROVE  Fits(w)'
  BY <1>2, <1>5, OthersStillFit
<1>6. ASSUME NEW c \in tx[o].job, c \in Submissions
      PROVE  Submitting(o, c)'
  <2>1. Submitting(o, c)
    BY <1>1, <1>6 DEF Sound
  <2>2. ASSUME tx[o].pc \in {"write", "insert", "commit"}
        PROVE  \A t \in receipts' : t.key # c.key
    <3>1. Key(LockKey[c.key]) \in tx[o].holds /\ \A t \in receipts : t.key # c.key
      BY <2>1, <2>2 DEF Submitting
    <3>2. j \in Submissions => Key(LockKey[j.key]) \in tx[p].holds
      BY <1>1 DEF Sound, Submitting
    <3>3. j \in Submissions => j.key # c.key
      BY <1>1, <3>1, <3>2, OneHolder
    <3> QED
      BY <3>1, <3>3
  <2> QED
    BY <2>1, <2>2, <1>3 DEF Submitting
<1>7. ASSUME NEW c \in tx[o].job, c \in Submissions \cup WriteSets
      PROVE  Writing(o, c)'
  <2>1. Writing(o, c)
    BY <1>1, <1>7 DEF Sound
  <2> QED
    BY <2>1, <1>5 DEF Writing, NextWrites
<1>8. ASSUME NEW c \in tx[o].job, c \in Changes
      PROVE  Changing(o, c)'
  <2>1. Changing(o, c)
    BY <1>1, <1>8 DEF Sound
  <2> QED
    BY <2>1, <1>4 DEF Changing
<1> QED
  BY <1>1, <1>6, <1>7, <1>8 DEF Sound

\* The commit of a grant or a revocation leaves the others sound.
LEMMA OthersAfterRecord ==
  ASSUME ApiInv, NEW p \in Sessions, NEW g \in tx[p].job, g \in Changes,
         tx[p].pc = "commit", Record(g), UNCHANGED <<receipts, head, history>>,
         NEW o \in Sessions \ {p}, tx'[o] = tx[o]
  PROVE  Sound(o)'
<1>1. Sound(o) /\ Sound(p) /\ Exclusive
  BY DEF ApiInv
<1>2. Binding(OrgOf[g.role]) \in tx[p].holds /\ Perm(Manage) \in tx[p].holds
  BY <1>1 DEF Sound, Changing
<1>3. \A w : Fits(w)' <=> Fits(w)
  BY DEF Fits, Revisions
<1>4. \A r, q : r # g.role => (<<r, q>> \in links' <=> <<r, q>> \in links)
  BY DEF Record
<1>5. ASSUME NEW c \in tx[o].job, c \in Submissions
      PROVE  Submitting(o, c)'
  <2>1. Submitting(o, c)
    BY <1>1, <1>5 DEF Sound
  <2>2. ASSUME tx[o].pc \in {"key", "write", "insert", "commit"}
        PROVE  Permitted(c)'
    <3>1. Binding(c.org) \in tx[o].holds /\ Permitted(c)
      BY <2>1, <2>2 DEF Submitting
    <3>2. c.org # OrgOf[g.role]
      BY <1>1, <1>2, <3>1, OneHolder
    <3>3. PICK r \in RolesIn(c.user, c.org) : <<r, c.permission>> \in links
      BY <3>1 DEF Permitted
    <3>4. r # g.role
      BY <3>2, <3>3 DEF RolesIn
    <3>5. <<r, c.permission>> \in links'
      BY <1>4, <3>3, <3>4
    <3> QED
      BY <3>3, <3>5 DEF Permitted, RolesIn
  <2> QED
    BY <2>1, <2>2 DEF Submitting
<1>6. ASSUME NEW c \in tx[o].job, c \in Submissions \cup WriteSets
      PROVE  Writing(o, c)'
  <2>1. Writing(o, c)
    BY <1>1, <1>6 DEF Sound
  <2> QED
    BY <2>1, <1>3 DEF Writing, NextWrites
<1>7. ASSUME NEW c \in tx[o].job, c \in Changes
      PROVE  Changing(o, c)'
  <2>1. Changing(o, c)
    BY <1>1, <1>7 DEF Sound
  <2>2. Perm(Manage) \notin tx[o].holds
    BY <1>1, <1>2, OneHolder
  <2> QED
    BY <2>1, <2>2 DEF Changing
<1> QED
  BY <1>1, <1>5, <1>6, <1>7 DEF Sound

LEMMA CommitKeepsInv ==
  ASSUME ApiInv, NEW p \in Sessions, Commit(p)
  PROVE  ApiInv' /\ ContractNext
<1>1. tx \in [Sessions -> Transaction] /\ tx[p].pc = "commit"
  BY DEF ApiInv, Commit
<1>2. PICK j \in tx[p].job : \/ j \in Submissions /\ Submit(j)
                             \/ j \in WriteSets /\ StoreAlone(j)
                             \/ j \in Changes /\ Change(j)
  BY CommitIsOneStep
<1>3. ContractNext
  BY <1>2 DEF ContractNext
<1>4. Promise'
  BY <1>3, ContractKeepsPromise DEF ApiInv
<1>5. End(p, "committed") /\ "committed" \in Response
  BY DEF Commit, Response
<1>6. Alone(p) /\ tx'[p].holds = {} /\ Sound(p)'
  BY <1>1, <1>5, EndEffect, EndSound
<1>7. ASSUME NEW o \in Sessions
      PROVE  Sound(o)'
  <2>1. CASE o = p
    BY <1>6, <2>1
  <2>2. CASE o # p
    <3>1. tx'[o] = tx[o]
      BY <1>6, <2>2 DEF Alone
    <3>2. CASE j \in Changes /\ Change(j)
      BY <2>2, <3>1, <3>2, <1>1, OthersAfterRecord DEF Change
    <3>3. CASE j \in Submissions /\ Submit(j)
      BY <2>2, <3>1, <3>3, <1>1, OthersAfterStore DEF Submit
    <3>4. CASE j \in WriteSets /\ StoreAlone(j)
      BY <2>2, <3>1, <3>4, <1>1, OthersAfterStore DEF StoreAlone
    <3> QED
      BY <1>2, <3>2, <3>3, <3>4
  <2> QED
    BY <2>1, <2>2
<1>8. Exclusive'
  BY <1>6 DEF ApiInv, Exclusive, Alone, Shared
<1> QED
  BY <1>3, <1>4, <1>6, <1>7, <1>8 DEF ApiInv, Alone

--------------------------------------------------------------------------------
(* The specification *)

\* Every step but a commit leaves the committed state alone.
LEMMA NextKeepsInv ==
  ASSUME ApiInv, [Next]_vars
  PROVE  ApiInv' /\ [ContractNext]_promised
<1>1. CASE UNCHANGED vars
  <2>1. UNCHANGED promised /\ tx' = tx
    BY <1>1 DEF vars, promised
  <2>2. Promise'
    BY <2>1, ContractKeepsPromise DEF ApiInv
  <2>3. Exclusive' /\ \A o \in Sessions : Sound(o)'
    BY <2>1, SameState DEF ApiInv, Exclusive, Shared, Sound, Submitting, Writing, Changing, NextWrites
  <2> QED
    BY <2>1, <2>2, <2>3 DEF ApiInv
<1>2. ASSUME NEW p \in Sessions, Commit(p)
      PROVE  ApiInv' /\ ContractNext
  BY <1>2, CommitKeepsInv
<1>3. ASSUME NEW p \in Sessions,
             \/ Begin(p) \/ Leave(p) \/ LockRow(p) \/ Deny(p) \/ Resolve(p) \/ CheckReceipt(p)
             \/ SelectRow(p) \/ InsertRow(p) \/ LookUp(p) \/ LockRole(p) \/ CheckLink(p)
             \/ FlushEvent(p)
      PROVE  ApiInv' /\ UNCHANGED promised
  <2>1. Alone(p) /\ Sound(p)' /\ TakesFreeLocks(p) /\ UNCHANGED promised
    BY <1>3, BeginSound, LeaveSound, LockRowSound, DenySound, ResolveSound, CheckReceiptSound,
       SelectRowSound, InsertRowSound, LookUpSound, LockRoleSound, CheckLinkSound, FlushEventSound
  <2> QED
    BY <2>1, QuietStep
<1> QED
  BY <1>1, <1>2, <1>3 DEF Next, Step, vars, promised

LEMMA InitKeepsInv ==
  ASSUME Init
  PROVE  ApiInv /\ ContractInit
<1>1. ContractInit /\ tx = [p \in Sessions |-> NoTransaction]
  BY DEF Init
<1>2. NoTransaction \in Transaction
  BY OptionNone DEF NoTransaction, Transaction
<1>3. Types /\ ReceiptsProveMutations /\ WriteSetsAreWhole
  BY <1>1 DEF ContractInit, Types, ReceiptsProveMutations, WriteSetsAreWhole
<1>4. HistoryProvesHeads
  <2>1. \A r \in Kept : Revisions(r) = {} /\ head[r] = 0
    BY <1>1 DEF ContractInit, Revisions
  <2>2. 1 .. 0 = {}
    OBVIOUS
  <2> QED
    BY <1>1, <2>1, <2>2 DEF ContractInit, HistoryProvesHeads
<1>5. RequestsAreUnique
  BY <1>1, FS_EmptySet DEF ContractInit, RequestsAreUnique
<1>6. LedgerProvesLinks
  <2>1. \A r, q : Events(r, q) = {}
    BY <1>1 DEF ContractInit, Events
  <2>2. {e.revision : e \in {}} = {} /\ Cardinality({}) = 0 /\ 1 .. 0 = {} /\ 0 % 2 # 1
    BY FS_EmptySet
  <2> QED
    BY <1>1, <2>1, <2>2 DEF ContractInit, LedgerProvesLinks
<1>7. Exclusive /\ \A p \in Sessions : Sound(p)
  BY <1>1 DEF NoTransaction, Exclusive, Sound
<1> QED
  BY <1>1, <1>2, <1>3, <1>4, <1>5, <1>6, <1>7 DEF ApiInv, Promise

\* Of every session its locks say what the committed state cannot lose.
THEOREM ApiInvariance == Spec => []ApiInv
<1>1. Init => ApiInv
  BY InitKeepsInv
<1>2. ApiInv /\ [Next]_vars => ApiInv'
  BY NextKeepsInv
<1> QED
  BY <1>1, <1>2, PTL DEF Spec

\* All values of the facade's state are of their types (RuntimeApi's TypeOK).
THEOREM ApiTypeCorrect == Spec => []TypeOK
<1>1. ApiInv => TypeOK
  BY DEF ApiInv, Promise, Types, TypeOK
<1> QED
  BY <1>1, ApiInvariance, PTL

\* The active links are what the immutable events of the grant service say.
THEOREM LedgerIsProof == Spec => []LedgerProvesLinks
<1>1. ApiInv => LedgerProvesLinks
  BY DEF ApiInv, Promise
<1> QED
  BY <1>1, ApiInvariance, PTL

\* The head of every Runtime record is proved by its revisions.
THEOREM HistoryIsProof == Spec => []HistoryProvesHeads
<1>1. ApiInv => HistoryProvesHeads
  BY DEF ApiInv, Promise
<1> QED
  BY <1>1, ApiInvariance, PTL

\* A key has one mutation, and its receipt proves all of its writes.
THEOREM ReceiptIsProof == Spec => []ReceiptsProveMutations
<1>1. ApiInv => ReceiptsProveMutations
  BY DEF ApiInv, Promise
<1> QED
  BY <1>1, ApiInvariance, PTL

\* A write set of the atomic persistence is stored as a whole.
THEOREM WriteSetsAreStoredWhole == Spec => []WriteSetsAreWhole
<1>1. ApiInv => WriteSetsAreWhole
  BY DEF ApiInv, Promise
<1> QED
  BY <1>1, ApiInvariance, PTL

\* The statements and row locks of the facade, the grant service and the record
\* store implement the contract: every transaction takes effect at one instant.
THEOREM StatementsImplementContract == Spec => ImplementsContract
<1>1. Init => ContractInit
  BY InitKeepsInv
<1>2. ApiInv /\ [Next]_vars => [ContractNext]_promised
  BY NextKeepsInv
<1> QED
  BY <1>1, <1>2, ApiInvariance, PTL DEF Spec, ImplementsContract, ContractSpec

\* No mutation is committed for a caller whose permission is gone.
THEOREM CallersArePermitted == Spec => MutationsArePermitted
<1> DEFINE A == \A c \in receipts' \ receipts : Permitted(c)
<1>1. ApiInv /\ [Next]_vars => [A]_vars
  <2> SUFFICES ASSUME ApiInv, [Next]_vars
               PROVE  A
    OBVIOUS
  <2>1. [ContractNext]_promised
    BY NextKeepsInv
  <2>2. ASSUME NEW c \in Submissions, Submit(c)
        PROVE  A
    BY <2>2 DEF Submit
  <2>3. ASSUME NEW c \in WriteSets, StoreAlone(c)
        PROVE  A
    BY <2>3 DEF StoreAlone
  <2>4. ASSUME NEW g \in Changes, Change(g)
        PROVE  A
    BY <2>4 DEF Change
  <2>5. CASE UNCHANGED promised
    BY <2>5 DEF promised
  <2> QED
    BY <2>1, <2>2, <2>3, <2>4, <2>5 DEF ContractNext
<1>2. MutationsArePermitted <=> [][A]_vars
  BY DEF MutationsArePermitted
<1> HIDE DEF A
<1> QED
  BY <1>1, <1>2, ApiInvariance, PTL DEF Spec

--------------------------------------------------------------------------------
(* The answers *)

\* What a session may say when it ends, of the command it was given.
Says(p, a) ==
  \A j \in tx[p].job :
    /\ a = "committed" =>
         IF j.kind \in {"submit", "write"}
         THEN \A w \in j.writes : [row |-> w.row, revision |-> w.revision, by |-> j] \in history'
         ELSE \E e \in ledger' : e.by = j
    /\ a = "exact_replay" =>
         IF j.kind = "submit" THEN \E t \in receipts : t.key = j.key /\ t.digest = j.digest
                              ELSE \E e \in ledger : e.by = j
    /\ a \in {"refused", "conflict"} => \A e \in ledger : e.by # j

\* A step of a session ends with such an answer, or gives none.
Answers(p) ==
  \/ tx'[p].answer = {}
  \/ tx'[p].job = tx[p].job /\ tx'[p].answer = tx[p].answer
  \/ \E a \in Response : tx'[p].job = tx[p].job /\ tx'[p].answer = {a} /\ Says(p, a)

LEMMA EndAnswers ==
  ASSUME tx \in [Sessions -> Transaction], NEW p \in Sessions, NEW a \in Response, End(p, a),
         Says(p, a)
  PROVE  Answers(p)
BY EndEffect DEF Answers

\* What is not a change has no event.
LEMMA NoEvent ==
  ASSUME ApiInv, NEW j \in Submissions \cup WriteSets
  PROVE  \A e \in ledger : e.by # j
<1>1. \A e \in ledger : e.by \in Changes
  BY DEF ApiInv, Promise, Types
<1> QED
  BY <1>1, CommandsAssumption

\* The one event of a request decides between a replay and a conflict.
LEMMA RecognizeAnswers ==
  ASSUME ApiInv, NEW p \in Sessions, NEW g \in tx[p].job, g \in Changes, Recognize(p, g)
  PROVE  Answers(p)
<1>1. PICK e \in ledger : e.by.id = g.id /\ End(p, IF e.by = g THEN "exact_replay" ELSE "conflict")
  BY DEF Recognize
<1>2. tx \in [Sessions -> Transaction] /\ \A j \in tx[p].job : j = g
  BY OneJob DEF ApiInv
<1>3. g.kind # "submit"
  BY CommandsAssumption
<1>4. CASE e.by = g
  <2>1. Says(p, "exact_replay")
    BY <1>2, <1>3, <1>4 DEF Says
  <2>2. End(p, "exact_replay") /\ "exact_replay" \in Response
    BY <1>1, <1>4 DEF Response
  <2> QED
    BY <1>2, <2>1, <2>2, EndAnswers
<1>5. CASE e.by # g
  <2>1. \A f \in ledger : f.by # g
    BY <1>1, <1>5 DEF ApiInv, Promise, RequestsAreUnique
  <2>2. Says(p, "conflict")
    BY <1>2, <2>1 DEF Says
  <2>3. End(p, "conflict") /\ "conflict" \in Response
    BY <1>1, <1>5 DEF Response
  <2> QED
    BY <1>2, <2>2, <2>3, EndAnswers
<1> QED
  BY <1>4, <1>5

\* A step that goes on says nothing.
LEMMA AdvanceAnswers ==
  ASSUME tx \in [Sessions -> Transaction], NEW p \in Sessions, NEW pc, NEW L, Advance(p, pc, L)
  PROVE  Answers(p)
<1>1. tx' = [tx EXCEPT ![p] = [tx[p] EXCEPT !.pc = pc, !.holds = @ \cup L]]
  BY DEF Advance
<1>2. tx[p] \in Transaction
  OBVIOUS
<1> DEFINE t == [tx[p] EXCEPT !.pc = pc, !.holds = @ \cup L]
<1>3. t.job = tx[p].job /\ t.answer = tx[p].answer
  BY <1>2 DEF Transaction
<1>4. tx' = [tx EXCEPT ![p] = t]
  BY <1>1
<1> HIDE DEF t
<1>5. tx'[p] = t
  BY <1>4
<1> QED
  BY <1>3, <1>5 DEF Answers

LEMMA FlushedAnswers ==
  ASSUME tx \in [Sessions -> Transaction], NEW p \in Sessions, NEW c, NEW w \in Write,
         w.row \in Row, Flushed(p, c, w, {Held(w.row)})
  PROVE  Answers(p)
<1> DEFINE L == {Held(w.row)}
<1>1. L \in SUBSET Lock /\ Flushed(p, c, w, L)
  BY LocksAreLocks
<1> HIDE DEF L
<1> QED
  BY <1>1, FlushedEffect DEF Answers

\* The refusals of a submission or a write set.
LEMMA WriterAnswers ==
  ASSUME ApiInv, NEW p \in Sessions, NEW j \in tx[p].job, j \in Submissions \cup WriteSets,
         End(p, "conflict")
  PROVE  Answers(p)
<1>1. tx \in [Sessions -> Transaction] /\ \A k \in tx[p].job : k = j
  BY OneJob DEF ApiInv
<1>2. Says(p, "conflict")
  BY <1>1, NoEvent DEF Says
<1>3. "conflict" \in Response
  BY DEF Response
<1> QED
  BY <1>1, <1>2, <1>3, EndAnswers

LEMMA CommitAnswers ==
  ASSUME ApiInv, NEW p \in Sessions, Commit(p)
  PROVE  Answers(p)
<1>1. tx \in [Sessions -> Transaction] /\ Promise
  BY DEF ApiInv
<1>2. PICK j \in tx[p].job : \/ j \in Submissions /\ Submit(j)
                             \/ j \in WriteSets /\ StoreAlone(j)
                             \/ j \in Changes /\ Change(j)
  BY CommitIsOneStep
<1>3. j \in Job /\ \A k \in tx[p].job : k = j
  BY <1>1, <1>2, OneJob
<1>4. j.kind \in {"submit", "write"} <=> j \in Submissions \cup WriteSets
  BY <1>3, Kinds
<1>5. IF j.kind \in {"submit", "write"}
      THEN \A w \in j.writes : [row |-> w.row, revision |-> w.revision, by |-> j] \in history'
      ELSE \E e \in ledger' : e.by = j
  <2>1. CASE j \in Submissions \cup WriteSets
    <3>1. Store(j)
      BY <1>2, <2>1, CommandsAssumption DEF Submit, StoreAlone
    <3> QED
      BY <1>1, <1>4, <2>1, <3>1, StoreEffect DEF Promise
  <2>2. CASE j \notin Submissions \cup WriteSets
    <3>1. [revision |-> j.expected + 1, by |-> j] \in ledger'
      BY <1>2, <2>2 DEF Change, Record
    <3>2. \E e \in ledger' : e.by = j
      <4> WITNESS [revision |-> j.expected + 1, by |-> j] \in ledger'
      <4> QED
        OBVIOUS
    <3> QED
      BY <1>4, <2>2, <3>2
  <2> QED
    BY <2>1, <2>2
<1>6. Says(p, "committed")
  BY <1>3, <1>5 DEF Says
<1>7. End(p, "committed") /\ "committed" \in Response
  BY DEF Commit, Response
<1> QED
  BY <1>1, <1>6, <1>7, EndAnswers

LEMMA StepAnswers ==
  ASSUME ApiInv, NEW p \in Sessions, Begin(p) \/ Step(p) \/ Leave(p)
  PROVE  Answers(p)
<1>1. tx \in [Sessions -> Transaction] /\ Sound(p)
  BY DEF ApiInv
<1>2. CASE Begin(p)
  BY <1>1, <1>2, BeginEffect DEF Answers, Sound
<1>3. CASE Leave(p)
  BY <1>1, <1>3, LeaveEffect DEF Answers
<1>4. CASE LockRow(p)
  BY <1>1, <1>4, AdvanceAnswers DEF LockRow
<1>5. ASSUME End(p, "denied")
      PROVE  Answers(p)
  <2>1. Says(p, "denied") /\ "denied" \in Response
    BY DEF Says, Response
  <2> QED
    BY <1>1, <1>5, <2>1, EndAnswers
<1>6. CASE Deny(p)
  BY <1>5, <1>6 DEF Deny
<1>7. CASE Resolve(p)
  BY <1>1, <1>5, <1>7, AdvanceAnswers DEF Resolve
<1>8. CASE CheckReceipt(p)
  <2>1. PICK j \in tx[p].job :
          \/ Advance(p, "write", {Key(LockKey[j.key])})
          \/ \E t \in receipts :
               /\ t.key = j.key
               /\ End(p, IF t.digest = j.digest THEN "exact_replay" ELSE "conflict")
    BY <1>8 DEF CheckReceipt
  <2>2. j \in Job /\ (\A k \in tx[p].job : k = j) /\ tx[p].pc = "key"
    BY <1>1, <1>8, <2>1, OneJob DEF CheckReceipt
  <2>3. j \in Submissions
    BY <1>1, <2>2 DEF Sound, Changing, Job
  <2>4. ASSUME NEW t \in receipts, t.key = j.key,
               End(p, IF t.digest = j.digest THEN "exact_replay" ELSE "conflict")
        PROVE  Answers(p)
    <3>1. CASE t.digest = j.digest
      <4>1. j.kind = "submit"
        BY <2>3, CommandsAssumption
      <4>2. Says(p, "exact_replay")
        BY <2>2, <2>4, <3>1, <4>1 DEF Says
      <4>3. End(p, "exact_replay") /\ "exact_replay" \in Response
        BY <2>4, <3>1 DEF Response
      <4> QED
        BY <1>1, <4>2, <4>3, EndAnswers
    <3>2. CASE t.digest # j.digest
      BY <2>3, <2>4, <3>2, WriterAnswers
    <3> QED
      BY <3>1, <3>2
  <2> QED
    BY <1>1, <2>1, <2>4, AdvanceAnswers
<1>9. ASSUME SelectRow(p) \/ InsertRow(p)
      PROVE  Answers(p)
  <2>1. PICK j \in tx[p].job : \E w \in NextWrites(j, tx[p].done) :
          \/ Advance(p, "insert", {})
          \/ Flushed(p, j, w, {Held(w.row)})
          \/ End(p, "conflict")
    BY <1>9 DEF SelectRow, InsertRow
  <2>2. j \in Submissions \cup WriteSets
    BY <1>9, WriterJob DEF SelectRow, InsertRow
  <2>3. ASSUME NEW w \in NextWrites(j, tx[p].done), Flushed(p, j, w, {Held(w.row)})
        PROVE  Answers(p)
    <3>1. w \in Write /\ w.row \in Row
      BY <2>2, OneWrite DEF Write
    <3> QED
      BY <1>1, <2>3, <3>1, FlushedAnswers
  <2>4. ASSUME Advance(p, "insert", {})
        PROVE  Answers(p)
    BY <1>1, <2>4, AdvanceAnswers
  <2> QED
    BY <2>1, <2>2, <2>3, <2>4, WriterAnswers
<1>10. ASSUME LookUp(p) \/ LockRole(p)
       PROVE  Answers(p)
  <2>1. PICK g \in tx[p].job : \/ Recognize(p, g)
                               \/ Advance(p, "user", {})
                               \/ Advance(p, "link", {Role(g.role)})
    BY <1>10 DEF LookUp, LockRole
  <2>2. g \in Changes
    BY <1>10, ChangeJob DEF LookUp, LockRole
  <2>3. ASSUME Advance(p, "user", {}) \/ Advance(p, "link", {Role(g.role)})
        PROVE  Answers(p)
    BY <1>1, <2>3, AdvanceAnswers
  <2> QED
    BY <2>1, <2>2, <2>3, RecognizeAnswers
<1>11. CASE CheckLink(p)
  <2>1. PICK g \in tx[p].job : \/ End(p, "refused")
                               \/ \E L \in {{Link(g.role, g.permission)}, {}} : Advance(p, "flush", L)
    BY <1>11 DEF CheckLink
  <2>2. g \in Changes /\ tx[p].pc = "link" /\ \A k \in tx[p].job : k = g
    BY <1>1, <1>11, ChangeJob, OneJob DEF CheckLink
  <2>3. \A e \in ledger : e.by # g
    BY <1>1, <2>2 DEF Sound, Changing, IsNew
  <2>4. Says(p, "refused") /\ "refused" \in Response
    BY <2>2, <2>3 DEF Says, Response
  <2> QED
    BY <1>1, <2>1, <2>4, EndAnswers, AdvanceAnswers
<1>12. CASE FlushEvent(p)
  BY <1>1, <1>12, AdvanceAnswers DEF FlushEvent
<1>13. CASE Commit(p)
  BY <1>13, CommitAnswers
<1> QED
  BY <1>2, <1>3, <1>4, <1>6, <1>7, <1>8, <1>9, <1>10, <1>11, <1>12, <1>13 DEF Step

\* The step of a session leaves the others alone.
LEMMA OthersAlone ==
  ASSUME ApiInv, NEW p \in Sessions, Begin(p) \/ Step(p) \/ Leave(p)
  PROVE  Alone(p)
<1>1. Commit(p) => Alone(p)
  <2> HAVE Commit(p)
  <2>1. End(p, "committed") /\ "committed" \in Response
    BY DEF Commit, Response
  <2> QED
    BY <2>1, EndEffect DEF ApiInv
<1> QED
  BY <1>1, BeginSound, LeaveSound, LockRowSound, DenySound, ResolveSound, CheckReceiptSound,
     SelectRowSound, InsertRowSound, LookUpSound, LockRoleSound, CheckLinkSound,
     FlushEventSound DEF Step

\* What was committed stays.
LEMMA NothingIsTakenBack ==
  ASSUME ApiInv, [Next]_vars
  PROVE  receipts \subseteq receipts' /\ ledger \subseteq ledger' /\ history \subseteq history'
<1>1. [ContractNext]_promised
  BY NextKeepsInv
<1> QED
  BY <1>1 DEF ContractNext, promised, Submit, StoreAlone, Change, Store, Record

LEMMA AnswersStayTrue ==
  ASSUME ApiInv, AnswersAreTrue, [Next]_vars
  PROVE  AnswersAreTrue'
<1>1. receipts \subseteq receipts' /\ ledger \subseteq ledger' /\ history \subseteq history'
  BY NothingIsTakenBack
<1> DEFINE True(p) == \A j \in tx[p].job :
             /\ "committed" \in tx[p].answer =>
                  IF j.kind \in {"submit", "write"}
                  THEN \A w \in j.writes : [row |-> w.row, revision |-> w.revision, by |-> j] \in history
                  ELSE \E e \in ledger : e.by = j
             /\ "exact_replay" \in tx[p].answer =>
                  IF j.kind = "submit" THEN \E t \in receipts : t.key = j.key /\ t.digest = j.digest
                                       ELSE \E e \in ledger : e.by = j
<1>2. ASSUME NEW o \in Sessions, True(o), tx'[o].job = tx[o].job, tx'[o].answer = tx[o].answer
      PROVE  True(o)'
  BY <1>1, <1>2
<1>3. ASSUME NEW p \in Sessions, True(p), Answers(p)
      PROVE  True(p)'
  <2>1. CASE tx'[p].answer = {}
    BY <2>1
  <2>2. CASE tx'[p].job = tx[p].job /\ tx'[p].answer = tx[p].answer
    BY <1>2, <1>3, <2>2
  <2>3. ASSUME NEW a \in Response, tx'[p].job = tx[p].job, tx'[p].answer = {a}, Says(p, a)
        PROVE  True(p)'
    BY <1>1, <2>3 DEF Says
  <2> QED
    BY <1>3, <2>1, <2>2, <2>3 DEF Answers
<1>4. AnswersAreTrue <=> \A p \in Sessions : True(p)
  BY DEF AnswersAreTrue
<1>5. AnswersAreTrue' <=> \A p \in Sessions : True(p)'
  BY DEF AnswersAreTrue
<1> HIDE DEF True
<1>6. CASE UNCHANGED vars
  BY <1>2, <1>4, <1>5, <1>6 DEF vars
<1>7. ASSUME NEW p \in Sessions, Begin(p) \/ Step(p) \/ Leave(p), NEW o \in Sessions
      PROVE  True(o)'
  <2>1. CASE o = p
    BY <1>3, <1>4, <1>7, <2>1, StepAnswers
  <2>2. CASE o # p
    <3>1. tx'[o] = tx[o]
      BY <1>7, <2>2, OthersAlone DEF Alone
    <3> QED
      BY <1>2, <1>4, <3>1
  <2> QED
    BY <2>1, <2>2
<1> QED
  BY <1>5, <1>6, <1>7 DEF Next

\* A caller who is told that a command was committed, or committed before, finds
\* it stored.
THEOREM AnswersCanBeTrusted == Spec => []AnswersAreTrue
<1>1. Init => AnswersAreTrue
  BY DEF Init, NoTransaction, AnswersAreTrue
<1>2. ApiInv /\ AnswersAreTrue /\ [Next]_vars => AnswersAreTrue'
  BY AnswersStayTrue
<1> QED
  BY <1>1, <1>2, ApiInvariance, PTL DEF Spec

\* A grant or a revocation is never refused because of its own first execution.
THEOREM RepeatsAreRecognized == Spec => RepeatIsRecognized
<1> DEFINE A == \A p \in Sessions : \A j \in tx[p].job :
                  tx[p].answer = {} /\ tx'[p].answer \in {{"refused"}, {"conflict"}}
                    => \A e \in ledger : e.by # j
<1>1. ApiInv /\ [Next]_vars => [A]_vars
  <2> SUFFICES ASSUME ApiInv, [Next]_vars, ~ UNCHANGED vars,
                      NEW o \in Sessions, NEW j \in tx[o].job,
                      tx[o].answer = {}, tx'[o].answer \in {{"refused"}, {"conflict"}},
                      NEW e \in ledger
               PROVE  e.by # j
    OBVIOUS
  <2>1. PICK p \in Sessions : Begin(p) \/ Step(p) \/ Leave(p)
    BY DEF Next
  <2>2. Alone(p) /\ Answers(p)
    BY <2>1, OthersAlone, StepAnswers
  <2>3. o = p
    BY <2>2 DEF Alone
  <2>4. PICK a \in Response : tx'[o].answer = {a} /\ Says(o, a)
    BY <2>2, <2>3 DEF Answers
  <2> QED
    BY <2>4 DEF Says
<1>2. RepeatIsRecognized <=> [][A]_vars
  BY DEF RepeatIsRecognized
<1> HIDE DEF A
<1> QED
  BY <1>1, <1>2, ApiInvariance, PTL DEF Spec
================================================================================
