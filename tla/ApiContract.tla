------------------------------ MODULE ApiContract ------------------------------
(***************************************************************************)
(* What the Runtime API, the permission grants and the record store        *)
(* promise together: each call takes effect at one instant.  At that       *)
(* instant the caller holds the permission, the key is unused, and every   *)
(* record is at the revision the caller read; or nothing is changed.       *)
(* There are no sessions, statements, locks or answers here.               *)
(***************************************************************************)
EXTENDS Naturals, FiniteSets

CONSTANTS Users, Orgs, Roles,
          Permissions,    \* the permissions the API asks for
          OrgOf,          \* role -> its organization
          RolesOf,        \* user -> the roles of the user's memberships
          Kept,           \* Runtime records: rows with a head and revisions
          Results,        \* logical execution results: revisions, no head
          Facts,          \* rows that are inserted once: reconciliation requests,
                          \* transaction records
          Submissions,    \* the mutations callers may submit
          WriteSets,      \* write sets that are committed without the API
          Changes         \* the grants and revocations managers may send

Row   == Kept \cup Results \cup Facts
Write == [row : Row, revision : Nat \ {0}]

\* A key stands for the whole identity of a command but its digest: tenant,
\* organization, principal, operation, version and idempotency key.  A write
\* set has at most one write per row; its expected revision is one less than the
\* one it writes.  A role is changed in its own organization only.
ASSUME CommandsAssumption ==
  /\ OrgOf \in [Roles -> Orgs] /\ RolesOf \in [Users -> SUBSET Roles]
  /\ \A c \in Submissions : c.kind = "submit" /\ c.user \in Users /\ c.org \in Orgs
                              /\ c.permission \in Permissions
  /\ \A s \in WriteSets : s.kind = "write"
  /\ \A c \in Submissions \cup WriteSets :
       /\ c.writes \subseteq Write /\ c.writes # {}
       /\ \A v, w \in c.writes : v.row = w.row => v = w
       /\ \A w \in c.writes : w.row \in Facts => w.revision = 1
  /\ \A g \in Changes : /\ g.kind \in {"grant", "revoke"} /\ g.user \in Users /\ g.role \in Roles
                        /\ g.permission \in Permissions /\ g.expected \in Nat
  /\ Kept \cap Results = {} /\ Kept \cap Facts = {}

VARIABLES links,      \* role_permissions: the roles that hold a permission
          ledger,     \* grant events: the commands with their revisions
          receipts,   \* receipts: the submissions that were committed
          head,       \* Runtime record -> its current revision; 0: no row
          history     \* the revisions of all rows, with the command that wrote them

promised == <<links, ledger, receipts, head, history>>

ContractInit ==
  /\ links = {} /\ ledger = {} /\ receipts = {}
  /\ head = [r \in Kept |-> 0]
  /\ history = {}

--------------------------------------------------------------------------------
RolesIn(u, o)   == {r \in RolesOf[u] : OrgOf[r] = o}
Permitted(c)    == \E r \in RolesIn(c.user, c.org) : <<r, c.permission>> \in links
Revisions(r)    == {h.revision : h \in {i \in history : i.row = r}}
Events(r, q)    == {e \in ledger : e.by.role = r /\ e.by.permission = q}

\* A Runtime record moves on by one revision; the first revision of a result
\* is 1 and no revision is written twice.
Fits(w) ==
  /\ w.revision \notin Revisions(w.row)
  /\ w.row \in Kept => w.revision = head[w.row] + 1
  /\ Revisions(w.row) = {} => w.revision = 1

\* All writes of a command at once.
Store(c) ==
  /\ head' = [r \in Kept |-> IF \E w \in c.writes : w.row = r THEN head[r] + 1 ELSE head[r]]
  /\ history' = history \cup {[row |-> w.row, revision |-> w.revision, by |-> c] : w \in c.writes}

\* A mutation with its receipt.
Submit(c) ==
  /\ Permitted(c)
  /\ \A t \in receipts : t.key # c.key
  /\ \A w \in c.writes : Fits(w)
  /\ receipts' = receipts \cup {c}
  /\ Store(c)
  /\ UNCHANGED <<links, ledger>>

\* A write set without the API.
StoreAlone(c) ==
  /\ \A w \in c.writes : Fits(w)
  /\ Store(c)
  /\ UNCHANGED <<links, ledger, receipts>>

\* The revisions of the events of a role and permission end at n.
LastEvent(r, q, n) ==
  /\ \A e \in Events(r, q) : e.revision <= n
  /\ n # 0 => \E e \in Events(r, q) : e.revision = n

\* Faulty variant: a revocation writes its event and keeps the link.
RecordEvent(g) ==
  /\ ledger' = ledger \cup {[revision |-> g.expected + 1, by |-> g]}
  /\ links' = links \cup {<<g.role, g.permission>>}

\* The projection and the ledger move together.
Record(g) ==
  /\ ledger' = ledger \cup {[revision |-> g.expected + 1, by |-> g]}
  /\ links' = IF g.kind = "grant" THEN links \cup {<<g.role, g.permission>>}
                                  ELSE links \ {<<g.role, g.permission>>}

\* A grant or revocation.
Change(g) ==
  /\ \A e \in ledger : e.by.id # g.id
  /\ g.kind = "grant" <=> <<g.role, g.permission>> \notin links
  /\ LastEvent(g.role, g.permission, g.expected)
  /\ Record(g)
  /\ UNCHANGED <<receipts, head, history>>

ContractNext ==
  \/ \E c \in Submissions : Submit(c)
  \/ \E c \in WriteSets : StoreAlone(c)
  \/ \E g \in Changes : Change(g)

ContractSpec == ContractInit /\ [][ContractNext]_promised
================================================================================
