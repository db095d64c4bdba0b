----------------------- MODULE KnowledgeIngestion_proofs -----------------------
(***************************************************************************)
(* What uploads and syncs keep true of documents and versions, for every   *)
(* set of sessions and documents and for every feed.                       *)
(*                                                                         *)
(* The invariant has a part for the committed rows (Stored), one that      *)
(* relates the transaction of a single session to them (Sound), and one    *)
(* that keeps the transactions of two sessions apart (Apart).  Sound and   *)
(* Apart are predicates on call records, so a step of one session leaves   *)
(* those of the others alone as long as it commits nothing.                *)
(***************************************************************************)
EXTENDS KnowledgePipeline, FiniteSetTheorems, SequenceTheorems, TLAPS

RowTypes ==
  /\ documents \subseteq Names \cup {Source}
  /\ versions \subseteq VersionRow
  /\ jobs \subseteq JobRow
  /\ sync \in SyncRow

AnyCall == {NoCall} \cup IngestionCall \cup ChunkCall \cup EmbedCall

CallTypes == call \in [Sessions -> AnyCall]

--------------------------------------------------------------------------------
(* The rows, and what a call knows, as predicates on one call record and the  *)
(* committed rows.                                                            *)

Of(V, name) == {v \in V : v.name = name}

Numbered(V) ==
  \A name \in Names : /\ IsFiniteSet(Of(V, name))
                      /\ {v.number : v \in Of(V, name)} = 1 .. Cardinality(Of(V, name))

Unique(V) == \A v, w \in V : SameKey(v, w) => v = w

Stored(D, V) ==
  /\ Numbered(V) /\ Unique(V)
  /\ \A v \in V : {v.name, Source} \subseteq D

\* Places at which a record is being stored, after its document was found, and
\* with a decision to store it.
Storing == {"number", "insert version"}
Found   == {"duplicate"} \cup Storing
Working == {"source", "insert source", "document", "insert document"} \cup Found

Done(c) == c.cursor - Len(c.items)

\* Which records are left.
Placed(c) ==
  /\ c.op = "upload" =>
       /\ c.pc \notin {"start", "source", "insert source", "duplicate", "failing"}
       /\ Len(c.items) = 1 /\ c.log = {}
       /\ c.pc # "commit" => c.rows = {}
  /\ c.op = "sync" /\ c.pc # "failing" =>
       /\ Len(c.items) <= c.cursor
       /\ \A i \in 1 .. Len(c.items) : c.items[i] = Feed[Done(c) + i]
       /\ c.pc \in Working => c.items # <<>>
       /\ c.pc = "commit" => c.items = <<>>
  /\ c.pc \in {"look", "start", "failing"} => c.docs = {} /\ c.rows = {} /\ c.log = {}

Covered(i, V) == \E v \in V : v.name = Feed[i].name /\ v.content = Feed[i].content

\* Every record that was passed is stored, or will be with this call.
Covers(c, V) ==
  c.op = "sync" /\ c.pc # "failing" => \A i \in 1 .. Done(c) : Covered(i, V \cup c.rows)

\* What was inserted continues what is committed.
Continues(c, V) ==
  /\ Numbered(V \cup c.rows) /\ Unique(V \cup c.rows)
  /\ c.rows \cap V = {}

\* A number that was read may be taken meanwhile, but is never too high; with
\* rows of the document inserted it is the next one.
Read(c, V) ==
  LET item == Head(c.items)
      count == Cardinality(Of(V \cup c.rows, item.name))
  IN  /\ c.pc \in Storing =>
           \A v \in c.rows : ~(v.name = item.name /\ v.content = item.content)
      /\ c.pc = "insert version" =>
           /\ c.number \in 1 .. count + 1
           /\ Of(c.rows, item.name) # {} => c.number = count + 1

Parents(c, D) ==
  LET item == Head(c.items)
  IN  /\ c.docs \cap D = {}
      /\ \A v \in c.rows : {v.name, Source} \subseteq D \cup c.docs
      /\ c.op = "upload" => Source \in D
      /\ c.pc \in {"document", "insert document"} \cup Found => Source \in D \cup c.docs
      /\ c.pc \in Found => item.name \in D \cup c.docs
      /\ c.pc = "insert source" => Source \notin c.docs
      /\ c.pc = "insert document" => item.name \notin c.docs

\* Where the inserted rows come from.
Origins(c) ==
  LET item == Head(c.items)
  IN  /\ \A d \in c.docs :
           \/ c.op = "sync" /\ d = Source
           \/ c.op = "sync" /\ \E i \in 1 .. Done(c) : Feed[i].name = d
           \/ c.pc \in Found /\ d = item.name
           \/ c.op = "upload" /\ c.pc = "commit"
      /\ c.op = "sync" =>
           \A v \in c.rows :
             \E i \in 1 .. Done(c) : Feed[i].name = v.name /\ Feed[i].content = v.content

\* The jobs that will be closed with this call.
Logged(c, V) ==
  LET item == Head(c.items)
  IN  /\ \A v \in c.rows : c.op = "sync" => Job("succeeded", v) \in c.log
      /\ \A j \in c.log :
           /\ j.status = "succeeded" =>
                \/ \E v \in c.rows : v.name = j.name /\ v.content = j.content
                \/ c.pc \in Storing /\ j.name = item.name /\ j.content = item.content
           /\ j.status = "duplicate" => \E v \in V \cup c.rows : v.content = j.content
      /\ c.op = "sync" /\ c.pc \in Storing => Job("succeeded", item) \in c.log
      /\ c.op = "upload" /\ c.pc = "commit" =>
           \E v \in c.rows : /\ c.rows = {v}
                             /\ v.name = item.name /\ v.content = item.content

Sound(c, D, V) ==
  /\ Placed(c) /\ Covers(c, V) /\ Continues(c, V) /\ Read(c, V)
  /\ Parents(c, D) /\ Origins(c) /\ Logged(c, V)

Apart(c, d) ==
  /\ c.docs \cap d.docs = {}
  /\ \A v \in c.rows, w \in d.rows : v.name # w.name

IngestionInv ==
  /\ RowTypes
  /\ Stored(documents, versions)
  /\ \A p \in Sessions : Ingests(p) => Sound(call[p], documents, versions)
  /\ \A p, q \in Sessions : p # q /\ Ingests(p) /\ Ingests(q) => Apart(call[p], call[q])
  /\ JobsAccountForVersions
  /\ CursorCoversFeed

--------------------------------------------------------------------------------
(* Numbered rows *)

\* The number that is read is the first that is free.
LEMMA NextNumberIsFree ==
  ASSUME NEW V, NEW name, IsFiniteSet(Of(V, name)),
         {v.number : v \in Of(V, name)} = 1 .. Cardinality(Of(V, name))
  PROVE  NextNumber(V, name) = Cardinality(Of(V, name)) + 1
<1> DEFINE n == Cardinality(Of(V, name))
<1>1. n \in Nat
  BY FS_CardinalityType
<1>2. {v.number : v \in {w \in V : w.name = name}} = 1 .. n
  BY DEF Of
<1>3. {0} \cup (1 .. n) = 0 .. n
  BY <1>1
<1>4. Max(0 .. n) = n
  BY <1>1 DEF Max
<1> QED
  BY <1>2, <1>3, <1>4 DEF NextNumber

LEMMA OfCounts ==
  ASSUME NEW V, Numbered(V), NEW name \in Names
  PROVE  /\ IsFiniteSet(Of(V, name))
         /\ Cardinality(Of(V, name)) \in Nat
         /\ {v.number : v \in Of(V, name)} = 1 .. Cardinality(Of(V, name))
BY FS_CardinalityType DEF Numbered

LEMMA NextIsNext ==
  ASSUME NEW n, NEW m \in Nat, n \in 1 .. m + 1, n \notin 1 .. m
  PROVE  n = m + 1
OBVIOUS

LEMMA NextIsPositive ==
  ASSUME NEW n, NEW m \in Nat, n = m + 1
  PROVE  n \in Nat \ {0}
OBVIOUS

LEMMA RangeGrows ==
  ASSUME NEW i, NEW m \in Nat, NEW n \in Nat, m <= n, i \in 1 .. m + 1
  PROVE  i \in 1 .. n + 1
OBVIOUS

\* A version with the next number and a new content continues the rows.
LEMMA Insertion ==
  ASSUME NEW V \in SUBSET VersionRow, Numbered(V), Unique(V), NEW v \in VersionRow,
         v.number = Cardinality(Of(V, v.name)) + 1,
         \A w \in V : ~(w.name = v.name /\ w.content = v.content)
  PROVE  /\ Numbered(V \cup {v})
         /\ Unique(V \cup {v})
<1> DEFINE n == Cardinality(Of(V, v.name))
<1>1. /\ v.name \in Names /\ IsFiniteSet(Of(V, v.name)) /\ n \in Nat
      /\ {w.number : w \in Of(V, v.name)} = 1 .. n
  BY OfCounts DEF VersionRow
<1>2. v \notin V
  OBVIOUS
<1>3. Of(V \cup {v}, v.name) = Of(V, v.name) \cup {v}
  BY DEF Of
<1>4. /\ IsFiniteSet(Of(V \cup {v}, v.name))
      /\ Cardinality(Of(V \cup {v}, v.name)) = n + 1
  BY <1>1, <1>2, <1>3, FS_AddElement DEF Of
<1>5. {w.number : w \in Of(V \cup {v}, v.name)} = 1 .. n + 1
  <2>1. {w.number : w \in Of(V \cup {v}, v.name)} = {w.number : w \in Of(V, v.name)} \cup {v.number}
    BY <1>3
  <2>2. (1 .. n) \cup {n + 1} = 1 .. n + 1
    BY <1>1
  <2> QED
    BY <1>1, <2>1, <2>2
<1>6. ASSUME NEW name \in Names, name # v.name
      PROVE  Of(V \cup {v}, name) = Of(V, name)
  BY <1>6 DEF Of
<1>7. Numbered(V \cup {v})
  BY <1>4, <1>5, <1>6 DEF Numbered
<1>8. ASSUME NEW w \in V, SameKey(v, w) \/ SameKey(w, v)
      PROVE  FALSE
  <2>1. w.name = v.name /\ w.number = v.number
    BY <1>8 DEF SameKey
  <2>2. w.number \in 1 .. n
    BY <1>1, <2>1 DEF Of
  <2> QED
    BY <1>1, <2>1, <2>2
<1>9. Unique(V \cup {v})
  BY <1>8 DEF Unique
<1> QED
  BY <1>7, <1>9

\* Rows of different documents do not meet.
LEMMA UnionOfTwo ==
  ASSUME NEW V, NEW S, NEW T,
         \A v \in S, w \in T : v.name # w.name,
         Numbered(V \cup S), Numbered(V \cup T), Unique(V \cup S), Unique(V \cup T)
  PROVE  /\ Numbered((V \cup T) \cup S)
         /\ Unique((V \cup T) \cup S)
<1>1. ASSUME NEW name \in Names
      PROVE  \/ Of((V \cup T) \cup S, name) = Of(V \cup S, name)
             \/ Of((V \cup T) \cup S, name) = Of(V \cup T, name)
  <2>1. Of(S, name) = {} \/ Of(T, name) = {}
    BY DEF Of
  <2>2. CASE Of(T, name) = {}
    BY <2>2 DEF Of
  <2>3. CASE Of(S, name) = {}
    BY <2>3 DEF Of
  <2> QED
    BY <2>1, <2>2, <2>3
<1>2. Numbered((V \cup T) \cup S)
  BY <1>1 DEF Numbered
<1>3. Unique((V \cup T) \cup S)
  <2> SUFFICES ASSUME NEW v \in (V \cup T) \cup S, NEW w \in (V \cup T) \cup S, SameKey(v, w)
               PROVE  v = w
    BY DEF Unique
  <2>1. v.name = w.name
    BY DEF SameKey
  <2>2. {v, w} \subseteq V \cup S \/ {v, w} \subseteq V \cup T
    BY <2>1
  <2> QED
    BY <2>2 DEF Unique
<1> QED
  BY <1>2, <1>3

\* With rows that are not committed the numbers go beyond the committed ones.
LEMMA Beyond ==
  ASSUME NEW V, NEW T, NEW name \in Names, Numbered(V), Numbered(V \cup T), T \cap V = {},
         NEW w \in T, w.name = name
  PROVE  \E u \in T : u.name = name /\ u.number = Cardinality(Of(V, name)) + 1
<1> DEFINE n == Cardinality(Of(V, name))
           m == Cardinality(Of(V \cup T, name))
<1>1. /\ n \in Nat /\ m \in Nat /\ IsFiniteSet(Of(V \cup T, name))
      /\ {v.number : v \in Of(V, name)} = 1 .. n
      /\ {v.number : v \in Of(V \cup T, name)} = 1 .. m
  BY OfCounts
<1>2. Of(V, name) \subseteq Of(V \cup T, name) /\ Of(V, name) # Of(V \cup T, name)
  BY DEF Of
<1>3. n < m
  <2>1. n <= m /\ (n = m => Of(V, name) = Of(V \cup T, name))
    BY <1>1, <1>2, FS_Subset
  <2> QED
    BY <1>1, <1>2, <2>1
<1>4. n + 1 \in 1 .. m
  BY <1>1, <1>3
<1>5. PICK u \in Of(V \cup T, name) : u.number = n + 1
  BY <1>1, <1>4
<1>6. u \notin Of(V, name)
  BY <1>1, <1>5
<1> QED
  BY <1>5, <1>6 DEF Of

--------------------------------------------------------------------------------
(* Calls *)

LEMMA IngestionIsTyped ==
  ASSUME CallTypes, NEW p \in Sessions, Ingests(p)
  PROVE  call[p] \in IngestionCall
<1>1. call[p] \in AnyCall
  BY DEF CallTypes
<1> QED
  BY <1>1 DEF AnyCall, NoCall, ChunkCall, EmbedCall, Ingests

\* The record that a call is at, and what is left without it.
LEMMA Items ==
  ASSUME NEW s \in Seq(Item), s # <<>>
  PROVE  /\ Head(s) \in Item /\ Head(s) = s[1]
         /\ Head(s).name \in Names /\ Head(s).content \in Contents
         /\ Len(s) \in Nat \ {0}
         /\ Tail(s) \in Seq(Item) /\ Len(Tail(s)) = Len(s) - 1
         /\ \A i \in 1 .. Len(Tail(s)) : Tail(s)[i] = s[i + 1]
         /\ Tail(s) = <<>> <=> Len(s) = 1
<1>1. Len(s) \in Nat \ {0} /\ Head(s) = s[1] /\ s[1] \in Item
  OBVIOUS
<1>2. Tail(s) \in Seq(Item) /\ Len(Tail(s)) = Len(s) - 1
  OBVIOUS
<1>3. \A i \in 1 .. Len(Tail(s)) : Tail(s)[i] = s[i + 1]
  OBVIOUS
<1>4. Tail(s) = <<>> <=> Len(s) = 1
  <2> DEFINE t == Tail(s)
  <2>1. t \in Seq(Item) /\ Len(t) = Len(s) - 1
    BY <1>2
  <2> HIDE DEF t
  <2>2. t = <<>> <=> Len(t) = 0
    BY <2>1, EmptySeq
  <2>3. t = <<>> <=> Len(s) = 1
    BY <1>1, <2>1, <2>2
  <2> QED
    BY <2>3 DEF t
<1>5. s[1].name \in Names /\ s[1].content \in Contents
  BY <1>1 DEF Item
<1> QED
  BY <1>1, <1>2, <1>3, <1>4, <1>5

LEMMA ApartIsSymmetric ==
  ASSUME NEW c, NEW d, Apart(c, d)
  PROVE  Apart(d, c)
BY DEF Apart

LEMMA Becoming ==
  ASSUME CallTypes, NEW p \in Sessions, NEW c \in AnyCall, Become(p, c)
  PROVE  /\ CallTypes'
         /\ call'[p] = c
         /\ \A q \in Sessions \ {p} : call'[q] = call[q]
BY DEF CallTypes, Become

\* A step that commits nothing: the call it is of has to be sound after it, and
\* apart from the others.
LEMMA Quiet ==
  ASSUME IngestionInv, CallTypes, NEW p \in Sessions, NEW c \in AnyCall, Become(p, c),
         UNCHANGED <<documents, versions, jobs>>,
         sync' \in SyncRow, sync'.cursor = sync.cursor,
         c.op \in {"upload", "sync"} =>
           /\ Sound(c, documents, versions)
           /\ \A q \in Sessions \ {p} : Ingests(q) => Apart(c, call[q])
  PROVE  IngestionInv' /\ CallTypes'
<1>1. /\ CallTypes' /\ call'[p] = c
      /\ \A q \in Sessions \ {p} : call'[q] = call[q]
  BY Becoming
<1>2. RowTypes' /\ Stored(documents, versions)'
  BY DEF IngestionInv, RowTypes
<1>3. (\A q \in Sessions : Ingests(q) => Sound(call[q], documents, versions))'
  BY <1>1 DEF IngestionInv, Ingests
<1>4. (\A q, r \in Sessions : q # r /\ Ingests(q) /\ Ingests(r) => Apart(call[q], call[r]))'
  <2> SUFFICES ASSUME NEW q \in Sessions, NEW r \in Sessions, q # r, Ingests(q)', Ingests(r)'
               PROVE  Apart(call'[q], call'[r])
    OBVIOUS
  <2>1. CASE q # p /\ r # p
    BY <1>1, <2>1 DEF IngestionInv, Ingests
  <2>2. CASE q = p
    BY <1>1, <2>2 DEF Ingests
  <2>3. CASE r = p
    BY <1>1, <2>3, ApartIsSymmetric DEF Ingests
  <2> QED
    BY <2>1, <2>2, <2>3
<1>5. JobsAccountForVersions' /\ CursorCoversFeed'
  BY DEF IngestionInv, JobsAccountForVersions, CursorCoversFeed
<1> QED
  BY <1>1, <1>2, <1>3, <1>4, <1>5 DEF IngestionInv

\* The call goes on without having inserted anything.
LEMMA QuietOn ==
  ASSUME IngestionInv, CallTypes, NEW p \in Sessions, Ingests(p),
         NEW c \in IngestionCall, Become(p, c), UNCHANGED <<documents, versions, jobs>>,
         sync' \in SyncRow, sync'.cursor = sync.cursor,
         Sound(c, documents, versions), c.docs \subseteq call[p].docs, c.rows \subseteq call[p].rows
  PROVE  IngestionInv' /\ CallTypes'
<1>1. \A q \in Sessions \ {p} : Ingests(q) => Apart(c, call[q])
  BY DEF IngestionInv, Apart
<1>2. c \in AnyCall
  BY DEF AnyCall
<1> QED
  BY <1>1, <1>2, Quiet

\* The call ends, or becomes another that is no ingestion.
LEMMA QuietEnd ==
  ASSUME IngestionInv, CallTypes, NEW p \in Sessions,
         NEW c \in AnyCall, c.op \notin {"upload", "sync"}, Become(p, c),
         UNCHANGED <<documents, versions, jobs>>, sync' \in SyncRow, sync'.cursor = sync.cursor
  PROVE  IngestionInv' /\ CallTypes'
BY Quiet

LEMMA EndIsTyped == NoCall \in AnyCall /\ NoCall.op \notin {"upload", "sync"}
BY DEF AnyCall, NoCall

--------------------------------------------------------------------------------
(* Steps that insert nothing *)

Places == {"look", "start", "source", "insert source", "document", "insert document",
           "duplicate", "number", "insert version", "commit", "failing"}

\* The same transaction, perhaps at another place.
Same(c, d) ==
  /\ c.op = d.op /\ c.items = d.items /\ c.cursor = d.cursor
  /\ c.docs = d.docs /\ c.rows = d.rows

LEMMA SameSound ==
  ASSUME NEW c, NEW d, NEW V, Same(c, d), d.pc # "failing", Covers(d, V), Continues(d, V)
  PROVE  Covers(c, V) /\ Continues(c, V)
BY DEF Same, Covers, Continues, Done

\* A call and what is known of it.
LEMMA Known ==
  ASSUME IngestionInv, CallTypes, NEW p \in Sessions, Ingests(p)
  PROVE  /\ call[p] \in IngestionCall
         /\ call[p].op \in {"upload", "sync"} /\ call[p].pc \in Places
         /\ Placed(call[p]) /\ Covers(call[p], versions) /\ Continues(call[p], versions)
         /\ Read(call[p], versions) /\ Parents(call[p], documents)
         /\ Origins(call[p]) /\ Logged(call[p], versions)
         /\ sync \in SyncRow
<1>1. call[p] \in IngestionCall
  BY IngestionIsTyped
<1>2. call[p].op \in {"upload", "sync"} /\ call[p].pc \in Places
  BY <1>1 DEF IngestionCall, Places
<1>3. Sound(call[p], documents, versions) /\ sync \in SyncRow
  BY DEF IngestionInv, RowTypes
<1> QED
  BY <1>1, <1>2, <1>3 DEF Sound

\* An exception leaves nothing of the transaction.
LEMMA RaiseKeeps ==
  ASSUME IngestionInv, CallTypes, NEW p \in Sessions, Ingests(p), Raise(p),
         UNCHANGED ingestionVars
  PROVE  IngestionInv' /\ CallTypes'
<1> DEFINE d == call[p]
           c == [d EXCEPT !.pc = "failing", !.items = <<>>, !.docs = {}, !.rows = {}, !.log = {},
                          !.row = FALSE]
<1>1. d \in IngestionCall /\ sync \in SyncRow
  BY Known
<1>2. CASE d.op = "upload"
  BY <1>1, <1>2, EndIsTyped, QuietEnd DEF Raise, ingestionVars
<1>3. CASE d.op # "upload"
  <2>1. Become(p, c) /\ d.op = "sync"
    BY <1>3 DEF Raise, Ingests
  <2>2. /\ c \in IngestionCall
        /\ c.op = "sync" /\ c.pc = "failing"
        /\ c.docs = {} /\ c.rows = {} /\ c.log = {}
    <3>1. <<>> \in Seq(Item)
      OBVIOUS
    <3>2. c \in IngestionCall
      BY <1>1, <3>1 DEF IngestionCall
    <3>3. c.op = "sync" /\ c.pc = "failing" /\ c.docs = {} /\ c.rows = {} /\ c.log = {}
      BY <1>1, <2>1 DEF IngestionCall
    <3> QED
      BY <3>2, <3>3
  <2> HIDE DEF c
  <2>3. versions \cup c.rows = versions
    BY <2>2
  <2>4. Continues(c, versions)
    BY <2>2, <2>3 DEF Continues, IngestionInv, Stored
  <2>5. /\ Placed(c) /\ Covers(c, versions) /\ Read(c, versions)
        /\ Parents(c, documents) /\ Origins(c) /\ Logged(c, versions)
    BY <2>2 DEF Placed, Covers, Read, Parents, Origins, Logged, Storing, Found
  <2> QED
    BY <1>1, <2>1, <2>2, <2>4, <2>5, QuietOn DEF Sound, ingestionVars
<1> QED
  BY <1>2, <1>3

LEMMA BreakKeeps ==
  ASSUME IngestionInv, CallTypes, NEW p \in Sessions, Break(p)
  PROVE  IngestionInv' /\ CallTypes'
BY RaiseKeeps DEF Break

\* A circle consists of uploads and syncs.
LEMMA AbortDeadlockKeeps ==
  ASSUME IngestionInv, CallTypes, NEW p \in Sessions, AbortDeadlock(p)
  PROVE  IngestionInv' /\ CallTypes'
<1>1. Ingests(p)
  BY DEF AbortDeadlock, Circle, WaitsWithin, WaitsFor
<1> QED
  BY <1>1, RaiseKeeps DEF AbortDeadlock

\* The places an upload and a sync go through before they have a decision.
LEMMA FindSourceKeeps ==
  ASSUME IngestionInv, CallTypes, NEW p \in Sessions, FindSource(p)
  PROVE  IngestionInv' /\ CallTypes'
<1> DEFINE d == call[p]
           pc == IF Source \in Documents(p) THEN "document" ELSE "insert source"
           c == [d EXCEPT !.row = d.log # {}, !.pc = pc]
<1>1. /\ Ingests(p) /\ d.op = "sync" /\ d.pc = "source"
      /\ Become(p, c) /\ UNCHANGED ingestionVars
  BY DEF FindSource, At, Ingests
<1>2. /\ d \in IngestionCall /\ sync \in SyncRow
      /\ Placed(d) /\ Covers(d, versions) /\ Continues(d, versions)
      /\ Parents(d, documents) /\ Origins(d) /\ Logged(d, versions)
  BY <1>1, Known
<1>3. /\ c \in IngestionCall /\ Same(c, d)
      /\ c.pc = pc /\ c.log = d.log
  <2>1. pc \in Places
    BY DEF Places
  <2> QED
    BY <1>2, <2>1 DEF IngestionCall, Same, Places
<1>4. (c.pc = "document" /\ Source \in documents \cup d.docs)
        \/ (c.pc = "insert source" /\ Source \notin documents \cup d.docs)
  BY <1>3 DEF Documents
<1> HIDE DEF c, d, pc
<1>5. Covers(c, versions) /\ Continues(c, versions)
  BY <1>1, <1>2, <1>3, SameSound
<1>6. Placed(c) /\ Read(c, versions)
  BY <1>1, <1>2, <1>3, <1>4 DEF Placed, Read, Same, Working, Storing, Found, Done
<1>7. Parents(c, documents)
  BY <1>1, <1>2, <1>3, <1>4 DEF Parents, Same, Storing, Found
<1>8. Origins(c)
  BY <1>1, <1>2, <1>3, <1>4 DEF Origins, Same, Storing, Found, Done
<1>9. Logged(c, versions)
  BY <1>1, <1>2, <1>3, <1>4 DEF Logged, Same, Storing
<1> QED
  BY <1>1, <1>2, <1>3, <1>5, <1>6, <1>7, <1>8, <1>9, QuietOn DEF Sound, ingestionVars, Same, d

LEMMA FindDocumentKeeps ==
  ASSUME IngestionInv, CallTypes, NEW p \in Sessions, FindDocument(p)
  PROVE  IngestionInv' /\ CallTypes'
<1> DEFINE d == call[p]
           found == Head(d.items).name \in documents \cup d.docs
           pc == IF found THEN IF d.op = "sync" THEN "duplicate" ELSE "number"
                 ELSE "insert document"
           c == [d EXCEPT !.pc = pc]
<1>1. /\ Ingests(p) /\ d.pc = "document"
      /\ Become(p, c) /\ UNCHANGED ingestionVars
  BY DEF FindDocument, AfterDocument, This, Documents
<1>2. /\ d \in IngestionCall /\ sync \in SyncRow
      /\ d.op \in {"upload", "sync"}
      /\ Placed(d) /\ Covers(d, versions) /\ Continues(d, versions)
      /\ Parents(d, documents) /\ Origins(d) /\ Logged(d, versions)
  BY <1>1, Known
<1>3. /\ c \in IngestionCall /\ Same(c, d)
      /\ c.pc = pc /\ c.log = d.log
  <2>1. pc \in Places
    BY DEF Places
  <2> QED
    BY <1>2, <2>1 DEF IngestionCall, Same, Places
<1>4. \/ found /\ c.pc = "duplicate" /\ c.op = "sync"
      \/ found /\ c.pc = "number" /\ c.op = "upload"
      \/ ~found /\ c.pc = "insert document"
  BY <1>2, <1>3 DEF Same
<1> HIDE DEF c, d, pc
<1>5. Covers(c, versions) /\ Continues(c, versions)
  BY <1>1, <1>2, <1>3, SameSound
<1>6. Placed(c)
  BY <1>1, <1>2, <1>3, <1>4 DEF Placed, Same, Working, Storing, Found, Done
<1>7. Read(c, versions)
  BY <1>1, <1>2, <1>3, <1>4 DEF Read, Placed, Same, Storing
<1>8. Parents(c, documents)
  BY <1>1, <1>2, <1>3, <1>4 DEF Parents, Same, Storing, Found
<1>9. Origins(c)
  BY <1>1, <1>2, <1>3, <1>4 DEF Origins, Same, Storing, Found, Done
<1>10. Logged(c, versions)
  BY <1>1, <1>2, <1>3, <1>4 DEF Logged, Same, Storing
<1> QED
  BY <1>1, <1>2, <1>3, <1>5, <1>6, <1>7, <1>8, <1>9, <1>10, QuietOn DEF Sound, ingestionVars, Same, d

\* A call whose transaction is empty.
LEMMA EmptyIsSound ==
  ASSUME NEW c, NEW D, NEW V, Stored(D, V), c.docs = {}, c.rows = {}, c.log = {},
         c.pc \notin Found \cup {"insert source", "insert document", "document"},
         c.op = "upload" => Source \in D /\ c.pc # "commit",
         Placed(c), Covers(c, V)
  PROVE  Sound(c, D, V)
<1>1. V \cup c.rows = V
  OBVIOUS
<1>2. Continues(c, V)
  BY <1>1 DEF Continues, Stored
<1>3. Read(c, V) /\ Parents(c, D)
  BY DEF Read, Parents, Storing, Found
<1>4. Origins(c) /\ Logged(c, V)
  BY DEF Origins, Logged, Storing, Found
<1> QED
  BY <1>2, <1>3, <1>4 DEF Sound

LEMMA UploadKeeps ==
  ASSUME IngestionInv, CallTypes, NEW p \in Sessions, Source \in documents,
         NEW item \in Uploads, Upload(p, item)
  PROVE  IngestionInv' /\ CallTypes'
<1> DEFINE c == Ingestion("upload", <<item>>, 0)
<1>1. item \in Item /\ sync \in SyncRow
  BY FeedAssumption DEF IngestionInv, RowTypes
<1>2. Len(Feed) \in Nat
  BY FeedAssumption
<1>3. <<item>> \in Seq(Item) /\ Len(<<item>>) = 1
  BY <1>1
<1>4. /\ c \in IngestionCall
      /\ c.op = "upload" /\ c.pc = "look" /\ c.items = <<item>>
      /\ c.docs = {} /\ c.rows = {} /\ c.log = {}
  BY <1>1, <1>2, <1>3 DEF Ingestion, IngestionCall
<1>5. Become(p, c) /\ UNCHANGED ingestionVars
  BY DEF Upload
<1> HIDE DEF c
<1>6. Placed(c) /\ Covers(c, versions)
  BY <1>3, <1>4 DEF Placed, Covers
<1>7. Sound(c, documents, versions)
  BY <1>4, <1>6, EmptyIsSound DEF Storing, Found, IngestionInv
<1>8. \A q \in Sessions \ {p} : Ingests(q) => Apart(c, call[q])
  BY <1>4 DEF Apart
<1> QED
  BY <1>1, <1>4, <1>5, <1>7, <1>8, Quiet DEF ingestionVars, AnyCall

\* The records between the cursor and the position the caller goes to.
LEMMA FetchKeeps ==
  ASSUME IngestionInv, CallTypes, NEW p \in Sessions, NEW upto \in 0 .. Len(Feed), Fetch(p, upto)
  PROVE  IngestionInv' /\ CallTypes'
<1> DEFINE s == SubSeq(Feed, sync.cursor + 1, upto)
           c == Ingestion("sync", s, upto)
<1>1. /\ sync \in SyncRow /\ Feed \in Seq(Item) /\ Len(Feed) \in Nat
      /\ sync.cursor \in Nat /\ upto \in Nat /\ sync.cursor <= upto /\ upto <= Len(Feed)
  BY FeedAssumption DEF IngestionInv, RowTypes, SyncRow, Fetch
<1>2. /\ s \in Seq(Item) /\ Len(s) = upto - sync.cursor
      /\ \A i \in 1 .. Len(s) : s[i] = Feed[sync.cursor + i]
  <2>1. \A i \in sync.cursor + 1 .. upto : Feed[i] \in Item
    BY <1>1
  <2>2. s \in Seq(Item)
    BY <1>1, <2>1, SubSeqProperties
  <2>3. Len(s) = IF sync.cursor + 1 <= upto THEN upto - (sync.cursor + 1) + 1 ELSE 0
    BY <1>1, <2>1, SubSeqProperties
  <2>4. \A i \in 1 .. upto - (sync.cursor + 1) + 1 : s[i] = Feed[sync.cursor + 1 + i - 1]
    BY <1>1, <2>1, SubSeqProperties
  <2> HIDE DEF s
  <2>5. Len(s) = upto - sync.cursor
    BY <1>1, <2>3
  <2>6. ASSUME NEW i \in 1 .. Len(s) PROVE s[i] = Feed[sync.cursor + i]
    <3>1. i \in 1 .. upto - (sync.cursor + 1) + 1 /\ sync.cursor + 1 + i - 1 = sync.cursor + i
      BY <1>1, <2>5
    <3> QED
      BY <2>4, <3>1
  <2> QED
    BY <2>2, <2>5, <2>6
<1> HIDE DEF s
<1>3. /\ c \in IngestionCall
      /\ c.op = "sync" /\ c.pc = "look" /\ c.items = s /\ c.cursor = upto
      /\ c.docs = {} /\ c.rows = {} /\ c.log = {}
  BY <1>1, <1>2 DEF Ingestion, IngestionCall
<1>4. Become(p, c) /\ UNCHANGED ingestionVars
  BY DEF Fetch, s
<1> HIDE DEF c
<1>5. Done(c) = sync.cursor
  <2>1. c.cursor = upto /\ Len(c.items) = upto - sync.cursor
    BY <1>2, <1>3
  <2>2. upto - (upto - sync.cursor) = sync.cursor
    BY <1>1
  <2> QED
    BY <2>1, <2>2 DEF Done
<1>6. Placed(c)
  BY <1>1, <1>2, <1>3, <1>5 DEF Placed, Working, Storing, Found
<1>7. Covers(c, versions)
  BY <1>3, <1>5 DEF Covers, Covered, IngestionInv, CursorCoversFeed
<1>8. Sound(c, documents, versions)
  BY <1>3, <1>6, <1>7, EmptyIsSound DEF Storing, Found, IngestionInv
<1>9. \A q \in Sessions \ {p} : Ingests(q) => Apart(c, call[q])
  BY <1>3 DEF Apart
<1> QED
  BY <1>1, <1>3, <1>4, <1>8, <1>9, Quiet DEF ingestionVars, AnyCall

LEMMA LookUpStateKeeps ==
  ASSUME IngestionInv, CallTypes, NEW p \in Sessions, LookUpState(p)
  PROVE  IngestionInv' /\ CallTypes'
<1> DEFINE d == call[p]
           c == [d EXCEPT !.was = sync, !.pc = "start"]
<1>1. /\ Ingests(p) /\ d.op = "sync" /\ d.pc = "look" /\ UNCHANGED ingestionVars
      /\ End(p) \/ Become(p, c)
  BY DEF LookUpState, At, Ingests
<1>2. /\ d \in IngestionCall /\ sync \in SyncRow /\ Placed(d) /\ Covers(d, versions)
  BY <1>1, Known
<1>3. c \in IngestionCall /\ Same(c, d) /\ c.pc = "start" /\ c.log = d.log
  BY <1>2 DEF IngestionCall, Same
<1> HIDE DEF c, d
<1>4. Placed(c) /\ Covers(c, versions) /\ c.op = "sync" /\ c.docs = {} /\ c.rows = {} /\ c.log = {}
  BY <1>1, <1>2, <1>3 DEF Placed, Covers, Same, Working, Storing, Found, Done
<1>5. Sound(c, documents, versions)
  BY <1>3, <1>4, EmptyIsSound DEF Storing, Found, IngestionInv
<1> QED
  BY <1>1, <1>2, <1>3, <1>4, <1>5, QuietOn, QuietEnd, EndIsTyped DEF ingestionVars, Same, d, End

LEMMA StartSyncKeeps ==
  ASSUME IngestionInv, CallTypes, NEW p \in Sessions, StartSync(p)
  PROVE  IngestionInv' /\ CallTypes'
<1> DEFINE d == call[p]
           pc == IF d.items = <<>> THEN "commit" ELSE "source"
           c == [d EXCEPT !.pc = pc]
<1>1. /\ Ingests(p) /\ d.op = "sync" /\ d.pc = "start"
      /\ \/ End(p) /\ UNCHANGED sync
         \/ Become(p, c) /\ sync' = [sync EXCEPT !.status = "running"]
      /\ UNCHANGED <<documents, versions, jobs>>
  BY DEF StartSync, At, Ingests
<1>2. d \in IngestionCall /\ sync \in SyncRow /\ Placed(d) /\ Covers(d, versions)
  BY <1>1, Known
<1>3. c \in IngestionCall /\ Same(c, d) /\ c.pc = pc /\ c.log = d.log
  BY <1>2 DEF IngestionCall, Same
<1>4. sync' \in SyncRow /\ sync'.cursor = sync.cursor
  BY <1>1, <1>2 DEF SyncRow
<1>5. (c.pc = "commit" /\ c.items = <<>>) \/ (c.pc = "source" /\ c.items # <<>>)
  BY <1>3 DEF Same
<1> HIDE DEF c, d, pc
<1>6. /\ Placed(c) /\ Covers(c, versions) /\ c.op = "sync"
      /\ c.docs = {} /\ c.rows = {} /\ c.log = {}
  <2>1. c.op = "sync" /\ c.docs = {} /\ c.rows = {} /\ c.log = {}
    BY <1>1, <1>2, <1>3 DEF Placed, Same, Working, Storing, Found
  <2>2. Covers(c, versions)
    BY <1>1, <1>2, <1>3 DEF Covers, Same, Done
  <2>3. c.pc # "failing" /\ (c.pc \in Working => c.items # <<>>)
    BY <1>5 DEF Working, Storing, Found
  <2>4. Placed(c)
    BY <1>1, <1>2, <1>3, <1>5, <2>1, <2>3 DEF Placed, Same, Done
  <2> QED
    BY <2>1, <2>2, <2>4
<1>7. Sound(c, documents, versions)
  BY <1>3, <1>5, <1>6, EmptyIsSound DEF Storing, Found, IngestionInv
<1> QED
  BY <1>1, <1>3, <1>4, <1>6, <1>7, QuietOn, QuietEnd, EndIsTyped DEF Same, d, End

LEMMA CheckDuplicateMisses ==
  ASSUME IngestionInv, CallTypes, NEW p \in Sessions, At(p, "upload", "look"),
         Become(p, [call[p] EXCEPT !.pc = "document"]), UNCHANGED ingestionVars
  PROVE  IngestionInv' /\ CallTypes'
<1> DEFINE d == call[p]
           c == [d EXCEPT !.pc = "document"]
<1>1. /\ Ingests(p) /\ d.op = "upload" /\ d.pc = "look" /\ Become(p, c)
  BY DEF At, Ingests
<1>2. /\ d \in IngestionCall /\ sync \in SyncRow
      /\ Placed(d) /\ Covers(d, versions) /\ Continues(d, versions)
      /\ Parents(d, documents)
  BY <1>1, Known
<1>3. c \in IngestionCall /\ Same(c, d) /\ c.pc = "document" /\ c.log = d.log
  BY <1>2 DEF IngestionCall, Same
<1> HIDE DEF c, d
<1>4. Covers(c, versions) /\ Continues(c, versions)
  BY <1>1, <1>2, <1>3, SameSound
<1>5. c.op = "upload" /\ c.docs = {} /\ c.rows = {} /\ c.log = {}
  BY <1>1, <1>2, <1>3 DEF Placed, Same
<1>6. Placed(c) /\ Read(c, versions)
  BY <1>1, <1>2, <1>3, <1>5 DEF Placed, Read, Same, Storing, Found
<1>7. Parents(c, documents)
  BY <1>1, <1>2, <1>3, <1>5 DEF Parents, Same, Storing, Found
<1>8. Origins(c) /\ Logged(c, versions)
  BY <1>3, <1>5 DEF Origins, Logged, Storing, Found
<1> QED
  BY <1>1, <1>2, <1>3, <1>4, <1>6, <1>7, <1>8, QuietOn DEF Sound, ingestionVars, Same, d

--------------------------------------------------------------------------------
(* Steps that decide and insert *)

\* A call at work has a record.
LEMMA HasRecord ==
  ASSUME NEW d \in IngestionCall, d.op \in {"upload", "sync"}, d.pc \in Working, Placed(d)
  PROVE  d.items \in Seq(Item) /\ d.items # <<>> /\ d.cursor \in Nat
<1>1. d.items \in Seq(Item)
  BY DEF IngestionCall
<1>2. d.cursor \in Nat
  <2>1. Len(Feed) \in Nat
    BY FeedAssumption
  <2>2. d.cursor \in 0 .. Len(Feed)
    BY DEF IngestionCall
  <2> QED
    BY <2>1, <2>2
<1>3. Len(<<>>) # 1
  BY EmptySeq
<1>4. d.pc # "failing"
  BY DEF Working, Found, Storing
<1>5. d.op = "upload" => Len(d.items) = 1
  BY DEF Placed
<1>6. d.op = "sync" => d.items # <<>>
  BY <1>4 DEF Placed
<1>7. d.op = "upload" => d.items # <<>>
  BY <1>3, <1>5, Zenon
<1> QED
  BY <1>1, <1>2, <1>6, <1>7

\* The record has been stored or found stored before: the next one, or the end.
LEMMA NextRecordIsPlaced ==
  ASSUME NEW d \in IngestionCall, d.op = "sync", d.pc \in Found, Placed(d), NEW c,
         c.op = "sync", c.cursor = d.cursor, c.items = Tail(d.items),
         c.pc = IF Len(d.items) = 1 THEN "commit" ELSE "source"
  PROVE  /\ Placed(c)
         /\ Done(d) \in Nat /\ Done(c) = Done(d) + 1
         /\ Head(d.items) = Feed[Done(d) + 1]
<1>1. /\ d.items \in Seq(Item) /\ d.items # <<>> /\ d.cursor \in Nat
      /\ Len(d.items) <= d.cursor
      /\ \A i \in 1 .. Len(d.items) : d.items[i] = Feed[Done(d) + i]
  <2>1. d.pc # "failing" /\ d.pc \in Working
    BY DEF Found, Storing, Working
  <2> QED
    BY <2>1, HasRecord DEF Placed
<1>2. /\ Head(d.items) = d.items[1]
      /\ Len(d.items) \in Nat \ {0}
      /\ Tail(d.items) \in Seq(Item) /\ Len(Tail(d.items)) = Len(d.items) - 1
      /\ \A i \in 1 .. Len(Tail(d.items)) : Tail(d.items)[i] = d.items[i + 1]
      /\ Tail(d.items) = <<>> <=> Len(d.items) = 1
  BY <1>1, Items
<1>3. Len(c.items) = Len(d.items) - 1
  BY <1>2
<1>4. Done(d) \in Nat /\ Done(c) = Done(d) + 1
  BY <1>1, <1>2, <1>3 DEF Done
<1>5. Head(d.items) = Feed[Done(d) + 1]
  BY <1>1, <1>2
<1>6. ASSUME NEW i \in 1 .. Len(c.items)
      PROVE  c.items[i] = Feed[Done(c) + i]
  <2>1. c.items[i] = d.items[i + 1]
    BY <1>2, <1>6
  <2>2. i + 1 \in 1 .. Len(d.items)
    BY <1>2, <1>3
  <2>3. Done(d) + (i + 1) = Done(c) + i
    BY <1>4
  <2> QED
    BY <1>1, <2>1, <2>2, <2>3
<1>7. Len(c.items) <= c.cursor
  BY <1>1, <1>2, <1>3
<1>8. c.pc \in {"source", "commit"}
      /\ (c.pc = "commit" => c.items = <<>>) /\ (c.pc = "source" => c.items # <<>>)
  BY <1>2
<1>9. Placed(c)
  BY <1>6, <1>7, <1>8 DEF Placed, Working, Found, Storing
<1> QED
  BY <1>4, <1>5, <1>9

\* What is covered after one record more.
LEMMA CoversOneMore ==
  ASSUME NEW c, NEW d, NEW V, NEW R, d.op = "sync", d.pc # "failing", Covers(d, V),
         V \cup d.rows \subseteq R, R = V \cup c.rows,
         Done(d) \in Nat, Done(c) = Done(d) + 1,
         \E v \in R : v.name = Feed[Done(d) + 1].name /\ v.content = Feed[Done(d) + 1].content
  PROVE  Covers(c, V)
<1>1. \A i \in 1 .. Done(d) : Covered(i, R)
  BY DEF Covers, Covered
<1>2. Covered(Done(d) + 1, R)
  BY DEF Covered
<1>3. \A i \in 1 .. Done(d) + 1 : i \in 1 .. Done(d) \/ i = Done(d) + 1
  OBVIOUS
<1>4. \A i \in 1 .. Done(d) + 1 : Covered(i, R)
  BY <1>1, <1>2, <1>3
<1> QED
  BY <1>4 DEF Covers

\* A sync decides that a record is a duplicate, or that it has to be stored.
LEMMA FindDuplicateKeeps ==
  ASSUME IngestionInv, CallTypes, NEW p \in Sessions, FindDuplicate(p)
  PROVE  IngestionInv' /\ CallTypes'
<1> DEFINE d == call[p]
           item == Head(d.items)
           R == versions \cup d.rows
           found == \E v \in R : v.name = item.name /\ v.content = item.content
<1>1. /\ Ingests(p) /\ d.op = "sync" /\ d.pc = "duplicate" /\ UNCHANGED ingestionVars
  BY DEF FindDuplicate, At, Ingests
<1>2. /\ d \in IngestionCall /\ sync \in SyncRow
      /\ Placed(d) /\ Covers(d, versions) /\ Continues(d, versions)
      /\ Parents(d, documents) /\ Origins(d) /\ Logged(d, versions)
  BY <1>1, Known
<1>3. d.items \in Seq(Item) /\ d.items # <<>> /\ d.log \subseteq JobRow
  BY <1>1, <1>2 DEF Placed, IngestionCall, Working, Found
<1>4. item.name \in Names /\ item.content \in Contents
  BY <1>3, Items
<1>5. \A s \in {"succeeded", "duplicate"} : Job(s, item) \in JobRow
  BY <1>4 DEF Job, JobRow
<1>6. CASE found
  <2> DEFINE pc == IF Len(d.items) = 1 THEN "commit" ELSE "source"
             c == [d EXCEPT !.log = d.log \cup {Job("duplicate", item)},
                            !.items = Tail(d.items), !.pc = pc]
  <2>1. Become(p, c)
    <3>1. Become(p, NextRecord([d EXCEPT !.log = @ \cup {Job("duplicate", item)}]))
      BY <1>6 DEF FindDuplicate, Versions, This
    <3>2. NextRecord([d EXCEPT !.log = @ \cup {Job("duplicate", item)}]) = c
      BY <1>2 DEF NextRecord, IngestionCall
    <3> QED
      BY <3>1, <3>2
  <2>2. Tail(d.items) \in Seq(Item)
    BY <1>3, Items
  <2>3. /\ c \in IngestionCall
        /\ c.op = "sync" /\ c.cursor = d.cursor /\ c.items = Tail(d.items) /\ c.pc = pc
        /\ c.docs = d.docs /\ c.rows = d.rows
        /\ c.log = d.log \cup {Job("duplicate", item)}
    BY <1>1, <1>2, <1>3, <1>5, <2>2 DEF IngestionCall
  <2>4. c.pc \in {"source", "commit"}
    BY <2>3
  <2> HIDE DEF c
  <2>5. /\ Placed(c) /\ Done(d) \in Nat /\ Done(c) = Done(d) + 1
        /\ item = Feed[Done(d) + 1]
    BY <1>1, <1>2, <2>3, NextRecordIsPlaced DEF Found
  <2>6. Covers(c, versions)
    BY <1>1, <1>2, <1>6, <2>3, <2>5, CoversOneMore
  <2>7. Continues(c, versions) /\ Read(c, versions)
    BY <1>2, <2>3, <2>4 DEF Continues, Read, Storing
  <2>8. Parents(c, documents)
    BY <1>1, <1>2, <2>3, <2>4 DEF Parents, Storing, Found
  <2>9. Origins(c)
    <3>1. 1 .. Done(d) \subseteq 1 .. Done(c) /\ Done(d) + 1 \in 1 .. Done(c)
      BY <2>5
    <3>2. \A x \in c.docs : x = Source \/ \E i \in 1 .. Done(c) : Feed[i].name = x
      BY <1>1, <1>2, <2>3, <2>5, <3>1 DEF Origins
    <3>3. \A v \in c.rows : \E i \in 1 .. Done(c) : Feed[i].name = v.name
                                                  /\ Feed[i].content = v.content
      BY <1>1, <1>2, <2>3, <3>1 DEF Origins
    <3> QED
      BY <2>3, <3>2, <3>3 DEF Origins
  <2>10. Logged(c, versions)
    BY <1>1, <1>2, <1>6, <2>3, <2>4 DEF Logged, Job, Storing
  <2> QED
    BY <1>1, <1>2, <2>1, <2>3, <2>5, <2>6, <2>7, <2>8, <2>9, <2>10, QuietOn
       DEF Sound, ingestionVars, d
<1>7. CASE ~found
  <2> DEFINE c == [d EXCEPT !.log = d.log \cup {Job("succeeded", item)}, !.pc = "number"]
  <2>1. Become(p, c)
    <3>1. Become(p, [[d EXCEPT !.log = @ \cup {Job("succeeded", item)}] EXCEPT !.pc = "number"])
      BY <1>7 DEF FindDuplicate, Versions, This
    <3>2. [[d EXCEPT !.log = @ \cup {Job("succeeded", item)}] EXCEPT !.pc = "number"] = c
      BY <1>2 DEF IngestionCall
    <3> QED
      BY <3>1, <3>2
  <2>2. /\ c \in IngestionCall /\ Same(c, d) /\ c.pc = "number"
        /\ c.log = d.log \cup {Job("succeeded", item)}
    BY <1>1, <1>2, <1>3, <1>5 DEF IngestionCall, Same
  <2> HIDE DEF c
  <2>3. Covers(c, versions) /\ Continues(c, versions)
    BY <1>1, <1>2, <2>2, SameSound
  <2>4. Placed(c)
    BY <1>1, <1>2, <2>2 DEF Placed, Same, Working, Storing, Found, Done
  <2>5. Read(c, versions)
    BY <1>7, <2>2 DEF Read, Same, Storing
  <2>6. Parents(c, documents)
    BY <1>1, <1>2, <2>2 DEF Parents, Same, Storing, Found
  <2>7. Origins(c)
    BY <1>1, <1>2, <2>2 DEF Origins, Same, Storing, Found, Done
  <2>8. Logged(c, versions)
    BY <1>1, <1>2, <2>2 DEF Logged, Same, Storing, Job
  <2> QED
    BY <1>1, <1>2, <2>1, <2>2, <2>3, <2>4, <2>5, <2>6, <2>7, <2>8, QuietOn
       DEF Sound, ingestionVars, Same, d
<1> QED
  BY <1>6, <1>7

LEMMA ReadNumberKeeps ==
  ASSUME IngestionInv, CallTypes, NEW p \in Sessions, ReadNumber(p)
  PROVE  IngestionInv' /\ CallTypes'
<1> DEFINE d == call[p]
           item == Head(d.items)
           R == versions \cup d.rows
           n == NextNumber(R, item.name)
           c == [d EXCEPT !.number = n, !.pc = "insert version"]
<1>1. /\ Ingests(p) /\ d.pc = "number" /\ Become(p, c) /\ UNCHANGED ingestionVars
  BY DEF ReadNumber, Versions, This
<1>2. /\ d \in IngestionCall /\ sync \in SyncRow /\ d.op \in {"upload", "sync"}
      /\ Placed(d) /\ Covers(d, versions) /\ Continues(d, versions) /\ Read(d, versions)
      /\ Parents(d, documents) /\ Origins(d) /\ Logged(d, versions)
  BY <1>1, Known
<1>3. d.items \in Seq(Item) /\ d.items # <<>>
  BY <1>1, <1>2, HasRecord DEF Working, Found, Storing
<1>4. /\ IsFiniteSet(Of(R, item.name)) /\ Cardinality(Of(R, item.name)) \in Nat
      /\ {v.number : v \in Of(R, item.name)} = 1 .. Cardinality(Of(R, item.name))
  BY <1>2, <1>3, Items, OfCounts DEF Continues
<1>5. n = Cardinality(Of(R, item.name)) + 1
  BY <1>4, NextNumberIsFree
<1> HIDE DEF n
<1>6. /\ c \in IngestionCall /\ Same(c, d)
      /\ c.pc = "insert version" /\ c.number = n /\ c.log = d.log
  <2>1. n \in Nat
    BY <1>4, <1>5
  <2>2. c \in IngestionCall
    BY <1>2, <2>1 DEF IngestionCall
  <2> QED
    BY <1>2, <2>2 DEF IngestionCall, Same
<1> HIDE DEF c, d
<1>7. Covers(c, versions) /\ Continues(c, versions)
  BY <1>1, <1>2, <1>6, SameSound
<1>8. Placed(c)
  BY <1>1, <1>2, <1>6 DEF Placed, Same, Working, Storing, Found, Done
<1>9. Read(c, versions)
  <2>1. n \in 1 .. Cardinality(Of(R, item.name)) + 1
    BY <1>4, <1>5
  <2> QED
    BY <1>1, <1>2, <1>5, <1>6, <2>1 DEF Read, Same, Storing
<1>10. Parents(c, documents)
  BY <1>1, <1>2, <1>6 DEF Parents, Same, Storing, Found
<1>11. Origins(c)
  BY <1>1, <1>2, <1>6 DEF Origins, Same, Storing, Found, Done
<1>12. Logged(c, versions)
  <2>1. /\ d.pc \in Storing /\ c.pc \in Storing /\ c.pc # "commit"
        /\ c.op = d.op /\ c.items = d.items /\ c.rows = d.rows /\ c.log = d.log
    BY <1>1, <1>6 DEF Same, Storing
  <2>2. Logged(d, versions)
    BY <1>2
  <2> QED
    BY <2>1, <2>2 DEF Logged
<1> QED
  BY <1>1, <1>2, <1>6, <1>7, <1>8, <1>9, <1>10, <1>11, <1>12, QuietOn DEF Sound, ingestionVars, Same, d

\* An insert of the source or of a document, for a sync or an upload.
LEMMA InsertParentKeeps ==
  ASSUME IngestionInv, CallTypes, NEW p \in Sessions, Ingests(p), NEW next,
         InsertParent(p, next),
         \/ call[p].op = "sync" /\ call[p].pc = "insert source" /\ next = "document"
         \/ call[p].pc = "insert document" /\ next = AfterDocument(p)
  PROVE  IngestionInv' /\ CallTypes'
<1> DEFINE d == call[p]
           item == Head(d.items)
           row == Parent(p)
           c == [d EXCEPT !.docs = d.docs \cup {row}, !.pc = next]
<1>1. /\ UNCHANGED ingestionVars /\ ~AwaitsParent(p)
      /\ \/ Raise(p)
         \/ row \notin documents /\ Become(p, c)
  BY DEF InsertParent
<1>2. /\ d \in IngestionCall /\ sync \in SyncRow /\ d.op \in {"upload", "sync"}
      /\ Placed(d) /\ Covers(d, versions) /\ Continues(d, versions)
      /\ Parents(d, documents) /\ Origins(d) /\ Logged(d, versions)
  BY Known
<1>3. CASE Raise(p)
  BY <1>1, <1>3, RaiseKeeps
<1>4. CASE row \notin documents /\ Become(p, c)
  <2>1. \/ /\ d.op = "sync" /\ d.pc = "insert source" /\ next = "document" /\ row = Source
        \/ /\ d.op = "sync" /\ d.pc = "insert document" /\ next = "duplicate" /\ row = item.name
        \/ /\ d.op = "upload" /\ d.pc = "insert document" /\ next = "number" /\ row = item.name
    BY <1>2 DEF AfterDocument, Parent, This
  <2>2. d.items \in Seq(Item) /\ d.items # <<>>
    BY <1>2, <2>1, HasRecord DEF Working
  <2>3. row \in Names \cup {Source}
    BY <2>1, <2>2, Items
  <2>4. /\ c \in IngestionCall
        /\ c.op = d.op /\ c.items = d.items /\ c.cursor = d.cursor /\ c.pc = next
        /\ c.docs = d.docs \cup {row} /\ c.rows = d.rows /\ c.log = d.log
    BY <1>2, <2>1, <2>3 DEF IngestionCall
  <2>5. \A q \in Sessions \ {p} : Ingests(q) => row \notin call[q].docs
    BY <1>1, <2>1 DEF AwaitsParent, OthersDocuments
  <2> HIDE DEF c, row
  <2>6. Covers(c, versions) /\ Continues(c, versions)
    BY <1>2, <2>1, <2>4 DEF Covers, Continues, Done
  <2>7. Placed(c)
    BY <1>2, <2>1, <2>4 DEF Placed, Working, Storing, Found, Done
  <2>8. Read(c, versions)
    BY <1>2, <2>1, <2>4 DEF Read, Storing, Placed
  <2>9. Parents(c, documents)
    BY <1>2, <1>4, <2>1, <2>4 DEF Parents, Storing, Found
  <2>10. Origins(c)
    BY <1>2, <2>1, <2>4 DEF Origins, Storing, Found, Done
  <2>11. Logged(c, versions)
    BY <1>2, <2>1, <2>4 DEF Logged, Storing
  <2>12. Sound(c, documents, versions)
    BY <2>6, <2>7, <2>8, <2>9, <2>10, <2>11 DEF Sound
  <2>13. \A q \in Sessions \ {p} : Ingests(q) => Apart(c, call[q])
    BY <2>4, <2>5 DEF Apart, IngestionInv
  <2> QED
    BY <1>1, <1>2, <1>4, <2>4, <2>12, <2>13, Quiet DEF ingestionVars, AnyCall
<1> QED
  BY <1>1, <1>3, <1>4

LEMMA InsertSourceKeeps ==
  ASSUME IngestionInv, CallTypes, NEW p \in Sessions, InsertSource(p)
  PROVE  IngestionInv' /\ CallTypes'
BY InsertParentKeeps DEF InsertSource, At, Ingests

LEMMA InsertDocumentKeeps ==
  ASSUME IngestionInv, CallTypes, NEW p \in Sessions, InsertDocument(p)
  PROVE  IngestionInv' /\ CallTypes'
BY InsertParentKeeps DEF InsertDocument

\* The insert goes through.
Inserts(p) ==
  /\ Ingests(p) /\ call[p].pc = "insert version"
  /\ ~AwaitsVersion(p)
  /\ Rivals(versions, Version(p)) = {}

\* The number that was read is still free when the insert neither waits nor
\* raises: then no other session has a version of the document.
LEMMA InsertedContinues ==
  ASSUME IngestionInv, CallTypes, NEW p \in Sessions, Inserts(p)
  PROVE  LET v == Version(p)
             R == versions \cup call[p].rows
         IN  /\ v \in VersionRow /\ v \notin versions
             /\ v.name = This(p).name /\ v.content = This(p).content
             /\ Numbered(R \cup {v}) /\ Unique(R \cup {v})
             /\ \A q \in Sessions \ {p} : Ingests(q) => \A w \in call[q].rows : w.name # v.name
<1> DEFINE d == call[p]
           item == Head(d.items)
           v == Version(p)
           R == versions \cup d.rows
           count == Cardinality(Of(R, item.name))
           N == Cardinality(Of(versions, item.name))
<1>1. /\ d \in IngestionCall /\ d.op \in {"upload", "sync"} /\ d.pc = "insert version"
      /\ Placed(d) /\ Continues(d, versions) /\ Read(d, versions)
  BY Known DEF Inserts
<1>2. /\ Stored(documents, versions) /\ versions \subseteq VersionRow
      /\ d.rows \subseteq VersionRow
  BY <1>1 DEF IngestionInv, RowTypes, IngestionCall
<1>3. d.items \in Seq(Item) /\ d.items # <<>>
  BY <1>1, HasRecord DEF Working, Found, Storing
<1>4. item.name \in Names /\ item.content \in Contents
  BY <1>3, Items
<1>5. /\ Numbered(R) /\ Unique(R) /\ d.rows \cap versions = {}
      /\ Numbered(versions) /\ Unique(versions)
  BY <1>1, <1>2 DEF Continues, Stored
<1>6. /\ count \in Nat /\ N \in Nat
      /\ {w.number : w \in Of(R, item.name)} = 1 .. count
      /\ {w.number : w \in Of(versions, item.name)} = 1 .. N
  BY <1>4, <1>5, OfCounts
<1>7. /\ d.number \in 1 .. count + 1
      /\ Of(d.rows, item.name) # {} => d.number = count + 1
      /\ \A w \in d.rows : ~(w.name = item.name /\ w.content = item.content)
  BY <1>1 DEF Read, Storing
<1>8. v.name = item.name /\ v.number = d.number /\ v.content = item.content
  BY DEF Version, This
<1>9. \A w \in versions : ~SameKey(v, w)
  BY DEF Inserts, Rivals
<1>10. \A q \in Sessions \ {p} : Ingests(q) => \A w \in call[q].rows : ~SameKey(v, w)
  BY DEF Inserts, AwaitsVersion, OthersVersions, Rivals
<1> HIDE DEF d, v
<1>11. Of(d.rows, item.name) = {} => d.number = count + 1
  <2> SUFFICES ASSUME Of(d.rows, item.name) = {} PROVE d.number = count + 1
    OBVIOUS
  <2>1. Of(R, item.name) = Of(versions, item.name)
    BY DEF Of
  <2>2. d.number \notin 1 .. count
    <3> SUFFICES ASSUME d.number \in 1 .. count PROVE FALSE
      OBVIOUS
    <3>1. PICK w \in Of(versions, item.name) : w.number = d.number
      BY <1>6, <2>1
    <3> QED
      BY <1>8, <1>9, <3>1 DEF Of, SameKey
  <2>3. count \in Nat
    BY <1>6
  <2>4. d.number \in 1 .. count + 1
    BY <1>7
  <2> QED
    BY <2>2, <2>3, <2>4, NextIsNext, Zenon
<1>12. d.number = count + 1 /\ d.number \in Nat \ {0}
  <2>1. d.number = count + 1
    BY <1>7, <1>11
  <2>2. count \in Nat
    BY <1>6
  <2> QED
    BY <2>1, <2>2, NextIsPositive, Zenon
<1>13. v \in VersionRow
  BY <1>4, <1>8, <1>12 DEF VersionRow, Version, This, v, d
<1>14. \A w \in R : ~(w.name = v.name /\ w.content = v.content)
  BY <1>7, <1>8, <1>9 DEF SameKey
<1>15. Numbered(R \cup {v}) /\ Unique(R \cup {v})
  <2>1. R \in SUBSET VersionRow
    BY <1>2
  <2>2. v.number = Cardinality(Of(R, v.name)) + 1
    BY <1>8, <1>12
  <2> QED
    BY <1>5, <1>13, <1>14, <2>1, <2>2, Insertion
<1>16. ASSUME NEW q \in Sessions \ {p}, Ingests(q), NEW w \in call[q].rows, w.name = v.name
       PROVE  FALSE
  <2>1. Apart(d, call[q])
    BY <1>16 DEF IngestionInv, Inserts, d
  <2>2. Of(d.rows, item.name) = {}
    BY <1>8, <1>16, <2>1 DEF Apart, Of
  <2>3. Of(R, item.name) = Of(versions, item.name)
    BY <2>2 DEF Of
  <2>4. /\ Numbered(versions \cup call[q].rows) /\ call[q].rows \cap versions = {}
    BY <1>16, Known DEF Continues
  <2>5. PICK u \in call[q].rows : u.name = item.name /\ u.number = N + 1
    <3>1. w.name = item.name
      BY <1>8, <1>16
    <3>2. /\ item.name \in Names /\ w \in call[q].rows
          /\ Numbered(versions) /\ Numbered(versions \cup call[q].rows)
          /\ call[q].rows \cap versions = {}
      BY <1>4, <1>5, <1>16, <2>4
    <3> HIDE DEF item, N
    <3> QED
      BY <3>1, <3>2, Beyond DEF N
  <2>6. SameKey(v, u)
    BY <1>8, <1>12, <2>3, <2>5 DEF SameKey
  <2> QED
    BY <1>10, <1>16, <2>5, <2>6
<1>17. v \notin versions
  BY <1>9 DEF SameKey
<1> QED
  BY <1>8, <1>13, <1>15, <1>16, <1>17 DEF This, d, v

LEMMA InsertVersionKeeps ==
  ASSUME IngestionInv, CallTypes, NEW p \in Sessions, InsertVersion(p)
  PROVE  IngestionInv' /\ CallTypes'
<1> DEFINE d == call[p]
           item == Head(d.items)
           v == Version(p)
           rows == d.rows \cup {v}
           c == IF d.op = "sync"
                THEN [d EXCEPT !.rows = rows, !.items = Tail(d.items),
                               !.pc = IF Len(d.items) = 1 THEN "commit" ELSE "source"]
                ELSE [d EXCEPT !.rows = rows, !.pc = "commit"]
<1>1. /\ Ingests(p) /\ d.pc = "insert version" /\ ~AwaitsVersion(p) /\ UNCHANGED ingestionVars
  BY DEF InsertVersion
<1>2. /\ d \in IngestionCall /\ sync \in SyncRow /\ d.op \in {"upload", "sync"}
      /\ Placed(d) /\ Covers(d, versions) /\ Continues(d, versions) /\ Read(d, versions)
      /\ Parents(d, documents) /\ Origins(d) /\ Logged(d, versions)
  BY <1>1, Known
<1>3. d.items \in Seq(Item) /\ d.items # <<>>
  BY <1>1, <1>2, HasRecord DEF Working, Found, Storing
<1>4. CASE Rivals(versions, v) # {}
  <2>1. Raise(p)
    BY <1>4 DEF InsertVersion
  <2> QED
    BY <1>1, <2>1, RaiseKeeps
<1>5. CASE Rivals(versions, v) = {}
  <2>1. /\ v \in VersionRow /\ v \notin versions
        /\ v.name = item.name /\ v.content = item.content
        /\ Numbered((versions \cup d.rows) \cup {v}) /\ Unique((versions \cup d.rows) \cup {v})
        /\ \A q \in Sessions \ {p} : Ingests(q) => \A w \in call[q].rows : w.name # v.name
    BY <1>1, <1>5, InsertedContinues DEF Inserts, This
  <2>2. Become(p, c)
    <3>1. Become(p, IF d.op = "sync" THEN NextRecord([d EXCEPT !.rows = @ \cup {v}])
                    ELSE [[d EXCEPT !.rows = @ \cup {v}] EXCEPT !.pc = "commit"])
      BY <1>5 DEF InsertVersion
    <3>2. d.op = "sync" => NextRecord([d EXCEPT !.rows = @ \cup {v}]) = c
      BY <1>2 DEF NextRecord, IngestionCall
    <3>3. d.op # "sync" => [[d EXCEPT !.rows = @ \cup {v}] EXCEPT !.pc = "commit"] = c
      BY <1>2 DEF IngestionCall
    <3> QED
      BY <3>1, <3>2, <3>3
  <2>3. Tail(d.items) \in Seq(Item)
    BY <1>3, Items
  <2>4. /\ c \in IngestionCall
        /\ c.op = d.op /\ c.cursor = d.cursor
        /\ c.docs = d.docs /\ c.rows = rows /\ c.log = d.log
        /\ d.op = "sync" =>
             /\ c.items = Tail(d.items)
             /\ c.pc = IF Len(d.items) = 1 THEN "commit" ELSE "source"
        /\ d.op = "upload" => c.items = d.items /\ c.pc = "commit"
    <3>1. CASE d.op = "sync"
      BY <1>2, <1>3, <2>1, <2>3, <3>1 DEF IngestionCall
    <3>2. CASE d.op = "upload"
      BY <1>2, <1>3, <2>1, <2>3, <3>2 DEF IngestionCall
    <3> QED
      BY <1>2, <3>1, <3>2
  <2>5. c.pc \in {"source", "commit"}
    BY <1>2, <2>4
  <2> HIDE DEF c, v
  <2>6. Continues(c, versions)
    <3>1. versions \cup c.rows = (versions \cup d.rows) \cup {v}
      BY <2>4
    <3>2. d.rows \cap versions = {}
      BY <1>2 DEF Continues
    <3> QED
      BY <2>1, <2>4, <3>1, <3>2 DEF Continues
  <2>7. Read(c, versions)
    BY <2>5 DEF Read, Storing
  <2>8. Parents(c, documents)
    BY <1>1, <1>2, <2>1, <2>4, <2>5 DEF Parents, Storing, Found
  <2>9. Logged(c, versions)
    <3>1. d.op = "sync" => Job("succeeded", item) \in d.log
      BY <1>1, <1>2 DEF Logged, Storing
    <3>2. Job("succeeded", v) = Job("succeeded", item)
      BY <2>1 DEF Job
    <3>3. \A w \in c.rows : c.op = "sync" => Job("succeeded", w) \in c.log
      BY <1>2, <2>4, <3>1, <3>2 DEF Logged
    <3>4. \A j \in c.log : /\ j.status = "succeeded" =>
                                \E w \in c.rows : w.name = j.name /\ w.content = j.content
                           /\ j.status = "duplicate" =>
                                \E w \in versions \cup c.rows : w.content = j.content
      BY <1>2, <2>1, <2>4 DEF Logged
    <3>5. c.op = "upload" => c.rows = {v} /\ c.items = d.items
      BY <1>1, <2>4, <1>2 DEF Placed
    <3> QED
      BY <2>1, <2>5, <3>3, <3>4, <3>5 DEF Logged, Storing
  <2>10. Placed(c) /\ Covers(c, versions) /\ Origins(c)
    <3>1. CASE d.op = "upload"
      BY <1>1, <1>2, <2>4, <3>1 DEF Placed, Covers, Origins, Storing, Found
    <3>2. CASE d.op = "sync"
      <4>1. /\ Placed(c) /\ Done(d) \in Nat /\ Done(c) = Done(d) + 1
            /\ item = Feed[Done(d) + 1]
        BY <1>1, <1>2, <2>4, <3>2, NextRecordIsPlaced DEF Found, Storing
      <4>2. Covers(c, versions)
        <5>1. d.pc # "failing" /\ versions \cup d.rows \subseteq versions \cup c.rows
          BY <1>1, <2>4
        <5>2. \E w \in versions \cup c.rows : /\ w.name = Feed[Done(d) + 1].name
                                              /\ w.content = Feed[Done(d) + 1].content
          BY <2>1, <2>4, <4>1
        <5> QED
          BY <1>2, <3>2, <4>1, <5>1, <5>2, CoversOneMore
      <4>3. Origins(c)
        <5>1. 1 .. Done(d) \subseteq 1 .. Done(c) /\ Done(d) + 1 \in 1 .. Done(c)
          BY <4>1
        <5>2. \A x \in c.docs : x = Source \/ \E i \in 1 .. Done(c) : Feed[i].name = x
          BY <1>1, <1>2, <2>4, <3>2, <4>1, <5>1 DEF Origins
        <5>3. \A w \in c.rows : \E i \in 1 .. Done(c) : /\ Feed[i].name = w.name
                                                        /\ Feed[i].content = w.content
          BY <1>1, <1>2, <2>1, <2>4, <3>2, <4>1, <5>1 DEF Origins
        <5> QED
          BY <2>4, <3>2, <5>2, <5>3 DEF Origins
      <4> QED
        BY <4>1, <4>2, <4>3
    <3> QED
      BY <1>2, <3>1, <3>2
  <2>11. Sound(c, documents, versions)
    BY <2>6, <2>7, <2>8, <2>9, <2>10 DEF Sound
  <2>12. \A q \in Sessions \ {p} : Ingests(q) => Apart(c, call[q])
    BY <1>1, <2>1, <2>4 DEF Apart, IngestionInv
  <2> QED
    BY <1>1, <1>2, <2>2, <2>4, <2>11, <2>12, Quiet DEF ingestionVars, AnyCall
<1> QED
  BY <1>4, <1>5

--------------------------------------------------------------------------------
(* Commits *)

\* What another session commits does not disturb a transaction.
LEMMA CommitOfOther ==
  ASSUME NEW c, NEW d, NEW D, NEW V, Sound(c, D, V), Apart(c, d), Continues(d, V),
         c.op \in {"upload", "sync"}, c.pc \in Storing => Head(c.items).name \in Names
  PROVE  Sound(c, D \cup d.docs, V \cup d.rows)
<1> DEFINE item == Head(c.items)
           W == V \cup d.rows
<1>1. /\ Placed(c) /\ Covers(c, V) /\ Continues(c, V) /\ Read(c, V)
      /\ Parents(c, D) /\ Origins(c) /\ Logged(c, V)
  BY DEF Sound
<1>2. \A v \in c.rows, w \in d.rows : v.name # w.name
  BY DEF Apart
<1>3. Covers(c, W)
  BY <1>1 DEF Covers, Covered
<1>4. Continues(c, W)
  <2>1. Numbered(W \cup c.rows) /\ Unique(W \cup c.rows)
    BY <1>1, <1>2, UnionOfTwo DEF Continues
  <2>2. c.rows \cap W = {}
    BY <1>1, <1>2 DEF Continues
  <2> QED
    BY <2>1, <2>2 DEF Continues
<1>5. Read(c, W)
  <2> SUFFICES ASSUME c.pc = "insert version"
               PROVE  /\ c.number \in 1 .. Cardinality(Of(W \cup c.rows, item.name)) + 1
                      /\ Of(c.rows, item.name) # {} =>
                           c.number = Cardinality(Of(W \cup c.rows, item.name)) + 1
    BY <1>1 DEF Read, Storing
  <2> DEFINE m == Cardinality(Of(V \cup c.rows, item.name))
             n == Cardinality(Of(W \cup c.rows, item.name))
  <2>1. c.number \in 1 .. m + 1 /\ (Of(c.rows, item.name) # {} => c.number = m + 1)
    BY <1>1 DEF Read
  <2>2. item.name \in Names
    BY DEF Storing
  <2>3. /\ IsFiniteSet(Of(W \cup c.rows, item.name)) /\ n \in Nat /\ m \in Nat
    BY <1>1, <1>4, <2>2, OfCounts DEF Continues
  <2>4. Of(V \cup c.rows, item.name) \subseteq Of(W \cup c.rows, item.name)
    BY DEF Of
  <2>5. m <= n
    BY <2>3, <2>4, FS_Subset
  <2>6. Of(c.rows, item.name) # {} => Of(W \cup c.rows, item.name) = Of(V \cup c.rows, item.name)
    BY <1>2 DEF Of
  <2>7. c.number \in 1 .. n + 1
    BY <2>1, <2>3, <2>5, RangeGrows, Zenon
  <2> QED
    BY <2>1, <2>6, <2>7
<1>6. Parents(c, D \cup d.docs)
  BY <1>1 DEF Parents, Apart
<1>7. Logged(c, W)
  BY <1>1 DEF Logged
<1> QED
  BY <1>1, <1>3, <1>4, <1>5, <1>6, <1>7 DEF Sound

\* The jobs account for the versions, job by job and version by version.
LEMMA JobsMatch ==
  ASSUME JobsAccountForVersions
  PROVE  /\ \A j \in jobs : j.status = "succeeded" =>
                              \E v \in versions : v.name = j.name /\ v.content = j.content
         /\ \A v \in versions : \E j \in jobs : /\ j.status = "succeeded"
                                                /\ v.name = j.name /\ v.content = j.content
         /\ \A j \in jobs : j.status = "duplicate" => \E v \in versions : v.content = j.content
<1> DEFINE S == {k \in jobs : k.status = "succeeded"}
           A == {<<j.name, j.content>> : j \in S}
           B == {<<v.name, v.content>> : v \in versions}
<1>1. A = B
  BY DEF JobsAccountForVersions
<1>2. ASSUME NEW j \in S
      PROVE  \E v \in versions : v.name = j.name /\ v.content = j.content
  <2>1. <<j.name, j.content>> \in B
    BY <1>1
  <2> QED
    BY <2>1
<1>3. ASSUME NEW v \in versions
      PROVE  \E j \in S : v.name = j.name /\ v.content = j.content
  <2>1. <<v.name, v.content>> \in A
    BY <1>1
  <2> QED
    BY <2>1
<1>4. \A j \in jobs : j.status = "duplicate" => \E v \in versions : v.content = j.content
  BY DEF JobsAccountForVersions
<1> QED
  BY <1>2, <1>3, <1>4

\* A transaction whose call leaves its documents, versions and jobs.
Commits(p, log) ==
  /\ Ingests(p) /\ call[p].pc = "commit" /\ End(p)
  /\ documents' = Documents(p) /\ versions' = Versions(p) /\ jobs' = jobs \cup log
  /\ log \subseteq JobRow
  /\ \A v \in call[p].rows : Job("succeeded", v) \in log
  /\ \A j \in log :
       /\ j.status = "succeeded" =>
            \E v \in call[p].rows : v.name = j.name /\ v.content = j.content
       /\ j.status = "duplicate" => \E v \in Versions(p) : v.content = j.content
  /\ sync' \in SyncRow
  /\ sync'.cursor = sync.cursor \/ (call[p].op = "sync" /\ sync'.cursor = call[p].cursor)

LEMMA CommitKeeps ==
  ASSUME IngestionInv, CallTypes, NEW p \in Sessions, NEW log, Commits(p, log)
  PROVE  IngestionInv' /\ CallTypes'
<1> DEFINE d == call[p]
<1>1. /\ d \in IngestionCall /\ d.op \in {"upload", "sync"} /\ d.pc = "commit"
      /\ Placed(d) /\ Covers(d, versions) /\ Continues(d, versions) /\ Parents(d, documents)
  BY Known DEF Commits
<1>2. /\ documents' = documents \cup d.docs /\ versions' = versions \cup d.rows
      /\ jobs' = jobs \cup log /\ sync' \in SyncRow
  BY DEF Commits, Documents, Versions
<1>3. /\ CallTypes' /\ call'[p] = NoCall
      /\ \A q \in Sessions \ {p} : call'[q] = call[q]
  BY EndIsTyped, Becoming DEF Commits, End
<1>4. RowTypes'
  <2>1. d.docs \subseteq Names \cup {Source} /\ d.rows \subseteq VersionRow
    BY <1>1 DEF IngestionCall
  <2>2. log \subseteq JobRow /\ RowTypes
    BY DEF Commits, IngestionInv
  <2> QED
    BY <1>2, <2>1, <2>2 DEF RowTypes
<1>5. Stored(documents, versions)'
  <2>1. Numbered(versions') /\ Unique(versions')
    BY <1>1, <1>2 DEF Continues
  <2>2. Stored(documents, versions)
    BY DEF IngestionInv
  <2>3. \A v \in versions' : {v.name, Source} \subseteq documents'
    BY <1>1, <1>2, <2>2 DEF Stored, Parents
  <2> QED
    BY <2>1, <2>3 DEF Stored
<1>6. (\A q \in Sessions : Ingests(q) => Sound(call[q], documents, versions))'
  <2> SUFFICES ASSUME NEW q \in Sessions, Ingests(q)'
               PROVE  Sound(call'[q], documents', versions')
    OBVIOUS
  <2>1. q # p /\ call'[q] = call[q] /\ Ingests(q)
    BY <1>3 DEF Ingests, NoCall
  <2>2. Sound(call[q], documents, versions) /\ Apart(call[q], d)
    BY <2>1 DEF IngestionInv, Commits
  <2>3. call[q].op \in {"upload", "sync"}
    BY <2>1, Known
  <2>4. call[q].pc \in Storing => Head(call[q].items).name \in Names
    <3> SUFFICES ASSUME call[q].pc \in Storing PROVE Head(call[q].items).name \in Names
      OBVIOUS
    <3>1. call[q].pc \in Working
      BY DEF Working, Found
    <3>2. call[q] \in IngestionCall /\ Placed(call[q])
      BY <2>1, Known
    <3>3. call[q].items \in Seq(Item) /\ call[q].items # <<>>
      BY <2>3, <3>1, <3>2, HasRecord
    <3> QED
      BY <3>3, Items
  <2>5. Sound(call[q], documents \cup d.docs, versions \cup d.rows)
    BY <1>1, <2>2, <2>3, <2>4, CommitOfOther
  <2> QED
    BY <1>2, <2>1, <2>5
<1>7. (\A q, r \in Sessions : q # r /\ Ingests(q) /\ Ingests(r) => Apart(call[q], call[r]))'
  BY <1>3 DEF IngestionInv, Ingests, NoCall
<1>8. JobsAccountForVersions'
  <2>1. /\ \A j \in jobs : j.status = "succeeded" =>
                             \E v \in versions : v.name = j.name /\ v.content = j.content
        /\ \A v \in versions : \E j \in jobs : /\ j.status = "succeeded"
                                               /\ v.name = j.name /\ v.content = j.content
        /\ \A j \in jobs : j.status = "duplicate" => \E v \in versions : v.content = j.content
    BY JobsMatch DEF IngestionInv
  <2>2. /\ \A v \in d.rows : Job("succeeded", v) \in log
        /\ \A j \in log :
             /\ j.status = "succeeded" =>
                  \E v \in d.rows : v.name = j.name /\ v.content = j.content
             /\ j.status = "duplicate" => \E v \in versions \cup d.rows : v.content = j.content
    BY DEF Commits, Versions
  <2>3. \A v \in d.rows : \E j \in log : /\ j.status = "succeeded"
                                         /\ v.name = j.name /\ v.content = j.content
    <3> SUFFICES ASSUME NEW v \in d.rows
                 PROVE  \E j \in log : /\ j.status = "succeeded"
                                       /\ v.name = j.name /\ v.content = j.content
      OBVIOUS
    <3>1. Job("succeeded", v) \in log
      BY <2>2
    <3>2. /\ Job("succeeded", v).status = "succeeded"
          /\ Job("succeeded", v).name = v.name /\ Job("succeeded", v).content = v.content
      BY DEF Job
    <3> QED
      BY <3>1, <3>2
  <2>4. /\ \A j \in jobs' : j.status = "succeeded" =>
                             \E v \in versions' : v.name = j.name /\ v.content = j.content
        /\ \A v \in versions' : \E j \in jobs' : /\ j.status = "succeeded"
                                                 /\ v.name = j.name /\ v.content = j.content
        /\ \A j \in jobs' : j.status = "duplicate" => \E v \in versions' : v.content = j.content
    BY <1>2, <2>1, <2>2, <2>3
  <2> QED
    BY <2>4 DEF JobsAccountForVersions
<1>9. CursorCoversFeed'
  <2>1. CASE sync'.cursor = sync.cursor
    BY <1>2, <2>1 DEF IngestionInv, CursorCoversFeed
  <2>2. CASE d.op = "sync" /\ sync'.cursor = d.cursor
    <3>1. d.items = <<>> /\ d.cursor \in 0 .. Len(Feed)
      BY <1>1, <2>2 DEF Placed, IngestionCall
    <3>2. Len(Feed) \in Nat
      BY FeedAssumption
    <3>3. Len(d.items) = 0 /\ d.cursor \in Nat
      BY <3>1, <3>2
    <3>4. Done(d) = d.cursor
      BY <3>3 DEF Done
    <3> QED
      BY <1>1, <1>2, <2>2, <3>4 DEF Covers, Covered, CursorCoversFeed
  <2> QED
    BY <2>1, <2>2 DEF Commits
<1> QED
  BY <1>3, <1>4, <1>5, <1>6, <1>7, <1>8, <1>9 DEF IngestionInv

LEMMA CommitUploadKeeps ==
  ASSUME IngestionInv, CallTypes, NEW p \in Sessions, CommitUpload(p)
  PROVE  IngestionInv' /\ CallTypes'
<1> DEFINE d == call[p]
           item == Head(d.items)
           log == {Job("succeeded", item)}
<1>1. /\ Ingests(p) /\ d.op = "upload" /\ d.pc = "commit" /\ End(p)
      /\ documents' = Documents(p) /\ versions' = Versions(p) /\ jobs' = jobs \cup log
      /\ UNCHANGED sync
  BY DEF CommitUpload, At, Ingests, This
<1>2. /\ d \in IngestionCall /\ sync \in SyncRow /\ Logged(d, versions)
  BY <1>1, Known
<1>3. PICK v \in d.rows : d.rows = {v} /\ v.name = item.name /\ v.content = item.content
  BY <1>1, <1>2 DEF Logged
<1>4. v \in VersionRow
  BY <1>2 DEF IngestionCall
<1>5. Job("succeeded", v) = Job("succeeded", item)
  BY <1>3 DEF Job
<1>6. /\ Job("succeeded", item).status = "succeeded"
      /\ Job("succeeded", item).name = v.name /\ Job("succeeded", item).content = v.content
      /\ Job("succeeded", item) \in JobRow
  BY <1>3, <1>4 DEF Job, JobRow, VersionRow
<1>7. Commits(p, log)
  BY <1>1, <1>2, <1>3, <1>5, <1>6 DEF Commits
<1> QED
  BY <1>7, CommitKeeps

LEMMA CommitSyncKeeps ==
  ASSUME IngestionInv, CallTypes, NEW p \in Sessions, CommitSync(p)
  PROVE  IngestionInv' /\ CallTypes'
<1> DEFINE d == call[p]
<1>1. /\ Ingests(p) /\ d.op = "sync" /\ d.pc = "commit" /\ End(p)
      /\ documents' = Documents(p) /\ versions' = Versions(p) /\ jobs' = jobs \cup d.log
      /\ sync' = Completed(d)
  BY DEF CommitSync, At, Ingests
<1>2. /\ d \in IngestionCall /\ sync \in SyncRow /\ Logged(d, versions)
  BY <1>1, Known
<1>3. sync' \in SyncRow /\ (sync'.cursor = sync.cursor \/ sync'.cursor = d.cursor)
  BY <1>1, <1>2 DEF Completed, SyncRow, IngestionCall
<1>4. /\ d.log \subseteq JobRow
      /\ \A v \in d.rows : Job("succeeded", v) \in d.log
      /\ \A j \in d.log :
           /\ j.status = "succeeded" => \E v \in d.rows : v.name = j.name /\ v.content = j.content
           /\ j.status = "duplicate" => \E v \in Versions(p) : v.content = j.content
  BY <1>1, <1>2 DEF Logged, Versions, Storing, IngestionCall
<1>5. Commits(p, d.log)
  BY <1>1, <1>3, <1>4 DEF Commits
<1> QED
  BY <1>5, CommitKeeps

\* The contents are there already: only the job of the upload is closed.
LEMMA CheckDuplicateKeeps ==
  ASSUME IngestionInv, CallTypes, NEW p \in Sessions, CheckDuplicate(p)
  PROVE  IngestionInv' /\ CallTypes'
<1> DEFINE d == call[p]
           item == Head(d.items)
           hit == \E v \in versions : v.content = item.content
<1>1. /\ At(p, "upload", "look") /\ UNCHANGED <<documents, versions, sync>>
      /\ hit => jobs' = jobs \cup {Job("duplicate", item)} /\ End(p)
      /\ ~hit => UNCHANGED jobs /\ Become(p, [d EXCEPT !.pc = "document"])
  BY DEF CheckDuplicate, This
<1>2. CASE ~hit
  BY <1>1, <1>2, CheckDuplicateMisses DEF ingestionVars
<1>3. CASE hit
  <2>1. Ingests(p) /\ d.op = "upload" /\ d.pc = "look"
    BY <1>1 DEF At, Ingests
  <2>2. d \in IngestionCall /\ Placed(d)
    BY <2>1, Known
  <2>3. d.items \in Seq(Item) /\ Len(d.items) = 1
    BY <2>1, <2>2 DEF Placed, IngestionCall
  <2>4. d.items # <<>>
    <3>1. Len(<<>>) # 1
      BY EmptySeq
    <3> QED
      BY <2>3, <3>1, Zenon
  <2>5. /\ Job("duplicate", item) \in JobRow
        /\ Job("duplicate", item).status = "duplicate"
        /\ Job("duplicate", item).content = item.content
    BY <2>3, <2>4, Items DEF Job, JobRow
  <2>6. /\ CallTypes' /\ call'[p] = NoCall
        /\ \A q \in Sessions \ {p} : call'[q] = call[q]
    BY <1>1, <1>3, EndIsTyped, Becoming DEF End
  <2>7. RowTypes' /\ Stored(documents, versions)' /\ CursorCoversFeed'
    BY <1>1, <1>3, <2>5 DEF IngestionInv, RowTypes, CursorCoversFeed
  <2>8. (\A q \in Sessions : Ingests(q) => Sound(call[q], documents, versions))'
    BY <1>1, <2>6 DEF IngestionInv, Ingests, NoCall
  <2>9. (\A q, r \in Sessions : q # r /\ Ingests(q) /\ Ingests(r) => Apart(call[q], call[r]))'
    BY <2>6 DEF IngestionInv, Ingests, NoCall
  <2>10. JobsAccountForVersions'
    <3>1. /\ \A j \in jobs : j.status = "succeeded" =>
                              \E v \in versions : v.name = j.name /\ v.content = j.content
          /\ \A v \in versions : \E j \in jobs : /\ j.status = "succeeded"
                                                 /\ v.name = j.name /\ v.content = j.content
          /\ \A j \in jobs : j.status = "duplicate" => \E v \in versions : v.content = j.content
      BY JobsMatch DEF IngestionInv
    <3>2. versions' = versions /\ jobs' = jobs \cup {Job("duplicate", item)}
      BY <1>1, <1>3
    <3>3. /\ \A j \in jobs' : j.status = "succeeded" =>
                              \E v \in versions' : v.name = j.name /\ v.content = j.content
          /\ \A v \in versions' : \E j \in jobs' : /\ j.status = "succeeded"
                                                   /\ v.name = j.name /\ v.content = j.content
          /\ \A j \in jobs' : j.status = "duplicate" => \E v \in versions' : v.content = j.content
      BY <1>3, <2>5, <3>1, <3>2
    <3> QED
      BY <3>3 DEF JobsAccountForVersions
  <2> QED
    BY <2>6, <2>7, <2>8, <2>9, <2>10 DEF IngestionInv
<1> QED
  BY <1>2, <1>3

LEMMA RejectKeeps ==
  ASSUME IngestionInv, CallTypes, NEW p \in Sessions, Reject(p)
  PROVE  IngestionInv' /\ CallTypes'
BY EndIsTyped, QuietEnd DEF Reject, End, ingestionVars, IngestionInv, RowTypes

LEMMA FailSyncKeeps ==
  ASSUME IngestionInv, CallTypes, NEW p \in Sessions, FailSync(p)
  PROVE  IngestionInv' /\ CallTypes'
<1>1. sync \in SyncRow
  BY DEF IngestionInv, RowTypes
<1>2. sync' \in SyncRow /\ sync'.cursor = sync.cursor
  BY <1>1 DEF FailSync, SyncRow
<1> QED
  BY <1>2, EndIsTyped, QuietEnd DEF FailSync, End

\* The status changes under whatever is running.
LEMMA OperatorKeeps ==
  ASSUME IngestionInv, CallTypes, StartByRoute \/ EndByOperator
  PROVE  IngestionInv' /\ CallTypes'
<1>1. sync \in SyncRow /\ UNCHANGED <<documents, versions, jobs, call>>
  BY DEF IngestionInv, RowTypes, StartByRoute, EndByOperator
<1>2. sync' \in SyncRow /\ sync'.cursor = sync.cursor
  BY <1>1 DEF StartByRoute, EndByOperator, SyncRow
<1>3. RowTypes' /\ Stored(documents, versions)' /\ CursorCoversFeed' /\ JobsAccountForVersions'
  BY <1>1, <1>2 DEF IngestionInv, RowTypes, CursorCoversFeed, JobsAccountForVersions
<1>4. (\A q \in Sessions : Ingests(q) => Sound(call[q], documents, versions))'
  BY <1>1 DEF IngestionInv, Ingests
<1>5. (\A q, r \in Sessions : q # r /\ Ingests(q) /\ Ingests(r) => Apart(call[q], call[r]))'
  BY <1>1 DEF IngestionInv, Ingests
<1> QED
  BY <1>1, <1>3, <1>4, <1>5 DEF IngestionInv, CallTypes

\* Every step of an upload or a sync, and every one that leaves them alone.
LEMMA IngestionStepKeeps ==
  ASSUME IngestionInv, CallTypes, NEW p \in Sessions, IngestionStep(p)
  PROVE  IngestionInv' /\ CallTypes'
BY RejectKeeps, CheckDuplicateKeeps, FindSourceKeeps, FindDocumentKeeps, InsertSourceKeeps,
   InsertDocumentKeeps, FindDuplicateKeeps, ReadNumberKeeps, InsertVersionKeeps,
   CommitUploadKeeps, LookUpStateKeeps, StartSyncKeeps, CommitSyncKeeps, FailSyncKeeps,
   AbortDeadlockKeeps
   DEF IngestionStep

LEMMA BeginIngestionKeeps ==
  ASSUME IngestionInv, CallTypes, NEW p \in Sessions, BeginIngestion(p)
  PROVE  IngestionInv' /\ CallTypes'
BY UploadKeeps, FetchKeeps DEF BeginIngestion

LEMMA OtherCallKeeps ==
  ASSUME IngestionInv, CallTypes, NEW p \in Sessions,
         NEW c \in AnyCall, c.op \notin {"upload", "sync"}, Become(p, c), UNCHANGED ingestionVars
  PROVE  IngestionInv' /\ CallTypes'
BY QuietEnd DEF ingestionVars, IngestionInv, RowTypes

LEMMA IngestionInitInv ==
  ASSUME IngestionInit
  PROVE  IngestionInv /\ CallTypes
<1>1. RowTypes /\ CallTypes
  <2>1. sync = [status |-> "none", cursor |-> 0] /\ Len(Feed) \in Nat
    BY FeedAssumption DEF IngestionInit
  <2>2. sync \in SyncRow
    BY <2>1 DEF SyncRow
  <2> QED
    BY <2>2 DEF IngestionInit, RowTypes, CallTypes, AnyCall
<1>2. \A name : Of({}, name) = {}
  BY DEF Of
<1>3. Stored(documents, {})
  <2>1. IsFiniteSet({}) /\ Cardinality({}) = 0
    BY FS_EmptySet
  <2>2. {v.number : v \in {}} = 1 .. 0
    OBVIOUS
  <2> QED
    BY <1>2, <2>1, <2>2 DEF Stored, Numbered, Unique
<1>4. \A p \in Sessions : ~Ingests(p)
  BY DEF IngestionInit, Ingests, NoCall
<1>5. JobsAccountForVersions
  BY DEF IngestionInit, JobsAccountForVersions
<1>6. CursorCoversFeed
  BY DEF IngestionInit, CursorCoversFeed
<1> QED
  BY <1>1, <1>3, <1>4, <1>5, <1>6 DEF IngestionInv, IngestionInit

================================================================================
