------------------------- MODULE KnowledgeIngestion -------------------------
(* Documents of one knowledge source, brought in by uploads and by the       *)
(* syncs of a connector, as PostgreSQL transactions at READ COMMITTED.       *)
(*                                                                           *)
(* A session runs one call at a time, statement by statement.  It sees the   *)
(* committed rows and its own.  An insert waits for another session that has *)
(* inserted the same unique key and not ended, and raises if the key is      *)
(* already committed.  An update of the sync state waits for the session     *)
(* that has updated its row and not ended.                                   *)
EXTENDS Naturals, Sequences, FiniteSets, FiniteSetsExt

CONSTANTS Sessions,  \* callers of the services
          Names,     \* external ids of documents
          Contents,  \* document contents, one hash each
          Feed,      \* what the external system has published, in its order
          Uploads    \* bound on the documents that are uploaded

Item == [name : Names, content : Contents]

ASSUME FeedAssumption == Feed \in Seq(Item) /\ Uploads \subseteq Item

VARIABLES documents,  \* committed documents and, as Source, the source's row
          versions,   \* committed document versions
          jobs,       \* the jobs closed as succeeded or duplicate; a job that is
                      \* failed, rejected or never closed claims nothing
          sync,       \* the connector's sync state
          call        \* what each session is doing

ingestionVars == <<documents, versions, jobs, sync>>

Source == "source"

NoCall == [op |-> "none"]

Ingests(p) == call[p].op \in {"upload", "sync"}
At(p, op, pc) == call[p].op = op /\ call[p].pc = pc
Become(p, c) == call' = [call EXCEPT ![p] = c]
End(p) == Become(p, NoCall)

Job(status, item) == [status |-> status, name |-> item.name, content |-> item.content]

Ingestion(op, items, cursor) ==
  [op |-> op, pc |-> "look", items |-> items, cursor |-> cursor, was |-> sync,
   number |-> 0, docs |-> {}, rows |-> {}, log |-> {}, row |-> FALSE]

This(p) == Head(call[p].items)

Documents(p) == documents \cup call[p].docs
Versions(p) == versions \cup call[p].rows

OthersDocuments(p) == UNION {call[q].docs : q \in {o \in Sessions \ {p} : Ingests(o)}}
OthersVersions(p) == UNION {call[q].rows : q \in {o \in Sessions \ {p} : Ingests(o)}}

SameKey(v, w) == v.name = w.name /\ (v.number = w.number \/ v.content = w.content)

RowHolders == {q \in Sessions : Ingests(q) /\ call[q].row}

\* The updates of the sync state: the counters of the records before this one,
\* a start that is not the first, and the two ends of a sync.
AwaitsRow(p) ==
  /\ call[p].op = "sync" /\ ~call[p].row /\ RowHolders # {}
  /\ \/ call[p].pc = "source" /\ call[p].log # {}
     \/ call[p].pc = "start" /\ call[p].was.status # "none"
     \/ call[p].pc \in {"commit", "failing"}

---------------------------------------------------------------------------
\* An exception of any statement.  The transaction is rolled back; an upload
\* then closes its job as failed, a sync has a second transaction for its state.
Raise(p) ==
  Become(p, IF call[p].op = "upload" THEN NoCall
            ELSE [call[p] EXCEPT !.pc = "failing", !.items = <<>>,
                                 !.docs = {}, !.rows = {}, !.log = {}, !.row = FALSE])

\* The parser, the normalizer or the database may raise once the call has
\* passed its preparation.
Break(p) ==
  /\ Ingests(p)
  /\ call[p].pc \notin {"look", "start", "failing"}
  /\ Raise(p)
  /\ UNCHANGED ingestionVars

---------------------------------------------------------------------------
(* Uploads *)

\* The job is pending in a transaction of its own.
Upload(p, item) ==
  /\ call[p] = NoCall
  /\ Become(p, Ingestion("upload", <<item>>, 0))
  /\ UNCHANGED ingestionVars

\* The document is not admissible, or the malware scanner refuses it: the job
\* is closed as rejected.
Reject(p) ==
  /\ At(p, "upload", "look")
  /\ End(p)
  /\ UNCHANGED ingestionVars

\* Equal contents are looked for in the whole source, before parsing.
CheckDuplicate(p) ==
  /\ At(p, "upload", "look")
  /\ IF \E v \in versions : v.content = This(p).content
     THEN /\ jobs' = jobs \cup {Job("duplicate", This(p))}
          /\ End(p)
     ELSE /\ Become(p, [call[p] EXCEPT !.pc = "document"])
          /\ UNCHANGED jobs
  /\ UNCHANGED <<documents, versions, sync>>

---------------------------------------------------------------------------
(* One document, for both kinds of calls *)

\* The select writes what the session has changed before: from the second
\* record on these are the counters of the sync state, whose row is then held
\* until the transaction ends.
FindSource(p) ==
  /\ At(p, "sync", "source")
  /\ ~AwaitsRow(p)
  /\ Become(p, [call[p] EXCEPT !.row = call[p].log # {},
                               !.pc = IF Source \in Documents(p) THEN "document"
                                      ELSE "insert source"])
  /\ UNCHANGED ingestionVars

\* A sync compares contents after it has found the document, an upload has
\* done so before.
AfterDocument(p) == IF call[p].op = "sync" THEN "duplicate" ELSE "number"

FindDocument(p) ==
  /\ Ingests(p) /\ call[p].pc = "document"
  /\ Become(p, [call[p] EXCEPT !.pc = IF This(p).name \in Documents(p)
                                      THEN AfterDocument(p) ELSE "insert document"])
  /\ UNCHANGED ingestionVars

\* The row that a record needs before its version.
Parent(p) == IF call[p].pc = "insert source" THEN Source ELSE This(p).name

AwaitsParent(p) ==
  /\ Ingests(p) /\ call[p].pc \in {"insert source", "insert document"}
  /\ Parent(p) \in OthersDocuments(p)

InsertParent(p, next) ==
  /\ ~AwaitsParent(p)
  /\ IF Parent(p) \in documents
     THEN Raise(p)
     ELSE Become(p, [call[p] EXCEPT !.docs = @ \cup {Parent(p)}, !.pc = next])
  /\ UNCHANGED ingestionVars

InsertSource(p) ==
  At(p, "sync", "insert source") /\ InsertParent(p, "document")

InsertDocument(p) ==
  /\ Ingests(p) /\ call[p].pc = "insert document"
  /\ InsertParent(p, AfterDocument(p))

NextRecord(c) ==
  [c EXCEPT !.items = Tail(@), !.pc = IF Len(c.items) = 1 THEN "commit" ELSE "source"]

\* Faulty variant: equal contents are looked for in the whole source.
FindDuplicateInSource(p) ==
  /\ At(p, "sync", "duplicate")
  /\ LET Logged(status) == [call[p] EXCEPT !.log = @ \cup {Job(status, This(p))}]
     IN  IF \E v \in Versions(p) : v.content = This(p).content
         THEN Become(p, NextRecord(Logged("duplicate")))
         ELSE Become(p, [Logged("succeeded") EXCEPT !.pc = "number"])
  /\ UNCHANGED ingestionVars

FindDuplicate(p) ==
  /\ At(p, "sync", "duplicate")
  /\ LET Logged(status) == [call[p] EXCEPT !.log = @ \cup {Job(status, This(p))}]
     IN  IF \E v \in Versions(p) : v.name = This(p).name /\ v.content = This(p).content
         THEN Become(p, NextRecord(Logged("duplicate")))
         ELSE Become(p, [Logged("succeeded") EXCEPT !.pc = "number"])
  /\ UNCHANGED ingestionVars

NextNumber(rows, name) == Max({0} \cup {v.number : v \in {w \in rows : w.name = name}}) + 1

ReadNumber(p) ==
  /\ Ingests(p) /\ call[p].pc = "number"
  /\ Become(p, [call[p] EXCEPT !.number = NextNumber(Versions(p), This(p).name),
                               !.pc = "insert version"])
  /\ UNCHANGED ingestionVars

\* Faulty variant: without the unique constraint on the number.
RivalsByContent(rows, v) == {w \in rows : v.name = w.name /\ v.content = w.content}

\* The unique keys of a version: its number and its content, in its document.
Rivals(rows, v) == {w \in rows : SameKey(v, w)}

Version(p) ==
  [name |-> This(p).name, number |-> call[p].number, content |-> This(p).content]

AwaitsVersion(p) ==
  /\ Ingests(p) /\ call[p].pc = "insert version"
  /\ Rivals(OthersVersions(p), Version(p)) # {}

InsertVersion(p) ==
  /\ Ingests(p) /\ call[p].pc = "insert version"
  /\ ~AwaitsVersion(p)
  /\ IF Rivals(versions, Version(p)) # {}
     THEN Raise(p)
     ELSE LET inserted == [call[p] EXCEPT !.rows = @ \cup {Version(p)}]
          IN  Become(p, IF call[p].op = "sync" THEN NextRecord(inserted)
                        ELSE [inserted EXCEPT !.pc = "commit"])
  /\ UNCHANGED ingestionVars

CommitUpload(p) ==
  /\ At(p, "upload", "commit")
  /\ documents' = Documents(p)
  /\ versions' = Versions(p)
  /\ jobs' = jobs \cup {Job("succeeded", This(p))}
  /\ End(p)
  /\ UNCHANGED sync

---------------------------------------------------------------------------
(* Syncs *)

\* The caller fetches what the external system published after the cursor it
\* reads, and calls run() with these records and their last position.
Fetch(p, upto) ==
  /\ call[p] = NoCall
  /\ upto \in sync.cursor .. Len(Feed)
  /\ Become(p, Ingestion("sync", SubSeq(Feed, sync.cursor + 1, upto), upto))
  /\ UNCHANGED ingestionVars

\* The state is read without a lock; a sync that runs already refuses.
LookUpState(p) ==
  /\ At(p, "sync", "look")
  /\ IF sync.status = "running" THEN End(p)
     ELSE Become(p, [call[p] EXCEPT !.was = sync, !.pc = "start"])
  /\ UNCHANGED ingestionVars

\* A first start inserts the row under a unique key, and raises to the caller
\* when another session has done so; a later one updates whatever is there.
StartSync(p) ==
  /\ At(p, "sync", "start") /\ ~AwaitsRow(p)
  /\ IF call[p].was.status = "none" /\ sync.status # "none"
     THEN End(p) /\ UNCHANGED sync
     ELSE /\ sync' = [sync EXCEPT !.status = "running"]
          /\ Become(p, [call[p] EXCEPT !.pc = IF call[p].items = <<>> THEN "commit"
                                              ELSE "source"])
  /\ UNCHANGED <<documents, versions, jobs>>

\* The columns that differ from what the session loaded are written.
Completed(c) ==
  [status |-> "succeeded",
   cursor |-> IF c.cursor = c.was.cursor THEN sync.cursor ELSE c.cursor]

CommitSync(p) ==
  /\ At(p, "sync", "commit") /\ ~AwaitsRow(p)
  /\ documents' = Documents(p)
  /\ versions' = Versions(p)
  /\ jobs' = jobs \cup call[p].log
  /\ sync' = Completed(call[p])
  /\ End(p)

\* The second transaction reads the state again.
FailSync(p) ==
  /\ At(p, "sync", "failing") /\ ~AwaitsRow(p)
  /\ sync' = [sync EXCEPT !.status = "failed"]
  /\ End(p)
  /\ UNCHANGED <<documents, versions, jobs>>

\* The route that only marks a sync as running.
StartByRoute ==
  /\ sync.status # "running" /\ RowHolders = {}
  /\ sync' = [sync EXCEPT !.status = "running"]
  /\ UNCHANGED <<documents, versions, jobs, call>>

\* The operator recovers or cancels a sync that was running when he read the
\* state, and may have ended since, or still be at work (a cancelled state is
\* told from a failed one by nothing).
EndByOperator ==
  /\ sync.status # "none" /\ RowHolders = {}
  /\ sync' = [sync EXCEPT !.status = "failed"]
  /\ UNCHANGED <<documents, versions, jobs, call>>

---------------------------------------------------------------------------
(* Deadlocks *)

WaitsFor(p, q) ==
  /\ p # q /\ Ingests(p) /\ Ingests(q)
  /\ \/ AwaitsRow(p) /\ call[q].row
     \/ AwaitsParent(p) /\ Parent(p) \in call[q].docs
     \/ AwaitsVersion(p) /\ Rivals(call[q].rows, Version(p)) # {}

WaitsWithin(S) == \A p \in S : \E q \in S : WaitsFor(p, q)

\* A least set of calls that wait for each other.
Circle(S) == WaitsWithin(S) /\ \A T \in SUBSET S : WaitsWithin(T) => T \in {{}, S}

\* PostgreSQL finds the circle and cancels a statement of it.
AbortDeadlock(p) ==
  /\ \E S \in SUBSET Sessions : p \in S /\ Circle(S)
  /\ Raise(p)
  /\ UNCHANGED ingestionVars

---------------------------------------------------------------------------
IngestionInit ==
  /\ documents \in {{}, {Source}}
  /\ versions = {} /\ jobs = {}
  /\ sync = [status |-> "none", cursor |-> 0]
  /\ call = [p \in Sessions |-> NoCall]

\* An upload names a source that exists.
BeginIngestion(p) ==
  \/ Source \in documents /\ \E item \in Uploads : Upload(p, item)
  \/ \E upto \in 0 .. Len(Feed) : Fetch(p, upto)

IngestionStep(p) ==
  \/ Reject(p) \/ CheckDuplicate(p)
  \/ FindSource(p) \/ FindDocument(p) \/ InsertSource(p) \/ InsertDocument(p)
  \/ FindDuplicate(p) \/ ReadNumber(p) \/ InsertVersion(p) \/ CommitUpload(p)
  \/ LookUpState(p) \/ StartSync(p) \/ CommitSync(p) \/ FailSync(p)
  \/ AbortDeadlock(p)

---------------------------------------------------------------------------
\* DATABASE.md:92, "last_cursor changes only with a successful Knowledge
\* transaction": whatever fails, crashes, or is recovered under a sync that is
\* still at work, every record before the cursor is stored.
CursorCoversFeed ==
  \A i \in 1 .. sync.cursor :
    \E v \in versions : v.name = Feed[i].name /\ v.content = Feed[i].content

VersionsAreNumbered ==
  \A name \in Names :
    LET rows == {v \in versions : v.name = name}
    IN  /\ {v.number : v \in rows} = 1 .. Cardinality(rows)
        /\ Cardinality({v.content : v \in rows}) = Cardinality(rows)
        /\ rows # {} => {name, Source} \subseteq documents

JobsAccountForVersions ==
  LET Of(status) == {<<j.name, j.content>> : j \in {k \in jobs : k.status = status}}
  IN  /\ Of("succeeded") = {<<v.name, v.content>> : v \in versions}
      /\ \A j \in jobs : j.status = "duplicate" => \E v \in versions : v.content = j.content

\* KNOWLEDGE_BASE.md:25, monotonically numbered versions: uploads and syncs
\* number and compare against reads that are stale when they insert, and still
\* every document has its versions 1 .. n, with different contents, and the
\* jobs of all sessions together account for exactly what was stored.
VersionsAreAccounted == VersionsAreNumbered /\ JobsAccountForVersions

=============================================================================
