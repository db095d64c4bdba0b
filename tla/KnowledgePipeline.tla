-------------------------- MODULE KnowledgePipeline --------------------------
(* The knowledge services together: sessions that upload, sync, chunk and    *)
(* embed over one database, with exceptions and lost calls.                  *)
EXTENDS KnowledgeIndex

CONSTANTS MaxWork,  \* bound on the calls: an ingestion costs 3, an indexing 2
          MaxFaults \* bound on the exceptions and losses that are not forced

ASSUME PipelineAssumption == MaxWork \in Nat /\ MaxFaults \in Nat

VARIABLES work, faults

vars == <<ingestionVars, indexVars, call, work, faults>>

\* A cancellation, or an exception of the handler itself, takes the call away:
\* "except Exception" does not handle them, and PostgreSQL rolls back what was
\* not committed.
Lose(p) ==
  /\ call[p] # NoCall
  /\ End(p)
  /\ UNCHANGED <<ingestionVars, indexVars>>

\* The process ends with all its calls and with the vector store, which is in
\* its memory; another one starts.
LoseProcess ==
  /\ call' = [p \in Sessions |-> NoCall]
  /\ vectors' = {}
  /\ UNCHANGED <<ingestionVars, chunking, chunks, citations, records>>

Begin(p) ==
  /\ \/ BeginIngestion(p) /\ work' = work + 3 /\ UNCHANGED indexVars
     \/ BeginIndex(p) /\ work' = work + 2 /\ UNCHANGED ingestionVars
  /\ work' <= MaxWork
  /\ UNCHANGED faults

Step(p) ==
  /\ \/ IngestionStep(p) /\ UNCHANGED indexVars
     \/ IndexStep(p) /\ UNCHANGED ingestionVars
  /\ UNCHANGED <<work, faults>>

CallFault(p) ==
  \/ Break(p) /\ UNCHANGED indexVars
  \/ BreakChunking(p) /\ UNCHANGED ingestionVars
  \/ Lose(p)

Fault ==
  /\ faults < MaxFaults
  /\ faults' = faults + 1
  /\ LoseProcess \/ \E p \in Sessions : CallFault(p)
  /\ UNCHANGED work

Operator == (StartByRoute \/ EndByOperator) /\ UNCHANGED <<indexVars, work, faults>>

Init == IngestionInit /\ IndexInit /\ work = 0 /\ faults = 0

Next == Operator \/ Fault \/ \E p \in Sessions : Begin(p) \/ Step(p)

Spec == Init /\ [][Next]_vars

---------------------------------------------------------------------------
(* Types *)

VersionRow == [name : Names, number : Nat \ {0}, content : Contents]
JobRow     == [status : {"succeeded", "duplicate"}, name : Names, content : Contents]
SyncRow    == [status : {"none", "running", "succeeded", "failed"}, cursor : 0 .. Len(Feed)]
ChunkRow   == [version : VersionRow, config : Configs, ordinal : 1 .. Ordinals]
RecordRow  == [chunk : ChunkRow, status : {"succeeded", "failed"}, revision : Revisions]
Status     == {"pending", "running", "succeeded", "failed"}
ChunkState == [status : Status, active : Configs \cup {NoConfig}]

IngestionCall ==
  [op : {"upload", "sync"},
   pc : {"look", "start", "source", "insert source", "document", "insert document",
         "duplicate", "number", "insert version", "commit", "failing"},
   items : Seq(Item), cursor : 0 .. Len(Feed), was : SyncRow, number : Nat,
   docs : SUBSET (Names \cup {Source}), rows : SUBSET VersionRow, log : SUBSET JobRow,
   row : BOOLEAN]

ChunkCall ==
  [op : {"chunk"}, pc : {"look", "mark", "insert", "cite", "commit", "failing"},
   version : VersionRow, config : Configs, was : Status, next : 1 .. Ordinals + 1,
   chunks : SUBSET ChunkRow, cited : SUBSET ChunkRow]

EmbedCall ==
  [op : {"embed"}, pc : {"select", "call"}, version : VersionRow,
   todo : SUBSET ChunkRow, added : SUBSET RecordRow]

TypeOK ==
  /\ documents \subseteq Names \cup {Source} /\ versions \subseteq VersionRow
  /\ jobs \subseteq JobRow /\ sync \in SyncRow
  /\ DOMAIN chunking \subseteq VersionRow
  /\ chunking \in [DOMAIN chunking -> ChunkState]
  /\ chunks \subseteq ChunkRow /\ citations \subseteq ChunkRow
  /\ records \subseteq RecordRow /\ vectors \subseteq ChunkRow
  /\ call \in [Sessions -> {NoCall} \cup IngestionCall \cup ChunkCall \cup EmbedCall]

---------------------------------------------------------------------------
\* Vectors are written beside the database, before the records and outside of
\* their transaction: a record of success is committed only while the vector of
\* its chunk is in the store, through lost calls and restarts of the process.
VectorsPrecedeRecords ==
  [][\A r \in records' \ records : r.status = "succeeded" => r.chunk \in vectors']_vars

Active == {p \in Sessions : call[p] # NoCall}

Waits(p) == AwaitsRow(p) \/ AwaitsParent(p) \/ AwaitsVersion(p) \/ AwaitsChunk(p)

HoldsKeys(p) == Ingests(p) /\ call[p].docs \cup call[p].rows # {}

\* Inserts wait for each other on the unique keys, inside transactions that
\* insert many rows, and syncs wait for the row of the sync state.  The keys
\* alone never make all calls wait, because every call inserts in the order of
\* the feed or of the chunks: they all wait only where a sync that holds the
\* keys of a record wants the row, and the sync that holds the row waits too.
OnlySyncsDeadlock ==
  Active # {} => \/ \E p \in Active : ~Waits(p)
                 \/ \E p \in Active, q \in RowHolders : AwaitsRow(p) /\ HoldsKeys(p) /\ Waits(q)

==============================================================================
