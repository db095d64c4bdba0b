--------------------------- MODULE KnowledgeIndex ---------------------------
(* Chunks, citations and embeddings of the stored document versions, and the *)
(* vector store beside the database.                                         *)
EXTENDS KnowledgeIngestion

CONSTANTS Configs,  \* hashes of chunking configurations
          Ordinals, \* chunks of a version are numbered 1 .. Ordinals
          NoConfig

ASSUME IndexAssumption == Ordinals \in Nat \ {0} /\ NoConfig \notin Configs

VARIABLES chunking,   \* status and active configuration of each version
          chunks,     \* committed chunks
          citations,  \* chunks with a committed citation
          records,    \* committed embedding records
          vectors     \* chunks in the vector store, a dictionary of the process

indexVars == <<chunking, chunks, citations, records, vectors>>

Chunk(v, g, i) == [version |-> v, config |-> g, ordinal |-> i]
ChunkSet(v, g) == {Chunk(v, g, i) : i \in 1 .. Ordinals}
ChunksOf(v, rows) == {c \in rows : c.version = v}

\* The columns start as pending, with no active configuration.
ChunkingOf(v) ==
  IF v \in DOMAIN chunking THEN chunking[v] ELSE [status |-> "pending", active |-> NoConfig]

SetChunking(v, state) ==
  chunking' = [u \in {v} \cup DOMAIN chunking |-> IF u = v THEN state ELSE chunking[u]]

OthersChunks(p) ==
  UNION {call[q].chunks : q \in {o \in Sessions \ {p} : call[o].op = "chunk"}}

---------------------------------------------------------------------------
(* Chunking *)

\* The version is loaded, with the status it has now.
ChunkVersion(p, v, g) ==
  /\ call[p] = NoCall
  /\ Become(p, [op |-> "chunk", pc |-> "look", version |-> v, config |-> g,
                was |-> ChunkingOf(v).status, next |-> 1, chunks |-> {}, cited |-> {}])
  /\ UNCHANGED indexVars

\* A stored chunk set is the answer of every later call; the status is not
\* looked at.
LookForChunks(p) ==
  /\ At(p, "chunk", "look")
  /\ LET c == call[p]
     IN  IF \E k \in chunks : k.version = c.version /\ k.config = c.config
         THEN End(p)
         ELSE Become(p, [c EXCEPT !.pc = "mark"])
  /\ UNCHANGED indexVars

\* Committed at once, and written only if it differs from what was loaded.
MarkRunning(p) ==
  /\ At(p, "chunk", "mark")
  /\ LET v == call[p].version
     IN  IF call[p].was = "running" THEN UNCHANGED chunking
         ELSE SetChunking(v, [ChunkingOf(v) EXCEPT !.status = "running"])
  /\ Become(p, [call[p] EXCEPT !.pc = "insert"])
  /\ UNCHANGED <<chunks, citations, records, vectors>>

RollBackChunks(p) ==
  Become(p, [call[p] EXCEPT !.pc = "failing", !.chunks = {}, !.cited = {}])

\* Faulty variant: a call that finds the version running begins at its end.
NextChunkFromEnd(p) ==
  LET c == call[p]
  IN  Chunk(c.version, c.config,
            IF c.was = "running" THEN Ordinals + 1 - c.next ELSE c.next)

NextChunk(p) == Chunk(call[p].version, call[p].config, call[p].next)

AwaitsChunk(p) == At(p, "chunk", "insert") /\ NextChunk(p) \in OthersChunks(p)

InsertChunk(p) ==
  /\ At(p, "chunk", "insert")
  /\ ~AwaitsChunk(p)
  /\ IF NextChunk(p) \in chunks
     THEN RollBackChunks(p)
     ELSE Become(p, [call[p] EXCEPT !.chunks = @ \cup {NextChunk(p)}, !.pc = "cite"])
  /\ UNCHANGED indexVars

\* Faulty variant: each chunk is committed with its citation.
InsertCitationAlone(p) ==
  /\ At(p, "chunk", "cite")
  /\ chunks' = chunks \cup call[p].chunks
  /\ citations' = citations \cup call[p].chunks
  /\ Become(p, [call[p] EXCEPT
                  !.next = @ + 1,
                  !.pc = IF call[p].next = Ordinals THEN "commit" ELSE "insert"])
  /\ UNCHANGED <<chunking, records, vectors>>

InsertCitation(p) ==
  /\ At(p, "chunk", "cite")
  /\ Become(p, [call[p] EXCEPT
                  !.cited = @ \cup {NextChunk(p)},
                  !.next = @ + 1,
                  !.pc = IF call[p].next = Ordinals THEN "commit" ELSE "insert"])
  /\ UNCHANGED indexVars

CommitChunks(p) ==
  /\ At(p, "chunk", "commit")
  /\ chunks' = chunks \cup call[p].chunks
  /\ citations' = citations \cup call[p].cited
  /\ SetChunking(call[p].version, [status |-> "succeeded", active |-> call[p].config])
  /\ End(p)
  /\ UNCHANGED <<records, vectors>>

\* The chunker, the citation or the database may raise.
BreakChunking(p) ==
  /\ call[p].op = "chunk" /\ call[p].pc \in {"insert", "cite", "commit"}
  /\ RollBackChunks(p)
  /\ UNCHANGED indexVars

MarkFailed(p) ==
  /\ At(p, "chunk", "failing")
  /\ LET v == call[p].version
     IN  SetChunking(v, [ChunkingOf(v) EXCEPT !.status = "failed"])
  /\ End(p)
  /\ UNCHANGED <<chunks, citations, records, vectors>>

---------------------------------------------------------------------------
(* Embedding *)

EmbedVersion(p, v) ==
  /\ call[p] = NoCall
  /\ ChunkingOf(v).status = "succeeded"
  /\ Become(p, [op |-> "embed", pc |-> "select", version |-> v, todo |-> {}, added |-> {}])
  /\ UNCHANGED indexVars

\* Chunks of every configuration, without those embedded before; a failed
\* record does not count.  The selects, one for each chunk, are one step.
SelectChunks(p) ==
  /\ At(p, "embed", "select")
  /\ Become(p, [call[p] EXCEPT
                  !.todo = {c \in ChunksOf(call[p].version, chunks) :
                              ~\E r \in records : r.chunk = c /\ r.status = "succeeded"},
                  !.pc = "call"])
  /\ UNCHANGED indexVars

\* A record is stored under the provider, model and dimensions of the settings
\* or under those that the gateway answers, which may be others.
Revisions == {"settings", "answered"}

Embedded(p, batch, status, revision) ==
  Become(p, [call[p] EXCEPT
               !.todo = @ \ batch,
               !.added = @ \cup {[chunk |-> c, status |-> status, revision |-> revision] :
                                   c \in batch}])

\* One batch, of one or of all chunks that are left.
Batches(p) == {{c} : c \in call[p].todo} \cup {call[p].todo}

\* Faulty variant: the vectors are left for after the commit.
EmbedBatchLater(p, batch, revision) ==
  /\ At(p, "embed", "call")
  /\ Embedded(p, batch, "succeeded", revision)
  /\ UNCHANGED indexVars

\* The vectors are stored while the records wait for the commit.
EmbedBatch(p, batch, revision) ==
  /\ At(p, "embed", "call")
  /\ Embedded(p, batch, "succeeded", revision)
  /\ vectors' = vectors \cup batch
  /\ UNCHANGED <<chunking, chunks, citations, records>>

\* The gateway refuses or fails: the batch is recorded as blocked or failed.
RefuseBatch(p, batch) ==
  /\ At(p, "embed", "call")
  /\ Embedded(p, batch, "failed", "settings")
  /\ UNCHANGED indexVars

\* The records of all batches are inserted and committed together.  A chunk
\* has one record per revision, whatever its status; a second one raises.
CommitRecords(p) ==
  /\ At(p, "embed", "call") /\ call[p].todo = {}
  /\ records' = IF \E r \in records, a \in call[p].added :
                     r.chunk = a.chunk /\ r.revision = a.revision
                THEN records ELSE records \cup call[p].added
  /\ End(p)
  /\ UNCHANGED <<chunking, chunks, citations, vectors>>

---------------------------------------------------------------------------
IndexInit ==
  /\ chunking = <<>>
  /\ chunks = {} /\ citations = {}
  /\ records = {} /\ vectors = {}

BeginIndex(p) ==
  \E v \in versions : EmbedVersion(p, v) \/ \E g \in Configs : ChunkVersion(p, v, g)

IndexStep(p) ==
  \/ LookForChunks(p) \/ MarkRunning(p) \/ InsertChunk(p) \/ InsertCitation(p)
  \/ CommitChunks(p) \/ MarkFailed(p)
  \/ SelectChunks(p) \/ CommitRecords(p)
  \/ /\ At(p, "embed", "call")
     /\ \E batch \in Batches(p) \ {{}} :
          RefuseBatch(p, batch) \/ \E revision \in Revisions : EmbedBatch(p, batch, revision)

---------------------------------------------------------------------------
\* The chunks are inserted one by one, and two calls may chunk one version at
\* the same time; a chunk set that can be read is whole and cited, and the
\* active configuration of a version has one.
ChunkSetsAreWhole ==
  /\ \A k \in chunks : ChunkSet(k.version, k.config) \subseteq chunks \cap citations
  /\ \A v \in DOMAIN chunking :
       /\ chunking[v].active # NoConfig => ChunkSet(v, chunking[v].active) \subseteq chunks
       /\ chunking[v].status = "succeeded" => chunking[v].active # NoConfig

=============================================================================
