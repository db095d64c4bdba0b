------------------------ MODULE KnowledgePipeline_proofs ------------------------
(***************************************************************************)
(* Safety of the knowledge pipeline for every set of sessions, documents   *)
(* and chunking configurations, every feed and every number of chunks.     *)
(*                                                                         *)
(* The invariant joins that of KnowledgeIngestion_proofs with what a       *)
(* chunking call has inserted when it is at a place and what an embedding  *)
(* call has recorded.  That calls wait in a circle only around the row of  *)
(* the sync state follows from both without another induction: a call that *)
(* is waited for, and waits itself for a key, is further on in the feed,   *)
(* or in the chunks, than the one that waits for it.                       *)
(***************************************************************************)
EXTENDS KnowledgeIngestion_proofs, WellFoundedInduction

IndexTypes ==
  /\ DOMAIN chunking \subseteq VersionRow
  /\ chunking \in [DOMAIN chunking -> ChunkState]
  /\ chunks \subseteq ChunkRow /\ citations \subseteq ChunkRow
  /\ records \subseteq RecordRow /\ vectors \subseteq ChunkRow

UpTo(v, g, n) == {Chunk(v, g, i) : i \in 1 .. n}

\* Chunks are inserted in their order, each before its citation.
Chunked(c) ==
  /\ c.pc \in {"look", "mark"} => c.next = 1
  /\ c.pc \in {"insert", "cite"} => c.next <= Ordinals
  /\ c.pc = "commit" => c.next = Ordinals + 1
  /\ c.pc \in {"look", "mark", "failing"} => c.chunks = {} /\ c.cited = {}
  /\ c.pc \in {"insert", "cite", "commit"} => c.cited = UpTo(c.version, c.config, c.next - 1)
  /\ c.pc \in {"insert", "commit"} => c.chunks = c.cited
  /\ c.pc = "cite" => c.chunks = UpTo(c.version, c.config, c.next)

\* The records of success that a call has not committed have their vectors.
Embeds(c, stored) ==
  /\ c.pc = "select" => c.todo = {} /\ c.added = {}
  /\ \A a \in c.added : a.status = "succeeded" => a.chunk \in stored

IndexInv ==
  /\ IndexTypes
  /\ \A p \in Sessions : /\ call[p].op = "chunk" => Chunked(call[p])
                         /\ call[p].op = "embed" => Embeds(call[p], vectors)
  /\ ChunkSetsAreWhole

--------------------------------------------------------------------------------
(* Chunking *)

LEMMA IndexIsTyped ==
  ASSUME CallTypes, NEW p \in Sessions
  PROVE  /\ call[p].op = "chunk" => call[p] \in ChunkCall
         /\ call[p].op = "embed" => call[p] \in EmbedCall
<1>1. call[p] \in AnyCall
  BY DEF CallTypes
<1>2. \A c \in IngestionCall : c.op \in {"upload", "sync"}
  BY DEF IngestionCall
<1>3. \A c \in ChunkCall : c.op = "chunk"
  BY DEF ChunkCall
<1>4. \A c \in EmbedCall : c.op = "embed"
  BY DEF EmbedCall
<1>5. NoCall.op = "none"
  BY DEF NoCall
<1> QED
  BY <1>1, <1>2, <1>3, <1>4, <1>5 DEF AnyCall

\* A step that stores nothing.
LEMMA IndexQuiet ==
  ASSUME IndexInv, CallTypes, NEW p \in Sessions, NEW c \in AnyCall, Become(p, c),
         UNCHANGED indexVars,
         c.op = "chunk" => Chunked(c), c.op = "embed" => Embeds(c, vectors)
  PROVE  IndexInv'
<1>1. call'[p] = c /\ \A q \in Sessions \ {p} : call'[q] = call[q]
  BY Becoming
<1>2. IndexTypes' /\ ChunkSetsAreWhole'
  BY DEF IndexInv, indexVars, IndexTypes, ChunkSetsAreWhole
<1>3. UNCHANGED vectors
  BY DEF indexVars
<1>4. (\A q \in Sessions : /\ call[q].op = "chunk" => Chunked(call[q])
                           /\ call[q].op = "embed" => Embeds(call[q], vectors))'
  BY <1>1, <1>3 DEF IndexInv
<1> QED
  BY <1>2, <1>4 DEF IndexInv

\* A step that leaves the vectors alone and changes the tables soundly.
LEMMA IndexStores ==
  ASSUME IndexInv, CallTypes, NEW p \in Sessions, NEW c \in AnyCall, Become(p, c),
         vectors \subseteq vectors',
         c.op = "chunk" => Chunked(c), c.op = "embed" => Embeds(c, vectors'),
         IndexTypes', ChunkSetsAreWhole'
  PROVE  IndexInv'
<1>1. call'[p] = c /\ \A q \in Sessions \ {p} : call'[q] = call[q]
  BY Becoming
<1>2. (\A q \in Sessions : /\ call[q].op = "chunk" => Chunked(call[q])
                           /\ call[q].op = "embed" => Embeds(call[q], vectors))'
  BY <1>1 DEF IndexInv, Embeds
<1> QED
  BY <1>2 DEF IndexInv

LEMMA ChunkingIsTyped ==
  ASSUME IndexTypes, NEW v
  PROVE  ChunkingOf(v) \in ChunkState
BY DEF IndexTypes, ChunkingOf, ChunkState, Status

LEMMA SetChunkingKeeps ==
  ASSUME IndexInv, NEW v \in VersionRow, NEW state \in ChunkState, SetChunking(v, state),
         chunks \subseteq chunks', citations \subseteq citations',
         \A k \in chunks' : ChunkSet(k.version, k.config) \subseteq chunks' \cap citations',
         state.active # NoConfig => ChunkSet(v, state.active) \subseteq chunks',
         state.status = "succeeded" => state.active # NoConfig
  PROVE  /\ ChunkSetsAreWhole'
         /\ DOMAIN chunking' \subseteq VersionRow
         /\ chunking' \in [DOMAIN chunking' -> ChunkState]
<1>1. /\ DOMAIN chunking' = {v} \cup DOMAIN chunking
      /\ \A u \in DOMAIN chunking' : chunking'[u] = IF u = v THEN state ELSE chunking[u]
      /\ chunking' = [u \in DOMAIN chunking' |-> chunking'[u]]
  BY DEF SetChunking
<1>2. IndexTypes /\ ChunkSetsAreWhole
  BY DEF IndexInv
<1>3. DOMAIN chunking' \subseteq VersionRow /\ chunking' \in [DOMAIN chunking' -> ChunkState]
  BY <1>1, <1>2 DEF IndexTypes
<1>4. ChunkSetsAreWhole'
  BY <1>1, <1>2 DEF ChunkSetsAreWhole
<1> QED
  BY <1>3, <1>4

\* What each step of a chunking call keeps of the tables; every one leaves the
\* session with a typed call, or none.
Kept(p) == IndexInv' /\ \E c \in AnyCall : c.op \notin {"upload", "sync"} /\ Become(p, c)

LEMMA ChunkVersionKeeps ==
  ASSUME IndexInv, CallTypes, NEW p \in Sessions, NEW v \in VersionRow, NEW g \in Configs,
         ChunkVersion(p, v, g)
  PROVE  Kept(p)
<1> DEFINE c == [op |-> "chunk", pc |-> "look", version |-> v, config |-> g,
                 was |-> ChunkingOf(v).status, next |-> 1, chunks |-> {}, cited |-> {}]
<1>1. Become(p, c) /\ UNCHANGED indexVars
  BY DEF ChunkVersion
<1>2. ChunkingOf(v).status \in Status
  BY ChunkingIsTyped DEF IndexInv, ChunkState
<1>3. c \in ChunkCall
  BY <1>2, IndexAssumption DEF ChunkCall
<1>4. c.op = "chunk" /\ Chunked(c)
  BY DEF Chunked
<1> QED
  BY <1>1, <1>3, <1>4, IndexQuiet DEF Kept, AnyCall

LEMMA LookForChunksKeeps ==
  ASSUME IndexInv, CallTypes, NEW p \in Sessions, LookForChunks(p)
  PROVE  Kept(p)
<1> DEFINE d == call[p]
           c == [d EXCEPT !.pc = "mark"]
<1>1. /\ d.op = "chunk" /\ d.pc = "look" /\ UNCHANGED indexVars
      /\ End(p) \/ Become(p, c)
  BY DEF LookForChunks, At
<1>2. d \in ChunkCall /\ Chunked(d)
  BY <1>1, IndexIsTyped DEF IndexInv
<1>3. /\ c \in ChunkCall /\ c.op = "chunk" /\ c.pc = "mark"
      /\ c.next = d.next /\ c.chunks = d.chunks /\ c.cited = d.cited
  BY <1>1, <1>2 DEF ChunkCall
<1> HIDE DEF c, d
<1>4. Chunked(c)
  BY <1>1, <1>2, <1>3 DEF Chunked
<1>5. CASE End(p)
  BY <1>1, <1>5, EndIsTyped, IndexQuiet DEF Kept, End, NoCall
<1>6. CASE Become(p, c)
  BY <1>1, <1>3, <1>4, <1>6, IndexQuiet DEF Kept, AnyCall
<1> QED
  BY <1>1, <1>5, <1>6

LEMMA UpToNone == \A v, g : UpTo(v, g, 0) = {}
BY DEF UpTo

LEMMA UpToNext ==
  ASSUME NEW v, NEW g, NEW n \in Nat \ {0}
  PROVE  UpTo(v, g, n) = UpTo(v, g, n - 1) \cup {Chunk(v, g, n)}
<1>1. 1 .. n = (1 .. (n - 1)) \cup {n}
  OBVIOUS
<1> QED
  BY <1>1 DEF UpTo

LEMMA MarkRunningKeeps ==
  ASSUME IndexInv, CallTypes, NEW p \in Sessions, MarkRunning(p)
  PROVE  Kept(p)
<1> DEFINE d == call[p]
           v == d.version
           state == [ChunkingOf(v) EXCEPT !.status = "running"]
           c == [d EXCEPT !.pc = "insert"]
<1>1. /\ d.op = "chunk" /\ d.pc = "mark" /\ Become(p, c)
      /\ UNCHANGED chunking \/ SetChunking(v, state)
      /\ UNCHANGED <<chunks, citations, records, vectors>>
  BY DEF MarkRunning, At
<1>2. d \in ChunkCall /\ Chunked(d)
  BY <1>1, IndexIsTyped DEF IndexInv
<1>3. /\ c \in ChunkCall /\ c.op = "chunk" /\ c.pc = "insert"
      /\ c.next = 1 /\ c.chunks = {} /\ c.cited = {}
  BY <1>1, <1>2 DEF ChunkCall, Chunked
<1>4. v \in VersionRow
  BY <1>2 DEF ChunkCall
<1> HIDE DEF c, d
<1>5. Chunked(c)
  BY <1>3, UpToNone, IndexAssumption DEF Chunked
<1>6. IndexTypes' /\ ChunkSetsAreWhole'
  <2>2. CASE UNCHANGED chunking
    BY <1>1, <2>2 DEF IndexInv, IndexTypes, ChunkSetsAreWhole
  <2>3. CASE SetChunking(v, state)
    <3>1. ChunkingOf(v) \in ChunkState
      BY ChunkingIsTyped DEF IndexInv
    <3>2. state \in ChunkState /\ state.status = "running" /\ state.active = ChunkingOf(v).active
      BY <3>1 DEF ChunkState, Status
    <3>3. state.active # NoConfig => ChunkSet(v, state.active) \subseteq chunks
      BY <3>2 DEF IndexInv, ChunkSetsAreWhole, ChunkingOf
    <3>4. \A k \in chunks : ChunkSet(k.version, k.config) \subseteq chunks \cap citations
      BY DEF IndexInv, ChunkSetsAreWhole
    <3> HIDE DEF state
    <3>5. /\ ChunkSetsAreWhole' /\ DOMAIN chunking' \subseteq VersionRow
          /\ chunking' \in [DOMAIN chunking' -> ChunkState]
      BY <1>1, <1>4, <2>3, <3>2, <3>3, <3>4, SetChunkingKeeps
    <3> QED
      BY <1>1, <3>5 DEF IndexInv, IndexTypes
  <2> QED
    BY <1>1, <2>2, <2>3
<1> QED
  BY <1>1, <1>3, <1>5, <1>6, IndexStores DEF Kept, AnyCall

LEMMA RollBackKeeps ==
  ASSUME IndexInv, CallTypes, NEW p \in Sessions, call[p].op = "chunk",
         RollBackChunks(p), UNCHANGED indexVars
  PROVE  Kept(p)
<1> DEFINE d == call[p]
           c == [d EXCEPT !.pc = "failing", !.chunks = {}, !.cited = {}]
<1>1. Become(p, c) /\ d \in ChunkCall
  BY IndexIsTyped DEF RollBackChunks
<1>2. c \in ChunkCall /\ c.op = "chunk" /\ c.pc = "failing" /\ c.chunks = {} /\ c.cited = {}
  BY <1>1 DEF ChunkCall
<1>3. Chunked(c)
  BY <1>2 DEF Chunked
<1> QED
  BY <1>1, <1>2, <1>3, IndexQuiet DEF Kept, AnyCall

LEMMA BreakChunkingKeeps ==
  ASSUME IndexInv, CallTypes, NEW p \in Sessions, BreakChunking(p)
  PROVE  Kept(p)
BY RollBackKeeps DEF BreakChunking

LEMMA NextChunkIsTyped ==
  ASSUME NEW d \in ChunkCall, d.next <= Ordinals
  PROVE  Chunk(d.version, d.config, d.next) \in ChunkRow /\ d.next \in Nat \ {0}
<1>1. d.version \in VersionRow /\ d.config \in Configs /\ d.next \in 1 .. Ordinals + 1
  BY DEF ChunkCall
<1>2. d.next \in 1 .. Ordinals
  BY <1>1, IndexAssumption
<1> QED
  BY <1>1, <1>2, IndexAssumption DEF Chunk, ChunkRow

LEMMA InsertChunkKeeps ==
  ASSUME IndexInv, CallTypes, NEW p \in Sessions, InsertChunk(p)
  PROVE  Kept(p)
<1> DEFINE d == call[p]
           k == Chunk(d.version, d.config, d.next)
           c == [d EXCEPT !.chunks = d.chunks \cup {k}, !.pc = "cite"]
<1>1. /\ d.op = "chunk" /\ d.pc = "insert" /\ UNCHANGED indexVars
      /\ RollBackChunks(p) \/ Become(p, c)
  BY DEF InsertChunk, At, NextChunk
<1>2. d \in ChunkCall /\ Chunked(d)
  BY <1>1, IndexIsTyped DEF IndexInv
<1>3. d.next <= Ordinals
  BY <1>1, <1>2 DEF Chunked
<1>4. k \in ChunkRow /\ d.next \in Nat \ {0}
  BY <1>2, <1>3, NextChunkIsTyped
<1>5. /\ c \in ChunkCall /\ c.op = "chunk" /\ c.pc = "cite"
      /\ c.version = d.version /\ c.config = d.config /\ c.next = d.next
      /\ c.chunks = d.chunks \cup {k} /\ c.cited = d.cited
  <2> HIDE DEF k
  <2>1. c \in ChunkCall
    BY <1>2, <1>4 DEF ChunkCall
  <2> QED
    BY <1>1, <1>2, <2>1 DEF ChunkCall
<1> HIDE DEF c, d
<1>6. Chunked(c)
  BY <1>1, <1>2, <1>3, <1>4, <1>5, UpToNext DEF Chunked
<1>7. CASE RollBackChunks(p)
  BY <1>1, <1>7, RollBackKeeps DEF d
<1>8. CASE Become(p, c)
  BY <1>1, <1>5, <1>6, <1>8, IndexQuiet DEF Kept, AnyCall
<1> QED
  BY <1>1, <1>7, <1>8

LEMMA InsertCitationKeeps ==
  ASSUME IndexInv, CallTypes, NEW p \in Sessions, InsertCitation(p)
  PROVE  Kept(p)
<1> DEFINE d == call[p]
           k == Chunk(d.version, d.config, d.next)
           pc == IF d.next = Ordinals THEN "commit" ELSE "insert"
           c == [d EXCEPT !.cited = d.cited \cup {k}, !.next = d.next + 1, !.pc = pc]
<1>1. d.op = "chunk" /\ d.pc = "cite" /\ UNCHANGED indexVars /\ Become(p, c)
  BY DEF InsertCitation, At, NextChunk
<1>2. d \in ChunkCall /\ Chunked(d)
  BY <1>1, IndexIsTyped DEF IndexInv
<1>3. d.next <= Ordinals
  BY <1>1, <1>2 DEF Chunked
<1>4. k \in ChunkRow /\ d.next \in Nat \ {0}
  BY <1>2, <1>3, NextChunkIsTyped
<1>5. d.next + 1 \in 1 .. Ordinals + 1
  BY <1>3, <1>4, IndexAssumption
<1>6. /\ c \in ChunkCall /\ c.op = "chunk" /\ c.pc = pc
      /\ c.version = d.version /\ c.config = d.config /\ c.next = d.next + 1
      /\ c.chunks = d.chunks /\ c.cited = d.cited \cup {k}
  <2> HIDE DEF k
  <2>1. c \in ChunkCall
    BY <1>2, <1>4, <1>5 DEF ChunkCall
  <2> QED
    BY <1>1, <1>2, <2>1 DEF ChunkCall
<1>7. \/ c.pc = "commit" /\ c.next = Ordinals + 1
      \/ c.pc = "insert" /\ c.next <= Ordinals
  BY <1>3, <1>4, <1>6, IndexAssumption
<1> HIDE DEF c, d, pc
<1>8. c.next - 1 = d.next
  BY <1>4, <1>6
<1>9. c.cited = UpTo(c.version, c.config, c.next - 1) /\ c.chunks = c.cited
  BY <1>1, <1>2, <1>4, <1>6, <1>8, UpToNext DEF Chunked
<1>10. Chunked(c)
  BY <1>7, <1>9 DEF Chunked
<1> QED
  BY <1>1, <1>6, <1>10, IndexQuiet DEF Kept, AnyCall

LEMMA CommitChunksKeeps ==
  ASSUME IndexInv, CallTypes, NEW p \in Sessions, CommitChunks(p)
  PROVE  Kept(p)
<1> DEFINE d == call[p]
           v == d.version
           g == d.config
           state == [status |-> "succeeded", active |-> g]
<1>1. /\ d.op = "chunk" /\ d.pc = "commit" /\ End(p)
      /\ chunks' = chunks \cup d.chunks /\ citations' = citations \cup d.cited
      /\ SetChunking(v, state) /\ UNCHANGED <<records, vectors>>
  BY DEF CommitChunks, At
<1>2. d \in ChunkCall /\ Chunked(d)
  BY <1>1, IndexIsTyped DEF IndexInv
<1>3. v \in VersionRow /\ g \in Configs /\ d.chunks \subseteq ChunkRow /\ d.cited \subseteq ChunkRow
  BY <1>2 DEF ChunkCall
<1>4. d.chunks = ChunkSet(v, g) /\ d.cited = ChunkSet(v, g)
  <2>1. d.next - 1 = Ordinals
    BY <1>1, <1>2, IndexAssumption DEF Chunked
  <2> QED
    BY <1>1, <1>2, <2>1 DEF Chunked, UpTo, ChunkSet
<1> HIDE DEF d
<1>5. \A k \in chunks' : ChunkSet(k.version, k.config) \subseteq chunks' \cap citations'
  <2>1. \A k \in d.chunks : k.version = v /\ k.config = g
    BY <1>4 DEF ChunkSet, Chunk
  <2>2. \A k \in chunks : ChunkSet(k.version, k.config) \subseteq chunks \cap citations
    BY DEF IndexInv, ChunkSetsAreWhole
  <2> QED
    BY <1>1, <1>4, <2>1, <2>2
<1>6. /\ state \in ChunkState /\ state.active = g /\ g # NoConfig
  BY <1>3, IndexAssumption DEF ChunkState, Status
<1> HIDE DEF state
<1>7. /\ ChunkSetsAreWhole' /\ DOMAIN chunking' \subseteq VersionRow
      /\ chunking' \in [DOMAIN chunking' -> ChunkState]
  BY <1>1, <1>3, <1>4, <1>5, <1>6, SetChunkingKeeps
<1>8. IndexTypes'
  BY <1>1, <1>3, <1>7 DEF IndexInv, IndexTypes
<1>9. NoCall \in AnyCall /\ NoCall.op \notin {"chunk", "embed", "upload", "sync"}
  BY DEF AnyCall, NoCall
<1> QED
  BY <1>1, <1>7, <1>8, <1>9, IndexStores DEF Kept, End

LEMMA MarkFailedKeeps ==
  ASSUME IndexInv, CallTypes, NEW p \in Sessions, MarkFailed(p)
  PROVE  Kept(p)
<1> DEFINE d == call[p]
           v == d.version
           state == [ChunkingOf(v) EXCEPT !.status = "failed"]
<1>1. /\ d.op = "chunk" /\ End(p) /\ SetChunking(v, state)
      /\ UNCHANGED <<chunks, citations, records, vectors>>
  BY DEF MarkFailed, At
<1>2. v \in VersionRow
  BY <1>1, IndexIsTyped DEF ChunkCall
<1>3. ChunkingOf(v) \in ChunkState
  BY ChunkingIsTyped DEF IndexInv
<1>4. state \in ChunkState /\ state.status = "failed" /\ state.active = ChunkingOf(v).active
  BY <1>3 DEF ChunkState, Status
<1>5. state.active # NoConfig => ChunkSet(v, state.active) \subseteq chunks
  BY <1>4 DEF IndexInv, ChunkSetsAreWhole, ChunkingOf
<1>6. \A k \in chunks : ChunkSet(k.version, k.config) \subseteq chunks \cap citations
  BY DEF IndexInv, ChunkSetsAreWhole
<1> HIDE DEF state, d
<1>7. /\ ChunkSetsAreWhole' /\ DOMAIN chunking' \subseteq VersionRow
      /\ chunking' \in [DOMAIN chunking' -> ChunkState]
  BY <1>1, <1>2, <1>4, <1>5, <1>6, SetChunkingKeeps
<1>8. IndexTypes'
  BY <1>1, <1>7 DEF IndexInv, IndexTypes
<1>9. NoCall \in AnyCall /\ NoCall.op \notin {"chunk", "embed", "upload", "sync"}
  BY DEF AnyCall, NoCall
<1> QED
  BY <1>1, <1>7, <1>8, <1>9, IndexStores DEF Kept, End

--------------------------------------------------------------------------------
(* Embedding *)

LEMMA EmbedVersionKeeps ==
  ASSUME IndexInv, CallTypes, NEW p \in Sessions, NEW v \in VersionRow, EmbedVersion(p, v)
  PROVE  Kept(p)
<1> DEFINE c == [op |-> "embed", pc |-> "select", version |-> v, todo |-> {}, added |-> {}]
<1>1. Become(p, c) /\ UNCHANGED indexVars
  BY DEF EmbedVersion
<1>2. c \in EmbedCall /\ c.op = "embed" /\ Embeds(c, vectors)
  BY DEF EmbedCall, Embeds
<1> QED
  BY <1>1, <1>2, IndexQuiet DEF Kept, AnyCall

LEMMA SelectChunksKeeps ==
  ASSUME IndexInv, CallTypes, NEW p \in Sessions, SelectChunks(p)
  PROVE  Kept(p)
<1> DEFINE d == call[p]
           todo == {k \in ChunksOf(d.version, chunks) :
                      ~\E r \in records : r.chunk = k /\ r.status = "succeeded"}
           c == [d EXCEPT !.todo = todo, !.pc = "call"]
<1>1. d.op = "embed" /\ d.pc = "select" /\ Become(p, c) /\ UNCHANGED indexVars
  BY DEF SelectChunks, At
<1>2. d \in EmbedCall /\ Embeds(d, vectors)
  BY <1>1, IndexIsTyped DEF IndexInv
<1>3. todo \subseteq ChunkRow
  BY DEF ChunksOf, IndexInv, IndexTypes
<1> HIDE DEF todo
<1>4. c \in EmbedCall /\ c.op = "embed" /\ c.added = {}
  BY <1>1, <1>2, <1>3 DEF EmbedCall, Embeds
<1>5. c.pc = "call"
  BY <1>2 DEF EmbedCall
<1>6. Embeds(c, vectors)
  BY <1>4, <1>5 DEF Embeds
<1> QED
  BY <1>1, <1>4, <1>6, IndexQuiet DEF Kept, AnyCall

\* A batch is done with one status, its vectors first if that is a success.
LEMMA BatchIsEmbedded ==
  ASSUME IndexInv, CallTypes, NEW p \in Sessions, At(p, "embed", "call"),
         NEW batch \in SUBSET call[p].todo, NEW status \in {"succeeded", "failed"},
         NEW revision \in Revisions, Embedded(p, batch, status, revision),
         UNCHANGED <<chunking, chunks, citations, records>>,
         vectors' = IF status = "succeeded" THEN vectors \cup batch ELSE vectors
  PROVE  Kept(p)
<1> DEFINE d == call[p]
           new == {[chunk |-> k, status |-> status, revision |-> revision] : k \in batch}
           c == [d EXCEPT !.todo = d.todo \ batch, !.added = d.added \cup new]
<1>1. d.op = "embed" /\ d.pc = "call" /\ Become(p, c)
  BY DEF At, Embedded
<1>2. d \in EmbedCall /\ Embeds(d, vectors)
  BY <1>1, IndexIsTyped DEF IndexInv
<1>3. batch \subseteq ChunkRow
  BY <1>2 DEF EmbedCall
<1>4. new \subseteq RecordRow
  BY <1>3 DEF RecordRow
<1>5. \A a \in new : a.chunk \in batch /\ a.status = status
  OBVIOUS
<1>6. vectors \subseteq vectors' /\ (status = "succeeded" => batch \subseteq vectors')
  OBVIOUS
<1> HIDE DEF new
<1>7. /\ c \in EmbedCall /\ c.op = "embed" /\ c.pc = "call"
      /\ c.added = d.added \cup new
  <2>1. c \in EmbedCall
    BY <1>2, <1>4 DEF EmbedCall
  <2> QED
    BY <1>1, <1>2, <2>1 DEF EmbedCall
<1> HIDE DEF c, d
<1>8. Embeds(c, vectors')
  BY <1>2, <1>5, <1>6, <1>7 DEF Embeds
<1>9. IndexTypes' /\ ChunkSetsAreWhole'
  <2>1. vectors' \subseteq ChunkRow
    BY <1>3 DEF IndexInv, IndexTypes
  <2> QED
    BY <2>1 DEF IndexInv, IndexTypes, ChunkSetsAreWhole
<1> QED
  BY <1>1, <1>6, <1>7, <1>8, <1>9, IndexStores DEF Kept, AnyCall

LEMMA CommitRecordsKeeps ==
  ASSUME IndexInv, CallTypes, NEW p \in Sessions, CommitRecords(p)
  PROVE  Kept(p)
<1> DEFINE d == call[p]
<1>1. /\ d.op = "embed" /\ End(p)
      /\ records' = records \/ records' = records \cup d.added
      /\ UNCHANGED <<chunking, chunks, citations, vectors>>
  BY DEF CommitRecords, At
<1>2. d \in EmbedCall
  BY <1>1, IndexIsTyped
<1>3. d.added \subseteq RecordRow
  BY <1>2 DEF EmbedCall
<1>4. IndexTypes' /\ ChunkSetsAreWhole'
  BY <1>1, <1>3 DEF IndexInv, IndexTypes, ChunkSetsAreWhole
<1>5. NoCall \in AnyCall /\ NoCall.op \notin {"chunk", "embed", "upload", "sync"}
  BY DEF AnyCall, NoCall
<1> QED
  BY <1>1, <1>4, <1>5, IndexStores DEF Kept, End

LEMMA IndexStepKeeps ==
  ASSUME IndexInv, CallTypes, NEW p \in Sessions, IndexStep(p)
  PROVE  Kept(p)
<1>1. CASE /\ At(p, "embed", "call")
           /\ \E batch \in Batches(p) \ {{}} :
                RefuseBatch(p, batch) \/ \E revision \in Revisions : EmbedBatch(p, batch, revision)
  <2>1. PICK batch \in Batches(p) \ {{}} :
               RefuseBatch(p, batch) \/ \E revision \in Revisions : EmbedBatch(p, batch, revision)
    BY <1>1
  <2>2. batch \in SUBSET call[p].todo
    BY DEF Batches
  <2>3. ASSUME NEW revision \in Revisions, EmbedBatch(p, batch, revision)
        PROVE  Kept(p)
    <3>1. /\ At(p, "embed", "call") /\ Embedded(p, batch, "succeeded", revision)
          /\ vectors' = vectors \cup batch /\ UNCHANGED <<chunking, chunks, citations, records>>
      BY <2>3 DEF EmbedBatch
    <3> QED
      BY <2>2, <3>1, BatchIsEmbedded
  <2>4. CASE RefuseBatch(p, batch)
    <3>1. /\ At(p, "embed", "call") /\ Embedded(p, batch, "failed", "settings")
          /\ vectors' = vectors /\ UNCHANGED <<chunking, chunks, citations, records>>
      BY <2>4 DEF RefuseBatch, indexVars
    <3>2. "settings" \in Revisions
      BY DEF Revisions
    <3> QED
      BY <2>2, <3>1, <3>2, BatchIsEmbedded
  <2> QED
    BY <2>1, <2>3, <2>4
<1> QED
  BY <1>1, LookForChunksKeeps, MarkRunningKeeps, InsertChunkKeeps, InsertCitationKeeps,
     CommitChunksKeeps, MarkFailedKeeps, SelectChunksKeeps, CommitRecordsKeeps DEF IndexStep

LEMMA BeginIndexKeeps ==
  ASSUME IndexInv, CallTypes, RowTypes, NEW p \in Sessions, BeginIndex(p)
  PROVE  Kept(p)
BY EmbedVersionKeeps, ChunkVersionKeeps DEF BeginIndex, RowTypes

--------------------------------------------------------------------------------
(* Both together *)

\* A step of an upload or a sync leaves its session with one, or with none.
Ingesting(p) == \E c \in AnyCall : c.op \in {"upload", "sync", "none"} /\ Become(p, c)

LEMMA IngestionBecomes ==
  ASSUME CallTypes, CallTypes', NEW p \in Sessions, NEW c, Become(p, c),
         c.op \in {"upload", "sync", "none"}
  PROVE  Ingesting(p)
<1>1. call'[p] = c /\ call'[p] \in AnyCall
  BY DEF CallTypes, Become
<1> QED
  BY <1>1 DEF Ingesting

LEMMA EndIsIngesting ==
  ASSUME NEW p \in Sessions, End(p)
  PROVE  Ingesting(p)
<1>1. NoCall \in AnyCall /\ NoCall.op = "none"
  BY DEF AnyCall, NoCall
<1> QED
  BY <1>1 DEF End, Ingesting

LEMMA RaiseIsIngesting ==
  ASSUME CallTypes, CallTypes', NEW p \in Sessions, Ingests(p), Raise(p)
  PROVE  Ingesting(p)
<1> DEFINE c == [call[p] EXCEPT !.pc = "failing", !.items = <<>>,
                                !.docs = {}, !.rows = {}, !.log = {}, !.row = FALSE]
<1>1. call[p] \in IngestionCall
  BY IngestionIsTyped
<1>2. c.op \in {"upload", "sync"}
  BY <1>1 DEF IngestionCall
<1>3. End(p) \/ Become(p, c)
  BY DEF Raise, End
<1> HIDE DEF c
<1> QED
  BY <1>2, <1>3, EndIsIngesting, IngestionBecomes

LEMMA IngestionStepIsIngesting ==
  ASSUME CallTypes, CallTypes', NEW p \in Sessions, IngestionStep(p) \/ Break(p)
  PROVE  Ingesting(p)
<1> DEFINE d == call[p]
<1>1. ASSUME NEW c, Ingests(p), Become(p, c), c.op = d.op PROVE Ingesting(p)
  BY <1>1, IngestionBecomes DEF Ingests
<1>2. ASSUME Ingests(p) PROVE d \in IngestionCall
  BY <1>2, IngestionIsTyped
<1>3. CASE Break(p)
  BY <1>3, RaiseIsIngesting DEF Break
<1>4. CASE Reject(p) \/ CommitUpload(p) \/ CommitSync(p) \/ FailSync(p)
  BY <1>4, EndIsIngesting DEF Reject, CommitUpload, CommitSync, FailSync
<1>5. CASE \E pc \in Places : Ingests(p) /\ Become(p, [d EXCEPT !.pc = pc])
  <2>1. PICK pc \in Places : Ingests(p) /\ Become(p, [d EXCEPT !.pc = pc])
    BY <1>5
  <2>2. [d EXCEPT !.pc = pc].op = d.op
    BY <1>2, <2>1 DEF IngestionCall
  <2> QED
    BY <1>1, <2>1, <2>2
<1>6. CASE CheckDuplicate(p)
  BY <1>5, <1>6, EndIsIngesting DEF CheckDuplicate, At, Ingests, Places
<1>7. CASE FindSource(p)
  <2> DEFINE pc == IF Source \in Documents(p) THEN "document" ELSE "insert source"
             c == [d EXCEPT !.row = d.log # {}, !.pc = pc]
  <2>1. Ingests(p) /\ Become(p, c)
    BY <1>7 DEF FindSource, At, Ingests
  <2>2. c.op = d.op
    BY <1>2, <2>1 DEF IngestionCall
  <2> QED
    BY <1>1, <2>1, <2>2
<1>8. CASE FindDocument(p)
  BY <1>5, <1>8 DEF FindDocument, AfterDocument, Places
<1>9. CASE InsertSource(p) \/ InsertDocument(p)
  <2>1. ASSUME NEW next, Ingests(p), InsertParent(p, next) PROVE Ingesting(p)
    <3>1. [d EXCEPT !.docs = d.docs \cup {Parent(p)}, !.pc = next].op = d.op
      BY <1>2, <2>1 DEF IngestionCall
    <3> QED
      BY <1>1, <2>1, <3>1, RaiseIsIngesting DEF InsertParent
  <2>2. CASE InsertSource(p)
    <3>1. Ingests(p) /\ InsertParent(p, "document")
      BY <2>2 DEF InsertSource, At, Ingests
    <3> QED
      BY <2>1, <3>1
  <2>3. CASE InsertDocument(p)
    <3>1. Ingests(p) /\ InsertParent(p, AfterDocument(p))
      BY <2>3 DEF InsertDocument
    <3> QED
      BY <2>1, <3>1
  <2> QED
    BY <1>9, <2>2, <2>3
<1>10. CASE FindDuplicate(p)
  <2> DEFINE Log(s) == [d EXCEPT !.log = d.log \cup {Job(s, This(p))}]
  <2>1. /\ Ingests(p)
        /\ \/ Become(p, NextRecord(Log("duplicate")))
           \/ Become(p, [Log("succeeded") EXCEPT !.pc = "number"])
    BY <1>10 DEF FindDuplicate, At, Ingests
  <2>2. NextRecord(Log("duplicate")).op = d.op
    BY <1>2, <2>1 DEF NextRecord, IngestionCall
  <2>3. [Log("succeeded") EXCEPT !.pc = "number"].op = d.op
    BY <1>2, <2>1 DEF IngestionCall
  <2> QED
    BY <1>1, <2>1, <2>2, <2>3
<1>11. CASE ReadNumber(p)
  <2> DEFINE n == NextNumber(Versions(p), This(p).name)
  <2>1. Ingests(p) /\ Become(p, [d EXCEPT !.number = n, !.pc = "insert version"])
    BY <1>11 DEF ReadNumber
  <2> HIDE DEF n
  <2>2. [d EXCEPT !.number = n, !.pc = "insert version"].op = d.op
    BY <1>2, <2>1 DEF IngestionCall
  <2> QED
    BY <1>1, <2>1, <2>2
<1>12. CASE InsertVersion(p)
  <2> DEFINE e == [d EXCEPT !.rows = d.rows \cup {Version(p)}]
  <2>1. /\ Ingests(p)
        /\ Raise(p) \/ Become(p, NextRecord(e)) \/ Become(p, [e EXCEPT !.pc = "commit"])
    BY <1>12 DEF InsertVersion
  <2>2. NextRecord(e).op = d.op /\ [e EXCEPT !.pc = "commit"].op = d.op
    BY <1>2, <2>1 DEF NextRecord, IngestionCall
  <2> HIDE DEF e
  <2> QED
    BY <1>1, <2>1, <2>2, RaiseIsIngesting
<1>13. CASE LookUpState(p)
  <2>1. [d EXCEPT !.was = sync, !.pc = "start"].op = d.op
    BY <1>2, <1>13 DEF LookUpState, At, Ingests, IngestionCall
  <2>2. Ingests(p) /\ (End(p) \/ Become(p, [d EXCEPT !.was = sync, !.pc = "start"]))
    BY <1>13 DEF LookUpState, At, Ingests
  <2> QED
    BY <1>1, <2>1, <2>2, EndIsIngesting
<1>14. CASE StartSync(p)
  BY <1>5, <1>14, EndIsIngesting DEF StartSync, At, Ingests, Places
<1>15. CASE AbortDeadlock(p)
  <2>1. Ingests(p)
    BY <1>15 DEF AbortDeadlock, Circle, WaitsWithin, WaitsFor
  <2> QED
    BY <1>15, <2>1, RaiseIsIngesting DEF AbortDeadlock
<1> QED
  BY <1>3, <1>4, <1>6, <1>7, <1>8, <1>9, <1>10, <1>11, <1>12, <1>13, <1>14, <1>15
     DEF IngestionStep

LEMMA BeginIngestionIsIngesting ==
  ASSUME CallTypes, CallTypes', NEW p \in Sessions, BeginIngestion(p)
  PROVE  Ingesting(p)
<1>1. ASSUME NEW op \in {"upload", "sync"}, NEW items, NEW cursor,
             Become(p, Ingestion(op, items, cursor))
      PROVE  Ingesting(p)
  <2>1. Ingestion(op, items, cursor).op = op
    BY DEF Ingestion
  <2> QED
    BY <1>1, <2>1, IngestionBecomes
<1> QED
  BY <1>1 DEF BeginIngestion, Upload, Fetch

LEMMA IngestingKeepsIndex ==
  ASSUME IndexInv, CallTypes, NEW p \in Sessions, Ingesting(p), UNCHANGED indexVars
  PROVE  IndexInv'
<1>1. PICK c \in AnyCall : c.op \in {"upload", "sync", "none"} /\ Become(p, c)
  BY DEF Ingesting
<1> QED
  BY <1>1, IndexQuiet

LEMMA KeptKeepsIngestion ==
  ASSUME IngestionInv, CallTypes, NEW p \in Sessions, Kept(p), UNCHANGED ingestionVars
  PROVE  IngestionInv' /\ CallTypes' /\ IndexInv'
BY OtherCallKeeps DEF Kept

\* The inductive invariant.
KnowledgeInv == CallTypes /\ IngestionInv /\ IndexInv

LEMMA BeginKeeps ==
  ASSUME KnowledgeInv, NEW p \in Sessions, Begin(p)
  PROVE  KnowledgeInv'
<1>1. CASE BeginIngestion(p) /\ UNCHANGED indexVars
  BY <1>1, BeginIngestionKeeps, BeginIngestionIsIngesting, IngestingKeepsIndex DEF KnowledgeInv
<1>2. CASE BeginIndex(p) /\ UNCHANGED ingestionVars
  BY <1>2, BeginIndexKeeps, KeptKeepsIngestion DEF KnowledgeInv, IngestionInv
<1> QED
  BY <1>1, <1>2 DEF Begin

LEMMA StepKeeps ==
  ASSUME KnowledgeInv, NEW p \in Sessions, Step(p)
  PROVE  KnowledgeInv'
<1>1. CASE IngestionStep(p) /\ UNCHANGED indexVars
  BY <1>1, IngestionStepKeeps, IngestionStepIsIngesting, IngestingKeepsIndex DEF KnowledgeInv
<1>2. CASE IndexStep(p) /\ UNCHANGED ingestionVars
  BY <1>2, IndexStepKeeps, KeptKeepsIngestion DEF KnowledgeInv
<1> QED
  BY <1>1, <1>2 DEF Step

LEMMA LoseKeeps ==
  ASSUME KnowledgeInv, NEW p \in Sessions, Lose(p)
  PROVE  KnowledgeInv'
<1>1. End(p) /\ UNCHANGED ingestionVars /\ UNCHANGED indexVars
  BY DEF Lose
<1>2. IngestionInv' /\ CallTypes'
  BY <1>1, EndIsTyped, OtherCallKeeps DEF KnowledgeInv, End
<1> QED
  BY <1>1, <1>2, EndIsIngesting, IngestingKeepsIndex DEF KnowledgeInv

\* The vectors and the calls that rely on them are lost together.
LEMMA LoseProcessKeeps ==
  ASSUME KnowledgeInv, LoseProcess
  PROVE  KnowledgeInv'
<1>1. /\ UNCHANGED <<documents, versions, jobs, sync, chunking, chunks, citations, records>>
      /\ vectors' = {} /\ \A p \in Sessions : call'[p] = NoCall
      /\ call' = [p \in Sessions |-> NoCall]
  BY DEF LoseProcess, ingestionVars
<1>2. NoCall.op = "none" /\ NoCall \in AnyCall
  BY DEF NoCall, AnyCall
<1>3. CallTypes'
  BY <1>1, <1>2 DEF CallTypes
<1>4. /\ RowTypes' /\ Stored(documents, versions)'
      /\ CursorCoversFeed' /\ JobsAccountForVersions'
  BY <1>1 DEF KnowledgeInv, IngestionInv, RowTypes, CursorCoversFeed, JobsAccountForVersions
<1>5. (\A p \in Sessions : ~Ingests(p))'
  BY <1>1, <1>2 DEF Ingests
<1>6. IngestionInv'
  BY <1>4, <1>5 DEF IngestionInv
<1>7. IndexTypes' /\ ChunkSetsAreWhole'
  BY <1>1 DEF KnowledgeInv, IndexInv, IndexTypes, ChunkSetsAreWhole
<1>8. IndexInv'
  BY <1>1, <1>2, <1>7 DEF IndexInv
<1> QED
  BY <1>3, <1>6, <1>8 DEF KnowledgeInv

LEMMA CallFaultKeeps ==
  ASSUME KnowledgeInv, NEW p \in Sessions, CallFault(p)
  PROVE  KnowledgeInv'
<1>1. CASE Break(p) /\ UNCHANGED indexVars
  BY <1>1, BreakKeeps, IngestionStepIsIngesting, IngestingKeepsIndex DEF KnowledgeInv
<1>2. CASE BreakChunking(p) /\ UNCHANGED ingestionVars
  BY <1>2, BreakChunkingKeeps, KeptKeepsIngestion DEF KnowledgeInv
<1>3. CASE Lose(p)
  BY <1>3, LoseKeeps
<1> QED
  BY <1>1, <1>2, <1>3 DEF CallFault

LEMMA KnowledgeInit ==
  ASSUME Init
  PROVE  KnowledgeInv
<1>1. IngestionInv /\ CallTypes
  BY IngestionInitInv DEF Init
<1>2. IndexTypes /\ ChunkSetsAreWhole
  BY DEF Init, IndexInit, IndexTypes, ChunkSetsAreWhole
<1>3. \A p \in Sessions : call[p].op = "none"
  BY DEF Init, IngestionInit, NoCall
<1> QED
  BY <1>1, <1>2, <1>3 DEF KnowledgeInv, IndexInv

LEMMA KnowledgeStep ==
  ASSUME KnowledgeInv, [Next]_vars
  PROVE  KnowledgeInv'
<1>1. CASE UNCHANGED vars
  BY <1>1 DEF vars, ingestionVars, indexVars, KnowledgeInv, CallTypes, IngestionInv, RowTypes,
              Ingests, JobsAccountForVersions, CursorCoversFeed, IndexInv, IndexTypes,
              ChunkSetsAreWhole
<1>2. CASE Operator
  <2>1. IngestionInv' /\ CallTypes'
    BY <1>2, OperatorKeeps DEF Operator, KnowledgeInv
  <2>2. IndexInv'
    BY <1>2 DEF Operator, StartByRoute, EndByOperator, indexVars, KnowledgeInv, IndexInv,
                IndexTypes, ChunkSetsAreWhole
  <2> QED
    BY <2>1, <2>2 DEF KnowledgeInv
<1>3. CASE \E p \in Sessions : Begin(p) \/ Step(p)
  BY <1>3, BeginKeeps, StepKeeps
<1>4. CASE Fault
  BY <1>4, LoseProcessKeeps, CallFaultKeeps DEF Fault
<1> QED
  BY <1>1, <1>2, <1>3, <1>4 DEF Next

LEMMA KnowledgeAlways == Spec => []KnowledgeInv
BY KnowledgeInit, KnowledgeStep, PTL DEF Spec

\* Every row, table and call record has its type, whatever uploads, syncs,
\* chunking and embedding calls do to each other.
THEOREM KnowledgeTyped == Spec => []TypeOK
<1>1. KnowledgeInv => TypeOK
  BY DEF KnowledgeInv, IngestionInv, RowTypes, IndexInv, IndexTypes, CallTypes, AnyCall, TypeOK
<1> QED
  BY <1>1, KnowledgeAlways, PTL

\* complete_sync writes the cursor with the transaction that stores its
\* records: every record before the cursor is stored.
THEOREM CursorSafe == Spec => []CursorCoversFeed
<1>1. KnowledgeInv => CursorCoversFeed
  BY DEF KnowledgeInv, IngestionInv
<1> QED
  BY <1>1, KnowledgeAlways, PTL

\* The contents of the versions of a document are as many as its versions.
LEMMA ContentsCount ==
  ASSUME NEW S, IsFiniteSet(S), \A v, w \in S : v.content = w.content => v = w
  PROVE  Cardinality({v.content : v \in S}) = Cardinality(S)
<1> DEFINE T == {v.content : v \in S}
           f == [v \in S |-> v.content]
<1>1. f \in Bijection(S, T)
  <2>1. f \in [S -> T]
    OBVIOUS
  <2>2. \A a, b \in S : f[a] = f[b] => a = b
    OBVIOUS
  <2>3. \A t \in T : \E s \in S : f[s] = t
    OBVIOUS
  <2> QED
    BY <2>1, <2>2, <2>3 DEF Bijection, Injection, Surjection, IsInjective
<1>2. ExistsBijection(S, T)
  BY <1>1 DEF ExistsBijection
<1> QED
  BY <1>2, FS_Bijection

\* Reads are stale when a version is inserted, and still the versions of a
\* document are 1 .. n, with different contents and their parents, and the
\* jobs account for exactly what is stored.
THEOREM VersionsAccounted == Spec => []VersionsAreAccounted
<1>1. KnowledgeInv => VersionsAreNumbered
  <2> SUFFICES ASSUME KnowledgeInv, NEW name \in Names
               PROVE  LET rows == {v \in versions : v.name = name}
                      IN  /\ {v.number : v \in rows} = 1 .. Cardinality(rows)
                          /\ Cardinality({v.content : v \in rows}) = Cardinality(rows)
                          /\ rows # {} => {name, Source} \subseteq documents
    BY DEF VersionsAreNumbered
  <2> DEFINE rows == {v \in versions : v.name = name}
  <2>1. Stored(documents, versions)
    BY DEF KnowledgeInv, IngestionInv
  <2>2. IsFiniteSet(rows) /\ {v.number : v \in rows} = 1 .. Cardinality(rows)
    BY <2>1 DEF Stored, Numbered, Of
  <2>3. \A v, w \in rows : v.content = w.content => v = w
    BY <2>1 DEF Stored, Unique, SameKey
  <2>4. rows # {} => {name, Source} \subseteq documents
    BY <2>1 DEF Stored
  <2> HIDE DEF rows
  <2>5. Cardinality({v.content : v \in rows}) = Cardinality(rows)
    BY <2>2, <2>3, ContentsCount
  <2> QED
    BY <2>2, <2>4, <2>5 DEF rows
<1>2. KnowledgeInv => VersionsAreAccounted
  BY <1>1 DEF KnowledgeInv, IngestionInv, VersionsAreAccounted
<1> QED
  BY <1>2, KnowledgeAlways, PTL

\* Chunks are inserted one by one, by several calls at a time: a chunk set that
\* can be read is whole and cited, and an active configuration has one.
THEOREM ChunkSetsWhole == Spec => []ChunkSetsAreWhole
<1>1. KnowledgeInv => ChunkSetsAreWhole
  BY DEF KnowledgeInv, IndexInv
<1> QED
  BY <1>1, KnowledgeAlways, PTL

\* embed_version stores the vectors before its records and outside of their
\* transaction: a record of success is committed only while the vector of its
\* chunk is in the store.
THEOREM RecordsFollowVectors == Spec => VectorsPrecedeRecords
<1> DEFINE Follow == \A r \in records' \ records : r.status = "succeeded" => r.chunk \in vectors'
<1>1. ASSUME KnowledgeInv, Next, NEW r \in records' \ records, r.status = "succeeded"
      PROVE  r.chunk \in vectors'
  <2>1. ASSUME NEW p \in Sessions, CommitRecords(p)
        PROVE  r.chunk \in vectors'
    <3>1. r \in call[p].added /\ call[p].op = "embed" /\ UNCHANGED vectors
      BY <1>1, <2>1 DEF CommitRecords, At
    <3>2. Embeds(call[p], vectors)
      BY <1>1, <3>1 DEF KnowledgeInv, IndexInv
    <3> QED
      BY <1>1, <3>1, <3>2 DEF Embeds
  <2>2. CASE UNCHANGED records
    BY <1>1, <2>2
  <2>3. ASSUME NEW p \in Sessions, Begin(p)
        PROVE  UNCHANGED records
    BY <2>3 DEF Begin, BeginIndex, EmbedVersion, ChunkVersion, indexVars
  <2>4. ASSUME NEW p \in Sessions, Step(p), ~CommitRecords(p)
        PROVE  UNCHANGED records
    <3>1. CASE UNCHANGED indexVars
      BY <3>1 DEF indexVars
    <3>2. CASE IndexStep(p)
      BY <2>4, <3>2 DEF IndexStep, LookForChunks, MarkRunning, InsertChunk, InsertCitation,
         CommitChunks, MarkFailed, SelectChunks, EmbedBatch, RefuseBatch, indexVars
    <3> QED
      BY <2>4, <3>1, <3>2 DEF Step
  <2>5. CASE Operator \/ Fault
    BY <2>5 DEF Operator, Fault, LoseProcess, CallFault, BreakChunking, Lose, indexVars
  <2> QED
    BY <1>1, <2>1, <2>2, <2>3, <2>4, <2>5 DEF Next
<1>2. KnowledgeInv /\ [Next]_vars => [Follow]_vars
  BY <1>1
<1>3. VectorsPrecedeRecords <=> [][Follow]_vars
  BY DEF VectorsPrecedeRecords
<1> HIDE DEF Follow
<1> QED
  BY <1>2, <1>3, KnowledgeAlways, PTL DEF Spec

--------------------------------------------------------------------------------
(* Calls that wait *)

LEMMA Greatest ==
  ASSUME NEW S, S \subseteq Nat, NEW B \in Nat, S # {}, \A s \in S : s <= B
  PROVE  \E m \in S : \A s \in S : s <= m
<1> DEFINE T == {B - s : s \in S}
           R == {ss \in Nat \X Nat : ss[1] < ss[2]}
<1>1. \A s \in S : B - s \in Nat
  OBVIOUS
<1>2. T \subseteq Nat /\ T # {}
  BY <1>1
<1>3. IsWellFoundedOn(R, Nat)
  BY NatLessThanWellFounded DEF OpToRel
<1> HIDE DEF R
<1>4. PICK t \in T : \A u \in T : ~(<<u, t>> \in R)
  BY <1>2, <1>3, WFMin
<1>5. ASSUME NEW u \in T PROVE t <= u
  <2>1. u \in Nat /\ t \in Nat
    BY <1>2
  <2>2. ~(<<u, t>> \in R)
    BY <1>4
  <2>3. ~(u < t)
    BY <2>1, <2>2 DEF R
  <2> QED
    BY <2>1, <2>3
<1>6. PICK m \in S : t = B - m
  OBVIOUS
<1>7. ASSUME NEW s \in S PROVE s <= m
  <2>1. B - m <= B - s
    BY <1>5, <1>6
  <2>2. s \in Nat /\ m \in Nat
    OBVIOUS
  <2> QED
    BY <2>1, <2>2
<1> QED
  BY <1>7

\* How far a sync is in the feed, and with the record it is at.
Stage(c) ==
  IF c.pc = "insert version" THEN 2 ELSE IF c.pc = "insert document" THEN 1 ELSE 0

Rank(c) == 4 * Done(c) + Stage(c)

LEMMA RankOrders ==
  ASSUME NEW i \in Nat, NEW j \in Nat, NEW s \in 0 .. 2, NEW t \in 0 .. 2,
         i < j \/ (i = j /\ s < t)
  PROVE  4 * i + s < 4 * j + t
OBVIOUS

LEMMA RankIsBounded ==
  ASSUME NEW i \in Nat, NEW n \in Nat, i <= n, NEW s \in 0 .. 2
  PROVE  4 * i + s \in Nat /\ 4 * i + s <= 4 * n + 2
OBVIOUS

LEMMA StageIsSmall == \A c : Stage(c) \in 0 .. 2
BY DEF Stage

LEMMA SmallOrder ==
  ASSUME NEW s, NEW t, (s = 0 /\ t \in {1, 2}) \/ (s = 1 /\ t = 2)
  PROVE  s < t
OBVIOUS

LEMMA StageOrders ==
  ASSUME NEW c, NEW d,
         \/ c.pc = "insert source" /\ d.pc \in {"insert document", "insert version"}
         \/ c.pc = "insert document" /\ d.pc = "insert version"
  PROVE  Stage(c) < Stage(d)
<1>1. /\ c.pc = "insert source" => Stage(c) = 0
      /\ c.pc = "insert document" => Stage(c) = 1
  BY DEF Stage
<1>2. /\ d.pc = "insert document" => Stage(d) = 1
      /\ d.pc = "insert version" => Stage(d) = 2
  BY DEF Stage
<1> HIDE DEF Stage
<1>3. (Stage(c) = 0 /\ Stage(d) \in {1, 2}) \/ (Stage(c) = 1 /\ Stage(d) = 2)
  BY <1>1, <1>2
<1> QED
  BY <1>3, SmallOrder, Zenon

LEMMA NotPassed ==
  ASSUME NEW i \in Nat, NEW j \in Nat, NEW k \in 1 .. j, k \notin 1 .. i
  PROVE  i < j
OBVIOUS

LEMMA NotPassedYet ==
  ASSUME NEW i \in Nat, NEW j \in Nat, j + 1 \notin 1 .. i
  PROVE  i < j \/ i = j
OBVIOUS

LEMMA SyncPlace ==
  ASSUME NEW c \in IngestionCall, c.op = "sync", c.pc \in Working, Placed(c)
  PROVE  /\ Done(c) \in Nat /\ Done(c) <= Len(Feed)
         /\ Head(c.items) = Feed[Done(c) + 1]
<1>1. c.items \in Seq(Item) /\ c.items # <<>> /\ c.cursor \in Nat
  BY HasRecord
<1>2. Len(c.items) \in Nat \ {0} /\ Head(c.items) = c.items[1]
  BY <1>1, Items
<1>3. c.pc # "failing"
  BY DEF Working, Found, Storing
<1>4. /\ Len(c.items) <= c.cursor
      /\ \A i \in 1 .. Len(c.items) : c.items[i] = Feed[Done(c) + i]
  BY <1>3 DEF Placed
<1>5. c.cursor <= Len(Feed) /\ Len(Feed) \in Nat
  <2>1. Len(Feed) \in Nat
    BY FeedAssumption
  <2>2. c.cursor \in 0 .. Len(Feed)
    BY DEF IngestionCall
  <2> QED
    BY <2>1, <2>2
<1>6. Done(c) \in Nat /\ Done(c) <= Len(Feed)
  <2>1. Done(c) = c.cursor - Len(c.items)
    BY DEF Done
  <2> HIDE DEF Done
  <2> QED
    BY <1>1, <1>2, <1>4, <1>5, <2>1
<1> QED
  BY <1>2, <1>4, <1>6

\* What a sync has passed is stored, or will be, with its parents.
LEMMA Passed ==
  ASSUME NEW c, NEW D, NEW V, Stored(D, V), Covers(c, V), Parents(c, D),
         c.op = "sync", c.pc # "failing", NEW i \in 1 .. Done(c)
  PROVE  /\ \E v \in V \cup c.rows : v.name = Feed[i].name /\ v.content = Feed[i].content
         /\ {Feed[i].name, Source} \subseteq D \cup c.docs
<1>1. PICK v \in V \cup c.rows : v.name = Feed[i].name /\ v.content = Feed[i].content
  BY DEF Covers, Covered
<1>2. {v.name, Source} \subseteq D \cup c.docs
  BY DEF Stored, Parents
<1> QED
  BY <1>1, <1>2

\* A session that waits, and one that holds what it waits for.
Meets(p, q) ==
  /\ p \in Sessions /\ q \in Sessions /\ p # q /\ Ingests(p) /\ Ingests(q)
  /\ Apart(call[p], call[q])

\* An upload that is waited for does not wait.
LEMMA UploadsDoNotWait ==
  ASSUME KnowledgeInv, NEW p, NEW q, Meets(p, q), call[q].op = "upload",
         \/ /\ call[p].pc \in {"insert source", "insert document"}
            /\ Parent(p) \in call[q].docs
         \/ call[q].rows # {}
  PROVE  ~Waits(q)
<1> DEFINE d == call[q]
<1>1. /\ q \in Sessions /\ Ingests(q) /\ d \in IngestionCall /\ d.op = "upload"
      /\ Placed(d) /\ Parents(d, documents) /\ Origins(d)
  BY Known DEF KnowledgeInv, Meets
<1>2. CASE d.pc = "commit"
  BY <1>1, <1>2 DEF Waits, AwaitsRow, AwaitsParent, AwaitsVersion, AwaitsChunk, At
<1>3. CASE d.pc # "commit"
  <2>1. d.rows = {} /\ Parent(p) \in d.docs
    BY <1>1, <1>3 DEF Placed
  <2>2. d.pc \in Found /\ Parent(p) = Head(d.items).name
    BY <1>1, <1>3, <2>1 DEF Origins
  <2>3. Parent(p) \notin documents
    BY <1>1, <2>1 DEF Parents
  <2> SUFFICES ASSUME Waits(q) PROVE FALSE
    OBVIOUS
  <2>4. AwaitsVersion(q)
    BY <1>1, <2>2 DEF Waits, AwaitsRow, AwaitsParent, AwaitsChunk, At, Found, Storing
  <2>5. PICK o \in Sessions \ {q} : Ingests(o) /\ \E w \in call[o].rows : SameKey(Version(q), w)
    BY <2>4 DEF AwaitsVersion, OthersVersions, Rivals
  <2>6. PICK w \in call[o].rows : w.name = Parent(p)
    BY <2>2, <2>5 DEF SameKey, Version, This
  <2>7. Parents(call[o], documents) /\ Apart(d, call[o])
    BY <1>1, <2>5, Known DEF KnowledgeInv, IngestionInv
  <2>8. w.name \in documents \cup call[o].docs
    BY <2>7 DEF Parents
  <2> QED
    BY <2>1, <2>3, <2>6, <2>7, <2>8 DEF Apart
<1> QED
  BY <1>2, <1>3

\* Two syncs whose transactions are apart, at places where both may wait.
Side(c, d) ==
  /\ c \in IngestionCall /\ d \in IngestionCall /\ c.op = "sync" /\ d.op = "sync"
  /\ {c.pc, d.pc} \subseteq {"insert source", "insert document", "insert version"}
  /\ Sound(c, documents, versions) /\ Sound(d, documents, versions)
  /\ Stored(documents, versions) /\ Apart(c, d)

LEMMA SideKnows ==
  ASSUME NEW c, NEW d, Side(c, d)
  PROVE  /\ Placed(c) /\ Placed(d) /\ Covers(c, versions) /\ Continues(d, versions)
         /\ Parents(c, documents) /\ Parents(d, documents) /\ Origins(d)
         /\ c.op = "sync" /\ d.op = "sync"
         /\ {c.pc, d.pc} \subseteq {"insert source", "insert document", "insert version"}
         /\ Apart(c, d) /\ Stored(documents, versions)
<1>1. /\ Sound(c, documents, versions) /\ Sound(d, documents, versions)
      /\ c.op = "sync" /\ d.op = "sync"
      /\ {c.pc, d.pc} \subseteq {"insert source", "insert document", "insert version"}
      /\ Apart(c, d) /\ Stored(documents, versions)
  BY DEF Side
<1> QED
  BY <1>1 DEF Sound

LEMMA SidePlaces ==
  ASSUME NEW c, NEW d, Side(c, d)
  PROVE  /\ Done(c) \in Nat /\ Done(d) \in Nat
         /\ Head(c.items) = Feed[Done(c) + 1] /\ Head(d.items) = Feed[Done(d) + 1]
         /\ c.pc # "failing"
<1>1. c.pc \in Working /\ d.pc \in Working /\ c.pc # "failing"
  BY DEF Side, Working, Found, Storing
<1>2. Placed(c) /\ Placed(d)
  BY SideKnows
<1> QED
  BY <1>1, <1>2, SyncPlace DEF Side

\* A sync that is waited for by a sync, and waits itself, is further on.
LEMMA ParentIsAhead ==
  ASSUME NEW c, NEW d, Side(c, d), NEW n \in d.docs,
         \/ c.pc = "insert source" /\ n = Source
         \/ c.pc = "insert document" /\ n = Head(c.items).name
  PROVE  Rank(c) < Rank(d)
<1> DEFINE i == Done(c)
           j == Done(d)
<1>1. /\ Covers(c, versions) /\ Parents(c, documents) /\ c.op = "sync"
      /\ Parents(d, documents) /\ Origins(d) /\ d.op = "sync"
      /\ d.pc \in {"insert source", "insert document", "insert version"}
      /\ Apart(c, d) /\ Stored(documents, versions)
  BY SideKnows
<1>2. /\ i \in Nat /\ j \in Nat /\ c.pc # "failing"
      /\ Head(c.items) = Feed[i + 1] /\ Head(d.items) = Feed[j + 1]
  BY SidePlaces
<1>3. n \notin documents \cup c.docs
  BY <1>1 DEF Apart, Parents
<1>4. \A k \in 1 .. i : Feed[k].name # n /\ Source # n
  <2> TAKE k \in 1 .. i
  <2>1. {Feed[k].name, Source} \subseteq documents \cup c.docs
    BY <1>1, <1>2, Passed
  <2> QED
    BY <1>3, <2>1
<1> HIDE DEF i, j
<1>5. i < j \/ (i = j /\ Stage(c) < Stage(d))
  <2>1. CASE c.pc = "insert source" /\ n = Source
    <3>1. j + 1 \notin 1 .. i
      BY <1>4, <2>1
    <3>2. d.pc \in {"insert document", "insert version"}
      BY <1>1, <2>1 DEF Parents
    <3>3. Stage(c) < Stage(d)
      BY <2>1, <3>2, StageOrders
    <3> QED
      BY <1>2, <3>1, <3>3, NotPassedYet, Zenon
  <2>2. CASE c.pc = "insert document" /\ n = Head(c.items).name
    <3>1. n # Source
      BY <1>1, <1>3, <2>2 DEF Parents
    <3>2. (\E k \in 1 .. j : Feed[k].name = n) \/ (d.pc = "insert version" /\ n = Feed[j + 1].name)
      BY <1>1, <1>2, <3>1 DEF Origins, Found, Storing, j
    <3>3. CASE \E k \in 1 .. j : Feed[k].name = n
      BY <1>2, <1>4, <3>3, NotPassed
    <3>4. CASE d.pc = "insert version" /\ n = Feed[j + 1].name
      <4>1. j + 1 \notin 1 .. i
        BY <1>4, <3>4
      <4>2. Stage(c) < Stage(d)
        BY <2>2, <3>4, StageOrders
      <4> QED
        BY <1>2, <4>1, <4>2, NotPassedYet, Zenon
    <3> QED
      BY <3>2, <3>3, <3>4
  <2> QED
    BY <2>1, <2>2
<1> QED
  BY <1>2, <1>5, RankOrders, StageIsSmall DEF Rank, i, j

LEMMA VersionIsAhead ==
  ASSUME NEW c, NEW d, Side(c, d), NEW w \in d.rows
  PROVE  c.pc = "insert version" /\ w.name = Head(c.items).name => Rank(c) < Rank(d)
<1> DEFINE i == Done(c)
           j == Done(d)
<1>1. /\ Covers(c, versions) /\ Parents(c, documents) /\ c.op = "sync"
      /\ Continues(d, versions) /\ Origins(d) /\ d.op = "sync"
      /\ Apart(c, d) /\ Stored(documents, versions)
  BY SideKnows
<1>2. i \in Nat /\ j \in Nat /\ c.pc # "failing"
  BY SidePlaces
<1>3. PICK k \in 1 .. j : Feed[k].name = w.name /\ Feed[k].content = w.content
  BY <1>1 DEF Origins
<1>4. k \notin 1 .. i
  <2> SUFFICES ASSUME k \in 1 .. i PROVE FALSE
    OBVIOUS
  <2>1. \E v \in versions \cup c.rows : v.name = Feed[k].name /\ v.content = Feed[k].content
    BY <1>1, <1>2, Passed
  <2>2. PICK v \in versions \cup c.rows : v.name = w.name /\ v.content = w.content
    BY <1>3, <2>1
  <2>3. v \notin c.rows
    BY <1>1, <2>2 DEF Apart
  <2>4. v = w
    BY <1>1, <2>2, <2>3 DEF Continues, Unique, SameKey
  <2> QED
    BY <1>1, <2>2, <2>3, <2>4 DEF Continues
<1> HIDE DEF i, j
<1>5. i < j
  BY <1>2, <1>3, <1>4, NotPassed
<1> QED
  BY <1>2, <1>5, RankOrders, StageIsSmall DEF Rank, i, j

AllWait == \A p \in Active : Waits(p)

\* The places at which an upload or a sync waits for a key.
LEMMA WaitingPlaces ==
  ASSUME NEW p, Ingests(p), Waits(p), ~AwaitsRow(p)
  PROVE  /\ call[p].pc \in {"insert source", "insert document", "insert version"}
         /\ AwaitsParent(p) \/ AwaitsVersion(p)
BY DEF Waits, AwaitsParent, AwaitsVersion, AwaitsChunk, At, Ingests

LEMMA IngestingIsActive ==
  ASSUME NEW p \in Sessions, AllWait, call[p].op \in {"upload", "sync", "chunk"}
  PROVE  Waits(p)
<1>1. call[p] # NoCall
  BY DEF NoCall
<1> QED
  BY <1>1 DEF AllWait, Active

LEMMA IngestingWaits ==
  ASSUME AllWait, NEW p \in Sessions, Ingests(p)
  PROVE  Waits(p)
<1>1. call[p].op \in {"upload", "sync", "chunk"}
  BY DEF Ingests
<1> QED
  BY <1>1, IngestingIsActive

\* If all calls wait, behind every upload or sync that waits for a key there is
\* a sync: one that wants the row, or one that waits for a key further on.
LEMMA BehindIngestion ==
  ASSUME KnowledgeInv, AllWait, NEW p \in Sessions, Ingests(p), ~AwaitsRow(p),
         \A q \in Sessions : ~(AwaitsRow(q) /\ HoldsKeys(q))
  PROVE  \E q \in Sessions : /\ call[q].op = "sync" /\ ~AwaitsRow(q)
                             /\ call[p].op = "sync" => Rank(call[p]) < Rank(call[q])
<1>1. /\ call[p].pc \in {"insert source", "insert document", "insert version"}
      /\ AwaitsParent(p) \/ AwaitsVersion(p)
  BY IngestingWaits, WaitingPlaces
<1>2. ASSUME NEW q \in Sessions \ {p}, Ingests(q),
             \/ /\ call[p].pc \in {"insert source", "insert document"}
                /\ Parent(p) \in call[q].docs
             \/ call[q].rows # {}
      PROVE  /\ Meets(p, q) /\ call[q].op = "sync" /\ ~AwaitsRow(q)
             /\ call[p].op = "sync" => Side(call[p], call[q])
  <2>1. Apart(call[p], call[q]) /\ p # q
    BY <1>2 DEF KnowledgeInv, IngestionInv
  <2>2. Meets(p, q)
    BY <1>2, <2>1 DEF Meets
  <2>3. ~AwaitsRow(q)
    BY <1>2 DEF HoldsKeys
  <2>4. Waits(q) /\ call[q].pc \in {"insert source", "insert document", "insert version"}
    BY <1>2, <2>3, IngestingWaits, WaitingPlaces
  <2>5. call[q].op # "upload"
    BY <1>2, <2>2, <2>4, UploadsDoNotWait
  <2>6. call[q].op = "sync"
    BY <1>2, <2>5 DEF Ingests
  <2>7. /\ call[p] \in IngestionCall /\ call[q] \in IngestionCall
        /\ Sound(call[p], documents, versions) /\ Sound(call[q], documents, versions)
        /\ Stored(documents, versions)
    BY <1>2, Known DEF KnowledgeInv, IngestionInv
  <2> QED
    BY <1>1, <2>1, <2>2, <2>3, <2>4, <2>6, <2>7 DEF Side
<1>3. CASE AwaitsParent(p)
  <2>1. PICK q \in Sessions \ {p} : Ingests(q) /\ Parent(p) \in call[q].docs
    BY <1>3 DEF AwaitsParent, OthersDocuments
  <2>2. call[p].pc \in {"insert source", "insert document"}
    BY <1>3 DEF AwaitsParent
  <2>3. call[q].op = "sync" /\ ~AwaitsRow(q) /\ (call[p].op = "sync" => Side(call[p], call[q]))
    BY <1>2, <2>1, <2>2
  <2>4. \/ call[p].pc = "insert source" /\ Parent(p) = Source
        \/ call[p].pc = "insert document" /\ Parent(p) = Head(call[p].items).name
    BY <2>2 DEF Parent, This
  <2>5. call[p].op = "sync" => Rank(call[p]) < Rank(call[q])
    BY <2>1, <2>3, <2>4, ParentIsAhead
  <2> QED
    BY <2>3, <2>5
<1>4. CASE AwaitsVersion(p)
  <2>1. PICK q \in Sessions \ {p} : Ingests(q) /\ \E w \in call[q].rows : SameKey(Version(p), w)
    BY <1>4 DEF AwaitsVersion, OthersVersions, Rivals
  <2>2. PICK w \in call[q].rows : w.name = Head(call[p].items).name
    BY <2>1 DEF SameKey, Version, This
  <2>3. call[q].op = "sync" /\ ~AwaitsRow(q) /\ (call[p].op = "sync" => Side(call[p], call[q]))
    BY <1>2, <2>1
  <2>4. call[p].pc = "insert version"
    BY <1>4 DEF AwaitsVersion
  <2>5. call[p].op = "sync" => Rank(call[p]) < Rank(call[q])
    BY <2>2, <2>3, <2>4, VersionIsAhead
  <2> QED
    BY <2>3, <2>5
<1> QED
  BY <1>1, <1>3, <1>4

\* If all calls wait, behind a chunking call there is one that is further on.
LEMMA BehindChunking ==
  ASSUME KnowledgeInv, AllWait, NEW p \in Sessions, call[p].op = "chunk"
  PROVE  \E q \in Sessions : call[q].op = "chunk" /\ call[p].next < call[q].next
<1>1. ASSUME NEW q \in Sessions, call[q].op = "chunk"
      PROVE  /\ AwaitsChunk(q) /\ call[q] \in ChunkCall
             /\ call[q].chunks = UpTo(call[q].version, call[q].config, call[q].next - 1)
  <2>1. AwaitsChunk(q)
    BY <1>1, IngestingIsActive DEF Waits, AwaitsRow, AwaitsParent, AwaitsVersion, Ingests
  <2>2. call[q] \in ChunkCall /\ Chunked(call[q]) /\ call[q].pc = "insert"
    BY <1>1, <2>1, IndexIsTyped DEF KnowledgeInv, IndexInv, AwaitsChunk, At
  <2> QED
    BY <2>1, <2>2 DEF Chunked
<1>2. PICK q \in Sessions : call[q].op = "chunk" /\ NextChunk(p) \in call[q].chunks
  BY <1>1 DEF AwaitsChunk, OthersChunks
<1>3. PICK i \in 1 .. call[q].next - 1 : NextChunk(p) = Chunk(call[q].version, call[q].config, i)
  BY <1>1, <1>2 DEF UpTo
<1>4. call[p].next = i
  BY <1>3 DEF NextChunk, Chunk
<1>5. call[q].next \in Nat
  <2>1. call[q].next \in 1 .. Ordinals + 1
    BY <1>1, <1>2 DEF ChunkCall
  <2> QED
    BY <2>1, IndexAssumption
<1>6. i < call[q].next
  BY <1>3, <1>5
<1> QED
  BY <1>2, <1>4, <1>6

LEMMA NoneAboveGreatest ==
  ASSUME NEW m, NEW n, m \in Nat, n \in Nat, m < n, n <= m
  PROVE  FALSE
OBVIOUS

\* The session that holds the row waits for nothing but a key.
LEMMA HolderWaits ==
  ASSUME AllWait, NEW p, AwaitsRow(p)
  PROVE  \E q \in RowHolders : q \in Active /\ Ingests(q) /\ Waits(q) /\ ~AwaitsRow(q)
<1>1. PICK q \in RowHolders : Ingests(q) /\ q \in Sessions /\ call[q].row
  BY DEF AwaitsRow, RowHolders
<1>2. Waits(q) /\ ~AwaitsRow(q)
  BY <1>1, IngestingWaits DEF AwaitsRow
<1>3. call[q] # NoCall
  BY <1>1 DEF NoCall, Ingests
<1> QED
  BY <1>1, <1>2, <1>3 DEF Active

LEMMA OnlyTheRow ==
  ASSUME KnowledgeInv
  PROVE  OnlySyncsDeadlock
<1> SUFFICES ASSUME AllWait, NEW p \in Active,
                    \A q \in Sessions : ~(AwaitsRow(q) /\ HoldsKeys(q))
             PROVE  FALSE
  <2>1. ASSUME AllWait, NEW q \in Sessions, AwaitsRow(q), HoldsKeys(q)
        PROVE  OnlySyncsDeadlock
    <3>1. call[q] # NoCall
      BY <2>1 DEF NoCall, AwaitsRow
    <3> QED
      BY <2>1, <3>1, HolderWaits DEF OnlySyncsDeadlock, Active
  <2> QED
    BY <2>1 DEF OnlySyncsDeadlock, AllWait
<1> DEFINE Chunkings == {q \in Sessions : call[q].op = "chunk"}
           Syncs == {q \in Sessions : call[q].op = "sync" /\ ~AwaitsRow(q)}
<1>1. p \in Sessions /\ Waits(p)
  BY DEF AllWait, Active
<1>2. CASE Chunkings # {}
  <2> DEFINE S == {call[q].next : q \in Chunkings}
  <2>1. S \subseteq 1 .. Ordinals + 1
    BY IndexIsTyped DEF KnowledgeInv, ChunkCall
  <2>2. S \subseteq Nat /\ S # {} /\ Ordinals + 1 \in Nat /\ \A s \in S : s <= Ordinals + 1
    BY <1>2, <2>1, IndexAssumption
  <2>3. PICK m \in S : \A s \in S : s <= m
    BY <2>2, Greatest
  <2>4. PICK q \in Chunkings : m = call[q].next
    OBVIOUS
  <2>5. PICK r \in Sessions : call[r].op = "chunk" /\ call[q].next < call[r].next
    BY <2>4, BehindChunking
  <2>6. call[r].next \in S
    BY <2>5
  <2>7. m \in Nat /\ call[r].next \in Nat /\ call[r].next <= m
    BY <2>2, <2>3, <2>6
  <2>8. m < call[r].next
    BY <2>4, <2>5, Zenon
  <2> QED
    BY <2>7, <2>8, NoneAboveGreatest, Zenon
<1>3. CASE Syncs # {}
  <2> DEFINE S == {Rank(call[q]) : q \in Syncs}
             B == 4 * Len(Feed) + 2
  <2>1. Len(Feed) \in Nat
    BY FeedAssumption
  <2>2. ASSUME NEW q \in Syncs PROVE Rank(call[q]) \in Nat /\ Rank(call[q]) <= B
    <3>1. Ingests(q) /\ call[q].op = "sync"
      BY DEF Ingests
    <3>2. call[q].pc \in Working
      BY <3>1, IngestingIsActive, WaitingPlaces DEF Working, Found, Storing
    <3>3. call[q] \in IngestionCall /\ Placed(call[q])
      BY <3>1, Known DEF KnowledgeInv
    <3>4. Done(call[q]) \in Nat /\ Done(call[q]) <= Len(Feed)
      BY <3>1, <3>2, <3>3, SyncPlace
    <3> QED
      BY <2>1, <3>4, StageIsSmall, RankIsBounded DEF Rank
  <2>3. S \subseteq Nat /\ S # {} /\ B \in Nat /\ \A s \in S : s <= B
    BY <1>3, <2>1, <2>2
  <2>4. PICK m \in S : \A s \in S : s <= m
    BY <2>3, Greatest
  <2>5. PICK q \in Syncs : m = Rank(call[q])
    OBVIOUS
  <2>6. PICK r \in Sessions : /\ call[r].op = "sync" /\ ~AwaitsRow(r)
                             /\ Rank(call[q]) < Rank(call[r])
    BY <2>5, BehindIngestion DEF Ingests
  <2>7. Rank(call[r]) \in S
    BY <2>6
  <2>8. m < Rank(call[r])
    BY <2>5, <2>6, Zenon
  <2> HIDE DEF S
  <2>9. m \in Nat /\ Rank(call[r]) \in Nat /\ Rank(call[r]) <= m
    BY <2>3, <2>4, <2>7
  <2> QED
    BY <2>8, <2>9, NoneAboveGreatest, Zenon
<1>4. Ingests(p) \/ call[p].op = "chunk"
  BY <1>1 DEF Waits, AwaitsRow, AwaitsParent, AwaitsVersion, AwaitsChunk, At, Ingests
<1>5. ASSUME Ingests(p) PROVE Syncs # {}
  <2>1. CASE AwaitsRow(p)
    <3>1. PICK q \in Sessions : Ingests(q) /\ ~AwaitsRow(q)
      BY <2>1, HolderWaits DEF RowHolders
    <3> QED
      BY <3>1, BehindIngestion
  <2>2. CASE ~AwaitsRow(p)
    BY <1>1, <1>5, <2>2, BehindIngestion
  <2> QED
    BY <2>1, <2>2
<1> QED
  BY <1>1, <1>2, <1>3, <1>4, <1>5

\* The unique keys make inserts wait inside transactions that insert many rows,
\* and syncs wait for the row of the state: all calls wait only where a sync
\* that holds keys wants the row, and the sync that holds the row waits too.
THEOREM DeadlocksNeedTheRow == Spec => []OnlySyncsDeadlock
BY OnlyTheRow, KnowledgeAlways, PTL

================================================================================
