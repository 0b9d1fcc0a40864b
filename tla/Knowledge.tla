----------------------------- MODULE Knowledge -----------------------------
(***************************************************************************)
(* The product memory of one product: the ingestion of documents as        *)
(* chunks, the detection of conflicts between chunks, which an ingestion   *)
(* starts and does not wait for, the deletion of a document, and the       *)
(* retrieval of evidence, which abstains on a flagged chunk.               *)
(***************************************************************************)
EXTENDS FiniteSets

CONSTANTS
  Chunks,       \* (section, content hash) of everything that is ever ingested
  Document,     \* of each chunk: its source_uri
  Similar,      \* pairs of chunks that are near each other
  Ingestions,   \* bound: ingestions at the same time
  Detections,   \* bound: runs of the detector at the same time
  Queries,      \* bound: retrievals at the same time
  ConflictIds,  \* bound: rows of knowledge_conflicts that are ever inserted
  NoPair

\* Conflicts are looked for between documents.
ASSUME KnowledgeAssumption ==
  /\ \A p \in Similar : \E a, b \in Chunks : p = {a, b} /\ Document[a] # Document[b]
  /\ NoPair \notin Similar

VARIABLES
  stored,     \* chunks in memory_chunks
  flagged,    \* those with conflict_flag
  conflict,   \* the rows of knowledge_conflicts
  ingestion,  \* the calls of runPipeline()
  detection,  \* the calls of detectConflicts()
  query       \* the calls of retrieve()

knowledgeVars == <<stored, flagged, conflict, ingestion, detection, query>>

Documents == {Document[k] : k \in Chunks}
ChunksOf(d) == {k \in Chunks : Document[k] = d}

\* Nothing writes resolved or dismissed.
ConflictRow == [status : {"none", "open", "deleted"}, pair : Similar \cup {NoPair}]
OpenConflicts == {c \in ConflictIds : conflict[c].status = "open"}

Ingestion == [pc : {"idle", "embed", "upsert"}, left : SUBSET Chunks,
              inserted : BOOLEAN, detect : BOOLEAN]
NoIngestion == [pc |-> "idle", left |-> {}, inserted |-> FALSE, detect |-> FALSE]

Detection == [pc : {"idle", "select", "classify", "record"}, left : SUBSET Similar,
              pair : Similar \cup {NoPair}]
NoDetection == [pc |-> "idle", left |-> {}, pair |-> NoPair]

\* pack: the candidates with the flag that their query read.  known: the
\* conflicts that were open at the first query.
Query == [pc : {"idle", "text", "done"}, pack : SUBSET [chunk : Chunks, flag : BOOLEAN],
          known : SUBSET ConflictIds, outcome : {"none", "use", "softAbstain", "hardAbstain"}]
NoQuery == [pc |-> "idle", pack |-> {}, known |-> {}, outcome |-> "none"]

-----------------------------------------------------------------------------
(* Ingestion.                                                              *)

\* A version of a document arrives, from the API or as a file of a batch; a
\* GitHub item is ingested without detection.
StartIngestion(i, d) ==
  /\ ingestion[i].pc = "idle"
  /\ \E content \in (SUBSET ChunksOf(d)) \ {{}}, detect \in BOOLEAN :
       ingestion' = [ingestion EXCEPT ![i] =
         [pc |-> "embed", left |-> content, inserted |-> FALSE, detect |-> detect]]
  /\ UNCHANGED <<stored, flagged, conflict, detection, query>>

\* embedBatch() embeds all chunks or throws, before anything is written.
EmbedChunks(i) ==
  /\ ingestion[i].pc = "embed"
  /\ \/ ingestion' = [ingestion EXCEPT ![i] = [@ EXCEPT !.pc = "upsert"]]
     \/ ingestion' = [ingestion EXCEPT ![i] = NoIngestion]
  /\ UNCHANGED <<stored, flagged, conflict, detection, query>>

\* Mutant of UpsertChunk: conflict_flag = EXCLUDED.conflict_flag.
UpsertFreshChunk(i, k) ==
  /\ ingestion[i].pc = "upsert" /\ k \in ingestion[i].left
  /\ stored' = stored \cup {k} /\ flagged' = flagged \ {k}
  /\ ingestion' = [ingestion EXCEPT ![i] =
       [ingestion[i] EXCEPT !.left = @ \ {k}, !.inserted = @ \/ k \notin stored]]
  /\ UNCHANGED <<conflict, detection, query>>

\* The insert, or the update of the row that is there, which keeps its flag.
UpsertChunk(i, k) ==
  /\ ingestion[i].pc = "upsert" /\ k \in ingestion[i].left
  /\ stored' = stored \cup {k}
  /\ ingestion' = [ingestion EXCEPT ![i] =
       [ingestion[i] EXCEPT !.left = @ \ {k}, !.inserted = @ \/ k \notin stored]]
  /\ UNCHANGED <<flagged, conflict, detection, query>>

\* A failed upsert is logged, and the next chunk is taken.
UpsertFails(i, k) ==
  /\ ingestion[i].pc = "upsert" /\ k \in ingestion[i].left
  /\ ingestion' = [ingestion EXCEPT ![i] = [ingestion[i] EXCEPT !.left = @ \ {k}]]
  /\ UNCHANGED <<stored, flagged, conflict, detection, query>>

\* The detection is started, if a chunk is new, and not awaited.
EndIngestion(i) ==
  /\ ingestion[i].pc = "upsert" /\ ingestion[i].left = {}
  /\ ingestion' = [ingestion EXCEPT ![i] = NoIngestion]
  /\ \/ ingestion[i].detect /\ ingestion[i].inserted
        /\ \E j \in Detections :
             /\ detection[j].pc = "idle"
             /\ detection' = [detection EXCEPT ![j] = [NoDetection EXCEPT !.pc = "select"]]
     \/ ~(ingestion[i].detect /\ ingestion[i].inserted) /\ UNCHANGED detection
  /\ UNCHANGED <<stored, flagged, conflict, query>>

-----------------------------------------------------------------------------
(* Conflict detection.                                                     *)

\* Pairs of stored chunks that no open or dismissed row names; of more than
\* MAX_PAIRS_PER_RUN the nearest ones.
SelectPairs(j) ==
  LET recorded == {conflict[c].pair : c \in OpenConflicts}
      candidates == {p \in Similar : p \subseteq stored /\ p \notin recorded}
  IN /\ detection[j].pc = "select"
     /\ \E left \in SUBSET candidates :
          detection' = [detection EXCEPT ![j] = [@ EXCEPT !.pc = "classify", !.left = left]]
     /\ UNCHANGED <<stored, flagged, conflict, ingestion, query>>

\* classifyConflict(), a call of a model: no conflict, or an error that is
\* logged, or a conflict.
ClassifyConflict(j, p) ==
  /\ detection[j].pc = "classify" /\ p \in detection[j].left
  /\ \/ detection' = [detection EXCEPT ![j] = [detection[j] EXCEPT !.left = @ \ {p}]]
     \/ detection' = [detection EXCEPT ![j] =
          [detection[j] EXCEPT !.left = @ \ {p}, !.pc = "record", !.pair = p]]
  /\ UNCHANGED <<stored, flagged, conflict, ingestion, query>>

\* The transaction: the row, and the flags of both chunks.  No index makes a
\* pair unique, and the foreign keys refuse a chunk that is gone.
RecordConflict(j) ==
  LET p == detection[j].pair
  IN /\ detection[j].pc = "record"
     /\ \/ p \subseteq stored
           /\ \E c \in ConflictIds :
                /\ conflict[c].status = "none"
                /\ conflict' = [conflict EXCEPT ![c] = [status |-> "open", pair |-> p]]
           /\ flagged' = flagged \cup p
        \/ UNCHANGED <<conflict, flagged>>      \* rolled back, and logged
     /\ detection' = [detection EXCEPT ![j] = [@ EXCEPT !.pc = "classify", !.pair = NoPair]]
     /\ UNCHANGED <<stored, ingestion, query>>

EndDetection(j) ==
  /\ detection[j].pc = "classify" /\ detection[j].left = {}
  /\ detection' = [detection EXCEPT ![j] = NoDetection]
  /\ UNCHANGED <<stored, flagged, conflict, ingestion, query>>

\* DELETE of a source; the rows that name a chunk of it go by ON DELETE CASCADE.
DeleteSource(d) ==
  /\ ChunksOf(d) \cap stored # {}
  /\ stored' = stored \ ChunksOf(d) /\ flagged' = flagged \ ChunksOf(d)
  /\ conflict' = [c \in ConflictIds |->
       IF c \in OpenConflicts /\ conflict[c].pair \cap ChunksOf(d) # {}
       THEN [status |-> "deleted", pair |-> NoPair] ELSE conflict[c]]
  /\ UNCHANGED <<ingestion, detection, query>>

-----------------------------------------------------------------------------
(* Retrieval.                                                              *)

Read(found) == [chunk : found \cap flagged, flag : {TRUE}]
                 \cup [chunk : found \ flagged, flag : {FALSE}]

\* The vector search; embedding has come before it.
VectorSearch(q) ==
  /\ query[q].pc = "idle"
  /\ \E found \in SUBSET stored :
       query' = [query EXCEPT ![q] =
         [NoQuery EXCEPT !.pc = "text", !.pack = Read(found), !.known = OpenConflicts]]
  /\ UNCHANGED <<stored, flagged, conflict, ingestion, detection>>

\* Mutant of Outcomes: the tier gate comes before the conflicts.
OutcomesByTier(pack) ==
  IF pack = {} THEN {"softAbstain"}
  ELSE IF \E x \in pack : x.flag THEN {"softAbstain", "hardAbstain"}
  ELSE {"use", "softAbstain", "hardAbstain"}

\* evaluateAbstain() and buildEvidencePack(): no results and a missing tier let
\* the agent go on; a conflict, the audience and stale evidence do not.
Outcomes(pack) ==
  IF pack = {} THEN {"softAbstain"}
  ELSE IF \E x \in pack : x.flag THEN {"hardAbstain"}
  ELSE {"use", "softAbstain", "hardAbstain"}

\* The full-text search adds what the vector search has not found; ranking and
\* the version filter leave the pack.
TextSearch(q) ==
  /\ query[q].pc = "text"
  /\ \E found \in SUBSET stored :
       LET first == {x.chunk : x \in query[q].pack}
           all == query[q].pack \cup Read(found \ first)
       IN \E pack \in SUBSET all : \E outcome \in Outcomes(pack) :
            query' = [query EXCEPT ![q] =
              [@ EXCEPT !.pc = "done", !.pack = pack, !.outcome = outcome]]
  /\ UNCHANGED <<stored, flagged, conflict, ingestion, detection>>

\* The agent has used the pack, or the search threw.
EndQuery(q) ==
  /\ query[q].pc # "idle" /\ query' = [query EXCEPT ![q] = NoQuery]
  /\ UNCHANGED <<stored, flagged, conflict, ingestion, detection>>

\* The process ends: nothing takes an ingestion or a detection up again.
MemoryDies ==
  /\ ingestion' = [i \in Ingestions |-> NoIngestion]
  /\ detection' = [j \in Detections |-> NoDetection]
  /\ query' = [q \in Queries |-> NoQuery]
  /\ UNCHANGED <<stored, flagged, conflict>>

-----------------------------------------------------------------------------
KnowledgeInit ==
  /\ stored = {} /\ flagged = {}
  /\ conflict = [c \in ConflictIds |-> [status |-> "none", pair |-> NoPair]]
  /\ ingestion = [i \in Ingestions |-> NoIngestion]
  /\ detection = [j \in Detections |-> NoDetection]
  /\ query = [q \in Queries |-> NoQuery]

KnowledgeNext ==
  \/ \E i \in Ingestions :
       \/ \E d \in Documents : StartIngestion(i, d)
       \/ EmbedChunks(i) \/ EndIngestion(i)
       \/ \E k \in Chunks : UpsertChunk(i, k) \/ UpsertFails(i, k)
  \/ \E j \in Detections :
       \/ SelectPairs(j) \/ RecordConflict(j) \/ EndDetection(j)
       \/ \E p \in Similar : ClassifyConflict(j, p)
  \/ \E d \in Documents : DeleteSource(d)
  \/ \E q \in Queries : VectorSearch(q) \/ TextSearch(q) \/ EndQuery(q)
  \/ MemoryDies

KnowledgeSpec == KnowledgeInit /\ [][KnowledgeNext]_knowledgeVars

-----------------------------------------------------------------------------
(* Properties.                                                             *)

\* The tables, the ingestions, the detections and the queries have their types.
KnowledgeTypeOK ==
  /\ flagged \subseteq stored /\ stored \subseteq Chunks
  /\ conflict \in [ConflictIds -> ConflictRow]
  /\ ingestion \in [Ingestions -> Ingestion]
  /\ detection \in [Detections -> Detection]
  /\ query \in [Queries -> Query]

\* Both chunks of every open conflict are stored and flagged, whatever document
\* is ingested again or deleted while a detection runs.
OpenConflictIsFlagged ==
  \A c \in OpenConflicts : conflict[c].pair \subseteq flagged

\* A pack that holds both sides of a conflict, which was open when the first
\* search began and still is, forces the action to abstain (ADR-018).
ConflictAbstains ==
  \A q \in Queries : query[q].pc = "done" =>
    \A c \in query[q].known \cap OpenConflicts :
      conflict[c].pair \subseteq {x.chunk : x \in query[q].pack} =>
        query[q].outcome = "hardAbstain"
=============================================================================
