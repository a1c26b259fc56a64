-------------------------------- MODULE Pipeline --------------------------------
(***************************************************************************)
(* One document's way from the upload to the search: the file is checked   *)
(* and stored (documentService), parsed and chunked (postUploadParse), its *)
(* texts are deduplicated, embedded in batches and put into the vector     *)
(* store (ingestVectors), where a search finds them (retrievalService).    *)
(* Ingestion has the job around it: queue, claim, retries, cancel, crash.  *)
(***************************************************************************)
EXTENDS Parsing, Retrieval, Health

CONSTANTS
    Files,          \* files that may be uploaded
    Configurations, \* settings a process may be given
    Environments,   \* values of APP_ENV
    Presences,      \* sets of secrets that may be present
    UpsertSize,     \* vectors of one call of the vector store: 100 in the code
    Leftover,       \* vectors of an earlier run of the document that did not end
    Others,         \* hits of the organization's other documents
    Requests,       \* searches: [scoped, docs, asked]
    Scores,         \* similarities and boosts a search may give a text
    Faults          \* "embedding", "store": what can fail

Document == 1
SettingsRead == {
    "retrieval_default_top_k", "retrieval_max_top_k", "retrieval_minimum_similarity",
    "hybrid_retrieval_enabled", "hybrid_candidate_pool_size", "rrf_k",
    "embedding_batch_size", "embedding_max_retries",
    "chunk_size", "chunk_overlap", "semantic_chunk_max_tokens", "child_chunk_size", "child_chunk_overlap"}

\* No paragraph of a file is empty, and none of its parts (the parsers leave those out).
ASSUME FilesAssumption ==
    \A file \in Files : file.pages \in Seq(Seq([marks : SUBSET STRING, parts : ChunkSet \ {<<>>}]))
\* The settings that are read are given; the models are named, and an atom fits in a child.
ASSUME ConfigurationsAssumption ==
    \A s \in Configurations :
        /\ SettingsRead \subseteq DOMAIN s
        /\ s.generation_model # ""
        /\ s.child_chunk_size >= AtomChars
ASSUME UpsertAssumption == UpsertSize \in Nat \ {0}
ASSUME LeftoverAssumption == Leftover \in Seq(TextSet)
ASSUME OthersAssumption ==
    /\ IsFiniteSet(Others)
    /\ Others \subseteq [doc : Nat \ {Document}, index : Nat, words : SUBSET Int, sim : Int, boost : Int, bm25 : Int]
    /\ \A h, g \in Others : h.doc = g.doc /\ h.index = g.index => h = g
ASSUME RequestsAssumption == Requests \subseteq [scoped : BOOLEAN, docs : SUBSET Nat, asked : Nat]
ASSUME ScoresAssumption == Scores.sims \subseteq Int /\ Scores.boost \in Int
ASSUME FaultsAssumption == Faults \subseteq {"embedding", "store"}

VARIABLES
    settings, env, present,     \* what the process was started with: never change
    file,       \* the file: never changes
    pc,         \* where the document is
    reason,     \* why it was rejected or failed
    parents,    \* its parent chunks
    children,   \* for each parent, its children
    texts,      \* the texts of its parents, each once: texts[i] is embedded as chunk i - 1
    childRows,  \* its child rows: [parent, text], parent a position in texts
    vectors,    \* the vectors there are, each as the text it stands for
    attempt,    \* failed attempts at the next batch
    upserted,   \* how many of the vectors this run has put into the store
    index,      \* the document's vectors in the vector store, by chunk
    swallowed,  \* whether the purge before them failed, which nobody is told
    search      \* the search: what was asked, ready, fetched and answered

started == <<settings, env, present, file>>
vars == <<started, pc, reason, parents, children, texts, childRows, vectors, attempt, upserted, index, swallowed, search>>

NoSearch == [status |-> "none"]

Init ==
    /\ settings \in Configurations
    /\ env \in Environments
    /\ present \in Presences
    /\ Starts(settings, env, present)
    /\ file \in Files
    /\ pc = "received"
    /\ reason = "none"
    /\ parents = <<>>
    /\ children = <<>>
    /\ texts = <<>>
    /\ childRows = {}
    /\ vectors = <<>>
    /\ attempt = 0
    /\ upserted = 0
    /\ swallowed = FALSE
    /\ index = IF ParserFails(file) \/ ParseToCanonical(file) = <<>> THEN <<>> ELSE Leftover
    /\ search = NoSearch

\* The document fails, and what its transaction had written is rolled back.
Fail(why) == pc' = "failed" /\ reason' = why /\ childRows' = {}

(***************************************************************************)
(* Upload.                                                                 *)
(***************************************************************************)
\* What the request is refused for; the provider is built before the file is looked at.
Refusal ==
    IF ProviderRaises(settings, present) THEN "provider"
    ELSE IF ~Valid(file) THEN "file"
    ELSE IF ~CloudinaryConfigured(present) THEN "storage"
    ELSE "none"

Upload ==
    /\ pc = "received"
    /\ reason' = Refusal
    /\ pc' = IF Refusal = "none" THEN "stored" ELSE "rejected"
    /\ UNCHANGED <<started, parents, children, texts, childRows, vectors, attempt, upserted, index, swallowed, search>>

(***************************************************************************)
(* run_parse_and_preview: whatever raises, the outcome says "failed".      *)
(***************************************************************************)
RunChunker == Parents(settings, ParseToCanonical(file))
RunBuilder(chunks) == BuildRelations(settings, chunks)

ParseAndPreview ==
    /\ pc = "stored"
    /\ IF ParserFails(file)
       THEN /\ Fail(IF ParserKey(file.mime) = "none" THEN "type" ELSE "unreadable")
            /\ UNCHANGED <<parents, children>>
       ELSE /\ pc' = "parsed"
            /\ parents' = RunChunker
            /\ children' = RunBuilder(parents')
            /\ UNCHANGED <<reason, childRows>>
    /\ UNCHANGED <<started, texts, vectors, attempt, upserted, index, swallowed, search>>

(***************************************************************************)
(* run_embedding_ingest.                                                   *)
(***************************************************************************)
\* Parents of the same text have the same hash, and the first is kept.
KeepUnlessSeen(seen, text) == IF text \in ToSet(seen) THEN seen ELSE Append(seen, text)
UniqueTexts(chunks) == FoldLeft(KeepUnlessSeen, <<>>, Texts(chunks))

\* Children of the same text have the same hash; a child of a parent that was left
\* out becomes one of the parent of the same text.
UniqueChildren(chunks, kept) ==
    LET KeeperOf(i) == CHOOSE k \in DOMAIN kept : kept[k] = Text(chunks[i])
        all == FlattenSeq([i \in DOMAIN chunks |-> [n \in DOMAIN children[i] |->
                    [parent |-> KeeperOf(i), text |-> Text(children[i][n])]]])
    IN  {all[n] : n \in {m \in DOMAIN all : \A l \in 1 .. m - 1 : all[l].text # all[m].text}}

\* The rows of an earlier run are deleted first, a parent's with its children's.
PersistToPostgres(kept) == childRows' = UniqueChildren(parents, kept)

EmbedStart ==
    /\ pc = "parsed"
    /\ IF ~PineconeConfigured(present) THEN Fail("pinecone") /\ UNCHANGED texts
       ELSE /\ texts' = UniqueTexts(parents)
            /\ IF texts' = <<>> THEN pc' = "embedded" /\ UNCHANGED childRows
               ELSE pc' = "embedding" /\ PersistToPostgres(texts')
            /\ UNCHANGED reason
    /\ UNCHANGED <<started, parents, children, vectors, attempt, upserted, index, swallowed, search>>

\* embed_texts_batched, and after the last batch _upsert_to_pinecone.
NextBatch ==
    LET first == Len(vectors) + 1
        last == SmallerOf(Len(texts), Len(vectors) + settings.embedding_batch_size)
    IN  SubSeq(texts, first, last)

\* _purge_document_vectors passes over whatever is raised in it.
PurgeDocumentVectors ==
    \E left \in IF "store" \in Faults THEN {<<>>, index} ELSE {<<>>} :
       index' = left /\ swallowed' = (left # <<>>)

UpsertToPinecone == pc' = "indexing" /\ PurgeDocumentVectors

\* mutation: what an earlier run left is not purged
EmbedBatchUnpurged ==
    /\ pc = "embedding"
    /\ vectors' = vectors \o NextBatch
    /\ attempt' = 0
    /\ pc' = IF Len(vectors') = Len(texts) THEN "indexing" ELSE pc
    /\ UNCHANGED <<started, reason, parents, children, texts, childRows, upserted, index, swallowed, search>>

EmbedBatch ==
    /\ pc = "embedding"
    /\ vectors' = vectors \o NextBatch
    /\ attempt' = 0
    /\ IF Len(vectors') = Len(texts)
       THEN UpsertToPinecone
       ELSE UNCHANGED <<pc, index, swallowed>>
    /\ UNCHANGED <<started, reason, parents, children, texts, childRows, upserted, search>>

\* An attempt fails or takes too long; after the last one the document fails.  The purge
\* after a rollback always raises, as the rollback has expired the row it reads, and
\* nobody is told: what an earlier run left stays.
AttemptFails ==
    /\ "embedding" \in Faults
    /\ pc = "embedding"
    /\ attempt' = attempt + 1
    /\ IF attempt' < settings.embedding_max_retries
       THEN UNCHANGED <<pc, reason, childRows>>
       ELSE Fail("embedding")
    /\ UNCHANGED <<started, parents, children, texts, vectors, upserted, index, swallowed, search>>

\* A vector replaces the one that its chunk has; what lies beyond stays.
Upsert(n) == index' = SubSeq(vectors, 1, n) \o SubSeq(index, n + 1, Len(index)) /\ upserted' = n

EndOfBatch == SmallerOf(Len(texts), upserted + UpsertSize)

UpsertBatch ==
    /\ pc = "indexing"
    /\ Upsert(EndOfBatch)
    /\ pc' = IF EndOfBatch = Len(texts) THEN "embedded" ELSE pc
    /\ UNCHANGED <<started, reason, parents, children, texts, childRows, vectors, attempt, swallowed, search>>

\* The call raises, whether the store has taken the batch or not; the purge after the
\* rollback raises too, so the batches before it stay.
UpsertFails ==
    /\ "store" \in Faults
    /\ pc = "indexing"
    /\ Fail("store")
    /\ \E n \in {upserted, EndOfBatch} : Upsert(n)
    /\ UNCHANGED <<started, parents, children, texts, vectors, attempt, swallowed, search>>

(***************************************************************************)
(* Search, at any moment.                                                  *)
(***************************************************************************)
WordsOf(text) == {atom \in ToSet(text) : atom > 0}

\* The hits there are for a query: the boosts come with the query's words.
Hits(sims, boosted) ==
    LET own == [i \in DOMAIN index |-> [doc |-> Document, index |-> i - 1, words |-> WordsOf(index[i])]]
    IN  {[doc |-> h.doc, index |-> h.index, words |-> h.words, sim |-> sims[h.index + 1],
          boost |-> IF h.index \in boosted THEN Scores.boost ELSE 0,
          bm25 |-> IF h.index \in boosted THEN 1 ELSE 0] : h \in ToSet(own)} \cup Others

IsReady == IF pc = "embedded" THEN {Document} ELSE {}

SearchDocuments(request, hits, ready) ==
    LET fetched == Fetched(settings, hits, request)
        candidates == Candidates(settings, fetched, ready)
        status == IF ~PineconeConfigured(present) THEN "not_ready"
                  ELSE IF RankingFails(settings, candidates) THEN "error" ELSE "found"
    IN  [status |-> status, request |-> request, ready |-> ready, fetched |-> fetched,
         rows |-> IF status = "found" THEN Search(settings, candidates, request.asked) ELSE <<>>]

SearchStep ==
    /\ search = NoSearch
    /\ pc \in {"stored", "indexing", "embedded", "failed"}
    /\ \E request \in Requests, sims \in [1 .. Len(index) -> Scores.sims], boosted \in SUBSET {0, 1} :
       \E others \in {{}, {h.doc : h \in Others}} :
          search' = SearchDocuments(request, Hits(sims, boosted), IsReady \cup others)
    /\ UNCHANGED <<started, pc, reason, parents, children, texts, childRows, vectors, attempt, upserted, index, swallowed>>

SearchFails ==
    /\ "store" \in Faults
    /\ search = NoSearch
    /\ pc \in {"stored", "indexing", "embedded", "failed"}
    /\ search' = [status |-> "unavailable"]
    /\ UNCHANGED <<started, pc, reason, parents, children, texts, childRows, vectors, attempt, upserted, index, swallowed>>

Next ==
    \/ Upload \/ ParseAndPreview \/ EmbedStart \/ EmbedBatch \/ AttemptFails
    \/ UpsertBatch \/ UpsertFails \/ SearchStep \/ SearchFails

Spec == Init /\ [][Next]_vars

(***************************************************************************)
(* Properties.                                                             *)
(***************************************************************************)
\* Chunking loses nothing and disorders nothing: the parents are windows of the
\* document's text in its order that reach its end, each with text of its own, and
\* the same holds of the children of each parent; every text of the document is
\* among those that are embedded, and every child's is a row whose parent has it.
TextIsKept ==
    LET document == Content(ParseToCanonical(file))
    IN  /\ pc = "parsed" =>
              /\ Covers(Texts(parents), Text(document))
              /\ \A i \in DOMAIN parents : Covers(Texts(children[i]), Text(parents[i]))
        /\ pc \in {"embedding", "indexing", "embedded"} =>
              /\ ToSet(texts) = ToSet(Texts(parents))
              /\ {row.text : row \in childRows} = UNION {ToSet(Texts(children[i])) : i \in DOMAIN children}
              /\ Cardinality({row.text : row \in childRows}) = Cardinality(childRows)
              /\ \A row \in childRows : \E from \in 0 .. Len(texts[row.parent]) :
                    SubSeq(texts[row.parent], from + 1, from + Len(row.text)) = row.text

\* The first n chunks of the document in the store are its texts', the others were there before.
HoldsFirst(n) ==
    /\ n <= Len(index)
    /\ \A i \in DOMAIN index :
          IF i <= n THEN index[i] = texts[i] ELSE i \in DOMAIN Leftover /\ index[i] = Leftover[i]

\* However its batches are cut, retried and lost, a document's vectors are never mixed up:
\* each that this run has upserted stands at the chunk of its own text.  An embedded document
\* has all of its texts and nothing else, unless the purge of an earlier run's vectors failed,
\* which nobody is told.  (When embedding fails the purge always does, so a failed document
\* keeps what was upserted and what was there before.)
VectorsMatchTexts ==
    /\ HoldsFirst(upserted)
    /\ pc = "embedded" => upserted = Len(texts)
    /\ pc \in {"indexing", "embedded"} /\ texts # <<>> =>
          vectors = texts /\ (swallowed \/ Len(index) = upserted)

\* A search answers with chunks of ready documents in the scope, near enough, no two
\* of them near duplicates, and at most as many as asked for; a chunk that the vector
\* store returned and that is left out is a near duplicate of a better one that is
\* answered, or all that are answered are better.
SearchIsSound ==
    search.status = "found" =>
        LET rows == search.rows
            scope == search.request
            candidates == {h \in ToSet(search.fetched) : h.doc \in search.ready
                              /\ h.sim >= settings.retrieval_minimum_similarity * 1000}
            ranked == ToSet(Ranked(settings, Candidates(settings, search.fetched, search.ready)))
            answered == ToSet(rows)
        IN  /\ \A row \in answered : row.hit \in candidates /\ (scope.scoped => row.hit.doc \in scope.docs)
            /\ \A i, j \in DOMAIN rows :
                  i < j => /\ Before(rows[i], rows[j])
                           /\ ~NearDuplicate(rows[i].hit.words, rows[j].hit.words)
            /\ Len(rows) <= EffectiveTopK(settings, scope.asked)
            /\ \A row \in ranked \ answered :
                  \/ \E r \in answered : Before(r, row) /\ NearDuplicate(r.hit.words, row.hit.words)
                  \/ Len(rows) = EffectiveTopK(settings, scope.asked) /\ \A r \in answered : Before(r, row)

\* A process that started in production or staging is configured for all that follows:
\* no file that the upload accepts fails for its type or for want of a setting, but that
\* nothing asks for Supabase's secrets when original files are kept there.  And in any
\* environment /health tells: what it calls ready is not refused for want of a setting,
\* but that an upload wants Cloudinary even when Supabase keeps the file.
AcceptedIsProcessed ==
    LET health == HealthData(settings, env, present, Services)
    IN  /\ env \in StrictEnvironments =>
              /\ reason \notin {"storage", "type", "pinecone"}
              /\ reason = "provider" => settings.enable_original_file_storage
              /\ search.status # "not_ready"
              /\ health.deployment /\ health.auth /\ health.webhook_signing /\ health.rate_limiting
              /\ health.streaming /\ health.ingestion /\ health.retrieval /\ health.llm # {}
        /\ health.storage => reason # "provider" /\ (reason = "storage" => settings.enable_original_file_storage)
        /\ health.retrieval => reason # "pinecone" /\ search.status # "not_ready"
=============================================================================
