------------------------------ MODULE Ingestion ------------------------------
(***************************************************************************)
(* One uploaded document from the upload request to the end of its         *)
(* ingestion: the API request that stores the file, commits the document   *)
(* and its job and enqueues the Celery task; every execution ("run") of    *)
(* that task; the cancel request; and what they share, which is the row of *)
(* the job and its lock, the row of the document, the chunk rows, the      *)
(* vectors in Pinecone, the stored file and the messages in the broker.    *)
(*                                                                         *)
(* No operation of the code touches the rows of two documents, and upload  *)
(* gives every document one job, so one document is the unit modelled.     *)
(*                                                                         *)
(* A run is a coroutine: a step below is what it does between two points   *)
(* at which other processes can act and see a difference.  Statements of   *)
(* an open transaction take effect in the step that commits them.          *)
(***************************************************************************)
EXTENDS Naturals

CONSTANTS
    Runs,               \* executions of the task, one per delivered message: 1, 2, ...
    None,
    MaxRetries,         \* settings.ingestion_max_retries
    CeleryMaxRetries,   \* Task.max_retries, which the task leaves at Celery's value
    MaxBatches,         \* bound: batches of vectors a document can need
    MaxCopies,          \* bound: copies of one message in the broker
    Worlds              \* the surroundings: the faults that can happen, and whether an
                        \* attribute expired by rollback raises when read

\* "pool": a connection that an earlier asyncio.run of the worker process left in the
\* pool is used under a new event loop, which raises unless pool_recycle has passed
FaultKinds == {"crash", "db", "pool", "publish", "redeliver"}

ASSUME RunsAssumption == None \notin Runs /\ Runs \subseteq Nat
ASSUME BoundsAssumption ==
    {MaxRetries, CeleryMaxRetries, MaxBatches, MaxCopies} \subseteq Nat
ASSUME WorldsAssumption ==
    Worlds \subseteq [faults: SUBSET FaultKinds, expiredReadRaises: BOOLEAN]

VARIABLES
    cfg,         \* the world, the deployment's settings and the document's content: rigid
    job,         \* ingestion_jobs.status as committed
    retryCount,  \* ingestion_jobs.retry_count
    lock,        \* the run whose open transaction holds the job's row lock
    doc,         \* the document's row as committed
    rows,        \* the runs of which committed chunk rows are left
    meta,        \* the run whose ingestion metadata row is committed
    vectors,     \* per batch, the run that upserted it
    file,        \* is the original in storage?
    msgs,        \* broker: copies of the message carrying each retry number
    api,         \* the upload request
    pc,          \* each run's next step
    run          \* each run's locals

vars == <<cfg, job, retryCount, lock, doc, rows, meta, vectors, file, msgs, api, pc, run>>
jobVars == <<job, retryCount, lock>>
chunkVars == <<rows, meta>>
dataVars == <<doc, chunkVars, vectors, file>>

Active == {"pending", "processing"}
Terminal == {"completed", "failed", "cancelled"}
Failures == {"transient", "permanent"}
Attempts == 0 .. MaxRetries

\* "temp": Supabase, with a temp_ stored_file_name because the original is not kept
Config == [world: Worlds, storage: {"cloudinary", "supabase", "temp"}, parsable: BOOLEAN,
           batches: 0 .. MaxBatches, pinecone: BOOLEAN]
Faults == cfg.world.faults
ExpiredReadRaises == cfg.world.expiredReadRaises

Document == [upload: {"absent", "stored", "deleted"},
             parsing: {"pending", "parsed", "failed"},
             embedding: {"pending", "embedded", "failed", "skipped"},
             vectorCount: 0 .. MaxBatches]
\* seen and expired: what the session's identity map holds of the job and the document;
\* dropped and replaced: the chunk and metadata rows its transaction deletes
RunState == [attempt: Attempts, seen: {"unread", "processing"},
             exc: {"none"} \cup Failures, expired: BOOLEAN, cursor: 1 .. MaxBatches + 1,
             dropped: SUBSET Runs, replaced: Runs \cup {None}, count: Nat]
RunSteps == {"idle", "fetch", "parse", "unparsed", "embed", "delete", "insert", "clash",
             "vectors", "purge", "upsert", "embedFailed", "cleanup", "exit",
             "count", "publish", "done"}
NoVectors == [b \in 1 .. MaxBatches |-> None]

TypeOK ==
    /\ cfg \in Config
    /\ job \in {"absent"} \cup Active \cup Terminal
    /\ retryCount \in Nat
    /\ lock \in Runs \cup {None}
    /\ doc \in Document
    /\ rows \subseteq Runs
    /\ meta \in Runs \cup {None}
    /\ vectors \in [1 .. MaxBatches -> Runs \cup {None}]
    /\ file \in BOOLEAN
    /\ msgs \in [Attempts -> Nat]
    /\ api \in {"start", "stored", "enqueue", "enqueueFailed", "done", "error"}
    /\ pc \in [Runs -> RunSteps]
    /\ run \in [Runs -> RunState]

Init ==
    /\ cfg \in Config /\ (cfg.batches > 0 => cfg.parsable)
    /\ job = "absent" /\ retryCount = 0 /\ lock = None
    /\ doc = [upload |-> "absent", parsing |-> "pending",
              embedding |-> "pending", vectorCount |-> 0]
    /\ rows = {} /\ meta = None /\ vectors = NoVectors /\ file = FALSE
    /\ msgs = [n \in Attempts |-> 0]
    /\ api = "start"
    /\ pc = [r \in Runs |-> "idle"]
    /\ run = [r \in Runs |-> [attempt |-> 0, seen |-> "unread", exc |-> "none",
                              expired |-> FALSE, cursor |-> 1,
                              dropped |-> {}, replaced |-> None, count |-> 0]]

(***************************************************************************)
(* IngestionJobRepository: updates guarded by the status in the database.  *)
(***************************************************************************)
\* mutation: WHERE status IN (...) forgotten
MarkFailedAlways(status) == "failed"

MarkFailed(status) == IF status \in Active THEN "failed" ELSE status
MarkCompleted(status) == IF status = "processing" THEN "completed" ELSE status
CancelActive(status) == IF status \in Active THEN "cancelled" ELSE status
\* mutation: ended jobs can be resumed by a retry
ClaimableEnded(status, n) == status = "pending" \/ n > 0

Claimable(status, n) == status = "pending" \/ (status = "processing" /\ n > 0)

(***************************************************************************)
(* The upload request and the cancel request.                              *)
(***************************************************************************)
StoreFile ==
    /\ api = "start" /\ api' = "stored" /\ file' = TRUE
    /\ UNCHANGED <<cfg, jobVars, doc, chunkVars, vectors, msgs, pc, run>>

\* the exception rolls the request's session back: no row survives
StoreFails ==
    /\ api = "start" /\ api' = "error" /\ file' \in BOOLEAN
    /\ UNCHANGED <<cfg, jobVars, doc, chunkVars, vectors, msgs, pc, run>>

\* cancel_active_for_document finds no job of a document this request created
CreateJob ==
    /\ api = "stored" /\ api' = "enqueue"
    /\ job' = "pending"
    /\ doc' = [doc EXCEPT !.upload = "stored"]
    /\ UNCHANGED <<cfg, retryCount, lock, chunkVars, vectors, file, msgs, pc, run>>

Enqueue ==
    /\ api = "enqueue" /\ api' = "done"
    /\ msgs' = [msgs EXCEPT ![0] = @ + 1]
    /\ UNCHANGED <<cfg, jobVars, dataVars, pc, run>>

\* the call raised, but the broker may have taken the message
EnqueueFails ==
    /\ "publish" \in Faults
    /\ api = "enqueue" /\ api' = "enqueueFailed"
    /\ \E sent \in {0, 1} : msgs' = [msgs EXCEPT ![0] = @ + sent]
    /\ UNCHANGED <<cfg, jobVars, dataVars, pc, run>>

MarkEnqueueFailed ==
    /\ api = "enqueueFailed" /\ lock = None
    /\ api' = "error" /\ job' = MarkFailed(job)
    /\ UNCHANGED <<cfg, retryCount, lock, dataVars, msgs, pc, run>>

UploadAborts ==
    /\ \/ "crash" \in Faults /\ api \in {"stored", "enqueue", "enqueueFailed"}
       \/ "db" \in Faults /\ api \in {"stored", "enqueueFailed"}
    /\ api' = "error"
    /\ UNCHANGED <<cfg, jobVars, dataVars, msgs, pc, run>>

CancelIngestion ==
    /\ job \in Active /\ lock = None
    /\ job' = CancelActive(job)
    /\ UNCHANGED <<cfg, retryCount, lock, dataVars, msgs, api, pc, run>>

\* the broker restores a message that no worker acknowledged in time
Redeliver ==
    /\ "redeliver" \in Faults
    /\ \E n \in Attempts :
         /\ msgs[n] > 0 /\ msgs[n] < MaxCopies
         /\ msgs' = [msgs EXCEPT ![n] = @ + 1]
    /\ UNCHANGED <<cfg, jobVars, dataVars, api, pc, run>>

(***************************************************************************)
(* A run takes a message (acknowledged as it starts) and claims the job:   *)
(* SELECT ... FOR UPDATE waits for the row lock.                           *)
(***************************************************************************)
Take(r, n) ==
    /\ pc[r] = "idle" /\ msgs[n] > 0
    /\ msgs' = [msgs EXCEPT ![n] = @ - 1]

ClaimNothing(r, n) ==
    /\ Take(r, n) /\ lock = None
    /\ ~Claimable(job, n)
    /\ pc' = [pc EXCEPT ![r] = "done"]
    /\ UNCHANGED <<cfg, jobVars, dataVars, api, run>>

ClaimNotStored(r, n) ==
    /\ Take(r, n) /\ lock = None
    /\ Claimable(job, n) /\ doc.upload # "stored"
    /\ job' = "failed"
    /\ pc' = [pc EXCEPT ![r] = "done"]
    /\ UNCHANGED <<cfg, retryCount, lock, dataVars, api, run>>

\* mutation: SELECT without FOR UPDATE
ClaimWithoutLock(r, n) ==
    /\ Take(r, n)
    /\ Claimable(job, n) /\ doc.upload = "stored"
    /\ pc' = [pc EXCEPT ![r] = "fetch"]
    /\ run' = [run EXCEPT ![r].attempt = n, ![r].seen = "processing"]
    /\ UNCHANGED <<cfg, jobVars, dataVars, api>>

ClaimJob(r, n) ==
    /\ Take(r, n) /\ lock = None
    /\ Claimable(job, n) /\ doc.upload = "stored"
    /\ lock' = r
    /\ pc' = [pc EXCEPT ![r] = "fetch"]
    /\ run' = [run EXCEPT ![r].attempt = n, ![r].seen = "processing"]
    /\ UNCHANGED <<cfg, job, retryCount, dataVars, api>>

ClaimError(r, n) ==
    /\ Take(r, n)
    /\ \E e \in Failures :
         /\ "db" \in Faults \/ ("pool" \in Faults /\ e = "permanent")
         /\ run' = [run EXCEPT ![r].attempt = n, ![r].exc = e]
    /\ pc' = [pc EXCEPT ![r] = "exit"]
    /\ UNCHANGED <<cfg, jobVars, dataVars, api>>

\* the identity map answers with the attributes the claim loaded: the session
\* does not expire them on commit and the query does not refresh them
JobIsCancelled(r) == run[r].seen = "cancelled"

ReleaseLock(r) == lock' = IF lock = r THEN None ELSE lock

(***************************************************************************)
(* Fetch and parse, under the job's row lock, up to the first commit.      *)
(***************************************************************************)
Fetch(r) ==
    /\ pc[r] = "fetch" /\ file
    /\ pc' = [pc EXCEPT ![r] = IF JobIsCancelled(r) THEN "cleanup" ELSE "parse"]
    /\ UNCHANGED <<cfg, jobVars, dataVars, msgs, api, run>>

\* SupabaseStorageProvider wraps every error in RuntimeError, which is not transient
FetchTransient(r) ==
    /\ pc[r] = "fetch" /\ cfg.storage = "cloudinary"
    /\ pc' = [pc EXCEPT ![r] = "cleanup"]
    /\ run' = [run EXCEPT ![r].exc = "transient"]
    /\ UNCHANGED <<cfg, jobVars, dataVars, msgs, api>>

FetchFails(r) ==
    /\ pc[r] = "fetch"
    /\ job' = "failed" /\ ReleaseLock(r)
    /\ pc' = [pc EXCEPT ![r] = "cleanup"]
    /\ UNCHANGED <<cfg, retryCount, dataVars, msgs, api, run>>

\* mutation: the claim does not write "processing"
ParseLeavesPending(r) ==
    /\ pc[r] = "parse"
    /\ ReleaseLock(r)
    /\ doc' = IF cfg.parsable THEN [doc EXCEPT !.parsing = "parsed"]
              ELSE [doc EXCEPT !.parsing = "failed", !.embedding = "skipped"]
    /\ pc' = [pc EXCEPT ![r] = IF cfg.parsable THEN "embed" ELSE "unparsed"]
    /\ UNCHANGED <<cfg, job, retryCount, chunkVars, vectors, file, msgs, api, run>>

\* mutation: a failed parse does not stop the run
ParseIgnoresFailure(r) ==
    /\ pc[r] = "parse"
    /\ job' = "processing" /\ ReleaseLock(r)
    /\ doc' = [doc EXCEPT !.parsing = IF cfg.parsable THEN "parsed" ELSE "failed"]
    /\ pc' = [pc EXCEPT ![r] = "embed"]
    /\ UNCHANGED <<cfg, retryCount, chunkVars, vectors, file, msgs, api, run>>

ParseCommit(r) ==
    /\ pc[r] = "parse"
    /\ job' = "processing" /\ ReleaseLock(r)
    /\ doc' = IF cfg.parsable THEN [doc EXCEPT !.parsing = "parsed"]
              ELSE [doc EXCEPT !.parsing = "failed", !.embedding = "skipped"]
    /\ pc' = [pc EXCEPT ![r] = IF JobIsCancelled(r) THEN "cleanup"
                               ELSE IF cfg.parsable THEN "embed" ELSE "unparsed"]
    /\ UNCHANGED <<cfg, retryCount, chunkVars, vectors, file, msgs, api, run>>

FailUnparsed(r) ==
    /\ pc[r] = "unparsed" /\ lock = None
    /\ job' = MarkFailed(job)
    /\ pc' = [pc EXCEPT ![r] = "cleanup"]
    /\ UNCHANGED <<cfg, retryCount, lock, dataVars, msgs, api, run>>

(***************************************************************************)
(* run_embedding_ingest: chunk rows in an open transaction, then the       *)
(* embedding call, then Pinecone.  The chunk rows of two runs do not       *)
(* conflict, but document_ingestion_metadata is unique per document.       *)
(***************************************************************************)
HasChunkTx(r) == pc[r] \in {"vectors", "purge", "upsert"} /\ cfg.batches > 0
ChunkTxOpen == \E q \in Runs : HasChunkTx(q)

EmbedUnconfigured(r) ==
    /\ pc[r] = "embed" /\ ~cfg.pinecone /\ lock = None
    /\ doc' = [doc EXCEPT !.embedding = "failed", !.vectorCount = 0]
    /\ job' = MarkFailed(job)
    /\ pc' = [pc EXCEPT ![r] = "cleanup"]
    /\ UNCHANGED <<cfg, retryCount, lock, chunkVars, vectors, file, msgs, api, run>>

EmbedNothing(r) ==
    /\ pc[r] = "embed" /\ cfg.pinecone /\ cfg.batches = 0
    /\ pc' = [pc EXCEPT ![r] = "upsert"]
    /\ UNCHANGED <<cfg, jobVars, dataVars, msgs, api, run>>

\* DELETE FROM parent_chunks (child chunks cascade) finds the rows committed by now
DeleteChunks(r) ==
    /\ pc[r] = "embed" /\ cfg.pinecone /\ cfg.batches > 0
    /\ pc' = [pc EXCEPT ![r] = "delete"]
    /\ run' = [run EXCEPT ![r].dropped = rows]
    /\ UNCHANGED <<cfg, jobVars, dataVars, msgs, api>>

\* the same rows deleted by a transaction still open: the statement waits for its end
DeleteWaits(r) ==
    \E q \in Runs \ {r} : /\ pc[q] = "insert" \/ HasChunkTx(q)
                         /\ run[q].dropped \cap run[r].dropped \cap rows # {}

\* DELETE FROM document_ingestion_metadata, by a statement with a snapshot of its own
DeleteMetadata(r) ==
    /\ pc[r] = "delete" /\ ~DeleteWaits(r)
    /\ pc' = [pc EXCEPT ![r] = "insert"]
    /\ run' = [run EXCEPT ![r].replaced = meta]
    /\ UNCHANGED <<cfg, jobVars, dataVars, msgs, api>>

\* mutation: no unique constraint on the document of a metadata row
InsertUnconstrained(r) ==
    /\ pc[r] = "insert"
    /\ pc' = [pc EXCEPT ![r] = "vectors"]
    /\ UNCHANGED <<cfg, jobVars, dataVars, msgs, api, run>>

\* INSERT waits for a transaction that has inserted the document's metadata row, then
\* fails on a committed row that this run did not delete
InsertRows(r) ==
    /\ pc[r] = "insert" /\ ~ChunkTxOpen
    /\ pc' = [pc EXCEPT ![r] = IF meta \in {None, run[r].replaced} THEN "vectors" ELSE "clash"]
    /\ UNCHANGED <<cfg, jobVars, dataVars, msgs, api, run>>

EmbedChunks(r) ==
    /\ pc[r] = "vectors"
    /\ pc' = [pc EXCEPT ![r] = "purge"]
    /\ UNCHANGED <<cfg, jobVars, dataVars, msgs, api, run>>

\* _purge_document_vectors swallows every exception
PurgeVectors(r) ==
    /\ pc[r] = "purge"
    /\ vectors' \in {vectors, NoVectors}
    /\ pc' = [pc EXCEPT ![r] = "upsert"]
    /\ run' = [run EXCEPT ![r].cursor = 1]
    /\ UNCHANGED <<cfg, jobVars, doc, chunkVars, file, msgs, api>>

\* mutation: one batch too many
UpsertBatchPastEnd(r) ==
    /\ pc[r] = "upsert" /\ run[r].cursor <= cfg.batches + 1
    /\ vectors' = [b \in DOMAIN vectors |-> IF b = run[r].cursor THEN r ELSE vectors[b]]
    /\ run' = [run EXCEPT ![r].cursor = @ + 1]
    /\ UNCHANGED <<cfg, jobVars, doc, chunkVars, file, msgs, api, pc>>

UpsertBatch(r) ==
    /\ pc[r] = "upsert" /\ run[r].cursor <= cfg.batches
    /\ vectors' = [vectors EXCEPT ![run[r].cursor] = r]
    /\ run' = [run EXCEPT ![r].cursor = @ + 1]
    /\ UNCHANGED <<cfg, jobVars, doc, chunkVars, file, msgs, api, pc>>

\* The handler rolls back, which expires every object of the session, then purges:
\* reading the expired document raises inside the purge, which swallows it.
EmbedFails(r) ==
    /\ \E e \in Failures :
         /\ \/ HasChunkTx(r)
            \/ pc[r] = "clash" /\ e = "permanent"
            \/ "db" \in Faults /\ pc[r] \in {"delete", "insert"}
         /\ run' = [run EXCEPT ![r].expired = TRUE,
                               ![r].exc = IF e = "transient" THEN e ELSE @]
         /\ pc' = [pc EXCEPT ![r] = IF e = "transient" THEN "cleanup" ELSE "embedFailed"]
    /\ vectors' \in IF ExpiredReadRaises THEN {vectors} ELSE {vectors, NoVectors}
    /\ UNCHANGED <<cfg, jobVars, doc, chunkVars, file, msgs, api>>

\* the commit flushes the document, which reloads what the rollback expired
MarkEmbedFailed(r) ==
    /\ pc[r] = "embedFailed" /\ lock = None
    /\ job' = MarkFailed(job)
    /\ doc' = [doc EXCEPT !.embedding = "failed", !.vectorCount = 0]
    /\ run' = [run EXCEPT ![r].expired = FALSE]
    /\ pc' = [pc EXCEPT ![r] = "cleanup"]
    /\ UNCHANGED <<cfg, retryCount, lock, chunkVars, vectors, file, msgs, api>>

CommitRows(r) ==
    IF cfg.batches = 0 THEN UNCHANGED chunkVars
    ELSE rows' = (rows \ run[r].dropped) \cup {r} /\ meta' = r

\* mutation: the last batch is forgotten
FinishEarly(r) ==
    /\ pc[r] = "upsert" /\ run[r].cursor >= cfg.batches /\ lock = None
    /\ job' = MarkCompleted(job)
    /\ doc' = [doc EXCEPT !.embedding = "embedded", !.vectorCount = cfg.batches]
    /\ CommitRows(r)
    /\ pc' = [pc EXCEPT ![r] = "cleanup"]
    /\ UNCHANGED <<cfg, retryCount, lock, vectors, file, msgs, api, run>>

\* mutation: the chunk rows are committed by nobody
FinishWithoutRows(r) ==
    /\ pc[r] = "upsert" /\ run[r].cursor > cfg.batches /\ lock = None
    /\ job' = MarkCompleted(job)
    /\ doc' = [doc EXCEPT !.embedding = "embedded", !.vectorCount = cfg.batches]
    /\ pc' = [pc EXCEPT ![r] = "cleanup"]
    /\ UNCHANGED <<cfg, retryCount, lock, chunkVars, vectors, file, msgs, api, run>>

\* one transaction: chunk and metadata rows, document and job
Finish(r) ==
    /\ pc[r] = "upsert" /\ run[r].cursor > cfg.batches /\ lock = None
    /\ job' = IF JobIsCancelled(r) THEN job ELSE MarkCompleted(job)
    /\ doc' = [doc EXCEPT !.embedding = "embedded", !.vectorCount = cfg.batches]
    /\ CommitRows(r)
    /\ pc' = [pc EXCEPT ![r] = "cleanup"]
    /\ UNCHANGED <<cfg, retryCount, lock, vectors, file, msgs, api, run>>

\* A statement or a connection fails outside run_embedding_ingest.  A failed flush
\* rolls back and expires; a failed execute does not.
DbError(r) ==
    /\ "db" \in Faults
    /\ \/ pc[r] \in {"fetch", "parse", "unparsed", "embed", "embedFailed"}
       \/ pc[r] = "upsert" /\ run[r].cursor > cfg.batches
    /\ \E e \in Failures,
          x \in IF pc[r] \in {"parse", "upsert"} THEN BOOLEAN ELSE {run[r].expired} :
         run' = [run EXCEPT ![r].exc = e, ![r].expired = x]
    /\ pc' = [pc EXCEPT ![r] = "cleanup"]
    /\ ReleaseLock(r)
    /\ UNCHANGED <<cfg, job, retryCount, dataVars, msgs, api>>

(***************************************************************************)
(* The finally block: a temporary original is deleted however the run      *)
(* ends; then the session closes.                                          *)
(***************************************************************************)
CloseSession(r, e) ==
    /\ run' = [run EXCEPT ![r].exc = e]
    /\ pc' = [pc EXCEPT ![r] = IF e = "none" THEN "done" ELSE "exit"]
    /\ ReleaseLock(r)
    /\ UNCHANGED <<cfg, job, retryCount, chunkVars, vectors, msgs, api>>

Unreadable(r) == run[r].expired /\ ExpiredReadRaises

\* stored_file_name is expired: MissingGreenlet replaces the run's own exception
CleanupRaises(r) ==
    /\ pc[r] = "cleanup" /\ Unreadable(r)
    /\ CloseSession(r, "permanent")
    /\ UNCHANGED <<doc, file>>

CleanupNothing(r) ==
    /\ pc[r] = "cleanup" /\ ~Unreadable(r) /\ cfg.storage # "temp"
    /\ CloseSession(r, run[r].exc)
    /\ UNCHANGED <<doc, file>>

\* delete_file swallows its errors; the commit writes what a rollback left dirty
CleanupTemp(r) ==
    /\ pc[r] = "cleanup" /\ ~Unreadable(r) /\ cfg.storage = "temp"
    /\ file' \in {FALSE, file}
    /\ doc' = IF run[r].expired
              THEN [doc EXCEPT !.upload = "deleted", !.embedding = "failed", !.vectorCount = 0]
              ELSE [doc EXCEPT !.upload = "deleted"]
    /\ CloseSession(r, run[r].exc)

\* the block swallows a failed commit too, but a run that was returning then fails
\* at the commit that closes its session
CleanupLost(r) ==
    /\ "db" \in Faults
    /\ pc[r] = "cleanup" /\ ~Unreadable(r) /\ cfg.storage = "temp"
    /\ file' \in {FALSE, file} /\ doc' = doc
    /\ CloseSession(r, IF run[r].exc = "none" THEN "permanent" ELSE run[r].exc)

(***************************************************************************)
(* The task's own handler.                                                 *)
(***************************************************************************)
WillRetry(r) == run[r].exc = "transient" /\ run[r].attempt < MaxRetries

\* increment_retry_count reads the row unlocked and writes the value it read plus one
ReadRetryCount(r) ==
    /\ pc[r] = "exit" /\ WillRetry(r)
    /\ pc' = [pc EXCEPT ![r] = "count"]
    /\ run' = [run EXCEPT ![r].count = retryCount]
    /\ UNCHANGED <<cfg, jobVars, dataVars, msgs, api>>

\* mutation: retry_count is not written before the retry
RetryUncounted(r) ==
    /\ pc[r] = "count" /\ lock = None
    /\ pc' = [pc EXCEPT ![r] = "publish"]
    /\ run' = [run EXCEPT ![r].count = 0]
    /\ UNCHANGED <<cfg, jobVars, dataVars, msgs, api>>

CountRetry(r) ==
    /\ pc[r] = "count" /\ lock = None
    /\ retryCount' = run[r].count + 1
    /\ pc' = [pc EXCEPT ![r] = "publish"]
    /\ run' = [run EXCEPT ![r].count = 0]
    /\ UNCHANGED <<cfg, job, lock, dataVars, msgs, api>>

\* mutation: retry is called but not raised, so the handler goes on to its last part
PublishRetryFallsThrough(r) ==
    /\ pc[r] = "publish"
    /\ msgs' = IF run[r].attempt + 1 > CeleryMaxRetries THEN msgs
               ELSE [msgs EXCEPT ![run[r].attempt + 1] = @ + 1]
    /\ pc' = [pc EXCEPT ![r] = "exit"]
    /\ run' = [run EXCEPT ![r].exc = "permanent"]
    /\ UNCHANGED <<cfg, jobVars, dataVars, api>>

\* Task.retry raises the run's exception once the task's own max_retries is passed
PublishRetry(r) ==
    /\ pc[r] = "publish"
    /\ msgs' = IF run[r].attempt + 1 > CeleryMaxRetries THEN msgs
               ELSE [msgs EXCEPT ![run[r].attempt + 1] = @ + 1]
    /\ pc' = [pc EXCEPT ![r] = "done"]
    /\ UNCHANGED <<cfg, jobVars, dataVars, api, run>>

\* mutation: the last exception is only logged
FailUnhandledLogs(r) ==
    /\ pc[r] = "exit" /\ ~WillRetry(r)
    /\ pc' = [pc EXCEPT ![r] = "done"]
    /\ UNCHANGED <<cfg, jobVars, dataVars, msgs, api, run>>

FailUnhandled(r) ==
    /\ pc[r] = "exit" /\ ~WillRetry(r) /\ lock = None
    /\ job' = MarkFailed(job)
    /\ pc' = [pc EXCEPT ![r] = "done"]
    /\ UNCHANGED <<cfg, retryCount, lock, dataVars, msgs, api, run>>

\* each helper opens its session in an event loop of its own
HandlerFails(r) ==
    /\ \/ pc[r] \in {"exit", "count"} /\ "db" \in Faults
       \/ pc[r] = "exit" /\ "pool" \in Faults /\ run[r].seen = "processing"
       \/ pc[r] = "publish" /\ "publish" \in Faults
    /\ pc' = [pc EXCEPT ![r] = "done"]
    /\ UNCHANGED <<cfg, jobVars, dataVars, msgs, api, run>>

\* the worker process dies: the message is gone, the open transaction rolled back
WorkerCrash(r) ==
    /\ "crash" \in Faults
    /\ pc[r] \notin {"idle", "done"}
    /\ pc' = [pc EXCEPT ![r] = "done"]
    /\ ReleaseLock(r)
    /\ UNCHANGED <<cfg, job, retryCount, dataVars, msgs, api, run>>

(***************************************************************************)
Upload == \/ StoreFile \/ StoreFails \/ CreateJob \/ Enqueue \/ EnqueueFails
          \/ MarkEnqueueFailed \/ UploadAborts

\* runs are numbered as they start
Start(r) == (\A q \in Runs : q < r => pc[q] # "idle") /\ \E n \in Attempts :
    ClaimNothing(r, n) \/ ClaimNotStored(r, n) \/ ClaimJob(r, n) \/ ClaimError(r, n)

Ingest(r) ==
    \/ Fetch(r) \/ FetchTransient(r) \/ FetchFails(r) \/ ParseCommit(r) \/ FailUnparsed(r)
    \/ EmbedUnconfigured(r) \/ EmbedNothing(r) \/ DeleteChunks(r) \/ DeleteMetadata(r)
    \/ InsertRows(r) \/ EmbedChunks(r) \/ PurgeVectors(r) \/ UpsertBatch(r) \/ EmbedFails(r) \/ MarkEmbedFailed(r)
    \/ Finish(r) \/ DbError(r)
    \/ CleanupRaises(r) \/ CleanupNothing(r) \/ CleanupTemp(r) \/ CleanupLost(r)
    \/ ReadRetryCount(r) \/ CountRetry(r) \/ PublishRetry(r) \/ FailUnhandled(r) \/ HandlerFails(r)

Next ==
    \/ Upload \/ CancelIngestion \/ Redeliver
    \/ \E r \in Runs : Start(r) \/ Ingest(r) \/ WorkerCrash(r)

Spec == Init /\ [][Next]_vars

\* a request runs to its end; a free worker takes a message; no call hangs for ever
FairSpec == Spec /\ WF_vars(Upload) /\ \A r \in Runs : WF_vars(Start(r) \/ Ingest(r))

(***************************************************************************)
(* Properties under every fault.                                           *)
(***************************************************************************)
\* A job that completed, failed or was cancelled never changes status again, whatever
\* runs, cancel requests and failed enqueues still act on it: the status guards in the
\* WHERE clauses of IngestionJobRepository.
TerminalIsFinal == [][(job \in Terminal) => (job' = job)]_job

\* While a run is between its claim and its first commit the job cannot end under it
\* nor be cancelled: FOR UPDATE keeps the others out.
LockHolds ==
    \A r \in Runs :
        /\ lock = r => pc[r] \in {"fetch", "parse", "cleanup"} /\ job \in Active
        /\ pc[r] \in {"fetch", "parse"} => lock = r

PastFirstCommit == {"unparsed", "embed", "delete", "insert", "clash", "vectors", "purge",
                    "upsert", "embedFailed"}

\* A run that writes results works on a job that is not offered as new to another run:
\* after the first commit the job is never again pending.
WriterOwnsStartedJob ==
    \A r \in Runs : pc[r] \in PastFirstCommit => job \notin {"absent", "pending"}

\* A completed job has its chunk rows, whatever a second, resumed run of it did later:
\* only a run that replaces the rows commits their deletion.
CompletedHasChunks == job = "completed" /\ cfg.batches > 0 => rows # {}

\* The client's view of the job and of its document is that of JobLifecycle.
Lifecycle == INSTANCE JobLifecycle
                 WITH status <- job, published <- (doc.embedding = "embedded")
ClientView == Lifecycle!Spec

DeliveredOnce == "redeliver" \notin Faults

\* What a run has put into Pinecone stays its own until its transaction ends, also when
\* a redelivered retry let several runs resume the job: their purges and upserts never
\* mix, because a run inserts the document's unique metadata row before it upserts.
\* (Could an expired document be read, then the purge of a run that clashed would reach
\* into Pinecone from outside such a transaction.)
VectorsOfOneRun ==
    ExpiredReadRaises \/ DeliveredOnce =>
        \A r \in Runs, b \in 1 .. cfg.batches :
            pc[r] = "upsert" /\ b < run[r].cursor => vectors[b] = r

(***************************************************************************)
(* Properties while the broker delivers every message once.                *)
(***************************************************************************)

\* A document shown as embedded is searchable: every batch is in Pinecone, written by
\* a run whose parent rows are committed, so its parent_id metadata resolves.
EmbeddedIsSearchable ==
    DeliveredOnce /\ doc.embedding = "embedded" =>
        /\ doc.vectorCount = cfg.batches
        /\ \A b \in 1 .. cfg.batches : vectors[b] \in rows

\* A completed job leaves its document parsed and embedded: one commit writes both.
CompletedIsEmbedded ==
    DeliveredOnce /\ job = "completed" =>
        doc.parsing = "parsed" /\ doc.embedding = "embedded"

InProgress(r) == pc[r] \notin {"idle", "done"}

\* The job's retry_count is the number of the attempt that is queued or in progress,
\* whatever failed on the way: it is committed before the retry is published, and then
\* counts one more than the run that publishes.
RetryAccounted ==
    DeliveredOnce =>
        /\ \A n \in Attempts : msgs[n] > 0 => retryCount = n
        /\ \A r \in Runs : InProgress(r) =>
              retryCount = run[r].attempt + IF pc[r] = "publish" THEN 1 ELSE 0

\* The retry chain is a single thread: a message is published only by a run that is over.
OneRunAtATime ==
    DeliveredOnce => \A q, r \in Runs : InProgress(q) /\ InProgress(r) => q = r

(***************************************************************************)
(* Properties while nothing crashes and every fault is the task's own.     *)
(***************************************************************************)
Quiescent ==
    /\ api \in {"done", "error"}
    /\ \A n \in Attempts : msgs[n] = 0
    /\ \A r \in Runs : pc[r] \in {"idle", "done"}

\* Once request, broker and workers are at rest the job has ended: nobody is left who
\* would end it.
NoAbandonedJob == Faults = {} /\ Quiescent => job \notin Active

\* An accepted upload's job ends, if calls end and workers are free.
EveryJobEnds == Faults = {} /\ job = "pending" ~> job \in Terminal

\* A document whose embedding failed has no vectors left in Pinecone.
PurgedWhenFailed == doc.embedding = "failed" => vectors = NoVectors

(***************************************************************************)
(* What makes the properties above inductive.                              *)
(***************************************************************************)
\* The job's row appears with the commit of the upload, before any message does.
UploadFirst == api \in {"start", "stored"} => job = "absent"

\* A document is shown as embedded only once its job has ended.
PublishedWhenOver == doc.embedding = "embedded" => job \in Terminal

StatusInv == UploadFirst /\ LockHolds /\ WriterOwnsStartedJob /\ PublishedWhenOver

\* The task is in one place at a time: with the request that has not sent it, in one
\* message, or with one run.
Unsent == api \in {"start", "stored", "enqueue"}
Handed ==
    DeliveredOnce =>
        /\ Unsent => (\A n \in Attempts : msgs[n] = 0) /\ (\A r \in Runs : pc[r] = "idle")
        /\ \A n \in Attempts : msgs[n] > 0 =>
              /\ msgs[n] = 1 /\ \A m \in Attempts : msgs[m] > 0 => m = n
              /\ \A r \in Runs : ~InProgress(r)
        /\ OneRunAtATime

\* Before the first message there is nothing to count, and what a run read of the count
\* is still so when it writes it.
CountUpToDate ==
    DeliveredOnce =>
        /\ Unsent => retryCount = 0
        /\ \A r \in Runs : pc[r] = "count" => run[r].count = retryCount

RetryInv == Handed /\ RetryAccounted /\ CountUpToDate

\* One transaction at a time has inserted chunk rows and can still commit them.
OneChunkTx == \A q, r \in Runs : HasChunkTx(q) /\ HasChunkTx(r) => q = r

\* A run with an exception or an expired document is on its way out.
Working == {"idle", "fetch", "parse", "unparsed", "embed", "delete", "insert", "clash",
            "vectors", "purge", "upsert"}
CleanWhileWorking ==
    \A r \in Runs :
        /\ pc[r] \in Working \cup {"embedFailed"} => run[r].exc = "none"
        /\ pc[r] \in Working => ~run[r].expired

\* Only a document that parsed is embedded.
ParsedBeforeEmbedding ==
    \A r \in Runs :
        pc[r] \in {"embed", "delete", "insert", "clash", "vectors", "purge", "upsert",
                   "embedFailed"} =>
            cfg.parsable /\ doc.parsing = "parsed"

\* Once the document is embedded the only run left is the one that embedded it, and
\* nothing it can still meet makes it retry.
OverOnceEmbedded ==
    DeliveredOnce /\ doc.embedding = "embedded" =>
        /\ ~Unsent
        /\ \A n \in Attempts : msgs[n] = 0
        /\ \A r \in Runs : InProgress(r) =>
              pc[r] \in {"cleanup", "exit"} /\ run[r].exc # "transient" /\ ~run[r].expired

SearchInv == /\ Handed /\ CleanWhileWorking /\ ParsedBeforeEmbedding /\ OneChunkTx
             /\ VectorsOfOneRun /\ OverOnceEmbedded /\ EmbeddedIsSearchable
             /\ CompletedIsEmbedded

\* Without faults, whoever has the task of an active job ends the job or hands it on:
\* the first message finds the job unclaimed, a run that returns has ended it, and one
\* that publishes a retry has one left.
EndedOrHandedOn ==
    Faults = {} =>
        /\ Unsent \/ msgs[0] > 0 => job # "processing"
        /\ \A r \in Runs :
              /\ pc[r] = "cleanup" /\ run[r].exc = "none" => job \notin Active
              /\ pc[r] \in {"count", "publish"} => run[r].attempt < MaxRetries

EndInv == EndedOrHandedOn /\ NoAbandonedJob
=============================================================================
