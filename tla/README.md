# Formal models of the RecallStack support assistant

The backend under `src/backend` answers questions of an organization's users from
the documents they upload. Requests reach a FastAPI application; documents are
ingested and benchmarks evaluated by Celery workers; PostgreSQL keeps the rows,
Redis the broker, the rate limits and the registry of running chat streams, Pinecone
the vectors, and Supabase or Cloudinary the original files. This directory models
that program in TLA+, checks the models with TLC and proves theorems about them with
TLAPS. Paths below are relative to `src/backend/src/`.

## 1. Inventory

| Component | State it keeps | Operations | Hard behaviour | What makes it correct |
|---|---|---|---|---|
| Document ingestion (`documents/`, `jobs/ingestion*.py`) | job row and its lock, document row, chunk rows, vectors, stored file, messages | upload, enqueue, cancel, claim, fetch, parse, embed, upsert, finish, clean up, retry | cancel and second runs during a run, worker crashes, redelivery, three stores that fail separately | an ended job stays ended; an embedded document is searchable; a job always ends |
| Streaming chat (`ai/streaming_chat_service.py`, `realtime/`) | a Redis hash per running generation, the stream's session | stream, cancel, drop | cancel against register and drop, deadline, a client that disconnects, Redis failing | a stream ends with one final event; a cancelled stream stores no answer; a stream reported done is stored |
| Chat turns (`ai/chatService.py`, `conversations/`, `orchestration/`, `workflows/`) | conversations, messages, one graph state per request | attach, load, plan, rewrite, search, assemble, generate, store | turns of one conversation at once; equal timestamps; early exits; a failure anywhere in one long transaction | a question, its answer and its user are stored together or not at all; an answer rests on the user's own sources |
| Providers (`ai/providerRouter.py`, `ai/*Provider.py`) | none beyond the call | complete, stream | a provider that fails before or after its first token; responses of odd shapes | text of two providers is never mixed; an answer is never empty |
| Evaluation (`evaluation/`, `evaluationEngine/`, `jobs/evaluationTasks.py`) | runs, results, datasets | start, execute, store, read | enqueued before commit, redelivery, a failure between results and status | a run ends; its results match its rows |
| Rate limiter (`security/rateLimiter.py`) | a sorted set per endpoint and user | check | same-millisecond requests, clocks of several hosts | never more than the limit in a window |
| Identity (`auth/`, `api/v1/webhookRoutes.py`) | users, organizations, roles | first request, webhook | both at once for one account; a webhook sent again | one user row per account, none half made; an acknowledged webhook has done its work |
| Parsing and chunking (`documents/mimeValidator.py`, `parsing/`, `chunking/`) | none (pure) | validate, parse, classify, split | overlaps, parts longer than a chunk, headings | no text lost, doubled or out of order |
| Embedding and vector store (`embeddings/`, `vectorstore/`) | vectors | embed in batches, retry, upsert, purge, query | a batch that fails after others succeeded, leftovers of an earlier run | no vector stands at another text's chunk; an embedded document has all of its own |
| Retrieval and context (`retrieval/`, `contextAssembly/`) | none (pure) | filter, rank, deduplicate, cap, cite | several limits in a row, near duplicates | what is left out is worse or a duplicate |
| Settings and health (`core/`, `observability/`, `api/v1/healthRoutes.py`) | what the process started with | validate, report | settings checked one by one, secrets in some environments | a process that starts or is called ready refuses nothing for want of a setting |
| Metrics, traces, headers, pages that only read | counters, log lines | record, list | bounded windows | not modelled |

Interactions: the upload request creates a row and publishes a message; a worker
consumes it and writes the rows, the vectors and the file that later chat requests
read; the cancel requests (of a job, of a stream) reach their target only through a
shared row or Redis hash; a chat request runs the RAG workflow, which calls the
retrieval engine and the provider router; an evaluation runs the same workflow.

## 2. Modules and plan

| Modules | Abstract specification | Theorems | Run |
|---|---|---|---|
| `Ingestion`, `MCIngestion` | `JobLifecycle` | `IngestionProofs` | `ingestion`, `ingestion_purge`, `ingestion_abandoned` |
| `StreamChat`, `MCStreamChat` | `ChatProtocol` | `StreamChatProofs` | `stream_faults`, `stream_liveness`, `stream_lost` |
| `EvaluationRun`, `MCEvaluationRun` | `RunLife` | `EvaluationRunProofs` | `evaluation`, `evaluation_lost` |
| `RateLimiter`, `MCRateLimiter` | (history of what was let through) | `RateLimiterProofs` | `rate_limiter` |
| `ChatTurn` = `Identity` + `Retrieval` + `Context` + `Provider`, `MCChatTurn` | `TurnStore` | `ChatTurnProofs` | `chat`, `chat_unanswered` |
| `Pipeline` = `Parsing` (on `Chunking`) + `Retrieval` + `Health` (on `Settings`, `Provider`), `MCPipeline` | what chunking promises (`Covers`), what a search promises (`SearchIsSound`) | `ChunkingProofs`, `PipelineProofs` | `pipeline` |

`RecursionLemmas` holds the lemmas about folds that the last two rows rest on (section 9).

`Identity`, `Retrieval`, `Context`, `Provider`, `Chunking`, `Parsing`, `Settings` and
`Health` have no specification of their own: they are the operators and actions of one
component each, and the two modules that compose them are what is checked.
`ChatTurn` takes what a search promises where `Pipeline` computes it, so that the
interleavings of turns are not multiplied by the contents of texts: `Findings` is what
`SearchIsSound` allows. In the same way `Ingestion` keeps of a document only whether it
can be parsed and how many batches it has, and `Pipeline` one document's contents
without its job.

Every safety property and every refinement that a run checks is also a theorem; what is
left to TLC alone is liveness (section 9).

## 3. Ingestion

### What is modelled

One document, from the request that uploads it to the end of its job. No operation
touches the rows of two documents and each upload creates one job, so several
documents would be independent copies.

| Variable | In the program |
|---|---|
| `cfg` | settings and content that never change: storage provider, whether the text can be parsed, number of vector batches, whether Pinecone is configured |
| `job`, `retryCount`, `lock` | the row of `ingestion_jobs` as committed and the run whose open transaction holds its row lock |
| `doc` | `upload_status`, `parsing_status`, `embedding_status` and the vector count of `documents` |
| `rows`, `meta`, `vectors`, `file` | the runs of which chunk rows are committed, the run whose metadata row is, which run wrote each batch in Pinecone, whether the original is stored |
| `msgs` | copies in the broker of the message with each retry number |
| `api` | where the upload request is |
| `pc`, `run` | per execution of the task: its next step and its locals, among them what its session remembers of the job (`seen`), whether a rollback expired the document (`expired`), the rows its transaction deletes (`dropped`, `replaced`) and the retry count it has read (`count`) |

Actions follow `run_ingestion_for_job` and `run_embedding_ingest` statement group by
statement group; a step ends where another process can see a difference (a commit, a
call to Pinecone or to the storage, a lock). What one open transaction writes appears
with its commit. `UploadAborts`, `WorkerCrash`, `DbError`, `HandlerFails`,
`EnqueueFails`, `Redeliver` are the surroundings' faults, each enabled by a member of
`Faults`.

Taken from the libraries and not from `src/`, because the code depends on it:

- SQLAlchemy: `expire_on_commit=False` (`database/databaseSession.py`), so a second
  query of the same row in a session answers with the loaded object; a rollback expires
  every object, and reading an expired attribute in an `AsyncSession` raises
  `MissingGreenlet` (`ExpiredReadRaises`).
- PostgreSQL: `SELECT ... FOR UPDATE` holds the row until the transaction ends. With READ
  COMMITTED a `DELETE` finds the rows that are committed when it begins; it waits for an
  open transaction that has deleted one of them (`DeleteWaits`) and skips what that one
  committed. A second insert of a unique key waits for the first transaction; it fails
  when a row of that key is committed that the inserting transaction has not deleted
  (`InsertRows`, the metadata row is unique per document; chunk rows are not). A value
  that was read without a lock may be stale when it is written (`ReadRetryCount`,
  `CountRetry`).
- Celery 5.4: a task is acknowledged before it runs (no `acks_late` in
  `jobs/jobConfig.py`), `Task.max_retries` is 3 unless `retry` is given another value,
  and a retry is a new message; the Redis broker restores unacknowledged messages.
- asyncpg: a pooled connection belongs to the event loop that opened it; the task calls
  `asyncio.run` up to three times (`jobs/ingestionTasks.py:48,51,64`) on one engine, so
  the later calls may fail (`"pool"`).

### Properties

In every world: `TypeOK`; `LockHolds` (while a run is between claim and first commit
nobody else moves the job); `WriterOwnsStartedJob`; `VectorsOfOneRun` (the batches that a
run has upserted are its own until its transaction ends, also when a redelivered message
let several runs resume the job);
`CompletedHasChunks`; `TerminalIsFinal`; and `ClientView`, the
refinement of `JobLifecycle`. While messages are delivered once: `EmbeddedIsSearchable`,
`CompletedIsEmbedded`, `OneRunAtATime` and `RetryAccounted` (`retry_count` is exactly the
number of the attempt queued or in progress, and one more while a counted retry is being
published). While nothing around the task fails:
`NoAbandonedJob` and `EveryJobEnds`.

### Runs

A world (`cfg.world`, one of the constant `Worlds`) is what may go wrong around the job;
it is chosen in the initial state and never changes.

| Run | Bounds | What it shows |
|---|---|---|
| `ingestion` | 3 runs, 2 retries, 2 batches, 2 copies of a message; four worlds: `Delivering` (crash, db, pool, publish faults; each message is delivered once), `Redelivering` (redelivery, crash), `Calm` and `CalmLenient` (no faults but the task's own); fairness | all the properties above; each in the worlds it is stated for |
| `ingestion_purge` | 2 runs, 1 retry, `Calm` | a failed embedding leaves vectors behind (finding) |
| `ingestion_abandoned` | 6 runs, 5 retries, `Calm` | the fourth retry is refused and the job never ends (finding) |

Bounds. Two batches are the least for a failure between batches; two retries the least
for a retry that itself retries; three runs let two overlap while a third starts, which
is enough for two runs that insert against each other, for rows of two runs committed side
by side and for a lost update of the retry count. That a `DELETE` waits (`DeleteWaits`)
takes a fourth run, one whose rows two others delete; the run leaves it out, as four
runs are too many states, and the theorems hold for any number.
`CeleryMaxRetries` is 3, Celery's own value. Each bound is a constant, so larger ones
only need another cfg. In `CalmLenient` reading an expired row does not raise: the purge
after a failed embedding then works, as its code means it to, and the properties hold
either way.

Fairness (`FairSpec`): a request runs to its end, every worker that can step does, and a
message in the queue is taken when a worker is free. The program has no step a scheduler
could postpone for ever except calls to other services, which have timeouts. Faults and
cancel requests are not fair. `NoAbandonedJob` is false after a crash by the settings of
the queue, and after a failure in a handler (below), so it and `EveryJobEnds` are stated
for the worlds without faults; embedding, parsing and fetching still fail in them.

### Findings and observations

- The purge after a failed embedding never happens: the session was rolled back, reading
  `row.organization_id` raises and `except Exception: pass` hides it
  (`documents/ingestVectors.py:36-47,177-183`). Run `ingestion_purge`.
- With the default `INGESTION_MAX_RETRIES=5` Celery refuses the fourth retry and the job
  stays active. Run `ingestion_abandoned`.
- A cancel request is never seen by a run in progress: `_job_is_cancelled` reads the
  identity map. The job stays cancelled, but the document may end up embedded
  (`Republish` of `JobLifecycle` allows it).
- A transient embedding error whose rollback expired the document becomes a permanent one
  in the `finally` block (`CleanupRaises`), so it is not retried and a temporary original
  is not deleted.
- A temporary original is deleted when a run ends even if a retry was published; the
  retry then fails with `upload_not_stored` (`ClaimNotStored`).
- A handler that meets a connection of an earlier event loop raises before it can fail
  the job or count the retry (`HandlerFails`), so the job stays active.
- When a retry message is delivered twice, two runs resume one processing job and, in the
  model as in the code: both may commit their parent rows, as only the metadata row is
  unique and a `DELETE` does not see what is committed after it began; the second run's
  purge empties the index under a job that the first has completed; and
  `increment_retry_count` (`documents/ingestionJobRepository.py:115-120`), which reads
  without a lock, can lose an update or set the count back. So `EmbeddedIsSearchable`,
  `CompletedIsEmbedded` and `RetryAccounted` are stated for messages delivered once.
  What still holds is `VectorsOfOneRun`, `CompletedHasChunks` and all that is said of the
  status. No doc promises more.
- `VectorsOfOneRun` rests on the purge that fails: in a world with redelivery where an
  expired row could be read, the purge of a run that lost the metadata row's insert would
  empty what the winner is upserting. It is stated for the code's world and for every
  world without redelivery.

### Proofs (`IngestionProofs`)

For any number of runs, retries, batches and copies and any set of faults, from the four
assumptions on the constants in `Ingestion` (and one more for the last theorem):

- `Typing`: `TypeOK`, inductive by itself.
- `LockExcludes`, `WritersStarted`: `LockHolds` and `WriterOwnsStartedJob` by the
  inductive invariant `StatusInv`. It adds that the job is absent until the request
  commits (else a message could precede its job) and that a document is shown as embedded
  only when its job has ended (else the refinement would have a step that publishes an
  active job).
- `EndedStaysEnded`: the action property `TerminalIsFinal` from `StatusInv`: a run that
  writes the status without a guard (`ParseCommit`, `FetchFails`, `ClaimNotStored`) holds
  the lock, and the lock's holder works on an active job.
- `ClientViewHolds`: initial states map to initial states and every step to a step or a
  stutter of `JobLifecycle`, from the same invariant.
- `RetriesAccounted`: `RetryAccounted` by `RetryInv`. The read and the write of the count
  are two steps without a lock, so the proof needs that nobody else counts in between
  (`CountUpToDate`), which holds because the task is in one place at a time (`Handed`,
  below); without delivery once neither holds.
- `VectorsKeptApart`: `VectorsOfOneRun` from `OneChunkTx`, that one transaction at a time
  holds the metadata row it inserted. Every write to Pinecone is then by the run that
  holds it: the purge and the upserts come after the insert, and the purge of a run that
  has lost or rolled back its transaction cannot read the document.
- `RunsOneAtATime`: `OneRunAtATime` by `Handed`: while messages are delivered once there
  is one token, handed from the request to a message, to a run, to the next message, so an
  unsent request, a message and a run in progress exclude each other.
- `EmbeddedDocumentsSearchable`, `CompletedJobsEmbedded`: by `SearchInv`, on top of
  `Handed`. While a run upserts, the batches before its cursor are its own
  (`VectorsOfOneRun`); a run with an exception or an expired document is on its way out
  (`CleanWhileWorking`), and only a document that parsed is embedded
  (`ParsedBeforeEmbedding`). Once a document is shown as embedded nothing that could purge
  or rewrite it is left: no message, and no run but the one that embedded it, which will
  not retry (`OverOnceEmbedded`).
- `CompletedJobsHaveChunks`: `CompletedHasChunks` holds under every fault, redelivery
  included, and is inductive with the type invariant alone: the status and the rows are
  written by one commit (`Finish`), and no later step of any run takes rows away.
- `JobsAreNotAbandoned`: `NoAbandonedJob` by `EndInv`. Whoever has the task of an active
  job ends the job or hands it on (`EndedOrHandedOn`): the first message finds the job
  unclaimed, a run that returns has ended it, and one that publishes a retry has one left.
  The hypothesis `MaxRetries <= CeleryMaxRetries` is what the program's defaults violate
  (run `ingestion_abandoned`); with it the theorem says that nothing else abandons a job.

`EveryJobEnds` is liveness, which is out of the prover's reach: TLC only.

### Not modelled

Contents of chunks and vectors and the order of chunks (they are in `Pipeline`), HTTP
details, metrics and logging; documents deleted by other means (the code has no delete endpoint); clock times.

## 4. Streaming chat

### What is modelled

The streams of one user's conversation, in any number of processes, and the requests
that cancel them. A cancel request and a stream meet only in Redis: `register` creates
the hash `user:conversation:generation`, the cancel request scans the keys with the
prefix of its conversation and sets `cancelled` in each, and the stream reads the flag
before every token.

| Variable | In the program |
|---|---|
| `target` | what `conversation_id` of the request names: an existing conversation, one to be created, or none that the user has |
| `pc` | the next step of `iter_chat_sse`, and before it of the request's handler |
| `phase`, `voice` | what the client has seen: the last kind of event, and the models whose tokens it got |
| `model` | in `stream_chat_with_fallback`: the model being tried, and whether it has yielded |
| `late` | whether `time.monotonic()` has passed the deadline |
| `tx`, `stored` | messages flushed in the session, and messages committed |
| `reg` | the Redis hash of each generation: present, cancelled, with a time to live |
| `cpc`, `scan` | each cancel request's step and its iteration: keys of the present batch, keys visited, and the keys SCAN still owes it |
| `overdue` | ghost: tokens sent while the stream's hash said cancelled |

A step ends at an await of Redis, the database or the model, or at a yield to the client.
`HSET` and `EXPIRE` are two steps in `register` and in the cancel request, because
another process can act between them. `Prepare` and `PrepareFails` stand for the workflow
up to the first token.

Taken from the libraries, because the code depends on it:

- FastAPI 0.115.6 (`requirements.txt`) runs the exit of a `yield` dependency before the
  body of a `StreamingResponse` is sent, so `get_db_session` commits and closes the
  session in `Respond`, and what `iter_chat_sse` adds afterwards starts a transaction of
  its own that nobody commits (`Discard`).
- Starlette cancels the task of a response whose client is gone, wherever it awaits
  (`Disconnect`).
- Redis: `SCAN` returns every key present from its start to its end, in batches, maybe
  with keys deleted since; `HSET` creates a missing key, without a time to live; `EXPIRE`
  does nothing for a missing key (`ScanBatch`, `MarkKey`, `RenewKey`, `KeyExpires`).

### Properties

- `ClientProtocol`: the refinement of `ChatProtocol`: tokens of one model, one final
  event, citations before done, no empty answer, nothing after the end.
- `PromptCancel`: at most one token after the mark.
- `CancelIsHeeded`: a stream marked before its last look at the flag never announces an
  answer, in all of its future.
- `CancelReachesAll`: a cancel request that returned missed no generation that was
  registered when it started and still is.
- `EveryStreamEnds`, `RegistryForgets`: every stream ends although the model may never
  stop, and its hash goes away for good although a late cancel request may create it again.

`PromptCancel` and `CancelIsHeeded` are stated for settings in which the hash's time to
live covers the stream (`KeysOutliveStreams`); the settings do not enforce it. A cancel
request that comes after the last look has no effect on the stream, and the code promises
none.

### Runs

| Run | Bounds | What it shows |
|---|---|---|
| `stream_faults` | 2 streams, 1 cancel request, 1 model; redis, db, disconnect, ttl | the scan against registering, ending and expiring streams |
| `stream_liveness` | 1 stream, 2 cancel requests, 2 models; db; fairness | what the client sees, when a cancel takes effect, ends and expiries |
| `stream_lost` | 1 stream | done without stored messages (finding) |

Bounds. Two models are the least for a fallback, two cancel requests the least for one
that recreates a hash while another iterates, two streams the least for a scan of several
batches. The ghost counter saturates at `OverdueBound` = 2, one more than the property
allows. Answers are unbounded: a model may yield for ever. That `PromptCancel`,
`CancelIsHeeded` and `ClientProtocol` also hold when Redis fails and clients leave is
proved (below), for any number of streams; the run checks them with a failing database.

Fairness (`FairSpec`): every stream and cancel request that can step does, the clock
reaches the deadline, and Redis removes an expired key. Calls to Redis, the database and
the models have timeouts. Disconnections and failures are not fair. The deadline is only
looked at when a token arrives, so a model that neither yields nor fails would hold the
stream; the providers' own timeouts exclude it.

### Findings and observations

- A stream that ends with done has stored neither the question nor the answer. Run
  `stream_lost`.
- When retrieval finds nothing, the reply for insufficient context is never sent: both
  the synchronous and the streaming path build a `ContextPackage` from values of other
  types, which raises a `ValidationError` (`orchestration/workflowOrchestrator.py:190-213`
  and `349-369`), so the stream ends with an error (`PrepareFails`).
- `register` is called outside the `try`: if it fails the client gets no event, and the
  hash may stay without a time to live (`RegisterFails`).
- The stream of a new conversation cannot be cancelled: its conversation's id reaches the
  client only with done.
- The reopened session is not closed, so its pooled connection is held until the session
  is collected.

### Proofs (`StreamChatProofs`)

For any set of streams and cancel requests, any number of models and any set of faults:

- `Typing`: `TypeOK` is not inductive by itself: that a token is a configured model's
  needs `VoiceInv` (the client has heard at most the model the router is at).
- `ClientProtocolHolds`: every step is a step or a stutter of `ChatProtocol`, from
  `VoiceInv` and `PhaseInv` (the next step determines what the client has seen).
- `CancelIsPrompt`: by `OverdueInv`: a stream that sent a token after its mark has its
  flag set and its next look ahead of it. It rests on `MarkStep`: until a stream is over
  nothing resets its mark.
- `CancelHeeded`: `Doomed` (marked in time, or over without an answer) is stable and
  excludes an answer.
- `CancelComplete`: by `ScanInv`: a hash exists only after `register`, so a key that a
  scan still owes was not registered anew and keeps the mark it was given.

Liveness is checked by TLC only.

## 5. Evaluation runs

### What is modelled

One run of either type, from the request that starts it, the executions of the benchmark
task it publishes, and a reader who opens the run's page at any time.

| Variable | In the program |
|---|---|
| `kind` | `run_type`, which never changes |
| `api` | where the request is; its transaction is committed by `session_scope` after the handler |
| `status`, `summary` | the committed row of `evaluation_runs`; the rows that `workflow_trace_summary` counts as succeeded |
| `results` | committed rows of `evaluation_results`: the execution that inserted it (`None`: the request) and the row of the dataset |
| `msgs`, `redelivered` | copies of the task's message; whether it was delivered again |
| `pc`, `ok` | each execution's next transaction and the rows it has answered but not stored |
| `rpc`, `seen`, `page` | the reader between the query of the row and the query of the results, and the last page shown |

A step is one transaction of the task. In the request the order is flush, publish, commit:
`Enqueue` comes before `CommitBenchmark`, so that a worker may look for the run in
between (`TaskMissing`), and a rollback (`RequestFails`) leaves the message behind. The
execution of a dataset answers any subset of its rows, because each row's exception is
counted and skipped. A transaction of the task that raises leaves the run as it is
(`TaskFails`): only an exception out of `execute_dataset` reaches the handler that marks
the run failed.

### Properties

- `ClientView`: the refinement of `RunLife`. Until the message is delivered again, a run
  goes forward through its statuses, ends once, and has no results if it failed; after
  that it may be reopened, but results are only ever added.
- `CompletedPageIsWhole`: the page is read by two queries and the run is written by
  several transactions, yet a page that says completed shows each counted row once. It
  rests on the order of the last two transactions.
- `CompletedHasResults`: under every fault and redelivery a completed run has the results
  of one execution that answered just the rows it counts.

### Runs

| Run | Bounds | What it shows |
|---|---|---|
| `evaluation` | 2 executions, 2 rows; db, crash, broker, redeliver | the safety properties |
| `evaluation_lost` | 1 execution, 2 rows, no faults, fairness | an accepted run that is never executed (finding) |

Bounds. One second copy (`Redeliver` fires once) makes two executions, the least that
interfere; two rows are the least for a dataset that is answered in part. Fairness
(`FairSpec`, used by `evaluation_lost` only): the request runs to its end, a free worker
takes a message, no call hangs for ever.

### Findings and observations

- A benchmark run whose worker is faster than the request's commit stays queued. Run
  `evaluation_lost`.
- A single run that fails is nowhere on record: `_mark_run_failed` writes into the
  transaction that the exception raised next rolls back
  (`evaluation/evaluationRunService.py:83-85`).
- A run is completed even if no row was answered.
- The rows of a dataset share a session: after a database error in one row every later
  query of it fails, so all later rows are counted as failed.
- A failure between the results and the status leaves a run that has all its results
  running for ever.

### Proofs (`EvaluationRunProofs`)

For any sets of executions and rows and any set of faults:

- `Typing`: `TypeOK`, inductive by itself.
- `CompletedIsStored`: `CompletedHasResults`. It is not inductive: the execution that
  completes a run must have stored before (`ResultsInv`), and a request may write the row
  only while no execution works on it (`RequestInv`).
- `PageIsWhole`: `CompletedPageIsWhole` from `TokenInv` (one message becomes one
  execution, which alone writes the run) and `PageInv` (a completed run does not change
  between the reader's two queries).
- `RunLifeHolds`: every step is a step or a stutter of `RunLife`: `LifeStep` for a message
  delivered once, by the same invariant; `RerunStep` afterwards, by `RequestInv`.

## 6. Rate limiter

### What is modelled

The window of one endpoint and user: requests of any number of API hosts and the sorted
set in Redis that the script `_SLIDING_WINDOW_SCRIPT` trims, counts and extends. Other
endpoints and users have other keys and never meet.

| Variable | In the program |
|---|---|
| `now` | Redis's clock, in milliseconds |
| `pc`, `stamp`, `retry` | per request: what became of it, `now_ms` as its host read it, and the Retry-After it was given |
| `entries`, `expires` | the sorted set (each member is its own score, so a set of numbers) and the time `EXPIRE` gave it |
| `allowed`, `latest`, `orderly` | ghosts: stamps that the script let through, the stamp of its last execution, and whether executions followed the stamps |

Reading the clock (`Send`) and the script are separate steps, so requests may reach Redis
in another order than they read their clocks; hosts' clocks differ by up to `Skew`. The
script is one step, as Redis runs it (`Allow`, `Refuse`). A call whose answer is lost has
taken effect and is made again by the client library or given up (`AnswerLost`); one that
does not reach Redis is answered 503 (`NotReached`): the limiter fails closed.

### Properties

- `SetIsBounded`: the set never holds more than the limit.
- `LimitPerWindow`: no window holds more admitted milliseconds than the limit. Stated
  while `orderly`: executions in the order of their stamps, no stamp ahead of Redis, each
  within a second of its stamp. That second is what `EXPIRE key window+1` allows for.
- `RefusedAtLimit`: a request is refused only if the script let the limit through within
  its window, so refused requests use up nobody's limit. A call whose answer was lost has
  used it: `AnswerLost` adds its stamp to the set, and the same request, sent again with
  the same stamp, can be refused for its own entry.
- `RetryAfterIsRight`: a client that waits for Retry-After finds room if nobody else
  came; one that waits a second less does not.

### Run

`rate_limiter`: 3 requests, limit 2, a window of 2 seconds of 3 milliseconds, hosts within
1 millisecond of Redis, 10 milliseconds (`MaxTime`). Three requests are the least that
reach a limit of two. With a second of 3 milliseconds two admitted stamps fit between the
window and the time to live, which a time to live of just the window would lose; 10
milliseconds cover the time to live and a call after it.

### Observations

- The member is the time itself, so requests of one millisecond count once and a burst
  within it is not limited; the properties count milliseconds for this reason.
- Outside `orderly` more than the limit can pass: a host whose clock is ahead trims what
  the others should count, a call delayed by more than a second may find the set expired.
- A call made again after a lost answer meets its own entry, so a request may be refused
  because of itself.

### Proofs (`RateLimiterProofs`)

All four properties and `TypeOK`, for every limit, window, length of a second, difference
of clocks and number of requests. `BoundInv` (the set is finite and bounded) is inductive
and makes Retry-After a natural number (`OldestExists`, `CeilCovers`). `LimitHolds` needs
`WindowInv`: the set contains every admitted stamp that a later execution has to count,
and its expiry comes only after the last of them has left the window. `LimitInv` adds that
each window up to an admitted stamp was within the limit when it was the last.

## 7. Chat turns and sign-in

### What is modelled

`POST /chat/message` and `POST /rag/ask`: any number of requests, and the webhooks Clerk
sends when an account is made. A request is one transaction from the lookup of its user
to the commit of its answer, so the sign-in (`Identity`) and the turn (`ChatTurn`) are
modelled as one process with two program counters.

| Variable | In the program |
|---|---|
| `who`, `member`, `step`, `slug`, `wrote`, `began`, `deliveries` | `Identity`: the account of a session, whether a migration has inserted the role "member", its place in `load_or_create_user`, the slug it reserved, the rows its open transaction inserted, the order in which transactions began (`now()` is the same in all of a transaction's statements), how often a webhook was sent |
| `ask` | the request: the conversation it names, is to make, or (`/rag/ask`) does without; the documents selected; the length of its text |
| `pc` | where the turn is in `post_message` and the RAG graph |
| `rows` | messages flushed in the transaction |
| `recent` | the messages loaded, `list_recent_for_conversation` |
| `filter` | `retrieval_filters` of the plan |
| `items`, `history`, `cites` | the chunks and earlier messages in the prompt, and the citations |
| `answer` | the length of the generated text |

PostgreSQL runs with READ COMMITTED (external): a query sees committed rows and its own;
an insert of a unique key that another open transaction holds waits for it, and fails if
that one commits; `UPDATE` of the conversation's row waits the same way (`Touching`).
Which of two messages with one timestamp comes first is the database's choice
(`ListRecent`). `Retrieve` answers with any result `SearchIsSound` allows. The planner
may want retrieval or not whatever is selected; the rewriting model's query may have any
of the lengths in `Rewritings`, one of them too long to be a search. `Context` computes
what fits and what is cited, `Provider` what each provider makes of a response and which
texts `complete_with_fallback` may end with.

A 401 is `rejected`, every other refusal `refused`. A webhook that is answered with 400,
500 or 503 (the signing key is not configured) is sent again; one whose
`load_or_create_user` raises a `BaseApplicationException`, as it does without the role
"member", is rolled back, logged and answered with 200 (`RoleMissing`,
`ApplicationError`). The exception at the end of that function, for a user that cannot be
read after it was inserted, cannot happen in a transaction that sees its own rows. The
rate limiter's 429 and 503 before all of this are in `RateLimiter`.

### Properties

- `OneUserPerAccount`: an account has at most one user, and no organization is left
  without the user it was made for, however first requests and webhooks interleave.
- `AckedHasUser`: a webhook answered with 200, which Clerk will not send again, has done
  its work, or somebody else had, provided the role "member" exists. Without it the
  webhook is answered 200 and nothing is done, which the model has too. The first
  migration inserts the role (`alembic/versions/initialSchema.py:132`) together with the
  tables, and only its downgrade removes it.
- `AnswerIsGrounded`: an answer has text and cites something, and only chunks of selected
  documents of the user's own organization, through planner, rewriter, filters, caps and
  fallbacks.
- `HistoryIsPast`: the earlier messages in a prompt are committed messages of the same
  conversation, each once, and fit. The question itself is among them only if a later turn
  overtook this one: `assemble_history` drops the question only where it is the last
  message.
- `TurnIsAtomic`: the refinement of `TurnStore`: question, answer and new user become
  durable in one step, with the answer to the client, or nothing does.
- `EveryRequestEnds`: no circle of waiting for rows.

### Runs

| Run | Bounds | What it shows |
|---|---|---|
| `chat` | 2 requests, 1 webhook sent at most twice, 2 accounts, one of them new; five pairs of asks; 3 documents, 2 models, 4 kinds of response of each provider; db and search faults; fairness | the properties above |
| `chat_unanswered` | as `chat`, nothing fails | a question to which nothing is found is refused (finding) |

Bounds. Two requests and a webhook are the least for two kinds of rivals of one insert.
`MCAsks` has each pair of kinds of ask once, as every assignment of accounts is tried.
Two earlier messages, a limit of four and a budget of 120 characters let a turn see
another's pair of messages and trim; `TopK` 1 keeps the searches few, the caps for more
are in `Pipeline`. Documents belong to both accounts, so a filter that fails shows.

Fairness: `WF_vars(Progress)`: some session that can go on does. A session takes finitely
many steps (a webhook is sent at most `MaxDeliveries` times), so this is enough, and it
is what calls with timeouts give. Faults are not fair.

### Findings and observations

- When nothing was found, or the planner wants no retrieval, the fixed reply is built and
  then lost to a `ValidationError` (`orchestration/workflowOrchestrator.py:200`); the
  question is rolled back. Run `chat_unanswered`. The streaming path does the same.
- The history in the prompt is newest first: `assemble_history`
  (`contextAssembly/contextAssemblyRules.py:25-51`) passes chronological rows as
  `rows_newest_first` to `prior_turns_block`, which reverses them and then drops the
  newest when they do not fit. Modelled as it is (`AssembleHistory`).
- `ChatMessageRequest.message` may have one character, `RetrievalSearchRequest.query`
  needs three: a message of one or two characters with documents selected ends in 500.
- All chunks within the cap are cited, those cut from the prompt's text too.
- An event that arrives while the role "member" is missing is answered 200 and lost (`api/v1/webhookRoutes.py:104-112`); the account gets its user with its first
  request.
- A webhook that meets an `IntegrityError` is answered 500 and sent again, which then
  finds the user; two new accounts with one slug base at once end in an error for one.
- Only the first part of Gemini's first candidate is read.

### Proofs (`ChatTurnProofs`)

For any set of requests, webhooks, accounts, documents, chunks, messages, models and
responses, any limits and any set of faults. The assumptions say what the constants are:
limits are at least 1, as `appEnvironment.py` demands, lengths are naturals, and the
earlier messages are not a request's.

- `UsersAreMadeOnce`, `AcknowledgedAccountsHaveUsers`: by `IdentityInv`, which is about the
  open transactions too: which rows each of them has inserted at its step (`RowsByStep`),
  and that no two hold a row of one unique key (`MadeOnce`). A commit then cannot make a
  second user, and a rollback takes an organization and its user together. The second has
  the hypothesis `member` in its property.
- `TurnsAreAtomic`: initial states map to initial states of `TurnStore` and every step to a
  step or a stutter, from `StoreInv`: a request has message rows only at the steps after
  they were flushed, and both of them when it commits (`StoredByStep`).
- `TypesAreKept`, `AnswersAreGrounded`, `PromptsHoldThePast`: by `TurnInv`. It keeps, for
  each step, where the locals came from: the filter is the request's (`ScopedToRequest`),
  what was loaded is committed messages of the conversation in an order the database may
  give (`LoadedByStep`, `RecentIsPast`). `PriorTurnsFit` shows that trimming keeps a
  beginning of the sequence within the budget, `CitationsOfChunks` that deduplicated
  citations are of the same documents and never become empty.

`EveryRequestEnds` is checked by TLC only.

## 8. The pipeline of a document

### What is modelled

One document from the upload to the search, with its contents. A text is a sequence of
atoms of 20 characters, a part (a sentence or a line) a text, a paragraph a set of marks
(the shapes the regular expressions look for) and parts: `Parsing` says what is accepted,
which parser reads it, what it drops and which type each block gets; `Chunking` packs
parts into parents and children as `structureAwareChunker.py` and `parentChildBuilder.py`
do, with their slices and overlaps. Hashes are the texts themselves.

| Variable | In the program |
|---|---|
| `settings`, `env`, `present` | the settings, `APP_ENV` and the secrets that are set: what `AppEnvironment` accepts (`Settings!Starts`) |
| `file`, `pc`, `reason` | the file, how far its document is, why it was rejected or failed |
| `parents`, `children` | what chunking made of it |
| `texts`, `childRows` | the distinct texts to be embedded, the child rows in the open transaction or committed |
| `vectors`, `attempt` | the embeddings there are, and the failed attempts at the next batch |
| `upserted`, `index` | how many vectors this run has upserted; the document's vectors in Pinecone, at first those of an earlier run |
| `swallowed` | whether the purge before the upsert failed, which `_purge_document_vectors` tells nobody |
| `search` | one search, at any moment: what it fetched, what was ready, what it answered |

`Retrieval` ranks in millionths with integers; the similarities, boosts and BM25 scores
are inputs. `Health` gives what `/health` says of the same settings and secrets when every
service answers.

### Properties

- `TextIsKept`: parents are windows of the document's text, in order, to its end, each with
  text of its own; so are the children of each parent; deduplication keeps each text.
- `VectorsMatchTexts`: however batches are cut, retried and lost, each vector that the run
  has upserted stands at the chunk of its own text, whatever was there before. An embedded
  document has all of its texts' and nothing else, unless the purge before the upsert was
  swallowed. A failed document keeps what was upserted and what an earlier run left: the
  purge after a rollback always raises (`AttemptFails`, `UpsertFails`; `Ingestion` shows
  why, run `ingestion_purge`). Its vectors are not answered, as search drops documents
  that are not embedded; `SearchIsSound` has that.
- `SearchIsSound`: answers are ready, in scope, near enough, in order, no near duplicates
  and at most as many as asked; what the vector store returned and is left out is a near
  duplicate of a better answer, or all answers are better.
- `AcceptedIsProcessed`: a process that started in production or staging refuses no
  document for its type or for want of a setting, and in any environment what `/health`
  calls ready is not refused. The two exceptions of the code are part of the statement.

### Run

`pipeline`: eleven kinds of file (of which five are refused), five configurations (three are
refused at the start), five sets of secrets in two environments, batches of one and two
vectors, one search for two documents or one, with faults of the embedding and the vector
store. The files have text that comes again, empty pages, headings, lists, tables, parts
longer than a parent and than a child; overlaps of 0 and of about one atom;
similarities below and above the minimum. An earlier run left three vectors, which is
more than some files have texts, so some of them outlive an upsert when the purge fails.
One search is enough, as searches change nothing. Nothing
here waits, so no fairness is assumed.

### Observations

- Nothing requires Supabase's secrets when original files are kept there: every document
  route then fails (`storage/storageBinding.py:70`); and an upload wants Cloudinary even
  then (`AcceptedIsProcessed` names both).
- `min_tokens`, `chunk_size` and `parent_chunk_size` are settings that the chunker does not
  use; a part longer than the maximum that follows a shorter one is not sliced, and a
  carried overlap can make a chunk longer than the maximum. `TextIsKept` promises no size.
- When the purge before the upsert fails and an earlier run cut the document into more
  chunks (with other settings), the vectors beyond the new ones stay and, as the document
  is then embedded, may be answered.
- `run_embedding_ingest` is documented to upsert child vectors; it embeds the parents' texts.
- A document without texts is shown as embedded and the rows and vectors of an earlier
  run stay.
- Markdown headings have lost their `#` before their type is detected; tables of a DOCX
  file are not read; a text file whose 4096th byte is inside a character is refused.
- The fetch limit is applied before the filters by similarity and readiness, so they can
  leave fewer than `top_k` although more would match. With hybrid retrieval the boosts
  outweigh the fused scores; texts without a word make BM25 divide by zero
  (`RankingFails`).
- `/health` pings Redis and not a broker of its own URL; the migration report is made once
  at start, so `/ready` stays at 503 after a late migration until a restart.

### Proofs (`ChunkingProofs`, `PipelineProofs`)

For all files, settings, secrets, vectors left by an earlier run, hits of other documents,
similarities and requests: none of the bounds of the run is used. The assumptions say what
a file, a hit and a request are, that the settings which are read exist and, beyond what
the settings' own ranges say:

- models have names (`min_length=1` in `core/appEnvironment.py`);
- `child_chunk_size` is at least one atom, 20 characters. The code accepts 10 or more: a
  text of whole atoms cannot be cut below one, so this is the granularity of the model,
  not of the program.

`ChunksKeepTheText` is about `Chunking` alone, for every document and all limits. The
property is defined by a fold that knows only which ends are possible, so the proof keeps
the ends themselves (`Windows`): each piece is the text up to its end, begins no later
than the end before it and ends later. Then the chunker is followed one block at a time
with `Upto`: what was put out covers the text so far to some place, and the chunk that is
being filled is an end of it that begins no later. A flush moves the place to the end
(`FlushKeeps`); an overlap is an end of what was put out (`OverlapEnds`, `CarryEnds`,
`FittingTailEnds`), so it never opens a gap; a part that is too long is cut into slices
that cover it (`SlicesCover`); splitting into sentences keeps the text
(`SentencesText`).

`PipelineProofs` has four inductive invariants, each on top of `StartInv` (what the process
started with never changes):

- `ChunkInv`: after parsing, parents, children, texts and rows are what the operators make
  of the file. `ChunkingKeepsTheText` follows by `ChunksKeepTheText`, and by
  `UniqueTextsKeep` and `FirstRows`: the first of each text has all texts, each once, and
  the parent that a child is moved to has the child's text in it.
- `BatchInv`: the vectors are a beginning of the texts, and the index is what was upserted
  of them followed by what an earlier run left, each short of the end until the step that
  ends its loop. `VectorsMatch` follows; that a batch is not
  empty comes from the range of `embedding_batch_size`.
- `ReasonInv`: why a document was refused determines which secret was missing.
  `AcceptedDocumentsAreProcessed` follows from what strict environments demand; that no
  accepted file is without a parser is `AcceptedHasParser`, over the two tables of types.
- `SearchIsSound` itself. A search is one step, so the work is in the operators:
  `PlacedInOrder` (choosing at each position the member with that many before it sorts a
  finite set), hence `NearestFirst` and `RankedRows` with the strict total orders of the
  two; `OnlyOfMembers` for the filters; `KeptOf`, followed row by row, for the removal of
  near duplicates: what is not kept has a near duplicate before it; and `CutRows`. That a
  row behind the cut has only better ones before it needs the order's transitivity
  (`BeforeIsTransitive`), where the duplicate that removed it was itself cut.

## 9. Proved, checked, not modelled

Proved for all values of the constants: every safety property that a run checks (type
correctness, invariants and action properties of `Ingestion`, `StreamChat`,
`EvaluationRun`, `RateLimiter`, `ChatTurn` and `Pipeline`) and the refinements of
`JobLifecycle`, `ChatProtocol`, `RunLife` and `TurnStore`. The assumptions are the named
ones on the constants in each module; `JobsAreNotAbandoned` has one hypothesis of its own.
Each inductive invariant was an invariant of a TLC run before it was proved.

Induction over data. The library's induction theorems take a predicate as a parameter,
which the installed provers cannot instantiate. `RecursionLemmas` therefore states
induction with sets (`InductionTo`: a set with 0 that goes from n - 1 to n has every number
up to N; `NatHasMinimum`), shows that a recursive function exists and has its equations
(`RecursionTo`), and unfolds the folds of the community modules: `FoldStates` gives, for
the step operator `Op`, the sequence of states that `FoldLeft` goes through, and
`FlattenIsJoined` the same for `FlattenSeq`. The module is instanced once for each fold,
with that fold's step in the place of `Op`.

Only model-checked: liveness (`EveryJobEnds`, `EveryStreamEnds`, `RegistryForgets`,
`EveryRequestEnds`), which is out of the prover's reach, and the five findings, which are
counterexamples of their runs.

Not modelled, and why:

- Metrics, traces, the organization windows and structured logs: no step depends on them.
- Pages that only read (lists of documents, conversations, evaluations, analytics), headers
  and error formats: they keep and change no state.
- The extraction of text by pypdf and python-docx, BM25, embeddings, Clerk, Pinecone and
  the models: third parties, taken by what the code relies on and marked external.
- The wording of prompts, the scores of evaluations (floating-point heuristics) and the
  exact regular expressions: data, of which the properties tell only classes apart.
- Pool sizes and the collection of unclosed sessions, threads left by a timed-out
  embedding: the runtime decides, and the code says nothing of them.
- Alembic migrations: run once, before the program.
