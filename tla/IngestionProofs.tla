--------------------------- MODULE IngestionProofs ---------------------------
(***************************************************************************)
(* Theorems about module Ingestion, for every set of runs, every number of *)
(* retries, batches and message copies, and every combination of faults.   *)
(***************************************************************************)
EXTENDS Ingestion, TLAPS

USE DEF chunkVars

LEMMA Bounds == MaxRetries \in Nat /\ CeleryMaxRetries \in Nat /\ MaxBatches \in Nat
  BY BoundsAssumption

\* Updates of the document's row stay within Document.
LEMMA DocCounted ==
    ASSUME NEW d \in Document, NEW c \in 0 .. MaxBatches
    PROVE  [d EXCEPT !.vectorCount = c] \in Document
  BY DEF Document

LEMMA DocNotEmbedded ==
    ASSUME NEW d \in Document
    PROVE  [d EXCEPT !.embedding = "failed", !.vectorCount = 0] \in Document
<1>1. [d EXCEPT !.embedding = "failed"] \in Document
      BY DEF Document
<1>2. 0 \in 0 .. MaxBatches
      BY Bounds
<1> QED BY <1>1, <1>2, DocCounted

LEMMA DocDeleted ==
    ASSUME NEW d \in Document
    PROVE  [d EXCEPT !.upload = "deleted", !.embedding = "failed", !.vectorCount = 0]
               \in Document
<1>1. [d EXCEPT !.upload = "deleted"] \in Document
      BY DEF Document
<1> QED BY <1>1, DocNotEmbedded

LEMMA DocEmbedded ==
    ASSUME NEW d \in Document, NEW c \in 0 .. MaxBatches
    PROVE  [d EXCEPT !.embedding = "embedded", !.vectorCount = c] \in Document
<1>1. [d EXCEPT !.embedding = "embedded"] \in Document
      BY DEF Document
<1> QED BY <1>1, DocCounted

\* Updates of a run's locals stay within RunState.
LEMMA RunClaims ==
    ASSUME NEW s \in RunState, NEW n \in Attempts
    PROVE  [s EXCEPT !.attempt = n, !.seen = "processing"] \in RunState
<1>1. [s EXCEPT !.attempt = n] \in RunState
      BY DEF RunState
<1> QED BY <1>1 DEF RunState

LEMMA RunClaimsNot ==
    ASSUME NEW s \in RunState, NEW n \in Attempts, NEW e \in Failures
    PROVE  [s EXCEPT !.attempt = n, !.exc = e] \in RunState
  BY DEF RunState

LEMMA RunRaises ==
    ASSUME NEW s \in RunState, NEW e \in {"none"} \cup Failures, NEW x \in BOOLEAN
    PROVE  /\ [s EXCEPT !.exc = e] \in RunState
           /\ [s EXCEPT !.expired = x] \in RunState
           /\ [s EXCEPT !.exc = e, !.expired = x] \in RunState
           /\ [s EXCEPT !.expired = x, !.exc = e] \in RunState
  BY DEF RunState

LEMMA RunBatch ==
    ASSUME NEW s \in RunState, NEW c \in 1 .. MaxBatches + 1
    PROVE  [s EXCEPT !.cursor = c] \in RunState
  BY DEF RunState

LEMMA RunNotes ==
    ASSUME NEW s \in RunState, NEW d \in SUBSET Runs, NEW m \in Runs \cup {None},
           NEW k \in Nat
    PROVE  /\ [s EXCEPT !.dropped = d] \in RunState
           /\ [s EXCEPT !.replaced = m] \in RunState
           /\ [s EXCEPT !.count = k] \in RunState
  BY DEF RunState

LEMMA TypeInit == Init => TypeOK
<1> SUFFICES ASSUME Init PROVE TypeOK
    OBVIOUS
<1>1. doc \in Document /\ vectors \in [1 .. MaxBatches -> Runs \cup {None}]
      BY Bounds DEF Init, Document, NoVectors
<1>2. run \in [Runs -> RunState]
      BY Bounds DEF Init, RunState, Attempts
<1>3. msgs \in [Attempts -> Nat] /\ pc \in [Runs -> RunSteps]
      BY DEF Init, RunSteps
<1> QED BY <1>1, <1>2, <1>3 DEF Init, TypeOK

LEMMA TypeStep == TypeOK /\ [Next]_vars => TypeOK'
<1> SUFFICES ASSUME TypeOK, [Next]_vars PROVE TypeOK'
    OBVIOUS
<1> USE Bounds DEF TypeOK
<1>1. CASE StoreFile
      BY <1>1 DEF StoreFile, jobVars, dataVars
<1>2. CASE StoreFails
      BY <1>2 DEF StoreFails, jobVars
<1>3. CASE CreateJob
      BY <1>3 DEF CreateJob, Document, Active
<1>4. CASE Enqueue
      BY <1>4 DEF Enqueue, jobVars, dataVars, Attempts
<1>5. CASE EnqueueFails
      BY <1>5 DEF EnqueueFails, jobVars, dataVars, Attempts
<1>6. CASE MarkEnqueueFailed
      BY <1>6 DEF MarkEnqueueFailed, MarkFailed, dataVars, Terminal
<1>7. CASE UploadAborts
      BY <1>7 DEF UploadAborts, jobVars, dataVars
<1>8. CASE CancelIngestion
      BY <1>8 DEF CancelIngestion, CancelActive, dataVars, Terminal
<1>9. CASE Redeliver
      BY <1>9 DEF Redeliver, jobVars, dataVars, Attempts
<1>10. ASSUME NEW r \in Runs, Start(r) PROVE TypeOK'
  <2>1. PICK n \in Attempts :
           ClaimNothing(r, n) \/ ClaimNotStored(r, n) \/ ClaimJob(r, n) \/ ClaimError(r, n)
        BY <1>10 DEF Start
  <2>2. CASE ClaimNothing(r, n)
        BY <2>2 DEF ClaimNothing, Take, jobVars, dataVars, RunSteps, Attempts
  <2>3. CASE ClaimNotStored(r, n)
        BY <2>3 DEF ClaimNotStored, Take, dataVars, RunSteps, Attempts, Terminal
  <2>4. CASE ClaimJob(r, n)
    <3>1. run' \in [Runs -> RunState]
          BY <2>4, RunClaims DEF ClaimJob
    <3> QED BY <2>4, <3>1 DEF ClaimJob, Take, dataVars, RunSteps, Attempts
  <2>5. CASE ClaimError(r, n)
    <3>1. PICK e \in Failures : run' = [run EXCEPT ![r].attempt = n, ![r].exc = e]
          BY <2>5 DEF ClaimError
    <3>2. run' \in [Runs -> RunState]
          BY <3>1, RunClaimsNot
    <3> QED BY <2>5, <3>2 DEF ClaimError, Take, jobVars, dataVars, RunSteps, Attempts
  <2> QED BY <2>1, <2>2, <2>3, <2>4, <2>5
<1>11. ASSUME NEW r \in Runs, Ingest(r) PROVE TypeOK'
  <2>1. CASE Fetch(r)
        BY <2>1 DEF Fetch, jobVars, dataVars, RunSteps
  <2>2. CASE FetchTransient(r)
    <3>1. run' \in [Runs -> RunState]
          BY <2>2, RunRaises DEF FetchTransient, Failures
    <3> QED BY <2>2, <3>1 DEF FetchTransient, jobVars, dataVars, RunSteps
  <2>3. CASE FetchFails(r)
        BY <2>3 DEF FetchFails, ReleaseLock, dataVars, RunSteps, Terminal
  <2>4. CASE ParseCommit(r)
        BY <2>4 DEF ParseCommit, ReleaseLock, RunSteps, Document, Active
  <2>5. CASE FailUnparsed(r)
        BY <2>5 DEF FailUnparsed, MarkFailed, dataVars, RunSteps, Terminal
  <2>6. CASE EmbedUnconfigured(r)
    <3>1. doc' \in Document
          BY <2>6, DocNotEmbedded DEF EmbedUnconfigured
    <3> QED BY <2>6, <3>1 DEF EmbedUnconfigured, MarkFailed, RunSteps, Terminal
  <2>7. CASE EmbedNothing(r)
        BY <2>7 DEF EmbedNothing, jobVars, dataVars, RunSteps
  <2>8. CASE DeleteChunks(r) \/ DeleteMetadata(r) \/ InsertRows(r)
    <3>1. run[r] \in RunState /\ rows \in SUBSET Runs /\ meta \in Runs \cup {None}
          OBVIOUS
    <3>2. /\ [run[r] EXCEPT !.dropped = rows] \in RunState
          /\ [run[r] EXCEPT !.replaced = meta] \in RunState
          BY <3>1, RunNotes
    <3>3. run' \in [Runs -> RunState]
          BY <2>8, <3>2 DEF DeleteChunks, DeleteMetadata, InsertRows
    <3> QED BY <2>8, <3>3 DEF DeleteChunks, DeleteMetadata, InsertRows, jobVars, dataVars,
                              RunSteps
  <2>9. CASE EmbedChunks(r)
        BY <2>9 DEF EmbedChunks, jobVars, dataVars, RunSteps
  <2>10. CASE PurgeVectors(r)
    <3>1. 1 \in 1 .. MaxBatches + 1
          BY Bounds
    <3>2. run' \in [Runs -> RunState]
          BY <2>10, <3>1, RunBatch DEF PurgeVectors
    <3> QED BY <2>10, <3>2 DEF PurgeVectors, NoVectors, jobVars, RunSteps
  <2>11. CASE UpsertBatch(r)
    <3>1. cfg.batches \in Nat /\ cfg.batches <= MaxBatches
          BY Bounds DEF Config
    <3>2. run[r].cursor + 1 \in 1 .. MaxBatches + 1
          BY <2>11, <3>1 DEF UpsertBatch, RunState
    <3>3. run' \in [Runs -> RunState]
          BY <2>11, <3>2, RunBatch DEF UpsertBatch
    <3> QED BY <2>11, <3>3 DEF UpsertBatch, jobVars
  <2>12. CASE EmbedFails(r)
    <3>1. PICK e \in Failures :
             run' = [run EXCEPT ![r].expired = TRUE,
                                ![r].exc = IF e = "transient" THEN e ELSE @]
          BY <2>12 DEF EmbedFails
    <3>2. (IF e = "transient" THEN e ELSE run[r].exc) \in {"none"} \cup Failures
          BY DEF RunState
    <3>3. run' \in [Runs -> RunState]
          BY <3>1, <3>2, RunRaises
    <3>4. pc' \in [Runs -> RunSteps]
          BY <2>12 DEF EmbedFails, RunSteps
    <3>5. vectors' \in [1 .. MaxBatches -> Runs \cup {None}]
          BY <2>12 DEF EmbedFails, NoVectors
    <3> QED BY <2>12, <3>3, <3>4, <3>5 DEF EmbedFails, jobVars
  <2>13. CASE MarkEmbedFailed(r)
    <3>1. doc' \in Document /\ run' \in [Runs -> RunState]
          BY <2>13, DocNotEmbedded, RunRaises DEF MarkEmbedFailed
    <3> QED BY <2>13, <3>1 DEF MarkEmbedFailed, MarkFailed, RunSteps, Terminal
  <2>14. CASE Finish(r)
    <3>1. doc' \in Document
          BY <2>14, DocEmbedded DEF Finish, Config
    <3>2. rows' \subseteq Runs /\ meta' \in Runs \cup {None}
          BY <2>14 DEF Finish, CommitRows
    <3> QED BY <2>14, <3>1, <3>2 DEF Finish, MarkCompleted, RunSteps, Terminal
  <2>15. CASE DbError(r)
    <3>1. PICK e \in Failures, x \in BOOLEAN :
             run' = [run EXCEPT ![r].exc = e, ![r].expired = x]
          BY <2>15 DEF DbError, RunState
    <3>2. run' \in [Runs -> RunState]
          BY <3>1, RunRaises
    <3> QED BY <2>15, <3>2 DEF DbError, ReleaseLock, dataVars, RunSteps
  <2>16. CASE CleanupRaises(r)
    <3>1. run' \in [Runs -> RunState]
          BY <2>16, RunRaises DEF CleanupRaises, CloseSession, Failures
    <3> QED BY <2>16, <3>1 DEF CleanupRaises, CloseSession, ReleaseLock, RunSteps
  <2>17. CASE CleanupNothing(r)
        BY <2>17 DEF CleanupNothing, CloseSession, ReleaseLock, RunSteps, RunState
  <2>18. CASE CleanupTemp(r)
    <3>1. doc' \in Document
          BY <2>18, DocDeleted DEF CleanupTemp, Document
    <3>2. run[r].exc \in {"none"} \cup Failures
          BY DEF RunState
    <3>3. run' = [run EXCEPT ![r].exc = run[r].exc]
          BY <2>18 DEF CleanupTemp, CloseSession
    <3>4. run' \in [Runs -> RunState]
          BY <3>2, <3>3, RunRaises
    <3> QED BY <2>18, <3>1, <3>4 DEF CleanupTemp, CloseSession, ReleaseLock, RunSteps
  <2>19. CASE CleanupLost(r)
    <3> DEFINE e == IF run[r].exc = "none" THEN "permanent" ELSE run[r].exc
    <3>1. e \in {"none"} \cup Failures
          BY DEF RunState, Failures
    <3>2. run' = [run EXCEPT ![r].exc = e]
          BY <2>19 DEF CleanupLost, CloseSession
    <3> HIDE DEF e
    <3>3. run' \in [Runs -> RunState]
          BY <3>1, <3>2, RunRaises
    <3> QED BY <2>19, <3>3 DEF CleanupLost, CloseSession, ReleaseLock, RunSteps
  <2>20. CASE ReadRetryCount(r) \/ CountRetry(r)
    <3>1. /\ [run[r] EXCEPT !.count = retryCount] \in RunState
          /\ [run[r] EXCEPT !.count = 0] \in RunState
          BY RunNotes
    <3>2. retryCount' \in Nat
          BY <2>20 DEF ReadRetryCount, CountRetry, RunState, jobVars
    <3>3. run' \in [Runs -> RunState]
          BY <2>20, <3>1 DEF ReadRetryCount, CountRetry
    <3> QED BY <2>20, <3>2, <3>3 DEF ReadRetryCount, CountRetry, jobVars, dataVars, RunSteps
  <2>21. CASE PublishRetry(r)
    <3> DEFINE n == run[r].attempt + 1
    <3>1. msgs' = msgs \/ msgs' = [msgs EXCEPT ![n] = @ + 1]
          BY <2>21 DEF PublishRetry
    <3>2. n \in Attempts => msgs[n] + 1 \in Nat
          OBVIOUS
    <3> HIDE DEF n
    <3>3. msgs' \in [Attempts -> Nat]
          BY <3>1, <3>2
    <3> QED BY <2>21, <3>3 DEF PublishRetry, jobVars, dataVars, RunSteps
  <2>22. CASE FailUnhandled(r)
        BY <2>22 DEF FailUnhandled, MarkFailed, dataVars, RunSteps, Terminal
  <2>23. CASE HandlerFails(r)
        BY <2>23 DEF HandlerFails, jobVars, dataVars, RunSteps
  <2> QED BY <1>11, <2>1, <2>2, <2>3, <2>4, <2>5, <2>6, <2>7, <2>8, <2>9, <2>10, <2>11,
             <2>12, <2>13, <2>14, <2>15, <2>16, <2>17, <2>18, <2>19, <2>20, <2>21,
             <2>22, <2>23 DEF Ingest
<1>12. ASSUME NEW r \in Runs, WorkerCrash(r) PROVE TypeOK'
      BY <1>12 DEF WorkerCrash, ReleaseLock, dataVars, RunSteps
<1>13. CASE UNCHANGED vars
      BY <1>13 DEF vars, jobVars, dataVars
<1> QED BY <1>1, <1>2, <1>3, <1>4, <1>5, <1>6, <1>7, <1>8, <1>9, <1>10, <1>11, <1>12,
           <1>13 DEF Next, Upload

\* Every variable keeps its type: statuses stay within the values of the CHECK
\* constraints, and a run's cursor never leaves the document's batches.
THEOREM Typing == Spec => []TypeOK
<1>1. Init => TypeOK
      BY TypeInit
<1>2. TypeOK /\ [Next]_vars => TypeOK'
      BY TypeStep
<1> QED BY <1>1, <1>2, PTL DEF Spec

(***************************************************************************)
(* The job's status.                                                       *)
(***************************************************************************)
LEMMA StatusStep == TypeOK /\ StatusInv /\ [Next]_vars => StatusInv'
<1> SUFFICES ASSUME TypeOK, StatusInv, [Next]_vars PROVE StatusInv'
    OBVIOUS
<1> USE RunsAssumption
        DEF StatusInv, UploadFirst, LockHolds, WriterOwnsStartedJob, PublishedWhenOver,
            Active, Terminal, PastFirstCommit
<1>1. CASE StoreFile
      BY <1>1 DEF StoreFile, jobVars, dataVars
<1>2. CASE StoreFails
      BY <1>2 DEF StoreFails, jobVars
<1>3. CASE CreateJob
      BY <1>3 DEF CreateJob, TypeOK, Document
<1>4. CASE Enqueue
      BY <1>4 DEF Enqueue, jobVars, dataVars
<1>5. CASE EnqueueFails
      BY <1>5 DEF EnqueueFails, jobVars, dataVars
<1>6. CASE MarkEnqueueFailed
      BY <1>6 DEF MarkEnqueueFailed, MarkFailed, dataVars, TypeOK
<1>7. CASE UploadAborts
      BY <1>7 DEF UploadAborts, jobVars, dataVars
<1>8. CASE CancelIngestion
      BY <1>8 DEF CancelIngestion, CancelActive, dataVars, TypeOK
<1>9. CASE Redeliver
      BY <1>9 DEF Redeliver, jobVars, dataVars
<1>10. ASSUME NEW r \in Runs, Start(r) PROVE StatusInv'
  <2>1. PICK n \in Attempts :
           ClaimNothing(r, n) \/ ClaimNotStored(r, n) \/ ClaimJob(r, n) \/ ClaimError(r, n)
        BY <1>10 DEF Start
  <2>2. CASE ClaimNothing(r, n)
        BY <2>2 DEF ClaimNothing, Take, jobVars, dataVars, TypeOK
  <2>3. CASE ClaimNotStored(r, n)
        BY <2>3 DEF ClaimNotStored, Claimable, Take, dataVars, TypeOK
  <2>4. CASE ClaimJob(r, n)
        BY <2>4 DEF ClaimJob, Claimable, Take, dataVars, TypeOK
  <2>5. CASE ClaimError(r, n)
        BY <2>5 DEF ClaimError, Take, jobVars, dataVars, TypeOK
  <2> QED BY <2>1, <2>2, <2>3, <2>4, <2>5
<1>11. ASSUME NEW r \in Runs, Ingest(r) PROVE StatusInv'
  <2>1. CASE Fetch(r)
        BY <2>1 DEF Fetch, JobIsCancelled, jobVars, dataVars, TypeOK
  <2>2. CASE FetchTransient(r)
        BY <2>2 DEF FetchTransient, jobVars, dataVars, TypeOK
  <2>3. CASE FetchFails(r)
        BY <2>3 DEF FetchFails, ReleaseLock, dataVars, TypeOK
  <2>4. CASE ParseCommit(r)
        BY <2>4 DEF ParseCommit, ReleaseLock, JobIsCancelled, TypeOK, Document
  <2>5. CASE FailUnparsed(r)
        BY <2>5 DEF FailUnparsed, MarkFailed, dataVars, TypeOK
  <2>6. CASE EmbedUnconfigured(r)
        BY <2>6 DEF EmbedUnconfigured, MarkFailed, TypeOK, Document
  <2>7. CASE EmbedNothing(r)
        BY <2>7 DEF EmbedNothing, jobVars, dataVars, TypeOK
  <2>8. CASE DeleteChunks(r) \/ DeleteMetadata(r) \/ InsertRows(r)
        BY <2>8 DEF DeleteChunks, DeleteMetadata, InsertRows, jobVars, dataVars, TypeOK
  <2>9. CASE EmbedChunks(r)
        BY <2>9 DEF EmbedChunks, jobVars, dataVars, TypeOK
  <2>10. CASE PurgeVectors(r)
        BY <2>10 DEF PurgeVectors, jobVars, TypeOK
  <2>11. CASE UpsertBatch(r)
        BY <2>11 DEF UpsertBatch, jobVars, TypeOK
  <2>12. CASE EmbedFails(r)
        BY <2>12 DEF EmbedFails, HasChunkTx, jobVars, TypeOK
  <2>13. CASE MarkEmbedFailed(r)
        BY <2>13 DEF MarkEmbedFailed, MarkFailed, TypeOK, Document
  <2>14. CASE Finish(r)
        BY <2>14 DEF Finish, MarkCompleted, JobIsCancelled, TypeOK, Document, RunState
  <2>15. CASE DbError(r)
        BY <2>15 DEF DbError, ReleaseLock, dataVars, TypeOK
  <2>16. CASE CleanupRaises(r)
        BY <2>16 DEF CleanupRaises, CloseSession, ReleaseLock, TypeOK
  <2>17. CASE CleanupNothing(r)
        BY <2>17 DEF CleanupNothing, CloseSession, ReleaseLock, TypeOK
  <2>18. CASE CleanupTemp(r)
        BY <2>18 DEF CleanupTemp, CloseSession, ReleaseLock, TypeOK, Document
  <2>19. CASE CleanupLost(r)
        BY <2>19 DEF CleanupLost, CloseSession, ReleaseLock, TypeOK
  <2>20. CASE ReadRetryCount(r) \/ CountRetry(r)
        BY <2>20 DEF ReadRetryCount, CountRetry, jobVars, dataVars, TypeOK
  <2>21. CASE PublishRetry(r)
        BY <2>21 DEF PublishRetry, jobVars, dataVars, TypeOK
  <2>22. CASE FailUnhandled(r)
        BY <2>22 DEF FailUnhandled, MarkFailed, dataVars, TypeOK
  <2>23. CASE HandlerFails(r)
        BY <2>23 DEF HandlerFails, jobVars, dataVars, TypeOK
  <2> QED BY <1>11, <2>1, <2>2, <2>3, <2>4, <2>5, <2>6, <2>7, <2>8, <2>9, <2>10, <2>11,
             <2>12, <2>13, <2>14, <2>15, <2>16, <2>17, <2>18, <2>19, <2>20, <2>21,
             <2>22, <2>23 DEF Ingest
<1>12. ASSUME NEW r \in Runs, WorkerCrash(r) PROVE StatusInv'
      BY <1>12 DEF WorkerCrash, ReleaseLock, dataVars, TypeOK
<1>13. CASE UNCHANGED vars
      BY <1>13 DEF vars
<1> QED BY <1>1, <1>2, <1>3, <1>4, <1>5, <1>6, <1>7, <1>8, <1>9, <1>10, <1>11, <1>12,
           <1>13 DEF Next, Upload

LEMMA StatusInvariant == Spec => [](TypeOK /\ StatusInv)
<1>1. Init => TypeOK /\ StatusInv
      BY TypeInit, RunsAssumption
      DEF Init, StatusInv, UploadFirst, LockHolds, WriterOwnsStartedJob,
          PublishedWhenOver, PastFirstCommit
<1>2. TypeOK /\ StatusInv /\ [Next]_vars => (TypeOK /\ StatusInv)'
      BY TypeStep, StatusStep
<1> QED BY <1>1, <1>2, PTL DEF Spec

\* The job's row lock keeps every other writer of the status out from the claim to the
\* first commit, with any number of resumed runs, cancel requests and failed enqueues.
THEOREM LockExcludes == Spec => []LockHolds
  BY StatusInvariant, PTL DEF StatusInv

\* No run is past its first commit while the job could still be claimed as new.
THEOREM WritersStarted == Spec => []WriterOwnsStartedJob
  BY StatusInvariant, PTL DEF StatusInv

(***************************************************************************)
(* The detailed run implements JobLifecycle.                               *)
(***************************************************************************)
LEMMA LifecycleStep ==
    TypeOK /\ StatusInv /\ [Next]_vars
        => [Lifecycle!Next]_<<job, doc.embedding = "embedded">>
<1> DEFINE View == <<job, doc.embedding = "embedded">>
<1> SUFFICES ASSUME TypeOK, StatusInv, [Next]_vars
             PROVE  Lifecycle!Next \/ UNCHANGED View
    OBVIOUS
<1> USE DEF Active, Terminal, Lifecycle!Next, Lifecycle!Active, Lifecycle!Terminal
<1>1. ASSUME UNCHANGED <<job, doc>> PROVE UNCHANGED View
      BY <1>1
<1>2. CASE CreateJob
      BY <1>2 DEF CreateJob, StatusInv, UploadFirst, PublishedWhenOver, TypeOK, Document,
                  Lifecycle!Create
<1>3. CASE MarkEnqueueFailed \/ CancelIngestion
      BY <1>3 DEF MarkEnqueueFailed, CancelIngestion, MarkFailed, CancelActive, dataVars,
                  Lifecycle!Abort
<1>4. CASE StoreFile \/ StoreFails \/ Enqueue \/ EnqueueFails \/ UploadAborts \/ Redeliver
      BY <1>1, <1>4 DEF StoreFile, StoreFails, Enqueue, EnqueueFails, UploadAborts,
                        Redeliver, jobVars, dataVars
<1>5. ASSUME NEW r \in Runs, Start(r) PROVE Lifecycle!Next \/ UNCHANGED View
  <2>1. PICK n \in Attempts :
           ClaimNothing(r, n) \/ ClaimNotStored(r, n) \/ ClaimJob(r, n) \/ ClaimError(r, n)
        BY <1>5 DEF Start
  <2>2. CASE ClaimNotStored(r, n)
        BY <2>2 DEF ClaimNotStored, Claimable, dataVars, Lifecycle!Abort
  <2>3. CASE ClaimNothing(r, n) \/ ClaimJob(r, n) \/ ClaimError(r, n)
        BY <1>1, <2>3 DEF ClaimNothing, ClaimJob, ClaimError, jobVars, dataVars
  <2> QED BY <2>1, <2>2, <2>3
<1>6. ASSUME NEW r \in Runs, Ingest(r) PROVE Lifecycle!Next \/ UNCHANGED View
  <2>1. CASE FetchFails(r)
        BY <2>1 DEF FetchFails, StatusInv, LockHolds, dataVars, Lifecycle!Abort
  <2>2. CASE ParseCommit(r)
    <3>1. job \in Active /\ doc.embedding # "embedded"
          BY <2>2 DEF ParseCommit, StatusInv, LockHolds, PublishedWhenOver
    <3>2. doc'.embedding # "embedded" /\ job' = "processing"
          BY <2>2, <3>1 DEF ParseCommit, TypeOK, Document
    <3> QED BY <3>1, <3>2 DEF Lifecycle!Begin
  <2>3. CASE FailUnparsed(r) \/ FailUnhandled(r)
        BY <2>3 DEF FailUnparsed, FailUnhandled, MarkFailed, dataVars, Lifecycle!Abort
  <2>4. CASE EmbedUnconfigured(r) \/ MarkEmbedFailed(r)
    <3>1. doc'.embedding = "failed" /\ job' = MarkFailed(job)
          BY <2>4 DEF EmbedUnconfigured, MarkEmbedFailed, TypeOK, Document
    <3>2. job \in Active \cup Terminal
          BY <2>4 DEF EmbedUnconfigured, MarkEmbedFailed, StatusInv,
                      WriterOwnsStartedJob, PastFirstCommit, TypeOK
    <3>3. CASE job \in Active
          BY <3>1, <3>3 DEF MarkFailed, StatusInv, PublishedWhenOver, Lifecycle!Abort
    <3>4. CASE job \in Terminal
          BY <3>1, <3>4 DEF MarkFailed, Lifecycle!Republish
    <3> QED BY <3>2, <3>3, <3>4
  <2>5. CASE Finish(r)
    <3>1. doc'.embedding = "embedded" /\ job' = MarkCompleted(job)
          BY <2>5 DEF Finish, JobIsCancelled, TypeOK, Document, RunState
    <3>2. job \in {"processing"} \cup Terminal
          BY <2>5 DEF Finish, StatusInv, WriterOwnsStartedJob, PastFirstCommit, TypeOK
    <3> QED BY <3>1, <3>2 DEF MarkCompleted, Lifecycle!Complete, Lifecycle!Republish
  <2>6. CASE CleanupTemp(r)
    <3>1. job' = job /\ (doc'.embedding = doc.embedding \/ doc'.embedding = "failed")
          BY <2>6 DEF CleanupTemp, CloseSession, TypeOK, Document
    <3> QED BY <3>1 DEF StatusInv, PublishedWhenOver, Lifecycle!Republish
  <2>7. CASE \/ Fetch(r) \/ FetchTransient(r) \/ EmbedNothing(r) \/ DeleteChunks(r)
             \/ DeleteMetadata(r) \/ InsertRows(r)
             \/ EmbedChunks(r) \/ PurgeVectors(r) \/ UpsertBatch(r) \/ EmbedFails(r)
             \/ DbError(r) \/ CleanupRaises(r) \/ CleanupNothing(r) \/ CleanupLost(r)
             \/ ReadRetryCount(r) \/ CountRetry(r) \/ PublishRetry(r) \/ HandlerFails(r)
        BY <1>1, <2>7
        DEF Fetch, FetchTransient, EmbedNothing, DeleteChunks, DeleteMetadata, InsertRows,
            EmbedChunks, PurgeVectors, UpsertBatch, EmbedFails, DbError,
            CleanupRaises, CleanupNothing, CleanupLost,
            CloseSession, ReadRetryCount, CountRetry, PublishRetry, HandlerFails, jobVars, dataVars
  <2> QED BY <1>6, <2>1, <2>2, <2>3, <2>4, <2>5, <2>6, <2>7 DEF Ingest
<1>7. ASSUME NEW r \in Runs, WorkerCrash(r) PROVE UNCHANGED View
      BY <1>1, <1>7 DEF WorkerCrash, dataVars
<1>8. CASE UNCHANGED vars
      BY <1>1, <1>8 DEF vars
<1> QED BY <1>2, <1>3, <1>4, <1>5, <1>6, <1>7, <1>8 DEF Next, Upload

\* Whatever runs, cancel requests, retries, redeliveries and crashes do, a client that
\* polls the job and its document sees a behaviour of JobLifecycle.
THEOREM ClientViewHolds == Spec => ClientView
<1>1. Init => Lifecycle!Init
      BY DEF Init, Lifecycle!Init
<1> QED BY <1>1, StatusInvariant, LifecycleStep, PTL DEF Spec, ClientView, Lifecycle!Spec

\* An ended job never changes status again, nor is it revived by a late retry.
THEOREM EndedStaysEnded == Spec => TerminalIsFinal
<1>1. TypeOK /\ StatusInv /\ [Next]_vars => [(job \in Terminal) => (job' = job)]_job
      BY LifecycleStep
      DEF Active, Terminal, Lifecycle!Next, Lifecycle!Create, Lifecycle!Begin, Lifecycle!Abort,
          Lifecycle!Complete, Lifecycle!Republish, Lifecycle!Active, Lifecycle!Terminal
<1> QED BY <1>1, StatusInvariant, PTL DEF Spec, TerminalIsFinal

(***************************************************************************)
(* The task, followed from the request through the broker and its runs: what*)
(* holds while every message is delivered once, and what holds while nothing*)
(* fails.                                                                  *)
(***************************************************************************)

(***************************************************************************)
(* What one step may change.                                               *)
(***************************************************************************)
\* The requests and the broker touch no run, no chunk row and no vector.
Surroundings == Upload \/ CancelIngestion \/ Redeliver

LEMMA SurroundingsFrame ==
    TypeOK /\ Surroundings =>
        UNCHANGED <<cfg, rows, vectors, pc, run>> /\ doc' \in {doc, [doc EXCEPT !.upload = "stored"]}
  BY DEF Surroundings, Upload, StoreFile, StoreFails, CreateJob, Enqueue, EnqueueFails,
         MarkEnqueueFailed, UploadAborts, CancelIngestion, Redeliver, dataVars, jobVars

\* A run that starts takes a message and leaves the data alone.
LEMMA StartFrame ==
    ASSUME TypeOK, NEW r \in Runs, Start(r)
    PROVE  /\ UNCHANGED <<cfg, dataVars, api>>
           /\ pc[r] = "idle"
           /\ \E n \in Attempts : msgs[n] > 0 /\ msgs' = [msgs EXCEPT ![n] = @ - 1]
           /\ \E p \in {"done", "fetch", "exit"} : pc' = [pc EXCEPT ![r] = p]
           /\ \A q \in Runs \ {r} : run'[q] = run[q]
<1>1. PICK n \in Attempts :
         ClaimNothing(r, n) \/ ClaimNotStored(r, n) \/ ClaimJob(r, n) \/ ClaimError(r, n)
      BY DEF Start
<1> QED BY <1>1 DEF ClaimNothing, ClaimNotStored, ClaimJob, ClaimError, Take, jobVars,
                    dataVars, TypeOK

\* A run at work acts on its own locals.
LEMMA IngestFrame ==
    ASSUME TypeOK, NEW r \in Runs, Ingest(r)
    PROVE  /\ UNCHANGED <<cfg, api>>
           /\ InProgress(r) /\ pc'[r] # "idle"
           /\ ~PublishRetry(r) => msgs' = msgs
           /\ \A q \in Runs \ {r} : run'[q] = run[q] /\ pc'[q] = pc[q]
<1> USE DEF InProgress, jobVars, dataVars
<1>1. pc \in [Runs -> RunSteps] /\ run \in [Runs -> RunState] /\ doc \in Document
      BY DEF TypeOK
<1>2. CASE Fetch(r) \/ FetchTransient(r) \/ FetchFails(r) \/ ParseCommit(r) \/ FailUnparsed(r)
      BY <1>1, <1>2 DEF Fetch, FetchTransient, FetchFails, ParseCommit, FailUnparsed
<1>3. CASE \/ EmbedUnconfigured(r) \/ EmbedNothing(r) \/ DeleteChunks(r)
           \/ DeleteMetadata(r) \/ InsertRows(r) \/ EmbedChunks(r)
           \/ PurgeVectors(r) \/ UpsertBatch(r)
      BY <1>1, <1>3 DEF EmbedUnconfigured, EmbedNothing, DeleteChunks, DeleteMetadata,
                        InsertRows, EmbedChunks, PurgeVectors,
                  UpsertBatch
<1>4. CASE EmbedFails(r)
      BY <1>1, <1>4 DEF EmbedFails, HasChunkTx
<1>5. CASE MarkEmbedFailed(r) \/ DbError(r)
      BY <1>1, <1>5 DEF MarkEmbedFailed, DbError
<1>6. CASE Finish(r)
      BY <1>1, <1>6 DEF Finish
<1>7. CASE CleanupRaises(r) \/ CleanupNothing(r) \/ CleanupTemp(r) \/ CleanupLost(r)
      BY <1>1, <1>7 DEF CleanupRaises, CleanupNothing, CleanupTemp, CleanupLost, CloseSession
<1>8. CASE \/ ReadRetryCount(r) \/ CountRetry(r) \/ PublishRetry(r) \/ FailUnhandled(r)
           \/ HandlerFails(r)
      BY <1>1, <1>8 DEF ReadRetryCount, CountRetry, PublishRetry, FailUnhandled, HandlerFails
<1> QED BY <1>2, <1>3, <1>4, <1>5, <1>6, <1>7, <1>8 DEF Ingest

LEMMA CrashFrame ==
    ASSUME TypeOK, NEW r \in Runs, WorkerCrash(r)
    PROVE  /\ UNCHANGED <<cfg, dataVars, api, msgs, run, job>>
           /\ InProgress(r) /\ pc' = [pc EXCEPT ![r] = "done"]
  BY DEF WorkerCrash, InProgress, TypeOK

LEMMA WorldIsRigid == TypeOK /\ [Next]_vars => cfg' = cfg
  BY SurroundingsFrame, StartFrame, IngestFrame, CrashFrame DEF Next, Surroundings, vars

(***************************************************************************)
(* The task is in one place at a time.                                     *)
(***************************************************************************)
LEMMA HandedStep == TypeOK /\ Handed /\ [Next]_vars => Handed'
<1> SUFFICES ASSUME TypeOK, Handed, [Next]_vars, DeliveredOnce'
             PROVE  /\ Unsent' => (\A n \in Attempts : msgs'[n] = 0) /\ (\A r \in Runs : pc'[r] = "idle")
                    /\ \A n \in Attempts : msgs'[n] > 0 =>
                          /\ msgs'[n] = 1 /\ \A m \in Attempts : msgs'[m] > 0 => m = n
                          /\ \A r \in Runs : ~InProgress(r)'
                    /\ \A q, r \in Runs : InProgress(q)' /\ InProgress(r)' => q = r
    BY DEF Handed, OneRunAtATime
<1>1. DeliveredOnce
      BY WorldIsRigid DEF DeliveredOnce, Faults
<1> USE <1>1 DEF Handed, OneRunAtATime, InProgress, Unsent
<1>2. CASE Surroundings
  <2>1. UNCHANGED pc
        BY <1>2, SurroundingsFrame
  <2>2. CASE UNCHANGED msgs /\ (Unsent' => Unsent)
        BY <2>1, <2>2
  <2>3. CASE Enqueue
        BY <2>1, <2>3, Bounds DEF Enqueue, TypeOK, Attempts
  <2>4. CASE EnqueueFails
        BY <2>1, <2>4, Bounds DEF EnqueueFails, TypeOK, Attempts
  <2>5. CASE \/ StoreFile \/ StoreFails \/ CreateJob \/ MarkEnqueueFailed \/ UploadAborts
             \/ CancelIngestion
        BY <2>2, <2>5 DEF StoreFile, StoreFails, CreateJob, MarkEnqueueFailed, UploadAborts,
                          CancelIngestion
  <2>6. ~Redeliver
        BY DEF Redeliver, DeliveredOnce
  <2> QED BY <1>2, <2>3, <2>4, <2>5, <2>6 DEF Surroundings, Upload
<1>3. ASSUME NEW r \in Runs, Start(r)
      PROVE  /\ ~Unsent'
             /\ \A n \in Attempts : msgs'[n] = 0
             /\ \A q \in Runs : InProgress(q)' => q = r
  <2>1. PICK n \in Attempts : msgs[n] > 0 /\ msgs' = [msgs EXCEPT ![n] = @ - 1]
        BY <1>3, StartFrame
  <2>2. \A m \in Attempts : msgs'[m] = 0
        BY <2>1, Bounds DEF TypeOK, Attempts
  <2> QED BY <1>3, <2>1, <2>2, StartFrame DEF TypeOK
<1>4. ASSUME NEW r \in Runs, Ingest(r)
      PROVE  /\ ~Unsent'
             /\ \A n \in Attempts : msgs'[n] > 0 =>
                   /\ msgs'[n] = 1 /\ \A m \in Attempts : msgs'[m] > 0 => m = n
                   /\ ~InProgress(r)'
             /\ \A q \in Runs : InProgress(q)' => q = r
  <2>1. ~Unsent /\ (\A n \in Attempts : msgs[n] = 0)
        BY <1>4, IngestFrame DEF TypeOK
  <2>2. CASE PublishRetry(r)
        BY <2>1, <2>2, <1>4, IngestFrame, Bounds DEF PublishRetry, TypeOK, Attempts
  <2>3. CASE ~PublishRetry(r)
        BY <2>1, <2>3, <1>4, IngestFrame
  <2> QED BY <2>2, <2>3
<1>5. ASSUME NEW r \in Runs, WorkerCrash(r)
      PROVE  /\ ~Unsent'
             /\ \A n \in Attempts : msgs'[n] = 0
             /\ \A q \in Runs : ~InProgress(q)'
      BY <1>5, CrashFrame DEF TypeOK
<1>6. CASE UNCHANGED vars
      BY <1>6 DEF vars
<1> QED BY <1>2, <1>3, <1>4, <1>5, <1>6 DEF Next, Surroundings

\* While the broker delivers every message once the retry chain is a single thread:
\* two runs of the job are never in progress together.
THEOREM RunsOneAtATime == Spec => []OneRunAtATime
<1>1. Init => TypeOK /\ Handed
      BY TypeInit DEF Init, Handed, OneRunAtATime, InProgress
<1>2. TypeOK /\ Handed /\ [Next]_vars => (TypeOK /\ Handed)'
      BY TypeStep, HandedStep
<1>3. Handed => OneRunAtATime
      BY DEF Handed, OneRunAtATime
<1> QED BY <1>1, <1>2, <1>3, PTL DEF Spec

(***************************************************************************)
(* Retries.                                                                *)
(***************************************************************************)
LEMMA AttemptKept ==
    ASSUME NEW s \in RunState, NEW v
    PROVE  /\ [s EXCEPT !.exc = v].attempt = s.attempt
           /\ [s EXCEPT !.expired = v].attempt = s.attempt
           /\ [s EXCEPT !.cursor = v].attempt = s.attempt
           /\ [s EXCEPT !.dropped = v].attempt = s.attempt
           /\ [s EXCEPT !.replaced = v].attempt = s.attempt
           /\ [s EXCEPT !.count = v].attempt = s.attempt
  BY DEF RunState

LEMMA AttemptKeptRaising ==
    ASSUME NEW s \in RunState, NEW e, NEW x
    PROVE  /\ [s EXCEPT !.exc = e, !.expired = x].attempt = s.attempt
           /\ [s EXCEPT !.expired = x, !.exc = e].attempt = s.attempt
  BY DEF RunState

\* Outside the task's handler no run counts, publishes or changes its attempt.
LEMMA RetryFrame ==
    ASSUME TypeOK, NEW r \in Runs, Ingest(r),
           ~ReadRetryCount(r), ~CountRetry(r), ~PublishRetry(r)
    PROVE  /\ retryCount' = retryCount /\ run'[r].attempt = run[r].attempt
           /\ pc'[r] \notin {"count", "publish"} /\ (pc[r] = "publish" => pc'[r] = "done")
<1> USE DEF TypeOK, jobVars
<1>1. CASE \/ Fetch(r) \/ FetchFails(r) \/ ParseCommit(r) \/ FailUnparsed(r)
           \/ EmbedUnconfigured(r) \/ EmbedNothing(r) \/ InsertRows(r) \/ EmbedChunks(r)
           \/ Finish(r) \/ FailUnhandled(r) \/ HandlerFails(r)
      BY <1>1 DEF Fetch, FetchFails, ParseCommit, FailUnparsed, EmbedUnconfigured,
                  EmbedNothing, InsertRows, EmbedChunks, Finish, FailUnhandled, HandlerFails
<1>2. CASE FetchTransient(r) \/ MarkEmbedFailed(r)
  <2>1. /\ [run[r] EXCEPT !.exc = "transient"].attempt = run[r].attempt
        /\ [run[r] EXCEPT !.expired = FALSE].attempt = run[r].attempt
        BY AttemptKept
  <2>2. run'[r].attempt = run[r].attempt
        BY <1>2, <2>1 DEF FetchTransient, MarkEmbedFailed
  <2> QED BY <1>2, <2>2 DEF FetchTransient, MarkEmbedFailed
<1>3. CASE DeleteChunks(r) \/ DeleteMetadata(r) \/ PurgeVectors(r) \/ UpsertBatch(r)
  <2>1. PICK v : \/ run'[r] = [run[r] EXCEPT !.dropped = v]
                 \/ run'[r] = [run[r] EXCEPT !.replaced = v]
                 \/ run'[r] = [run[r] EXCEPT !.cursor = v]
        BY <1>3 DEF DeleteChunks, DeleteMetadata, PurgeVectors, UpsertBatch
  <2>2. /\ [run[r] EXCEPT !.dropped = v].attempt = run[r].attempt
        /\ [run[r] EXCEPT !.replaced = v].attempt = run[r].attempt
        /\ [run[r] EXCEPT !.cursor = v].attempt = run[r].attempt
        BY AttemptKept
  <2>3. run'[r].attempt = run[r].attempt
        BY <2>1, <2>2
  <2> QED BY <1>3, <2>3 DEF DeleteChunks, DeleteMetadata, PurgeVectors, UpsertBatch
<1>4. CASE EmbedFails(r)
  <2>1. PICK e : run' = [run EXCEPT ![r].expired = TRUE, ![r].exc = e]
        BY <1>4 DEF EmbedFails
  <2> QED BY <1>4, <2>1, AttemptKeptRaising DEF EmbedFails, HasChunkTx
<1>5. CASE DbError(r)
  <2>1. PICK e, x : run' = [run EXCEPT ![r].exc = e, ![r].expired = x]
        BY <1>5 DEF DbError
  <2> QED BY <1>5, <2>1, AttemptKeptRaising DEF DbError
<1>6. CASE CleanupRaises(r) \/ CleanupNothing(r) \/ CleanupTemp(r) \/ CleanupLost(r)
  <2>1. PICK e : /\ run' = [run EXCEPT ![r].exc = e]
                 /\ pc' = [pc EXCEPT ![r] = IF e = "none" THEN "done" ELSE "exit"]
        BY <1>6 DEF CleanupRaises, CleanupNothing, CleanupTemp, CleanupLost, CloseSession
  <2>2. pc[r] = "cleanup" /\ retryCount' = retryCount
        BY <1>6 DEF CleanupRaises, CleanupNothing, CleanupTemp, CleanupLost, CloseSession
  <2> QED BY <2>1, <2>2, AttemptKept
<1> QED BY <1>1, <1>2, <1>3, <1>4, <1>5, <1>6 DEF Ingest

LEMMA RetryStep == TypeOK /\ RetryInv /\ [Next]_vars => RetryInv'
<1> SUFFICES ASSUME TypeOK, RetryInv, [Next]_vars, DeliveredOnce'
             PROVE  /\ \A n \in Attempts : msgs'[n] > 0 => retryCount' = n
                    /\ \A r \in Runs : InProgress(r)' =>
                          retryCount' = run'[r].attempt + IF pc'[r] = "publish" THEN 1 ELSE 0
                    /\ Unsent' => retryCount' = 0
                    /\ \A r \in Runs : pc'[r] = "count" => run'[r].count = retryCount'
    BY HandedStep DEF RetryInv, RetryAccounted, CountUpToDate
<1>1. DeliveredOnce
      BY WorldIsRigid DEF DeliveredOnce, Faults
<1>2. /\ \A n \in Attempts : msgs[n] > 0 => retryCount = n
      /\ \A r \in Runs : InProgress(r) =>
            retryCount = run[r].attempt + IF pc[r] = "publish" THEN 1 ELSE 0
      /\ Unsent => retryCount = 0
      /\ \A r \in Runs : pc[r] = "count" => run[r].count = retryCount
      BY <1>1 DEF RetryInv, RetryAccounted, CountUpToDate
<1>3. CASE Surroundings \/ UNCHANGED vars
  <2>1. UNCHANGED <<pc, run, retryCount>>
        BY <1>3, SurroundingsFrame
        DEF Surroundings, Upload, StoreFile, StoreFails, CreateJob, Enqueue, EnqueueFails,
            MarkEnqueueFailed, UploadAborts, CancelIngestion, Redeliver, jobVars, vars
  <2>2. (Unsent' => Unsent) /\ \A n \in Attempts : msgs'[n] > 0 => msgs[n] > 0 \/ (Unsent /\ n = 0)
        BY <1>1, <1>3
        DEF Surroundings, Upload, StoreFile, StoreFails, CreateJob, Enqueue, EnqueueFails,
            MarkEnqueueFailed, UploadAborts, CancelIngestion, Redeliver, DeliveredOnce,
            Unsent, TypeOK, vars
  <2> QED BY <1>2, <2>1, <2>2 DEF InProgress
<1>4. ASSUME NEW r \in Runs,
             \A q \in Runs \ {r} : ~InProgress(q)',
             ~Unsent',
             \A n \in Attempts : msgs'[n] > 0 => retryCount' = n,
             InProgress(r)' => retryCount' = run'[r].attempt + IF pc'[r] = "publish" THEN 1 ELSE 0,
             pc'[r] = "count" => run'[r].count = retryCount'
      PROVE  /\ \A n \in Attempts : msgs'[n] > 0 => retryCount' = n
             /\ \A q \in Runs : InProgress(q)' =>
                   retryCount' = run'[q].attempt + IF pc'[q] = "publish" THEN 1 ELSE 0
             /\ Unsent' => retryCount' = 0
             /\ \A q \in Runs : pc'[q] = "count" => run'[q].count = retryCount'
      BY <1>4 DEF InProgress
<1>5. ASSUME NEW r \in Runs, Start(r)
      PROVE  /\ \A q \in Runs \ {r} : ~InProgress(q)'
             /\ ~Unsent' /\ \A n \in Attempts : ~(msgs'[n] > 0)
             /\ InProgress(r)' => retryCount' = run'[r].attempt
             /\ pc'[r] \notin {"publish", "count"}
  <2>1. PICK n \in Attempts :
           ClaimNothing(r, n) \/ ClaimNotStored(r, n) \/ ClaimJob(r, n) \/ ClaimError(r, n)
        BY <1>5 DEF Start
  <2>2. msgs[n] > 0 /\ msgs' = [msgs EXCEPT ![n] = @ - 1] /\ ~Unsent
        BY <1>1, <2>1 DEF ClaimNothing, ClaimNotStored, ClaimJob, ClaimError, Take, RetryInv, Handed
  <2>3. /\ msgs[n] = 1 /\ \A m \in Attempts : msgs[m] > 0 => m = n
        /\ \A q \in Runs : ~InProgress(q)
        BY <1>1, <2>2 DEF RetryInv, Handed
  <2>4. \A m \in Attempts : ~(msgs'[m] > 0)
        BY <2>2, <2>3 DEF TypeOK
  <2>5. retryCount' = retryCount /\ retryCount = n
        BY <1>2, <2>1, <2>2 DEF ClaimNothing, ClaimNotStored, ClaimJob, ClaimError, jobVars
  <2>6. pc'[r] # "done" => run'[r].attempt = n
        BY <2>1 DEF ClaimNothing, ClaimNotStored, ClaimJob, ClaimError, TypeOK, RunState
  <2> QED BY <1>5, <2>2, <2>3, <2>4, <2>5, <2>6, StartFrame DEF InProgress, Unsent, TypeOK
<1>6. ASSUME NEW r \in Runs, Ingest(r)
      PROVE  /\ \A q \in Runs \ {r} : ~InProgress(q)'
             /\ ~Unsent'
             /\ \A n \in Attempts : msgs'[n] > 0 => retryCount' = n
             /\ InProgress(r)' => retryCount' = run'[r].attempt + IF pc'[r] = "publish" THEN 1 ELSE 0
             /\ pc'[r] = "count" => run'[r].count = retryCount'
  <2>1. /\ InProgress(r) /\ ~Unsent /\ \A n \in Attempts : ~(msgs[n] > 0)
        /\ \A q \in Runs \ {r} : ~InProgress(q)
        BY <1>1, <1>6, IngestFrame DEF RetryInv, Handed, OneRunAtATime, InProgress
  <2>2. ~Unsent' /\ \A q \in Runs \ {r} : ~InProgress(q)'
        BY <1>6, <2>1, IngestFrame DEF Unsent, InProgress
  <2>3. /\ run[r] \in RunState /\ run[r].attempt \in Nat
        /\ retryCount = run[r].attempt + IF pc[r] = "publish" THEN 1 ELSE 0
        BY <1>2, <2>1, Bounds DEF TypeOK, RunState, Attempts
  <2>4. CASE ReadRetryCount(r)
    <3>1. run'[r].attempt = run[r].attempt /\ run'[r].count = retryCount
          BY <2>3, <2>4 DEF ReadRetryCount, TypeOK, RunState
    <3>2. /\ msgs' = msgs /\ retryCount' = retryCount
          /\ pc[r] = "exit" /\ pc'[r] = "count"
          BY <2>4 DEF ReadRetryCount, TypeOK, jobVars
    <3> QED BY <2>1, <2>2, <2>3, <3>1, <3>2
  <2>5. CASE CountRetry(r)
    <3>1. run'[r].attempt = run[r].attempt
          BY <2>3, <2>5, AttemptKept DEF CountRetry, TypeOK
    <3>2. retryCount' = retryCount + 1 /\ msgs' = msgs /\ pc[r] = "count" /\ pc'[r] = "publish"
          BY <1>2, <2>5 DEF CountRetry, TypeOK
    <3> QED BY <2>1, <2>2, <2>3, <3>1, <3>2
  <2>6. CASE PublishRetry(r)
    <3>1. retryCount' = retryCount /\ retryCount = run[r].attempt + 1
          BY <2>3, <2>6 DEF PublishRetry, jobVars
    <3>2. pc'[r] = "done"
          BY <2>6 DEF PublishRetry, TypeOK
    <3>3. \A n \in Attempts : msgs'[n] > 0 => msgs[n] > 0 \/ n = run[r].attempt + 1
          BY <2>6 DEF PublishRetry, TypeOK
    <3> QED BY <2>1, <2>2, <3>1, <3>2, <3>3 DEF InProgress
  <2>7. CASE ~ReadRetryCount(r) /\ ~CountRetry(r) /\ ~PublishRetry(r)
    <3>1. /\ retryCount' = retryCount /\ run'[r].attempt = run[r].attempt
          /\ pc'[r] \notin {"count", "publish"} /\ (pc[r] = "publish" => pc'[r] = "done")
          BY <1>6, <2>7, RetryFrame
    <3>2. msgs' = msgs
          BY <1>6, <2>7, IngestFrame
    <3> QED BY <2>1, <2>2, <2>3, <3>1, <3>2 DEF InProgress
  <2> QED BY <2>4, <2>5, <2>6, <2>7
<1>7. ASSUME NEW r \in Runs, WorkerCrash(r)
      PROVE  /\ \A q \in Runs : ~InProgress(q)'
             /\ ~Unsent' /\ \A n \in Attempts : ~(msgs'[n] > 0)
  <2>1. InProgress(r) /\ UNCHANGED <<api, msgs>> /\ pc' = [pc EXCEPT ![r] = "done"]
        BY <1>7, CrashFrame
  <2>2. ~Unsent /\ (\A n \in Attempts : ~(msgs[n] > 0)) /\ \A q \in Runs \ {r} : ~InProgress(q)
        BY <1>1, <2>1 DEF RetryInv, Handed, OneRunAtATime, InProgress
  <2> QED BY <2>1, <2>2 DEF InProgress, Unsent, TypeOK
<1>8. ASSUME NEW r \in Runs, Start(r) \/ Ingest(r) \/ WorkerCrash(r)
      PROVE  /\ \A n \in Attempts : msgs'[n] > 0 => retryCount' = n
             /\ \A q \in Runs : InProgress(q)' =>
                   retryCount' = run'[q].attempt + IF pc'[q] = "publish" THEN 1 ELSE 0
             /\ Unsent' => retryCount' = 0
             /\ \A q \in Runs : pc'[q] = "count" => run'[q].count = retryCount'
  <2>1. CASE Start(r)
    <3>1. run'[r].attempt \in Nat
          BY TypeStep, Bounds DEF TypeOK, RunState, Attempts
    <3> QED BY <1>4, <1>5, <2>1, <3>1
  <2>2. CASE Ingest(r)
        BY <1>4, <1>6, <2>2
  <2>3. CASE WorkerCrash(r)
        BY <1>7, <2>3 DEF InProgress
  <2> QED BY <1>8, <2>1, <2>2, <2>3
<1> QED BY <1>3, <1>8 DEF Next, Surroundings

\* While messages are delivered once, retry_count is the number of the attempt queued or
\* in progress, and one more while a run that counted its retry has yet to publish it.
THEOREM RetriesAccounted == Spec => []RetryAccounted
<1>1. Init => TypeOK /\ RetryInv
      BY TypeInit
      DEF Init, RetryInv, RetryAccounted, CountUpToDate, Handed, OneRunAtATime, InProgress
<1>2. TypeOK /\ RetryInv /\ [Next]_vars => (TypeOK /\ RetryInv)'
      BY TypeStep, RetryStep
<1>3. RetryInv => RetryAccounted
      BY DEF RetryInv
<1> QED BY <1>1, <1>2, <1>3, PTL DEF Spec

(***************************************************************************)
(* A document shown as embedded.                                           *)
(***************************************************************************)
\* What a run may do to the data, but for the actions that are named.
LEMMA DataFrame ==
    ASSUME TypeOK, NEW r \in Runs, Ingest(r)
    PROVE  /\ ~ParseCommit(r) => doc'.parsing = doc.parsing
           /\ ~Finish(r) => /\ rows' = rows
                            /\ job' = "completed" => job = "completed"
                            /\ doc'.embedding = "embedded" => doc.embedding = "embedded"
           /\ ~(PurgeVectors(r) \/ UpsertBatch(r) \/ EmbedFails(r)) => vectors' = vectors
<1> USE DEF TypeOK, Document, jobVars, dataVars
<1>1. CASE Fetch(r) \/ FetchTransient(r) \/ FetchFails(r) \/ FailUnparsed(r)
      BY <1>1 DEF Fetch, FetchTransient, FetchFails, FailUnparsed, MarkFailed, Active
<1>2. CASE ParseCommit(r)
      BY <1>2 DEF ParseCommit
<1>3. CASE EmbedUnconfigured(r) \/ MarkEmbedFailed(r)
      BY <1>3 DEF EmbedUnconfigured, MarkEmbedFailed, MarkFailed, Active
<1>4. CASE \/ EmbedNothing(r) \/ DeleteChunks(r) \/ DeleteMetadata(r) \/ InsertRows(r)
           \/ EmbedChunks(r) \/ DbError(r)
      BY <1>4 DEF EmbedNothing, DeleteChunks, DeleteMetadata, InsertRows, EmbedChunks, DbError
<1>5. CASE PurgeVectors(r) \/ UpsertBatch(r) \/ EmbedFails(r)
      BY <1>5 DEF PurgeVectors, UpsertBatch, EmbedFails
<1>6. CASE Finish(r)
      BY <1>6 DEF Finish
<1>7. CASE CleanupRaises(r) \/ CleanupNothing(r) \/ CleanupTemp(r) \/ CleanupLost(r)
      BY <1>7 DEF CleanupRaises, CleanupNothing, CleanupTemp, CleanupLost, CloseSession
<1>8. CASE \/ ReadRetryCount(r) \/ CountRetry(r) \/ PublishRetry(r) \/ FailUnhandled(r)
           \/ HandlerFails(r)
      BY <1>8 DEF ReadRetryCount, CountRetry, PublishRetry, FailUnhandled, HandlerFails,
                  MarkFailed, Active
<1> QED BY <1>1, <1>2, <1>3, <1>4, <1>5, <1>6, <1>7, <1>8 DEF Ingest

\* Nothing but a run completes the job or changes what a client sees of the document.
LEMMA DataFrameOthers ==
    ASSUME TypeOK,
           Surroundings \/ (\E r \in Runs : Start(r) \/ WorkerCrash(r)) \/ UNCHANGED vars
    PROVE  /\ UNCHANGED <<cfg, rows, vectors>>
           /\ doc'.parsing = doc.parsing /\ doc'.embedding = doc.embedding
           /\ doc'.vectorCount = doc.vectorCount
           /\ job' = "completed" => job = "completed"
<1>1. CASE Surroundings
  <2>1. job' = "completed" => job = "completed"
        BY <1>1 DEF Surroundings, Upload, StoreFile, StoreFails, CreateJob, Enqueue,
                    EnqueueFails, MarkEnqueueFailed, UploadAborts, CancelIngestion, Redeliver,
                    MarkFailed, CancelActive, Active, jobVars
  <2> QED BY <1>1, <2>1, SurroundingsFrame DEF TypeOK, Document
<1>2. ASSUME NEW r \in Runs, Start(r) PROVE job' = "completed" => job = "completed"
      BY <1>2 DEF Start, ClaimNothing, ClaimNotStored, ClaimJob, ClaimError, jobVars
<1>3. ASSUME NEW r \in Runs, Start(r) PROVE UNCHANGED <<cfg, rows, vectors, doc>>
      BY <1>3, StartFrame DEF dataVars
<1>4. ASSUME NEW r \in Runs, WorkerCrash(r) PROVE UNCHANGED <<cfg, rows, vectors, doc, job>>
      BY <1>4, CrashFrame DEF dataVars
<1> QED BY <1>1, <1>2, <1>3, <1>4 DEF vars

LEMMA CleanStep == TypeOK /\ CleanWhileWorking /\ [Next]_vars => CleanWhileWorking'
<1> SUFFICES ASSUME TypeOK, CleanWhileWorking, [Next]_vars PROVE CleanWhileWorking'
    OBVIOUS
<1> USE DEF CleanWhileWorking
<1>1. CASE Surroundings \/ UNCHANGED vars
      BY <1>1, SurroundingsFrame DEF vars
<1>2. ASSUME NEW r \in Runs, Start(r) PROVE CleanWhileWorking'
  <2>1. CASE run'[r].exc = run[r].exc /\ run'[r].expired = run[r].expired
        BY <1>2, <2>1, StartFrame DEF Working, TypeOK
  <2>2. PICK n \in Attempts :
           ClaimNothing(r, n) \/ ClaimNotStored(r, n) \/ ClaimJob(r, n) \/ ClaimError(r, n)
        BY <1>2 DEF Start
  <2>3. CASE ClaimNothing(r, n) \/ ClaimNotStored(r, n)
        BY <2>1, <2>3 DEF ClaimNothing, ClaimNotStored
  <2>4. CASE ClaimJob(r, n)
        BY <2>1, <2>4 DEF ClaimJob, TypeOK, RunState
  <2>5. CASE ClaimError(r, n)
    <3>1. pc'[r] = "exit"
          BY <2>5 DEF ClaimError, TypeOK
    <3> QED BY <1>2, <3>1, StartFrame DEF Working, TypeOK
  <2> QED BY <2>2, <2>3, <2>4, <2>5
<1>3. ASSUME NEW r \in Runs, Ingest(r)
      PROVE  /\ pc'[r] \in Working \cup {"embedFailed"} =>
                   pc[r] \in Working /\ run'[r].exc = run[r].exc
             /\ pc'[r] \in Working => run'[r].expired = run[r].expired
  <2> USE DEF Working, TypeOK
  <2>1. CASE \/ Fetch(r) \/ FetchFails(r) \/ ParseCommit(r) \/ FailUnparsed(r)
             \/ EmbedUnconfigured(r) \/ EmbedNothing(r) \/ InsertRows(r) \/ EmbedChunks(r)
             \/ Finish(r)
        BY <2>1 DEF Fetch, FetchFails, ParseCommit, FailUnparsed, EmbedUnconfigured,
                    EmbedNothing, InsertRows, EmbedChunks, Finish
  <2>2. CASE FetchTransient(r) \/ MarkEmbedFailed(r) \/ DbError(r)
        BY <2>2 DEF FetchTransient, MarkEmbedFailed, DbError
  <2>3. CASE DeleteChunks(r) \/ DeleteMetadata(r) \/ PurgeVectors(r) \/ UpsertBatch(r)
    <3>1. PICK v : \/ run'[r] = [run[r] EXCEPT !.dropped = v]
                   \/ run'[r] = [run[r] EXCEPT !.replaced = v]
                   \/ run'[r] = [run[r] EXCEPT !.cursor = v]
          BY <2>3 DEF DeleteChunks, DeleteMetadata, PurgeVectors, UpsertBatch
    <3>2. run'[r].exc = run[r].exc /\ run'[r].expired = run[r].expired
          BY <3>1 DEF RunState
    <3> QED BY <2>3, <3>2 DEF DeleteChunks, DeleteMetadata, PurgeVectors, UpsertBatch
  <2>4. CASE EmbedFails(r)
        BY <2>4 DEF EmbedFails, HasChunkTx, RunState
  <2>5. CASE \/ CleanupRaises(r) \/ CleanupNothing(r) \/ CleanupTemp(r) \/ CleanupLost(r)
             \/ ReadRetryCount(r) \/ CountRetry(r) \/ PublishRetry(r) \/ FailUnhandled(r)
             \/ HandlerFails(r)
        BY <2>5 DEF CleanupRaises, CleanupNothing, CleanupTemp, CleanupLost, CloseSession,
                    ReadRetryCount, CountRetry, PublishRetry, FailUnhandled, HandlerFails
  <2> QED BY <1>3, <2>1, <2>2, <2>3, <2>4, <2>5 DEF Ingest
<1>4. ASSUME NEW r \in Runs, Ingest(r) PROVE CleanWhileWorking'
      BY <1>3, <1>4, IngestFrame DEF Working
<1>5. ASSUME NEW r \in Runs, WorkerCrash(r) PROVE CleanWhileWorking'
      BY <1>5, CrashFrame DEF Working, TypeOK
<1> QED BY <1>1, <1>2, <1>4, <1>5 DEF Next, Surroundings

LEMMA ParsedStep == TypeOK /\ ParsedBeforeEmbedding /\ [Next]_vars => ParsedBeforeEmbedding'
<1> SUFFICES ASSUME TypeOK, ParsedBeforeEmbedding, [Next]_vars PROVE ParsedBeforeEmbedding'
    OBVIOUS
<1> USE DEF ParsedBeforeEmbedding
<1>1. CASE Surroundings \/ UNCHANGED vars
      BY <1>1, SurroundingsFrame DEF vars, TypeOK, Document
<1>2. ASSUME NEW r \in Runs, Start(r) PROVE ParsedBeforeEmbedding'
      BY <1>2, StartFrame DEF TypeOK, dataVars
<1>3. ASSUME NEW r \in Runs, Ingest(r) PROVE ParsedBeforeEmbedding'
  <2> DEFINE Embeds(q) == pc[q] \in {"embed", "delete", "insert", "clash", "vectors", "purge",
                                     "upsert", "embedFailed"}
  <2>1. CASE ParseCommit(r)
    <3>1. doc'.parsing = IF cfg.parsable THEN "parsed" ELSE "failed"
          BY <2>1 DEF ParseCommit, TypeOK, Document
    <3>2. pc'[r] = "embed" => cfg.parsable
          BY <2>1 DEF ParseCommit, TypeOK
    <3>3. pc'[r] \in {"cleanup", "embed", "unparsed"} /\ \A q \in Runs \ {r} : pc'[q] = pc[q]
          BY <2>1 DEF ParseCommit, TypeOK
    <3>4. cfg' = cfg
          BY <2>1 DEF ParseCommit
    <3> QED BY <3>1, <3>2, <3>3, <3>4
  <2>2. CASE ~ParseCommit(r)
    <3>1. Embeds(r)' => Embeds(r)
      <4> USE DEF TypeOK
      <4>1. CASE Fetch(r) \/ FetchTransient(r) \/ FetchFails(r) \/ FailUnparsed(r)
            BY <4>1 DEF Fetch, FetchTransient, FetchFails, FailUnparsed
      <4>2. CASE \/ EmbedUnconfigured(r) \/ EmbedNothing(r) \/ DeleteChunks(r)
                 \/ DeleteMetadata(r) \/ InsertRows(r) \/ EmbedChunks(r)
                 \/ PurgeVectors(r) \/ UpsertBatch(r) \/ MarkEmbedFailed(r) \/ Finish(r)
                 \/ DbError(r)
            BY <4>2 DEF EmbedUnconfigured, EmbedNothing, DeleteChunks, DeleteMetadata,
                        InsertRows, EmbedChunks,
                        PurgeVectors, UpsertBatch, MarkEmbedFailed, Finish, DbError
      <4>3. CASE EmbedFails(r)
            BY <4>3 DEF EmbedFails, HasChunkTx
      <4>4. CASE \/ CleanupRaises(r) \/ CleanupNothing(r) \/ CleanupTemp(r) \/ CleanupLost(r)
                 \/ ReadRetryCount(r) \/ CountRetry(r) \/ PublishRetry(r)
                 \/ FailUnhandled(r) \/ HandlerFails(r)
            BY <4>4 DEF CleanupRaises, CleanupNothing, CleanupTemp, CleanupLost,
                        CloseSession, ReadRetryCount, CountRetry, PublishRetry, FailUnhandled,
                        HandlerFails
      <4> QED BY <1>3, <2>2, <4>1, <4>2, <4>3, <4>4 DEF Ingest
    <3>2. doc'.parsing = doc.parsing /\ cfg' = cfg
          BY <1>3, <2>2, DataFrame, IngestFrame
    <3>3. \A q \in Runs : Embeds(q)' => Embeds(q)
          BY <1>3, <3>1, IngestFrame
    <3> QED BY <3>2, <3>3
  <2> QED BY <2>1, <2>2
<1>4. ASSUME NEW r \in Runs, WorkerCrash(r) PROVE ParsedBeforeEmbedding'
      BY <1>4, CrashFrame DEF TypeOK, dataVars
<1> QED BY <1>1, <1>2, <1>3, <1>4 DEF Next, Surroundings

\* The unique metadata row lets one transaction at a time get past its insert.
LEMMA OneTxStep == TypeOK /\ OneChunkTx /\ [Next]_vars => OneChunkTx'
<1> SUFFICES ASSUME TypeOK, OneChunkTx, [Next]_vars PROVE OneChunkTx'
    OBVIOUS
<1> USE DEF OneChunkTx, HasChunkTx
<1>1. ASSUME cfg' = cfg, \A r \in Runs : HasChunkTx(r)' => HasChunkTx(r)
      PROVE  OneChunkTx'
      BY <1>1
<1>2. CASE Surroundings \/ UNCHANGED vars
      BY <1>1, <1>2, SurroundingsFrame DEF vars
<1>3. ASSUME NEW r \in Runs, Start(r) PROVE OneChunkTx'
      BY <1>1, <1>3, StartFrame DEF TypeOK
<1>4. ASSUME NEW r \in Runs, Ingest(r) PROVE OneChunkTx'
  <2>1. CASE InsertRows(r)
        BY <2>1 DEF InsertRows, ChunkTxOpen, TypeOK
  <2>2. CASE ~InsertRows(r)
    <3>1. HasChunkTx(r)' => HasChunkTx(r)
      <4> USE DEF TypeOK
      <4>1. CASE \/ Fetch(r) \/ FetchTransient(r) \/ FetchFails(r) \/ ParseCommit(r)
                 \/ FailUnparsed(r) \/ EmbedUnconfigured(r)
            BY <4>1 DEF Fetch, FetchTransient, FetchFails, ParseCommit, FailUnparsed,
                        EmbedUnconfigured
      <4>2. CASE EmbedNothing(r)
            BY <4>2 DEF EmbedNothing
      <4>3. CASE \/ DeleteChunks(r) \/ DeleteMetadata(r) \/ EmbedChunks(r) \/ PurgeVectors(r)
                 \/ UpsertBatch(r) \/ EmbedFails(r) \/ MarkEmbedFailed(r) \/ Finish(r)
                 \/ DbError(r)
            BY <4>3 DEF DeleteChunks, DeleteMetadata, EmbedChunks, PurgeVectors, UpsertBatch,
                        EmbedFails, MarkEmbedFailed, Finish, DbError
      <4>4. CASE \/ CleanupRaises(r) \/ CleanupNothing(r) \/ CleanupTemp(r) \/ CleanupLost(r)
                 \/ ReadRetryCount(r) \/ CountRetry(r) \/ PublishRetry(r) \/ FailUnhandled(r)
                 \/ HandlerFails(r)
            BY <4>4 DEF CleanupRaises, CleanupNothing, CleanupTemp, CleanupLost, CloseSession,
                        ReadRetryCount, CountRetry, PublishRetry, FailUnhandled, HandlerFails
      <4> QED BY <1>4, <2>2, <4>1, <4>2, <4>3, <4>4 DEF Ingest
    <3>2. cfg' = cfg /\ \A q \in Runs \ {r} : HasChunkTx(q)' => HasChunkTx(q)
          BY <1>4, IngestFrame
    <3> QED BY <1>1, <3>1, <3>2
  <2> QED BY <2>1, <2>2
<1>5. ASSUME NEW r \in Runs, WorkerCrash(r) PROVE OneChunkTx'
      BY <1>1, <1>5, CrashFrame DEF TypeOK
<1> QED BY <1>2, <1>3, <1>4, <1>5 DEF Next, Surroundings

\* A run that upserts is the only one that reaches into Pinecone.
LEMMA VectorsKept ==
    ASSUME TypeOK, Handed, OneChunkTx, ExpiredReadRaises \/ DeliveredOnce,
           NEW r \in Runs, NEW q \in Runs \ {r}, Ingest(q), pc[r] = "upsert", cfg.batches > 0
    PROVE  vectors' = vectors
<1>1. HasChunkTx(r)
      BY DEF HasChunkTx
<1>2. CASE PurgeVectors(q) \/ UpsertBatch(q)
      BY <1>1, <1>2 DEF PurgeVectors, UpsertBatch, HasChunkTx, OneChunkTx
<1>3. CASE EmbedFails(q)
  <2>1. CASE ExpiredReadRaises
        BY <1>3, <2>1 DEF EmbedFails
  <2>2. CASE DeliveredOnce
    <3>1. InProgress(q) /\ InProgress(r)
          BY IngestFrame DEF InProgress
    <3> QED BY <2>2, <3>1 DEF Handed, OneRunAtATime
  <2> QED BY <2>1, <2>2
<1> QED BY <1>2, <1>3, DataFrame

LEMMA VectorsStep ==
    TypeOK /\ Handed /\ OneChunkTx /\ VectorsOfOneRun /\ [Next]_vars => VectorsOfOneRun'
<1> SUFFICES ASSUME TypeOK, Handed, OneChunkTx, VectorsOfOneRun, [Next]_vars,
                    (ExpiredReadRaises \/ DeliveredOnce)',
                    NEW r \in Runs, NEW b \in 1 .. cfg'.batches,
                    pc'[r] = "upsert", b < run'[r].cursor
             PROVE  vectors'[b] = r
    BY DEF VectorsOfOneRun
<1>1. (ExpiredReadRaises \/ DeliveredOnce) /\ cfg' = cfg
      BY WorldIsRigid DEF ExpiredReadRaises, DeliveredOnce, Faults
<1>2. cfg.batches \in Nat /\ cfg.batches <= MaxBatches /\ cfg.batches > 0
      BY <1>1, Bounds DEF TypeOK, Config
<1>3. CASE UNCHANGED vectors /\ pc[r] = "upsert" /\ run'[r] = run[r]
      BY <1>1, <1>3 DEF VectorsOfOneRun
<1>4. CASE Surroundings \/ UNCHANGED vars
      BY <1>3, <1>4, SurroundingsFrame DEF vars
<1>5. ASSUME NEW q \in Runs, Start(q) PROVE vectors'[b] = r
      BY <1>3, <1>5, StartFrame DEF dataVars, TypeOK
<1>6. ASSUME NEW q \in Runs, WorkerCrash(q) PROVE vectors'[b] = r
      BY <1>3, <1>6, CrashFrame DEF dataVars, TypeOK
<1>7. ASSUME NEW q \in Runs \ {r}, Ingest(q) PROVE vectors'[b] = r
  <2>1. pc[r] = "upsert" /\ run'[r] = run[r]
        BY <1>7, IngestFrame
  <2> QED BY <1>1, <1>2, <1>3, <1>7, <2>1, VectorsKept
<1>8. ASSUME Ingest(r) PROVE vectors'[b] = r
  <2>1. CASE PurgeVectors(r)
        BY <2>1 DEF PurgeVectors, TypeOK, RunState
  <2>2. CASE UpsertBatch(r)
    <3>1. run'[r].cursor = run[r].cursor + 1 /\ run[r].cursor \in Nat /\ pc[r] = "upsert"
          BY <2>2, Bounds DEF UpsertBatch, TypeOK, RunState
    <3>2. vectors' = [vectors EXCEPT ![run[r].cursor] = r] /\ run[r].cursor <= cfg.batches
          BY <2>2 DEF UpsertBatch
    <3>3. CASE b = run[r].cursor
          BY <1>1, <1>2, <3>2, <3>3, Bounds DEF TypeOK
    <3>4. CASE b # run[r].cursor
          BY <1>1, <1>2, <3>1, <3>2, <3>4, Bounds DEF TypeOK, VectorsOfOneRun
    <3> QED BY <3>3, <3>4
  <2>3. CASE EmbedNothing(r)
        BY <1>2, <2>3 DEF EmbedNothing
  <2>4. CASE \/ Fetch(r) \/ FetchTransient(r) \/ FetchFails(r) \/ ParseCommit(r)
             \/ FailUnparsed(r) \/ EmbedUnconfigured(r) \/ DeleteChunks(r)
             \/ DeleteMetadata(r) \/ InsertRows(r) \/ EmbedChunks(r)
        BY <2>4 DEF Fetch, FetchTransient, FetchFails, ParseCommit, FailUnparsed,
                    EmbedUnconfigured, DeleteChunks, DeleteMetadata, InsertRows,
                    EmbedChunks, TypeOK
  <2>5. CASE EmbedFails(r) \/ MarkEmbedFailed(r) \/ DbError(r) \/ Finish(r)
        BY <2>5 DEF EmbedFails, MarkEmbedFailed, DbError, Finish, TypeOK
  <2>6. CASE \/ CleanupRaises(r) \/ CleanupNothing(r) \/ CleanupTemp(r) \/ CleanupLost(r)
             \/ ReadRetryCount(r) \/ CountRetry(r) \/ PublishRetry(r) \/ FailUnhandled(r)
             \/ HandlerFails(r)
        BY <2>6 DEF CleanupRaises, CleanupNothing, CleanupTemp, CleanupLost, CloseSession,
                    ReadRetryCount, CountRetry, PublishRetry, FailUnhandled, HandlerFails,
                    TypeOK
  <2> QED BY <1>8, <2>1, <2>2, <2>3, <2>4, <2>5, <2>6 DEF Ingest
<1> QED BY <1>4, <1>5, <1>6, <1>7, <1>8 DEF Next, Surroundings

\* What a run may still do once the document is embedded.
LEMMA LeavingFrame ==
    ASSUME TypeOK, NEW r \in Runs, Ingest(r),
           pc[r] \in {"cleanup", "exit"}, run[r].exc # "transient", ~run[r].expired
    PROVE  /\ ~Finish(r) /\ ~PublishRetry(r) /\ UNCHANGED <<rows, vectors>>
           /\ doc' \in {doc, [doc EXCEPT !.upload = "deleted"]}
           /\ pc'[r] \in {"exit", "done"} /\ run'[r].exc # "transient" /\ ~run'[r].expired
<1> USE DEF TypeOK
<1>1. CASE CleanupRaises(r) \/ CleanupNothing(r) \/ CleanupTemp(r) \/ CleanupLost(r)
  <2>1. PICK e : e # "transient" /\ run' = [run EXCEPT ![r].exc = e]
                 /\ pc' = [pc EXCEPT ![r] = IF e = "none" THEN "done" ELSE "exit"]
        BY <1>1 DEF CleanupRaises, CleanupNothing, CleanupTemp, CleanupLost, CloseSession
  <2>2. run'[r].exc # "transient" /\ run'[r].expired = run[r].expired
        BY <2>1 DEF RunState
  <2>3. pc[r] = "cleanup" /\ UNCHANGED <<rows, vectors>>
        BY <1>1 DEF CleanupRaises, CleanupNothing, CleanupTemp, CleanupLost, CloseSession
  <2>4. doc' \in {doc, [doc EXCEPT !.upload = "deleted"]}
        BY <1>1 DEF CleanupRaises, CleanupNothing, CleanupTemp, CleanupLost
  <2> QED BY <2>1, <2>2, <2>3, <2>4 DEF Finish, PublishRetry
<1>2. CASE FailUnhandled(r) \/ HandlerFails(r)
      BY <1>2 DEF FailUnhandled, HandlerFails, Finish, PublishRetry, jobVars, dataVars
<1>3. CASE Fetch(r) \/ FetchTransient(r) \/ FetchFails(r) \/ ParseCommit(r) \/ FailUnparsed(r)
      BY <1>3 DEF Fetch, FetchTransient, FetchFails, ParseCommit, FailUnparsed
<1>4. CASE \/ EmbedUnconfigured(r) \/ EmbedNothing(r) \/ DeleteChunks(r)
           \/ DeleteMetadata(r) \/ InsertRows(r) \/ EmbedChunks(r)
           \/ PurgeVectors(r) \/ UpsertBatch(r) \/ EmbedFails(r)
      BY <1>4 DEF EmbedUnconfigured, EmbedNothing, DeleteChunks, DeleteMetadata, InsertRows,
                  EmbedChunks, PurgeVectors,
                  UpsertBatch, EmbedFails, HasChunkTx
<1>5. CASE \/ MarkEmbedFailed(r) \/ Finish(r) \/ DbError(r) \/ ReadRetryCount(r)
           \/ CountRetry(r) \/ PublishRetry(r)
      BY <1>5 DEF MarkEmbedFailed, Finish, DbError, ReadRetryCount, CountRetry, WillRetry,
                  PublishRetry
<1> QED BY <1>1, <1>2, <1>3, <1>4, <1>5 DEF Ingest

LEMMA OverStep ==
    TypeOK /\ Handed /\ CleanWhileWorking /\ OverOnceEmbedded /\ [Next]_vars => OverOnceEmbedded'
<1> SUFFICES ASSUME TypeOK, Handed, CleanWhileWorking, OverOnceEmbedded, [Next]_vars,
                    DeliveredOnce', doc'.embedding = "embedded"
             PROVE  OverOnceEmbedded'
    BY DEF OverOnceEmbedded
<1>1. DeliveredOnce
      BY WorldIsRigid DEF DeliveredOnce, Faults
<1> USE DEF Unsent, InProgress
<1>2. CASE Surroundings
  <2>1. doc.embedding = "embedded" /\ UNCHANGED <<pc, run>>
        BY <1>2, DataFrameOthers, SurroundingsFrame
  <2>2. ~Unsent' /\ msgs' = msgs
        BY <1>1, <1>2, <2>1 DEF OverOnceEmbedded, DeliveredOnce, Surroundings, Upload,
                StoreFile, StoreFails, CreateJob, Enqueue, EnqueueFails, MarkEnqueueFailed,
                UploadAborts, CancelIngestion, Redeliver
  <2> QED BY <1>1, <2>1, <2>2 DEF OverOnceEmbedded
<1>3. ASSUME NEW r \in Runs, Start(r) PROVE OverOnceEmbedded'
  <2>1. doc.embedding = "embedded" /\ \E n \in Attempts : msgs[n] > 0
        BY <1>3, DataFrameOthers, StartFrame
  <2> QED BY <1>1, <2>1 DEF OverOnceEmbedded
<1>4. ASSUME NEW r \in Runs, Ingest(r) PROVE OverOnceEmbedded'
  <2>1. /\ ~Unsent /\ (\A n \in Attempts : msgs[n] = 0)
        /\ \A q \in Runs : q # r => ~InProgress(q)
        BY <1>1, <1>4, IngestFrame DEF Handed, OneRunAtATime, TypeOK
  <2>2. ~Unsent' /\ \A q \in Runs : q # r => ~InProgress(q)'
        BY <1>4, <2>1, IngestFrame
  <2>3. CASE doc.embedding = "embedded"
    <3>1. pc[r] \in {"cleanup", "exit"} /\ run[r].exc # "transient" /\ ~run[r].expired
          BY <1>1, <1>4, <2>3, IngestFrame DEF OverOnceEmbedded
    <3>2. msgs' = msgs
          BY <1>4, <3>1, LeavingFrame, IngestFrame
    <3> QED BY <1>4, <2>1, <2>2, <3>1, <3>2, LeavingFrame DEF OverOnceEmbedded
  <2>4. CASE doc.embedding # "embedded"
    <3>1. Finish(r)
          BY <1>4, <2>4, DataFrame
    <3>2. pc'[r] = "cleanup" /\ UNCHANGED <<msgs, run>>
          BY <3>1 DEF Finish, TypeOK
    <3>3. run[r].exc = "none" /\ ~run[r].expired
          BY <3>1 DEF Finish, CleanWhileWorking, Working
    <3> QED BY <2>1, <2>2, <3>2, <3>3 DEF OverOnceEmbedded
  <2> QED BY <2>3, <2>4
<1>5. ASSUME NEW r \in Runs, WorkerCrash(r) PROVE OverOnceEmbedded'
  <2>1. doc.embedding = "embedded"
        BY <1>5, DataFrameOthers
  <2> QED BY <1>1, <1>5, <2>1, CrashFrame DEF OverOnceEmbedded, TypeOK
<1>6. CASE UNCHANGED vars
      BY <1>6 DEF vars, OverOnceEmbedded, DeliveredOnce, Faults
<1> QED BY <1>2, <1>3, <1>4, <1>5, <1>6 DEF Next, Surroundings

LEMMA SearchStep == TypeOK /\ SearchInv /\ [Next]_vars => SearchInv'
<1> SUFFICES ASSUME TypeOK, SearchInv, [Next]_vars
             PROVE  EmbeddedIsSearchable' /\ CompletedIsEmbedded'
    BY HandedStep, CleanStep, ParsedStep, OneTxStep, VectorsStep, OverStep DEF SearchInv
<1>1. cfg' = cfg /\ (DeliveredOnce' => DeliveredOnce)
      BY WorldIsRigid DEF DeliveredOnce, Faults
<1> USE DEF EmbeddedIsSearchable, CompletedIsEmbedded
<1>2. CASE Surroundings \/ (\E r \in Runs : Start(r) \/ WorkerCrash(r)) \/ UNCHANGED vars
      BY <1>1, <1>2, DataFrameOthers DEF SearchInv
<1>3. ASSUME NEW r \in Runs, Ingest(r), DeliveredOnce,
             doc'.embedding = "embedded" \/ job' = "completed"
      PROVE  EmbeddedIsSearchable' /\ CompletedIsEmbedded'
  <2>1. CASE Finish(r)
    <3>1. doc' = [doc EXCEPT !.embedding = "embedded", !.vectorCount = cfg.batches]
          BY <2>1 DEF Finish
    <3>2. doc'.embedding = "embedded" /\ doc'.vectorCount = cfg.batches /\ doc'.parsing = doc.parsing
          BY <3>1 DEF TypeOK, Document
    <3>3. doc.parsing = "parsed"
          BY <2>1 DEF Finish, SearchInv, ParsedBeforeEmbedding
    <3>4. cfg.batches > 0 => r \in rows'
          BY <2>1, Bounds DEF Finish, CommitRows, TypeOK, Config
    <3>5. \A b \in 1 .. cfg.batches : vectors'[b] = r /\ cfg.batches > 0
          BY <1>3, <2>1, Bounds DEF Finish, SearchInv, VectorsOfOneRun, TypeOK, Config,
                                         RunState
    <3> QED BY <1>1, <3>2, <3>3, <3>4, <3>5
  <2>2. CASE ~Finish(r)
    <3>1. doc.embedding = "embedded" /\ (job' = "completed" => job = "completed")
          BY <1>3, <2>2, DataFrame DEF SearchInv
    <3>2. pc[r] \in {"cleanup", "exit"} /\ run[r].exc # "transient" /\ ~run[r].expired
          BY <1>3, <3>1, IngestFrame DEF SearchInv, OverOnceEmbedded
    <3>3. /\ UNCHANGED <<rows, vectors>>
          /\ doc' \in {doc, [doc EXCEPT !.upload = "deleted"]}
          BY <1>3, <3>2, LeavingFrame
    <3>4. /\ doc'.parsing = doc.parsing /\ doc'.embedding = doc.embedding
          /\ doc'.vectorCount = doc.vectorCount
          BY <3>3 DEF TypeOK, Document
    <3> QED BY <1>1, <1>3, <3>1, <3>3, <3>4 DEF SearchInv
  <2> QED BY <2>1, <2>2
<1>4. ASSUME NEW r \in Runs, Ingest(r) PROVE EmbeddedIsSearchable' /\ CompletedIsEmbedded'
      BY <1>1, <1>3, <1>4
<1> QED BY <1>2, <1>4 DEF Next, Surroundings

LEMMA SearchInvariant == Spec => []SearchInv
<1>1. Init => TypeOK /\ SearchInv
      BY TypeInit, Bounds
      DEF Init, SearchInv, Handed, OneRunAtATime, InProgress, CleanWhileWorking,
          ParsedBeforeEmbedding, OneChunkTx, HasChunkTx, VectorsOfOneRun, OverOnceEmbedded,
          EmbeddedIsSearchable, CompletedIsEmbedded
<1>2. TypeOK /\ SearchInv /\ [Next]_vars => (TypeOK /\ SearchInv)'
      BY TypeStep, SearchStep
<1> QED BY <1>1, <1>2, PTL DEF Spec

\* What a run has put into Pinecone stays its own while its transaction is open, with any
\* number of runs that redelivered retries let resume the job.
THEOREM VectorsKeptApart == Spec => []VectorsOfOneRun
<1>1. SearchInv => VectorsOfOneRun
      BY DEF SearchInv
<1> QED BY <1>1, SearchInvariant, PTL

\* A document shown as embedded has every batch in Pinecone, written by a run whose
\* chunk rows are committed: the single thread of retries, one transaction at the end of
\* a run and a handler that never retries after it keep vectors and rows together.
THEOREM EmbeddedDocumentsSearchable == Spec => []EmbeddedIsSearchable
<1>1. SearchInv => EmbeddedIsSearchable
      BY DEF SearchInv
<1> QED BY <1>1, SearchInvariant, PTL

\* The document of a completed job is parsed and embedded, and stays so.
THEOREM CompletedJobsEmbedded == Spec => []CompletedIsEmbedded
<1>1. SearchInv => CompletedIsEmbedded
      BY DEF SearchInv
<1> QED BY <1>1, SearchInvariant, PTL

\* Under every fault, redelivery included: a completed job of a document with chunks has
\* committed chunk rows.
THEOREM CompletedJobsHaveChunks == Spec => []CompletedHasChunks
<1> USE DEF CompletedHasChunks
<1>1. Init => TypeOK /\ CompletedHasChunks
      BY TypeInit DEF Init
<1>2. ASSUME TypeOK, CompletedHasChunks, [Next]_vars PROVE CompletedHasChunks'
  <2>1. CASE Surroundings \/ (\E r \in Runs : Start(r) \/ WorkerCrash(r)) \/ UNCHANGED vars
        BY <2>1, <1>2, DataFrameOthers
  <2>2. ASSUME NEW r \in Runs, Finish(r) PROVE CompletedHasChunks'
        BY <2>2, Bounds DEF Finish, CommitRows, TypeOK, Config
  <2>3. ASSUME NEW r \in Runs, Ingest(r), ~Finish(r) PROVE CompletedHasChunks'
        BY <1>2, <2>3, DataFrame, IngestFrame
  <2> QED BY <1>2, <2>1, <2>2, <2>3 DEF Next, Surroundings
<1>3. TypeOK /\ CompletedHasChunks /\ [Next]_vars => (TypeOK /\ CompletedHasChunks)'
      BY <1>2, TypeStep
<1> QED BY <1>1, <1>3, PTL DEF Spec

(***************************************************************************)
(* While nothing fails: who has the task of an active job ends it or hands *)
(* it on.                                                                  *)
(***************************************************************************)
LEMMA EndStep ==
    ASSUME MaxRetries <= CeleryMaxRetries
    PROVE  TypeOK /\ StatusInv /\ Handed /\ EndInv /\ [Next]_vars => EndInv'
<1> SUFFICES ASSUME TypeOK, StatusInv, Handed, EndInv, [Next]_vars, Faults' = {}
             PROVE  /\ Unsent' \/ msgs'[0] > 0 => job' # "processing"
                    /\ \A r \in Runs :
                          /\ pc'[r] = "cleanup" /\ run'[r].exc = "none" => job' \notin Active
                          /\ pc'[r] \in {"count", "publish"} => run'[r].attempt < MaxRetries
                    /\ Quiescent' => job' \notin Active
    BY DEF EndInv, EndedOrHandedOn, NoAbandonedJob
<1>1. Faults = {} /\ DeliveredOnce
      BY WorldIsRigid DEF DeliveredOnce, Faults
<1>2. /\ Unsent \/ msgs[0] > 0 => job # "processing"
      /\ \A r \in Runs :
            /\ pc[r] = "cleanup" /\ run[r].exc = "none" => job \notin Active
            /\ pc[r] \in {"count", "publish"} => run[r].attempt < MaxRetries
      /\ Quiescent => job \notin Active
      BY <1>1 DEF EndInv, EndedOrHandedOn, NoAbandonedJob
<1>3. 0 \in Attempts
      BY Bounds DEF Attempts
<1> USE DEF InProgress, Active
<1>4. CASE Surroundings
  <2>1. UNCHANGED <<pc, run>>
        BY <1>4, SurroundingsFrame
  <2>2. CASE StoreFile \/ StoreFails
        BY <1>2, <2>1, <2>2 DEF StoreFile, StoreFails, Unsent, StatusInv, UploadFirst, Quiescent,
                               jobVars
  <2>3. CASE CreateJob
        BY <1>1, <1>2, <2>1, <2>3 DEF CreateJob, Unsent, Quiescent, Handed
  <2>4. CASE Enqueue
        BY <1>1, <1>2, <1>3, <2>1, <2>4 DEF Enqueue, Unsent, Quiescent, Handed, TypeOK, jobVars
  <2>5. CASE MarkEnqueueFailed
        BY <1>2, <2>1, <2>5 DEF MarkEnqueueFailed, MarkFailed, Unsent, Quiescent
  <2>6. CASE CancelIngestion
        BY <1>2, <2>1, <2>6 DEF CancelIngestion, CancelActive, Unsent, Quiescent
  <2> QED BY <1>1, <1>4, <2>2, <2>3, <2>4, <2>5, <2>6
          DEF Surroundings, Upload, EnqueueFails, UploadAborts, Redeliver
<1>5. ASSUME NEW r \in Runs, Start(r)
      PROVE  /\ ~Unsent' /\ msgs'[0] = 0
             /\ \A q \in Runs : pc'[q] \in {"cleanup", "count", "publish"} =>
                     pc[q] = pc'[q] /\ run'[q] = run[q]
             /\ job' \in {job, "failed"}
             /\ Quiescent' => job' \notin Active
  <2>1. PICK n \in Attempts :
           ClaimNothing(r, n) \/ ClaimNotStored(r, n) \/ ClaimJob(r, n) \/ ClaimError(r, n)
        BY <1>5 DEF Start
  <2>2. msgs[n] = 1 /\ msgs' = [msgs EXCEPT ![n] = @ - 1] /\ ~Unsent
        BY <1>1, <2>1 DEF ClaimNothing, ClaimNotStored, ClaimJob, ClaimError, Take, Handed, TypeOK
  <2>3. msgs'[0] = 0
        BY <1>1, <1>3, <2>2 DEF Handed, TypeOK
  <2>4. CASE ClaimNothing(r, n)
    <3>1. job \notin Active
      <4>1. n = 0 => job # "processing"
            BY <1>2, <2>2
      <4>2. n # 0 => n > 0
            BY Bounds DEF Attempts
      <4> QED BY <2>4, <4>1, <4>2 DEF ClaimNothing, Claimable
    <3> QED BY <1>5, <2>2, <2>3, <2>4, <3>1, StartFrame DEF ClaimNothing, jobVars, Unsent, TypeOK
  <2>5. CASE ClaimNotStored(r, n)
        BY <1>5, <2>2, <2>3, <2>5, StartFrame DEF ClaimNotStored, Unsent, TypeOK
  <2>6. CASE ClaimJob(r, n)
        BY <1>5, <2>2, <2>3, <2>6, StartFrame DEF ClaimJob, Unsent, Quiescent, TypeOK
  <2>7. ~ClaimError(r, n)
        BY <1>1 DEF ClaimError
  <2> QED BY <2>1, <2>4, <2>5, <2>6, <2>7
<1>6. ASSUME NEW r \in Runs, Ingest(r)
      PROVE  /\ ~Unsent' /\ msgs'[0] = 0
             /\ pc'[r] = "cleanup" /\ run'[r].exc = "none" => job' \notin Active
             /\ pc'[r] \in {"count", "publish"} => run'[r].attempt < MaxRetries
             /\ pc'[r] = "done" => job' \notin Active \/ \E n \in Attempts : msgs'[n] > 0
  <2>1. ~Unsent' /\ msgs[0] = 0 /\ ~JobIsCancelled(r)
    <3>1. InProgress(r) /\ api' = api
          BY <1>6, IngestFrame
    <3>2. ~Unsent' /\ ~(msgs[0] > 0)
          BY <1>1, <1>3, <3>1 DEF Handed, Unsent
    <3>3. ~JobIsCancelled(r)
          BY DEF TypeOK, RunState, JobIsCancelled
    <3> QED BY <1>3, <3>2, <3>3 DEF TypeOK
  <2> USE DEF TypeOK
  <2>2. CASE Fetch(r) \/ FetchFails(r) \/ ParseCommit(r) \/ FailUnparsed(r)
        BY <2>1, <2>2 DEF Fetch, FetchFails, ParseCommit, FailUnparsed, MarkFailed
  <2>3. CASE FetchTransient(r)
        BY <2>1, <2>3 DEF FetchTransient, RunState
  <2>4. CASE \/ EmbedUnconfigured(r) \/ EmbedNothing(r) \/ DeleteChunks(r)
             \/ DeleteMetadata(r) \/ InsertRows(r) \/ EmbedChunks(r)
             \/ PurgeVectors(r) \/ UpsertBatch(r) \/ MarkEmbedFailed(r)
        BY <2>1, <2>4 DEF EmbedUnconfigured, EmbedNothing, DeleteChunks, DeleteMetadata,
                          InsertRows, EmbedChunks,
                          PurgeVectors, UpsertBatch, MarkEmbedFailed, MarkFailed
  <2>5. CASE EmbedFails(r)
        BY <2>1, <2>5 DEF EmbedFails, RunState
  <2>6. CASE Finish(r)
    <3>1. job \notin {"absent", "pending"}
          BY <2>6 DEF Finish, StatusInv, WriterOwnsStartedJob, PastFirstCommit
    <3> QED BY <2>1, <2>6, <3>1 DEF Finish, MarkCompleted
  <2>7. CASE CleanupRaises(r) \/ CleanupNothing(r) \/ CleanupTemp(r)
    <3>1. PICK e : /\ pc' = [pc EXCEPT ![r] = IF e = "none" THEN "done" ELSE "exit"]
                   /\ e = "none" => run[r].exc = "none"
          BY <2>7 DEF CleanupRaises, CleanupNothing, CleanupTemp, CloseSession
    <3>2. pc[r] = "cleanup" /\ UNCHANGED <<msgs, job>>
          BY <2>7 DEF CleanupRaises, CleanupNothing, CleanupTemp, CloseSession
    <3> QED BY <1>2, <2>1, <3>1, <3>2
  <2>8. CASE FailUnhandled(r)
        BY <2>1, <2>8 DEF FailUnhandled, MarkFailed
  <2>11. CASE ReadRetryCount(r) \/ CountRetry(r)
    <3>1. PICK v : run'[r] = [run[r] EXCEPT !.count = v]
          BY <2>11 DEF ReadRetryCount, CountRetry
    <3>2. run'[r].attempt = run[r].attempt
          BY <3>1, AttemptKept
    <3>3. run[r].attempt < MaxRetries
          BY <1>2, <2>11 DEF ReadRetryCount, CountRetry, WillRetry
    <3> QED BY <2>1, <2>11, <3>2, <3>3 DEF ReadRetryCount, CountRetry, jobVars
  <2>9. CASE PublishRetry(r)
    <3> DEFINE n == run[r].attempt + 1
    <3>1. run[r].attempt \in Attempts
          BY DEF RunState
    <3>2. run[r].attempt < MaxRetries
          BY <1>2, <2>9 DEF PublishRetry
    <3>3. n \in Attempts /\ n # 0 /\ ~(n > CeleryMaxRetries)
          BY <3>1, <3>2, Bounds DEF Attempts
    <3>4. msgs' = [msgs EXCEPT ![n] = @ + 1] /\ pc' = [pc EXCEPT ![r] = "done"]
          BY <2>9, <3>3 DEF PublishRetry
    <3> HIDE DEF n
    <3>5. msgs'[n] > 0 /\ msgs'[0] = msgs[0]
          BY <1>3, <3>3, <3>4
    <3> QED BY <2>1, <3>3, <3>4, <3>5
  <2>10. ~(DbError(r) \/ CleanupLost(r) \/ HandlerFails(r))
        BY <1>1 DEF DbError, CleanupLost, HandlerFails
  <2> QED BY <1>6, <2>2, <2>3, <2>4, <2>5, <2>6, <2>7, <2>8, <2>9, <2>10,
             <2>11 DEF Ingest
<1>7. ASSUME NEW r \in Runs, Ingest(r)
      PROVE  \A q \in Runs \ {r} : pc'[q] \notin {"cleanup", "count", "publish"}
  <2>1. \A q \in Runs \ {r} : pc[q] \in {"idle", "done"}
        BY <1>1, <1>7, IngestFrame DEF Handed, OneRunAtATime
  <2> QED BY <1>7, <2>1, IngestFrame
<1>8. ASSUME NEW r \in Runs, WorkerCrash(r) PROVE FALSE
      BY <1>1, <1>8 DEF WorkerCrash
<1>9. CASE UNCHANGED vars
      BY <1>2, <1>9 DEF vars, Unsent, Quiescent
<1>10. ASSUME NEW r \in Runs, Start(r)
       PROVE  \A q \in Runs : pc'[q] = "cleanup" /\ run'[q].exc = "none" => job' \notin Active
       BY <1>2, <1>5, <1>10
<1>11. ASSUME NEW r \in Runs, Ingest(r) PROVE Quiescent' => job' \notin Active
       BY <1>6, <1>7, <1>11, IngestFrame DEF Quiescent, TypeOK
<1> QED BY <1>2, <1>4, <1>5, <1>6, <1>7, <1>8, <1>9, <1>10, <1>11 DEF Next, Surroundings

\* Provided Celery allows as many retries as the settings do (with the defaults it does
\* not), and while nothing but the task itself fails: when request, broker and workers
\* are at rest the job has ended.
THEOREM JobsAreNotAbandoned ==
    ASSUME MaxRetries <= CeleryMaxRetries
    PROVE  Spec => []NoAbandonedJob
<1>1. Init => TypeOK /\ Handed /\ EndInv
      BY TypeInit
      DEF Init, Handed, OneRunAtATime, InProgress, EndInv, EndedOrHandedOn, NoAbandonedJob,
          Quiescent, Active
<1>2. TypeOK /\ StatusInv /\ Handed /\ EndInv /\ [Next]_vars => (Handed /\ EndInv)'
      BY HandedStep, EndStep
<1>3. EndInv => NoAbandonedJob
      BY DEF EndInv
<1> QED BY <1>1, <1>2, <1>3, StatusInvariant, PTL DEF Spec
==============================================================================
