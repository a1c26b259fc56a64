------------------------ MODULE EvaluationRunProofs -------------------------
(***************************************************************************)
(* Theorems about module EvaluationRun, for every set of executions and of *)
(* rows and every combination of faults.                                   *)
(***************************************************************************)
EXTENDS EvaluationRun, TLAPS

\* What the request, the task and the reader leave alone.
LEMMA RequestFrame == Request => UNCHANGED <<kind, redelivered, pc, ok, readVars>>
  BY DEF Request, CreateSingle, ExecuteSingle, ExecuteSingleFails, CommitSingle,
         CreateBenchmark, Enqueue, CommitBenchmark, RequestFails, queueVars

LEMMA TaskFrame ==
    ASSUME NEW t \in Tasks, Task(t)
    PROVE  UNCHANGED <<kind, api, redelivered, readVars>>
  BY DEF Task, TaskMissing, TaskStart, TaskStartFails, ExecuteDataset, ExecuteDatasetFails,
         FailRun, StoreResults, FinishRun, TaskFails, queueVars

LEMMA ReaderFrame == Reader => UNCHANGED <<kind, api, runVars, queueVars, pc, ok>>
  BY DEF Reader, ReadRun, ReadResults

LEMMA ResultsType ==
    ASSUME NEW w \in {None} \cup Tasks, NEW rows \in SUBSET Rows
    PROVE  ResultsOf(w, rows) \in SUBSET Results
  BY DEF ResultsOf, Results

(***************************************************************************)
(* Types.                                                                  *)
(***************************************************************************)
LEMMA TypeInit == Init => TypeOK
<1>1. Unread \in Seen
      BY DEF Unread, Seen, Statuses
<1>2. [run |-> Unread, results |-> {}] \in Page
      BY <1>1 DEF Page
<1> SUFFICES ASSUME Init PROVE TypeOK
    OBVIOUS
<1>3. seen \in Seen /\ page \in Page
      BY <1>1, <1>2 DEF Init
<1> QED BY <1>3 DEF Init, TypeOK, Statuses

LEMMA TypeStep == TypeOK /\ [Next]_vars => TypeOK'
<1> SUFFICES ASSUME TypeOK, [Next]_vars PROVE TypeOK'
    OBVIOUS
<1> USE DEF TypeOK, Goto, Answer, Statuses
<1>1. CASE Request
  <2>1. CASE CommitSingle
    <3>1. results' \in SUBSET Results
          BY <2>1, ResultsType DEF CommitSingle
    <3> QED BY <2>1, <3>1 DEF CommitSingle, queueVars, readVars
  <2>2. CASE \/ CreateSingle \/ ExecuteSingle \/ ExecuteSingleFails \/ CreateBenchmark
             \/ Enqueue \/ CommitBenchmark \/ RequestFails
        BY <2>2 DEF CreateSingle, ExecuteSingle, ExecuteSingleFails, CreateBenchmark, Enqueue,
                    CommitBenchmark, RequestFails, runVars, queueVars, readVars
  <2> QED BY <1>1, <2>1, <2>2 DEF Request
<1>2. CASE Redeliver
      BY <1>2 DEF Redeliver, runVars, readVars
<1>3. CASE Reader
  <2>1. CASE ReadRun
        BY <2>1 DEF ReadRun, Seen, runVars, queueVars
  <2>2. CASE ReadResults
        BY <2>2 DEF ReadResults, Page, runVars, queueVars
  <2> QED BY <1>3, <2>1, <2>2 DEF Reader
<1>4. ASSUME NEW t \in Tasks, Task(t) PROVE TypeOK'
  <2>1. CASE TaskMissing(t) \/ TaskStart(t) \/ TaskStartFails(t)
        BY <2>1 DEF TaskMissing, TaskStart, TaskStartFails, Take, runVars, readVars
  <2>2. CASE ExecuteDataset(t) \/ ExecuteDatasetFails(t) \/ FailRun(t) \/ FinishRun(t)
             \/ TaskFails(t)
        BY <2>2 DEF ExecuteDataset, ExecuteDatasetFails, FailRun, FinishRun, TaskFails,
                    runVars, queueVars, readVars
  <2>3. CASE StoreResults(t)
    <3>1. results' \in SUBSET Results
          BY <2>3, ResultsType DEF StoreResults
    <3> QED BY <2>3, <3>1 DEF StoreResults, queueVars, readVars
  <2> QED BY <1>4, <2>1, <2>2, <2>3 DEF Task
<1>5. ASSUME NEW t \in Tasks, WorkerCrash(t) PROVE TypeOK'
      BY <1>5 DEF WorkerCrash, runVars, queueVars, readVars
<1>6. CASE UNCHANGED vars
      BY <1>6 DEF vars, runVars, queueVars, readVars
<1> QED BY <1>1, <1>2, <1>3, <1>4, <1>5, <1>6 DEF Next

\* Every variable keeps its type.
THEOREM Typing == Spec => []TypeOK
<1>1. Init => TypeOK
      BY TypeInit
<1>2. TypeOK /\ [Next]_vars => TypeOK'
      BY TypeStep
<1> QED BY <1>1, <1>2, PTL DEF Spec

(***************************************************************************)
(* Under every fault.                                                      *)
(***************************************************************************)
LEMMA RequestStep == TypeOK /\ RequestInv /\ [Next]_vars => RequestInv'
<1> SUFFICES ASSUME TypeOK, RequestInv, [Next]_vars PROVE RequestInv'
    OBVIOUS
<1> USE DEF TypeOK, RequestInv, Goto, Answer
<1>1. CASE Request
      BY <1>1 DEF Request, CreateSingle, ExecuteSingle, ExecuteSingleFails, CommitSingle,
                  CreateBenchmark, Enqueue, CommitBenchmark, RequestFails, runVars, queueVars,
                  Kinds
<1>2. CASE Redeliver
      BY <1>2 DEF Redeliver, runVars
<1>3. CASE Reader
      BY <1>3, ReaderFrame DEF runVars, queueVars
<1>4. ASSUME NEW t \in Tasks, Task(t) PROVE RequestInv'
  <2>1. CASE TaskMissing(t) \/ TaskStart(t) \/ TaskStartFails(t)
    <3>1. kind = "benchmark" /\ UNCHANGED <<kind, api, results>>
          BY <2>1 DEF TaskMissing, TaskStart, TaskStartFails, Take, runVars, Kinds
    <3>2. status' = status \/ (status # "absent" /\ status' = "running")
          BY <2>1 DEF TaskMissing, TaskStart, TaskStartFails, runVars
    <3>3. \A u \in Tasks : pc'[u] \in {pc[u], "done"} \/ status' = "running"
          BY <2>1 DEF TaskMissing, TaskStart, TaskStartFails
    <3> QED BY <3>1, <3>2, <3>3
  <2>2. CASE ExecuteDataset(t) \/ ExecuteDatasetFails(t) \/ FailRun(t) \/ StoreResults(t)
             \/ FinishRun(t) \/ TaskFails(t)
        BY <2>2 DEF ExecuteDataset, ExecuteDatasetFails, FailRun, StoreResults, FinishRun,
                    TaskFails, runVars, queueVars
  <2> QED BY <1>4, <2>1, <2>2 DEF Task
<1>5. ASSUME NEW t \in Tasks, WorkerCrash(t) PROVE RequestInv'
      BY <1>5 DEF WorkerCrash, runVars, queueVars
<1>6. CASE UNCHANGED vars
      BY <1>6 DEF vars, runVars, queueVars
<1> QED BY <1>1, <1>2, <1>3, <1>4, <1>5, <1>6 DEF Next

LEMMA ResultsStep == TypeOK /\ RequestInv /\ ResultsInv /\ [Next]_vars => ResultsInv'
<1> SUFFICES ASSUME TypeOK, RequestInv, ResultsInv, [Next]_vars PROVE ResultsInv'
    OBVIOUS
<1> USE DEF TypeOK, ResultsInv, Goto
<1>1. CASE Request
  <2>1. UNCHANGED <<kind, pc, ok>>
        BY <1>1, RequestFrame
  <2>2. \/ UNCHANGED runVars
        \/ CommitSingle
        \/ CommitBenchmark
        BY <1>1 DEF Request, CreateSingle, ExecuteSingle, ExecuteSingleFails, CreateBenchmark,
                    Enqueue, RequestFails
  <2>3. CASE UNCHANGED runVars
        BY <2>1, <2>3 DEF runVars
  <2>4. CASE CommitSingle
        BY <2>1, <2>4 DEF CommitSingle, RequestInv
  <2>5. CASE CommitBenchmark
        BY <2>1, <2>5 DEF CommitBenchmark
  <2> QED BY <2>2, <2>3, <2>4, <2>5
<1>2. CASE Redeliver \/ Reader \/ UNCHANGED vars
  <2>1. UNCHANGED <<kind, runVars, pc, ok>>
        BY <1>2, ReaderFrame DEF Redeliver, vars
  <2> QED BY <2>1 DEF runVars
<1>3. ASSUME NEW t \in Tasks, StoreResults(t) PROVE ResultsInv'
  <2>1. results \subseteq results' /\ ResultsOf(t, ok[t]) \subseteq results'
        BY <1>3 DEF StoreResults
  <2>2. UNCHANGED <<kind, status, summary, ok>> /\ pc' = [pc EXCEPT ![t] = "finish"]
        BY <1>3 DEF StoreResults
  <2> QED BY <1>3, <2>1, <2>2 DEF StoreResults
<1>4. ASSUME NEW t \in Tasks, FinishRun(t) PROVE ResultsInv'
      BY <1>4 DEF FinishRun
<1>5. ASSUME NEW t \in Tasks, ExecuteDataset(t) PROVE ResultsInv'
      BY <1>5 DEF ExecuteDataset, runVars
<1>6. ASSUME NEW t \in Tasks,
             \/ TaskMissing(t) \/ TaskStartFails(t) \/ ExecuteDatasetFails(t) \/ TaskFails(t)
             \/ WorkerCrash(t)
      PROVE  ResultsInv'
  <2>1. UNCHANGED <<kind, runVars, ok>> /\ pc[t] # "done"
        BY <1>6 DEF TaskMissing, TaskStartFails, ExecuteDatasetFails, TaskFails, WorkerCrash, Take
  <2>2. pc' = [pc EXCEPT ![t] = "done"] \/ pc' = [pc EXCEPT ![t] = "fail"]
        BY <1>6 DEF TaskMissing, TaskStartFails, ExecuteDatasetFails, TaskFails, WorkerCrash
  <2> QED BY <2>1, <2>2 DEF runVars
<1>7. ASSUME NEW t \in Tasks, TaskStart(t) \/ FailRun(t) PROVE ResultsInv'
  <2>1. UNCHANGED <<kind, results, ok>> /\ status' # "completed"
        BY <1>7 DEF TaskStart, FailRun
  <2>2. \A u \in Tasks : pc'[u] = "finish" => pc[u] = "finish"
        BY <1>7 DEF TaskStart, FailRun
  <2> QED BY <2>1, <2>2
<1> QED BY <1>1, <1>2, <1>3, <1>4, <1>5, <1>6, <1>7 DEF Next, Task

\* However often the message is delivered and whatever fails, a completed run has the
\* results of an execution that answered the rows it counts.
THEOREM CompletedIsStored == Spec => []CompletedHasResults
<1> DEFINE I == TypeOK /\ RequestInv /\ ResultsInv
<1>1. Init => I
      BY TypeInit DEF Init, RequestInv, ResultsInv
<1>2. I /\ [Next]_vars => I'
      BY TypeStep, RequestStep, ResultsStep
<1>3. I => CompletedHasResults
      BY DEF ResultsInv, CompletedHasResults
<1> QED BY <1>1, <1>2, <1>3, PTL DEF Spec

\* A run whose message was delivered again stays one.
LEMMA OnceRepeated == [Next]_vars => redelivered' = redelivered \/ redelivered' = TRUE
<1>1. ASSUME NEW t \in Tasks, Task(t) \/ WorkerCrash(t) PROVE redelivered' = redelivered
      BY <1>1, TaskFrame DEF WorkerCrash, queueVars
<1>2. ASSUME Request \/ Reader \/ UNCHANGED vars PROVE redelivered' = redelivered
      BY <1>2, RequestFrame, ReaderFrame DEF vars, queueVars
<1>3. Redeliver => redelivered' = TRUE
      BY DEF Redeliver
<1> QED BY <1>1, <1>2, <1>3 DEF Next

(***************************************************************************)
(* While the message is delivered once.                                    *)
(***************************************************************************)
LEMMA TokenStep == TypeOK /\ RequestInv /\ TokenInv /\ [Next]_vars => TokenInv'
<1> SUFFICES ASSUME TypeOK, RequestInv, TokenInv, [Next]_vars, ~redelivered, ~redelivered'
      PROVE  TokenInv'
    BY OnceRepeated DEF TokenInv
<1> USE DEF TypeOK, TokenInv, Untouched, Goto
<1>1. CASE Request
  <2>1. UNCHANGED <<kind, pc, ok>>
        BY <1>1, RequestFrame
  <2>2. CASE CommitSingle
        BY <2>1, <2>2 DEF CommitSingle, RequestInv, Answer, queueVars
  <2>3. CASE CommitBenchmark
        BY <2>1, <2>3 DEF CommitBenchmark, RequestInv, Answer, queueVars
  <2>4. CASE Enqueue
        BY <2>1, <2>4 DEF Enqueue, RequestInv, Answer, runVars
  <2>5. CASE CreateSingle \/ ExecuteSingle \/ ExecuteSingleFails \/ CreateBenchmark \/ RequestFails
    <3>1. UNCHANGED <<runVars, msgs>> /\ (api' \in {"start", "created"} => api = "start")
          BY <2>5 DEF CreateSingle, ExecuteSingle, ExecuteSingleFails, CreateBenchmark,
                      RequestFails, Answer, queueVars
    <3> QED BY <2>1, <3>1 DEF runVars
  <2> QED BY <1>1, <2>2, <2>3, <2>4, <2>5 DEF Request
<1>2. CASE Reader \/ UNCHANGED vars
  <2>1. UNCHANGED <<kind, api, runVars, queueVars, pc, ok>>
        BY <1>2, ReaderFrame DEF vars
  <2> QED BY <2>1 DEF runVars, queueVars
<1>3. Redeliver => FALSE
      BY DEF Redeliver
<1>4. ASSUME NEW t \in Tasks, TaskMissing(t) \/ TaskStart(t) \/ TaskStartFails(t) PROVE TokenInv'
  <2>1. msgs = 1 /\ Untouched /\ msgs' = 0 /\ UNCHANGED <<kind, api, results, summary, ok>>
        BY <1>4 DEF TaskMissing, TaskStart, TaskStartFails, Take, runVars
  <2>2. api \notin {"start", "created"} /\ kind = "benchmark"
        BY <2>1 DEF RequestInv, Kinds
  <2>3. status \in {"absent", "queued"} /\ results = {}
        BY <2>1, <2>2 DEF RequestInv
  <2>4. \/ pc' = [pc EXCEPT ![t] = "done"] /\ UNCHANGED status
        \/ pc' = [pc EXCEPT ![t] = "execute"] /\ status' = "running"
        BY <1>4 DEF TaskMissing, TaskStart, TaskStartFails, runVars
  <2> QED BY <2>1, <2>2, <2>3, <2>4
<1>5. ASSUME NEW t \in Tasks, pc[t] \notin {"idle", "done"},
             \/ ExecuteDataset(t) \/ ExecuteDatasetFails(t) \/ FailRun(t) \/ StoreResults(t)
             \/ FinishRun(t) \/ TaskFails(t) \/ WorkerCrash(t)
      PROVE  TokenInv'
  <2>1. /\ UNCHANGED <<kind, api, msgs>> /\ pc'[t] # "idle"
        /\ \A u \in Tasks : u # t => pc'[u] = "idle" /\ pc[u] = "idle"
        BY <1>5 DEF ExecuteDataset, ExecuteDatasetFails, FailRun, StoreResults, FinishRun,
                    TaskFails, WorkerCrash, queueVars
  <2>2. msgs = 0 /\ api \notin {"start", "created"}
        BY <1>5
  <2>3. CASE ExecuteDataset(t)
        BY <2>1, <2>2, <2>3 DEF ExecuteDataset, runVars
  <2>4. CASE ExecuteDatasetFails(t) \/ TaskFails(t) \/ WorkerCrash(t)
    <3>1. UNCHANGED <<status, summary, results, ok>> /\ status = "running"
          BY <1>5, <2>4 DEF ExecuteDatasetFails, TaskFails, WorkerCrash, runVars
    <3>2. (pc'[t] = "fail" /\ pc[t] = "execute") \/ pc'[t] = "done"
          BY <2>4 DEF ExecuteDatasetFails, TaskFails, WorkerCrash
    <3> QED BY <2>1, <2>2, <3>1, <3>2
  <2>5. CASE FailRun(t)
        BY <2>1, <2>2, <2>5 DEF FailRun
  <2>6. CASE StoreResults(t)
        BY <2>1, <2>2, <2>6 DEF StoreResults
  <2>7. CASE FinishRun(t)
        BY <2>1, <2>2, <2>7 DEF FinishRun
  <2> QED BY <1>5, <2>3, <2>4, <2>5, <2>6, <2>7
<1>6. ASSUME NEW t \in Tasks,
             \/ ExecuteDataset(t) \/ ExecuteDatasetFails(t) \/ FailRun(t) \/ StoreResults(t)
             \/ FinishRun(t) \/ TaskFails(t) \/ WorkerCrash(t)
      PROVE  pc[t] \notin {"idle", "done"}
      BY <1>6 DEF ExecuteDataset, ExecuteDatasetFails, FailRun, StoreResults, FinishRun,
                  TaskFails, WorkerCrash
<1> QED BY <1>1, <1>2, <1>3, <1>4, <1>5, <1>6 DEF Next, Task

LEMMA PageStep == TypeOK /\ RequestInv /\ TokenInv /\ PageInv /\ [Next]_vars => PageInv'
<1> SUFFICES ASSUME TypeOK, RequestInv, TokenInv, PageInv, [Next]_vars PROVE PageInv'
    OBVIOUS
<1>0. kind' = kind
  <2>1. ASSUME NEW t \in Tasks, Task(t) PROVE kind' = kind
        BY <2>1, TaskFrame
  <2>2. ASSUME NEW t \in Tasks, WorkerCrash(t) PROVE kind' = kind
        BY <2>2 DEF WorkerCrash
  <2>3. CASE Request \/ Reader \/ Redeliver \/ UNCHANGED vars
        BY <2>3, RequestFrame, ReaderFrame DEF Redeliver, vars
  <2> QED BY <2>1, <2>2, <2>3 DEF Next
<1> SUFFICES ASSUME ~redelivered, ~redelivered', kind = "benchmark" PROVE PageInv'
    BY <1>0, OnceRepeated DEF PageInv
<1> USE DEF TypeOK, PageInv
<1>1. ASSUME UNCHANGED readVars,
             status = "completed" => status' = "completed" /\ summary' = summary
      PROVE  PageInv'
      BY <1>1 DEF readVars
<1>2. CASE Request
  <2>1. status = "completed" => status' = "completed" /\ summary' = summary
        BY <1>2 DEF Request, CreateSingle, ExecuteSingle, ExecuteSingleFails, CommitSingle,
                    CreateBenchmark, Enqueue, CommitBenchmark, RequestFails, RequestInv, runVars
  <2> QED BY <1>1, <1>2, <2>1, RequestFrame
<1>3. CASE Redeliver \/ UNCHANGED vars
      BY <1>1, <1>3 DEF Redeliver, vars, runVars
<1>4. CASE ReadRun
      BY <1>4 DEF ReadRun, runVars
<1>5. CASE ReadResults
  <2>1. seen.status = "completed" =>
           \E t \in Tasks : results = ResultsOf(t, seen.summary)
        BY <1>5 DEF ReadResults, TokenInv
  <2>2. page'.run = seen /\ page'.results = results /\ rpc' = "idle"
        BY <1>5 DEF ReadResults
  <2> QED BY <2>1, <2>2
<1>6. ASSUME NEW t \in Tasks, Task(t) PROVE PageInv'
  <2>1. CASE TaskMissing(t) \/ TaskStartFails(t) \/ ExecuteDataset(t) \/ ExecuteDatasetFails(t)
             \/ StoreResults(t) \/ TaskFails(t)
    <3>1. UNCHANGED <<status, summary>>
          BY <2>1 DEF TaskMissing, TaskStartFails, ExecuteDataset, ExecuteDatasetFails,
                      StoreResults, TaskFails, runVars
    <3> QED BY <1>1, <1>6, <3>1, TaskFrame
  <2>2. CASE TaskStart(t) \/ FailRun(t) \/ FinishRun(t)
    <3>1. status # "completed"
          BY <2>2 DEF TaskStart, FailRun, FinishRun, Take, TokenInv
    <3> QED BY <1>1, <1>6, <3>1, TaskFrame
  <2> QED BY <1>6, <2>1, <2>2 DEF Task
<1>7. ASSUME NEW t \in Tasks, WorkerCrash(t) PROVE PageInv'
      BY <1>1, <1>7 DEF WorkerCrash, runVars
<1> QED BY <1>2, <1>3, <1>4, <1>5, <1>6, <1>7 DEF Next, Reader

Inv == TypeOK /\ RequestInv /\ TokenInv /\ PageInv

LEMMA InvHolds == Spec => []Inv
<1>1. Init => Inv
      BY TypeInit DEF Init, Inv, RequestInv, TokenInv, PageInv, Untouched, Unread
<1>2. Inv /\ [Next]_vars => Inv'
      BY TypeStep, RequestStep, TokenStep, PageStep DEF Inv
<1> QED BY <1>1, <1>2, PTL DEF Spec

\* A page that says completed is whole, although the reader's two queries and the task's
\* two transactions interleave.
THEOREM PageIsWhole == Spec => []CompletedPageIsWhole
<1>1. Inv => CompletedPageIsWhole
      BY DEF Inv, PageInv, CompletedPageIsWhole
<1> QED BY <1>1, InvHolds, PTL

\* The rows that a writer's results answer.
LEMMA AnsweredRows ==
    ASSUME NEW w, NEW rows
    PROVE  {p[2] : p \in ResultsOf(w, rows)} = rows
<1>1. \A r \in rows : <<w, r>> \in ResultsOf(w, rows) /\ <<w, r>>[2] = r
      BY DEF ResultsOf
<1>2. \A p \in ResultsOf(w, rows) : p[2] \in rows
      BY DEF ResultsOf
<1> QED BY <1>1, <1>2

\* What any step does to a run whose message is delivered once.
LEMMA LifeStep ==
    ASSUME ~redelivered, ~redelivered', Inv, [Next]_vars
    PROVE  Life!Next \/ UNCHANGED <<status, {p[2] : p \in results}, redelivered>>
<1> DEFINE answered == {p[2] : p \in results}
<1> USE DEF Inv
<1>0. redelivered' = redelivered
      BY OnceRepeated
<1>1. ASSUME UNCHANGED <<status, results>>
      PROVE  UNCHANGED <<status, answered, redelivered>>
      BY <1>0, <1>1
<1>2. results = {} => answered = {}
      OBVIOUS
<1>3. CASE Request
  <2>1. CASE CommitSingle
    <3>1. PICK r \in Rows : results' = ResultsOf(None, {r})
          BY <2>1 DEF CommitSingle
    <3>2. answered' = {r}
          BY <3>1, AnsweredRows
    <3>3. status = "absent" /\ status' = "completed"
          BY <2>1 DEF CommitSingle, RequestInv
    <3>4. Life!Single
          BY <1>0, <3>2, <3>3 DEF Life!Single
    <3> QED BY <3>4 DEF Life!Next
  <2>2. CASE CommitBenchmark
    <3>1. status = "absent" /\ status' = "queued" /\ results' = results
          BY <2>2 DEF CommitBenchmark, RequestInv
    <3>2. Life!Queue
          BY <1>0, <3>1 DEF Life!Queue
    <3> QED BY <3>2 DEF Life!Next
  <2>3. CASE \/ CreateSingle \/ ExecuteSingle \/ ExecuteSingleFails \/ CreateBenchmark
             \/ Enqueue \/ RequestFails
        BY <1>1, <2>3 DEF CreateSingle, ExecuteSingle, ExecuteSingleFails, CreateBenchmark,
                          Enqueue, RequestFails, runVars
  <2> QED BY <1>3, <2>1, <2>2, <2>3 DEF Request
<1>4. CASE Redeliver \/ Reader \/ UNCHANGED vars
      BY <1>1, <1>4, ReaderFrame DEF Redeliver, vars, runVars
<1>5. ASSUME NEW t \in Tasks, TaskStart(t)
      PROVE  Life!Next
  <2>1. status = "queued"
        BY <1>5 DEF TaskStart, Take, TokenInv, RequestInv, TypeOK, Kinds
  <2>2. Life!Begin
        BY <1>0, <1>5, <2>1 DEF TaskStart, Life!Begin
  <2> QED BY <2>2 DEF Life!Next
<1>6. ASSUME NEW t \in Tasks, FailRun(t)
      PROVE  Life!Next
  <2>1. status = "running" /\ status' = "failed" /\ results = {} /\ results' = results
        BY <1>6 DEF FailRun, TokenInv
  <2>2. Life!Fail
        BY <1>0, <1>2, <2>1 DEF Life!Fail
  <2> QED BY <2>2 DEF Life!Next
<1>7. ASSUME NEW t \in Tasks, StoreResults(t)
      PROVE  Life!Next
  <2>1. results = {} /\ results' = ResultsOf(t, ok[t]) /\ status = "running" /\ status' = status
        BY <1>7 DEF StoreResults, TokenInv
  <2>2. answered' = ok[t] /\ ok[t] \in SUBSET Rows
        BY <2>1, AnsweredRows DEF TypeOK
  <2>3. Life!Save
        BY <1>0, <1>2, <2>1, <2>2 DEF Life!Save
  <2> QED BY <2>3 DEF Life!Next
<1>8. ASSUME NEW t \in Tasks, FinishRun(t)
      PROVE  Life!Next
  <2>1. status = "running" /\ status' = "completed" /\ results' = results
        BY <1>8 DEF FinishRun, TokenInv
  <2>2. Life!Finish
        BY <1>0, <2>1 DEF Life!Finish
  <2> QED BY <2>2 DEF Life!Next
<1>9. ASSUME NEW t \in Tasks,
             \/ TaskMissing(t) \/ TaskStartFails(t) \/ ExecuteDataset(t)
             \/ ExecuteDatasetFails(t) \/ TaskFails(t) \/ WorkerCrash(t)
      PROVE  UNCHANGED <<status, answered, redelivered>>
      BY <1>1, <1>9 DEF TaskMissing, TaskStartFails, ExecuteDataset, ExecuteDatasetFails,
                        TaskFails, WorkerCrash, runVars
<1> QED BY <1>3, <1>4, <1>5, <1>6, <1>7, <1>8, <1>9 DEF Next, Task

\* The sets of answered rows grow with the sets of results.
LEMMA AnsweredGrow ==
    results \subseteq results' => {p[2] : p \in results} \subseteq {p[2] : p \in results'}
  OBVIOUS

\* What any step does to a run whose message has been delivered again.
LEMMA RerunStep ==
    ASSUME TypeOK, TypeOK', RequestInv, redelivered, redelivered', [Next]_vars
    PROVE  Life!Next \/ UNCHANGED <<status, {p[2] : p \in results}, redelivered>>
<1> DEFINE answered == {p[2] : p \in results}
<1>1. answered' \in SUBSET Rows
      BY DEF TypeOK, Results
<1>2. ASSUME status # "absent", results \subseteq results',
             status' \in {"running", "completed", "failed"} \cup {status}
      PROVE  Life!Next
  <2>1. Life!Rerun
        BY <1>1, <1>2, AnsweredGrow DEF Life!Rerun, TypeOK
  <2> QED BY <2>1 DEF Life!Next
<1>3. ASSUME UNCHANGED <<status, results>>
      PROVE  UNCHANGED <<status, answered, redelivered>>
      BY <1>3 DEF TypeOK
<1>4. CASE Request
  <2>2. CASE CommitSingle
    <3>1. PICK r \in Rows : results' = ResultsOf(None, {r})
          BY <2>2 DEF CommitSingle
    <3>2. answered' = {r}
          BY <3>1, AnsweredRows
    <3>3. Life!Single
          BY <2>2, <3>2 DEF CommitSingle, RequestInv, Life!Single, TypeOK
    <3> QED BY <3>3 DEF Life!Next
  <2>3. CASE CommitBenchmark
    <3>1. status = "absent" /\ status' = "queued" /\ results = {} /\ results' = results
          BY <2>3 DEF CommitBenchmark, RequestInv
    <3>2. Life!Queue
          BY <3>1 DEF Life!Queue, TypeOK
    <3> QED BY <3>2 DEF Life!Next
  <2>4. CASE \/ CreateSingle \/ ExecuteSingle \/ ExecuteSingleFails \/ CreateBenchmark
             \/ Enqueue \/ RequestFails
        BY <1>3, <2>4 DEF CreateSingle, ExecuteSingle, ExecuteSingleFails, CreateBenchmark,
                          Enqueue, RequestFails, runVars
  <2> QED BY <1>4, <2>2, <2>3, <2>4 DEF Request
<1>5. CASE Redeliver \/ Reader \/ UNCHANGED vars
      BY <1>3, <1>5, ReaderFrame DEF Redeliver, vars, runVars
<1>6. ASSUME NEW t \in Tasks, TaskStart(t) \/ FailRun(t) \/ StoreResults(t) \/ FinishRun(t)
      PROVE  Life!Next
  <2>1. status # "absent"
        BY <1>6 DEF TaskStart, FailRun, StoreResults, FinishRun, RequestInv
  <2>2. /\ results \subseteq results'
        /\ status' \in {"running", "completed", "failed"} \cup {status}
        BY <1>6 DEF TaskStart, FailRun, StoreResults, FinishRun
  <2> QED BY <1>2, <2>1, <2>2
<1>7. ASSUME NEW t \in Tasks,
             \/ TaskMissing(t) \/ TaskStartFails(t) \/ ExecuteDataset(t)
             \/ ExecuteDatasetFails(t) \/ TaskFails(t) \/ WorkerCrash(t)
      PROVE  UNCHANGED <<status, answered, redelivered>>
      BY <1>3, <1>7 DEF TaskMissing, TaskStartFails, ExecuteDataset, ExecuteDatasetFails,
                        TaskFails, WorkerCrash, runVars
<1> QED BY <1>4, <1>5, <1>6, <1>7 DEF Next, Task

\* The step that delivers the message again.
LEMMA RepeatStep ==
    ASSUME ~redelivered, redelivered', [Next]_vars
    PROVE  Life!Next
<1>1. ASSUME NEW t \in Tasks, Task(t) \/ WorkerCrash(t) PROVE redelivered' = redelivered
      BY <1>1, TaskFrame DEF WorkerCrash, queueVars
<1>2. Request \/ Reader \/ UNCHANGED vars => redelivered' = redelivered
      BY RequestFrame, ReaderFrame DEF vars, queueVars
<1>3. Redeliver
      BY <1>1, <1>2 DEF Next
<1>4. Life!Repeat
      BY <1>3 DEF Redeliver, runVars, Life!Repeat
<1> QED BY <1>4 DEF Life!Next

\* EvaluationRun implements RunLife, whatever fails and is delivered again.
THEOREM RunLifeHolds == Spec => ClientView
<1>1. Init => Life!Init
      BY DEF Init, Life!Init
<1>2. Inv /\ Inv' /\ [Next]_vars
        => [Life!Next]_<<status, {p[2] : p \in results}, redelivered>>
  <2> SUFFICES ASSUME Inv, Inv', [Next]_vars
               PROVE  Life!Next \/ UNCHANGED <<status, {p[2] : p \in results}, redelivered>>
      OBVIOUS
  <2>1. CASE ~redelivered /\ ~redelivered'
        BY <2>1, LifeStep
  <2>2. CASE ~redelivered /\ redelivered'
        BY <2>2, RepeatStep
  <2>3. CASE redelivered
    <3>1. redelivered'
          BY <2>3, OnceRepeated
    <3> QED BY <2>3, <3>1, RerunStep DEF Inv
  <2> QED BY <2>1, <2>2, <2>3
<1> QED BY <1>1, <1>2, InvHolds, PTL DEF Spec, ClientView, Life!Spec
=============================================================================
