---------------------------- MODULE EvaluationRun ---------------------------
(***************************************************************************)
(* One evaluation run: the request that starts it, the executions of the   *)
(* benchmark task, and a reader of the run's page.  A step is one          *)
(* transaction of the task, or what the request does up to its commit.     *)
(***************************************************************************)
EXTENDS Naturals, FiniteSets

CONSTANTS
    Tasks,      \* executions of run_benchmark_evaluation_task
    Rows,       \* rows of the dataset
    None,
    Faults      \* which faults of the surroundings can happen

FaultKinds == {"db", "crash", "broker", "redeliver"}

ASSUME TasksAssumption == None \notin Tasks /\ IsFiniteSet(Tasks)
ASSUME RowsAssumption == IsFiniteSet(Rows)
ASSUME FaultsAssumption == Faults \subseteq FaultKinds

VARIABLES
    kind,       \* run_type: never changes
    api,        \* the next step of the request
    status,     \* the committed row of the run, and what workflow_trace_summary
    summary,    \*   says of it: the rows that were answered
    results,    \* committed results: who stored one, and for which row
    msgs,       \* copies of the task's message in the broker
    redelivered,
    pc,         \* each execution's next step
    ok,         \* the rows each execution has answered, not yet stored
    rpc, seen,  \* the reader between its two queries, and the row it has read
    page        \* the last page the reader was shown

runVars == <<status, summary, results>>
queueVars == <<msgs, redelivered>>
readVars == <<rpc, seen, page>>
vars == <<kind, api, runVars, queueVars, pc, ok, readVars>>

Kinds == {"single", "benchmark"}
Statuses == {"absent", "queued", "running", "completed", "failed"}
Seen == [status: Statuses, summary: SUBSET Rows]
Results == ({None} \cup Tasks) \X Rows
Page == [run: Seen, results: SUBSET Results]

TypeOK ==
    /\ kind \in Kinds
    /\ api \in {"start", "created", "enqueued", "answering", "answered", "error"}
    /\ status \in Statuses
    /\ summary \in SUBSET Rows
    /\ results \in SUBSET Results
    /\ msgs \in Nat
    /\ redelivered \in BOOLEAN
    /\ pc \in [Tasks -> {"idle", "execute", "fail", "store", "finish", "done"}]
    /\ ok \in [Tasks -> SUBSET Rows]
    /\ rpc \in {"idle", "results"}
    /\ seen \in Seen
    /\ page \in Page

Unread == [status |-> "absent", summary |-> {}]

Init ==
    /\ kind \in Kinds
    /\ api = "start"
    /\ status = "absent" /\ summary = {} /\ results = {}
    /\ msgs = 0 /\ redelivered = FALSE
    /\ pc = [t \in Tasks |-> "idle"]
    /\ ok = [t \in Tasks |-> {}]
    /\ rpc = "idle" /\ seen = Unread /\ page = [run |-> Unread, results |-> {}]

Goto(t, step) == pc' = [pc EXCEPT ![t] = step]
Answer(a) == api' = a
ResultsOf(writer, rows) == {<<writer, r>> : r \in rows}

(***************************************************************************)
(* A run of one query: every write is in the request's transaction.        *)
(***************************************************************************)
CreateSingle ==
    /\ api = "start" /\ kind = "single"
    /\ Answer("created")
    /\ UNCHANGED <<kind, runVars, queueVars, pc, ok, readVars>>

ExecuteSingle ==
    /\ api = "created" /\ kind = "single"
    /\ Answer("answering")
    /\ UNCHANGED <<kind, runVars, queueVars, pc, ok, readVars>>

\* _mark_run_failed writes into the transaction that the raise then rolls back
ExecuteSingleFails ==
    /\ api = "created" /\ kind = "single"
    /\ Answer("error")
    /\ UNCHANGED <<kind, runVars, queueVars, pc, ok, readVars>>

\* mutation: complete_run is called without the status
CommitSingleUnfinished ==
    /\ api = "answering"
    /\ status' = "processing"
    /\ \E r \in Rows : results' = ResultsOf(None, {r})
    /\ Answer("answered")
    /\ UNCHANGED <<kind, summary, queueVars, pc, ok, readVars>>

CommitSingle ==
    /\ api = "answering"
    /\ status' = "completed"
    /\ \E r \in Rows : results' = ResultsOf(None, {r})
    /\ Answer("answered")
    /\ UNCHANGED <<kind, summary, queueVars, pc, ok, readVars>>

(***************************************************************************)
(* The request for a benchmark run: flush, publish, commit.                *)
(***************************************************************************)
CreateBenchmark ==
    /\ api = "start" /\ kind = "benchmark"
    /\ Answer("created")
    /\ UNCHANGED <<kind, runVars, queueVars, pc, ok, readVars>>

Enqueue ==
    /\ api = "created" /\ kind = "benchmark"
    /\ msgs' = msgs + 1
    /\ Answer("enqueued")
    /\ UNCHANGED <<kind, runVars, redelivered, pc, ok, readVars>>

CommitBenchmark ==
    /\ api = "enqueued"
    /\ status' = "queued"
    /\ Answer("answered")
    /\ UNCHANGED <<kind, summary, results, queueVars, pc, ok, readVars>>

\* the dataset is not there, or an error: the transaction is rolled back, a message
\* that was published stays
RequestFails ==
    /\ \/ api = "start" /\ kind = "benchmark"
       \/ api = "created" /\ kind = "benchmark" /\ "broker" \in Faults
       \/ api \in {"start", "created", "enqueued", "answering"} /\ "db" \in Faults
    /\ Answer("error")
    /\ UNCHANGED <<kind, runVars, queueVars, pc, ok, readVars>>

(***************************************************************************)
(* run_benchmark_evaluation_task.                                          *)
(***************************************************************************)
Take(t) == pc[t] = "idle" /\ msgs > 0 /\ msgs' = msgs - 1

\* the row is not committed, or never will be: the message is used up
TaskMissing(t) ==
    /\ Take(t) /\ status = "absent"
    /\ Goto(t, "done")
    /\ UNCHANGED <<kind, api, runVars, redelivered, ok, readVars>>

TaskStart(t) ==
    /\ Take(t) /\ status # "absent"
    /\ status' = "running"
    /\ Goto(t, "execute")
    /\ UNCHANGED <<kind, api, summary, results, redelivered, ok, readVars>>

TaskStartFails(t) ==
    /\ "db" \in Faults
    /\ Take(t)
    /\ Goto(t, "done")
    /\ UNCHANGED <<kind, api, runVars, redelivered, ok, readVars>>

\* a row that is invalid or fails is counted and left out
ExecuteDataset(t) ==
    /\ pc[t] = "execute"
    /\ \E rows \in SUBSET Rows : ok' = [ok EXCEPT ![t] = rows]
    /\ Goto(t, "store")
    /\ UNCHANGED <<kind, api, runVars, queueVars, readVars>>

ExecuteDatasetFails(t) ==
    /\ pc[t] = "execute"
    /\ Goto(t, "fail")
    /\ UNCHANGED <<kind, api, runVars, queueVars, ok, readVars>>

\* mutation: the failed run keeps the results of the rows before the failure
FailRunPartial(t) ==
    /\ pc[t] = "fail"
    /\ status' = "failed"
    /\ results' \in {results \cup ResultsOf(t, rows) : rows \in SUBSET Rows}
    /\ Goto(t, "done")
    /\ UNCHANGED <<kind, api, summary, queueVars, ok, readVars>>

FailRun(t) ==
    /\ pc[t] = "fail"
    /\ status' = "failed"
    /\ Goto(t, "done")
    /\ UNCHANGED <<kind, api, summary, results, queueVars, ok, readVars>>

\* mutation: the status first, then the results
StatusFirst(t) ==
    /\ pc[t] = "store"
    /\ status' = "completed" /\ summary' = ok[t]
    /\ Goto(t, "finish")
    /\ UNCHANGED <<kind, api, results, queueVars, ok, readVars>>

StoreResults(t) ==
    /\ pc[t] = "store"
    /\ results' = results \cup ResultsOf(t, ok[t])
    /\ Goto(t, "finish")
    /\ UNCHANGED <<kind, api, status, summary, queueVars, ok, readVars>>

FinishRun(t) ==
    /\ pc[t] = "finish"
    /\ status' = "completed" /\ summary' = ok[t]
    /\ Goto(t, "done")
    /\ UNCHANGED <<kind, api, results, queueVars, ok, readVars>>

\* a session of the last three transactions raises: nothing marks the run
TaskFails(t) ==
    /\ "db" \in Faults
    /\ pc[t] \in {"fail", "store", "finish"}
    /\ Goto(t, "done")
    /\ UNCHANGED <<kind, api, runVars, queueVars, ok, readVars>>

WorkerCrash(t) ==
    /\ "crash" \in Faults
    /\ pc[t] \notin {"idle", "done"}
    /\ Goto(t, "done")
    /\ UNCHANGED <<kind, api, runVars, queueVars, ok, readVars>>

\* bound: one second copy
Redeliver ==
    /\ "redeliver" \in Faults
    /\ msgs > 0 /\ ~redelivered
    /\ msgs' = msgs + 1 /\ redelivered' = TRUE
    /\ UNCHANGED <<kind, api, runVars, pc, ok, readVars>>

(***************************************************************************)
(* get_run_detail: the row, then its results; READ COMMITTED.              *)
(***************************************************************************)
ReadRun ==
    /\ rpc = "idle" /\ status # "absent"
    /\ seen' = [status |-> status, summary |-> summary]
    /\ rpc' = "results"
    /\ UNCHANGED <<kind, api, runVars, queueVars, pc, ok, page>>

ReadResults ==
    /\ rpc = "results"
    /\ page' = [run |-> seen, results |-> results]
    /\ rpc' = "idle"
    /\ UNCHANGED <<kind, api, runVars, queueVars, pc, ok, seen>>

(***************************************************************************)
Request ==
    \/ CreateSingle \/ ExecuteSingle \/ ExecuteSingleFails \/ CommitSingle
    \/ CreateBenchmark \/ Enqueue \/ CommitBenchmark \/ RequestFails

Task(t) ==
    \/ TaskMissing(t) \/ TaskStart(t) \/ TaskStartFails(t)
    \/ ExecuteDataset(t) \/ ExecuteDatasetFails(t) \/ FailRun(t)
    \/ StoreResults(t) \/ FinishRun(t) \/ TaskFails(t)

Reader == ReadRun \/ ReadResults

Next ==
    \/ Request \/ Redeliver \/ Reader
    \/ \E t \in Tasks : Task(t) \/ WorkerCrash(t)

Spec == Init /\ [][Next]_vars

\* a request runs to its end, a free worker takes a message, no call hangs for ever
FairSpec ==
    /\ Spec
    /\ WF_vars(Request)
    /\ \A t \in Tasks : WF_vars(Task(t))

(***************************************************************************)
(* Properties.                                                             *)
(***************************************************************************)
\* The run goes through its statuses as RunLife says: until its message is delivered
\* again it ends once, and a failed run has no results; no result is ever lost.
Life == INSTANCE RunLife WITH answered <- {p[2] : p \in results}, again <- redelivered
ClientView == Life!Spec

\* While the message is delivered once, a page that says completed shows each row its
\* summary counts once, although the row and the results are read by two queries and
\* written by two transactions.
CompletedPageIsWhole ==
    ~redelivered /\ kind = "benchmark" /\ page.run.status = "completed" =>
        \E t \in Tasks : page.results = ResultsOf(t, page.run.summary)

\* However often the task is delivered and whatever fails, a run that says completed has
\* the results of an execution that answered just the rows it counts.
CompletedHasResults ==
    kind = "benchmark" /\ status = "completed" =>
        \E t \in Tasks : summary = ok[t] /\ ResultsOf(t, ok[t]) \subseteq results

\* A benchmark run that was accepted is executed.
QueuedRunIsExecuted == status = "queued" ~> status # "queued"

(***************************************************************************)
(* Inductive invariants behind the safety properties.                      *)
(***************************************************************************)
\* only benchmark runs have messages, and their row is written after the message
RequestInv ==
    /\ kind = "single" => msgs = 0 /\ \A t \in Tasks : pc[t] = "idle"
    /\ api = "enqueued" => kind = "benchmark"
    /\ api = "answering" => kind = "single"
    /\ api # "answered" => status = "absent"
    /\ status = "absent" =>
         results = {} /\ \A t \in Tasks : pc[t] \in {"idle", "done"}

\* an execution between its last two transactions, or over as completed, has stored
ResultsInv ==
    /\ \A t \in Tasks : pc[t] = "finish" => ResultsOf(t, ok[t]) \subseteq results
    /\ kind = "benchmark" /\ status = "completed" =>
         \E t \in Tasks : /\ pc[t] = "done" /\ summary = ok[t]
                         /\ ResultsOf(t, ok[t]) \subseteq results

\* one message becomes one execution, which alone writes the run
Untouched == \A t \in Tasks : pc[t] = "idle"
TokenInv ==
    ~redelivered =>
        /\ api \in {"start", "created"} => msgs = 0 /\ Untouched
        /\ msgs > 0 => msgs = 1 /\ Untouched
        /\ kind = "benchmark" /\ Untouched => status \in {"absent", "queued"}
        /\ status = "queued" => results = {}
        /\ \A t, u \in Tasks : pc[t] # "idle" /\ pc[u] # "idle" => t = u
        /\ \A t \in Tasks :
             /\ pc[t] \in {"execute", "fail", "store"} => status = "running" /\ results = {}
             /\ pc[t] = "finish" => status = "running" /\ results = ResultsOf(t, ok[t])
        /\ kind = "benchmark" /\ status = "completed" =>
             \E t \in Tasks : pc[t] = "done" /\ results = ResultsOf(t, summary)

\* a completed run does not change under the reader
PageInv ==
    ~redelivered /\ kind = "benchmark" =>
        /\ rpc = "results" /\ seen.status = "completed" =>
             status = "completed" /\ seen.summary = summary
        /\ page.run.status = "completed" =>
             \E t \in Tasks : page.results = ResultsOf(t, page.run.summary)
=============================================================================
