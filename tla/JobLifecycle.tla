---------------------------- MODULE JobLifecycle ----------------------------
(***************************************************************************)
(* What an API client may rely on when it polls a document and its         *)
(* ingestion job: the status moves forward only, and the document is shown *)
(* as embedded in the step that completes the job or, for a job that has   *)
(* ended, afterwards; never while the job is still active.                 *)
(***************************************************************************)
VARIABLES
    status,     \* the job's status, "absent" before the upload commits
    published   \* is the document shown as embedded?

Active == {"pending", "processing"}
Terminal == {"completed", "failed", "cancelled"}

Init == status = "absent" /\ published = FALSE

Create == status = "absent" /\ status' = "pending" /\ UNCHANGED published

Begin == status = "pending" /\ status' = "processing" /\ UNCHANGED published

Abort == status \in Active /\ status' \in {"failed", "cancelled"} /\ UNCHANGED published

Complete == status = "processing" /\ status' = "completed" /\ published' = TRUE

\* a run that outlives its cancelled or failed job, or repeats a completed one,
\* still reports its own result on the document
Republish == status \in Terminal /\ published' \in BOOLEAN /\ UNCHANGED status

Next == Create \/ Begin \/ Abort \/ Complete \/ Republish

Spec == Init /\ [][Next]_<<status, published>>
=============================================================================
