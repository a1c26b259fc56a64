------------------------------ MODULE RunLife -------------------------------
(***************************************************************************)
(* What the reader of an evaluation run may rely on: a run goes forward    *)
(* through its statuses and ends once, completed with the results of every *)
(* row that was answered, or failed with none.  Once its message has been  *)
(* delivered again an ended run may start again, and its results may       *)
(* outlive a failure, but nothing that was answered is lost.               *)
(***************************************************************************)
CONSTANT Rows

VARIABLES
    status,     \* the run's committed status
    answered,   \* rows of the dataset whose results are committed
    again       \* its message has been delivered again

Init == status = "absent" /\ answered = {} /\ again = FALSE

Queue == status = "absent" /\ status' = "queued" /\ UNCHANGED <<answered, again>>

Begin == status = "queued" /\ status' = "running" /\ UNCHANGED <<answered, again>>

Save ==
    /\ status = "running" /\ answered = {}
    /\ answered' \in SUBSET Rows
    /\ UNCHANGED <<status, again>>

Finish == status = "running" /\ status' = "completed" /\ UNCHANGED <<answered, again>>

Fail ==
    /\ status = "running" /\ answered = {}
    /\ status' = "failed"
    /\ UNCHANGED <<answered, again>>

\* a run of one query is seen only when it is over
Single ==
    /\ status = "absent" /\ status' = "completed"
    /\ \E r \in Rows : answered' = {r}
    /\ UNCHANGED again

Repeat == again' = TRUE /\ UNCHANGED <<status, answered>>

Rerun ==
    /\ again /\ status # "absent"
    /\ status' \in {"running", "completed", "failed"} \cup {status}
    /\ answered' \in SUBSET Rows /\ answered \subseteq answered'
    /\ UNCHANGED again

Next == Queue \/ Begin \/ Save \/ Finish \/ Fail \/ Single \/ Repeat \/ Rerun

Spec == Init /\ [][Next]_<<status, answered, again>>
=============================================================================
