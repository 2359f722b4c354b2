---------------------------- MODULE RunLifecycle ----------------------------
(***************************************************************************)
(* What a workflow run promises its readers, whoever executes it: one      *)
(* status on disk and at most one executor at work on it.  Work goes on    *)
(* only under the status queued or running, ends in a status an executor   *)
(* wrote, and a run that has come to an end stays as it ended.             *)
(* WorkflowRun implements this specification.                              *)
(***************************************************************************)

VARIABLES status,   \* the run's durable status, "absent" before it exists
          working   \* an executor is at work on the run

vars == <<status, working>>

Open == {"queued", "running", "paused"}
Final == {"complete", "failed", "stopped"}

Init == status = "absent" /\ ~working

Begin == /\ status = "absent"
         /\ status' = "queued" /\ working'

Work == /\ working /\ status = "queued"
        /\ status' = "running" /\ working'

Settle == /\ working
          /\ status' \in Final \cup {"paused"} /\ ~working'

\* The process dies, or the executor throws: the status stays as it was.
Lose == working /\ ~working' /\ UNCHANGED status

Continue == /\ ~working /\ status \in Open
            /\ status' = "running" /\ working'

Cancel == /\ ~working /\ status \in Open
          /\ status' = "stopped" /\ ~working'

Next == Begin \/ Work \/ Settle \/ Lose \/ Continue \/ Cancel

Spec == Init /\ [][Next]_vars
=============================================================================
