---------------------------- MODULE MCWorkflowRun ---------------------------
(***************************************************************************)
(* Workflow definitions for TLC.                                           *)
(***************************************************************************)
EXTENDS WorkflowRun

(***************************************************************************)
(* The shipped review-loop template (src/workflows/service.ts), with one   *)
(* step of each remaining kind after the loop.  The judge may start over,  *)
(* leave the loop for a gate or an end, answer with a step id that does    *)
(* not exist, or continue in order.                                        *)
(***************************************************************************)
ReviewOrder == <<"draft", "review", "judge", "finish", "sign", "join">>

ReviewKind ==
    [draft |-> "agent", review |-> "agent", judge |-> "decision",
     sign |-> "human_gate", join |-> "merge", finish |-> "terminate"]

ReviewLoopOf ==
    [s \in {"draft", "review", "judge", "sign", "join", "finish"} |->
        IF s \in {"review", "judge"} THEN "review_loop" ELSE "-"]

ReviewMaxIter == [l \in {"review_loop"} |-> 2]
ReviewMaxSteps == [l \in {"review_loop"} |-> 4]

ReviewTargets ==
    [s \in {"draft", "review", "judge", "sign", "join", "finish"} |->
        IF s = "judge" THEN {"draft", "finish", "sign", "?"} ELSE {}]

ReviewOnInvalid == [s \in {"draft", "review", "judge", "sign", "join", "finish"} |-> "pause"]
ReviewEndsAs == [s \in {"draft", "review", "judge", "sign", "join", "finish"} |-> "stopped"]

ReviewInputs ==
    [s \in {"draft", "review", "judge", "sign", "join", "finish"} |->
        IF s = "join" THEN {"draft", "review"} ELSE {}]

(***************************************************************************)
(* The shipped judge-and-retry template: no loop, and a judge that may     *)
(* send the draft back.                                                    *)
(***************************************************************************)
RetryOrder == <<"draft", "judge">>
RetryKind == [draft |-> "agent", judge |-> "decision"]
RetryLoopOf == [draft |-> "-", judge |-> "-"]
RetryBounds == [l \in {} |-> 0]
RetryTargets == [draft |-> {}, judge |-> {"draft"}]
RetryOnInvalid == [draft |-> "pause", judge |-> "pause"]
RetryEndsAs == [draft |-> "complete", judge |-> "complete"]
RetryInputs == [draft |-> {}, judge |-> {}]
=============================================================================
