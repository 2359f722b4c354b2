---------------------------- MODULE WorkflowRun -----------------------------
(***************************************************************************)
(* One run of a workflow: its run folder (state.json, status.json), the    *)
(* executors started for it (src/workflows/runner.ts), the registry of     *)
(* live runs each process keeps (src/workflows/registry.ts) and the        *)
(* operations of the web server, the CLI and Telegram on it                *)
(* (src/workflows/service.ts).                                             *)
(*                                                                         *)
(* A process is a single-threaded event loop: an operation, and the code   *)
(* of an executor between two waits for an agent, run to completion there. *)
(* Processes (the gateway, a CLI command) share nothing but the folder.    *)
(***************************************************************************)
EXTENDS WorkflowDefinition

CONSTANTS
    Procs,        \* the processes that operate on the run
    MaxLaunches,  \* bound: executors ever started for the run
    MaxFaults,    \* bound: process crashes and executor exceptions
    Careful,      \* callers resume a run only when it is at rest
    TornPersist   \* an exception may fall between the two writes of a persist

ASSUME BoundsAssumption ==
    /\ Procs # {}
    /\ MaxLaunches \in Nat /\ MaxFaults \in Nat
    /\ Careful \in BOOLEAN /\ TornPersist \in BOOLEAN

Execs == 1..MaxLaunches
NoExec == 0

VARIABLES
    disk,      \* state.json
    shown,     \* the status in status.json
    reg,       \* ACTIVE_RUNS: the entry each process holds for the run
    entry,     \* the registry entry created for each executor
    pc,        \* where each executor is
    mem,       \* the run state each executor carries
    flush,     \* state.json is written, status.json and callbacks are due
    launched,  \* number of executors started
    faults,    \* number of crashes and exceptions
    rounds,    \* history: rounds of each loop that began
    answered   \* history: agent steps whose answer came back

vars == <<disk, shown, reg, entry, pc, mem, flush, launched, faults, rounds, answered>>

ActiveStatus == {"queued", "running"}
FinalStatus == {"complete", "failed", "stopped"}
RunStatus == ActiveStatus \cup FinalStatus \cup {"paused"}

RunState == [status: RunStatus \cup {"absent"},
             next: StepIds \cup {NoStep},  \* nextStepId
             gate: Steps \cup {NoStep},    \* pendingGate.stepId
             stop: BOOLEAN,                \* stopRequested
             iter: [Loops -> Nat],         \* loopIterations
             steps: [Loops -> Nat],        \* stepHistory, counted by loop
             done: SUBSET Steps]           \* the steps with an entry in values

Entry == [proc: Procs, aborted: BOOLEAN, pause: BOOLEAN, completed: BOOLEAN,
          seen: RunStatus \cup {"absent"}]

PCs == {"idle", "boot", "top", "step", "parse", "closing", "gone"}

TypeOK ==
    /\ disk \in RunState
    /\ shown \in RunStatus \cup {"absent"}
    /\ reg \in [Procs -> Execs \cup {NoExec}]
    /\ entry \in [Execs -> Entry]
    /\ pc \in [Execs -> PCs]
    /\ mem \in [Execs -> RunState]
    /\ flush \in [Execs -> BOOLEAN]
    /\ launched \in 0..MaxLaunches
    /\ faults \in 0..MaxFaults
    /\ rounds \in [Loops -> Nat]
    /\ answered \in SUBSET Steps

-----------------------------------------------------------------------------
InitialState ==
    [status |-> "absent", next |-> EntryStep, gate |-> NoStep, stop |-> FALSE,
     iter |-> [l \in Loops |-> 0], steps |-> [l \in Loops |-> 0], done |-> {}]

NewEntry(p) ==
    [proc |-> p, aborted |-> FALSE, pause |-> FALSE, completed |-> FALSE, seen |-> "absent"]

Init ==
    /\ disk = InitialState
    /\ shown = "absent"
    /\ reg = [p \in Procs |-> NoExec]
    /\ entry = [e \in Execs |-> NewEntry(CHOOSE p \in Procs : TRUE)]
    /\ pc = [e \in Execs |-> "idle"]
    /\ mem = [e \in Execs |-> InitialState]
    /\ flush = [e \in Execs |-> FALSE]
    /\ launched = 0
    /\ faults = 0
    /\ rounds = [l \in Loops |-> 0]
    /\ answered = {}

Active(e) == pc[e] \in {"boot", "top", "step", "parse"}

Running(e) == mem[e].next

\* An executor gives up the event loop only while an agent works for it, and
\* while its notifier closes.
AwaitsAgent(e) == pc[e] = "step" /\ ~flush[e] /\ CallsAgent(Running(e))

Yields(e) == \/ pc[e] \in {"idle", "gone"}
             \/ pc[e] = "closing" /\ ~flush[e]
             \/ AwaitsAgent(e)

Free(p) == \A e \in Execs : entry[e].proc = p => Yields(e)

-----------------------------------------------------------------------------
(***************************************************************************)
(* Run states the code derives from a run state m.                         *)
(***************************************************************************)
Goto(m, s) == [m EXCEPT !.next = s]

\* A step adds a record to stepHistory; an agent, a decision or a merge that
\* succeeds also leaves its output in values.
Recorded(m, s) == [m EXCEPT !.steps = CountStep(@, s)]
\* Mutant: the new values replace the old ones.
OutputAlone(m, s) == [Recorded(m, s) EXCEPT !.done = {s}]

WithOutput(m, s) == [Recorded(m, s) EXCEPT !.done = @ \cup {s}]

Entered(m, s) == [m EXCEPT !.iter = CountRound(@, s)]

\* markCompleted, markFailed, markStopped
Ended(m, status) == [m EXCEPT !.status = status, !.next = NoStep]

\* markPaused
Paused(m) == [m EXCEPT !.status = "paused"]

\* Mutant: the gate's step counts as done before anyone approves.
AtGateAdvanced(m, s) ==
    [m EXCEPT !.status = "paused", !.gate = s, !.next = NextStepInOrder(s)]

\* enterHumanGate
AtGate(m, s) == [m EXCEPT !.status = "paused", !.gate = s]

\* Mutant: a resumed run starts counting its rounds afresh.
ResumedAfresh(m) == [m EXCEPT !.status = "running", !.gate = NoStep, !.stop = FALSE,
                              !.iter = [l \in Loops |-> 0]]

\* resumeRun
Resumed(m) == [m EXCEPT !.status = "running", !.gate = NoStep, !.stop = FALSE]

(***************************************************************************)
(* What a step of executor e does with the state m it has computed.        *)
(***************************************************************************)
Persist(e, m, at) ==
    /\ mem' = [mem EXCEPT ![e] = m]
    /\ disk' = m
    /\ flush' = [flush EXCEPT ![e] = TRUE]
    /\ pc' = [pc EXCEPT ![e] = at]
    /\ UNCHANGED <<shown, reg, entry, launched, faults>>

\* Mutant: the executor persists its last state and does not return.
SettleNoReturn(e, m) == Persist(e, m, "top") /\ UNCHANGED <<rounds, answered>>

\* The executor persists its last state and returns.
Settle(e, m) == Persist(e, m, "closing") /\ UNCHANGED <<rounds, answered>>

\* The state goes to the next step in memory only.
Carry(e, m) ==
    /\ mem' = [mem EXCEPT ![e] = m]
    /\ pc' = [pc EXCEPT ![e] = "top"]
    /\ UNCHANGED <<disk, shown, reg, entry, flush, launched, faults, rounds, answered>>

At(e, place) == pc[e] = place /\ ~flush[e]

-----------------------------------------------------------------------------
(***************************************************************************)
(* The executor: WorkflowRunner.execute and its step handlers.             *)
(***************************************************************************)
Boot(e) ==
    /\ pc[e] = "boot"
    /\ Persist(e, [mem[e] EXCEPT !.status = "running"], "top")
    /\ UNCHANGED <<rounds, answered>>

\* The second half of persist, and emitStatus: the callback updates whatever
\* entry the process holds now; executeRun sets the executor's own entry when
\* it returns.
WriteStatus(e) ==
    LET status == mem[e].status
        current == reg[entry[e].proc]
        returned(f) == f = e /\ pc[e] = "closing" /\ status # "paused"
        told(f) == f = current /\ status \in FinalStatus
    IN  /\ flush[e]
        /\ flush' = [flush EXCEPT ![e] = FALSE]
        /\ shown' = status
        /\ entry' = [f \in Execs |->
                        [entry[f] EXCEPT !.seen = IF f = current THEN status ELSE @,
                                         !.completed = @ \/ returned(f) \/ told(f)]]
        /\ UNCHANGED <<disk, reg, pc, mem, launched, faults, rounds, answered>>

StopSeen(e) == entry[e].aborted \/ mem[e].stop

StopAtTop(e) ==
    /\ At(e, "top") /\ StopSeen(e)
    /\ Settle(e, Ended(mem[e], "stopped"))

PauseAtTop(e) ==
    /\ At(e, "top") /\ ~StopSeen(e)
    /\ entry[e].pause
    /\ Settle(e, Paused(mem[e]))

GoesOn(e) == At(e, "top") /\ ~StopSeen(e) /\ ~entry[e].pause

EndAtTop(e) ==
    /\ GoesOn(e) /\ Running(e) = NoStep
    /\ Settle(e, Ended(mem[e], "complete"))

UnknownStep(e) ==
    /\ GoesOn(e) /\ Running(e) = Ghost
    /\ Settle(e, Ended(mem[e], "failed"))

LoopBoundExceeded(e) ==
    LET m == Entered(mem[e], Running(e))
    IN  /\ GoesOn(e) /\ Running(e) \in Steps
        /\ ~WithinBounds(m.iter, m.steps, Running(e)) \/ MayTimeOut(Running(e))
        /\ Settle(e, Ended(m, "failed"))

BeginStep(e) ==
    LET m == Entered(mem[e], Running(e))
    IN  /\ GoesOn(e) /\ Running(e) \in Steps
        /\ WithinBounds(m.iter, m.steps, Running(e))
        /\ Persist(e, m, "step")
        /\ rounds' = [l \in Loops |->
                        IF BeginsRound(Running(e)) /\ l = LoopOf[Running(e)]
                        THEN Bump(rounds[l], MaxIter[l])
                        ELSE rounds[l]]
        /\ UNCHANGED answered

\* The agent of a resumed run may have left the project; startRun checks.
AgentMissing(e) ==
    /\ AwaitsAgent(e) /\ e > 1 /\ ~entry[e].aborted
    /\ Settle(e, Ended(mem[e], "failed"))

AgentFails(e) ==
    /\ AwaitsAgent(e)
    /\ Settle(e, Ended(mem[e], IF StopSeen(e) THEN "stopped" ELSE "failed"))

AgentAnswers(e) ==
    LET s == Running(e)
    IN  /\ AwaitsAgent(e) /\ Kind[s] = "agent"
        /\ Persist(e, Goto(WithOutput(mem[e], s), AdvanceAfter(s)), "top")
        /\ answered' = answered \cup {s}
        /\ UNCHANGED rounds

\* The answer of a decision step is parsed after a persist of the old state.
DecisionAnswers(e) ==
    /\ AwaitsAgent(e) /\ Kind[Running(e)] = "decision"
    /\ Persist(e, mem[e], "parse")
    /\ UNCHANGED <<rounds, answered>>

DecisionInvalid(e) ==
    LET s == Running(e)
    IN  /\ At(e, "parse")
        /\ Settle(e, IF OnInvalid[s] = "pause"
                     THEN AtGate(Recorded(mem[e], s), s)
                     ELSE Ended(mem[e], "failed"))

DecisionStops(e) ==
    /\ At(e, "parse")
    /\ Settle(e, Ended(WithOutput(mem[e], Running(e)), "complete"))

DecisionAsksHuman(e) ==
    LET s == Running(e)
    IN  At(e, "parse") /\ Settle(e, AtGate(WithOutput(mem[e], s), s))

DecisionGoesOn(e) ==
    LET s == Running(e)
    IN  /\ At(e, "parse")
        /\ \E t \in Targets[s] \cup {AdvanceAfter(s)} :
                Carry(e, Goto(WithOutput(mem[e], s), t))

RunHumanGate(e) ==
    LET s == Running(e)
    IN  /\ At(e, "step") /\ Kind[s] = "human_gate"
        /\ Settle(e, AtGate(Recorded(mem[e], s), s))

RunMerge(e) ==
    LET s == Running(e)
    IN  /\ At(e, "step") /\ Kind[s] = "merge"
        /\ IF Inputs[s] \subseteq mem[e].done
           THEN Carry(e, Goto(WithOutput(mem[e], s), AdvanceAfter(s)))
           ELSE Settle(e, Ended(mem[e], "failed"))

RunTerminate(e) ==
    LET s == Running(e)
    IN  /\ At(e, "step") /\ Kind[s] = "terminate"
        /\ Settle(e, Ended(Recorded(mem[e], s), EndsAs[s]))

\* Mutant: teardown does not look whether the run is completed.
TeardownAlways(e) ==
    /\ At(e, "closing")
    /\ pc' = [pc EXCEPT ![e] = "gone"]
    /\ reg' = [reg EXCEPT ![entry[e].proc] = NoExec]
    /\ mem' = [mem EXCEPT ![e] = InitialState]
    /\ UNCHANGED <<disk, shown, entry, flush, launched, faults, rounds, answered>>

\* The end of executeRun.  It removes the process's entry for the run, which
\* may be a later executor's, unless someone still listens to its own.
Teardown(e) ==
    /\ At(e, "closing")
    /\ pc' = [pc EXCEPT ![e] = "gone"]
    /\ \E listened \in BOOLEAN :
            reg' = IF entry[e].completed /\ ~listened
                   THEN [reg EXCEPT ![entry[e].proc] = NoExec]
                   ELSE reg
    /\ mem' = [mem EXCEPT ![e] = InitialState]
    /\ UNCHANGED <<disk, shown, entry, flush, launched, faults, rounds, answered>>

ExecutorStep(e) ==
    \/ Boot(e) \/ WriteStatus(e)
    \/ StopAtTop(e) \/ PauseAtTop(e) \/ EndAtTop(e) \/ UnknownStep(e)
    \/ LoopBoundExceeded(e) \/ BeginStep(e)
    \/ AgentMissing(e) \/ AgentFails(e) \/ AgentAnswers(e)
    \/ DecisionAnswers(e) \/ DecisionInvalid(e) \/ DecisionStops(e)
    \/ DecisionAsksHuman(e) \/ DecisionGoesOn(e)
    \/ RunHumanGate(e) \/ RunMerge(e) \/ RunTerminate(e)
    \/ Teardown(e)

-----------------------------------------------------------------------------
(***************************************************************************)
(* The operations: WorkflowService.                                        *)
(***************************************************************************)
Launch(p, m) ==
    /\ launched < MaxLaunches
    /\ launched' = launched + 1
    /\ entry' = [entry EXCEPT ![launched'] = NewEntry(p)]
    /\ reg' = [reg EXCEPT ![p] = launched']
    /\ mem' = [mem EXCEPT ![launched'] = m]
    /\ pc' = [pc EXCEPT ![launched'] = "boot"]
    /\ disk' = m
    /\ UNCHANGED <<flush, faults, rounds, answered>>

StartRun(p) ==
    /\ Free(p) /\ disk.status = "absent"
    /\ Launch(p, [disk EXCEPT !.status = "queued"])
    /\ shown' = "queued"

\* resumeRun itself accepts a run in any status; what its callers do is the
\* users' choice.  A careful one resumes a paused run, or one that a dead
\* process left open.
CallerMayResume ==
    Careful => \/ disk.status = "paused"
               \/ disk.status \in ActiveStatus /\ \A q \in Procs : reg[q] = NoExec

ResumeRun(p) ==
    /\ Free(p) /\ disk.status # "absent" /\ CallerMayResume
    /\ Launch(p, Resumed(disk))
    /\ UNCHANGED shown

AtPendingGate == disk.status = "paused" /\ disk.gate # NoStep

\* applyApproval: retry and branch name any step id; continue and edit go on
\* from a human gate and repeat a decision step.
NextAfterApproval(g) ==
    StepIds \cup (IF Kind[g] = "human_gate" THEN {NextStepInOrder(g)} ELSE {g})

ApproveAndGoOn(p) ==
    /\ Free(p) /\ AtPendingGate
    /\ \E t \in NextAfterApproval(disk.gate) : Launch(p, Resumed(Goto(disk, t)))
    /\ UNCHANGED shown

ApproveStop(p) ==
    /\ Free(p) /\ AtPendingGate
    /\ disk' = [Ended(disk, "stopped") EXCEPT !.gate = NoStep]
    /\ UNCHANGED <<shown, reg, entry, pc, mem, flush, launched, faults, rounds, answered>>

PauseRun(p) ==
    /\ Free(p) /\ reg[p] # NoExec
    /\ entry[reg[p]].seen \in ActiveStatus
    /\ entry' = [entry EXCEPT ![reg[p]].pause = TRUE]
    /\ UNCHANGED <<disk, shown, reg, pc, mem, flush, launched, faults, rounds, answered>>

\* stopRun, where the process has a registry entry for the run ...
StopLive(p) ==
    /\ Free(p) /\ reg[p] # NoExec
    /\ entry' = [entry EXCEPT ![reg[p]].aborted = TRUE]
    /\ UNCHANGED <<disk, shown, reg, pc, mem, flush, launched, faults, rounds, answered>>

\* Mutant: a run that has ended is stopped all the same.
StopAnyStatus(p) ==
    /\ Free(p) /\ reg[p] = NoExec /\ disk.status # "absent"
    /\ disk' = [disk EXCEPT !.stop = TRUE, !.status = "stopped"]
    /\ UNCHANGED <<shown, reg, entry, pc, mem, flush, launched, faults, rounds, answered>>

\* ... and where it has none.
StopDurable(p) ==
    /\ Free(p) /\ reg[p] = NoExec /\ disk.status # "absent"
    /\ disk' = [disk EXCEPT !.stop = TRUE,
                            !.status = IF @ \in FinalStatus THEN @ ELSE "stopped"]
    /\ UNCHANGED <<shown, reg, entry, pc, mem, flush, launched, faults, rounds, answered>>

Operation(p) ==
    \/ StartRun(p) \/ ResumeRun(p)
    \/ ApproveAndGoOn(p) \/ ApproveStop(p)
    \/ PauseRun(p) \/ StopLive(p) \/ StopDurable(p)

-----------------------------------------------------------------------------
(***************************************************************************)
(* Faults.                                                                 *)
(***************************************************************************)
\* The process ends: its executors and its registry are gone.
Crash(p) ==
    LET lost(e) == entry[e].proc = p /\ pc[e] # "idle"
    IN  /\ faults < MaxFaults
        /\ faults' = faults + 1
        /\ \E e \in Execs : lost(e) /\ pc[e] # "gone"
        /\ pc' = [e \in Execs |-> IF lost(e) THEN "gone" ELSE pc[e]]
        /\ flush' = [e \in Execs |-> flush[e] /\ ~lost(e)]
        /\ mem' = [e \in Execs |-> IF lost(e) THEN InitialState ELSE mem[e]]
        /\ reg' = [reg EXCEPT ![p] = NoExec]
        /\ UNCHANGED <<disk, shown, entry, launched, rounds, answered>>

\* The executor throws (a full disk): executeRun catches, and leaves the run
\* folder as it is.
Throw(e) ==
    /\ faults < MaxFaults
    /\ faults' = faults + 1
    /\ Active(e) \/ flush[e]
    /\ flush[e] => TornPersist
    /\ pc' = [pc EXCEPT ![e] = "closing"]
    /\ flush' = [flush EXCEPT ![e] = FALSE]
    /\ entry' = [entry EXCEPT ![e].completed = TRUE]
    /\ UNCHANGED <<disk, shown, reg, mem, launched, rounds, answered>>

Next ==
    \/ \E p \in Procs : Operation(p) \/ Crash(p)
    \/ \E e \in Execs : ExecutorStep(e) \/ Throw(e)

Spec == Init /\ [][Next]_vars

(***************************************************************************)
(* The event loop always comes back to an executor, and a provider process *)
(* is killed when it exceeds its time (src/provider-agent.ts), so an agent *)
(* answers or fails.  Nobody has to operate on the run.                    *)
(***************************************************************************)
Fairness == \A e \in Execs : WF_vars(ExecutorStep(e))

FairSpec == Spec /\ Fairness

-----------------------------------------------------------------------------
(***************************************************************************)
(* Properties.                                                             *)
(***************************************************************************)

\* The runner executes one step at a time: a resume, an approval or a restart
\* never puts a second executor to work on a run that has one.
OneExecutor == \A e, f \in Execs : Active(e) /\ Active(f) => e = f

\* However often a run is paused, retried, branched, crashed and resumed, the
\* rounds of a loop that ever begin stay within its maxIterations: the count
\* lives in state.json and is carried over.
RoundsBounded ==
    \A l \in Loops : MaxIter[l] > 0 => rounds[l] <= MaxIter[l]

\* The executor at work is the one its process's registry leads to, so that
\* stop, pause and status reach it: a finished or paused executor still
\* tearing down never removes its successor's entry.
LiveRunReachable == \A e \in Execs : Active(e) => reg[entry[e].proc] = e

\* What an agent answered is never lost: it is in state.json from the moment
\* the answer arrived, whatever crashes or approvals follow.
AnswersSurvive == answered \subseteq disk.done

\* A run leaves a human gate only by an approval, or by coming to an end:
\* neither a pause, a resume nor a crash lets it slip past.
GateNeedsApproval ==
    [][\A g \in HumanGates :
        disk.next = g /\ disk'.next # g =>
            \/ disk'.status \in FinalStatus
            \/ \E p \in Procs : ApproveAndGoOn(p)]_vars

\* An executor always comes to rest: its loops are bounded, every agent call
\* ends, and a pause, a gate or an end returns from it.
RunEnds == \A e \in Execs : Active(e) ~> ~Active(e)

\* A stop request written to state.json stays there: the operator who stopped
\* the run from another process, or after a restart, need not do it twice.
PersistedStopHolds == [][disk.stop => disk'.stop]_vars

\* A stop accepted by the process that holds the run ends it: once the
\* executor has returned, and no later one was started, the run is final.
StopEndsTheRun ==
    \A e \in Execs :
        entry[e].aborted /\ pc[e] = "gone" /\ e = launched
            => disk.status \in FinalStatus

\* Readers of the run folder see the life cycle of RunLifecycle.
Lifecycle == INSTANCE RunLifecycle
    WITH status <- disk.status,
         working <- \E e \in Execs : Active(e)

LifecycleKept == Lifecycle!Spec
=============================================================================
