------------------------------- MODULE GpuRun -------------------------------
(***************************************************************************)
(* GPU runs on RunPod (src/gpu-providers/runpod/index.ts, experiments.ts). *)
(* A run is a folder with a status file.  The command that submits it      *)
(* allocates a pod, copies the workspace, launches the job detached and    *)
(* may wait for it; other commands look at the run, fetch its outputs or   *)
(* cancel it, each in a process of its own.  All of them keep a copy of    *)
(* the status across their awaits and write the whole of it back.          *)
(*                                                                         *)
(* Pods belong to the provider: every run of one project and target takes  *)
(* whatever pod of that name exists.  A call of the provider's API may     *)
(* fail at any time, with or without its effect; SSH may be cut for a      *)
(* while.  An action is the code between two awaits, or less: the commands *)
(* are processes without a lock, so what one has done to a pod or a job,   *)
(* or concludes from the file alone, it writes in a step of its own.       *)
(***************************************************************************)
EXTENDS Naturals, FiniteSets

CONSTANTS
    Runs,      \* the runs; a run names the command that submitted it
    Commands,  \* slots for the other commands at work at one time
    Pods,      \* the pods the provider may ever give
    Warm,      \* runs whose target says keep_warm instead of stop_on_completion
    NoPod

\* Runs # {}: Init gives the slot of a command some run.
ASSUME RunsAssumption == Runs \cap Commands = {} /\ NoPod \notin Pods /\ Runs # {}

VARIABLES
    disk,    \* run-status.json of each run
    at,      \* where each command is, and the status it carries
    pod,     \* the pods, as the provider sees them
    proc,    \* the detached job of each run, on its pod
    sshUp,   \* SSH to running pods works
    late,    \* the run is past its maximum runtime
    misled   \* history: a command acted on the run without a true picture

vars == <<disk, at, pod, proc, sshUp, late, misled>>
world == <<sshUp, late>>

Workers == Runs \cup Commands

Terminal == {"completed", "failed", "cancelled", "timed_out", "cleanup_failed"}
States == Terminal \cup {"none", "provisioning", "waiting_for_ssh", "syncing",
                         "bootstrapping", "running", "running_unreachable", "fetching"}

Status == [state: States,
           pod: Pods \cup {NoPod},
           launched: BOOLEAN,              \* pidFilePath and exitCodeFilePath
           exit: {"none", "ok", "bad"}]    \* remote.exitCode

NoStatus == [state |-> "none", pod |-> NoPod, launched |-> FALSE, exit |-> "none"]

PCs == {"idle", "listing", "starting", "started", "creating", "created", "ssh",
        "syncing", "boot", "booted", "launch", "launched", "salvage", "waiting",
        "lookup", "open", "logs", "inspect", "timeout", "fetch", "autostop",
        "unstopped", "cleanup", "kill", "stop", "record"}

Worker == [pc: PCs, op: {"start", "status", "fetch", "cancel"}, run: Runs, st: Status]

\* A detached job: "ok" and "bad" have written their exit code to the volume, an
\* "orphan" has lost the wrapper that would.
Job == [is: {"none", "running", "orphan", "ok", "bad", "killed"}, on: Pods \cup {NoPod}]
Alive == {"running", "orphan"}

Rest(r) == [pc |-> "idle", op |-> "start", run |-> r, st |-> NoStatus]

TypeOK ==
    /\ disk \in [Runs -> Status]
    /\ at \in [Workers -> Worker]
    /\ \A r \in Runs : at[r].run = r /\ at[r].op = "start"
    /\ pod \in [Pods -> {"absent", "running", "exited", "lost"}]
    /\ proc \in [Runs -> Job]
    /\ sshUp \in BOOLEAN
    /\ late \in [Runs -> BOOLEAN]
    /\ misled \in [Runs -> BOOLEAN]

Init ==
    /\ disk = [r \in Runs |-> NoStatus]
    /\ at = [w \in Workers |-> Rest(IF w \in Runs THEN w ELSE CHOOSE r \in Runs : TRUE)]
    /\ pod = [p \in Pods |-> "absent"]
    /\ proc = [r \in Runs |-> [is |-> "none", on |-> NoPod]]
    /\ sshUp = TRUE
    /\ late = [r \in Runs |-> FALSE]
    /\ misled = [r \in Runs |-> FALSE]

-----------------------------------------------------------------------------
(***************************************************************************)
(* Helpers.  Goes leaves the files alone, Saves writes the status that the *)
(* worker carries on, Ends returns.                                        *)
(***************************************************************************)
At(w, pc) == at[w].pc = pc
St(w) == at[w].st
In(s, state) == [s EXCEPT !.state = state]

Turns(w, pc, s) == at' = [at EXCEPT ![w].pc = pc, ![w].st = s]
Writes(w, s) == disk' = [disk EXCEPT ![at[w].run] = s]

Goes(w, pc, s) == Turns(w, pc, s) /\ UNCHANGED disk
Saves(w, pc, s) == Turns(w, pc, s) /\ Writes(w, s)
Gone(w) == at' = [at EXCEPT ![w] = Rest(at[w].run)]
Ends(w) == Gone(w) /\ UNCHANGED disk
EndsWith(w, s) == Gone(w) /\ Writes(w, s)

\* reconcileRun returns: the submitting command looks again, unless it is over.
Reconciled(w, s) ==
    IF at[w].op = "start" /\ s.state \notin Terminal
    THEN Turns(w, "waiting", NoStatus) /\ Writes(w, s)
    ELSE EndsWith(w, s)

\* What a command has concluded is written.
Recorded(w) ==
    /\ At(w, "record") /\ EndsWith(w, St(w))
    /\ UNCHANGED <<pod, proc, world, misled>>

\* The pod p is stopped, and the jobs on it are killed.
Killed(p) == [r \in Runs |-> IF proc[r].on = p /\ proc[r].is \in Alive
                             THEN [proc[r] EXCEPT !.is = "killed"] ELSE proc[r]]
PodBecomes(p, s) == pod' = [pod EXCEPT ![p] = s] /\ proc' = Killed(p)
PodStops(p) == IF pod[p] = "running" THEN PodBecomes(p, "exited") ELSE UNCHANGED <<pod, proc>>
PodKept == UNCHANGED <<pod, proc>>

\* An answered request to stop p, and one that failed, with its effect or without.
Stop(p) == PodStops(p)
StopFails(p) == PodStops(p) \/ PodKept

\* What the provider knows of the pod of w's status; a remote script reaches it.
PodIs(w, kinds) == St(w).pod # NoPod /\ pod[St(w).pod] \in kinds
Reaches(w) == sshUp /\ PodIs(w, {"running"})

\* findCompatiblePodAllocation: any pod that is not terminated.
Reusable == {p \in Pods : pod[p] \in {"running", "exited"}}

-----------------------------------------------------------------------------
(***************************************************************************)
(* startRun.                                                               *)
(***************************************************************************)
\* applyAutoStopPolicy, up to its await.
AutoStop(w, s) ==
    IF at[w].run \in Warm \/ s.pod = NoPod THEN EndsWith(w, s) ELSE Saves(w, "autostop", s)

\* The catch of startRun.  With SSH at hand the logs are fetched next.
Fail(w) ==
    LET s == In(St(w), "failed") IN
    IF at[w].pc \in {"syncing", "boot", "launch"} THEN Saves(w, "salvage", s)
                                                  ELSE AutoStop(w, s)

\* A run is submitted: it is refused, or waits for the list of pods.
StartRun(r) ==
    /\ At(r, "idle") /\ disk[r] = NoStatus
    /\ \/ EndsWith(r, In(NoStatus, "failed"))
       \/ Saves(r, "listing", In(NoStatus, "provisioning"))
    /\ PodKept /\ UNCHANGED <<world, misled>>

\* The pod is recorded with the answer that names it.
Allocated(r, p) ==
    Saves(r, "ssh", [In(St(r), "waiting_for_ssh") EXCEPT !.pod = p])

PodsListed(r) ==
    /\ At(r, "listing")
    /\ \/ \E p \in Reusable :
            IF pod[p] = "running" THEN Allocated(r, p)
            ELSE Turns(r, "starting", [St(r) EXCEPT !.pod = p]) /\ Writes(r, St(r))
       \/ Reusable = {} /\ Saves(r, "creating", St(r))
       \/ Fail(r)
    /\ PodKept /\ UNCHANGED <<world, misled>>

\* An exited pod is started and looked up; its id is recorded only then.
PodUnknown(r) == EndsWith(r, In(NoStatus, "failed"))
PodStarted(r) ==
    /\ At(r, "starting")
    /\ LET p == St(r).pod
           taken == IF pod[p] = "exited" THEN pod' = [pod EXCEPT ![p] = "running"]
                                         ELSE UNCHANGED pod
       IN \/ Goes(r, "started", St(r)) /\ taken
          \/ PodUnknown(r) /\ (taken \/ UNCHANGED pod)
    /\ UNCHANGED <<proc, world, misled>>

\* createPod, one datacenter after another; an answer may be lost.
PodCreated(r) ==
    /\ At(r, "creating")
    /\ \/ \E p \in Pods :
            /\ pod[p] = "absent" /\ pod' = [pod EXCEPT ![p] = "running"]
            /\ \/ Goes(r, "created", [St(r) EXCEPT !.pod = p])
               \/ Saves(r, "creating", St(r))
               \/ Fail(r)
       \/ UNCHANGED pod /\ Fail(r)
    /\ UNCHANGED <<proc, world, misled>>

PodTaken(r) ==
    /\ \/ (At(r, "started") \/ At(r, "created")) /\ Allocated(r, St(r).pod)
       \/ At(r, "started") /\ PodUnknown(r)
    /\ PodKept /\ UNCHANGED <<world, misled>>

\* waitForSsh: connected, disappeared or given up; otherwise it goes on waiting.
SshWaited(r) ==
    /\ At(r, "ssh")
    /\ \/ Reaches(r) /\ Saves(r, "syncing", In(St(r), "syncing"))
       \/ Fail(r)
    /\ PodKept /\ UNCHANGED <<world, misled>>

\* syncWorkspace and runBootstrap: the next state is recorded before its work.
Prepared(r) ==
    /\ \/ At(r, "syncing") /\ Reaches(r) /\ Saves(r, "boot", In(St(r), "bootstrapping"))
       \/ At(r, "boot") /\ Reaches(r) /\ Saves(r, "booted", St(r))
       \/ At(r, "booted") /\ Saves(r, "launch", In(St(r), "running"))
       \/ (At(r, "syncing") \/ At(r, "boot")) /\ Fail(r)
    /\ PodKept /\ UNCHANGED <<world, misled>>

\* launchDetachedCommand: the answer may be lost with the job running.
Launched(r) ==
    /\ At(r, "launch")
    /\ \/ /\ Reaches(r)
          /\ proc' = [proc EXCEPT ![r] = [is |-> "running", on |-> St(r).pod]]
          /\ Goes(r, "launched", [St(r) EXCEPT !.launched = TRUE]) \/ Fail(r)
       \/ Fail(r) /\ UNCHANGED proc
    /\ UNCHANGED <<pod, world, misled>>

\* The paths are recorded, and the command waits for its run or returns.
LaunchRecorded(r) ==
    /\ At(r, "launched")
    /\ EndsWith(r, St(r)) \/ Reconciled(r, St(r))
    /\ PodKept /\ UNCHANGED <<world, misled>>

\* The logs of a run that failed are fetched, as far as they can be.
Salvaged(w) ==
    /\ At(w, "salvage") /\ AutoStop(w, St(w))
    /\ PodKept /\ UNCHANGED <<world, misled>>

\* The stop after a run that has ended; where it fails, SSH may be at hand.
AutoStopped(w) ==
    /\ At(w, "autostop")
    /\ \/ Stop(St(w).pod) /\ Goes(w, "record", St(w))
       \/ /\ StopFails(St(w).pod)
          /\ \E pc \in {"unstopped", "cleanup"} : Goes(w, pc, St(w))
    /\ UNCHANGED <<world, misled>>

Unstopped(w) ==
    /\ \/ At(w, "unstopped") /\ Saves(w, "cleanup", St(w))
       \/ At(w, "cleanup") /\ EndsWith(w, In(St(w), "cleanup_failed"))
    /\ PodKept /\ UNCHANGED <<world, misled>>

-----------------------------------------------------------------------------
(***************************************************************************)
(* reconcileRun: by a status or exec command, and by a submitting command  *)
(* that waits.                                                             *)
(***************************************************************************)
\* The worker begins on the run r with the status s, for the operation op.
Begins(w, pc, op, r, s) ==
    at' = [at EXCEPT ![w] = [pc |-> pc, op |-> op, run |-> r, st |-> s]] /\ UNCHANGED disk

\* Mutant: a run without a pod cannot be reached.
ReconcilePodless(w, r, op) ==
    LET s == disk[r] IN
    IF s.state \in Terminal THEN Ends(w)
    ELSE IF s.pod = NoPod THEN Begins(w, "record", op, r, In(s, "running_unreachable"))
    ELSE Begins(w, "lookup", op, r, s)

\* The status is read.  Without a pod it is known to have failed.
Reconcile(w, r, op) ==
    LET s == disk[r] IN
    IF s.state \in Terminal THEN Ends(w)
    ELSE IF s.pod = NoPod THEN Begins(w, "record", op, r, In(s, "failed"))
    ELSE Begins(w, "lookup", op, r, s)

LookAgain(r) ==
    /\ At(r, "waiting") /\ Reconcile(r, r, "start")
    /\ PodKept /\ UNCHANGED <<world, misled>>

\* getPodOrNull: an error counts as a pod that is gone.
PodFound(w) == PodIs(w, {"running", "exited"})
NoAnswer(w) == misled' = [misled EXCEPT ![at[w].run] = @ \/ PodIs(w, {"running"})]

\* Mutant: a pod that is gone counts as one that cannot be reached.
LookedUpPatient(w) ==
    /\ At(w, "lookup") /\ at[w].op \in {"start", "status"}
    /\ \/ PodFound(w) /\ Saves(w, "open", St(w)) /\ UNCHANGED misled
       \/ NoAnswer(w) /\ Reconciled(w, In(St(w), "running_unreachable"))
    /\ PodKept /\ UNCHANGED world

LookedUp(w) ==
    /\ At(w, "lookup") /\ at[w].op \in {"start", "status"}
    /\ \/ PodFound(w) /\ Saves(w, "open", St(w)) /\ UNCHANGED misled
       \/ NoAnswer(w) /\ Reconciled(w, In(St(w), "failed"))
    /\ PodKept /\ UNCHANGED world

\* Mutant: a run that cannot be reached has failed.
OpenedOrFailed(w) ==
    /\ At(w, "open") /\ at[w].op \in {"start", "status"}
    /\ IF Reaches(w) THEN Goes(w, "logs", St(w))
                     ELSE Reconciled(w, In(St(w), "failed"))
    /\ PodKept /\ UNCHANGED <<world, misled>>

\* tryOpenSshConnection.
Opened(w) ==
    /\ At(w, "open") /\ at[w].op \in {"start", "status"}
    /\ IF Reaches(w) THEN Goes(w, "logs", St(w))
                     ELSE Reconciled(w, In(St(w), "running_unreachable"))
    /\ PodKept /\ UNCHANGED <<world, misled>>

\* fetchLogsSnapshot: logs that cannot be fetched fail nothing.  A run without
\* paths is not looked into.
LogsFetched(w) ==
    /\ At(w, "logs")
    /\ CASE at[w].op = "cancel" -> Saves(w, "stop", St(w))
         [] at[w].op = "fetch" -> Saves(w, "fetch", St(w))
         [] OTHER -> IF St(w).launched THEN Saves(w, "inspect", St(w))
                                       ELSE Reconciled(w, St(w))
    /\ PodKept /\ UNCHANGED <<world, misled>>

\* A remote script fails: the exception ends the command.
Cut(w) ==
    /\ at[w].pc \in {"inspect", "fetch", "kill"} /\ ~Reaches(w)
    /\ Ends(w) /\ PodKept /\ UNCHANGED <<world, misled>>

\* inspectRemoteRun: an exit code, a live wrapper, or neither.
Inspected(w) ==
    LET r == at[w].run
        unseen == [St(w) EXCEPT !.exit = "none"]
        dead == Reconciled(w, In(unseen, "failed"))
    IN
    /\ At(w, "inspect") /\ Reaches(w)
    /\ \/ /\ UNCHANGED proc
          /\ CASE proc[r].is \in {"ok", "bad"} ->
                    Saves(w, "fetch", [In(St(w), "fetching") EXCEPT !.exit = proc[r].is])
               [] proc[r].is = "running" ->
                    IF late[r] THEN Saves(w, "timeout", unseen)
                               ELSE Reconciled(w, In(unseen, "running"))
               [] OTHER -> dead
       \* the job ends between the look at its exit code and the look at its wrapper
       \/ /\ proc[r].is = "running" /\ dead
          /\ \E e \in {"ok", "bad"} : proc' = [proc EXCEPT ![r].is = e]
    /\ UNCHANGED <<pod, world, misled>>

TimedOut(w) ==
    /\ At(w, "timeout")
    /\ \/ Stop(St(w).pod) /\ Goes(w, "record", In(St(w), "timed_out"))
       \/ StopFails(St(w).pod) /\ Ends(w)
    /\ UNCHANGED <<world, misled>>

\* Mutant: an exit code that is not known counts as 0.
OutcomeOptimistic(s) == IF s.exit \in {"ok", "none"} THEN "completed" ELSE "failed"

\* fetchArtifacts: an exit code that is not known counts as 1.
Outcome(s) == IF s.exit = "ok" THEN "completed" ELSE "failed"

\* Declared artifacts may be missing where they are required.
Fetched(w) ==
    /\ At(w, "fetch") /\ Reaches(w)
    /\ \E outcome \in {Outcome(St(w)), "failed"} :
         IF at[w].op = "fetch" THEN EndsWith(w, In(St(w), outcome))
                               ELSE AutoStop(w, In(St(w), outcome))
    /\ PodKept /\ UNCHANGED <<world, misled>>

-----------------------------------------------------------------------------
(***************************************************************************)
(* The other commands.                                                     *)
(***************************************************************************)
StatusCommand(c, r) ==
    /\ At(c, "idle") /\ disk[r] # NoStatus
    /\ Reconcile(c, r, "status")
    /\ PodKept /\ UNCHANGED <<world, misled>>

\* fetchRunOutputs looks at no state: the run may be at work or over.
FetchCommand(c, r) ==
    /\ At(c, "idle") /\ disk[r].pod # NoPod
    /\ Begins(c, "lookup", "fetch", r, disk[r])
    /\ misled' = [misled EXCEPT ![r] = @ \/ disk[r].exit = "none"]
    /\ PodKept /\ UNCHANGED world

FetchReaches(c) ==
    /\ at[c].op = "fetch"
    /\ \/ At(c, "lookup") /\ (Goes(c, "open", St(c)) \/ Ends(c))
       \/ At(c, "open") /\ Reaches(c) /\ Goes(c, "logs", St(c))
       \/ At(c, "open") /\ ~Reaches(c) /\ Ends(c)
    /\ PodKept /\ UNCHANGED <<world, misled>>

\* cancelRun.
CancelCommand(c, r) ==
    /\ At(c, "idle") /\ disk[r].state \notin Terminal \cup {"none"}
    /\ IF disk[r].pod = NoPod
       THEN Begins(c, "record", "cancel", r, In(disk[r], "cancelled"))
       ELSE Begins(c, "lookup", "cancel", r, disk[r])
    /\ PodKept /\ UNCHANGED <<world, misled>>

CancelLooksUp(c) ==
    /\ At(c, "lookup") /\ at[c].op = "cancel"
    /\ \/ PodFound(c) /\ Goes(c, "open", St(c)) /\ UNCHANGED misled
       \/ NoAnswer(c) /\ EndsWith(c, In(St(c), "cancelled"))
    /\ PodKept /\ UNCHANGED world

CancelOpens(c) ==
    /\ At(c, "open") /\ at[c].op = "cancel"
    /\ Goes(c, IF Reaches(c) /\ St(c).launched THEN "kill" ELSE "stop", St(c))
    /\ PodKept /\ UNCHANGED <<world, misled>>

\* The wrapper is killed, not the job under it: its exit code will not be
\* written.  An answer that is lost ends the command.
CancelKills(c) ==
    /\ At(c, "kill") /\ Reaches(c)
    /\ proc' = [proc EXCEPT ![at[c].run].is = IF @ = "running" THEN "orphan" ELSE @]
    /\ Goes(c, "logs", St(c)) \/ Ends(c)
    /\ UNCHANGED <<pod, world, misled>>

\* Mutant: a pod that could not be stopped does not keep the run from being cancelled.
CancelStopsAnyway(c) ==
    /\ At(c, "stop")
    /\ Stop(St(c).pod) \/ StopFails(St(c).pod)
    /\ Goes(c, "record", In(St(c), "cancelled"))
    /\ UNCHANGED <<world, misled>>

CancelStops(c) ==
    /\ At(c, "stop")
    /\ \/ Stop(St(c).pod) /\ Goes(c, "record", In(St(c), "cancelled"))
       \/ StopFails(St(c).pod) /\ Ends(c)
    /\ UNCHANGED <<world, misled>>

-----------------------------------------------------------------------------
(***************************************************************************)
(* Everything else: jobs end, time passes, SSH comes and goes, the         *)
(* provider takes a pod, a command is killed.                              *)
(***************************************************************************)
JobEnds(r) ==
    /\ proc[r].is \in Alive
    /\ \E e \in IF proc[r].is = "running" THEN {"ok", "bad"} ELSE {"killed"} :
         proc' = [proc EXCEPT ![r].is = e]
    /\ UNCHANGED <<disk, at, pod, world, misled>>

TimePasses(r) ==
    /\ disk[r].launched /\ ~late[r]
    /\ late' = [late EXCEPT ![r] = TRUE]
    /\ UNCHANGED <<disk, at, pod, proc, sshUp, misled>>

SshChanges == sshUp' = ~sshUp /\ UNCHANGED <<disk, at, pod, proc, late, misled>>

\* Other runs of the project and target create, start and stop the same pods.
OthersUse(p) ==
    /\ \/ pod[p] = "running" /\ PodBecomes(p, "exited")
       \/ pod[p] \in {"absent", "exited"} /\ PodBecomes(p, "running")
    /\ UNCHANGED <<disk, at, world, misled>>

PodLost(p) ==
    /\ pod[p] \in {"running", "exited"} /\ PodBecomes(p, "lost")
    /\ UNCHANGED <<disk, at, world, misled>>

Crash(w) ==
    /\ ~At(w, "idle") /\ Ends(w)
    /\ PodKept /\ UNCHANGED <<world, misled>>

Submission(r) ==
    \/ PodsListed(r) \/ PodStarted(r) \/ PodCreated(r) \/ PodTaken(r)
    \/ SshWaited(r) \/ Prepared(r) \/ Launched(r) \/ LaunchRecorded(r) \/ LookAgain(r)

\* What a command at work does next; only a submitting command waits.
Step(w) ==
    \/ w \in Runs /\ Submission(w)
    \/ Salvaged(w) \/ AutoStopped(w) \/ Unstopped(w) \/ Recorded(w)
    \/ LookedUp(w) \/ Opened(w) \/ LogsFetched(w) \/ Cut(w) \/ Inspected(w)
    \/ TimedOut(w) \/ Fetched(w) \/ FetchReaches(w)
    \/ CancelLooksUp(w) \/ CancelOpens(w) \/ CancelKills(w) \/ CancelStops(w)

Next ==
    \/ \E w \in Workers : Step(w) \/ Crash(w)
    \/ \E r \in Runs : StartRun(r) \/ JobEnds(r) \/ TimePasses(r)
    \/ \E c \in Commands, r \in Runs :
         StatusCommand(c, r) \/ FetchCommand(c, r) \/ CancelCommand(c, r)
    \/ SshChanges
    \/ \E p \in Pods : PodLost(p) \/ OthersUse(p)

Fairness ==
    /\ \A w \in Workers : WF_vars(Step(w))
    /\ \A r \in Runs : WF_vars(TimePasses(r))

Spec == Init /\ [][Next]_vars /\ Fairness

-----------------------------------------------------------------------------
(***************************************************************************)
(* Properties.                                                             *)
(***************************************************************************)
\* A run is shown completed only when its job exited with 0, whoever looked.
CompletedIsSuccess ==
    \A r \in Runs : disk[r].state = "completed" => proc[r].is = "ok"

\* A run that is shown cancelled or timed out by a command that knew of its
\* launch has no job left at work, with its wrapper or without, unless a command
\* acted on it without a true picture.
StoppedIsQuiet ==
    \A r \in Runs : disk[r].state \in {"cancelled", "timed_out"} /\ disk[r].launched
                     /\ ~misled[r] => proc[r].is \notin Alive

\* A job under its wrapper is not shown as failed because it could not be reached.
SshLossIsNoFailure ==
    \A r \in Runs : disk[r].state = "failed" /\ disk[r].launched /\ ~misled[r]
                      => proc[r].is # "running"

\* A run that is shown at work, or that ended at work, names its pod, and always
\* the same one: a command that read the file before the pod was in it may erase
\* the id, but only together with ending the run.
PodNamed ==
    [][\A r \in Runs : LET d == disk[r]
                            e == disk'[r] IN
         IF e.pod = NoPod THEN e.state \in {"none", "provisioning", "failed", "cancelled"}
                          ELSE d.pod \in {NoPod, e.pod}]_disk

\* Checked by no run, as it fails: once it is named, a run's pod stays named.
PodNeverForgotten ==
    [][\A r \in Runs : disk[r].pod # NoPod => disk'[r].pod = disk[r].pod]_disk

\* A command that waits for its run returns, once SSH stays up: unless the
\* launch was written over by another command or the pod was stopped.
Stuck(r) == ~disk[r].launched \/ pod[disk[r].pod] = "exited"
WaitEnds ==
    <>[]sshUp => \A r \in Runs : []<>(At(r, "idle") \/ Stuck(r))
=============================================================================
