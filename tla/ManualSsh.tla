------------------------------ MODULE ManualSsh ------------------------------
(***************************************************************************)
(* Live SSH sessions on a pod of the user's (src/manual-ssh.ts,            *)
(* src/manual-ssh-worker.ts).  A detached worker owns the ssh process of a *)
(* session; commands, each in a process of its own, start it, read what it *)
(* wrote, queue input and stop it.  They share the session's files.  The   *)
(* worker writes session.json from the copy in its memory, the commands    *)
(* from the one they have just read.                                       *)
(***************************************************************************)
EXTENDS Naturals

CONSTANTS
    Sessions, Profiles, SshAgents,
    Commands,               \* slots for commands at work at one time
    MaxChunks, MaxInputs    \* bounds: pieces of output and of input of a session

VARIABLES
    disk,        \* session.json
    worker,      \* the worker of each session and its copy
    transcript,  \* how many pieces transcript.log holds
    inbox,       \* how many pieces inbox.jsonl holds
    asked,       \* the command in each slot
    shown,        \* history: the pieces of output that reads have printed
    upTo,        \* history: where the last read ended
    unlucky      \* history: the worker was killed, or its end was written over

vars == <<disk, worker, transcript, inbox, asked, shown, upTo, unlucky>>
files == <<transcript, inbox>>
history == <<shown, upTo, unlucky>>

States == {"none", "starting", "running", "stopping", "stopped", "failed"}
Record == [state: States, profile: Profiles, agent: SshAgents, pid: BOOLEAN, cursor: 0..MaxChunks]
NoRecord == [state |-> "none", profile |-> CHOOSE p \in Profiles : TRUE,
             agent |-> CHOOSE a \in SshAgents : TRUE, pid |-> FALSE, cursor |-> 0]
\* isActiveManualSshSessionState; "degraded" is never written.
Active(state) == state \in {"starting", "running", "stopping"}

\* boot: its code is being loaded; term: SIGTERM has come; offset: the pieces of
\* input it has given to ssh; ssh: "killed" once it was told to end.
NoWorker == [pc |-> "none", copy |-> NoRecord, offset |-> 0, term |-> FALSE, ssh |-> "none"]
Rest == [op |-> "none", session |-> CHOOSE s \in Sessions : TRUE, copy |-> NoRecord]

TypeOK ==
    /\ disk \in [Sessions -> Record]
    /\ \A s \in Sessions :
         /\ worker[s].pc \in {"none", "boot", "live", "gone"} /\ worker[s].copy \in Record
         /\ worker[s].offset \in 0..MaxInputs /\ worker[s].ssh \in {"none", "up", "killed"}
         /\ transcript[s] \in 0..MaxChunks /\ inbox[s] \in 0..MaxInputs
         /\ shown[s] \subseteq 1..MaxChunks /\ upTo[s] \in 0..MaxChunks
    /\ \A c \in Commands :
         /\ asked[c].op \in {"none", "create", "record", "read", "write", "stop", "signal"}
         /\ asked[c].session \in Sessions /\ asked[c].copy \in Record
    /\ unlucky \in [Sessions -> BOOLEAN]

-----------------------------------------------------------------------------
(* Commands.                                                                *)

Goes(c, op, s, copy) == asked' = [asked EXCEPT ![c] = [op |-> op, session |-> s, copy |-> copy]]
Ends(c) == asked' = [asked EXCEPT ![c] = Rest]
Gone(s) == worker[s].pc = "gone"

\* A command's copy goes to disk; the end of the worker may lie under it.
WritesBack(s, copy) ==
    /\ disk' = [disk EXCEPT ![s] = copy]
    /\ unlucky' = [unlucky EXCEPT ![s] = @ \/ (Active(copy.state) /\ Gone(s))]

\* startSession: the profile and the agent have no active session.
Start(c, s, p, a) ==
    /\ asked[c].op = "none" /\ disk[s].state = "none"
    /\ \A d \in Commands : asked[d].op # "none" => asked[d].session # s
    /\ \A t \in Sessions : Active(disk[t].state) => disk[t].profile # p /\ disk[t].agent # a
    /\ Goes(c, "create", s, [NoRecord EXCEPT !.state = "starting", !.profile = p, !.agent = a])
    /\ UNCHANGED <<disk, worker, files, history>>

Create(c) ==
    /\ asked[c].op = "create"
    /\ LET s == asked[c].session IN
       /\ disk' = [disk EXCEPT ![s] = asked[c].copy]
       /\ worker' = [worker EXCEPT ![s].pc = "boot"]
       /\ Goes(c, "record", s, [asked[c].copy EXCEPT !.pid = TRUE])
    /\ UNCHANGED <<files, history>>

\* The worker's pid, over whatever the worker may have written meanwhile.
Recorded(c) ==
    /\ asked[c].op = "record"
    /\ WritesBack(asked[c].session, asked[c].copy) /\ Ends(c)
    /\ UNCHANGED <<worker, files, shown, upTo>>

\* readSession from the cursor.
Read(c, s) ==
    /\ asked[c].op = "none" /\ disk[s].state # "none"
    /\ Goes(c, "read", s, [disk[s] EXCEPT !.cursor = transcript[s]])
    /\ shown' = [shown EXCEPT ![s] = @ \cup (disk[s].cursor + 1)..transcript[s]]
    /\ upTo' = [upTo EXCEPT ![s] = transcript[s]]
    /\ UNCHANGED <<disk, worker, files, unlucky>>

\* writeSession.
Write(c, s) ==
    /\ asked[c].op = "none" /\ Active(disk[s].state) /\ inbox[s] < MaxInputs
    /\ inbox' = [inbox EXCEPT ![s] = @ + 1]
    /\ Goes(c, "write", s, disk[s])
    /\ UNCHANGED <<disk, worker, transcript, history>>

\* stopSession.
Stop(c, s) ==
    /\ asked[c].op = "none" /\ Active(disk[s].state)
    /\ Goes(c, "stop", s, [disk[s] EXCEPT !.state = "stopping"])
    /\ UNCHANGED <<disk, worker, files, history>>

WroteBack(c) ==
    /\ asked[c].op \in {"read", "write", "stop"}
    /\ LET s == asked[c].session IN
       /\ WritesBack(s, asked[c].copy)
       /\ IF asked[c].op = "stop" /\ asked[c].copy.pid THEN Goes(c, "signal", s, asked[c].copy) ELSE Ends(c)
    /\ UNCHANGED <<worker, files, shown, upTo>>

\* SIGTERM: a worker that does not listen yet dies of it.
Signals(c) ==
    /\ asked[c].op = "signal" /\ Ends(c)
    /\ LET s == asked[c].session IN
       /\ worker' = CASE worker[s].pc = "boot" -> [worker EXCEPT ![s].pc = "gone"]
                      [] worker[s].pc = "live" -> [worker EXCEPT ![s].term = TRUE]
                      [] OTHER                 -> worker
       /\ unlucky' = [unlucky EXCEPT ![s] = @ \/ worker[s].pc = "boot"]
    /\ UNCHANGED <<disk, files, shown, upTo>>

CommandKilled(c) ==
    /\ asked[c].op # "none" /\ Ends(c)
    /\ UNCHANGED <<disk, worker, files, history>>

-----------------------------------------------------------------------------
(* The worker.                                                              *)

Live(s) == worker[s].pc = "live"
Persists(s, w) == worker' = [worker EXCEPT ![s] = w] /\ disk' = [disk EXCEPT ![s] = w.copy]

Ended(s, state) == [NoWorker EXCEPT !.pc = "gone", !.copy = [worker[s].copy EXCEPT !.state = state]]

\* main: ssh is spawned, or cannot be.
Boots(s) ==
    /\ worker[s].pc = "boot"
    /\ \/ Persists(s, [NoWorker EXCEPT !.pc = "live", !.copy = [disk[s] EXCEPT !.state = "running"], !.ssh = "up"])
       \/ Persists(s, [NoWorker EXCEPT !.pc = "gone", !.copy = [disk[s] EXCEPT !.state = "failed"]])
    /\ UNCHANGED <<files, asked, history>>

\* writeTranscript.
Output(s) ==
    /\ Live(s) /\ transcript[s] < MaxChunks
    /\ transcript' = [transcript EXCEPT ![s] = @ + 1]
    /\ Persists(s, [worker[s] EXCEPT !.copy.cursor = transcript'[s]])
    /\ UNCHANGED <<inbox, asked, history>>

\* pollInbox.
PollInbox(s) ==
    /\ Live(s) /\ worker[s].offset < inbox[s]
    /\ Persists(s, [worker[s] EXCEPT !.offset = inbox[s]])
    /\ UNCHANGED <<transcript, inbox, asked, history>>

OnTerm(s) ==
    /\ Live(s) /\ worker[s].term
    /\ Persists(s, [worker[s] EXCEPT !.term = FALSE, !.ssh = "killed", !.copy.state = "stopping"])
    /\ UNCHANGED <<files, asked, history>>

\* The state a session ends in: of an ssh that was told to end, exited with 0, or failed.
EndState(s, code) ==
    IF worker[s].copy.state = "stopping" \/ code = 0 THEN "stopped" ELSE "failed"

\* Mutant of SshExits: a session that was being stopped is left as it is.
SshExitsQuietly(s, code) ==
    /\ Live(s)
    /\ Persists(s, Ended(s, IF worker[s].ssh = "killed" THEN "stopping" ELSE EndState(s, code)))
    /\ UNCHANGED <<files, asked, history>>

\* shutdown, on ssh's exit.
SshExits(s, code) ==
    /\ Live(s)
    /\ Persists(s, Ended(s, EndState(s, code)))
    /\ UNCHANGED <<files, asked, history>>

\* The worker is killed outright or cannot begin: ssh ends with its input.
WorkerLost(s) ==
    /\ worker[s].pc \in {"boot", "live"}
    /\ worker' = [worker EXCEPT ![s] = [NoWorker EXCEPT !.pc = "gone"]]
    /\ unlucky' = [unlucky EXCEPT ![s] = TRUE]
    /\ UNCHANGED <<disk, files, asked, shown, upTo>>

Init ==
    /\ disk = [s \in Sessions |-> NoRecord] /\ worker = [s \in Sessions |-> NoWorker]
    /\ transcript = [s \in Sessions |-> 0] /\ inbox = [s \in Sessions |-> 0]
    /\ asked = [c \in Commands |-> Rest]
    /\ shown = [s \in Sessions |-> {}] /\ upTo = [s \in Sessions |-> 0]
    /\ unlucky = [s \in Sessions |-> FALSE]

Next ==
    \/ \E c \in Commands, s \in Sessions :
         Read(c, s) \/ Write(c, s) \/ Stop(c, s) \/ \E p \in Profiles, a \in SshAgents : Start(c, s, p, a)
    \/ \E c \in Commands : Create(c) \/ Recorded(c) \/ WroteBack(c) \/ Signals(c) \/ CommandKilled(c)
    \/ \E s \in Sessions :
         \/ Boots(s) \/ Output(s) \/ PollInbox(s) \/ OnTerm(s) \/ WorkerLost(s)
         \/ \E code \in 0..1 : SshExits(s, code)

Spec == Init /\ [][Next]_vars
-----------------------------------------------------------------------------
\* A session that is shown active, and so keeps its profile and its agent from
\* a new one, has a worker, unless that was killed, was stopped before it
\* listened, or its end was written over by a command that had read before it.
ActiveHasWorker ==
    \A s \in Sessions : Active(disk[s].state) /\ ~unlucky[s] => worker[s].pc \in {"boot", "live"}

\* A read without an offset prints what was written since the last one
\* (docs/runpod_spec.md 751): up to where it ended, all has been printed.
ReadTellsAll == \A s \in Sessions : 1..upTo[s] \subseteq shown[s]
=============================================================================
