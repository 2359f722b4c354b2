# Formal models of OpenColab

OpenColab runs AI agents (provider command-line programs) for research projects.
People talk to the agents through Telegram, a web chat and a CLI; workflows chain
agents, judges and human gates; heartbeats wake agents on their own. Everything
durable is a file under the project tree, everything live is in the memory of the
gateway, a Node.js process, and of the CLI commands started beside it.

This directory holds TLA+ models of that system, the TLC configurations that check
them and machine-checked proofs about them. Paths below are relative to the
repository (`src/workflows/runner.ts` is the file of that name in the package).

## Inventory

| Component | State | Operations | What makes it correct |
| --- | --- | --- | --- |
| Workflow definition (`workflows/parser.ts`, `xml.ts`, `serializer.ts`, `graph.ts`) | the XML document; steps, order, loops, bounds | parse and validate, serialise, draw the graph | a definition that passes validation can be run: unique ids, known targets, bounded loops; writing it back changes nothing |
| Run executor (`workflows/runner.ts`, `storage.ts`) | `state.json`, `status.json`, step folders, the state in memory | one handler per step kind, persist, pause, stop, fail, complete | one step at a time, bounded loops, no answer lost, gates respected, it comes to rest |
| Workflow service and registry (`workflows/service.ts`, `registry.ts`) | one entry per live run in each process | start, pause, stop, approve, resume, teardown; create, write, patch, delete a definition | one executor per run, reachable by its operators, a stop is final, no edit under a run |
| Telegram gateway: lanes and agent queues (`gateway.ts`) | lane queues, agent queues, active requests | webhook, stop, live status | one turn per agent, turns of a lane in order, every question answered once |
| Telegram gateway: chats (`gateway.ts`, `telegram-workflow-notifier.ts`) | bot profiles, active project and agents, buttons, inboxes, status sessions | messages, commands, buttons, files, posts of runs and heartbeats | nothing of one project reaches the chat of another |
| Agent answers (`gateway.ts`, `web/server/chat.ts`) | the log of a session, what the chat and the page show | parse directives, send, log, reload | prose and files are neither lost nor repeated |
| Web chat (`web/server/chat.ts`) | turns, uploads, subscribers | send, stop, stream, collect, upload | no turn for a busy agent, the answer lands beside its question |
| Conversation store (`conversation.ts`) | active session, day files, summaries | append, reset, activate, summarise | questions and answers alternate, nothing is lost |
| Runtime and registry of bots (`runtime.ts`, `project-config.ts`) | the state file, a copy in each process | every set-up command, pairing, three-way merge | no process's change is lost, one bot per project |
| Heartbeat (`runtime.ts`) | pending wake-up per project, turns in flight | tick, turn, arm, clear | woken once, never on top of another turn |
| Telegram poller (`telegram-poller.ts`, `http.ts`) | a loop and an offset per bot | sync, prime, poll, dispatch, close | one loop per bot, each update handled once |
| Provider calls (`provider-agent.ts`, `agent.ts`) | a child process per turn, its stream, prompt and output files | spawn, stream, abort, time out | every call ends once, with its last word |
| GPU runs (`experiments.ts`, `gpu-providers/runpod`) | run folders, remote pods | submit, reconcile, wait, execute, fetch, cancel | a run at work names its pod, states tell the truth, a wait returns |
| Manual SSH (`manual-ssh.ts`, `manual-ssh-worker.ts`) | session files, a detached worker | start, write, read, stop | a session that is shown active has a worker |
| Gateway service (`gateway-service.ts`, `upgrade.ts`) | settings, unit files, the supervisor's view, the installation | start, stop, restart, status, upgrade | what runs is what is saved and built |
| Set-up (`ignite.ts`, `install.ts`, `secrets.ts`, `spawn-cli.ts`), CLI, read-only web routes, web client | files written once | sequential commands, printing | little state between calls |

How they interact. The poller hands every update to the gateway, which queues it
by conversation lane, then by agent, and calls a provider; the web server and the
heartbeat call the provider directly and share the agent's session files with the
gateway. Web routes, CLI commands and Telegram all call the workflow service. A
run started by one process executes there; the others see only its folder. The
state file is shared in the same way.

What is hard. Every `await` of an event loop is a point where another operation
runs; two processes share folders without locks; a crash may fall between any two
writes; an agent answers at any time or never; an operator may pause, stop, approve
and resume in any order. The hazards this brings are listed in `PROJECT.json`, each
at the line where it bites.

## Modules

| Module | Contents |
| --- | --- |
| `WorkflowDefinition` | A validated definition as constants with their assumptions, and the functions that walk it: next step, loop bounds, counting rounds |
| `WorkflowRun` | One run: the run folder, the executors started for it, the registries, the operations, crashes and exceptions; its properties |
| `RunLifecycle` | What a run promises to a reader of its folder, in two variables; `WorkflowRun` implements it |
| `MCWorkflowRun` | Two workflow definitions for TLC |
| `WorkflowRunProofs` | Lemmas on the definition's functions; theorems about `WorkflowRun` |
| `TaskQueue` | `runQueued` of the gateway as a record of functions: who joins, who may go, who leaves |
| `AgentTurns` | The turns of one project's agents in one gateway: Telegram messages through two `TaskQueue`s, web chat turns, heartbeats, `/stop`; its properties |
| `AgentTurnsProofs` | What joining and leaving a queue preserve; theorems about `AgentTurns` |
| `WorkflowDocument` | `workflow.xml`: tokens to elements, elements to a definition with every check, a definition back to tokens, and its graph |
| `WorkflowLibrary` | The definitions of a project and the operations on them, in several processes, beside runs |
| `WorkflowLibraryProofs` | Lemmas on passes over sequences, the reader, the parser and the serialiser; theorems about `WorkflowLibrary` |
| `MCWorkflowLibrary` | A stock of sound and unsound documents |
| `StateFile` | `opencolab.json` under several processes: normalisation, the three-way merge, every operation that changes it |
| `StateFileProofs` | What the merge and the commands keep of a document; theorems about `StateFile` |
| `BotChats` | Routing of messages, commands and buttons, files, posts of runs and heartbeats, while bots are rebound |
| `TelegramPoller` | The loops of one bot in the gateways of a machine, and Telegram's queue of updates |
| `TelegramPollerProofs` | Theorems about `TelegramPoller` |
| `ProviderCall` | One call of a provider's CLI: child, stream reader, timer, abort, files, live status |
| `ProviderCallProofs` | Theorems about `ProviderCall` |
| `MCProviderCall` | A stream for each provider format, with misbehaving children |
| `AgentReply` | An answer on its way to the chat, the log and the page |
| `GpuRun` | GPU runs, the commands at work on them, pods, SSH and jobs |
| `GpuRunProofs` | Theorems about `GpuRun` |
| `WebChat` | The web chat with an agent, over its conversation store, beside a Telegram turn |
| `GatewayService` | The background service on three platforms, upgrades, the supervisor |
| `ManualSsh` | SSH sessions, their files and workers |
| `OperatorWork` | `WorkflowLibrary`, `BotChats`, `WebChat`, `GatewayService`, `ManualSsh` and `AgentReply` under one specification |
| `OperatorWorkProofs` | Theorems about `BotChats`, `WebChat`, `GatewayService` and `ManualSsh`, as they are in `OperatorWork` |

`WorkflowRun` extends `WorkflowDefinition` and instantiates `RunLifecycle` with a
refinement mapping; `AgentTurns` extends `TaskQueue` and holds two of its queues.
`WorkflowDocument` instantiates `WorkflowDefinition` with the definition a document
parses to: the moves that `WorkflowRun` makes are compared with the graph drawn.
`OperatorWork` puts parts that share no state under one specification; a variable
`focus` says which of them moves in a behaviour, so the states are those of the parts,
added up.

### How `WorkflowRun` corresponds to the code

State. `disk` is `state.json` and `shown` the status in `status.json`. `reg[p]` is
the entry of the run in process p's `ACTIVE_RUNS`; each executor e has the entry
created for it (`entry[e]`: the abort signal, the pause request, `completed`, and
the last status the registry was told, `seen`), a place in the code (`pc[e]`) and
the run state it carries (`mem[e]`). Of `WorkflowRunState` the model keeps status,
next step, pending gate, stop request, loop counters and which steps left a value;
`stepHistory` is reduced to what `enforceLoopBounds` counts of it. Names, prompts,
transcripts, `events.jsonl`, step folders and the fields shown to people only
(`currentStepId`, `iteration`) are left out.

Executor. `pc` follows `execute`: `boot` (first persist), `top` (head of the loop,
where stop and pause are looked at), `step` (a handler runs), `parse` (a decision's
answer is being parsed), `closing` (returned, teardown due), `gone`. One action per
handler outcome. A persist writes two files: `Persist` writes `state.json`, and
`WriteStatus` writes `status.json` and runs the status callback, which updates the
entry the registry holds now. Between the two another process may act and a crash
may fall.

Atomicity. A process is an event loop. The awaits inside the executor resolve at
once, so an operation of the same process runs only when each of its executors
waits for an agent, is closing its notifier, or is gone (`Free`). Operations of
other processes and crashes interleave anywhere. An operation's own writes
(`initRun`'s two files, the approval and the resume that follows it) are one step:
no reader acts between them.

Operations. `ResumeRun` has the code's guard only: the run exists. What callers do
is `CallerMayResume`: with `Careful` they resume a paused run, or one left open by
a dead process, as the web client's button and the documentation suggest; without
it anything goes. `AgentMissing` is possible for a resumed run only, because
`startRun` checks the agents. An approval ignores the gate's `allow` list, as the
code does, so `retry` and `branch` go to any id, an unknown one included.

Faults. `Crash` ends a process: registry and executors are gone, files stay.
`Throw` is an exception in the executor, which `executeRun` catches. `TornPersist`
lets it fall between the two writes of a persist as well.

Bounds. `MaxLaunches` bounds the executors ever started, `MaxFaults` crashes and
exceptions. Counters stop one above their limit (`Bump`), where every comparison
has already failed; a counter without a limit stops at 1. `maxRuntimeMinutes` is a
choice that may fall at any step of a loop that declares it.

### How `AgentTurns` corresponds to the code

State. `turn` holds the turns in progress, one per slot: `Asks` for Telegram
messages, `Webs` for web chat turns, `Wakes` for heartbeats; a slot is used again
when its turn is over. `laneQ` and `agentQ` are `laneQueues` and `agentQueues` of
the gateway, which are maps from a key to the promise of the last task; the chain of
closures that wait for one another is the field `prev` of `TaskQueue`, and `ahead`
is a history variable for the order of arrival. `activeReq` is `activeRequests`, by
lane. `pending` is the project's pending wake-up, `active` its `activeAgentId`,
`binding` the agent of the pinned bot, `lastLane` that bot's last conversation. Of a
turn, `stopped` and `finished` are `stopRequested` and `turnFinished`; `open` and
`answered` record what the session holds of it.

Telegram turns. `pc` follows `handleQueuedWebhook`: `lane` (waits for its lane),
`queued` (registered, waits for its agent), `staging` (files are fetched), `asking`
(the provider runs), `closing` (the live status is being closed), `sending`,
`failing`, `replying` (a failure is being told), `idle`. Each action is the code
between two awaits. `/agent use` is a message of the same lane (`command`,
`telling`); it changes the binding or the active agent while others wait, so a turn
keeps the agent it was routed to in `BeginAsk`. `/stop` does not pass the lane. It
marks the request and aborts the provider (`StopCommand`), awaits the live status,
and then records its note (`NoteStop`); by then the turn may be over, which is why
`Over` keeps a slot whose stop is under way.

Web chat turns refuse to begin for a busy agent and use no queue. `WebSend` and
`WebEnds` are the two ends of a turn; `stopTurn` changes only the wording of the
note. They neither clear nor arm the heartbeat.

Heartbeat. `TickClears` and `Wake` are a tick of `runHeartbeatTick`; the await of a
turn inside the tick is not an order the model relies on. A pending wake-up may be
due at any time. In live mode a wake-up registers a request under the pinned bot's
last lane, with no look at what is there.

Fixed or left out. One project and one gateway process that does not crash; the set
of agents and their heartbeat settings; `live`, chosen at the start of a behaviour;
floating bots follow the active agent, a pinned bot its binding, or the active agent
when it names none (`NoAgent`). Which session a record lands in, day files and
resets are in `WebChat`; who a message is routed to, in `BotChats`.

### How `WorkflowDocument` and `WorkflowLibrary` correspond to the code

A file is a sequence of tokens: an opening tag with its attributes, text, CDATA, a
comment, a closing tag; a text is a sequence of words, of which "<" and "&" are
reserved. `ParseXml` is `xml.ts` with its stack and depth limit, `Parse` is
`parser.ts`: it returns the definition or rejects the document, since any issue does.
`Serialize` is `serializer.ts`, `Graph` the edges of `graph.ts`. The definition keeps
ids, kinds, loops, bounds, choices with their targets, gates, inputs, outputs,
separators and messages.

`file` is the `workflow.xml` of each workflow, `folder` the run folders, `entry` each
process's `ACTIVE_RUNS`. The operations are `createWorkflow`, `updateWorkflowXml`,
the metadata patch, `deleteWorkflow`, starting and ending a run; `EditByHand` is an
editor or an agent writing the file, `ProcessEnds` a restart. History: `stale` when a
file changed under an entry, `touched` when that came from elsewhere.

### How `StateFile` corresponds to the code

`disk` is `opencolab.json`; `mem[p]` a process's copy, `base[p]` what it last read.
A change works on `mem` (`Change`), or on a file just read (`ChangeFresh`), and then
`persist` runs in two actions, `ReadAgain` and `Replace`, because no lock is held
between them. `Merge` is `mergeProjectStateChanges`, key by key; `Normal` is what
`normalizeState` does to the bots, with `ensureProjectShape`'s rule that a gone active
project gives way to the first (`ActiveOf`): a race may lose a project just made. One
action per operation of the runtime; commands that differ only in the key they change
share `SetField`. A key of a project is a value that flips between 0 and 1: the merge
tells only equal from different.
History: `raced` when a replaced file was not the one read, `mixed` the bots merged
from the changes of two processes, `said` the value last saved for a key.

### How `BotChats` corresponds to the code

A bot has one chat and one lane. `lane` holds the updates with the profile each arrived
under; one action handles the first of it, and a message to an agent is a turn of
several steps (files downloaded, asked, answered). `buttons` are the inline keyboards a
chat still shows: an old one may be pressed at any time. Terminal commands bind,
unbind, disable, re-pair and remove bots and switch the active project while messages
wait; an agent may be taken out of the file by hand. `live` is the status session of a
run or heartbeat, whose chat is found when it opens; `post` is what was posted last,
with the project it is about, whose chat it went to then (`since`) and now (`at`).

### How `TelegramPoller` corresponds to the code

`sent` and `confirmed` are Telegram's queue of the bot's updates, external: a
`getUpdates` with a higher offset confirms all below it. A loop has a place (`priming`,
`top`, `polling`, `sleeping`, `rejected`, `ended`), a token, an offset and the flag the
poller clears to stop it; `table` is a gateway's entry for the bot, which need not be
the only loop alive. `GatewayStarts` is `startPolling`, `Refresh` the sync of each
minute, `Shutdown` SIGTERM and SIGINT, `ProcessEnds` an end or a kill. `Rejected` is
HTTP 401, `CutBy` Telegram's 409 to a second long poll. A gateway's environment took
the token when it started (`env`); `.env.local` may hold a newer one (`known`).

### How `ProviderCall` corresponds to the code

`call` says what the CLI prints, in one of the four formats' events, and how it
misbehaves: deaf to SIGTERM, leaving a process that holds its pipe, ending without a
newline. `Data`, `Exit` and the pipe's ends belong to the child and its system;
`Consume` is the reader's loop, one line at a time; `Finish` is the one function that
abort, timer, close and error all call. `status` is the live status message: its
lines, what the chat shows, whether an edit is being sent. `said` is what the turn
told the chat in the end. A spawn that fails does so in an event (`SpawnFailed`) or by
throwing (`StartThrows`), which leaves the prompt file behind.

### How `GpuRun` corresponds to the code

`disk` is `run-status.json`; `at` where each command is and the copy of the status it
carries, which it writes back whole (`Saves`). The command that submits a run and
others that look, wait, fetch, execute or cancel are workers; an action is the code
between two awaits, or less. The workers are processes without a lock, so another may
come between a command's effect on a pod or a job and its write (`launched`, `record`),
between a read of the file and a write that concludes from it alone (a status or cancel
command that finds no pod), and between a new pod and the record of its id (`started`,
`created`). Pods, SSH and the job (`pod`, `sshUp`, `proc`) are external:
an API call may fail with or without its effect, SSH may be cut, a job may exit with
0, with another code, or be killed. What a cancel kills is the wrapper: the job is then
an `orphan`, which works on until it ends or its pod stops, and reports no exit code.
`late` says that `max_runtime` has passed. `misled` marks a run on which a command acted
without a true picture: after an API error it took for a lost pod, or as a fetch of a run
whose exit code was not known.

### How `WebChat` corresponds to the code

`store` is the agent's memory folder: the sessions in order of time, the marker of
the active one, the messages by session and day, the summaries of days. Requests of
pages (`send`, `stop`, a stream's opening, sessions, uploads) are actions; the end of
the provider call appends the answer to the session active then. A turn holds the
session in which it asked, and `moved` when another became active meanwhile. A
Telegram turn of the same agent works on the same store in three steps: it reads the
memory, asks when its files have come, and answers, unless it was stopped before. The
day changes at any time, `MaxDay` often.

### How `GatewayService`, `ManualSsh` and `AgentReply` correspond to the code

A command of the service is a list of steps by platform, as `gateway-service.ts`
issues them; each may fail, in some the failure is ignored, and the command may be
killed between two. `saved`, `unit` and `install` are its files; `loaded`, `enabled`
and `service` belong to the supervisor, which is external and may restart the service
or begin it at login. An upgrade goes by the kind of the installation: a checkout is
pulled and built, a package of the installer's is installed anew, after which both are
looked over and the service is resumed; of any other the command only tells the user what
to do.

A session of `ManualSsh` has `session.json` (`disk`), a transcript, an inbox and a
worker. A command reads the file and writes it back in a later step; the worker
writes from its own copy. `unlucky` marks a worker that was killed or could not
begin, and an ended session that a command wrote its old copy over.

`AgentReply` takes an answer as a sequence of lines: prose, blank lines, directives with
a whole object, with the beginning of one, with nothing or another word behind them, and
the lines of objects that stand below. `Parsed` is the pass that the gateway and the web
chat each have, with what they differ in as arguments: what becomes of a directive that
is not whole, and which objects are taken. The gateway takes any file, a URL and an id
of Telegram's too ("elsewhere"), if it knows the kind; the page takes only what is under
the agent's directory (`OnDisk`), and does not look at the kind. The log is what the
session keeps; a page that is reloaded is made of it. So `NothingLost` asks of a later page
the files that were returned *and* are under the agent's directory: a file that the
gateway sent from elsewhere is not offered by the page, by `resolveReturnedFilePath`
(`chat.ts` 616-638). The model removes no file between the answer and the page.

## Runs

| Run | Instance | Result |
| --- | --- | --- |
| `operations` | one process, three executors, one fault; the review-loop template followed by a human gate, a merge and a terminate step | `RoundsBounded`, `AnswersSurvive`, `GateNeedsApproval` and the refinement `LifecycleKept` hold (about 1.2 million states) |
| `two_processes` | gateway and CLI, two executors, one fault, the same definition | `OneExecutor`, `LiveRunReachable` hold, and every executor comes to rest (`RunEnds`) (about 400 thousand states) |
| `turns` | two Telegram messages, one web chat turn, one heartbeat; two agents, one with a heartbeat; a lane of the pinned bot and one of a floating bot; live mode on or off | `OneTelegramTurn`, `StopFindsTurnWhenQuiet`, `QuestionsAreClosed`, `StoppedStaysSilent`, `IdleAgentsOnly` hold (about 3 million states) |
| `turns_end` | three Telegram messages, one agent, two lanes | `TurnsInOrder` holds and every message is dealt with (`EveryAskEnds`) (about 67 thousand states) |
| `poller` | two gateways, two loops, two updates, two tokens | `ForgottenWasTaken`, `TakenOnce` hold; every update is taken once one gateway stays up (`EachIsTaken`) |
| `registry` | gateway and command, two projects, two bots, two chats, three changes | `OneOwner`, `InForce`, `PairedWithItsChat` hold |
| `calls` | every stream of `MCProviderCall`, eight kinds of child each | `OneOutcome`, `QuietAfterEnd`, `AnswerIsTheLast` hold, every call ends (`CallEnds`) (about 120 thousand states) |
| `gpu` | one GPU run, one pod, one command beside the submitting one | `CompletedIsSuccess`, `StoppedIsQuiet`, `SshLossIsNoFailure`, `PodNamed` hold, a wait returns (`WaitEnds`) (about 480 thousand states) |
| `operator` | two bots, two projects of two agents, two updates, one change from the terminal, one post; the stock of documents, two processes, one run; two sessions, two turns, two days; three platforms, two revisions; one SSH session, two commands; answers of up to three lines | `NeverCrossDelivered`, `PinnedChatStaysPut`; `StoredAreSound`, `EditsSpareRuns`, `SaveKeepsMeaning`, `GraphShowsEveryMove`; `AnswerInPlace`, `SummaryIsWhole`; `RestartTakesEffect`; `ActiveHasWorker`; `NothingLost` hold (about 1.6 million states) |
| `stop_from_cli` | gateway and CLI, one executor | `PersistedStopHolds` is violated: a stop another process wrote to `state.json` is overwritten |
| `one_turn` | as `turns`, smaller | `OneTurnPerAgent` is violated: a Telegram turn starts beside a web chat turn |
| `stopped_cli` | the calls of `calls` | `StoppedIsTerminated` is violated: a process that ignores SIGTERM outlives the stop |

### Why the bounds are enough

Workflow runs. Three executors let a run pause, be approved or resumed
and fail again with a crash in any of them; two are what a race needs. The review
loop with `maxIterations` 2 and `maxSteps` 4 reaches both limits, from the loop's
own rounds and from a retry, a branch or a resume into it. Every kind of step, every
outcome of a decision (a listed choice, an unknown id, stop, a human, invalid) and
every operation occurs. Deadlock is not checked: a run that has ended, with no
launch left, really stops.

Turns. Slots are reused, so a behaviour has any number of turns, of which the slots
bound those at one time. An order needs two messages behind one: three slots in
`turns_end`, which also gives a queue whose tail leaves while another waits. Two
agents and two lanes let a lane change its agent and an agent be reached by two
lanes. A web turn, a heartbeat and two messages meet in `turns` in every order.
Nothing is capped: the state space is finite. Deadlock is checked in `turns` and
`turns_end`: a message can always arrive.

Chats. A message and a button of an earlier one meet a change from the terminal that
falls before, while or after they wait; a post opened before the change ends after it.
Two projects and two bots give each mix of pinned and floating. The behaviour ends
with its bounds, so deadlock is not checked in `operator`.

Poller. Two loops are what one gateway can have of a bot (an old one in its long
poll and a new one), or two gateways one each; loops, gateways and stops are reused
without bound. Two tokens give a revoked one and its successor, two updates an order.

State file. A merge needs a base, a copy and a newer file: two processes and three
changes give each of them a history. Two bots give every conflict of place, identity
and pairing.

Provider calls. A call's stream has a text before the last, a tool, and nothing final,
in turn; two lines of status with three tools make it drop one.

GPU runs. The submitting command and one more meet on a run in every order, with errors
of the API and SSH anywhere; another run of the target is what uses the pod. A command
slot is used again, so a run meets any number of commands one after another, each with a
copy of its own age.

Operator. The stock has each kind of step and each kind of loop, alone, behind a step
and between two, with bounds that are zero or missing, unknown targets and reserved
characters. Two days are what a summary needs, two sessions a move, two turns a
session with a history. Three lines give a directive with an object below it and
prose on either side, or an object over two lines below a bare directive; `Window` and
`PieceSize` are reached within them. Each kind of installation is one of the initial states.

### Fairness

A workflow run. Weak fairness of each executor's step, and of nothing else. The event loop
always comes back to a resolved promise; a provider process is killed when its time
is up (`providerCliTimeoutMs` in `provider-agent.ts`), so an agent step returns. No
operator has to act: an executor at a gate has returned.

Turns. Weak fairness of each Telegram turn's steps: a promise that
settled runs its continuation, the provider is killed when its time is up, calls of
the Telegram API return or fail. Nothing is assumed of arrivals, stops, web turns or
the heartbeat.

Poller. Weak fairness of each loop's next step (a poll is answered or fails, a sleep
ends) and of the sync, an interval timer; strong fairness of an answered poll: the
network is not down each time it is tried. `EachIsTaken` is conditional on a gateway
that stays up with the valid token, which no fairness gives.

Provider call. Weak fairness of the reader, the timers, the edit of the status
message (the code sets its calls of the Telegram API no limit, and would wait for ever
for one that is not answered), the continuation of a settled
promise, and the system's signals. Nothing is assumed of the CLI: it need not print,
exit or obey.

GPU run. Weak fairness of each command's steps, each of which has a time limit of its
own (a call, an SSH command, a sleep), and of the passing of `max_runtime`. Nothing is
assumed of the job, the pod or SSH.

## Findings

Three runs end in a violation, each of a property that the repository states:

- `stop_from_cli`: the comment in `workflows/service.ts` at line 743 and
  `docs/workflows.md` lines 308-309 promise that a persisted stop prevents an
  accidental resume. The gateway's executor loaded its state at launch and never
  reads the file again.
- `one_turn`: `docs/spec.md` lines 477-478 and the comment at `gateway.ts` line 380
  promise one provider turn per agent across Telegram, web chat and heartbeat. The
  web chat and the tick look at Telegram's requests (`IdleAgentsOnly` holds), but a
  Telegram turn looks at neither, and the tick does not look at web chat turns.
- `stopped_cli`: `docs/telegram_pause_spec.md` line 73 wants the provider process
  terminated on `/stop`. The abort sets a timer for SIGKILL and then calls `finish`,
  which clears it (`provider-agent.ts` lines 238-241 and 259).

These differences are in the models as the code has them. Where a property is named,
it is defined in the module and belongs to no run; putting it in a configuration of
that module shows the behaviour.

| Where | What happens | Property |
| --- | --- | --- |
| `workflows/service.ts` 741 | a stop of a paused run leaves it paused: the entry's controller has no executor any more (`docs/workflows.md` 301-309, 432) | `WorkflowRun!StopEndsTheRun`, with the constants of `operations` |
| `workflows/service.ts` 814 | `resumeRun` starts a second executor of a running run (`docs/workflows.md` 267) | `WorkflowRun!OneExecutor` with `Careful = FALSE` |
| `workflows/service.ts` 115 | the judge-and-retry template retries without bound (`docs/workflows.md` 217): the parser bounds `<loop>` elements only | `RunEnds` with the `Retry...` definitions of `MCWorkflowRun` |
| `gateway.ts` 729 | a live heartbeat takes over the lane's entry, and `/stop` misses the turn (comment at 831) | `AgentTurns!StopFindsTurn` with `Modes = {TRUE}` |
| `project-config.ts` 738-758 | a bot that one process removed comes back from another's copy (`docs/multi_bot_project_routing_spec.md` 152-153) | `StateFile!RemovedStaysRemoved` |
| `runtime.ts` 1083 | a token saved while the gateway runs is not picked up: its environment was read at the start (`docs/spec.md` 305) | `TelegramPoller!PickedUpWithoutRestart` |
| `manual-ssh-worker.ts` 55 | the worker moves the read cursor itself, so `session read` without an offset skips output (`docs/runpod_spec.md` 751) | `ManualSsh!ReadTellsAll` |
| `gpu-providers/runpod/index.ts` 495-508, 602-628 | a status or cancel command that read the file before the pod was in it writes it back without the pod, as failed or cancelled; the submitting command goes on, and its job runs | `GpuRun!PodNeverForgotten` |
| `web/server/chat.ts` 994 | the log of a web turn loses directives on several lines (comment at 993) | `AgentReply!WebFilesStay` |
| `telegram-workflow-notifier.ts` 46 | the updates of a run go on to the chat found at its start after the bot was rebound (comment at 30) | `BotChats!UpdatesStayHome` |

Met on the way, without a property:

- Workflow runs: a decision that terminates the run as failed or stopped ends it as
  complete; an approval of a gate at the end of a loop leaves the loop; a resume of a
  failed or stopped run (its next step is null) turns it into a complete one; a crash
  and resume at a loop's first step counts the round twice; `maxSteps` fails the run
  one record late; a durable stop leaves `status.json` as it was.
- Definitions: the serialiser drops an empty `separator` (`serializer.ts` 203);
  `assertNoActiveRun` looks at one process and goes by workflow id across projects
  (`service.ts` 581); a paused run locks its workflow until a restart; one unreadable
  file fails the whole list; `workflow.xml` is not replaced atomically.
- Turns: a stop while the answer is being sent leaves an answer and a stop note; a
  stop of a queued turn leaves a note without a question; a turn whose file cannot be
  sent has recorded both an answer and a failure.
- Chats: an old agent button of a floating bot changes the agent of whatever project
  is active then; a removed bot's waiting message is handled under its old profile
  (`gateway.ts` 767); the note that a pinned agent is gone never appears, because
  normalisation has cleared it (`gateway.ts` 497-505); an edited message is handled
  as a new one; a file of which a part was downloaded is taken for whole.
- Answers: an unfinished directive stays prose in Telegram and vanishes from the page
  (`chat.ts` 461-463); a file of an unknown kind is dropped by the gateway only, and a
  file from outside the agent's directory, a URL or an id of Telegram's by the page only
  (`chat.ts` 616-638).
- Web chat: the answer goes to the session active at its end (`chat.ts` 970); a
  refused send has already activated its session; uploads of one name replace each
  other; after a restart a running question stays unanswered.
- State file: `bot test` writes back a bot that was removed meanwhile (`runtime.ts`
  599); the default of SSH profiles may name none (847); a project snapshot is used
  after an await (2045-2072).
- Provider calls: lines that arrive after a settled call still reach the stream state;
  deltas are trimmed, so their spaces are lost (`provider-agent.ts` 1473-1480); the
  last progress may never be shown (`gateway.ts` 287); a status message whose creation
  seemed to fail is made twice; a spawn that throws leaves the prompt file
  (`provider-agent.ts` 207).
- GPU runs: any error of the API counts as a lost pod (`runpod/index.ts` 1677); a lost
  answer to the POST leaves a pod nobody knows (1685); a pod shared by two runs is
  stopped under the other (868; `docs/spec.md` 860); an unknown exit code is 1 (696);
  the time limit is looked at only when SSH answers (778); a status command during
  provisioning shows the run as failed (500-508); a cancel that does not know of the
  launch, and one that finds no pod in the file, may leave a job to run under a cancelled
  run (607-628); after the kill of its wrapper a job counts as failed while it goes on
  (612, 801).
- Gateway service: `gateway start` on an active systemd service changes the saved
  settings, not the process; `--port` with no number is saved as null; a failed git
  upgrade leaves new sources with the old build; polling begins before listening has
  succeeded (`http.ts` 60-64, 128).
- Manual SSH: a worker that was killed leaves its session active; a command's
  write-back revives a session that has ended; two starts at one time both pass the
  check of the profile; "degraded" is never written (`docs/runpod_spec.md` 989).

## Proofs

`WorkflowRunProofs` proves, for every definition that satisfies the assumptions,
every set of processes and every bound:

| Theorem | Statement | Assumes |
| --- | --- | --- |
| `TypeCorrectness` | `Spec => []TypeOK` | |
| `OneExecutorAtWork` | `Spec => []OneExecutor` | `Careful`, `~TornPersist` |
| `RegistryLeadsToExecutor` | `Spec => []LiveRunReachable` | `Careful`, `~TornPersist` |
| `LoopsStayBounded` | `Spec => []RoundsBounded` | `Careful`, `~TornPersist` |
| `AnswersAreDurable` | `Spec => []AnswersSurvive` | `Careful`, `~TornPersist` |
| `GatesAreApproved` | `Spec => GateNeedsApproval` | `Careful`, `~TornPersist` |
| `RunsFollowLifecycle` | `Spec => LifecycleKept` | `Careful`, `~TornPersist`, one process |

`AgentTurnsProofs` proves, for all sets of slots, agents and lanes that satisfy the
two assumptions of `AgentTurns`, and nothing more:

| Theorem | Statement |
| --- | --- |
| `TurnTypes` | `Spec => []TypeOK` |
| `InOrderOfArrival` | `Spec => []TurnsInOrder` |
| `OneTelegramTurnAtATime` | `Spec => []OneTelegramTurn` |
| `StopFindsTurns` | `Spec => []StopFindsTurnWhenQuiet` |
| `QuestionsClosed` | `Spec => []QuestionsAreClosed` |
| `StoppedTurnsStaySilent` | `Spec => StoppedStaysSilent` |
| `OnlyIdleAgents` | `Spec => IdleAgentsOnly` |

The shared file, the poller, and what runs outside:

| Module | Theorem | Statement | Assumes |
| --- | --- | --- | --- |
| `StateFileProofs` | `StateTypes` | `Spec => []TypeOK` | `StateFileAssumption` |
| | `OneBotPerProject` | `Spec => []OneOwner` | |
| | `ChangesStayInForce` | `Spec => []InForce` | |
| | `PairingsHold` | `Spec => []PairedWithItsChat` | |
| `TelegramPollerProofs` | `PollerTypes` | `Spec => []TypeOK` | `PollerAssumption` |
| | `ForgottenUpdatesWereTaken` | `Spec => []ForgottenWasTaken` | |
| | `UpdatesAreTakenOnce` | `Spec => []TakenOnce` | |
| `ProviderCallProofs` | `QuietOnceTold` | `Spec => []QuietAfterEnd` | nothing |
| | `CallSettlesOnce` | `Spec => OneOutcome` | |
| | `AnswerIsWhatWasTold` | `Spec => []AnswerIsTheLast` | `StreamsAssumption` |
| `GpuRunProofs` | `GpuTypes` | `Spec => []TypeOK` | `RunsAssumption` |
| | `CompletedMeansSuccess` | `Spec => []CompletedIsSuccess` | |
| | `StoppedLeavesNothing` | `Spec => []StoppedIsQuiet` | |
| | `UnreachableHasNotFailed` | `Spec => []SshLossIsNoFailure` | |
| | `PodsAreNamed` | `Spec => PodNamed` | |
| `WorkflowLibraryProofs` | `EditsSpareHeldRuns` | `Spec => []EditsSpareRuns` | nothing |
| | `StoredDefinitionsAreSound` | `Spec => []StoredAreSound` | `NamesAssumption`, `DepthAssumption`, `OfferedAssumption`, `PatchesAssumption` |
| | `SavedDefinitionsKeepTheirMeaning` | `Spec => []SaveKeepsMeaning` | |
| | `GraphShowsMoves` | `Spec => []GraphShowsEveryMove` | |
| `OperatorWorkProofs` | `PostsStayHome` | `WorkSpec => []NeverCrossDelivered` | `WorkAssumption` |
| | `PinnedChatsStayPut` | `WorkSpec => PinnedChatStaysPut` | |
| | `AnswersFollowQuestions` | `WorkSpec => []AnswerInPlace` | |
| | `SummariesAreWhole` | `WorkSpec => []SummaryIsWhole` | |
| | `RestartsTakeEffect` | `WorkSpec => []RestartTakesEffect` | |
| | `SessionsHaveWorkers` | `WorkSpec => []ActiveHasWorker` | |
| | `NothingIsLost` | `WorkSpec => []NothingLost` | |

Each of these is the assumption of the module the theorems are about; that of
`GpuRun` says that runs and commands differ, that `NoPod` is no pod, and that there is a
run. `WorkAssumption` says that bounds are numbers and that no set is empty of which the
models take a first element; the numbers of bots, projects, files, sessions, turns, days,
settings, releases and commands are arbitrary, and so are the lengths of answers, of
the window in which a directive must end, and of the pieces a text is sent in. Of
definitions it is assumed that no id is empty, which `ID_PATTERN` does not allow; that
what is offered as a document is a sequence of tokens, any sequence of such as a file can
have (`Legible`: no tag has a `#`, and CDATA holds characters, no entities); that elements
may be nested four deep, of the 64 levels the code allows (`MAX_NESTING_DEPTH`, `xml.ts`
line 9); and that the metadata form changes the fields it has. Of calls, where `AnswerIsWhatWasTold` needs it,
that a stream is as its CLI prints it (`Orderly`); the lines, their number, the words and
the behaviour of the child are arbitrary.

The assumptions on callers of a workflow run are needed: without the first, a resume
of a running run is a counterexample; without the second, a failed write of
`status.json` is.

The argument for runs. `TypeInv` adds to `TypeOK` what the handlers rely on: an
executor in a handler works on a step of the definition. `Control` is the inductive
invariant behind the second and third results. Neither is inductive alone: that a
launch finds nobody at work follows only from what the status on disk says about
executors. `Control` therefore says that executors start in order; that while one is at
work, `state.json` reads neither absent nor paused and its entry is not marked
completed; that the one at work carries the status running; and that while a finished
executor tears down it still owns its process's entry and nobody else has started
(`FinishedAlone`). Launches then happen only at rest, and a teardown that removes an
entry removes its own. `Progress` adds the data: the counters on disk, and those the
executor at work carries, never fall behind the rounds that really began, and both hold
every answer that came back, because whatever writes `state.json` has either just read
it or is the one executor at work. The lemmas on `WorkflowDefinition` supply that a loop
has a first and a last step, by least-number arguments on positions, and what the
counting functions return. `GateInv` says that while
an executor is at work, `state.json` names the step it is at, except when a decision or
a merge has sent it on in memory, and then it names no human gate; so what leaves a gate
in the file is the handler of that gate, an end, or an approval. `StatusFollows` says that while an executor is at work,
`state.json` reads queued or running, and running once it has booted. It needs the one
process: with two, the one that does not hold the run stops it in the file while the
other's executor works on, which is the run `stop_from_cli`. From it each action is a
step of `RunLifecycle` or leaves what that shows as it was (`StepForms`).

The argument for turns. That a task whose promise has settled has nobody ahead is not
inductive: a task that leaves must be the only one the next one waits for.
`WellFormed` says what a key's promises form, whatever the
number of tasks: a task awaits the last to come of those ahead of it, tasks of a key
are ordered by who is ahead, and the map holds the last of all, or nothing when the
key has no task. `JoinKeeps` and `LeaveKeeps` preserve it, the second because a
task leaves only from the front; `OneRuns` gives that two tasks of a key never run
together. `QueuesHold` ties it to the turns: a turn that waits or works is in
its lane's queue, and in its agent's under the agent it was routed to. From this the
table entry of a lane is that of the one turn taken up from it, which the proof of
`StopFindsTurns` needs, and `OnlyIdleAgents` reads the busy check off that entry.

The argument for the state file. Every command is one edit of a document, of the copy
in memory or of the file just read (`CommandEdits`), so what holds of edits, of the
merge and of normalisation holds of all of them. `TypeInv` adds to `TypeOK` that every
document, in the file, a copy or a base, has its active project. `Sole` follows because
whatever replaces the file was normalised last. `InForce` needs two facts more: a copy
knows every project its base knows (`Ahead`), so a merge drops none it has not seen;
and, until a replaced file was not the one read, the file holds every project of every
base and, for each key, what was last said of it (`Current`), because a key the merging
process left alone comes from the file. `Paired` carries the pairing of a bot through
the file and all the copies and bases at once.

The argument for the poller. A loop that lives belongs to a gateway that is not down
and is the one in its gateway's table (`Owned`). `Accounted` gives the first
result: whatever lies below an offset, a loop's or Telegram's, was dispatched or passed
over. `Alone` gives the second. Until something made it unsure, one loop lives at a
time, only it polls, and each update taken is either confirmed to Telegram or below the
offset of that loop, so no answer brings it again.

The argument for provider calls. A call's events come in any order, but a stop closes
the status message and leaves no call running, and the chat is told only of a message
that is closed and has no edit under way (`Order`). A closed message begins no edit,
and a call that no longer runs is settled by nothing that comes late.

The argument for a call's answer. `StreamsAssumption` says what the code counts on when it
reads a stream, one reader for each CLI: that claude and gemini end their turn once, at
the end, that claude prints whole messages only, that gemini's end has no text, and that
each piece or message of pi has its message or end behind it, if there is any. Of codex it
says nothing: codex writes its last words to a file, which counts first, and the reader's
text matters only where that file is empty. `ReadsTo` is what a reader has gathered of the
first lines, for each CLI, and every line takes it from one number of lines to the next
(`LineReads`). What is written of the words of a set of lines is a fold over the lines, so
it is shown from line to line (`WordsSteps`, `Upwards`). When all lines are in, what
`resolveProviderCliResponse` picks is what was told (`AllShown`). The rest is order:
`Gathering` holds of the reader however it is interrupted by edits, with the text that
waits for one counted in, and `Ending` says of a child that ended well that all it printed
has arrived, and of codex that its file is there until the call has settled.

The argument for GPU runs. Each command carries a copy of the status across its awaits
and writes all of it back, so nothing holds of the file alone, and the pod's id on disk
cannot be relied on: an old copy without it may be written over it. `Inv` says that there
are pods `h` that the runs took, each fixed once by the submitting command, of which every
copy and every file names its own or none (`Names`), and none only where it does not know
of a launch and its state is one of `Podless`. What a status says of its job stays true
once it is true: an exit code recorded is the job's, a launched run has a job, a job over
never runs again, one without its wrapper never exits with a code (`Knows`, `Follows`).
Before the pod is recorded only the submitting command has a copy that may come to name
one (`Early`, `Taking`). A job at work is on the pod its run took, which is up (`Placed`),
so a pod that was stopped, or a lookup that truly found none, leaves no job. `MoveStep`
shows once that a worker's step keeps all of this; each action is then a case of a few
(`LateSave`, `LateReconciled`, `LateEnd`, `GoesStep`).

The argument for definitions. A run that is held has a workflow, whose file, where it is
gone, was removed from elsewhere (`HeldHaveFiles`): without it a definition could be
made anew under a run by the process that holds it.

The argument for documents. Every `workflow.xml` is a sequence of tokens, whoever wrote
it (`Documents`; what the code writes is what `SerializeIs` says). What the parser makes
of one is then a fact about functions, of documents of any length. The code's loops are
passes: for each there is a function that gives the value after so many elements
(`JoinedPass`, `ReadsPass`, `StepsPass` and so on), and a fact about every value is shown
from each to the next, by the least element at which it would fail (`UpTo`, `Onward`).
The reader makes trees: sets of elements that hold what is below their members
(`Forest`), so that nothing has to be recursive. A definition under construction that
has no issue yet is `Ordered`: the ids differ, each loop is a run of neighbours in the
list of steps, has a bound, and holds just the steps that name it. `AddStep` and
`AddLoop` keep that, and a parsed definition is `Accepted`: ordered, not empty, with
known targets. From it follow what `WorkflowDefinition` assumes
(`AcceptedIsSound`) and, since a step's successor is its neighbour or the start of its
loop, an edge for each move (`MovesAreDrawn`).

The argument for writing and reading back. It goes in two halves, with the nodes of the
document between them. First, `Puts(tokens, nodes, d)` says of some tokens that the reader,
wherever an element is open and there is room for `d` more below it, puts the nodes after
that element's children and leaves all else as it was. It holds of a text, of an empty
element (`PutsText`, `PutsEmpty`), of tokens one after another (`PutsThen`, `PutsJoined`) and
of an element around them, which takes one more of the room (`PutsWrap`). What the
serialiser writes is built of these, so each part of a definition puts the node written for
it (`PutsStep`, `PutsLoop`, `PutsGroups`, `PutsBody`), and the room it takes is what
`DepthAssumption` gives. Second, the parser makes of each node what it was written from.
For a step that needs `ExactStep`: a parsed step has the fields of its kind and no others,
its prompt is a text, its choices have names that differ (`StepOfExact`, `StepReadBack`).
For the whole it needs the order: `Part(def, n, h, m)` is the definition as far as its first
`n` inputs, `h` steps and `m` loops, and each node takes one such part to the next
(`NextInputBack`, `NextStepBack`, `NextLoopBack`). A loop is written where its first step
stands and is read with all its steps at once, so the steps read run ahead of the place
that was written; `GoneTo` says how far, and that the next loop to be read is the one
whose steps stand next, which is where `LoopsFollow` of the parser is needed
(`OneGroupBack`).

The argument for chats. A profile may have changed since the message that waits under
it arrived, so nothing can be read off the bots as they are. `TalkInv` goes by what is
fixed once: a turn has the target of its first message, and what it tells its agent lies
in the inbox of that project (`TalkTold`); a status was opened in the chat of the project
it is about (`TalkOpened`), and a post goes where its status was opened.

The argument for the web chat. One turn runs at a time. As long as no other session was
made active under it, its session is there, is the active one, and holds its question
alone (`ChatTurns`), so the answer comes second, and after it. A summary is written for a
day that is over; `ChatBook` says of a summed-up day that it has passed and that it had no
more messages then than now, whatever sessions were removed since. The lemmas on
cardinality count the messages of a day before and after one was appended.

The argument for the service. A restart is a list of steps, and what its end promises is
true of none of them. `GatewayInv` has for each platform the stages of the list, with what
each has done by then (`LinuxStage`, `DarwinStage`, `WindowsStage`), and for an upgrade the
two before (`UpgradeStage`). `Settled` keeps what a restart reached: until the next
command, whatever begins the service anew reads the settings that are saved.

The argument for SSH. A command writes back a record as old as it pleases, so `SshBegun`
says of the records that commands carry, as of the files, that their session's worker was
begun; a worker that ends without ill luck says so in the file.

The argument for answers. Both parsers, and the selections of lines that the logs and the
properties are made of, give a value for each line from the values of later ones; each
fact is shown from the last line to the first (`Downwards`). A directive takes no line of
prose, wherever it ends and however many lines its object has (`CompleteIs`, `TakingIs`),
so a parser keeps the prose of any answer (`ProseIsRead`), and trimming takes off none of it
(`TrimmedIs`, `ReadingIs`, `BothRead`). What stands behind the text of a log is directives
alone (`LogsAre`), so that holds of a page made from the log as well. Where each file
is named on one line, the files of a reading are the directive lines of those the reader
takes (`SingleRead`, `SingleReading`), and the two logs keep those (`SomeOfFiles`,
`LogsOffer`). `ReplyInv` adds that the chat has, at each time, the beginning of the text.

Only model-checked:

- Liveness, which the provers do not reach: `EveryAskEnds`, `RunEnds`, `EachIsTaken`,
  `CallEnds`, `WaitEnds`.
- `TypeOK` of the modules `OperatorWork` composes, where no theorem needed all of it.

The violations are runs only.

## Not modelled, and why

- Characters: XML entities, Markdown, prompts, wording, layouts of graphs and pages.
  Texts are words or lines, told apart where a property needs it.
- Event logs, progress lines and the event streams of pages: output.
- Workflow templates, except the two that `MCWorkflowRun` takes: their text is data.
- GPU availability checks, the set-up of volumes and registries, logs of jobs; host
  keys and the building of ssh's command line: calls of outside services that leave no
  state the rest depends on.
- `ignite.ts`, `install.ts`, `secrets.ts`, `spawn-cli.ts`: a sequential dialogue that
  writes files once. What others see of it (the pairing, a saved token, an upgrade) is
  in `StateFile`, `TelegramPoller` and `GatewayService`.
- CLI parsing and printing, read-only routes and the web client. The calls they allow
  are what the models let operators do.
- A write of the prompt to a provider's stdin that fails (`provider-agent.ts` 337): nothing
  listens for that error, so it ends the whole process.
- Files that are removed between an answer and a later page.
- What else a decision's answer may name as the next step than the targets of the
  definition at hand and the step's successor (`Targets`, a bound of the executor's runs,
  as is `maxSteps`; the theorems hold for any targets and bounds).
- Migrations of old state files, beyond the two initial states of `StateFile`.

## What could come next

Every component that keeps state of its own is modelled, and every invariant and action
property the passing runs check is proved, each theorem under the assumptions its row
names. Beyond them:

1. An abstract specification of a turn (asked, then answered or noted) that the
   Telegram and web chat turns implement.
2. The hazards without a property: a stop that finds a paused run's registry entry
   (`service.ts` 741) or an answer on its way (`gateway.ts` 1080), a lost answer to the
   creation of a pod (`runpod/index.ts` 1685), and a bot removed in one process and kept
   in the stale copy of another (`project-config.ts` 747).
