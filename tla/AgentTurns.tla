----------------------------- MODULE AgentTurns -----------------------------
(***************************************************************************)
(* The turns of the agents of one project in one gateway process: chat     *)
(* messages from Telegram (src/gateway.ts), web chat turns                 *)
(* (src/web/server/chat.ts) and wake-ups of the heartbeat                  *)
(* (src/runtime.ts).  A turn records a question in the agent's session,    *)
(* calls the agent's provider and records what came of it.                 *)
(*                                                                         *)
(* A Telegram turn passes two queues: its lane (one per bot, chat and      *)
(* thread) and its agent's queue.  A table holds the request under way in  *)
(* each lane: /stop finds a turn there, and so do the busy checks of the   *)
(* web chat and of the heartbeat.  The process is one event loop; an       *)
(* action is the code between two awaits.                                  *)
(***************************************************************************)
EXTENDS TaskQueue

CONSTANTS
    Asks, Webs, Wakes,  \* slots for the turns of the three kinds at one time
    Agents, Beating,    \* the project's agents, those whose heartbeat is on
    Lanes, HomeLanes,   \* lanes, those of the bot pinned to the project
    NoAgent,
    Modes               \* whether the heartbeat's notify mode may be "live"

Turns == Asks \cup Webs \cup Wakes

ASSUME SlotsAssumption ==
    /\ Asks \cap Webs = {} /\ Asks \cap Wakes = {} /\ Webs \cap Wakes = {}
    /\ NoTask \notin Turns /\ NoAgent \notin Agents
    /\ NoKey \notin Lanes \cup Agents
ASSUME RoutesAssumption ==
    /\ Beating \subseteq Agents /\ Agents # {}
    /\ HomeLanes \subseteq Lanes /\ HomeLanes # {}
    /\ Modes \subseteq BOOLEAN /\ Modes # {}

VARIABLES
    turn,             \* the turn in each slot
    laneQ, agentQ,    \* laneQueues and agentQueues
    activeReq,        \* activeRequests: lane -> turn
    pending,          \* the agent whose wake-up is pending
    active, binding,  \* activeAgentId; the agent the pinned bot is bound to
    lastLane,         \* where the pinned bot was last spoken to
    live              \* notify mode of the heartbeat: fixed in a behaviour

queues == <<laneQ, agentQ>>
routes == <<active, binding, lastLane, live>>
vars == <<turn, queues, activeReq, pending, routes>>

\* At work for its agent; taken up from its lane.
Working == {"staging", "asking", "closing", "failing", "sending", "replying"}
Begun == Working \cup {"queued"}
PCs == Begun \cup {"idle", "lane", "command", "telling"}

Turn == [pc: PCs,
         agent: Agents \cup {NoAgent},
         lane: Lanes \cup {NoKey},
         stopped: BOOLEAN,   \* stopRequested
         finished: BOOLEAN,  \* turnFinished: the heartbeat heard of the end
         noting: BOOLEAN,    \* a stop command has still to record its note
         open: BOOLEAN,      \* history: its question has had no reply
         answered: BOOLEAN]  \* history: its answer is in the session

\* A slot whose turn is over, and which nothing refers to.
Blank == [pc |-> "idle", agent |-> NoAgent, lane |-> NoKey, stopped |-> FALSE,
          finished |-> FALSE, noting |-> FALSE, open |-> FALSE, answered |-> FALSE]

TypeOK ==
    /\ turn \in [Turns -> Turn]
    /\ laneQ \in Queues(Asks, Lanes)
    /\ agentQ \in Queues(Asks, Agents)
    /\ activeReq \in [Lanes -> Turns \cup {NoTask}]
    /\ pending \in Agents \cup {NoAgent}
    /\ active \in Agents
    /\ binding \in Agents \cup {NoAgent}
    /\ lastLane \in HomeLanes
    /\ live \in Modes

Init ==
    /\ turn = [t \in Turns |-> Blank]
    /\ laneQ = EmptyQueue(Asks, Lanes)
    /\ agentQ = EmptyQueue(Asks, Agents)
    /\ activeReq = [l \in Lanes |-> NoTask]
    /\ pending = NoAgent
    /\ active \in Agents
    /\ binding \in Agents \cup {NoAgent}
    /\ lastLane \in HomeLanes
    /\ live \in Modes

-----------------------------------------------------------------------------
(***************************************************************************)
(* Helpers.                                                                *)
(***************************************************************************)
At(t, at) == turn[t].pc = at
Free(t) == At(t, "idle") /\ ~turn[t].noting

Becomes(t, r) == turn' = [turn EXCEPT ![t] = r]
Goes(t, at) == Becomes(t, [turn[t] EXCEPT !.pc = at])

\* The turn returns.  A stop under way still refers to its request.
Over(r) ==
    IF r.noting THEN [r EXCEPT !.pc = "idle", !.lane = NoKey]
                ELSE [Blank EXCEPT !.open = r.open]

\* The agent that answers in a lane: resolveRoutingTarget.
Routed(l) ==
    IF l \in HomeLanes /\ binding # NoAgent THEN binding ELSE active

\* The entry of t's lane goes if it is t's own.
Unregistered(t) ==
    [l \in Lanes |-> IF l = turn[t].lane /\ activeReq[l] = t THEN NoTask
                                                             ELSE activeReq[l]]

\* The wake-up pending after a turn of agent a ended: armHeartbeat.
Armed(a) == IF a = active /\ a \in Beating THEN a ELSE NoAgent

\* recordHeartbeatOutcome: a failure leaves the wake-up of the active agent.
PendingAfter(a, outcome) ==
    IF outcome = "failed" /\ a = active THEN pending ELSE Armed(a)

\* notifyAgentTurnFinished: the heartbeat hears once of a turn's end.
Notify(t, outcome) ==
    pending' = IF turn[t].finished THEN pending ELSE PendingAfter(turn[t].agent, outcome)

\* A Telegram turn returns, and its agent's queue and its lane move on.
EndTurn(t) ==
    /\ Becomes(t, Over(turn[t]))
    /\ activeReq' = Unregistered(t)
    /\ agentQ' = Leave(agentQ, t)
    /\ laneQ' = Leave(laneQ, t)
    /\ UNCHANGED routes

\* Mutant: a turn that waits for its agent does not make the agent busy.
BusyWhenWorking(a) ==
    \E l \in Lanes : /\ activeReq[l] # NoTask
                    /\ turn[activeReq[l]].agent = a
                    /\ turn[activeReq[l]].pc \in Working

\* isAgentBusy of the gateway, and of the web chat; isHeartbeatRunning.
BusyOnGateway(a) ==
    \E l \in Lanes : activeReq[l] # NoTask /\ turn[activeReq[l]].agent = a
BusyForWeb(a) ==
    BusyOnGateway(a) \/ \E w \in Webs : ~At(w, "idle") /\ turn[w].agent = a
HeartbeatRunning(a) ==
    \E w \in Wakes : ~At(w, "idle") /\ turn[w].agent = a

-----------------------------------------------------------------------------
(***************************************************************************)
(* Telegram: an update joins its lane, and a message becomes a turn.       *)
(***************************************************************************)
\* rememberTelegramTarget: where the pinned bot was last spoken to.
TargetAfter(l, kind) == IF kind = "lane" /\ l \in HomeLanes THEN l ELSE lastLane

Receive(t, l, kind) ==
    /\ Free(t)
    /\ Becomes(t, [Blank EXCEPT !.pc = kind, !.lane = l])
    /\ laneQ' = Join(laneQ, l, t)
    /\ lastLane' = TargetAfter(l, kind)
    /\ UNCHANGED <<agentQ, activeReq, pending, active, binding, live>>

\* /agent use: the pinned bot's binding, or the project's active agent.
RunCommand(t, a) ==
    /\ At(t, "command") /\ MayGo(laneQ, t)
    /\ Goes(t, "telling")
    /\ IF turn[t].lane \in HomeLanes
       THEN binding' = a /\ UNCHANGED active
       ELSE active' = a /\ UNCHANGED binding
    /\ UNCHANGED <<queues, activeReq, pending, lastLane, live>>

CommandTold(t) ==
    /\ At(t, "telling")
    /\ Becomes(t, Over(turn[t]))
    /\ laneQ' = Leave(laneQ, t)
    /\ UNCHANGED <<agentQ, activeReq, pending, routes>>

\* The request is in the table of the lane before its agent is free.
BeginAsk(t) ==
    /\ At(t, "lane") /\ MayGo(laneQ, t)
    /\ Becomes(t, [turn[t] EXCEPT !.pc = "queued", !.agent = Routed(turn[t].lane)])
    /\ activeReq' = [activeReq EXCEPT ![turn[t].lane] = t]
    /\ agentQ' = Join(agentQ, Routed(turn[t].lane), t)
    /\ UNCHANGED <<laneQ, pending, routes>>

\* Mutant: the agent's queue is not awaited.
TurnComesAtOnce(t) == At(t, "queued")

TurnComes(t) == At(t, "queued") /\ MayGo(agentQ, t)

StartTurn(t) ==
    /\ TurnComes(t) /\ ~turn[t].stopped
    /\ Goes(t, "staging")
    /\ pending' = IF pending = turn[t].agent THEN NoAgent ELSE pending
    /\ UNCHANGED <<queues, activeReq, routes>>

FilesStaged(t) ==
    /\ At(t, "staging") /\ ~turn[t].stopped
    /\ Becomes(t, [turn[t] EXCEPT !.pc = "asking", !.open = TRUE])
    /\ UNCHANGED <<queues, activeReq, pending, routes>>

\* A file cannot be fetched, the provider fails, or a file cannot be sent.
TurnFails(t) ==
    /\ turn[t].pc \in {"staging", "asking", "sending"}
    /\ Goes(t, "failing")
    /\ UNCHANGED <<queues, activeReq, pending, routes>>

ProviderAnswers(t) ==
    /\ At(t, "asking")
    /\ Goes(t, "closing")
    /\ UNCHANGED <<queues, activeReq, pending, routes>>

\* Mutant: stopRequested is not looked at again after the provider returns.
RecordAnswerAnyway(t) ==
    /\ At(t, "closing")
    /\ Becomes(t, [turn[t] EXCEPT !.pc = "sending", !.open = FALSE, !.answered = TRUE])
    /\ UNCHANGED <<queues, activeReq, pending, routes>>

RecordAnswer(t) ==
    /\ At(t, "closing") /\ ~turn[t].stopped
    /\ Becomes(t, [turn[t] EXCEPT !.pc = "sending", !.open = FALSE, !.answered = TRUE])
    /\ UNCHANGED <<queues, activeReq, pending, routes>>

\* Telegram has the answer: a stop that came meanwhile need not be seen.
AnswerSent(t) ==
    /\ At(t, "sending")
    /\ Becomes(t, Over([turn[t] EXCEPT !.finished = TRUE]))
    /\ Notify(t, "completed")
    /\ activeReq' = Unregistered(t)
    /\ agentQ' = Leave(agentQ, t)
    /\ laneQ' = Leave(laneQ, t)
    /\ UNCHANGED routes

\* Mutant: a timeout is reported in the chat and not noted in the session.
RecordFailureInChat(t, outcome) ==
    /\ At(t, "failing") /\ ~turn[t].stopped
    /\ Becomes(t, [turn[t] EXCEPT !.pc = "replying", !.finished = TRUE,
                                  !.open = @ /\ outcome = "timed_out"])
    /\ Notify(t, outcome)
    /\ UNCHANGED <<queues, activeReq, routes>>

\* The turn has failed: a note closes its question, if it was recorded.
RecordFailure(t, outcome) ==
    /\ At(t, "failing") /\ ~turn[t].stopped
    /\ Becomes(t, [turn[t] EXCEPT !.pc = "replying", !.finished = TRUE, !.open = FALSE])
    /\ Notify(t, outcome)
    /\ UNCHANGED <<queues, activeReq, routes>>

FailureTold(t) ==
    /\ At(t, "replying")
    /\ EndTurn(t)
    /\ UNCHANGED pending

\* Wherever a turn looks at stopRequested it returns without a word.
StoppedTurnEnds(t) ==
    /\ TurnComes(t) \/ turn[t].pc \in {"staging", "closing", "failing", "sending"}
    /\ turn[t].stopped
    /\ EndTurn(t)
    /\ UNCHANGED pending

AskStep(t) ==
    \/ \E a \in Agents : RunCommand(t, a)
    \/ CommandTold(t)
    \/ BeginAsk(t) \/ StartTurn(t) \/ FilesStaged(t)
    \/ ProviderAnswers(t) \/ RecordAnswer(t) \/ AnswerSent(t)
    \/ TurnFails(t) \/ FailureTold(t)
    \/ \E outcome \in {"timed_out", "failed"} : RecordFailure(t, outcome)
    \/ StoppedTurnEnds(t)

-----------------------------------------------------------------------------
(***************************************************************************)
(* /stop: it marks the lane's request, waits for the live status to close  *)
(* and then records a note, whether or not the turn is still there.        *)
(***************************************************************************)
\* Mutant: the stopped request is taken out of the table at once.
StopCommandForgetting(l) ==
    LET t == activeReq[l] IN
    /\ t # NoTask
    /\ ~turn[t].stopped
    /\ Becomes(t, [turn[t] EXCEPT !.stopped = TRUE, !.noting = TRUE])
    /\ activeReq' = [activeReq EXCEPT ![l] = NoTask]
    /\ UNCHANGED <<queues, pending, routes>>

StopCommand(l) ==
    LET t == activeReq[l] IN
    /\ t # NoTask
    /\ ~turn[t].stopped
    /\ Becomes(t, [turn[t] EXCEPT !.stopped = TRUE, !.noting = TRUE])
    /\ UNCHANGED <<queues, activeReq, pending, routes>>

Noted(r) ==
    LET n == [r EXCEPT !.noting = FALSE, !.open = FALSE, !.finished = TRUE]
    IN  IF n.pc = "idle" THEN Over(n) ELSE n

NoteStop(t) ==
    /\ turn[t].noting
    /\ Becomes(t, Noted(turn[t]))
    /\ Notify(t, "stopped")
    /\ UNCHANGED <<queues, activeReq, routes>>

-----------------------------------------------------------------------------
(***************************************************************************)
(* Web chat: no queue.  A question is refused while the agent is busy.     *)
(***************************************************************************)
WebSend(w, a) ==
    /\ Free(w) /\ ~BusyForWeb(a)
    /\ Becomes(w, [Blank EXCEPT !.pc = "asking", !.agent = a, !.open = TRUE])
    /\ UNCHANGED <<queues, activeReq, pending, routes>>

\* executeTurn ends: it records the answer, or a note of a failure or, after
\* stopTurn, of the stop.  Nothing else tells the three apart.
WebEnds(w) ==
    /\ At(w, "asking")
    /\ Becomes(w, Blank)
    /\ UNCHANGED <<queues, activeReq, pending, routes>>

-----------------------------------------------------------------------------
(***************************************************************************)
(* Heartbeat: a tick takes up a wake-up that is due.                       *)
(***************************************************************************)
TickClears ==
    /\ pending # NoAgent
    /\ pending # active \/ pending \notin Beating
    /\ pending' = NoAgent
    /\ UNCHANGED <<turn, queues, activeReq, routes>>

\* runHeartbeatTurn: a live wake-up takes the table entry of the bot's lane.
Wake(w) ==
    /\ Free(w)
    /\ pending = active /\ active \in Beating
    /\ ~BusyOnGateway(active) /\ ~HeartbeatRunning(active)
    /\ Becomes(w, [Blank EXCEPT !.pc = "asking", !.agent = active, !.open = TRUE,
                                !.lane = IF live THEN lastLane ELSE NoKey])
    /\ activeReq' = IF live THEN [activeReq EXCEPT ![lastLane] = w] ELSE activeReq
    /\ pending' = NoAgent
    /\ UNCHANGED <<queues, routes>>

WakeReturns(w, at) ==
    /\ At(w, "asking")
    /\ Goes(w, at)
    /\ UNCHANGED <<queues, activeReq, pending, routes>>

\* The live status is closed and the request is out of the table.
WakeStopped(w) ==
    /\ turn[w].pc \in {"closing", "failing"} /\ turn[w].stopped
    /\ Becomes(w, Over(turn[w]))
    /\ activeReq' = Unregistered(w)
    /\ UNCHANGED <<queues, pending, routes>>

WakeRecords(w, at, outcome) ==
    /\ At(w, at) /\ ~turn[w].stopped
    /\ Becomes(w, [turn[w] EXCEPT !.pc = "replying", !.open = FALSE,
                                  !.answered = (outcome = "completed")])
    /\ activeReq' = Unregistered(w)
    /\ pending' = PendingAfter(turn[w].agent, outcome)
    /\ UNCHANGED <<queues, routes>>

\* The digest is sent.
WakeEnds(w) ==
    /\ At(w, "replying")
    /\ Becomes(w, Over(turn[w]))
    /\ UNCHANGED <<queues, activeReq, pending, routes>>

WakeStep(w) ==
    \/ Wake(w)
    \/ WakeReturns(w, "closing") \/ WakeReturns(w, "failing")
    \/ WakeStopped(w)
    \/ WakeRecords(w, "closing", "completed")
    \/ \E outcome \in {"timed_out", "failed"} : WakeRecords(w, "failing", outcome)
    \/ WakeEnds(w)

-----------------------------------------------------------------------------
Next ==
    \/ \E t \in Asks, l \in Lanes, kind \in {"lane", "command"} : Receive(t, l, kind)
    \/ \E t \in Asks : AskStep(t)
    \/ \E l \in Lanes : StopCommand(l)
    \/ \E t \in Asks \cup Wakes : NoteStop(t)
    \/ \E w \in Webs : \/ \E a \in Agents : WebSend(w, a)
                       \/ WebEnds(w)
    \/ TickClears
    \/ \E w \in Wakes : WakeStep(w)

Spec == Init /\ [][Next]_vars

\* A Telegram turn goes on: a provider answers, fails or times out, and a call
\* of the Telegram API returns or fails.
Fairness == \A t \in Asks : WF_vars(AskStep(t))

FairSpec == Spec /\ Fairness

-----------------------------------------------------------------------------
(***************************************************************************)
(* Properties.                                                             *)
(***************************************************************************)
\* Messages of a lane are taken up, and Telegram turns of an agent are run,
\* in the order they came, although no queue is kept (runQueued).
TurnsInOrder ==
    \A t \in Asks :
        /\ turn[t].pc \in Begun \cup {"telling"} => laneQ.ahead[t] = {}
        /\ turn[t].pc \in Working => agentQ.ahead[t] = {}

\* An agent runs one Telegram turn at a time, whatever lane it came by and
\* whichever agent the routing chose while it waited (runQueuedAgent).
OneTelegramTurn ==
    \A t, u \in Asks :
        t # u /\ turn[t].pc \in Working /\ turn[u].pc \in Working
        => turn[t].agent # turn[u].agent

\* An agent has one provider call at a time, by Telegram, web chat or the
\* heartbeat (docs/spec.md 8.1).
OneTurnPerAgent ==
    \A t, u \in Turns :
        t # u /\ At(t, "asking") /\ At(u, "asking") => turn[t].agent # turn[u].agent

\* From the moment a message is taken up to its turn's end, /stop in its lane
\* finds it ("so /stop can cancel a queued turn").
StopFindsTurn ==
    \A t \in Asks : turn[t].pc \in Begun => activeReq[turn[t].lane] = t

\* So it is as long as no heartbeat shows its progress in a lane.
StopFindsTurnWhenQuiet == ~live => StopFindsTurn

\* When a turn is over and no stop is being handled, its question has an
\* answer or a note in the session, whatever failed and whoever stopped it.
QuestionsAreClosed == \A t \in Turns : Free(t) => ~turn[t].open

\* Once stopped, a turn that waits, stages, asks or closes adds no answer to
\* the session (docs/telegram_pause_spec.md, "stale requests").
StoppedStaysSilent ==
    [][\A t \in Asks \cup Wakes :
          turn[t].stopped /\ turn'[t].answered => turn[t].answered]_vars

\* The busy checks see Telegram turns from the moment they are taken up: no web
\* chat turn and no quiet wake-up begins beside one.
IdleAgentsOnly ==
    [][~live => \A w \in Webs \cup Wakes, t \in Asks :
          At(w, "idle") /\ turn'[w].pc # "idle" /\ turn[t].pc \in Begun
          => turn[t].agent # turn'[w].agent]_vars

\* Every message from Telegram is dealt with, however often others are stopped
\* and whatever fails.
EveryAskEnds ==
    \A t \in Asks : turn[t].pc \in {"lane", "command"} ~> At(t, "idle")
=============================================================================
