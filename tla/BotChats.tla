------------------------------ MODULE BotChats -------------------------------
(***************************************************************************)
(* The chats of the Telegram bots (src/gateway.ts): which project and      *)
(* agent a message goes to, the commands and their buttons, the files that *)
(* come with a message, and what is posted unasked: the status of a        *)
(* workflow run or a heartbeat, and its digest.  A message waits in its    *)
(* lane while the turn before it runs; commands in a terminal rebind bots  *)
(* meanwhile.  A bot has one chat and one lane here.                       *)
(***************************************************************************)
EXTENDS Naturals, Sequences, FiniteSets

CONSTANTS
    Bots, Projects, Agents, Files,
    FirstBot,     \* the first of the bots by id
    MaxUpdates,   \* bound: what users send
    MaxChanges,   \* bound: changes from the terminal
    MaxPosts      \* bound: posts unasked

Follows == "follows"   \* agentId null: the project's active agent
NoFile == "no file"
NoProject == "no project"
Removed == [scope |-> "removed"]
Quiet == [about |-> NoProject]
NoTurn == [stage |-> "none"]
NoPost == [about |-> NoProject]

\* TelegramBotProfile, as far as routing looks at it.
Profile == [scope: {"floating", "pinned"}, project: Projects, agent: Agents \cup {Follows},
            enabled: BOOLEAN, paired: BOOLEAN, notify: BOOLEAN]

VARIABLES
    active,    \* activeProjectId
    agents,    \* the agents of each project
    chosen,    \* activeAgentId of each project
    bots,      \* the profile of each bot, or Removed
    lane,      \* what waits in each bot's lane, with the profile it arrived under
    turn,      \* the turn of the lane's first message
    buttons,   \* the buttons shown in each chat; they stay there
    reset,     \* the agents whose session a chat has reset
    inbox,     \* the files downloaded to each project
    live,      \* the status session of a run or a heartbeat
    post,      \* what was posted last
    left       \* how many updates, changes and posts are still to come

vars == <<active, agents, chosen, bots, lane, turn, buttons, reset, inbox, live, post, left>>

config == <<active, agents, chosen, bots>>
chat == <<lane, turn, buttons, reset, inbox>>

-----------------------------------------------------------------------------
(* Routing.                                                                 *)

Project(profile) == IF profile.scope = "floating" THEN active ELSE profile.project

\* The project that a bot's chat is about.
Home(b) == IF bots[b] = Removed THEN NoProject ELSE Project(bots[b])

\* resolveRoutingTarget.  A pinned agent that is gone was dropped when the state was read.
Target(profile) ==
    LET p == Project(profile)
        pinned == profile.scope = "pinned" /\ profile.agent \in agents[p]
    IN  [project |-> p, agent |-> IF pinned THEN profile.agent ELSE chosen[p]]

InUse == {b \in Bots : bots[b] # Removed /\ bots[b].enabled}

Bound(p) == {b \in InUse : bots[b].scope = "pinned" /\ bots[b].project = p}
Floating == {b \in InUse : bots[b].scope = "floating"}
First(set) == IF FirstBot \in set THEN FirstBot ELSE CHOOSE b \in set : TRUE

\* Mutant of Owners: a floating bot serves every project that has no bot.
OwnersOfAny(p) == IF Bound(p) # {} THEN {First(Bound(p))} ELSE IF Floating # {} THEN {First(Floating)} ELSE {}

\* resolveTelegramBotForProject.
Owners(p) ==
    IF Bound(p) # {} THEN {First(Bound(p))}
    ELSE IF p = active /\ Floating # {} THEN {First(Floating)} ELSE {}

-----------------------------------------------------------------------------
(* The gateway.                                                             *)

\* What a user sends: words, with or without a file, or a command.
Message == [is: {"text"}, file: Files \cup {NoFile}]
             \cup [is: {"/projects", "/agents", "/session_reset", "/workflow_notifications"}]
Tap == [is: {"project"}, value: Projects] \cup [is: {"agent"}, value: Agents]

\* A chat that is not the bot's, or not paired, is turned away.
Authorized(b) == b \in InUse /\ bots[b].paired

Arrives(b, update) ==
    /\ Authorized(b) /\ left.updates > 0
    /\ left' = [left EXCEPT !.updates = @ - 1]
    /\ lane' = [lane EXCEPT ![b] = Append(@, [update |-> update, profile |-> bots[b]])]
    /\ UNCHANGED <<config, turn, buttons, reset, inbox, live, post>>

UserSends(b) == \E m \in Message : Arrives(b, m)
UserTaps(b) == \E t \in buttons[b] : Arrives(b, t)

Idle(b) == lane[b] # <<>> /\ turn[b] = NoTurn
Update(b) == Head(lane[b]).update

\* Mutant of ProfileOf: the profile the message arrived under.
ProfileAtArrival(b) == Head(lane[b]).profile

\* The profile is read anew; a bot that was removed goes by its old one.
ProfileOf(b) == IF bots[b] # Removed THEN bots[b] ELSE Head(lane[b]).profile

With(b, field, value) == IF bots[b] = Removed THEN bots ELSE [bots EXCEPT ![b][field] = value]

Handled(b) == lane' = [lane EXCEPT ![b] = Tail(@)] /\ UNCHANGED <<turn, inbox, live, post, left>>

\* renderProjectPicker: a pinned bot only tells its binding.
ShowProjects(b) ==
    /\ Idle(b) /\ Update(b).is = "/projects" /\ Handled(b)
    /\ buttons' = IF ProfileOf(b).scope = "pinned" THEN buttons
                  ELSE [buttons EXCEPT ![b] = @ \cup {[is |-> "project", value |-> p] : p \in Projects}]
    /\ UNCHANGED <<config, reset>>

\* renderAgentPicker: the buttons name agents, not their project.
ShowAgents(b) ==
    /\ Idle(b) /\ Update(b).is = "/agents" /\ Handled(b)
    /\ buttons' = [buttons EXCEPT ![b] = @ \cup
         {[is |-> "agent", value |-> a] : a \in agents[Target(ProfileOf(b)).project]}]
    /\ UNCHANGED <<config, reset>>

SelectProject(b) ==
    /\ Idle(b) /\ Update(b).is = "project" /\ Handled(b)
    /\ active' = IF ProfileOf(b).scope = "pinned" THEN active ELSE Update(b).value
    /\ UNCHANGED <<agents, chosen, bots, buttons, reset>>

\* A pinned bot changes its own agent, a floating one the active project's.
SelectAgent(b) ==
    LET p == Project(ProfileOf(b))
        pinned == ProfileOf(b).scope = "pinned"
        known == Update(b).value \in agents[p]
    IN  /\ Idle(b) /\ Update(b).is = "agent" /\ Handled(b)
        /\ bots' = IF known /\ pinned THEN With(b, "agent", Update(b).value) ELSE bots
        /\ chosen' = IF known /\ ~pinned THEN [chosen EXCEPT ![p] = Update(b).value] ELSE chosen
        /\ UNCHANGED <<active, agents, buttons, reset>>

ResetSession(b) ==
    /\ Idle(b) /\ Update(b).is = "/session_reset" /\ Handled(b)
    /\ reset' = reset \cup {Target(ProfileOf(b))}
    /\ UNCHANGED <<config, buttons>>

SetNotifications(b) ==
    /\ Idle(b) /\ Update(b).is = "/workflow_notifications" /\ Handled(b)
    /\ \E on \in BOOLEAN : bots' = With(b, "notify", on)
    /\ UNCHANGED <<active, agents, chosen, buttons, reset>>

\* The turn is for the target of this moment, however long it waits for its agent.
BeginTurn(b) ==
    /\ Idle(b) /\ Update(b).is = "text"
    /\ turn' = [turn EXCEPT ![b] = [stage |-> "queued", target |-> Target(ProfileOf(b)), told |-> {}]]
    /\ UNCHANGED <<config, lane, buttons, reset, inbox, live, post, left>>

AgentFree(b) ==
    {c \in Bots \ {b} : turn[c].stage = "asking" /\ turn[c].target = turn[b].target} = {}

\* resolveInboundFiles: a file that cannot be had is told of by its name alone;
\* one that is in the inbox already is not downloaded again.
StageFiles(b) ==
    LET p == turn[b].target.project
        file == Update(b).file
    IN  /\ turn[b].stage = "queued" /\ AgentFree(b)
        /\ \/ turn' = [turn EXCEPT ![b].stage = "asking"] /\ UNCHANGED inbox
           \/ /\ file # NoFile
              /\ inbox' = [inbox EXCEPT ![p] = @ \cup {file}]
              /\ turn' = [turn EXCEPT ![b].stage = "asking", ![b].told = {[project |-> p, file |-> file]}]
        /\ UNCHANGED <<config, lane, buttons, reset, live, post, left>>

EndTurn(b) ==
    /\ turn[b].stage = "asking"
    /\ turn' = [turn EXCEPT ![b] = NoTurn]
    /\ lane' = [lane EXCEPT ![b] = Tail(@)]
    /\ UNCHANGED <<config, buttons, reset, inbox, live, post, left>>

-----------------------------------------------------------------------------
(* Posts that nobody asked for.                                             *)

MayPost(b, why) == bots[b].paired /\ (why = "run" => bots[b].notify)

\* The notifier of a run, or the live status of a heartbeat: it keeps the bot
\* it is opened with.
OpenLive(p, why) ==
    /\ live = Quiet /\ left.posts > 0
    /\ \E b \in Owners(p) :
         MayPost(b, why) /\ live' = [about |-> p, bot |-> b, home |-> Home(b)]
    /\ UNCHANGED <<config, chat, post, left>>

Posted(p, b, since) ==
    /\ left.posts > 0 /\ left' = [left EXCEPT !.posts = @ - 1]
    /\ post' = [about |-> p, at |-> Home(b), since |-> since]

\* An event of the run, a milestone of the turn.
PushLive ==
    /\ live # Quiet /\ Posted(live.about, live.bot, live.home)
    /\ UNCHANGED <<config, chat, live>>

CloseLive == live # Quiet /\ live' = Quiet /\ UNCHANGED <<config, chat, post, left>>

\* maybeSendHeartbeatDigest.
SendDigest(p) ==
    /\ \E b \in Owners(p) : MayPost(b, "digest") /\ Posted(p, b, Home(b))
    /\ UNCHANGED <<config, chat, live>>

-----------------------------------------------------------------------------
(* The terminal.                                                            *)

Changes == left.changes > 0 /\ left' = [left EXCEPT !.changes = @ - 1] /\ UNCHANGED <<chat, live, post>>

\* bot bind, bot pin: for a project that no other bot is bound to.
BindBot(b, p) ==
    /\ Changes /\ bots[b] # Removed /\ Bound(p) \subseteq {b}
    /\ \E a \in {Follows, bots[b].agent} :
         /\ a = Follows \/ a \in agents[p]
         /\ bots' = [bots EXCEPT ![b] = [@ EXCEPT !.scope = "pinned", !.project = p, !.agent = a, !.enabled = TRUE]]
    /\ UNCHANGED <<active, agents, chosen>>

UnbindBot(b) ==
    /\ Changes /\ bots[b] # Removed
    /\ bots' = [bots EXCEPT ![b].scope = "floating", ![b].agent = Follows]
    /\ UNCHANGED <<active, agents, chosen>>

DisableBot(b) == Changes /\ bots' = With(b, "enabled", FALSE) /\ UNCHANGED <<active, agents, chosen>>

\* bot pair start; until it is completed.
PairAgain(b) == Changes /\ bots' = With(b, "paired", FALSE) /\ UNCHANGED <<active, agents, chosen>>

RemoveBot(b) == Changes /\ bots' = [bots EXCEPT ![b] = Removed] /\ UNCHANGED <<active, agents, chosen>>

UseProject(p) == Changes /\ active' = p /\ UNCHANGED <<agents, chosen, bots>>

\* An agent taken out of the file by hand: whoever reads it next drops what named it.
AgentGone(p, a) ==
    /\ Changes /\ a \in agents[p] /\ agents[p] # {a}
    /\ agents' = [agents EXCEPT ![p] = @ \ {a}]
    /\ chosen' = IF chosen[p] = a THEN [chosen EXCEPT ![p] = CHOOSE c \in agents[p] \ {a} : TRUE] ELSE chosen
    /\ bots' = [b \in Bots |->
         IF bots[b] # Removed /\ bots[b].scope = "pinned" /\ bots[b].project = p /\ bots[b].agent = a
         THEN [bots[b] EXCEPT !.agent = Follows] ELSE bots[b]]
    /\ UNCHANGED active

-----------------------------------------------------------------------------
\* The first bot may be one from before bots were bound to projects; no project
\* has two.
Init ==
    /\ active = CHOOSE p \in Projects : TRUE
    /\ agents = [p \in Projects |-> Agents]
    /\ chosen \in [Projects -> {CHOOSE a \in Agents : TRUE}]
    /\ bots \in [Bots -> [scope: {"floating", "pinned"}, project: Projects, agent: {Follows},
                          enabled: {TRUE}, paired: {TRUE}, notify: {TRUE}]]
    /\ Floating \subseteq {FirstBot} /\ \A b \in Floating : bots[b].project = active
    /\ \A p \in Projects : Cardinality(Bound(p)) <= 1
    /\ lane = [b \in Bots |-> <<>>] /\ turn = [b \in Bots |-> NoTurn]
    /\ buttons = [b \in Bots |-> {}] /\ reset = {} /\ inbox = [p \in Projects |-> {}]
    /\ live = Quiet /\ post = NoPost
    /\ left = [updates |-> MaxUpdates, changes |-> MaxChanges, posts |-> MaxPosts]

TakesUp(b) ==
    \/ ShowProjects(b) \/ ShowAgents(b) \/ SelectProject(b) \/ SelectAgent(b)
    \/ ResetSession(b) \/ SetNotifications(b) \/ BeginTurn(b)

Chats(b) == UserSends(b) \/ UserTaps(b) \/ TakesUp(b) \/ StageFiles(b) \/ EndTurn(b)

Posts ==
    \/ \E p \in Projects : SendDigest(p) \/ \E why \in {"run", "heartbeat"} : OpenLive(p, why)
    \/ PushLive \/ CloseLive

Terminal ==
    \/ \E b \in Bots : UnbindBot(b) \/ DisableBot(b) \/ PairAgain(b) \/ RemoveBot(b)
    \/ \E b \in Bots, p \in Projects : BindBot(b, p)
    \/ \E p \in Projects : UseProject(p) \/ \E a \in Agents : AgentGone(p, a)

Next == (\E b \in Bots : Chats(b)) \/ Posts \/ Terminal

Spec == Init /\ [][Next]_vars
-----------------------------------------------------------------------------
\* What the chat of a pinned bot sends, taken up late or tapped on an old
\* button, changes no other chat: neither the active project nor the active
\* agent of any project nor another bot; and it is answered for the project the
\* bot is bound to by then (docs/spec.md 470, 504; src/gateway.ts 767).
Pinned(b) == bots[b] # Removed /\ bots[b].scope = "pinned"

PinnedChatStaysPut ==
    [][\A b \in Bots : TakesUp(b) /\ Pinned(b) =>
         /\ UNCHANGED <<active, chosen>>
         /\ \A c \in Bots \ {b} : bots'[c] = bots[c]
         /\ turn'[b] = NoTurn \/ turn'[b].target.project = bots[b].project
         /\ \A t \in reset' \ reset : t.project = bots[b].project]_vars

\* "Two bots in two projects never cross-deliver replies, live status, files,
\* heartbeat digests, or workflow notifications" (docs/spec.md 1195): a post
\* appears in the chat of its project, unless that chat was given another
\* project since the status was opened; a file lies where the agent looks.
NeverCrossDelivered ==
    /\ post # NoPost /\ post.at = post.since => post.at = post.about
    /\ \A b \in Bots : turn[b] # NoTurn =>
         \A t \in turn[b].told : t.project = turn[b].target.project /\ t.file \in inbox[t.project]

\* "a project's run updates are never delivered into another project's chat"
\* (src/telegram-workflow-notifier.ts 30): also after the bot was rebound.
UpdatesStayHome == post # NoPost => post.at = post.about
=============================================================================
