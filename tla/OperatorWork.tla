---------------------------- MODULE OperatorWork ----------------------------
(***************************************************************************)
(* What people do at the chats, the web pages and the command line, beside *)
(* running workflows: keeping their definitions, talking to bots and       *)
(* rebinding them, chatting with an agent, minding the background service, *)
(* working in SSH sessions; and what becomes of an agent's answer.  These  *)
(* parts share no state, so one of them moves in a behaviour.              *)
(***************************************************************************)
EXTENDS MCWorkflowLibrary

CONSTANTS
    Bots, Projects, BotAgents, BotFiles, FirstBot,                       \* of the bots
    MaxUpdates, MaxChanges, MaxPosts,
    MaxSessions, MaxTurns, MaxDay, Uploads,                              \* of the chat
    Ports, MaxRevision,                                                  \* of the service
    SshSessions, Profiles, SshAgents, Commands, MaxChunks, MaxInputs,    \* of SSH
    MaxLines, Window, PieceSize                                          \* of answers

\* There is something to be bound and to connect to, a folder and a day to write in.
ASSUME WorkAssumption ==
    /\ FirstBot \in Bots /\ Projects # {} /\ BotAgents # {}
    /\ {MaxSessions, MaxDay} \subseteq Nat \ {0} /\ MaxTurns \in Nat
    /\ SshSessions # {} /\ Profiles # {} /\ SshAgents # {} /\ {MaxChunks, MaxInputs} \subseteq Nat
    /\ {MaxLines, Window} \subseteq Nat /\ PieceSize \in Nat \ {0}

VARIABLES
    active, agents, chosen, bots, lane, botTurn, buttons, reset, staged, live, post, left,
    day, store, turn, registry, telegram,
    platform, saved, unit, loaded, enabled, service, foreground,
    published, install, command, outcome,
    disk, worker, transcript, inbox, asked, shown, upTo, unlucky,
    channel, answer, place, log, told, returned, tried, sent, reloaded,
    focus   \* the part that moves

talk == <<active, agents, chosen, bots, lane, botTurn, buttons, reset, staged, live, post, left>>
chat == <<day, store, turn, registry, telegram>>
gateway_service == <<platform, saved, unit, loaded, enabled, service, foreground,
                     published, install, command, outcome>>
ssh == <<disk, worker, transcript, inbox, asked, shown, upTo, unlucky>>
reply == <<channel, answer, place, log, told, returned, tried, sent, reloaded>>

Talk == INSTANCE BotChats WITH Agents <- BotAgents, Files <- BotFiles, turn <- botTurn, inbox <- staged
Chat == INSTANCE WebChat
Service == INSTANCE GatewayService
Ssh == INSTANCE ManualSsh WITH Sessions <- SshSessions
Reply == INSTANCE AgentReply

Parts == {"library", "talk", "chat", "service", "ssh", "reply"}

\* All bindings, platforms, kinds of install and answers only where it is their part that moves.
WorkInit ==
    /\ focus \in Parts
    /\ Init /\ Talk!Init /\ Chat!Init /\ Service!Init /\ Ssh!Init /\ Reply!Init
    /\ focus # "talk" =>
         (\A b \in Bots : bots[b].scope = "pinned") /\ bots[FirstBot].project = active
    /\ focus # "service" => platform = "linux" /\ install.kind = "clone"
    /\ focus # "reply" => channel = "web" /\ answer = <<[is |-> "prose", object |-> "none"]>>

LibraryMoves == focus = "library" /\ Next
TalkMoves == focus = "talk" /\ Talk!Next
ChatMoves == focus = "chat" /\ Chat!Next
ServiceMoves == focus = "service" /\ Service!Next
SshMoves == focus = "ssh" /\ Ssh!Next
ReplyMoves == focus = "reply" /\ Reply!Next

WorkNext ==
    /\ UNCHANGED focus
    /\ \/ LibraryMoves /\ UNCHANGED <<talk, chat, gateway_service, ssh, reply>>
       \/ TalkMoves /\ UNCHANGED <<vars, chat, gateway_service, ssh, reply>>
       \/ ChatMoves /\ UNCHANGED <<vars, talk, gateway_service, ssh, reply>>
       \/ ServiceMoves /\ UNCHANGED <<vars, talk, chat, ssh, reply>>
       \/ SshMoves /\ UNCHANGED <<vars, talk, chat, gateway_service, reply>>
       \/ ReplyMoves /\ UNCHANGED <<vars, talk, chat, gateway_service, ssh>>

WorkSpec ==
    WorkInit /\ [][WorkNext]_<<vars, talk, chat, gateway_service, ssh, reply, focus>>
-----------------------------------------------------------------------------
\* BotChats, NeverCrossDelivered and PinnedChatStaysPut: what is posted, and the
\* files of a message, go to the chat and the folder of their project; what comes
\* from a pinned bot changes no other chat.
NeverCrossDelivered == Talk!NeverCrossDelivered
PinnedChatStaysPut == Talk!PinnedChatStaysPut

\* WebChat, AnswerInPlace and SummaryIsWhole: an answer follows its question
\* in the session where that was asked; the summary of a day leaves nothing out.
AnswerInPlace == Chat!AnswerInPlace
SummaryIsWhole == Chat!SummaryIsWhole

\* GatewayService, RestartTakesEffect: a restarted service runs with what is
\* saved and built.
RestartTakesEffect == Service!RestartTakesEffect

\* ManualSsh, ActiveHasWorker: a session that holds its profile has a worker.
ActiveHasWorker == Ssh!ActiveHasWorker

\* AgentReply, NothingLost: prose and files of an answer reach the chat and the page.
NothingLost == Reply!NothingLost
=============================================================================
