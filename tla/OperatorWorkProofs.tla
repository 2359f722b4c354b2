------------------------- MODULE OperatorWorkProofs --------------------------
(***************************************************************************)
(* Theorems about the parts of OperatorWork: bots and their chats, the web *)
(* chat, the background service and SSH sessions, for any number of bots,  *)
(* projects, sessions, turns, days and commands.  Each part has an         *)
(* inductive invariant of its own, which the other parts leave alone.      *)
(***************************************************************************)
EXTENDS OperatorWork, SequenceTheorems, FiniteSetTheorems, WellFoundedInduction, TLAPS

-----------------------------------------------------------------------------
(***************************************************************************)
(* BotChats: what is posted, and the files of a message, stay with their   *)
(* project.                                                                *)
(***************************************************************************)
\* An update, and a turn of a bot, as they can be.
TalkMessage == Talk!Message \cup Talk!Tap

TalkTurn == {Talk!NoTurn} \cup
    [stage: {"queued", "asking"}, target: [project: Projects, agent: BotAgents \cup {Talk!Follows}],
     told: SUBSET [project: Projects, file: BotFiles]]

\* The variables of BotChats are well typed.
TalkTypes ==
    /\ active \in Projects /\ agents \in [Projects -> SUBSET BotAgents] /\ chosen \in [Projects -> BotAgents]
    /\ bots \in [Bots -> Talk!Profile \cup {Talk!Removed}]
    /\ lane \in [Bots -> Seq([update: TalkMessage, profile: Talk!Profile])]
    /\ botTurn \in [Bots -> TalkTurn] /\ buttons \in [Bots -> SUBSET Talk!Tap]
    /\ staged \in [Projects -> SUBSET BotFiles]

\* A turn is that of the first message of its lane, which is text.
TalkAtWork ==
    \A b \in Bots : botTurn[b] # Talk!NoTurn => lane[b] # <<>> /\ Head(lane[b]).update.is = "text"

\* A status was opened in the chat of its project.
TalkOpened ==
    /\ live # Talk!Quiet => live.home = live.about
    /\ post # Talk!NoPost => post.since = post.about

\* What a turn tells its agent of lies in the project's inbox.
TalkTold ==
    \A b \in Bots : botTurn[b] # Talk!NoTurn =>
        \A t \in botTurn[b].told : t.project = botTurn[b].target.project /\ t.file \in staged[t.project]

\* The inductive invariant for NeverCrossDelivered.
TalkInv == TalkTypes /\ TalkAtWork /\ TalkOpened /\ TalkTold

\* There is a bot, a project and an agent.
LEMMA TalkSets == FirstBot \in Bots /\ Projects # {} /\ BotAgents # {}
  BY WorkAssumption

\* A removed bot has no profile.
LEMMA TalkProfiles == Talk!Removed \notin Talk!Profile
  BY DEF Talk!Removed, Talk!Profile

\* Text may name a file; a tap carries the name of a project or an agent.
LEMMA TalkUpdates ==
  ASSUME NEW m \in TalkMessage
  PROVE  /\ m.is = "text" => m.file \in BotFiles \cup {Talk!NoFile}
         /\ m.is = "project" => m.value \in Projects
         /\ m.is = "agent" => m.value \in BotAgents
  BY DEF TalkMessage, Talk!Message, Talk!Tap

\* The invariant holds at first.
LEMMA TalkInit == WorkInit => TalkInv
<1> SUFFICES ASSUME Talk!Init PROVE TalkInv
  BY DEF WorkInit
<1> USE TalkSets
<1>1. (CHOOSE p \in Projects : TRUE) \in Projects /\ (CHOOSE a \in BotAgents : TRUE) \in BotAgents
  OBVIOUS
<1>2. bots \in [Bots -> Talk!Profile \cup {Talk!Removed}]
  BY DEF Talk!Init, Talk!Profile
<1>3. TalkTypes
  BY <1>1, <1>2 DEF TalkTypes, Talk!Init, TalkTurn
<1>4. TalkAtWork /\ TalkTold /\ TalkOpened
  BY DEF TalkAtWork, TalkTold, TalkOpened, Talk!Init
<1> QED BY <1>3, <1>4 DEF TalkInv

\* Where a profile leads.
LEMMA TalkTarget ==
  ASSUME TalkTypes, NEW profile \in Talk!Profile
  PROVE  /\ Talk!Project(profile) \in Projects
         /\ Talk!Target(profile) \in [project: Projects, agent: BotAgents \cup {Talk!Follows}]
         /\ Talk!Target(profile).project = Talk!Project(profile)
<1>1. Talk!Project(profile) \in Projects
  BY DEF TalkTypes, Talk!Project, Talk!Profile
<1>2. chosen[Talk!Project(profile)] \in BotAgents /\ profile.agent \in BotAgents \cup {Talk!Follows}
  BY <1>1 DEF TalkTypes, Talk!Profile
<1> QED BY <1>1, <1>2 DEF Talk!Target

\* The first update of a lane, and the profile it is taken up under.
LEMMA TalkHead ==
  ASSUME TalkTypes, NEW b \in Bots, lane[b] # <<>>
  PROVE  /\ Talk!Update(b) \in TalkMessage /\ Talk!ProfileOf(b) \in Talk!Profile
         /\ Tail(lane[b]) \in Seq([update: TalkMessage, profile: Talk!Profile])
<1>1. lane[b] \in Seq([update: TalkMessage, profile: Talk!Profile])
  BY DEF TalkTypes
<1>2. /\ Head(lane[b]) \in [update: TalkMessage, profile: Talk!Profile]
      /\ Tail(lane[b]) \in Seq([update: TalkMessage, profile: Talk!Profile])
  BY <1>1, HeadTailProperties
<1>3. bots[b] \in Talk!Profile \cup {Talk!Removed}
  BY DEF TalkTypes
<1> QED BY <1>2, <1>3 DEF Talk!Update, Talk!ProfileOf

\* A bot that answers for a project has its chat there.
LEMMA TalkOwnerHome ==
  ASSUME TalkTypes, NEW p \in Projects, NEW b \in Talk!Owners(p)
  PROVE  b \in Bots /\ Talk!Home(b) = p
<1> USE TalkSets, TalkProfiles
<1>1. \A set \in SUBSET Bots : set # {} => Talk!First(set) \in set
  BY DEF Talk!First
<1>2. CASE Talk!Bound(p) # {}
  <2>1. Talk!Bound(p) \in SUBSET Bots
    BY DEF Talk!Bound, Talk!InUse
  <2>2. b \in Talk!Bound(p)
    BY <1>1, <1>2, <2>1 DEF Talk!Owners
  <2>3. b \in Bots /\ bots[b] # Talk!Removed /\ bots[b].scope = "pinned" /\ bots[b].project = p
    BY <2>2 DEF Talk!Bound, Talk!InUse
  <2>4. QED BY <2>3 DEF Talk!Home, Talk!Project
<1>3. CASE Talk!Bound(p) = {}
  <2>1. Talk!Floating \in SUBSET Bots
    BY DEF Talk!Floating, Talk!InUse
  <2>2. p = active /\ b \in Talk!Floating
    BY <1>1, <1>3, <2>1 DEF Talk!Owners
  <2>3. b \in Bots /\ bots[b] # Talk!Removed /\ bots[b].scope = "floating"
    BY <2>2 DEF Talk!Floating, Talk!InUse
  <2>4. QED BY <2>2, <2>3 DEF Talk!Home, Talk!Project
<1> QED BY <1>2, <1>3

\* What changes neither turns nor inboxes nor what is posted.
LEMMA TalkKept ==
  ASSUME TalkInv, TalkTypes', UNCHANGED <<botTurn, staged, live, post>>,
         \A b \in Bots : botTurn[b] # Talk!NoTurn => lane'[b] # <<>> /\ Head(lane'[b]) = Head(lane[b])
  PROVE  TalkInv'
<1>1. TalkAtWork' /\ TalkTold'
  BY DEF TalkInv, TalkAtWork, TalkTold
<1>2. TalkOpened'
  BY DEF TalkInv, TalkOpened
<1> QED BY <1>1, <1>2 DEF TalkInv

\* An update that arrives goes to the end of its bot's lane.
LEMMA TalkArrives ==
  ASSUME TalkInv, NEW b \in Bots, NEW m \in TalkMessage, Talk!Arrives(b, m)
  PROVE  TalkInv'
<1> DEFINE item == [update |-> m, profile |-> bots[b]]
<1>1. bots[b] \in Talk!Profile
  BY DEF Talk!Arrives, Talk!Authorized, Talk!InUse, TalkInv, TalkTypes
<1>2. item \in [update: TalkMessage, profile: Talk!Profile]
  BY <1>1
<1>3. lane' = [lane EXCEPT ![b] = Append(@, item)] /\ UNCHANGED <<active, agents, chosen, bots, botTurn, buttons, staged, live, post>>
  BY DEF Talk!Arrives, Talk!config
<1> HIDE DEF item
<1>4. TalkTypes'
  <2>1. Append(lane[b], item) \in Seq([update: TalkMessage, profile: Talk!Profile])
    BY <1>2, AppendProperties DEF TalkInv, TalkTypes
  <2>2. QED BY <1>3, <2>1 DEF TalkInv, TalkTypes
<1>5. ASSUME NEW c \in Bots, botTurn[c] # Talk!NoTurn PROVE lane'[c] # <<>> /\ Head(lane'[c]) = Head(lane[c])
  <2>1. lane[c] # <<>> /\ lane[c] \in Seq([update: TalkMessage, profile: Talk!Profile])
    BY <1>5 DEF TalkInv, TalkAtWork, TalkTypes
  <2>2. Append(lane[c], item) # <<>> /\ Head(Append(lane[c], item)) = Head(lane[c])
    BY <1>2, <2>1
  <2>3. lane'[c] = lane[c] \/ lane'[c] = Append(lane[c], item)
    BY <1>3 DEF TalkInv, TalkTypes
  <2>4. QED BY <2>1, <2>2, <2>3
<1> QED BY <1>3, <1>4, <1>5, TalkKept

\* An update that was handled leaves its lane.
LEMMA TalkHandled ==
  ASSUME TalkInv, NEW b \in Bots, Talk!Idle(b), Talk!Handled(b),
         active' \in Projects, agents' = agents, chosen' \in [Projects -> BotAgents],
         bots' \in [Bots -> Talk!Profile \cup {Talk!Removed}], buttons' \in [Bots -> SUBSET Talk!Tap]
  PROVE  TalkInv'
<1>1. TalkTypes'
  <2>1. Tail(lane[b]) \in Seq([update: TalkMessage, profile: Talk!Profile])
    BY TalkHead DEF Talk!Idle, TalkInv
  <2>2. QED BY <2>1 DEF TalkInv, TalkTypes, Talk!Handled
<1>2. ASSUME NEW c \in Bots, botTurn[c] # Talk!NoTurn PROVE lane'[c] # <<>> /\ Head(lane'[c]) = Head(lane[c])
  BY <1>2 DEF TalkInv, TalkAtWork, TalkTypes, Talk!Handled, Talk!Idle
<1> QED BY <1>1, <1>2, TalkKept DEF Talk!Handled

\* A profile with one field changed.
LEMMA TalkWith ==
  ASSUME TalkTypes, NEW b \in Bots
  PROVE  /\ \A a \in BotAgents : Talk!With(b, "agent", a) \in [Bots -> Talk!Profile \cup {Talk!Removed}]
         /\ \A on \in BOOLEAN : /\ Talk!With(b, "notify", on) \in [Bots -> Talk!Profile \cup {Talk!Removed}]
                                /\ Talk!With(b, "enabled", on) \in [Bots -> Talk!Profile \cup {Talk!Removed}]
                                /\ Talk!With(b, "paired", on) \in [Bots -> Talk!Profile \cup {Talk!Removed}]
  BY DEF TalkTypes, Talk!With, Talk!Profile

\* Taking up the first update of a lane keeps the invariant, whatever the
\* update asks for.
LEMMA TalkTakesUp ==
  ASSUME TalkInv, NEW b \in Bots,
         Talk!ShowProjects(b) \/ Talk!ShowAgents(b) \/ Talk!SelectProject(b) \/ Talk!SelectAgent(b)
           \/ Talk!ResetSession(b) \/ Talk!SetNotifications(b)
  PROVE  TalkInv'
<1> DEFINE profile == Talk!ProfileOf(b)
<1>1. /\ Talk!Idle(b) /\ Talk!Handled(b) /\ lane[b] # <<>> /\ UNCHANGED agents
  BY DEF Talk!ShowProjects, Talk!ShowAgents, Talk!SelectProject, Talk!SelectAgent, Talk!ResetSession,
         Talk!SetNotifications, Talk!Idle, Talk!config
<1>2. Talk!Update(b) \in TalkMessage /\ profile \in Talk!Profile
  BY <1>1, TalkHead DEF TalkInv
<1>3. /\ active' \in Projects
  BY <1>2, TalkUpdates DEF TalkInv, TalkTypes, Talk!ShowProjects, Talk!ShowAgents, Talk!SelectProject, Talk!SelectAgent,
         Talk!ResetSession, Talk!SetNotifications, Talk!config
<1>4. /\ chosen' \in [Projects -> BotAgents]
  <2>1. CASE Talk!SelectAgent(b)
    BY <1>2, <2>1, TalkUpdates DEF Talk!SelectAgent, TalkInv, TalkTypes
  <2>2. CASE UNCHANGED chosen
    BY <2>2 DEF TalkInv, TalkTypes
  <2>3. QED BY <2>1, <2>2 DEF Talk!ShowProjects, Talk!ShowAgents, Talk!SelectProject,
         Talk!ResetSession, Talk!SetNotifications, Talk!config
<1>5. bots' \in [Bots -> Talk!Profile \cup {Talk!Removed}]
  <2>1. CASE Talk!SelectAgent(b)
    <3>1. Talk!Update(b).value \in BotAgents
      BY <1>2, <2>1, TalkUpdates DEF Talk!SelectAgent
    <3>2. bots' = bots \/ bots' = Talk!With(b, "agent", Talk!Update(b).value)
      BY <2>1 DEF Talk!SelectAgent
    <3>3. Talk!With(b, "agent", Talk!Update(b).value) \in [Bots -> Talk!Profile \cup {Talk!Removed}]
      BY <3>1, TalkWith DEF TalkInv
    <3>4. bots \in [Bots -> Talk!Profile \cup {Talk!Removed}]
      BY DEF TalkInv, TalkTypes
    <3>5. QED BY <3>2, <3>3, <3>4
  <2>2. CASE Talk!SetNotifications(b)
    <3>1. PICK on \in BOOLEAN : bots' = Talk!With(b, "notify", on)
      BY <2>2 DEF Talk!SetNotifications
    <3>2. Talk!With(b, "notify", on) \in [Bots -> Talk!Profile \cup {Talk!Removed}]
      BY TalkWith, Zenon DEF TalkInv
    <3>3. QED BY <3>1, <3>2, Zenon
  <2>3. CASE UNCHANGED bots
    BY <2>3 DEF TalkInv, TalkTypes
  <2>4. QED BY <2>1, <2>2, <2>3 DEF Talk!ShowProjects, Talk!ShowAgents, Talk!SelectProject,
         Talk!ResetSession, Talk!config
<1>6. buttons' \in [Bots -> SUBSET Talk!Tap]
  <2>1. CASE Talk!ShowProjects(b)
    <3>1. {[is |-> "project", value |-> p] : p \in Projects} \in SUBSET Talk!Tap
      BY DEF Talk!Tap
    <3>2. QED BY <2>1, <3>1 DEF Talk!ShowProjects, TalkInv, TalkTypes
  <2>2. CASE Talk!ShowAgents(b)
    <3>0. agents[Talk!Target(profile).project] \in SUBSET BotAgents
      BY <1>2, TalkTarget DEF TalkInv, TalkTypes
    <3>1. {[is |-> "agent", value |-> a] : a \in agents[Talk!Target(profile).project]} \in SUBSET Talk!Tap
      BY <3>0 DEF Talk!Tap
    <3>2. QED BY <2>2, <3>1 DEF Talk!ShowAgents, TalkInv, TalkTypes
  <2>3. CASE UNCHANGED buttons
    BY <2>3 DEF TalkInv, TalkTypes
  <2>4. QED BY <2>1, <2>2, <2>3 DEF Talk!SelectProject, Talk!SelectAgent, Talk!ResetSession, Talk!SetNotifications
<1> QED BY <1>1, <1>3, <1>4, <1>5, <1>6, TalkHandled

-----------------------------------------------------------------------------
\* A turn begins in the project its message belongs to.
LEMMA TalkBegins ==
  ASSUME TalkInv, NEW b \in Bots, Talk!BeginTurn(b)
  PROVE  TalkInv'
<1> DEFINE begun == [stage |-> "queued", target |-> Talk!Target(Talk!ProfileOf(b)), told |-> {}]
<1>1. Talk!ProfileOf(b) \in Talk!Profile /\ lane[b] # <<>> /\ Head(lane[b]).update.is = "text"
  BY TalkHead DEF TalkInv, Talk!BeginTurn, Talk!Idle, Talk!Update
<1>2. begun \in TalkTurn
  BY <1>1, TalkTarget DEF TalkInv, TalkTurn
<1>3. /\ botTurn' = [botTurn EXCEPT ![b] = begun] /\ begun.told = {}
      /\ UNCHANGED <<active, agents, chosen, bots, lane, buttons, staged, live, post>>
  BY DEF Talk!BeginTurn, Talk!config
<1> HIDE DEF begun
<1>4. TalkTypes'
  BY <1>2, <1>3 DEF TalkInv, TalkTypes
<1>5. TalkAtWork'
  BY <1>1, <1>3 DEF TalkInv, TalkTypes, TalkAtWork
<1>6. TalkTold' /\ TalkOpened'
  BY <1>3 DEF TalkInv, TalkTypes, TalkTold, TalkOpened
<1> QED BY <1>4, <1>5, <1>6 DEF TalkInv

\* The files of a message go to the inbox of the project its turn is for.
LEMMA TalkStages ==
  ASSUME TalkInv, NEW b \in Bots, Talk!StageFiles(b)
  PROVE  TalkInv'
<1> DEFINE p == botTurn[b].target.project
           file_ == Talk!Update(b).file
           asking == [botTurn[b] EXCEPT !.stage = "asking"]
           having == [botTurn[b] EXCEPT !.stage = "asking", !.told = {[project |-> p, file |-> file_]}]
<1>1. botTurn[b] \in TalkTurn /\ botTurn[b].stage = "queued" /\ botTurn[b] # Talk!NoTurn
  BY DEF TalkInv, TalkTypes, Talk!StageFiles, Talk!NoTurn
<1>2. p \in Projects
  BY <1>1 DEF TalkTurn
<1>3. lane[b] # <<>> /\ Talk!Update(b) \in TalkMessage /\ Talk!Update(b).is = "text"
  BY <1>1, TalkHead DEF TalkInv, TalkAtWork, Talk!Update
<1>4. file_ \in BotFiles \cup {Talk!NoFile}
  BY <1>3, TalkUpdates
<1>5. UNCHANGED <<active, agents, chosen, bots, lane, buttons, live, post>>
  BY DEF Talk!StageFiles, Talk!config
<1>6. TalkOpened'
  BY <1>5 DEF TalkInv, TalkOpened
<1>7. CASE botTurn' = [botTurn EXCEPT ![b].stage = "asking"] /\ UNCHANGED staged
  <2>1. /\ asking \in TalkTurn /\ asking.told = botTurn[b].told /\ asking.target = botTurn[b].target
        /\ botTurn' = [botTurn EXCEPT ![b] = asking]
    BY <1>1, <1>7 DEF TalkTurn
  <2> HIDE DEF asking
  <2>2. TalkTypes'
    BY <1>5, <1>7, <2>1 DEF TalkInv, TalkTypes
  <2>3. TalkAtWork' /\ TalkTold'
    BY <1>1, <1>5, <1>7, <2>1 DEF TalkInv, TalkTypes, TalkAtWork, TalkTold
  <2> QED BY <1>6, <2>2, <2>3 DEF TalkInv
<1>8. CASE /\ file_ # Talk!NoFile
           /\ staged' = [staged EXCEPT ![p] = @ \cup {file_}]
           /\ botTurn' = [botTurn EXCEPT ![b].stage = "asking", ![b].told = {[project |-> p, file |-> file_]}]
  <2>1. file_ \in BotFiles
    BY <1>4, <1>8
  <2>2. /\ having \in TalkTurn /\ having.told = {[project |-> p, file |-> file_]} /\ having.target = botTurn[b].target
        /\ botTurn' = [botTurn EXCEPT ![b] = having]
    <3>1. {[project |-> p, file |-> file_]} \in SUBSET [project: Projects, file: BotFiles]
      BY <1>2, <2>1
    <3>2. botTurn[b] \in [stage: {"queued", "asking"}, target: [project: Projects, agent: BotAgents \cup {Talk!Follows}],
                          told: SUBSET [project: Projects, file: BotFiles]]
      BY <1>1 DEF TalkTurn
    <3>3. botTurn' = [botTurn EXCEPT ![b] = having]
      BY <1>8 DEF TalkInv, TalkTypes
    <3> DEFINE told_ == {[project |-> p, file |-> file_]}
    <3> HIDE DEF told_
    <3>4. having = [botTurn[b] EXCEPT !.stage = "asking", !.told = told_]
      BY DEF told_
    <3>5. told_ \in SUBSET [project: Projects, file: BotFiles]
      BY <3>1 DEF told_
    <3> HIDE DEF having
    <3>6. having \in TalkTurn /\ having.told = told_ /\ having.target = botTurn[b].target
      BY <3>2, <3>4, <3>5 DEF TalkTurn
    <3>7. QED BY <3>3, <3>6 DEF told_
  <2> HIDE DEF having, file_
  <2>3. TalkTypes'
    BY <1>2, <1>5, <1>8, <2>1, <2>2 DEF TalkInv, TalkTypes
  <2>4. TalkAtWork'
    BY <1>1, <1>5, <2>2 DEF TalkInv, TalkTypes, TalkAtWork
  <2>5. \A q \in Projects : staged[q] \subseteq staged'[q]
    BY <1>2, <1>8 DEF TalkInv, TalkTypes
  <2>6. file_ \in staged'[p]
    BY <1>2, <1>8 DEF TalkInv, TalkTypes
  <2>7. ASSUME NEW c \in Bots, botTurn'[c] # Talk!NoTurn, NEW t \in botTurn'[c].told
        PROVE t.project = botTurn'[c].target.project /\ t.file \in staged'[t.project]
    <3>1. CASE c = b
      BY <2>2, <2>6, <2>7, <3>1 DEF TalkInv, TalkTypes
    <3>2. CASE c # b
      <4>1. botTurn'[c] = botTurn[c] /\ botTurn[c] \in TalkTurn
        BY <2>2, <3>2 DEF TalkInv, TalkTypes
      <4>2. t.project = botTurn[c].target.project /\ t.file \in staged[t.project] /\ t.project \in Projects
        BY <2>7, <4>1 DEF TalkInv, TalkTold, TalkTurn
      <4>3. QED BY <2>5, <4>1, <4>2
    <3>3. QED BY <3>1, <3>2
  <2> QED BY <1>6, <2>3, <2>4, <2>7 DEF TalkInv, TalkTold
<1> QED BY <1>7, <1>8 DEF Talk!StageFiles

\* A turn ends and its message leaves the lane.
LEMMA TalkEnds ==
  ASSUME TalkInv, NEW b \in Bots, Talk!EndTurn(b)
  PROVE  TalkInv'
<1>1. lane[b] # <<>>
  BY DEF TalkInv, TalkAtWork, Talk!EndTurn, Talk!NoTurn
<1>2. Tail(lane[b]) \in Seq([update: TalkMessage, profile: Talk!Profile])
  BY <1>1, TalkHead DEF TalkInv
<1>3. TalkTypes'
  BY <1>2 DEF TalkInv, TalkTypes, TalkTurn, Talk!EndTurn, Talk!config
<1>4. TalkAtWork' /\ TalkTold' /\ TalkOpened'
  BY DEF TalkInv, TalkTypes, TalkAtWork, TalkTold, TalkOpened, Talk!EndTurn
<1> QED BY <1>3, <1>4 DEF TalkInv

\* What is posted goes to the chat of the project it is about.
LEMMA TalkPosts == TalkInv /\ Talk!Posts => TalkInv'
<1> SUFFICES ASSUME TalkInv, Talk!Posts PROVE TalkInv'
  OBVIOUS
<1>1. UNCHANGED <<active, agents, chosen, bots, lane, botTurn, buttons, staged>>
  BY DEF Talk!Posts, Talk!SendDigest, Talk!OpenLive, Talk!PushLive, Talk!CloseLive, Talk!config, Talk!chat
<1>2. TalkTypes' /\ TalkAtWork' /\ TalkTold'
  BY <1>1 DEF TalkInv, TalkTypes, TalkAtWork, TalkTold
<1>3. ASSUME NEW p \in Projects, NEW why \in {"run", "heartbeat"}, Talk!OpenLive(p, why) PROVE TalkOpened'
  <2>1. PICK b \in Talk!Owners(p) : live' = [about |-> p, bot |-> b, home |-> Talk!Home(b)]
    BY <1>3 DEF Talk!OpenLive
  <2>2. Talk!Home(b) = p
    BY TalkOwnerHome DEF TalkInv
  <2>3. QED BY <1>3, <2>1, <2>2 DEF TalkInv, TalkOpened, Talk!OpenLive
<1>4. ASSUME NEW p \in Projects, Talk!SendDigest(p) PROVE TalkOpened'
  <2>1. PICK b \in Talk!Owners(p) : Talk!Posted(p, b, Talk!Home(b))
    BY <1>4 DEF Talk!SendDigest
  <2>2. Talk!Home(b) = p
    BY TalkOwnerHome DEF TalkInv
  <2>3. QED BY <1>4, <2>1, <2>2 DEF TalkInv, TalkOpened, Talk!SendDigest, Talk!Posted
<1>5. CASE Talk!PushLive
  BY <1>2, <1>5 DEF TalkInv, TalkOpened, Talk!PushLive, Talk!Posted
<1>6. CASE Talk!CloseLive
  BY <1>2, <1>6 DEF TalkInv, TalkOpened, Talk!CloseLive
<1> QED BY <1>2, <1>3, <1>4, <1>5, <1>6 DEF Talk!Posts, TalkInv

\* A terminal that rebinds, disables or removes bots keeps the invariant.
LEMMA TalkTerminal == TalkInv /\ Talk!Terminal => TalkInv'
<1> SUFFICES ASSUME TalkInv, Talk!Terminal PROVE TalkInv'
  OBVIOUS
<1>1. UNCHANGED <<lane, botTurn, buttons, staged, live, post>>
  BY DEF Talk!Terminal, Talk!UnbindBot, Talk!DisableBot, Talk!PairAgain, Talk!RemoveBot, Talk!BindBot,
         Talk!UseProject, Talk!AgentGone, Talk!Changes, Talk!chat
<1> DEFINE Kept == /\ active' \in Projects /\ agents' \in [Projects -> SUBSET BotAgents]
                   /\ chosen' \in [Projects -> BotAgents]
                   /\ bots' \in [Bots -> Talk!Profile \cup {Talk!Removed}]
<1>2. Kept
  <2> USE DEF TalkInv, TalkTypes
  <2>1. ASSUME NEW b \in Bots, Talk!UnbindBot(b) PROVE Kept
    BY <2>1 DEF Talk!UnbindBot, Talk!Profile
  <2>2. ASSUME NEW b \in Bots, Talk!DisableBot(b) PROVE Kept
    BY <2>2, TalkWith DEF Talk!DisableBot
  <2>3. ASSUME NEW b \in Bots, Talk!PairAgain(b) PROVE Kept
    BY <2>3, TalkWith DEF Talk!PairAgain
  <2>4. ASSUME NEW b \in Bots, Talk!RemoveBot(b) PROVE Kept
    BY <2>4 DEF Talk!RemoveBot
  <2>5. ASSUME NEW b \in Bots, NEW p \in Projects, Talk!BindBot(b, p) PROVE Kept
    <3>1. PICK a \in {Talk!Follows, bots[b].agent} :
             /\ a = Talk!Follows \/ a \in agents[p]
             /\ bots' = [bots EXCEPT ![b] =
                  [@ EXCEPT !.scope = "pinned", !.project = p, !.agent = a, !.enabled = TRUE]]
      BY <2>5 DEF Talk!BindBot
    <3>2. a \in BotAgents \cup {Talk!Follows} /\ bots[b] \in Talk!Profile
      BY <2>5, <3>1 DEF Talk!BindBot
    <3>3. [bots[b] EXCEPT !.scope = "pinned", !.project = p, !.agent = a, !.enabled = TRUE] \in Talk!Profile
      BY <3>2 DEF Talk!Profile
    <3>4. bots' \in [Bots -> Talk!Profile \cup {Talk!Removed}]
      BY <3>1, <3>3
    <3>5. QED BY <2>5, <3>4 DEF Talk!BindBot
  <2>6. ASSUME NEW p \in Projects, Talk!UseProject(p) PROVE Kept
    BY <2>6 DEF Talk!UseProject
  <2>7. ASSUME NEW p \in Projects, NEW a \in BotAgents, Talk!AgentGone(p, a) PROVE Kept
    <3>1. agents[p] \in SUBSET BotAgents /\ (CHOOSE c \in agents[p] \ {a} : TRUE) \in BotAgents
      BY <2>7 DEF Talk!AgentGone
    <3>2. chosen' \in [Projects -> BotAgents] /\ agents' \in [Projects -> SUBSET BotAgents] /\ active' \in Projects
      BY <2>7, <3>1 DEF Talk!AgentGone
    <3>3. \A b \in Bots : [bots[b] EXCEPT !.agent = Talk!Follows] \in Talk!Profile \/ bots[b] = Talk!Removed
      BY DEF Talk!Profile
    <3>4. bots' \in [Bots -> Talk!Profile \cup {Talk!Removed}]
      BY <2>7, <3>3 DEF Talk!AgentGone
    <3>5. QED BY <3>2, <3>4
  <2> QED BY <2>1, <2>2, <2>3, <2>4, <2>5, <2>6, <2>7 DEF Talk!Terminal
<1>3. TalkTypes'
  BY <1>1, <1>2 DEF TalkInv, TalkTypes
<1>4. \A b \in Bots : botTurn[b] # Talk!NoTurn => lane'[b] # <<>> /\ Head(lane'[b]) = Head(lane[b])
  BY <1>1 DEF TalkInv, TalkAtWork
<1> QED BY <1>1, <1>3, <1>4, TalkKept

\* Every action of BotChats keeps the invariant.
LEMMA TalkNext == TalkInv /\ Talk!Next => TalkInv'
<1> SUFFICES ASSUME TalkInv, Talk!Next PROVE TalkInv'
  OBVIOUS
<1>1. ASSUME NEW b \in Bots, Talk!Chats(b) PROVE TalkInv'
  <2>1. CASE Talk!UserSends(b)
    BY <2>1, TalkArrives DEF Talk!UserSends, TalkMessage
  <2>2. CASE Talk!UserTaps(b)
    <3>1. buttons[b] \subseteq TalkMessage
      BY DEF TalkInv, TalkTypes, TalkMessage
    <3>2. QED BY <2>2, <3>1, TalkArrives DEF Talk!UserTaps
  <2>3. QED BY <1>1, <2>1, <2>2, TalkTakesUp, TalkBegins, TalkStages, TalkEnds DEF Talk!Chats, Talk!TakesUp
<1> QED BY <1>1, TalkPosts, TalkTerminal DEF Talk!Next

\* While another part moves, the chats stay as they are.
LEMMA TalkRests == TalkInv /\ UNCHANGED talk => TalkInv'
<1> SUFFICES ASSUME TalkInv, UNCHANGED talk PROVE TalkInv'
  OBVIOUS
<1>1. UNCHANGED <<active, agents, chosen, bots, lane, botTurn, buttons, staged, live, post>>
  BY DEF talk
<1> QED BY <1>1 DEF TalkInv, TalkTypes, TalkAtWork, TalkTold, TalkOpened

\* The invariant holds throughout.
LEMMA TalkAlways == WorkSpec => []TalkInv
<1>1. TalkInv /\ [WorkNext]_<<vars, talk, chat, gateway_service, ssh, reply, focus>> => TalkInv'
  BY TalkNext, TalkRests DEF WorkNext, TalkMoves
<1> QED BY TalkInit, <1>1, PTL DEF WorkSpec

\* Posts, status, digests and files stay with their project, whatever is rebound,
\* for any number of bots, projects, agents and files.
THEOREM PostsStayHome == WorkSpec => []NeverCrossDelivered
<1>1. TalkInv => NeverCrossDelivered
  BY DEF TalkInv, TalkOpened, TalkTold, NeverCrossDelivered, Talk!NeverCrossDelivered
<1> QED BY TalkAlways, <1>1, PTL

\* What the chat of a pinned bot sends, taken up late or tapped on an old
\* button, changes neither the active project nor the active agent of any
\* project nor another bot, and is answered for the project the bot is bound to
\* by then; for any number of bots, projects and agents.
THEOREM PinnedChatsStayPut == WorkSpec => PinnedChatStaysPut
<1>1. ASSUME TalkInv, NEW b \in Bots, Talk!TakesUp(b), Talk!Pinned(b)
      PROVE  /\ UNCHANGED <<active, chosen>>
             /\ \A c \in Bots \ {b} : bots'[c] = bots[c]
             /\ botTurn'[b] = Talk!NoTurn \/ botTurn'[b].target.project = bots[b].project
             /\ \A t \in reset' \ reset : t.project = bots[b].project
  <2>1. Talk!ProfileOf(b) = bots[b] /\ bots[b] \in Talk!Profile /\ Talk!Project(bots[b]) = bots[b].project
        /\ bots[b].scope = "pinned"
    BY <1>1 DEF Talk!Pinned, Talk!ProfileOf, Talk!Project, TalkInv, TalkTypes
  <2>2. Talk!Target(bots[b]).project = bots[b].project
    BY <1>1, <2>1, TalkTarget DEF TalkInv
  <2>3. botTurn[b] = Talk!NoTurn
    BY <1>1 DEF Talk!TakesUp, Talk!ShowProjects, Talk!ShowAgents, Talk!SelectProject, Talk!SelectAgent,
                Talk!ResetSession, Talk!SetNotifications, Talk!BeginTurn, Talk!Idle
  <2>4. UNCHANGED <<active, chosen>>
    BY <1>1, <2>1 DEF Talk!TakesUp, Talk!ShowProjects, Talk!ShowAgents, Talk!SelectProject, Talk!SelectAgent,
                Talk!ResetSession, Talk!SetNotifications, Talk!BeginTurn, Talk!config
  <2>5. \A c \in Bots \ {b} : bots'[c] = bots[c]
    BY <1>1 DEF Talk!TakesUp, Talk!ShowProjects, Talk!ShowAgents, Talk!SelectProject, Talk!SelectAgent,
                Talk!ResetSession, Talk!SetNotifications, Talk!BeginTurn, Talk!config, Talk!With, TalkInv, TalkTypes
  <2>6. botTurn'[b] = Talk!NoTurn \/ botTurn'[b].target.project = bots[b].project
    <3>1. CASE Talk!BeginTurn(b)
      <4>1. botTurn'[b] = [stage |-> "queued", target |-> Talk!Target(bots[b]), told |-> {}]
        BY <1>1, <2>1, <3>1 DEF Talk!BeginTurn, TalkInv, TalkTypes
      <4>2. QED BY <2>2, <4>1
    <3>2. CASE UNCHANGED botTurn
      BY <2>3, <3>2
    <3>3. QED BY <1>1, <3>1, <3>2 DEF Talk!TakesUp, Talk!ShowProjects, Talk!ShowAgents, Talk!SelectProject,
                Talk!SelectAgent, Talk!ResetSession, Talk!SetNotifications, Talk!Handled
  <2>7. \A t \in reset' \ reset : t.project = bots[b].project
    BY <1>1, <2>1, <2>2 DEF Talk!TakesUp, Talk!ShowProjects, Talk!ShowAgents, Talk!SelectProject, Talk!SelectAgent,
                Talk!ResetSession, Talk!SetNotifications, Talk!BeginTurn
  <2>8. QED BY <2>4, <2>5, <2>6, <2>7
<1>2. TalkInv => (\A b \in Bots : Talk!TakesUp(b) /\ Talk!Pinned(b) =>
             /\ UNCHANGED <<active, chosen>>
             /\ \A c \in Bots \ {b} : bots'[c] = bots[c]
             /\ botTurn'[b] = Talk!NoTurn \/ botTurn'[b].target.project = bots[b].project
             /\ \A t \in reset' \ reset : t.project = bots[b].project)
  BY <1>1
<1> QED BY TalkAlways, <1>2, PTL DEF PinnedChatStaysPut, Talk!PinnedChatStaysPut

-----------------------------------------------------------------------------
(***************************************************************************)
(* WebChat: answers follow their questions, and summaries are whole.       *)
(***************************************************************************)
\* The folder of an agent, and a turn of the chat, as the variables can hold
\* them.
ChatStore == [made: SUBSET Chat!Sessions, born: 0..MaxSessions, marker: 0..MaxSessions,
              log: [Chat!Sessions -> Seq(Chat!Message)], daily: [Chat!Days -> Nat]]

ChatTurn == [status: Chat!Statuses, session: 0..MaxSessions,
             aborted: BOOLEAN, moved: BOOLEAN, watched: BOOLEAN]

\* The folder of an agent as it can be: sessions are numbered as they were made, a
\* new one can be made where there is none, and only a session that is there has messages.
ChatFolder(st) ==
    /\ st \in ChatStore
    /\ st.made \subseteq 1..st.born /\ (st.made = {} => st.born < MaxSessions)
    /\ \A s \in Chat!Sessions \ st.made : st.log[s] = <<>>

\* Days have finitely many messages, and are summed up when they are over.
ChatBook(st) ==
    /\ ChatFolder(st)
    /\ \A d \in Chat!Days :
         /\ IsFiniteSet(Chat!MessagesOf(st, d))
         /\ st.daily[d] # 0 => d < day /\ Chat!OfDay(st, d) <= st.daily[d]

\* The messages a turn has in a session: its question alone.
AskedOnly(t, messages) ==
    \E i \in DOMAIN messages :
        messages[i].role = "user" /\ \A k \in DOMAIN messages : messages[k].turn = t <=> k = i

\* The one turn at work asked in the session that is active unless that was
\* changed under it; every turn belongs to a session that was made.
ChatTurns ==
    /\ \A t \in Chat!Turns : t \in Chat!Running /\ ~turn[t].moved =>
         turn[t].session = store.marker /\ store.marker \in store.made /\ AskedOnly(t, store.log[store.marker])
    /\ \A t \in Chat!Turns : turn[t].status # "none" => turn[t].session \in 1..store.born
    /\ \A t, u \in Chat!Running : t = u

\* The other variables of WebChat are well typed.
ChatTypes ==
    /\ day \in Chat!Days /\ turn \in [Chat!Turns -> ChatTurn]
    /\ telegram \in Chat!Stages

\* The inductive invariant for AnswerInPlace and SummaryIsWhole.
ChatInv == ChatTypes /\ ChatBook(store) /\ ChatTurns /\ AnswerInPlace

-----------------------------------------------------------------------------
\* The bounds are numbers.
LEMMA ChatNumbers == MaxSessions \in Nat \ {0} /\ MaxDay \in Nat \ {0} /\ MaxTurns \in Nat
  BY WorkAssumption

\* The fields of a folder, and a folder made of fields.
LEMMA ChatFields ==
    ASSUME NEW st \in ChatStore
    PROVE  /\ st.made \in SUBSET Chat!Sessions /\ st.born \in 0..MaxSessions /\ st.marker \in 0..MaxSessions
           /\ st.log \in [Chat!Sessions -> Seq(Chat!Message)] /\ st.daily \in [Chat!Days -> Nat]
           /\ st = [made |-> st.made, born |-> st.born, marker |-> st.marker, log |-> st.log, daily |-> st.daily]
  BY DEF ChatStore

LEMMA ChatRecord ==
    ASSUME NEW m \in SUBSET Chat!Sessions, NEW b \in 0..MaxSessions, NEW a \in 0..MaxSessions,
           NEW l \in [Chat!Sessions -> Seq(Chat!Message)], NEW d \in [Chat!Days -> Nat]
    PROVE  [made |-> m, born |-> b, marker |-> a, log |-> l, daily |-> d] \in ChatStore
  BY DEF ChatStore

\* Of the sessions that are there one is the latest.
LEMMA ChatLatest ==
    ASSUME NEW S \in SUBSET Chat!Sessions, S # {}
    PROVE  Chat!Max(S) \in S
<1> USE ChatNumbers
<1> DEFINE Less == {ss \in Nat \X Nat : ss[1] < ss[2]}
           U == {n \in 0..MaxSessions : MaxSessions - n \in S}
<1>1. IsWellFoundedOn(Less, Nat)
  BY NatLessThanWellFounded, SMT DEF OpToRel
<1>2. PICK t \in S : TRUE
  OBVIOUS
<1>3. t \in 1..MaxSessions /\ U \in SUBSET Nat
  BY DEF Chat!Sessions
<1>4. MaxSessions - t \in 0..MaxSessions /\ MaxSessions - (MaxSessions - t) = t
  BY <1>3
<1>5. U # {}
  BY <1>2, <1>4
<1>6. PICK u \in U : \A v \in U : <<v, u>> \notin Less
  <2> HIDE DEF Less, U
  <2> QED BY <1>1, <1>3, <1>5, WFMin
<1>7. ASSUME NEW y \in S PROVE MaxSessions - u >= y
  <2>1. y \in 1..MaxSessions /\ MaxSessions - y \in 0..MaxSessions /\ MaxSessions - (MaxSessions - y) = y
    BY DEF Chat!Sessions
  <2>2. MaxSessions - y \in U
    BY <2>1
  <2>3. <<MaxSessions - y, u>> \notin Less /\ u \in 0..MaxSessions
    BY <1>6, <2>2
  <2> QED BY <2>1, <2>3
<1>8. MaxSessions - u \in S
  OBVIOUS
<1> QED BY <1>7, <1>8 DEF Chat!Max

\* A new session is made where the folder has room for it.
LEMMA ChatNew ==
    ASSUME NEW st, ChatFolder(st), st.born < MaxSessions
    PROVE  LET new == Chat!NewSession(st)
           IN  /\ ChatFolder(new) /\ new.log = st.log /\ new.daily = st.daily
               /\ new.marker \in new.made /\ new.made = st.made \cup {st.born + 1}
               /\ new.born = st.born + 1 /\ new.marker = st.born + 1
<1> USE ChatNumbers
<1> DEFINE new == Chat!NewSession(st)
<1>1. st.born + 1 \in Chat!Sessions /\ st.born \in 0..MaxSessions
  BY DEF ChatFolder, ChatStore, Chat!Sessions
<1>2. new = [st EXCEPT !.made = st.made \cup {st.born + 1}, !.born = st.born + 1, !.marker = st.born + 1]
  BY DEF Chat!NewSession
<1>3. /\ new.log = st.log /\ new.daily = st.daily /\ new.made = st.made \cup {st.born + 1}
      /\ new.born = st.born + 1 /\ new.marker = st.born + 1
  BY <1>2 DEF ChatFolder, ChatStore
<1> HIDE DEF new
<1>5. new = [made |-> st.made \cup {st.born + 1}, born |-> st.born + 1, marker |-> st.born + 1,
             log |-> st.log, daily |-> st.daily]
  BY <1>2 DEF ChatFolder, ChatStore
<1>6. st.born + 1 \in 0..MaxSessions
  BY <1>1
<1>7. new \in ChatStore
  BY <1>1, <1>5, <1>6, ChatRecord, ChatFields DEF ChatFolder
<1>4. ChatFolder(new)
  BY <1>1, <1>7, <1>3 DEF ChatFolder
<1> QED BY <1>3, <1>4 DEF new

\* The session a message goes to is there, and had its messages before.
LEMMA ChatResolved ==
    ASSUME NEW st, ChatFolder(st)
    PROVE  LET now == Chat!Resolved(st)
           IN  /\ ChatFolder(now) /\ now.log = st.log /\ now.daily = st.daily
               /\ now.marker \in now.made /\ st.born <= now.born
               /\ st.made \subseteq now.made /\ now.made \cap (1..st.born) \subseteq st.made
               /\ st.marker \in st.made => now = st
<1> USE ChatNumbers
<1>1. CASE st.marker \in st.made
  BY <1>1 DEF Chat!Resolved, ChatFolder, ChatStore
<1>2. CASE st.marker \notin st.made /\ st.made # {}
  <2> DEFINE now == [st EXCEPT !.marker = Chat!Max(st.made)]
  <2>1. Chat!Max(st.made) \in st.made /\ st.made \in SUBSET Chat!Sessions
    BY <1>2, ChatLatest, ChatFields DEF ChatFolder
  <2>2. now \in ChatStore
    <3>1. now = [made |-> st.made, born |-> st.born, marker |-> Chat!Max(st.made), log |-> st.log, daily |-> st.daily]
      BY DEF ChatFolder, ChatStore
    <3>2. Chat!Max(st.made) \in 0..MaxSessions
      BY <2>1 DEF Chat!Sessions
    <3> HIDE DEF now
    <3> QED BY <3>1, <3>2, ChatFields, ChatRecord DEF ChatFolder
  <2>3. /\ now.log = st.log /\ now.daily = st.daily /\ now.made = st.made
        /\ now.born = st.born /\ now.marker = Chat!Max(st.made)
    BY DEF ChatFolder, ChatStore
  <2>4. Chat!Resolved(st) = now
    BY <1>2 DEF Chat!Resolved
  <2> HIDE DEF now
  <2> QED BY <1>2, <2>1, <2>2, <2>3, <2>4 DEF ChatFolder, ChatStore
<1>3. CASE st.marker \notin st.made /\ st.made = {}
  <2>1. Chat!Resolved(st) = Chat!NewSession(st) /\ st.born < MaxSessions
    BY <1>3 DEF Chat!Resolved, ChatFolder
  <2> DEFINE new == Chat!NewSession(st)
  <2>2. /\ ChatFolder(new) /\ new.log = st.log /\ new.daily = st.daily
        /\ new.marker \in new.made /\ new.made = st.made \cup {st.born + 1} /\ new.born = st.born + 1
    BY <2>1, ChatNew
  <2> HIDE DEF new
  <2> QED BY <1>3, <2>1, <2>2 DEF ChatFolder, ChatStore, new
<1> QED BY <1>1, <1>2, <1>3

\* What collectDayMessages finds: places in sessions that are there.
LEMMA ChatEntries ==
    ASSUME NEW st, NEW d, NEW s, NEW i
    PROVE  <<s, i>> \in Chat!MessagesOf(st, d) <=> s \in st.made /\ i \in DOMAIN st.log[s] /\ st.log[s][i].day = d
<1> DEFINE P == UNION {{x} \X DOMAIN st.log[x] : x \in st.made}
<1>1. <<s, i>> \in P <=> s \in st.made /\ i \in DOMAIN st.log[s]
  OBVIOUS
<1>2. Chat!MessagesOf(st, d) = {e \in P : st.log[e[1]][e[2]].day = d}
  BY DEF Chat!MessagesOf
<1> HIDE DEF P
<1> QED BY <1>1, <1>2

LEMMA ChatPairs ==
    ASSUME NEW st, NEW d, NEW e \in Chat!MessagesOf(st, d)
    PROVE  e = <<e[1], e[2]>>
<1>1. PICK s \in st.made : e \in {s} \X DOMAIN st.log[s]
  BY DEF Chat!MessagesOf
<1> QED BY <1>1

\* How many it finds, in terms of the cardinality the theorems on finite sets
\* speak of.
LEMMA ChatCounts == ASSUME NEW st, NEW d PROVE Chat!OfDay(st, d) = Cardinality(Chat!MessagesOf(st, d))
<1>1. \A S : Chat!Cardinality(S) = Cardinality(S)
  BY DEF Chat!Cardinality, Cardinality
<1> QED BY <1>1 DEF Chat!OfDay

\* Where it finds no more than before, it counts no more than before.
LEMMA ChatFewer ==
    ASSUME NEW st, NEW after, NEW d,
           IsFiniteSet(Chat!MessagesOf(st, d)), Chat!MessagesOf(after, d) \subseteq Chat!MessagesOf(st, d)
    PROVE  IsFiniteSet(Chat!MessagesOf(after, d)) /\ Chat!OfDay(after, d) <= Chat!OfDay(st, d)
  BY FS_Subset, ChatCounts

\* Where a day has no more messages than before, and the summaries are the same, the book is kept.
LEMMA ChatKeepsBook ==
    ASSUME NEW st, ChatBook(st), NEW after, ChatFolder(after), after.daily = st.daily,
           \A d \in Chat!Days : \A s \in after.made : \A i \in DOMAIN after.log[s] :
               after.log[s][i].day = d => s \in st.made /\ i \in DOMAIN st.log[s] /\ st.log[s][i].day = d
    PROVE  ChatBook(after)
<1> SUFFICES ASSUME NEW d \in Chat!Days
             PROVE  /\ IsFiniteSet(Chat!MessagesOf(after, d))
                    /\ after.daily[d] # 0 => d < day /\ Chat!OfDay(after, d) <= after.daily[d]
  BY DEF ChatBook
<1>1. ASSUME NEW e \in Chat!MessagesOf(after, d) PROVE e \in Chat!MessagesOf(st, d)
  <2>1. e = <<e[1], e[2]>>
    BY <1>1, ChatPairs
  <2>2. <<e[1], e[2]>> \in Chat!MessagesOf(after, d)
    BY <1>1, <2>1
  <2>3. e[1] \in after.made /\ e[2] \in DOMAIN after.log[e[1]] /\ after.log[e[1]][e[2]].day = d
    BY <2>2, ChatEntries
  <2>4. <<e[1], e[2]>> \in Chat!MessagesOf(st, d)
    BY <2>3, ChatEntries
  <2> QED BY <2>1, <2>4
<1>2. IsFiniteSet(Chat!MessagesOf(st, d))
  BY DEF ChatBook
<1>3. IsFiniteSet(Chat!MessagesOf(after, d)) /\ Chat!OfDay(after, d) <= Chat!OfDay(st, d)
  BY <1>1, <1>2, ChatFewer
<1>4. Chat!OfDay(after, d) \in Nat /\ Chat!OfDay(st, d) \in Nat
  BY <1>2, <1>3, FS_CardinalityType, ChatCounts
<1>5. st.daily[d] \in Nat /\ (st.daily[d] # 0 => d < day /\ Chat!OfDay(st, d) <= st.daily[d])
  BY ChatFields DEF ChatBook, ChatFolder
<1> QED BY <1>3, <1>4, <1>5

\* Making a session, and finding the active one, add no message to any day.
LEMMA ChatBookNew ==
    ASSUME NEW st, ChatBook(st), st.born < MaxSessions
    PROVE  ChatBook(Chat!NewSession(st))
<1> DEFINE new == Chat!NewSession(st)
<1>1. ChatFolder(st)
  BY DEF ChatBook
<1>2. ChatFolder(new) /\ new.log = st.log /\ new.daily = st.daily
  BY <1>1, ChatNew
<1> HIDE DEF new
<1>3. \A s \in new.made : s \in Chat!Sessions
  BY <1>2, ChatFields DEF ChatFolder
<1>4. ASSUME NEW s \in new.made, NEW i \in DOMAIN new.log[s] PROVE s \in st.made
  BY <1>1, <1>2, <1>3, EmptySeq DEF ChatFolder
<1>5. ChatBook(new)
  BY <1>2, <1>4, ChatKeepsBook
<1> QED BY <1>5 DEF new

LEMMA ChatBookResolved ==
    ASSUME NEW st, ChatBook(st)
    PROVE  ChatBook(Chat!Resolved(st))
<1> DEFINE now == Chat!Resolved(st)
<1>1. ChatFolder(st)
  BY DEF ChatBook
<1>2. ChatFolder(now) /\ now.log = st.log /\ now.daily = st.daily
  BY <1>1, ChatResolved
<1> HIDE DEF now
<1>3. \A s \in now.made : s \in Chat!Sessions
  BY <1>2, ChatFields DEF ChatFolder
<1>4. ASSUME NEW s \in now.made, NEW i \in DOMAIN now.log[s] PROVE s \in st.made
  BY <1>1, <1>2, <1>3, EmptySeq DEF ChatFolder
<1>5. ChatBook(now)
  BY <1>2, <1>4, ChatKeepsBook
<1> QED BY <1>5 DEF now

\* A message of today goes to the end of the session that is active then.
LEMMA ChatAppends ==
    ASSUME NEW st, ChatBook(st), NEW m \in Chat!Message, m.day = day, day \in Chat!Days
    PROVE  LET after == Chat!Appended(st, m)
               now == Chat!Resolved(st)
           IN  /\ ChatBook(after)
               /\ after.made = now.made /\ after.born = now.born /\ after.marker = now.marker
               /\ after.daily = st.daily
               /\ \A s \in Chat!Sessions :
                    after.log[s] = IF s = after.marker THEN Append(st.log[s], m) ELSE st.log[s]
<1> DEFINE now == Chat!Resolved(st)
           after == Chat!Appended(st, m)
           longer == Append(st.log[now.marker], m)
<1>1. ChatFolder(st)
  BY DEF ChatBook
<1>2. ChatFolder(now) /\ now.log = st.log /\ now.daily = st.daily /\ now.marker \in now.made /\ ChatBook(now)
  BY <1>1, ChatResolved, ChatBookResolved
<1>3. now.marker \in Chat!Sessions /\ longer \in Seq(Chat!Message) /\ st.log[now.marker] \in Seq(Chat!Message)
  <2> HIDE DEF now
  <2> QED BY <1>1, <1>2, ChatFields DEF ChatFolder
<1>4. after = [now EXCEPT !.log = [now.log EXCEPT ![now.marker] = longer]]
  <2>1. after = [now EXCEPT !.log[now.marker] = Append(@, m)]
    BY DEF Chat!Appended
  <2> HIDE DEF now, after
  <2> QED BY <1>2, <2>1 DEF ChatFolder, ChatStore
<1> HIDE DEF after
<1>5. /\ after.made = now.made /\ after.born = now.born /\ after.marker = now.marker
      /\ after.daily = now.daily /\ after.log = [now.log EXCEPT ![now.marker] = longer]
      /\ after = [made |-> now.made, born |-> now.born, marker |-> now.marker, log |-> after.log, daily |-> now.daily]
  <2> HIDE DEF now, longer
  <2> QED BY <1>2, <1>4 DEF ChatFolder, ChatStore
<1>6. \A s \in Chat!Sessions :
          after.log[s] = IF s = after.marker THEN Append(st.log[s], m) ELSE st.log[s]
  <2>1. now.log \in [Chat!Sessions -> Seq(Chat!Message)]
    BY <1>2, ChatFields DEF ChatFolder
  <2> HIDE DEF now
  <2> QED BY <1>2, <1>3, <1>5, <2>1
<1>7. ChatFolder(after)
  <2> HIDE DEF now, longer
  <2>1. now.log \in [Chat!Sessions -> Seq(Chat!Message)]
    BY <1>2, ChatFields DEF ChatFolder
  <2>2. after.log \in [Chat!Sessions -> Seq(Chat!Message)]
    BY <1>3, <1>5, <2>1
  <2>3. after \in ChatStore
    <3>1. /\ now.made \in SUBSET Chat!Sessions /\ now.born \in 0..MaxSessions /\ now.marker \in 0..MaxSessions
          /\ now.daily \in [Chat!Days -> Nat]
      BY <1>2, ChatFields DEF ChatFolder
    <3>2. [made |-> now.made, born |-> now.born, marker |-> now.marker, log |-> after.log, daily |-> now.daily]
             \in ChatStore
      BY <2>2, <3>1, ChatRecord
    <3> QED BY <1>5, <3>2
  <2>4. \A s \in Chat!Sessions \ after.made : after.log[s] = <<>>
    BY <1>2, <1>5, <1>6 DEF ChatFolder
  <2> QED BY <1>2, <1>5, <2>3, <2>4 DEF ChatFolder
<1>8. ChatBook(after)
  <2> SUFFICES ASSUME NEW d \in Chat!Days
               PROVE  /\ IsFiniteSet(Chat!MessagesOf(after, d))
                      /\ after.daily[d] # 0 => d < day /\ Chat!OfDay(after, d) <= after.daily[d]
    BY <1>7 DEF ChatBook
  <2> DEFINE last == <<now.marker, Len(st.log[now.marker]) + 1>>
  <2>1. ASSUME NEW e \in Chat!MessagesOf(after, d)
        PROVE  e \in Chat!MessagesOf(now, d) \/ (d = day /\ e = last)
    <3> HIDE DEF now
    <3>1. e = <<e[1], e[2]>>
      BY <2>1, ChatPairs
    <3>2. <<e[1], e[2]>> \in Chat!MessagesOf(after, d)
      BY <2>1, <3>1
    <3>3. e[1] \in after.made /\ e[2] \in DOMAIN after.log[e[1]] /\ after.log[e[1]][e[2]].day = d
      BY <3>2, ChatEntries
    <3>4. e[1] \in Chat!Sessions
      BY <1>2, <1>5, <3>3, ChatFields DEF ChatFolder
    <3>5. CASE e[1] # now.marker
      <4>1. after.log[e[1]] = now.log[e[1]]
        BY <1>2, <1>5, <1>6, <3>4, <3>5
      <4>2. <<e[1], e[2]>> \in Chat!MessagesOf(now, d)
        BY <1>5, <3>3, <4>1, ChatEntries
      <4> QED BY <3>1, <4>2
    <3>6. CASE e[1] = now.marker /\ e[2] = Len(st.log[now.marker]) + 1
      <4>1. after.log[e[1]] = longer
        BY <1>5, <1>6, <3>4, <3>6
      <4>2. longer[Len(st.log[now.marker]) + 1] = m
        BY <1>3, AppendProperties
      <4> QED BY <3>1, <3>3, <3>6, <4>1, <4>2
    <3>7. CASE e[1] = now.marker /\ e[2] # Len(st.log[now.marker]) + 1
      <4>1. after.log[e[1]] = longer
        BY <1>5, <1>6, <3>4, <3>7
      <4>2. /\ e[2] \in 1..Len(longer) /\ Len(longer) = Len(st.log[now.marker]) + 1
            /\ Len(st.log[now.marker]) \in Nat /\ DOMAIN st.log[now.marker] = 1..Len(st.log[now.marker])
        BY <1>3, <3>3, <4>1, AppendProperties, LenProperties
      <4>3. e[2] \in DOMAIN st.log[now.marker] /\ longer[e[2]] = st.log[now.marker][e[2]]
        BY <1>3, <3>7, <4>2, AppendProperties
      <4>4. <<e[1], e[2]>> \in Chat!MessagesOf(now, d)
        BY <1>2, <1>5, <3>3, <3>7, <4>1, <4>3, ChatEntries
      <4> QED BY <3>1, <4>4
    <3> QED BY <3>5, <3>6, <3>7
  <2> HIDE DEF now, last
  <2>2. CASE d = day
    <3>1. Chat!MessagesOf(after, d) \subseteq Chat!MessagesOf(now, d) \cup {last}
      BY <2>1
    <3>2. IsFiniteSet(Chat!MessagesOf(now, d) \cup {last})
      BY <1>2, FS_AddElement DEF ChatBook
    <3>3. IsFiniteSet(Chat!MessagesOf(after, d))
      BY <3>1, <3>2, FS_Subset
    <3>4. now.daily[d] = 0
      <4>1. now.daily[d] # 0 => d < day
        BY <1>2 DEF ChatBook
      <4>2. day \in Nat
        BY DEF Chat!Days
      <4> QED BY <2>2, <4>1, <4>2
    <3> QED BY <1>5, <3>3, <3>4
  <2>3. CASE d # day
    <3>1. Chat!MessagesOf(after, d) \subseteq Chat!MessagesOf(now, d)
      BY <2>1, <2>3
    <3>2. IsFiniteSet(Chat!MessagesOf(now, d))
      BY <1>2 DEF ChatBook
    <3>3. IsFiniteSet(Chat!MessagesOf(after, d)) /\ Chat!OfDay(after, d) <= Chat!OfDay(now, d)
      BY <3>1, <3>2, ChatFewer
    <3>4. Chat!OfDay(after, d) \in Nat /\ Chat!OfDay(now, d) \in Nat
      BY <3>2, <3>3, FS_CardinalityType, ChatCounts
    <3>5. now.daily[d] \in Nat /\ (now.daily[d] # 0 => d < day /\ Chat!OfDay(now, d) <= now.daily[d])
      BY <1>2, ChatFields DEF ChatBook, ChatFolder
    <3> QED BY <1>5, <3>3, <3>4, <3>5
  <2> QED BY <2>2, <2>3
<1> HIDE DEF now
<1> QED BY <1>2, <1>5, <1>6, <1>8 DEF after, now

\* The summary of a day that is over is made of all its messages.
LEMMA ChatSums ==
    ASSUME NEW st, ChatBook(st), day \in Chat!Days
    PROVE  LET after == Chat!Summarized(st)
           IN  /\ ChatBook(after) /\ after.log = st.log
               /\ after.made = st.made /\ after.born = st.born /\ after.marker = st.marker
<1>1. CASE day = 1 \/ st.daily[day - 1] # 0
  BY <1>1 DEF Chat!Summarized
<1>2. CASE ~(day = 1 \/ st.daily[day - 1] # 0)
  <2> DEFINE sum == Chat!OfDay(st, day - 1)
             after == [st EXCEPT !.daily[day - 1] = sum]
  <2>1. day - 1 \in Chat!Days /\ day - 1 < day
    BY <1>2, ChatNumbers DEF Chat!Days
  <2>2. sum \in Nat
    BY <2>1, FS_CardinalityType, ChatCounts DEF ChatBook
  <2>3. Chat!Summarized(st) = after
    BY <1>2 DEF Chat!Summarized, Chat!SummaryOf
  <2> HIDE DEF sum
  <2>11. st = [made |-> st.made, born |-> st.born, marker |-> st.marker, log |-> st.log, daily |-> st.daily]
    BY ChatFields DEF ChatBook, ChatFolder
  <2>4. /\ after.made = st.made /\ after.born = st.born /\ after.marker = st.marker
        /\ after.log = st.log /\ after.daily = [st.daily EXCEPT ![day - 1] = sum]
        /\ after = [made |-> st.made, born |-> st.born, marker |-> st.marker, log |-> st.log, daily |-> after.daily]
    BY <2>11
  <2> HIDE DEF after
  <2>5. st.daily \in [Chat!Days -> Nat]
    BY ChatFields DEF ChatBook, ChatFolder
  <2>6. after.daily \in [Chat!Days -> Nat]
    BY <2>2, <2>4, <2>5
  <2>7. ChatFolder(after)
    <3>1. /\ st.made \in SUBSET Chat!Sessions /\ st.born \in 0..MaxSessions /\ st.marker \in 0..MaxSessions
          /\ st.log \in [Chat!Sessions -> Seq(Chat!Message)]
      BY ChatFields DEF ChatBook, ChatFolder
    <3>3. [made |-> st.made, born |-> st.born, marker |-> st.marker, log |-> st.log, daily |-> after.daily]
             \in ChatStore
      BY <2>6, <3>1, ChatRecord
    <3>2. after \in ChatStore
      BY <2>4, <3>3
    <3> QED BY <2>4, <3>2 DEF ChatBook, ChatFolder
  <2>8. \A d : Chat!MessagesOf(after, d) = Chat!MessagesOf(st, d) /\ Chat!OfDay(after, d) = Chat!OfDay(st, d)
    BY <2>4 DEF Chat!MessagesOf, Chat!OfDay
  <2>9. ASSUME NEW d \in Chat!Days
        PROVE  /\ IsFiniteSet(Chat!MessagesOf(after, d))
               /\ after.daily[d] # 0 => d < day /\ Chat!OfDay(after, d) <= after.daily[d]
    <3>1. CASE d = day - 1
      <4>1. after.daily[d] = sum /\ sum = Chat!OfDay(after, d)
        BY <2>1, <2>4, <2>5, <2>8, <3>1 DEF sum
      <4> QED BY <2>1, <2>2, <2>8, <3>1, <4>1 DEF ChatBook
    <3>2. CASE d # day - 1
      BY <2>4, <2>5, <2>8, <3>2 DEF ChatBook
    <3> QED BY <3>1, <3>2
  <2>10. ChatBook(after)
    BY <2>7, <2>9 DEF ChatBook
  <2> QED BY <2>3, <2>4, <2>10
<1> QED BY <1>1, <1>2
-----------------------------------------------------------------------------
\* Another turn's message changes nothing in what a turn has; its own question
\* and its own answer do what they are for.
LEMMA ChatOthers ==
    ASSUME NEW messages \in Seq(Chat!Message), NEW m \in Chat!Message, NEW t, m.turn # t
    PROVE  /\ AskedOnly(t, messages) => AskedOnly(t, Append(messages, m))
           /\ Chat!Answered(t, messages) => Chat!Answered(t, Append(messages, m))
<1> DEFINE longer == Append(messages, m)
           n == Len(messages)
<1>1. /\ n \in Nat /\ DOMAIN messages = 1..n /\ DOMAIN longer = 1..(n + 1)
      /\ longer[n + 1] = m /\ \A k \in 1..n : longer[k] = messages[k]
  BY AppendProperties, LenProperties
<1> HIDE DEF longer, n
<1>2. AskedOnly(t, messages) => AskedOnly(t, longer)
  BY <1>1 DEF AskedOnly
<1>3. ASSUME Chat!Answered(t, messages) PROVE Chat!Answered(t, longer)
  <2>1. PICK i \in 1..n, j \in 1..n :
            /\ i < j /\ messages[i].role = "user" /\ messages[j].role = "assistant"
            /\ \A k \in 1..n : messages[k].turn = t <=> k \in {i, j}
    BY <1>1, <1>3 DEF Chat!Answered
  <2>2. i \in DOMAIN longer /\ j \in DOMAIN longer
    BY <1>1
  <2>3. \A k \in DOMAIN longer : longer[k].turn = t <=> k \in {i, j}
    BY <1>1, <2>1
  <2> QED BY <1>1, <2>1, <2>2, <2>3 DEF Chat!Answered
<1> QED BY <1>2, <1>3 DEF longer

\* A turn's own question is all it has of a session, and its answer comes after
\* it.
LEMMA ChatQuestion ==
    ASSUME NEW messages \in Seq(Chat!Message), NEW m \in Chat!Message, m.role = "user",
           \A k \in DOMAIN messages : messages[k].turn # m.turn
    PROVE  AskedOnly(m.turn, Append(messages, m))
<1> DEFINE longer == Append(messages, m)
           n == Len(messages)
<1>1. /\ n \in Nat /\ DOMAIN messages = 1..n /\ DOMAIN longer = 1..(n + 1)
      /\ longer[n + 1] = m /\ \A k \in 1..n : longer[k] = messages[k]
  BY AppendProperties, LenProperties
<1> HIDE DEF longer, n
<1>2. AskedOnly(m.turn, longer)
  BY <1>1 DEF AskedOnly
<1> QED BY <1>2 DEF longer

LEMMA ChatAnswer ==
    ASSUME NEW messages \in Seq(Chat!Message), NEW m \in Chat!Message, m.role = "assistant",
           AskedOnly(m.turn, messages)
    PROVE  Chat!Answered(m.turn, Append(messages, m))
<1> DEFINE longer == Append(messages, m)
           n == Len(messages)
<1>1. /\ n \in Nat /\ DOMAIN messages = 1..n /\ DOMAIN longer = 1..(n + 1)
      /\ longer[n + 1] = m /\ \A k \in 1..n : longer[k] = messages[k]
  BY AppendProperties, LenProperties
<1> HIDE DEF longer, n
<1>2. PICK i \in 1..n : messages[i].role = "user" /\ \A k \in 1..n : messages[k].turn = m.turn <=> k = i
  BY <1>1 DEF AskedOnly
<1>3. i \in DOMAIN longer /\ n + 1 \in DOMAIN longer /\ i < n + 1
  BY <1>1
<1>4. \A k \in DOMAIN longer : longer[k].turn = m.turn <=> k \in {i, n + 1}
  BY <1>1, <1>2
<1>5. Chat!Answered(m.turn, longer)
  BY <1>1, <1>2, <1>3, <1>4 DEF Chat!Answered
<1> QED BY <1>5 DEF longer

\* What may happen to the folder beside the web turns: sessions come and go, and those
\* that stay keep their messages or get one of Telegram.
ChatFollows(after) ==
    /\ store.born <= after.born /\ after.made \cap (1..store.born) \subseteq store.made
    /\ \A s \in after.made \cap (1..store.born) :
         \/ after.log[s] = store.log[s]
         \/ \E m \in Chat!Message : m.turn = 0 /\ after.log[s] = Append(store.log[s], m)

\* Whatever changes the folder in that way keeps the invariant.
LEMMA ChatStores ==
    ASSUME ChatInv, NEW after, ChatBook(after), ChatFollows(after), Chat!Stores(after), day' = day,
           telegram' \in Chat!Stages
    PROVE  ChatInv'
<1> USE ChatNumbers
<1>1. store' = after /\ turn' = Chat!Moved(store, after)
  BY DEF Chat!Stores
<1>2. turn \in [Chat!Turns -> ChatTurn] /\ day \in Chat!Days /\ ChatFolder(store) /\ ChatFolder(after)
  BY DEF ChatInv, ChatTypes, ChatBook
<1>3. turn' = [t \in Chat!Turns |->
          IF t \in Chat!Running /\ (store.marker # after.marker \/ turn[t].session \notin after.made)
          THEN [turn[t] EXCEPT !.moved = TRUE] ELSE turn[t]]
  BY <1>1 DEF Chat!Moved
<1>4. ASSUME NEW t \in Chat!Turns
      PROVE  /\ turn'[t] \in ChatTurn
             /\ turn'[t].status = turn[t].status /\ turn'[t].session = turn[t].session
             /\ ~turn'[t].moved => ~turn[t].moved
             /\ t \in Chat!Running /\ ~turn'[t].moved => store.marker = after.marker /\ turn[t].session \in after.made
  <2>1. turn[t] \in ChatTurn
    BY <1>2
  <2>2. CASE t \in Chat!Running /\ (store.marker # after.marker \/ turn[t].session \notin after.made)
    <3>1. turn'[t] = [turn[t] EXCEPT !.moved = TRUE]
      BY <1>3, <2>2
    <3> QED BY <2>1, <3>1 DEF ChatTurn
  <2>3. CASE ~(t \in Chat!Running /\ (store.marker # after.marker \/ turn[t].session \notin after.made))
    <3>1. turn'[t] = turn[t]
      BY <1>3, <2>3
    <3> QED BY <2>1, <2>3, <3>1
  <2> QED BY <2>2, <2>3
<1>5. turn' \in [Chat!Turns -> ChatTurn] /\ Chat!Running' = Chat!Running
  BY <1>3, <1>4 DEF Chat!Running
<1>6. ChatTypes'
  BY <1>2, <1>5 DEF ChatTypes
<1>7. ASSUME NEW t \in Chat!Turns, turn[t].session \in after.made, turn[t].status # "none"
      PROVE  LET s == turn[t].session
             IN  /\ s \in store.made
                 /\ AskedOnly(t, store.log[s]) => AskedOnly(t, after.log[s])
                 /\ Chat!Answered(t, store.log[s]) => Chat!Answered(t, after.log[s])
  <2> DEFINE s == turn[t].session
  <2>1. s \in 1..store.born
    BY <1>7 DEF ChatInv, ChatTurns
  <2>2. s \in store.made /\ (\/ after.log[s] = store.log[s]
                             \/ \E m \in Chat!Message : m.turn = 0 /\ after.log[s] = Append(store.log[s], m))
    BY <1>7, <2>1 DEF ChatFollows
  <2>3. store.log[s] \in Seq(Chat!Message)
    BY <1>2, <2>2, ChatFields DEF ChatFolder
  <2> HIDE DEF s
  <2>4. CASE after.log[s] = store.log[s]
    BY <2>2, <2>4 DEF s
  <2>5. ASSUME NEW m \in Chat!Message, m.turn = 0, after.log[s] = Append(store.log[s], m)
        PROVE  /\ AskedOnly(t, store.log[s]) => AskedOnly(t, after.log[s])
               /\ Chat!Answered(t, store.log[s]) => Chat!Answered(t, after.log[s])
    <3>1. m.turn # t
      BY <2>5 DEF Chat!Turns
    <3> QED BY <2>3, <2>5, <3>1, ChatOthers
  <2> QED BY <2>2, <2>4, <2>5 DEF s
<1>8. ChatTurns'
  <2>1. ASSUME NEW t \in Chat!Turns, t \in Chat!Running', ~turn'[t].moved
        PROVE  turn'[t].session = store'.marker /\ store'.marker \in store'.made
               /\ AskedOnly(t, store'.log[store'.marker])
    <3>1. /\ turn[t].session = store.marker /\ store.marker = after.marker
          /\ turn[t].session \in after.made /\ AskedOnly(t, store.log[store.marker])
      BY <1>4, <1>5, <2>1 DEF ChatInv, ChatTurns
    <3>2. turn[t].status # "none"
      BY <1>5, <2>1 DEF Chat!Running
    <3> QED BY <1>1, <1>4, <1>7, <3>1, <3>2
  <2>2. ASSUME NEW t \in Chat!Turns, turn'[t].status # "none" PROVE turn'[t].session \in 1..store'.born
    <3>1. turn[t].session \in 1..store.born /\ store.born <= after.born /\ store.born \in Nat /\ after.born \in Nat
      BY <1>2, <1>4, <2>2, ChatFields DEF ChatInv, ChatTurns, ChatFollows, ChatFolder
    <3> QED BY <1>1, <1>4, <3>1
  <2>3. \A t, u \in Chat!Running' : t = u
    BY <1>5 DEF ChatInv, ChatTurns
  <2> QED BY <2>1, <2>2, <2>3 DEF ChatTurns
<1>9. AnswerInPlace'
  <2> SUFFICES ASSUME NEW t \in Chat!Turns, turn'[t].status \in Chat!Ended, ~turn'[t].moved,
                      turn'[t].session \in store'.made
               PROVE  Chat!Answered(t, store'.log[turn'[t].session])
    BY DEF AnswerInPlace, Chat!AnswerInPlace
  <2>1. /\ turn[t].status \in Chat!Ended /\ ~turn[t].moved /\ turn[t].session \in after.made
        /\ turn[t].status # "none"
    BY <1>1, <1>4 DEF Chat!Ended
  <2>2. turn[t].session \in store.made
    BY <1>7, <2>1
  <2>3. Chat!Answered(t, store.log[turn[t].session])
    BY <2>1, <2>2 DEF ChatInv, AnswerInPlace, Chat!AnswerInPlace
  <2> QED BY <1>1, <1>4, <1>7, <2>1, <2>3
<1>10. ChatBook(store)'
  BY <1>1 DEF ChatBook
<1> QED BY <1>6, <1>8, <1>9, <1>10 DEF ChatInv

\* The invariant holds at first.
LEMMA ChatInit == WorkInit => ChatInv
<1> SUFFICES ASSUME Chat!Init PROVE ChatInv
  BY DEF WorkInit
<1> USE ChatNumbers
<1>1. Chat!NoTurn \in ChatTurn
  BY DEF Chat!NoTurn, ChatTurn, Chat!Statuses
<1>2. ChatTypes
  BY <1>1 DEF ChatTypes, Chat!Init, Chat!Days, Chat!Stages
<1>3. /\ store.made = {} /\ store.born = 0 /\ \A s \in Chat!Sessions : store.log[s] = <<>>
      /\ \A d \in Chat!Days : store.daily[d] = 0
  BY DEF Chat!Init, Chat!NoStore
<1>4. store \in ChatStore
  BY EmptySeq DEF ChatStore, Chat!Init, Chat!NoStore
<1>5. ChatBook(store)
  <2>1. ChatFolder(store)
    BY <1>3, <1>4 DEF ChatFolder
  <2>2. \A d : Chat!MessagesOf(store, d) = {}
    BY <1>3 DEF Chat!MessagesOf
  <2> QED BY <1>3, <2>1, <2>2, FS_EmptySet DEF ChatBook
<1>6. \A t \in Chat!Turns : turn[t].status = "none"
  BY DEF Chat!Init, Chat!NoTurn
<1>7. ChatTurns /\ AnswerInPlace
  BY <1>6 DEF ChatTurns, Chat!Running, AnswerInPlace, Chat!AnswerInPlace, Chat!Ended
<1> QED BY <1>2, <1>5, <1>7 DEF ChatInv

\* Actions that leave the folder alone change no turn but as far as its status goes.
LEMMA ChatKeeps ==
    ASSUME ChatInv, store' = store, telegram' \in Chat!Stages,
           day' \in Chat!Days, day <= day', turn' \in [Chat!Turns -> ChatTurn],
           \A t \in Chat!Turns : \/ turn'[t].status = "none"
                                 \/ /\ turn'[t].status = turn[t].status /\ turn'[t].session = turn[t].session
                                    /\ turn'[t].moved = turn[t].moved
    PROVE  ChatInv'
<1>1. ChatTypes'
  BY DEF ChatTypes
<1>2. ChatBook(store)'
  <2>1. day \in Nat /\ day' \in Nat /\ \A d \in Chat!Days : d \in Nat
    BY DEF ChatInv, ChatTypes, Chat!Days
  <2>2. \A d \in Chat!Days : d < day => d < day'
    BY <2>1
  <2> QED BY <2>2 DEF ChatInv, ChatBook
<1>3. ChatTurns'
  BY DEF ChatInv, ChatTurns, Chat!Running
<1>4. AnswerInPlace'
  BY DEF ChatInv, AnswerInPlace, Chat!AnswerInPlace, Chat!Ended
<1> QED BY <1>1, <1>2, <1>3, <1>4 DEF ChatInv

\* Making a session the active one, and removing one, keep the book.
LEMMA ChatActivates ==
    ASSUME NEW st, ChatBook(st), NEW s, NEW after, after = IF s \in st.made THEN [st EXCEPT !.marker = s] ELSE st
    PROVE  /\ ChatBook(after) /\ after.made = st.made /\ after.born = st.born /\ after.log = st.log
<1>1. CASE s \notin st.made
  BY <1>1
<1>2. CASE s \in st.made
  <2>1. /\ st.made \in SUBSET Chat!Sessions /\ st.born \in 0..MaxSessions /\ st.log \in [Chat!Sessions -> Seq(Chat!Message)]
        /\ st.daily \in [Chat!Days -> Nat]
        /\ st = [made |-> st.made, born |-> st.born, marker |-> st.marker, log |-> st.log, daily |-> st.daily]
    BY ChatFields DEF ChatBook, ChatFolder
  <2>2. after = [made |-> st.made, born |-> st.born, marker |-> s, log |-> st.log, daily |-> st.daily]
    BY <1>2, <2>1
  <2>3. s \in 0..MaxSessions
    BY <1>2, <2>1 DEF Chat!Sessions
  <2>4. [made |-> st.made, born |-> st.born, marker |-> s, log |-> st.log, daily |-> st.daily] \in ChatStore
    BY <2>1, <2>3, ChatRecord
  <2>5. ChatFolder(after)
    BY <2>2, <2>4 DEF ChatBook, ChatFolder
  <2> QED BY <2>2, <2>5, ChatKeepsBook
<1> QED BY <1>1, <1>2

LEMMA ChatRemoves ==
    ASSUME NEW st, ChatBook(st), NEW s \in st.made, st.born < MaxSessions \/ st.made # {s},
           NEW after, after \in ChatStore, after.made = st.made \ {s}, after.born = st.born,
           after.daily = st.daily, \A u \in Chat!Sessions : after.log[u] = IF u = s THEN <<>> ELSE st.log[u]
    PROVE  ChatBook(after) /\ \A u \in after.made : after.log[u] = st.log[u]
<1>1. st.made \in SUBSET Chat!Sessions /\ st.log \in [Chat!Sessions -> Seq(Chat!Message)]
  BY ChatFields DEF ChatBook, ChatFolder
<1>3. ChatFolder(after)
  BY DEF ChatBook, ChatFolder
<1>4. \A u \in after.made : after.log[u] = st.log[u] /\ u \in st.made
  BY <1>1
<1>5. ASSUME NEW d \in Chat!Days, NEW u \in after.made, NEW i \in DOMAIN after.log[u], after.log[u][i].day = d
      PROVE  u \in st.made /\ i \in DOMAIN st.log[u] /\ st.log[u][i].day = d
  <2>1. after.log[u] = st.log[u] /\ u \in st.made
    BY <1>4
  <2> QED BY <1>5, <2>1
<1>6. ChatBook(after)
  BY ONLY ChatBook(st), <1>3, <1>5, after.daily = st.daily, ChatKeepsBook
<1> QED BY <1>4, <1>6

\* A message of a turn changes nothing in what another turn left that had ended.
LEMMA ChatEarlier ==
    ASSUME ChatInv, NEW m \in Chat!Message, NEW after, after.made \cap (1..store.born) \subseteq store.made,
           \A s \in store.made : after.log[s] = store.log[s] \/ after.log[s] = Append(store.log[s], m),
           NEW u \in Chat!Turns, u # m.turn, turn[u].status \in Chat!Ended, ~turn[u].moved,
           turn[u].session \in after.made
    PROVE  Chat!Answered(u, after.log[turn[u].session])
<1> DEFINE s == turn[u].session
<1>1. s \in 1..store.born /\ s \in store.made
  BY DEF ChatInv, ChatTurns, Chat!Ended
<1>2. Chat!Answered(u, store.log[s]) /\ store.log[s] \in Seq(Chat!Message)
  BY <1>1, ChatFields DEF ChatInv, ChatBook, ChatFolder, AnswerInPlace, Chat!AnswerInPlace
<1> HIDE DEF s
<1>3. Chat!Answered(u, after.log[s])
  BY <1>1, <1>2, ChatOthers
<1> QED BY <1>3 DEF s

\* The messages of today that ask and that answer.
LEMMA ChatAsks ==
    ASSUME NEW t \in 0..MaxTurns, day \in Chat!Days
    PROVE  /\ Chat!Asks(t) \in Chat!Message /\ Chat!Asks(t).turn = t
           /\ Chat!Asks(t).role = "user" /\ Chat!Asks(t).day = day
           /\ Chat!Closes(t) \in Chat!Message /\ Chat!Closes(t).turn = t
           /\ Chat!Closes(t).role = "assistant" /\ Chat!Closes(t).day = day
  BY DEF Chat!Asks, Chat!Closes, Chat!Message

\* The session a message goes to, and those that were there before.
LEMMA ChatAppendFollows ==
    ASSUME NEW st, ChatBook(st), NEW m \in Chat!Message, m.day = day, day \in Chat!Days,
           NEW after, after = Chat!Appended(st, m)
    PROVE  /\ ChatBook(after) /\ after.marker \in after.made /\ st.born <= after.born
           /\ after.made \cap (1..st.born) \subseteq st.made
           /\ \A s \in Chat!Sessions :
                 after.log[s] = IF s = after.marker THEN Append(st.log[s], m) ELSE st.log[s]
           /\ st.marker \in st.made => after.marker = st.marker /\ after.made = st.made
<1> DEFINE now == Chat!Resolved(st)
<1>1. ChatFolder(st)
  BY DEF ChatBook
<1>2. /\ ChatFolder(now) /\ now.marker \in now.made /\ st.born <= now.born
      /\ now.made \cap (1..st.born) \subseteq st.made
      /\ st.marker \in st.made => now = st
  BY <1>1, ChatResolved
<1>3. /\ ChatBook(after)
      /\ after.made = now.made /\ after.born = now.born /\ after.marker = now.marker
      /\ \A s \in Chat!Sessions :
            after.log[s] = IF s = after.marker THEN Append(st.log[s], m) ELSE st.log[s]
  BY ChatAppends
<1> HIDE DEF now
<1> QED BY <1>2, <1>3

\* Sending: the question goes to the active session, and yesterday is summed
\* up.
LEMMA ChatSend ==
    ASSUME ChatInv, NEW t \in Chat!Turns, NEW s, NEW files, Chat!Send(t, s, files)
    PROVE  ChatInv'
<1> USE ChatNumbers
<1>1. /\ ChatBook(store) /\ turn \in [Chat!Turns -> ChatTurn] /\ day \in Chat!Days /\ telegram \in Chat!Stages
      /\ ChatFolder(store)
  BY DEF ChatInv, ChatTypes, ChatBook
<1>2. PICK st : st = Chat!Activated(s)
  OBVIOUS
<1>3. ChatBook(st) /\ st.made = store.made /\ st.born = store.born /\ st.log = store.log
  BY <1>1, <1>2, ChatActivates DEF Chat!Activated
<1>4. PICK m \in Chat!Message : m = Chat!Asks(t) /\ m.turn = t /\ m.role = "user" /\ m.day = day
  <2>1. t \in 0..MaxTurns
    BY DEF Chat!Turns
  <2> QED BY <1>1, <2>1, ChatAsks
<1>5. PICK longer : longer = Chat!Appended(st, m)
  OBVIOUS
<1>6. PICK summed : summed = Chat!Summarized(longer)
  OBVIOUS
<1>7. /\ store' = summed
      /\ turn' = [turn EXCEPT ![t] = [Chat!NoTurn EXCEPT !.status = "running", !.session = summed.marker]]
      /\ day' = day /\ telegram' = telegram /\ Chat!Running = {} /\ Chat!Fresh(t)
  BY <1>2, <1>4, <1>5, <1>6 DEF Chat!Send, Chat!Busy
<1>8. /\ ChatBook(longer) /\ longer.marker \in longer.made /\ st.born <= longer.born
      /\ longer.made \cap (1..st.born) \subseteq st.made
      /\ \A x \in Chat!Sessions :
            longer.log[x] = IF x = longer.marker THEN Append(st.log[x], m) ELSE st.log[x]
  BY <1>1, <1>3, <1>4, <1>5, ChatAppendFollows
<1>9. /\ ChatBook(summed) /\ summed.log = longer.log
      /\ summed.made = longer.made /\ summed.born = longer.born /\ summed.marker = longer.marker
  BY <1>1, <1>6, <1>8, ChatSums
<1>10. summed.made \subseteq 1..summed.born /\ summed.made \subseteq Chat!Sessions /\ summed.marker \in 0..MaxSessions
       /\ store.born \in Nat /\ summed.born \in Nat
  BY <1>1, <1>9, ChatFields DEF ChatBook, ChatFolder
<1>11. PICK new \in ChatTurn : /\ turn' = [turn EXCEPT ![t] = new] /\ new.status = "running"
                               /\ new.session = summed.marker /\ ~new.moved
  <2>1. PICK new : new = [Chat!NoTurn EXCEPT !.status = "running", !.session = summed.marker]
    OBVIOUS
  <2>2. new \in ChatTurn /\ new.status = "running" /\ new.session = summed.marker /\ ~new.moved
    BY <1>10, <2>1 DEF ChatTurn, Chat!NoTurn, Chat!Statuses
  <2> QED BY <1>7, <2>1, <2>2
<1>12. turn' \in [Chat!Turns -> ChatTurn] /\ turn'[t] = new /\ \A u \in Chat!Turns : u # t => turn'[u] = turn[u]
  BY <1>1, <1>11
<1>13. Chat!Running' = {t}
  BY <1>7, <1>11, <1>12 DEF Chat!Running
<1>14. ChatTypes' /\ ChatBook(store)'
  BY <1>1, <1>7, <1>9, <1>12 DEF ChatTypes, ChatBook
<1>15. AskedOnly(t, summed.log[summed.marker])
  <2>1. summed.marker \in Chat!Sessions
    BY <1>8, <1>9, <1>10
  <2>2. summed.log[summed.marker] = Append(store.log[summed.marker], m) /\ store.log[summed.marker] \in Seq(Chat!Message)
    BY <1>1, <1>3, <1>8, <1>9, <2>1, ChatFields DEF ChatFolder
  <2>3. ASSUME NEW k \in DOMAIN store.log[summed.marker] PROVE store.log[summed.marker][k].turn # t
    <3>1. k \in 1..Len(store.log[summed.marker])
      BY <2>2, LenProperties
    <3> QED BY <1>7, <2>1, <3>1 DEF Chat!Fresh, Chat!Sent
  <2> QED BY <1>4, <2>2, <2>3, ChatQuestion
<1>16. ChatTurns'
  <2>1. ASSUME NEW u \in Chat!Turns, turn'[u].status # "none" PROVE turn'[u].session \in 1..store'.born
    <3>1. CASE u = t
      BY <1>7, <1>8, <1>9, <1>10, <1>11, <1>12, <3>1
    <3>2. CASE u # t
      <4>1. turn[u].session \in 1..store.born /\ store.born <= summed.born
        BY <1>3, <1>8, <1>9, <1>12, <2>1, <3>2 DEF ChatInv, ChatTurns
      <4> QED BY <1>7, <1>10, <1>12, <3>2, <4>1
    <3> QED BY <3>1, <3>2
  <2> QED BY <1>7, <1>8, <1>9, <1>11, <1>12, <1>13, <1>15, <2>1 DEF ChatTurns
<1>17. AnswerInPlace'
  <2> SUFFICES ASSUME NEW u \in Chat!Turns, turn'[u].status \in Chat!Ended, ~turn'[u].moved,
                      turn'[u].session \in store'.made
               PROVE  Chat!Answered(u, store'.log[turn'[u].session])
    BY DEF AnswerInPlace, Chat!AnswerInPlace
  <2>1. u # t /\ turn'[u] = turn[u]
    BY <1>11, <1>12 DEF Chat!Ended
  <2>2. \A x \in store.made : summed.log[x] = store.log[x] \/ summed.log[x] = Append(store.log[x], m)
    BY <1>1, <1>3, <1>8, <1>9, ChatFields DEF ChatFolder
  <2>3. summed.made \cap (1..store.born) \subseteq store.made
    BY <1>3, <1>8, <1>9
  <2> QED BY <1>4, <1>7, <2>1, <2>2, <2>3, ChatEarlier
<1> QED BY <1>14, <1>16, <1>17 DEF ChatInv

\* The end of a turn: the answer goes to the session that is active then.
LEMMA ChatTurnEnds ==
    ASSUME ChatInv, NEW t \in Chat!Turns, NEW status \in Chat!Ended, Chat!TurnEnds(t, status)
    PROVE  ChatInv'
<1> USE ChatNumbers
<1>1. /\ ChatBook(store) /\ turn \in [Chat!Turns -> ChatTurn] /\ day \in Chat!Days /\ telegram \in Chat!Stages
      /\ ChatFolder(store)
  BY DEF ChatInv, ChatTypes, ChatBook
<1>2. PICK m \in Chat!Message : m = Chat!Closes(t) /\ m.turn = t /\ m.role = "assistant" /\ m.day = day
  <2>1. t \in 0..MaxTurns
    BY DEF Chat!Turns
  <2> QED BY <1>1, <2>1, ChatAsks
<1>3. PICK after : after = Chat!Appended(store, m)
  OBVIOUS
<1>4. /\ store' = after /\ day' = day /\ telegram' = telegram /\ t \in Chat!Running
      /\ turn' = [turn EXCEPT ![t] = [turn[t] EXCEPT !.status = status, !.aborted = FALSE, !.watched = FALSE]]
  BY <1>1, <1>2, <1>3 DEF Chat!TurnEnds, Chat!Ends, ChatTurn
<1>5. /\ ChatBook(after) /\ after.marker \in after.made /\ store.born <= after.born
      /\ after.made \cap (1..store.born) \subseteq store.made
      /\ \A s \in Chat!Sessions :
            after.log[s] = IF s = after.marker THEN Append(store.log[s], m) ELSE store.log[s]
      /\ store.marker \in store.made => after.marker = store.marker /\ after.made = store.made
  BY <1>1, <1>2, <1>3, ChatAppendFollows
<1>6. PICK new \in ChatTurn : /\ turn' = [turn EXCEPT ![t] = new] /\ new.status = status
                              /\ new.session = turn[t].session /\ new.moved = turn[t].moved
  <2>1. PICK new : new = [turn[t] EXCEPT !.status = status, !.aborted = FALSE, !.watched = FALSE]
    OBVIOUS
  <2>2. turn[t] \in ChatTurn /\ status \in Chat!Statuses
    BY <1>1 DEF Chat!Statuses
  <2>3. new \in ChatTurn /\ new.status = status /\ new.session = turn[t].session /\ new.moved = turn[t].moved
    BY <2>1, <2>2 DEF ChatTurn
  <2> QED BY <1>4, <2>1, <2>3
<1>7. turn' \in [Chat!Turns -> ChatTurn] /\ turn'[t] = new /\ \A u \in Chat!Turns : u # t => turn'[u] = turn[u]
  BY <1>1, <1>6
<1>8. \A u \in Chat!Turns : u # t => u \notin Chat!Running
  BY <1>4 DEF ChatInv, ChatTurns
<1>9. Chat!Running' = {}
  BY <1>6, <1>7, <1>8 DEF Chat!Running, Chat!Ended
<1>10. ChatTypes' /\ ChatBook(store)'
  BY <1>1, <1>4, <1>5, <1>7 DEF ChatTypes, ChatBook
<1>11. ChatTurns'
  <2>1. ASSUME NEW u \in Chat!Turns, turn'[u].status # "none" PROVE turn'[u].session \in 1..store'.born
    <3>1. turn[u].status # "none" /\ turn'[u].session = turn[u].session
      BY <1>4, <1>6, <1>7, <2>1 DEF Chat!Running
    <3>2. turn[u].session \in 1..store.born /\ store.born <= after.born /\ store.born \in Nat /\ after.born \in Nat
      BY <1>1, <1>5, <3>1, ChatFields DEF ChatInv, ChatTurns, ChatFolder, ChatBook
    <3> QED BY <1>4, <3>1, <3>2
  <2> QED BY <1>9, <2>1 DEF ChatTurns
<1>12. AnswerInPlace'
  <2> SUFFICES ASSUME NEW u \in Chat!Turns, turn'[u].status \in Chat!Ended, ~turn'[u].moved,
                      turn'[u].session \in store'.made
               PROVE  Chat!Answered(u, store'.log[turn'[u].session])
    BY DEF AnswerInPlace, Chat!AnswerInPlace
  <2>1. CASE u = t
    <3>1. /\ turn[t].session = store.marker /\ store.marker \in store.made
          /\ AskedOnly(t, store.log[store.marker])
      BY <1>4, <1>6, <1>7, <2>1 DEF ChatInv, ChatTurns
    <3>2. /\ after.log[store.marker] = Append(store.log[store.marker], m)
          /\ store.log[store.marker] \in Seq(Chat!Message)
      BY <1>1, <1>5, <3>1, ChatFields DEF ChatFolder
    <3>3. Chat!Answered(t, after.log[store.marker])
      BY <1>2, <3>1, <3>2, ChatAnswer
    <3> QED BY <1>4, <1>6, <1>7, <2>1, <3>1, <3>3
  <2>2. CASE u # t
    <3>1. \A s \in store.made : after.log[s] = store.log[s] \/ after.log[s] = Append(store.log[s], m)
      BY <1>1, <1>5, ChatFields DEF ChatFolder
    <3> QED BY <1>2, <1>4, <1>5, <1>7, <2>2, <3>1, ChatEarlier
  <2> QED BY <2>1, <2>2
<1> QED BY <1>10, <1>11, <1>12 DEF ChatInv

\* A Telegram turn sums up yesterday when it reads its memory.
LEMMA ChatTelegramReads ==
    ASSUME ChatInv, Chat!TelegramReads
    PROVE  ChatInv'
<1> USE ChatNumbers
<1>1. ChatBook(store) /\ day \in Chat!Days /\ ChatFolder(store)
  BY DEF ChatInv, ChatTypes, ChatBook
<1>2. PICK now : now = Chat!Resolved(store)
  OBVIOUS
<1>3. /\ ChatBook(now) /\ now.log = store.log /\ now.marker \in now.made /\ store.born <= now.born
      /\ now.made \cap (1..store.born) \subseteq store.made
  BY <1>1, <1>2, ChatResolved, ChatBookResolved
<1>4. PICK summed : summed = Chat!Summarized(now)
  OBVIOUS
<1>5. /\ ChatBook(summed) /\ summed.log = now.log
      /\ summed.made = now.made /\ summed.born = now.born /\ summed.marker = now.marker
  BY <1>1, <1>3, <1>4, ChatSums
<1>6. Chat!Stores(summed) /\ telegram' \in Chat!Stages /\ day' = day
  BY <1>2, <1>4 DEF Chat!TelegramReads, Chat!Stages
<1>7. ChatFollows(summed)
  BY <1>3, <1>5 DEF ChatFollows
<1> QED BY <1>5, <1>6, <1>7, ChatStores

\* A message of a Telegram turn, in the session that is active when it comes.
LEMMA ChatTelegramWrites ==
    ASSUME ChatInv, NEW m \in Chat!Message, m.turn = 0, m.day = day,
           Chat!Stores(Chat!Appended(store, m)), telegram' \in Chat!Stages, day' = day
    PROVE  ChatInv'
<1>1. ChatBook(store) /\ day \in Chat!Days
  BY DEF ChatInv, ChatTypes
<1>2. PICK after : after = Chat!Appended(store, m)
  OBVIOUS
<1>3. /\ ChatBook(after) /\ store.born <= after.born
      /\ after.made \cap (1..store.born) \subseteq store.made
      /\ \A s \in Chat!Sessions :
            after.log[s] = IF s = after.marker THEN Append(store.log[s], m) ELSE store.log[s]
  BY <1>1, <1>2, ChatAppendFollows
<1>4. after.made \subseteq Chat!Sessions
  BY <1>3, ChatFields DEF ChatBook, ChatFolder
<1>5. ChatFollows(after)
  BY <1>3, <1>4 DEF ChatFollows
<1> QED BY <1>2, <1>3, <1>5, ChatStores

\* Every action of WebChat keeps the invariant.
LEMMA ChatNext == ChatInv /\ Chat!Next => ChatInv'
<1> SUFFICES ASSUME ChatInv, Chat!Next PROVE ChatInv'
  OBVIOUS
<1> USE ChatNumbers
<1>1. /\ ChatBook(store) /\ turn \in [Chat!Turns -> ChatTurn] /\ day \in Chat!Days /\ telegram \in Chat!Stages
      /\ ChatFolder(store) /\ store.born \in Nat
  BY ChatFields DEF ChatInv, ChatTypes, ChatBook, ChatFolder
<1>2. day \in Nat /\ Chat!NoTurn \in ChatTurn /\ Chat!NoTurn.status = "none"
  BY <1>1 DEF Chat!Days, Chat!NoTurn, ChatTurn, Chat!Statuses
<1>3. CASE Chat!Reset
  <2>1. PICK new : new = Chat!NewSession(store)
    OBVIOUS
  <2>2. Chat!Stores(new) /\ store.born < MaxSessions /\ day' = day /\ telegram' = telegram
    BY <1>3, <2>1 DEF Chat!Reset
  <2>3. ChatBook(new) /\ new.log = store.log /\ new.made = store.made \cup {store.born + 1} /\ new.born = store.born + 1
    BY <1>1, <2>1, <2>2, ChatNew, ChatBookNew
  <2>4. ChatFollows(new)
    BY <1>1, <2>3 DEF ChatFollows
  <2> QED BY <1>1, <2>2, <2>3, <2>4, ChatStores
<1>4. CASE Chat!ReadSession
  <2>1. PICK now : now = Chat!Resolved(store)
    OBVIOUS
  <2>2. Chat!Stores(now) /\ day' = day /\ telegram' = telegram
    BY <1>4, <2>1 DEF Chat!ReadSession
  <2>3. /\ ChatBook(now) /\ now.log = store.log /\ store.born <= now.born
        /\ now.made \cap (1..store.born) \subseteq store.made
    BY <1>1, <2>1, ChatResolved, ChatBookResolved
  <2>4. ChatFollows(now)
    BY <2>3 DEF ChatFollows
  <2> QED BY <1>1, <2>2, <2>3, <2>4, ChatStores
<1>5. CASE Chat!TelegramReads
  BY <1>5, ChatTelegramReads
<1>6. CASE Chat!TelegramAsks \/ Chat!TelegramCloses
  <2>1. PICK m \in Chat!Message : m.turn = 0 /\ m.day = day /\ Chat!Stores(Chat!Appended(store, m))
    BY <1>1, <1>6, ChatAsks DEF Chat!TelegramAsks, Chat!TelegramCloses
  <2>2. telegram' \in Chat!Stages /\ day' = day
    BY <1>6 DEF Chat!TelegramAsks, Chat!TelegramCloses, Chat!Stages
  <2> QED BY <2>1, <2>2, ChatTelegramWrites
<1>15. CASE Chat!TelegramStops
  <2>1. telegram' \in Chat!Stages /\ UNCHANGED <<day, store, turn>>
    BY <1>15 DEF Chat!TelegramStops, Chat!Stages
  <2> QED BY <1>1, <1>2, <2>1, ChatKeeps
<1>7. CASE Chat!Midnight
  <2>1. day' \in Chat!Days /\ day <= day' /\ UNCHANGED <<store, turn, telegram>>
    BY <1>1, <1>2, <1>7 DEF Chat!Midnight, Chat!Days
  <2> QED BY <1>1, <2>1, ChatKeeps
<1>8. CASE Chat!Restart
  <2>1. /\ turn' = [t \in Chat!Turns |-> Chat!NoTurn] /\ telegram' \in Chat!Stages /\ UNCHANGED <<day, store>>
    BY <1>8 DEF Chat!Restart, Chat!Stages
  <2>2. turn' \in [Chat!Turns -> ChatTurn] /\ \A t \in Chat!Turns : turn'[t].status = "none"
    BY <1>2, <2>1
  <2> QED BY <1>1, <1>2, <2>1, <2>2, ChatKeeps
<1>9. ASSUME NEW s \in Chat!Sessions, Chat!RemoveSession(s) PROVE ChatInv'
  <2>1. PICK after : after = [store EXCEPT !.made = @ \ {s}, !.log[s] = <<>>]
    OBVIOUS
  <2>2. s \in store.made /\ (store.born < MaxSessions \/ store.made # {s})
    BY <1>9 DEF Chat!RemoveSession
  <2>3. Chat!Stores(after) /\ day' = day /\ telegram' = telegram
    BY <1>9, <2>1 DEF Chat!RemoveSession
  <2>4. /\ after.made = store.made \ {s} /\ after.born = store.born /\ after.daily = store.daily
        /\ after.log = [store.log EXCEPT ![s] = <<>>]
        /\ after = [made |-> after.made, born |-> store.born, marker |-> store.marker, log |-> after.log, daily |-> store.daily]
    BY <1>1, <2>1 DEF ChatFolder, ChatStore
  <2>7. after \in ChatStore
    <3>1. /\ store.made \in SUBSET Chat!Sessions /\ store.born \in 0..MaxSessions /\ store.marker \in 0..MaxSessions
          /\ store.log \in [Chat!Sessions -> Seq(Chat!Message)] /\ store.daily \in [Chat!Days -> Nat]
      BY <1>1, ChatFields DEF ChatFolder
    <3>2. after.made \in SUBSET Chat!Sessions /\ after.log \in [Chat!Sessions -> Seq(Chat!Message)]
      BY <2>4, <3>1, EmptySeq
    <3>3. [made |-> after.made, born |-> store.born, marker |-> store.marker, log |-> after.log, daily |-> store.daily]
             \in ChatStore
      BY <3>1, <3>2, ChatRecord
    <3> QED BY <2>4, <3>3
  <2>5. ChatBook(after) /\ \A u \in after.made : after.log[u] = store.log[u]
    <3>1. /\ after.made = store.made \ {s} /\ after.born = store.born
          /\ after.daily = store.daily
      BY <2>4
    <3>2. \A u \in Chat!Sessions : after.log[u] = IF u = s THEN <<>> ELSE store.log[u]
      BY <1>1, <2>4, ChatFields DEF ChatFolder
    <3>3. ChatBook(store)
      BY <1>1
    <3> QED BY ONLY <2>2, <2>7, <3>1, <3>2, <3>3, ChatRemoves
  <2>6. ChatFollows(after)
    BY <1>1, <2>4, <2>5 DEF ChatFollows
  <2> QED BY <1>1, <2>3, <2>5, <2>6, ChatStores
<1>10. ASSUME NEW s \in Chat!Sessions, NEW files, Chat!SendRefused(s, files) PROVE ChatInv'
  <2>1. PICK after : after = Chat!Activated(s)
    OBVIOUS
  <2>2. Chat!Stores(after) /\ day' = day /\ telegram' = telegram
    BY <1>10, <2>1 DEF Chat!SendRefused, Chat!Refused
  <2>3. ChatBook(after) /\ after.made = store.made /\ after.born = store.born /\ after.log = store.log
    BY <1>1, <2>1, ChatActivates DEF Chat!Activated
  <2>4. ChatFollows(after)
    BY <1>1, <2>3 DEF ChatFollows
  <2> QED BY <1>1, <2>2, <2>3, <2>4, ChatStores
<1>11. ASSUME NEW t \in Chat!Turns, NEW s, NEW files, Chat!Send(t, s, files) PROVE ChatInv'
  BY <1>11, ChatSend
<1>12. ASSUME NEW t \in Chat!Turns, NEW status \in Chat!Ended, Chat!TurnEnds(t, status) PROVE ChatInv'
  BY <1>12, ChatTurnEnds
<1>13. ASSUME NEW t \in Chat!Turns, Chat!StopTurn(t) \/ Chat!Watch(t) \/ Chat!Unwatch(t) \/ Chat!Forget(t)
       PROVE  ChatInv'
  <2>1. UNCHANGED <<day, store, telegram>>
    BY <1>13 DEF Chat!StopTurn, Chat!Watch, Chat!Unwatch, Chat!Forget
  <2>2. PICK new \in ChatTurn :
            /\ turn' = [turn EXCEPT ![t] = new]
            /\ \/ new.status = "none"
               \/ new.status = turn[t].status /\ new.session = turn[t].session /\ new.moved = turn[t].moved
    <3>1. turn[t] \in ChatTurn
      BY <1>1
    <3>2. CASE Chat!Forget(t)
      BY <1>2, <3>2 DEF Chat!Forget
    <3>3. CASE Chat!StopTurn(t)
      <4>1. PICK new : new = [turn[t] EXCEPT !.aborted = TRUE]
        OBVIOUS
      <4>2. new \in ChatTurn /\ new.status = turn[t].status /\ new.session = turn[t].session /\ new.moved = turn[t].moved
        BY <3>1, <4>1 DEF ChatTurn
      <4>3. turn' = [turn EXCEPT ![t] = new]
        BY <3>3, <4>1 DEF Chat!StopTurn
      <4> QED BY <4>2, <4>3
    <3>4. CASE Chat!Watch(t) \/ Chat!Unwatch(t)
      <4>1. PICK w \in BOOLEAN : turn' = [turn EXCEPT ![t].watched = w]
        BY <3>4 DEF Chat!Watch, Chat!Unwatch
      <4>2. PICK new : new = [turn[t] EXCEPT !.watched = w]
        OBVIOUS
      <4>3. new \in ChatTurn /\ new.status = turn[t].status /\ new.session = turn[t].session /\ new.moved = turn[t].moved
        BY <3>1, <4>2 DEF ChatTurn
      <4>4. turn' = [turn EXCEPT ![t] = new]
        BY <4>1, <4>2
      <4> QED BY <4>3, <4>4
    <3> QED BY <1>13, <3>2, <3>3, <3>4
  <2>3. turn' \in [Chat!Turns -> ChatTurn] /\ turn'[t] = new /\ \A u \in Chat!Turns : u # t => turn'[u] = turn[u]
    BY <1>1, <2>2
  <2>4. \A u \in Chat!Turns : \/ turn'[u].status = "none"
                               \/ /\ turn'[u].status = turn[u].status /\ turn'[u].session = turn[u].session
                                  /\ turn'[u].moved = turn[u].moved
    BY <2>2, <2>3
  <2> QED BY <1>1, <1>2, <2>1, <2>3, <2>4, ChatKeeps
<1>14. ASSUME NEW files, Chat!Upload(files) PROVE ChatInv'
  <2>1. UNCHANGED <<day, store, turn, telegram>>
    BY <1>14 DEF Chat!Upload
  <2> QED BY <1>1, <1>2, <2>1, ChatKeeps
<1> QED BY <1>3, <1>4, <1>5, <1>6, <1>7, <1>8, <1>9, <1>10, <1>11, <1>12, <1>13, <1>14, <1>15 DEF Chat!Next

\* While another part moves, the chat stays as it is.
LEMMA ChatRests == ChatInv /\ UNCHANGED chat => ChatInv'
<1> SUFFICES ASSUME ChatInv, UNCHANGED chat PROVE ChatInv'
  OBVIOUS
<1>1. UNCHANGED <<day, store, turn, telegram>> /\ day \in Chat!Days /\ turn \in [Chat!Turns -> ChatTurn] /\ telegram \in Chat!Stages
  BY DEF chat, ChatInv, ChatTypes
<1>2. day <= day
  BY <1>1, ChatNumbers DEF Chat!Days
<1> QED BY <1>1, <1>2, ChatKeeps

\* The invariant holds throughout.
LEMMA ChatAlways == WorkSpec => []ChatInv
<1>1. ChatInv /\ [WorkNext]_<<vars, talk, chat, gateway_service, ssh, reply, focus>> => ChatInv'
  BY ChatNext, ChatRests DEF WorkNext, ChatMoves, chat
<1> QED BY ChatInit, <1>1, PTL DEF WorkSpec

\* A turn of the web chat that has ended left its question and one answer, in
\* that order, in the session it asked in, for any number of sessions, turns
\* and days, unless that session was left or removed meanwhile.
THEOREM AnswersFollowQuestions == WorkSpec => []AnswerInPlace
<1>1. ChatInv => AnswerInPlace
  BY DEF ChatInv
<1> QED BY ChatAlways, <1>1, PTL

\* The summary of a day was made of no fewer messages than the sessions have of
\* that day, whatever Telegram and web turns write and in whatever order
\* sessions come and go.
THEOREM SummariesAreWhole == WorkSpec => []SummaryIsWhole
<1>1. ChatInv => SummaryIsWhole
  BY DEF ChatInv, ChatBook, SummaryIsWhole, Chat!SummaryIsWhole
<1> QED BY ChatAlways, <1>1, PTL

-----------------------------------------------------------------------------
(***************************************************************************)
(* GatewayService: a restart takes effect.                                 *)
(***************************************************************************)
\* A command at work, with the settings it goes by and the steps it has left.
GatewayCommand == [op: {"none", "start", "stop", "restart", "upgrade"},
                   settings: Service!Settings \cup {Service!None},
                   steps: Seq(Service!StepNames), ignored: BOOLEAN]

GatewayInstall == [kind: {"clone", "package", "other"}, source: Nat, built: Nat, clean: BOOLEAN]

\* The variables of GatewayService are well typed.
GatewayTypes ==
    /\ platform \in {"darwin", "linux", "win32"}
    /\ command \in GatewayCommand
    /\ install \in GatewayInstall
    /\ service \in [is: {"down", "waiting", "up"}, with: Service!Settings \cup {Service!None}, build: Nat]
    /\ {saved, unit, loaded} \subseteq Service!Settings \cup {Service!None}
    /\ published \in Nat

\* The service, if it is there, runs with settings s and what was built last.
RunsWith(s) ==
    service.is # "down" => service.with = s /\ (service.is = "up" => service.build = install.built)

\* How far a restart that met no failure has come, by the steps left to it.
LinuxStage ==
    LET s == command.settings
    IN  \/ command.steps = <<"save", "write", "reload", "enable", "restart">>
        \/ command.steps = <<"write", "reload", "enable", "restart">> /\ saved = s
        \/ command.steps = <<"reload", "enable", "restart">> /\ saved = s /\ unit = s
        \/ command.steps = <<"enable", "restart">> /\ saved = s /\ unit = s /\ loaded = s
        \/ command.steps = <<"restart">> /\ saved = s /\ unit = s /\ loaded = s
        \/ command.steps = <<>> /\ saved = s /\ unit = s /\ loaded = s /\ RunsWith(s)

\* The same under launchd, which unloads the agent and loads it again.
DarwinStage ==
    LET s == command.settings
    IN  \/ command.steps = <<"save", "save", "write", "unload", "load">>
        \/ command.steps = <<"save", "write", "unload", "load">>
        \/ command.steps = <<"write", "unload", "load">> /\ saved = s
        \/ command.steps = <<"unload", "load">> /\ saved = s /\ unit = s
        \/ /\ command.steps = <<"load">> /\ saved = s /\ unit = s
           /\ loaded = Service!None /\ service.is = "down"
        \/ command.steps = <<>> /\ saved = s /\ unit = s /\ loaded = s /\ RunsWith(s)

\* The same with a scheduled task, which is ended, created and run again.
WindowsStage ==
    LET s == command.settings
    IN  \/ command.steps = <<"save", "end", "save", "write", "end", "create", "run">>
        \/ command.steps = <<"end", "save", "write", "end", "create", "run">>
        \/ command.steps = <<"save", "write", "end", "create", "run">>
        \/ command.steps = <<"write", "end", "create", "run">> /\ saved = s
        \/ command.steps = <<"end", "create", "run">> /\ saved = s /\ unit = s
        \/ command.steps = <<"create", "run">> /\ saved = s /\ unit = s /\ service.is = "down"
        \/ command.steps = <<"run">> /\ saved = s /\ unit = s /\ service.is = "down"
        \/ command.steps = <<>> /\ saved = s /\ unit = s /\ RunsWith(s)

\* How far an upgrade has come before it restarts the service, if there is one to make.
UpgradeStage ==
    \/ command.steps = <<"check", "pull", "build", "smoke", "resume">>
    \/ command.steps = <<"package", "smoke", "resume">>
    \/ command.steps = <<"pull", "build", "smoke", "resume">>
    \/ command.steps = <<"build", "smoke", "resume">>
    \/ command.steps = <<"smoke", "resume">>
    \/ command.steps = <<"resume">>
    \/ command.steps = <<>> /\ ~command.settings.is

\* A restart, on whichever platform.
RestartStage ==
    \/ platform = "linux" /\ LinuxStage
    \/ platform = "darwin" /\ DarwinStage
    \/ platform = "win32" /\ WindowsStage

\* What was restarted stays so: whatever begins the service anew reads the settings that are saved.
Settled ==
    /\ command = Service!NoCommand /\ unit = saved /\ RunsWith(saved)
    /\ platform # "win32" => loaded = saved

\* The inductive invariant for RestartTakesEffect.
GatewayInv ==
    /\ GatewayTypes
    /\ command.op = "none" => command = Service!NoCommand
    /\ outcome = "done" => Settled
    /\ command.op = "restart" /\ ~command.ignored => RestartStage
    /\ command.op = "upgrade" /\ ~command.ignored => RestartStage \/ UpgradeStage

-----------------------------------------------------------------------------
\* What a concatenation of two sequences is.
LEMMA Joins ==
  ASSUME NEW S, NEW s \in Seq(S), NEW t \in Seq(S), NEW u \in Seq(S), Len(u) = Len(s) + Len(t),
         \A i \in 1..Len(s) : u[i] = s[i], \A i \in 1..Len(t) : u[Len(s) + i] = t[i]
  PROVE  s \o t = u
<1>1. s \o t \in Seq(S) /\ Len(s \o t) = Len(u)
  BY ConcatProperties
<1>2. ASSUME NEW i \in 1..Len(s \o t) PROVE (s \o t)[i] = u[i]
  <2>1. Len(s) \in Nat /\ Len(t) \in Nat
    BY LenProperties
  <2>2. (s \o t)[i] = IF i <= Len(s) THEN s[i] ELSE t[i - Len(s)]
    BY <1>1, ConcatProperties
  <2>3. CASE i <= Len(s)
    BY <2>1, <2>2, <2>3
  <2>4. CASE i > Len(s)
    <3>1. i - Len(s) \in 1..Len(t) /\ Len(s) + (i - Len(s)) = i
      BY <1>1, <2>1, <2>4
    <3>2. QED BY <2>1, <2>2, <2>4, <3>1
  <2> QED BY <2>1, <2>3, <2>4
<1> QED BY <1>1, <1>2, SeqEqual

\* The steps of a restart, on each platform.
LEMMA RestartPlans ==
  /\ Service!RestartSteps["linux"] = <<"save", "write", "reload", "enable", "restart">>
  /\ Service!RestartSteps["darwin"] = <<"save", "save", "write", "unload", "load">>
  /\ Service!RestartSteps["win32"] = <<"save", "end", "save", "write", "end", "create", "run">>
<1>1. <<"save", "write", "reload", "enable">> \o <<"restart">>
        = <<"save", "write", "reload", "enable", "restart">>
  <2> DEFINE s == <<"save", "write", "reload", "enable">>
             t == <<"restart">>
             u == <<"save", "write", "reload", "enable", "restart">>
  <2>1. s \in Seq(Service!StepNames) /\ t \in Seq(Service!StepNames) /\ u \in Seq(Service!StepNames)
        /\ Len(u) = Len(s) + Len(t)
    BY DEF Service!StepNames
  <2>2. (\A i \in 1..Len(s) : u[i] = s[i]) /\ (\A i \in 1..Len(t) : u[Len(s) + i] = t[i])
    OBVIOUS
  <2> HIDE DEF s, t, u
  <2>3. s \o t = u
    BY <2>1, <2>2, Joins
  <2> QED BY <2>3 DEF s, t, u
<1>2. <<"save">> \o <<"save", "write", "unload", "load">>
        = <<"save", "save", "write", "unload", "load">>
  <2> DEFINE s == <<"save">>
             t == <<"save", "write", "unload", "load">>
             u == <<"save", "save", "write", "unload", "load">>
  <2>1. s \in Seq(Service!StepNames) /\ t \in Seq(Service!StepNames) /\ u \in Seq(Service!StepNames)
        /\ Len(u) = Len(s) + Len(t)
    BY DEF Service!StepNames
  <2>2. (\A i \in 1..Len(s) : u[i] = s[i]) /\ (\A i \in 1..Len(t) : u[Len(s) + i] = t[i])
    OBVIOUS
  <2> HIDE DEF s, t, u
  <2>3. s \o t = u
    BY <2>1, <2>2, Joins
  <2> QED BY <2>3 DEF s, t, u
<1>3. <<"save">> \o <<"end">>
        = <<"save", "end">>
  <2> DEFINE s == <<"save">>
             t == <<"end">>
             u == <<"save", "end">>
  <2>1. s \in Seq(Service!StepNames) /\ t \in Seq(Service!StepNames) /\ u \in Seq(Service!StepNames)
        /\ Len(u) = Len(s) + Len(t)
    BY DEF Service!StepNames
  <2>2. (\A i \in 1..Len(s) : u[i] = s[i]) /\ (\A i \in 1..Len(t) : u[Len(s) + i] = t[i])
    OBVIOUS
  <2> HIDE DEF s, t, u
  <2>3. s \o t = u
    BY <2>1, <2>2, Joins
  <2> QED BY <2>3 DEF s, t, u
<1>4. <<"save", "end">> \o <<"save", "write", "end", "create", "run">>
        = <<"save", "end", "save", "write", "end", "create", "run">>
  <2> DEFINE s == <<"save", "end">>
             t == <<"save", "write", "end", "create", "run">>
             u == <<"save", "end", "save", "write", "end", "create", "run">>
  <2>1. s \in Seq(Service!StepNames) /\ t \in Seq(Service!StepNames) /\ u \in Seq(Service!StepNames)
        /\ Len(u) = Len(s) + Len(t)
    BY DEF Service!StepNames
  <2>2. (\A i \in 1..Len(s) : u[i] = s[i]) /\ (\A i \in 1..Len(t) : u[Len(s) + i] = t[i])
    OBVIOUS
  <2> HIDE DEF s, t, u
  <2>3. s \o t = u
    BY <2>1, <2>2, Joins
  <2> QED BY <2>3 DEF s, t, u
<1>5. Service!RestartSteps["linux"] = <<"save", "write", "reload", "enable">> \o <<"restart">>
  BY DEF Service!RestartSteps, Service!StartSteps
<1>6. Service!RestartSteps["darwin"] = <<"save">> \o <<"save", "write", "unload", "load">>
  BY DEF Service!RestartSteps, Service!StartSteps
<1>7. Service!RestartSteps["win32"] = (<<"save">> \o <<"end">>) \o <<"save", "write", "end", "create", "run">>
  BY DEF Service!RestartSteps, Service!StartSteps, Service!StopSteps
<1> QED BY <1>1, <1>2, <1>3, <1>4, <1>5, <1>6, <1>7, Zenon

\* The steps of the other commands are sequences of steps.
LEMMA Plans ==
  ASSUME NEW p \in {"darwin", "linux", "win32"}
  PROVE  /\ Service!StartSteps[p] \in Seq(Service!StepNames)
         /\ Service!StopSteps[p] \in Seq(Service!StepNames)
         /\ Service!RestartSteps[p] \in Seq(Service!StepNames)
         /\ \A kind \in {"clone", "package", "other"} : Service!UpgradeSteps[kind] \in Seq(Service!StepNames)
<1>1. Service!StartSteps[p] \in Seq(Service!StepNames)
  <2>1. CASE p = "darwin"
    BY <2>1 DEF Service!StartSteps, Service!StepNames
  <2>2. CASE p = "linux"
    BY <2>2 DEF Service!StartSteps, Service!StepNames
  <2>3. CASE p = "win32"
    BY <2>3 DEF Service!StartSteps, Service!StepNames
  <2> QED BY <2>1, <2>2, <2>3
<1>2. Service!StopSteps[p] \in Seq(Service!StepNames)
  <2>1. CASE p = "darwin"
    BY <2>1 DEF Service!StopSteps, Service!StepNames
  <2>2. CASE p = "linux"
    BY <2>2 DEF Service!StopSteps, Service!StepNames
  <2>3. CASE p = "win32"
    BY <2>3 DEF Service!StopSteps, Service!StepNames
  <2> QED BY <2>1, <2>2, <2>3
<1>3. Service!RestartSteps[p] \in Seq(Service!StepNames)
  <2>1. CASE p = "darwin"
    BY <2>1, RestartPlans DEF Service!StepNames
  <2>2. CASE p = "linux"
    BY <2>2, RestartPlans DEF Service!StepNames
  <2>3. CASE p = "win32"
    BY <2>3, RestartPlans DEF Service!StepNames
  <2> QED BY <2>1, <2>2, <2>3
<1>4. /\ Service!UpgradeSteps["clone"] \in Seq(Service!StepNames)
      /\ Service!UpgradeSteps["package"] \in Seq(Service!StepNames)
      /\ Service!UpgradeSteps["other"] \in Seq(Service!StepNames)
  BY DEF Service!UpgradeSteps, Service!StepNames
<1> QED BY <1>1, <1>2, <1>3, <1>4

\* The invariant holds at first.
LEMMA GatewayInit == WorkInit => GatewayInv
<1> SUFFICES ASSUME Service!Init PROVE GatewayInv
  BY DEF WorkInit
<1>1. GatewayTypes
  <2>1. install \in GatewayInstall
    BY DEF Service!Init, Service!UpgradeSteps, GatewayInstall
  <2> QED BY <2>1 DEF Service!Init, GatewayTypes, GatewayCommand, Service!NoCommand, Service!Down
<1> QED BY <1>1 DEF GatewayInv, Service!Init, Service!NoCommand

-----------------------------------------------------------------------------
\* What a step does.
LEMMA StepTypes ==
  ASSUME GatewayTypes, Service!Step
  PROVE  /\ GatewayTypes' /\ UNCHANGED <<platform, outcome>>
         /\ command' = [command EXCEPT !.steps = Tail(@)]
<1> DEFINE step == Head(command.steps)
<1>1. /\ command.steps # <<>> /\ Service!Writes(step) /\ Service!Supervisor(step) /\ Service!Install(step)
      /\ command' = [command EXCEPT !.steps = Tail(@)] /\ UNCHANGED <<platform, published, outcome>>
  BY DEF Service!Step
<1>2. Tail(command.steps) \in Seq(Service!StepNames)
  BY <1>1, HeadTailProperties DEF GatewayTypes, GatewayCommand
<1>3. command' \in GatewayCommand
  BY <1>1, <1>2 DEF GatewayTypes, GatewayCommand
<1> HIDE DEF step
<1>4. {saved', unit'} \subseteq Service!Settings \cup {Service!None}
  BY <1>1 DEF GatewayTypes, GatewayCommand, Service!Writes
<1>5. loaded' \in {loaded, unit, Service!None}
  BY <1>1 DEF Service!Supervisor
<1>6. service' \in {service, Service!Down, Service!Starts(loaded), Service!Starts(unit)}
  BY <1>1 DEF Service!Supervisor
<1>7. \A s \in Service!Settings \cup {Service!None} :
         /\ Service!Starts(s) \in [is: {"down", "waiting", "up"}, with: Service!Settings \cup {Service!None}, build: Nat]
         /\ Service!Down \in [is: {"down", "waiting", "up"}, with: Service!Settings \cup {Service!None}, build: Nat]
  BY DEF Service!Starts, Service!Down
<1>8. install' \in GatewayInstall
  BY <1>1 DEF GatewayTypes, GatewayInstall, Service!Install
<1>9. /\ loaded' \in Service!Settings \cup {Service!None}
      /\ service' \in [is: {"down", "waiting", "up"}, with: Service!Settings \cup {Service!None}, build: Nat]
  <2>1. {unit, loaded} \subseteq Service!Settings \cup {Service!None}
    BY DEF GatewayTypes
  <2>2. loaded' \in Service!Settings \cup {Service!None}
    BY <1>5, <2>1
  <2>3. Service!None \in Service!Settings \cup {Service!None}
    OBVIOUS
  <2>4. service \in [is: {"down", "waiting", "up"}, with: Service!Settings \cup {Service!None}, build: Nat]
    BY DEF GatewayTypes
  <2>5. QED BY <1>6, <1>7, <2>1, <2>2, <2>3, <2>4
<1>10. platform' \in {"darwin", "linux", "win32"} /\ published' \in Nat
  BY <1>1 DEF GatewayTypes
<1> QED BY <1>1, <1>3, <1>4, <1>8, <1>9, <1>10 DEF GatewayTypes

\* What a step writes, and what it leaves alone.
LEMMA StepEffect ==
  ASSUME GatewayTypes, Service!Step, NEW step, step = Head(command.steps)
  PROVE  /\ saved' = IF step = "save" THEN command.settings ELSE saved
         /\ unit' = IF step = "write" THEN command.settings ELSE unit
         /\ step \in {"save", "write", "enable", "restart", "end", "run"} => loaded' = loaded
         /\ step \in {"reload", "create"} => loaded' = unit
         /\ step \in {"save", "write", "reload", "create"} => service' = service
         /\ step \in {"unload", "end"} => service'.is = "down"
         /\ step = "unload" => loaded' = Service!None
         /\ step = "load" /\ loaded = Service!None => loaded' = unit /\ service' = Service!Starts(unit)
         /\ step = "run" /\ service.is = "down" => service' = Service!Starts(unit)
         /\ step = "restart" => service' = Service!Starts(loaded)
<1>1. Service!Writes(step) /\ Service!Supervisor(step)
  BY DEF Service!Step
<1>2. saved' = (IF step = "save" THEN command.settings ELSE saved) /\ unit' = (IF step = "write" THEN command.settings ELSE unit)
  BY <1>1 DEF Service!Writes
<1>3. /\ step \in {"save", "write", "enable", "restart", "end", "run"} => loaded' = loaded
      /\ step \in {"reload", "create"} => loaded' = unit
      /\ step = "unload" => loaded' = Service!None
  BY <1>1 DEF Service!Supervisor
<1>4. /\ step \in {"save", "write", "reload", "create"} => service' = service
      /\ step \in {"unload", "end"} => service' = Service!Down
      /\ step = "restart" => service' = Service!Starts(loaded)
      /\ step = "run" /\ service.is = "down" => service' = Service!Starts(unit)
  BY <1>1 DEF Service!Supervisor
<1>5. step = "load" /\ loaded = Service!None => loaded' = unit /\ service' = Service!Starts(unit)
  BY <1>1 DEF Service!Supervisor, Service!None
<1>6. Service!Down.is = "down"
  BY DEF Service!Down
<1> QED BY <1>2, <1>3, <1>4, <1>5, <1>6

\* A gateway that has just been started runs with what it was started with.
LEMMA StartsRuns ==
  ASSUME NEW s, service' = Service!Starts(s)
  PROVE  RunsWith(s)'
  BY DEF RunsWith, Service!Starts

\* A step of a restart under systemd brings it to its next stage, and the last
\* one settles it.
LEMMA LinuxStep ==
  ASSUME GatewayTypes, LinuxStage, Service!Step
  PROVE  LinuxStage'
<1> DEFINE s == command.settings
           step == Head(command.steps)
<1>1. command'.settings = s /\ command'.steps = Tail(command.steps) /\ command.steps # <<>>
  BY StepTypes DEF GatewayTypes, GatewayCommand, Service!Step
<1>2. CASE command.steps = <<"save", "write", "reload", "enable", "restart">>
  <2>1. step = "save" /\ command'.steps = <<"write", "reload", "enable", "restart">>
    BY <1>1, <1>2
  <2>2. saved' = s
    BY <2>1, StepEffect
  <2> QED BY <1>1, <2>1, <2>2 DEF LinuxStage
<1>3. CASE command.steps = <<"write", "reload", "enable", "restart">> /\ saved = s
  <2>1. step = "write" /\ command'.steps = <<"reload", "enable", "restart">>
    BY <1>1, <1>3
  <2>2. saved' = saved /\ unit' = s
    BY <2>1, StepEffect
  <2> QED BY <1>1, <1>3, <2>1, <2>2 DEF LinuxStage
<1>4. CASE command.steps = <<"reload", "enable", "restart">> /\ saved = s /\ unit = s
  <2>1. step = "reload" /\ command'.steps = <<"enable", "restart">>
    BY <1>1, <1>4
  <2>2. saved' = saved /\ unit' = unit /\ loaded' = unit
    BY <2>1, StepEffect
  <2> QED BY <1>1, <1>4, <2>1, <2>2 DEF LinuxStage
<1>5. CASE command.steps = <<"enable", "restart">> /\ saved = s /\ unit = s /\ loaded = s
  <2>1. step = "enable" /\ command'.steps = <<"restart">>
    BY <1>1, <1>5
  <2>2. saved' = saved /\ unit' = unit /\ loaded' = loaded
    BY <2>1, StepEffect
  <2> QED BY <1>1, <1>5, <2>1, <2>2 DEF LinuxStage
<1>6. CASE command.steps = <<"restart">> /\ saved = s /\ unit = s /\ loaded = s
  <2>1. step = "restart" /\ command'.steps = <<>>
    BY <1>1, <1>6
  <2>2. saved' = saved /\ unit' = unit /\ loaded' = loaded /\ service' = Service!Starts(loaded)
    BY <2>1, StepEffect
  <2>3. RunsWith(s)'
    BY <1>1, <1>6, <2>2, StartsRuns
  <2> QED BY <1>1, <1>6, <2>1, <2>2, <2>3 DEF LinuxStage
<1> QED BY <1>1, <1>2, <1>3, <1>4, <1>5, <1>6 DEF LinuxStage

\* So under launchd.
LEMMA DarwinStep ==
  ASSUME GatewayTypes, DarwinStage, Service!Step
  PROVE  DarwinStage'
<1> DEFINE s == command.settings
           step == Head(command.steps)
<1>1. command'.settings = s /\ command'.steps = Tail(command.steps) /\ command.steps # <<>>
  BY StepTypes DEF GatewayTypes, GatewayCommand, Service!Step
<1>2. CASE command.steps = <<"save", "save", "write", "unload", "load">>
  <2>1. step = "save" /\ command'.steps = <<"save", "write", "unload", "load">>
    BY <1>1, <1>2
  <2>2. saved' = s
    BY <1>2, <2>1, StepEffect
  <2> QED BY <1>1, <1>2, <2>1, <2>2 DEF DarwinStage
<1>3. CASE command.steps = <<"save", "write", "unload", "load">>
  <2>1. step = "save" /\ command'.steps = <<"write", "unload", "load">>
    BY <1>1, <1>3
  <2>2. saved' = s
    BY <1>3, <2>1, StepEffect
  <2> QED BY <1>1, <1>3, <2>1, <2>2 DEF DarwinStage
<1>4. CASE command.steps = <<"write", "unload", "load">> /\ saved = s
  <2>1. step = "write" /\ command'.steps = <<"unload", "load">>
    BY <1>1, <1>4
  <2>2. saved' = saved /\ unit' = s
    BY <1>4, <2>1, StepEffect
  <2> QED BY <1>1, <1>4, <2>1, <2>2 DEF DarwinStage
<1>5. CASE command.steps = <<"unload", "load">> /\ saved = s /\ unit = s
  <2>1. step = "unload" /\ command'.steps = <<"load">>
    BY <1>1, <1>5
  <2>2. saved' = saved /\ unit' = unit /\ loaded' = Service!None /\ service'.is = "down"
    BY <1>5, <2>1, StepEffect
  <2> QED BY <1>1, <1>5, <2>1, <2>2 DEF DarwinStage
<1>6. CASE command.steps = <<"load">> /\ saved = s /\ unit = s /\ loaded = Service!None /\ service.is = "down"
  <2>1. step = "load" /\ command'.steps = <<>>
    BY <1>1, <1>6
  <2>2. saved' = saved /\ unit' = unit /\ loaded' = unit /\ service' = Service!Starts(unit)
    BY <1>6, <2>1, StepEffect
  <2>3. RunsWith(s)'
    BY <1>1, <1>6, <2>2, StartsRuns
  <2> QED BY <1>1, <1>6, <2>1, <2>2, <2>3 DEF DarwinStage
<1> QED BY <1>1, <1>2, <1>3, <1>4, <1>5, <1>6 DEF DarwinStage

\* So with a scheduled task.
LEMMA WindowsStep ==
  ASSUME GatewayTypes, WindowsStage, Service!Step
  PROVE  WindowsStage'
<1> DEFINE s == command.settings
           step == Head(command.steps)
<1>1. command'.settings = s /\ command'.steps = Tail(command.steps) /\ command.steps # <<>>
  BY StepTypes DEF GatewayTypes, GatewayCommand, Service!Step
<1>2. CASE command.steps = <<"save", "end", "save", "write", "end", "create", "run">>
  <2>1. step = "save" /\ command'.steps = <<"end", "save", "write", "end", "create", "run">>
    BY <1>1, <1>2
  <2>2. saved' = s
    BY <1>2, <2>1, StepEffect
  <2> QED BY <1>1, <1>2, <2>1, <2>2 DEF WindowsStage
<1>3. CASE command.steps = <<"end", "save", "write", "end", "create", "run">>
  <2>1. step = "end" /\ command'.steps = <<"save", "write", "end", "create", "run">>
    BY <1>1, <1>3
  <2>2. saved' = saved
    BY <1>3, <2>1, StepEffect
  <2> QED BY <1>1, <1>3, <2>1, <2>2 DEF WindowsStage
<1>4. CASE command.steps = <<"save", "write", "end", "create", "run">>
  <2>1. step = "save" /\ command'.steps = <<"write", "end", "create", "run">>
    BY <1>1, <1>4
  <2>2. saved' = s
    BY <1>4, <2>1, StepEffect
  <2> QED BY <1>1, <1>4, <2>1, <2>2 DEF WindowsStage
<1>5. CASE command.steps = <<"write", "end", "create", "run">> /\ saved = s
  <2>1. step = "write" /\ command'.steps = <<"end", "create", "run">>
    BY <1>1, <1>5
  <2>2. saved' = saved /\ unit' = s
    BY <1>5, <2>1, StepEffect
  <2> QED BY <1>1, <1>5, <2>1, <2>2 DEF WindowsStage
<1>6. CASE command.steps = <<"end", "create", "run">> /\ saved = s /\ unit = s
  <2>1. step = "end" /\ command'.steps = <<"create", "run">>
    BY <1>1, <1>6
  <2>2. saved' = saved /\ unit' = unit /\ service'.is = "down"
    BY <1>6, <2>1, StepEffect
  <2> QED BY <1>1, <1>6, <2>1, <2>2 DEF WindowsStage
<1>7. CASE command.steps = <<"create", "run">> /\ saved = s /\ unit = s /\ service.is = "down"
  <2>1. step = "create" /\ command'.steps = <<"run">>
    BY <1>1, <1>7
  <2>2. saved' = saved /\ unit' = unit /\ service' = service
    BY <1>7, <2>1, StepEffect
  <2> QED BY <1>1, <1>7, <2>1, <2>2 DEF WindowsStage
<1>8. CASE command.steps = <<"run">> /\ saved = s /\ unit = s /\ service.is = "down"
  <2>1. step = "run" /\ command'.steps = <<>>
    BY <1>1, <1>8
  <2>2. saved' = saved /\ unit' = unit /\ service' = Service!Starts(unit)
    BY <1>8, <2>1, StepEffect
  <2>3. RunsWith(s)'
    BY <1>1, <1>8, <2>2, StartsRuns
  <2> QED BY <1>1, <1>8, <2>1, <2>2, <2>3 DEF WindowsStage
<1> QED BY <1>1, <1>2, <1>3, <1>4, <1>5, <1>6, <1>7, <1>8 DEF WindowsStage

\* A step of an upgrade brings it to its next stage.
LEMMA UpgradeStep ==
  ASSUME GatewayTypes, UpgradeStage, Service!Step
  PROVE  UpgradeStage'
<1>1. command'.steps = Tail(command.steps) /\ Head(command.steps) # "resume"
  BY StepTypes DEF GatewayTypes, GatewayCommand, Service!Step
<1>2. CASE command.steps = <<"check", "pull", "build", "smoke", "resume">>
  BY <1>1, <1>2 DEF UpgradeStage
<1>3. CASE command.steps = <<"pull", "build", "smoke", "resume">>
  BY <1>1, <1>3 DEF UpgradeStage
<1>4. CASE command.steps = <<"build", "smoke", "resume">>
  BY <1>1, <1>4 DEF UpgradeStage
<1>5. CASE command.steps = <<"smoke", "resume">>
  BY <1>1, <1>5 DEF UpgradeStage
<1>6. CASE command.steps = <<"resume">> \/ command.steps = <<>>
  BY <1>1, <1>6 DEF Service!Step
<1>7. CASE command.steps = <<"package", "smoke", "resume">>
  BY <1>1, <1>7 DEF UpgradeStage
<1> QED BY <1>2, <1>3, <1>4, <1>5, <1>6, <1>7 DEF UpgradeStage

\* A gateway that begins to listen or dies runs with the settings it ran with,
\* or with those of its unit.
LEMMA RunsBeside ==
  ASSUME GatewayTypes, NEW s, RunsWith(s), platform # "win32" => loaded = s,
         UNCHANGED <<platform, loaded, install.built>>,
         \/ service' = service
         \/ service.is = "waiting" /\ service' = [service EXCEPT !.is = "up", !.build = install.built]
         \/ service.is = "up" /\ service' = Service!Starts(IF platform = "win32" THEN service.with ELSE loaded)
  PROVE  RunsWith(s)'
<1>1. CASE service' = service
  BY <1>1 DEF RunsWith
<1>2. CASE service.is = "waiting" /\ service' = [service EXCEPT !.is = "up", !.build = install.built]
  <2>1. service'.with = service.with /\ service'.build = install.built
    BY <1>2 DEF GatewayTypes
  <2> QED BY <1>2, <2>1 DEF RunsWith
<1>3. CASE service.is = "up" /\ service' = Service!Starts(IF platform = "win32" THEN service.with ELSE loaded)
  <2>1. (IF platform = "win32" THEN service.with ELSE loaded) = s
    BY <1>3 DEF RunsWith
  <2> QED BY <1>3, <2>1, StartsRuns
<1> QED BY <1>1, <1>2, <1>3

\* Beside the command a gateway begins to listen or dies, somebody edits or publishes.
LEMMA StageBeside ==
  ASSUME GatewayTypes, RestartStage,
         UNCHANGED <<platform, command, saved, unit, loaded, install.built>>,
         \/ service' = service
         \/ service.is = "waiting" /\ service' = [service EXCEPT !.is = "up", !.build = install.built]
         \/ service.is = "up" /\ service' = Service!Starts(IF platform = "win32" THEN service.with ELSE loaded)
  PROVE  RestartStage'
<1> DEFINE s == command.settings
<1>1. service.is = "down" => service' = service
  OBVIOUS
<1>2. RunsWith(s) /\ (platform # "win32" => loaded = s) => RunsWith(s)'
  <2>1. s' = s
    OBVIOUS
  <2> HIDE DEF s
  <2> QED BY <2>1, RunsBeside
<1>3. UNCHANGED <<command.steps, command.settings>>
  OBVIOUS
<1> HIDE DEF s
<1>4. CASE platform = "linux" /\ LinuxStage
  <2>1. LinuxStage'
    BY <1>2, <1>3, <1>4 DEF LinuxStage, s
  <2> QED BY <1>4, <2>1 DEF RestartStage
<1>5. CASE platform = "darwin" /\ DarwinStage
  <2>1. DarwinStage'
    BY <1>1, <1>2, <1>3, <1>5 DEF DarwinStage, s
  <2> QED BY <1>5, <2>1 DEF RestartStage
<1>6. CASE platform = "win32" /\ WindowsStage
  <2>1. WindowsStage'
    BY <1>1, <1>2, <1>3, <1>6 DEF WindowsStage, s
  <2> QED BY <1>6, <2>1 DEF RestartStage
<1> QED BY <1>4, <1>5, <1>6 DEF RestartStage

\* Nor does that unsettle a service that was restarted.
LEMMA SettledBeside ==
  ASSUME GatewayTypes, Settled,
         UNCHANGED <<platform, command, saved, unit, loaded, install.built>>,
         \/ service' = service
         \/ service.is = "waiting" /\ service' = [service EXCEPT !.is = "up", !.build = install.built]
         \/ service.is = "up" /\ service' = Service!Starts(IF platform = "win32" THEN service.with ELSE loaded)
  PROVE  Settled'
<1>1. RunsWith(saved)'
  BY RunsBeside DEF Settled
<1> QED BY <1>1 DEF Settled

\* What happens beside the commands keeps the invariant.
LEMMA GatewayBeside ==
  ASSUME GatewayInv, GatewayTypes',
         UNCHANGED <<platform, command, saved, unit, loaded, install.built, outcome>>,
         \/ service' = service
         \/ service.is = "waiting" /\ service' = [service EXCEPT !.is = "up", !.build = install.built]
         \/ service.is = "up" /\ service' = Service!Starts(IF platform = "win32" THEN service.with ELSE loaded)
  PROVE  GatewayInv'
<1>1. outcome' = "done" => Settled'
  BY SettledBeside DEF GatewayInv
<1>2. RestartStage => RestartStage'
  BY StageBeside DEF GatewayInv
<1>3. UpgradeStage => UpgradeStage'
  BY DEF UpgradeStage
<1> QED BY <1>1, <1>2, <1>3 DEF GatewayInv

\* A step that succeeds keeps the invariant.
LEMMA GatewayStep ==
  ASSUME GatewayInv, Service!Step
  PROVE  GatewayInv'
<1>1. /\ GatewayTypes /\ GatewayTypes' /\ UNCHANGED <<platform, outcome>>
      /\ UNCHANGED <<command.op, command.ignored>>
  BY StepTypes DEF GatewayInv, GatewayTypes, GatewayCommand
<1>2. command.steps # <<>> /\ command # Service!NoCommand
  BY DEF Service!Step, Service!NoCommand
<1>3. RestartStage => RestartStage'
  BY <1>1, LinuxStep, DarwinStep, WindowsStep DEF RestartStage
<1>4. UpgradeStage => UpgradeStage'
  BY <1>1, UpgradeStep
<1>5. command'.op # "none" /\ outcome' # "done"
  BY <1>1, <1>2 DEF GatewayInv, Settled
<1> QED BY <1>1, <1>3, <1>4, <1>5 DEF GatewayInv

\* An upgrade that restarts the service goes on as a restart does.
LEMMA GatewayResume ==
  ASSUME GatewayInv, Service!Resume
  PROVE  GatewayInv'
<1>1. /\ UNCHANGED <<platform, saved, unit, loaded, enabled, service, foreground, published, install, outcome>>
      /\ command.steps # <<>> /\ Head(command.steps) = "resume"
  BY DEF Service!Resume
<1>2. outcome' # "done"
  BY <1>1 DEF GatewayInv, Settled, Service!NoCommand
<1>3. CASE command' = Service!NoCommand
  <2>1. GatewayTypes'
    BY <1>1, <1>3 DEF GatewayInv, GatewayTypes, GatewayCommand, Service!NoCommand
  <2> QED BY <1>2, <1>3, <2>1 DEF GatewayInv, Service!NoCommand
<1>4. CASE command' = [command EXCEPT !.settings = Service!RuntimeConfig, !.steps = Service!RestartSteps[platform]]
  <2> DEFINE config == Service!RuntimeConfig
             steps == Service!RestartSteps[platform]
  <2>1. config \in Service!Settings \cup {Service!None}
    BY DEF Service!RuntimeConfig, GatewayInv, GatewayTypes
  <2>2. steps \in Seq(Service!StepNames)
    BY Plans DEF GatewayInv, GatewayTypes
  <2>3. command' = [command EXCEPT !.settings = config, !.steps = steps]
    BY <1>4
  <2>4. \/ steps = <<"save", "write", "reload", "enable", "restart">> /\ platform = "linux"
        \/ steps = <<"save", "save", "write", "unload", "load">> /\ platform = "darwin"
        \/ steps = <<"save", "end", "save", "write", "end", "create", "run">> /\ platform = "win32"
    BY RestartPlans DEF GatewayInv, GatewayTypes
  <2> HIDE DEF config, steps
  <2>5. command' \in GatewayCommand /\ command'.steps = steps /\ command'.op = command.op
    BY <2>1, <2>2, <2>3 DEF GatewayInv, GatewayTypes, GatewayCommand
  <2>6. GatewayTypes'
    BY <1>1, <2>5 DEF GatewayInv, GatewayTypes
  <2>7. RestartStage'
    BY <1>1, <2>4, <2>5 DEF RestartStage, LinuxStage, DarwinStage, WindowsStage
  <2>8. command.op # "none"
    BY <1>1 DEF GatewayInv, Service!NoCommand
  <2> QED BY <1>2, <2>5, <2>6, <2>7, <2>8 DEF GatewayInv
<1> QED BY <1>3, <1>4 DEF Service!Resume

\* A step that fails ends its command or is passed over, and then nothing is
\* said of the outcome.
LEMMA GatewayStepFails ==
  ASSUME GatewayInv, Service!StepFails
  PROVE  GatewayInv'
<1>1. /\ UNCHANGED <<platform, saved, unit, loaded, enabled, service, foreground, published, install, outcome>>
      /\ command.steps # <<>>
  BY DEF Service!StepFails
<1>2. outcome' # "done" /\ command.op # "none"
  BY <1>1 DEF GatewayInv, Settled, Service!NoCommand
<1>3. CASE command' = Service!NoCommand
  <2>1. GatewayTypes'
    BY <1>1, <1>3 DEF GatewayInv, GatewayTypes, GatewayCommand, Service!NoCommand
  <2> QED BY <1>2, <1>3, <2>1 DEF GatewayInv, Service!NoCommand
<1>4. CASE command' = [command EXCEPT !.steps = Tail(@), !.ignored = TRUE]
  <2>1. Tail(command.steps) \in Seq(Service!StepNames)
    BY <1>1, HeadTailProperties DEF GatewayInv, GatewayTypes, GatewayCommand
  <2>2. command' \in GatewayCommand /\ command'.op = command.op /\ command'.ignored = TRUE
    BY <1>4, <2>1 DEF GatewayInv, GatewayTypes, GatewayCommand
  <2>3. GatewayTypes'
    BY <1>1, <2>2 DEF GatewayInv, GatewayTypes
  <2> QED BY <1>2, <2>2, <2>3 DEF GatewayInv
<1> QED BY <1>3, <1>4 DEF Service!StepFails

\* A command without steps left is done; a restart that is done has settled.
LEMMA GatewayFinished ==
  ASSUME GatewayInv, Service!Finished
  PROVE  GatewayInv'
<1>1. /\ UNCHANGED <<platform, saved, unit, loaded, enabled, service, foreground, published, install>>
      /\ command.steps = <<>> /\ command' = Service!NoCommand
  BY DEF Service!Finished
<1>2. GatewayTypes'
  BY <1>1 DEF GatewayInv, GatewayTypes, GatewayCommand, Service!NoCommand
<1>3. ASSUME outcome' = "done" PROVE Settled'
  <2>1. command.op \in {"restart", "upgrade"} /\ ~command.ignored /\ command.settings.is
    BY <1>3 DEF Service!Finished
  <2>2. ~UpgradeStage
    BY <1>1, <2>1 DEF UpgradeStage
  <2>3. RestartStage
    BY <2>1, <2>2 DEF GatewayInv
  <2>4. unit = saved /\ RunsWith(saved) /\ (platform # "win32" => loaded = saved)
    BY <1>1, <2>3 DEF RestartStage, LinuxStage, DarwinStage, WindowsStage
  <2> QED BY <1>1, <2>4 DEF Settled, RunsWith
<1> QED BY <1>1, <1>2, <1>3 DEF GatewayInv, Service!NoCommand

\* A command begins with all its steps before it.
LEMMA GatewayBegins ==
  ASSUME GatewayInv, NEW op \in {"start", "stop", "restart", "upgrade"},
         NEW s \in Service!Settings \cup {Service!None}, NEW steps \in Seq(Service!StepNames),
         op = "restart" => steps = Service!RestartSteps[platform],
         op = "upgrade" => s = Service!None /\ steps = Service!UpgradeSteps[install.kind],
         Service!Begins(op, s, steps)
  PROVE  GatewayInv'
<1>1. /\ command' = [op |-> op, settings |-> s, steps |-> steps, ignored |-> FALSE] /\ outcome' = "none"
      /\ UNCHANGED <<platform, saved, unit, loaded, enabled, service, foreground, published, install>>
  BY DEF Service!Begins
<1>2. GatewayTypes'
  BY <1>1 DEF GatewayInv, GatewayTypes, GatewayCommand
<1>3. op = "restart" => RestartStage'
  <2>1. \/ Service!RestartSteps[platform] = <<"save", "write", "reload", "enable", "restart">> /\ platform = "linux"
        \/ Service!RestartSteps[platform] = <<"save", "save", "write", "unload", "load">> /\ platform = "darwin"
        \/ Service!RestartSteps[platform] = <<"save", "end", "save", "write", "end", "create", "run">> /\ platform = "win32"
    BY RestartPlans DEF GatewayInv, GatewayTypes
  <2> QED BY <1>1, <2>1 DEF RestartStage, LinuxStage, DarwinStage, WindowsStage
<1>4. op = "upgrade" => UpgradeStage'
  <2>1. install.kind \in {"clone", "package", "other"}
    BY DEF GatewayInv, GatewayTypes, GatewayInstall
  <2> QED BY <1>1, <2>1 DEF UpgradeStage, Service!UpgradeSteps, Service!None
<1> QED BY <1>1, <1>2, <1>3, <1>4 DEF GatewayInv

\* A login starts the service from its unit.
LEMMA GatewayLogin ==
  ASSUME GatewayInv, Service!Login
  PROVE  GatewayInv'
<1>1. /\ UNCHANGED <<platform, saved, unit, enabled, published, install, outcome>> /\ command' = Service!NoCommand
      /\ \/ loaded' = unit /\ service' = Service!Starts(unit)
         \/ loaded' = loaded /\ service' = Service!Down
  BY DEF Service!Login
<1>2. GatewayTypes'
  <2>1. command' \in GatewayCommand
    BY <1>1 DEF GatewayCommand, Service!NoCommand
  <2>2. service' \in [is: {"down", "waiting", "up"}, with: Service!Settings \cup {Service!None}, build: Nat]
    BY <1>1 DEF GatewayInv, GatewayTypes, Service!Starts, Service!Down
  <2> QED BY <1>1, <2>1, <2>2 DEF GatewayInv, GatewayTypes
<1>3. outcome = "done" => Settled'
  <2>1. RunsWith(unit)'
    BY <1>1 DEF RunsWith, Service!Starts, Service!Down
  <2> QED BY <1>1, <2>1 DEF GatewayInv, Settled, RunsWith
<1> QED BY <1>1, <1>2, <1>3 DEF GatewayInv, Service!NoCommand

\* Every action of GatewayService keeps the invariant.
LEMMA GatewayNext == GatewayInv /\ Service!Next => GatewayInv'
<1> SUFFICES ASSUME GatewayInv, Service!Next PROVE GatewayInv'
  OBVIOUS
<1>1. platform \in {"darwin", "linux", "win32"}
  BY DEF GatewayInv, GatewayTypes
<1>2. ASSUME NEW s \in Service!Settings, Service!StartCommand(s) \/ Service!RestartCommand(s) PROVE GatewayInv'
  BY <1>1, <1>2, Plans, GatewayBegins DEF Service!StartCommand, Service!RestartCommand
<1>3. CASE Service!StopCommand
  BY <1>1, <1>3, Plans, GatewayBegins DEF Service!StopCommand
<1>4. CASE Service!UpgradeCommand
  <2>1. Service!UpgradeSteps[install.kind] \in Seq(Service!StepNames)
    BY <1>1, Plans DEF GatewayInv, GatewayTypes, GatewayInstall
  <2> QED BY <1>1, <1>4, <2>1, GatewayBegins DEF Service!UpgradeCommand
<1>5. ASSUME \/ \E port \in Ports : Service!Foreground(port)
             \/ Service!ForegroundEnds \/ Service!ServiceListens \/ Service!ServiceDies
             \/ Service!Publish \/ Service!Edit
      PROVE GatewayInv'
  <2>1. /\ UNCHANGED <<platform, command, saved, unit, loaded, install.built, outcome>>
        /\ \/ service' = service
           \/ service.is = "waiting" /\ service' = [service EXCEPT !.is = "up", !.build = install.built]
           \/ service.is = "up" /\ service' = Service!Starts(IF platform = "win32" THEN service.with ELSE loaded)
    BY <1>5 DEF Service!Foreground, Service!ForegroundEnds, Service!ServiceListens, Service!ServiceDies,
                Service!Publish, Service!Edit, GatewayInv, GatewayTypes, GatewayInstall
  <2>2. install' \in GatewayInstall /\ published' \in Nat
    <3>1. CASE Service!Edit
      BY <3>1 DEF Service!Edit, GatewayInv, GatewayTypes, GatewayInstall
    <3>2. CASE install' = install /\ published' \in {published, published + 1}
      BY <3>2 DEF GatewayInv, GatewayTypes
    <3> QED BY <1>5, <3>1, <3>2 DEF Service!Foreground, Service!ForegroundEnds, Service!ServiceListens,
                Service!ServiceDies, Service!Publish
  <2>3. service' \in [is: {"down", "waiting", "up"}, with: Service!Settings \cup {Service!None}, build: Nat]
    <3>1. /\ service \in [is: {"down", "waiting", "up"}, with: Service!Settings \cup {Service!None}, build: Nat]
          /\ install.built \in Nat /\ loaded \in Service!Settings \cup {Service!None}
      BY DEF GatewayInv, GatewayTypes, GatewayInstall
    <3>2. (IF platform = "win32" THEN service.with ELSE loaded) \in Service!Settings \cup {Service!None}
      BY <3>1
    <3>3. \A s \in Service!Settings \cup {Service!None} :
            Service!Starts(s) \in [is: {"down", "waiting", "up"}, with: Service!Settings \cup {Service!None}, build: Nat]
      BY DEF Service!Starts
    <3>4. [service EXCEPT !.is = "up", !.build = install.built]
             \in [is: {"down", "waiting", "up"}, with: Service!Settings \cup {Service!None}, build: Nat]
      BY <3>1
    <3> QED BY <2>1, <3>1, <3>2, <3>3, <3>4
  <2>4. GatewayTypes'
    BY <2>1, <2>2, <2>3 DEF GatewayInv, GatewayTypes
  <2> QED BY <2>1, <2>4, GatewayBeside
<1> QED BY <1>2, <1>3, <1>4, <1>5, GatewayStep, GatewayResume, GatewayStepFails, GatewayFinished, GatewayLogin
        DEF Service!Next

\* While another part moves, the service stays as it is.
LEMMA GatewayRests == GatewayInv /\ UNCHANGED gateway_service => GatewayInv'
  BY DEF gateway_service, GatewayInv, GatewayTypes, Settled, RestartStage, LinuxStage, DarwinStage, WindowsStage,
         UpgradeStage, RunsWith

\* After a restart or an upgrade the service runs with what is saved and built, on
\* each platform, whatever steps of other commands failed before it.
THEOREM RestartsTakeEffect == WorkSpec => []RestartTakesEffect
<1>1. GatewayInv /\ [WorkNext]_<<vars, talk, chat, gateway_service, ssh, reply, focus>> => GatewayInv'
  BY GatewayNext, GatewayRests DEF WorkNext, ServiceMoves
<1>2. GatewayInv => RestartTakesEffect
  BY DEF GatewayInv, Settled, RunsWith, RestartTakesEffect, Service!RestartTakesEffect
<1> QED BY GatewayInit, <1>1, <1>2, PTL DEF WorkSpec

-----------------------------------------------------------------------------
(***************************************************************************)
(* ManualSsh: a session that holds its profile has a worker.               *)
(***************************************************************************)
\* A worker, and a command with the copy of a record it carries, as they can
\* be.
SshWorker == [pc: {"none", "boot", "live", "gone"}, copy: Ssh!Record, offset: 0..MaxInputs,
              term: BOOLEAN, ssh: {"none", "up", "killed"}]

SshCommand == [op: {"none", "create", "record", "read", "write", "stop", "signal"},
               session: SshSessions, copy: Ssh!Record]

\* The variables of ManualSsh are well typed.
SshTypes ==
    /\ disk \in [SshSessions -> Ssh!Record] /\ worker \in [SshSessions -> SshWorker]
    /\ asked \in [Commands -> SshCommand]
    /\ transcript \in [SshSessions -> 0..MaxChunks] /\ inbox \in [SshSessions -> 0..MaxInputs]
    /\ unlucky \in [SshSessions -> BOOLEAN]

\* A session that has a record, and one that a command found a record of, has
\* had a worker.
SshBegun ==
    /\ \A s \in SshSessions : disk[s].state # "none" => worker[s].pc # "none"
    /\ \A c \in Commands :
         asked[c].op \in {"record", "read", "write", "stop", "signal"} => worker[asked[c].session].pc # "none"

\* The inductive invariant for ActiveHasWorker.
SshInv == SshTypes /\ SshBegun /\ ActiveHasWorker

\* There is something to connect to, and bounds are numbers.
LEMMA SshBounds ==
    /\ SshSessions # {} /\ Profiles # {} /\ SshAgents # {}
    /\ MaxChunks \in Nat /\ MaxInputs \in Nat
  BY WorkAssumption

\* No record and no worker are of their types.
LEMMA SshNobody == Ssh!NoRecord \in Ssh!Record /\ Ssh!NoWorker \in SshWorker
  BY SshBounds DEF Ssh!NoRecord, Ssh!NoWorker, SshWorker, Ssh!Record, Ssh!States

\* The invariant holds at first.
LEMMA SshInit == WorkInit => SshInv
<1> SUFFICES ASSUME Ssh!Init PROVE SshInv
  BY DEF WorkInit
<1>1. Ssh!NoRecord \in Ssh!Record
  BY SshBounds DEF Ssh!NoRecord, Ssh!Record, Ssh!States
<1>2. SshTypes
  BY <1>1, SshBounds DEF SshTypes, Ssh!Init, Ssh!NoWorker, Ssh!Rest, SshWorker, SshCommand
<1>3. SshBegun /\ ActiveHasWorker
  BY <1>1 DEF SshBegun, ActiveHasWorker, Ssh!ActiveHasWorker, Ssh!Init, Ssh!NoRecord, Ssh!NoWorker, Ssh!Rest, Ssh!Active
<1> QED BY <1>2, <1>3 DEF SshInv

\* A command that writes back the record it read, however old, keeps what the
\* invariant says of records.
LEMMA SshWritesBack ==
  ASSUME SshInv, NEW s \in SshSessions, NEW copy \in Ssh!Record, Ssh!WritesBack(s, copy), UNCHANGED worker,
         worker[s].pc # "none"
  PROVE  /\ disk' \in [SshSessions -> Ssh!Record] /\ unlucky' \in [SshSessions -> BOOLEAN]
         /\ \A t \in SshSessions : disk'[t].state # "none" => worker'[t].pc # "none"
         /\ ActiveHasWorker'
<1>1. disk' \in [SshSessions -> Ssh!Record] /\ unlucky' \in [SshSessions -> BOOLEAN]
  BY DEF SshInv, SshTypes, Ssh!WritesBack, Ssh!Gone
<1>2. \A t \in SshSessions : disk'[t].state # "none" => worker'[t].pc # "none"
  BY DEF SshInv, SshTypes, SshBegun, Ssh!WritesBack
<1>3. ActiveHasWorker'
  BY DEF SshInv, SshTypes, SshWorker, Ssh!WritesBack, Ssh!Gone, ActiveHasWorker, Ssh!ActiveHasWorker, Ssh!Active
<1> QED BY <1>1, <1>2, <1>3

\* Every action of ManualSsh keeps the invariant.
LEMMA SshNext == SshInv /\ Ssh!Next => SshInv'
<1> SUFFICES ASSUME SshInv, Ssh!Next PROVE SshInv'
  OBVIOUS
<1> USE SshBounds
<1>1. ASSUME NEW c \in Commands, NEW s \in SshSessions, Ssh!Read(c, s) \/ Ssh!Write(c, s) \/ Ssh!Stop(c, s) 
                    PROVE SshInv'
  <2>1. disk[s].state # "none"
    BY <1>1 DEF Ssh!Read, Ssh!Write, Ssh!Stop, Ssh!Active
  <2>2. PICK op \in {"read", "write", "stop"}, copy \in Ssh!Record : Ssh!Goes(c, op, s, copy)
    BY <1>1 DEF SshInv, SshTypes, Ssh!Read, Ssh!Write, Ssh!Stop, Ssh!Record, Ssh!States
  <2>3. SshTypes'
    BY <1>1, <2>2 DEF SshInv, SshTypes, Ssh!Goes, Ssh!Read, Ssh!Write, Ssh!Stop, SshCommand, Ssh!files, Ssh!history
  <2>4. SshBegun'
    BY <1>1, <2>1, <2>2 DEF SshInv, SshTypes, SshBegun, Ssh!Goes, Ssh!Read, Ssh!Write, Ssh!Stop, SshCommand, Ssh!files, Ssh!history
  <2>5. ActiveHasWorker'
    BY <1>1 DEF SshInv, ActiveHasWorker, Ssh!ActiveHasWorker, Ssh!Read, Ssh!Write, Ssh!Stop, Ssh!files, Ssh!history
  <2>6. QED BY <2>3, <2>4, <2>5 DEF SshInv
<1>2. ASSUME NEW c \in Commands, NEW s \in SshSessions, NEW p \in Profiles, NEW a \in SshAgents, Ssh!Start(c, s, p, a)
      PROVE SshInv'
  <2>2. PICK copy \in Ssh!Record : Ssh!Goes(c, "create", s, copy)
    BY <1>2, SshNobody DEF SshInv, SshTypes, Ssh!Start, Ssh!Record, Ssh!States
  <2>3. SshTypes'
    BY <1>2, <2>2 DEF SshInv, SshTypes, Ssh!Goes, Ssh!Start, SshCommand, Ssh!files, Ssh!history
  <2>4. SshBegun'
    BY <1>2, <2>2 DEF SshInv, SshTypes, SshBegun, Ssh!Goes, Ssh!Start, SshCommand, Ssh!files, Ssh!history
  <2>5. ActiveHasWorker'
    BY <1>2 DEF SshInv, ActiveHasWorker, Ssh!ActiveHasWorker, Ssh!Start, Ssh!files, Ssh!history
  <2>6. QED BY <2>3, <2>4, <2>5 DEF SshInv
<1>3. ASSUME NEW c \in Commands, Ssh!Create(c) PROVE SshInv'
  <2> DEFINE s == asked[c].session
  <2>1. s \in SshSessions /\ asked[c].copy \in Ssh!Record /\ [asked[c].copy EXCEPT !.pid = TRUE] \in Ssh!Record
    BY DEF SshInv, SshTypes, SshCommand, Ssh!Record
  <2>2. SshTypes'
    BY <1>3, <2>1 DEF SshInv, SshTypes, SshWorker, Ssh!Create, Ssh!Goes, SshCommand, Ssh!files, Ssh!history
  <2>3. SshBegun'
    BY <1>3, <2>1 DEF SshInv, SshTypes, SshWorker, SshBegun, Ssh!Create, Ssh!Goes, SshCommand
  <2>4. ActiveHasWorker'
    BY <1>3, <2>1 DEF SshInv, SshTypes, SshWorker, Ssh!Create, ActiveHasWorker, Ssh!ActiveHasWorker, Ssh!Active, Ssh!history
  <2>5. QED BY <2>2, <2>3, <2>4 DEF SshInv
<1>4. ASSUME NEW c \in Commands, Ssh!Recorded(c) \/ Ssh!WroteBack(c) PROVE SshInv'
  <2> DEFINE s == asked[c].session
  <2>1. s \in SshSessions /\ asked[c].copy \in Ssh!Record /\ worker[s].pc # "none"
    BY <1>4 DEF SshInv, SshTypes, SshBegun, SshCommand, Ssh!Recorded, Ssh!WroteBack
  <2>2. /\ Ssh!WritesBack(s, asked[c].copy) /\ UNCHANGED <<worker, transcript, inbox>>
        /\ Ssh!Ends(c) \/ Ssh!Goes(c, "signal", s, asked[c].copy)
    BY <1>4 DEF Ssh!Recorded, Ssh!WroteBack, Ssh!files
  <2> HIDE DEF s
  <2>3. /\ disk' \in [SshSessions -> Ssh!Record] /\ unlucky' \in [SshSessions -> BOOLEAN]
        /\ \A t \in SshSessions : disk'[t].state # "none" => worker'[t].pc # "none"
        /\ ActiveHasWorker'
    BY <2>1, <2>2, SshWritesBack
  <2>4. Ssh!NoRecord \in Ssh!Record
    BY DEF Ssh!NoRecord, Ssh!Record, Ssh!States
  <2>5. asked' \in [Commands -> SshCommand]
    BY <2>1, <2>2, <2>4 DEF SshInv, SshTypes, Ssh!Ends, Ssh!Goes, Ssh!Rest, SshCommand
  <2>6. SshBegun'
    BY <2>1, <2>2, <2>3 DEF SshInv, SshTypes, SshBegun, Ssh!Ends, Ssh!Goes, Ssh!Rest, SshCommand
  <2>7. QED BY <2>2, <2>3, <2>5, <2>6 DEF SshInv, SshTypes
<1>5. ASSUME NEW c \in Commands, Ssh!Signals(c) \/ Ssh!CommandKilled(c) PROVE SshInv'
  <2>1. /\ Ssh!NoRecord \in Ssh!Record /\ asked[c].session \in SshSessions
    BY DEF Ssh!NoRecord, Ssh!Record, Ssh!States, SshInv, SshTypes, SshCommand
  <2>2. Ssh!Ends(c) /\ UNCHANGED <<disk, transcript, inbox>>
    BY <1>5 DEF Ssh!Signals, Ssh!CommandKilled, Ssh!files
  <2>3. /\ worker' \in [SshSessions -> SshWorker] /\ unlucky' \in [SshSessions -> BOOLEAN]
        /\ \A s \in SshSessions : worker[s].pc # "none" => worker'[s].pc # "none"
        /\ \A s \in SshSessions : worker[s].pc \in {"boot", "live"} /\ ~unlucky'[s]
                                    => worker'[s].pc \in {"boot", "live"}
        /\ \A s \in SshSessions : unlucky[s] => unlucky'[s]
    <3>1. CASE Ssh!CommandKilled(c)
      BY <3>1 DEF Ssh!CommandKilled, SshInv, SshTypes, Ssh!history
    <3>2. CASE Ssh!Signals(c)
      <4> DEFINE s == asked[c].session
      <4>1. CASE worker[s].pc = "boot"
        BY <3>2, <4>1, <2>1 DEF Ssh!Signals, SshInv, SshTypes, SshWorker
      <4>2. CASE worker[s].pc = "live"
        BY <3>2, <4>2, <2>1 DEF Ssh!Signals, SshInv, SshTypes, SshWorker
      <4>3. CASE worker[s].pc \notin {"boot", "live"}
        BY <3>2, <4>3, <2>1 DEF Ssh!Signals, SshInv, SshTypes, SshWorker
      <4>4. QED BY <4>1, <4>2, <4>3
    <3>3. QED BY <1>5, <3>1, <3>2
  <2>4. asked' \in [Commands -> SshCommand]
    BY <2>1, <2>2 DEF SshInv, SshTypes, Ssh!Ends, Ssh!Rest, SshCommand
  <2>5. SshBegun'
    BY <2>1, <2>2, <2>3 DEF SshInv, SshTypes, SshBegun, Ssh!Ends, Ssh!Rest, SshCommand
  <2>6. ActiveHasWorker'
    BY <2>2, <2>3 DEF SshInv, SshTypes, ActiveHasWorker, Ssh!ActiveHasWorker
  <2>7. QED BY <2>2, <2>3, <2>4, <2>5, <2>6 DEF SshInv, SshTypes
<1>6. ASSUME NEW s \in SshSessions, Ssh!WorkerLost(s) PROVE SshInv'
  <2>1. Ssh!NoWorker \in SshWorker
    BY SshNobody
  <2>2. SshTypes'
    BY <1>6, <2>1 DEF SshInv, SshTypes, SshWorker, Ssh!WorkerLost, Ssh!files
  <2>3. SshBegun'
    BY <1>6, <2>1 DEF SshInv, SshTypes, SshWorker, SshBegun, Ssh!WorkerLost, SshCommand
  <2>4. ActiveHasWorker'
    BY <1>6 DEF SshInv, SshTypes, Ssh!WorkerLost, ActiveHasWorker, Ssh!ActiveHasWorker
  <2>5. QED BY <2>2, <2>3, <2>4 DEF SshInv
<1>7. ASSUME NEW s \in SshSessions, NEW w \in SshWorker, Ssh!Persists(s, w), UNCHANGED <<asked, unlucky, inbox>>,
             transcript' \in [SshSessions -> 0..MaxChunks],
             w.pc = "live" \/ (w.pc = "gone" /\ w.copy.state \in {"stopped", "failed"})
      PROVE SshInv'
  <2>1. w.copy \in Ssh!Record
    BY DEF SshWorker
  <2>2. SshTypes'
    BY <1>7, <2>1 DEF SshInv, SshTypes, Ssh!Persists
  <2>3. SshBegun'
    BY <1>7 DEF SshInv, SshTypes, SshBegun, SshCommand, Ssh!Persists
  <2>4. ActiveHasWorker'
    BY <1>7 DEF SshInv, SshTypes, Ssh!Persists, ActiveHasWorker, Ssh!ActiveHasWorker, Ssh!Active
  <2>5. QED BY <2>2, <2>3, <2>4 DEF SshInv
<1>8. ASSUME NEW s \in SshSessions, Ssh!Boots(s) \/ Ssh!Output(s) \/ Ssh!PollInbox(s) \/ Ssh!OnTerm(s)
                               \/ \E code \in 0..1 : Ssh!SshExits(s, code)
      PROVE SshInv'
  <2>1. worker[s] \in SshWorker /\ worker[s].copy \in Ssh!Record /\ disk[s] \in Ssh!Record
    BY DEF SshInv, SshTypes, SshWorker
  <2>2. UNCHANGED <<asked, unlucky, inbox>> /\ transcript' \in [SshSessions -> 0..MaxChunks]
    BY <1>8 DEF SshInv, SshTypes, Ssh!Boots, Ssh!Output, Ssh!PollInbox, Ssh!OnTerm, Ssh!SshExits, Ssh!files, Ssh!history
  <2>3. \A r \in Ssh!Record, st \in Ssh!States : [r EXCEPT !.state = st] \in Ssh!Record /\ [r EXCEPT !.state = st].state = st
    BY DEF Ssh!Record
  <2>4. \A copy \in Ssh!Record : LET w == [Ssh!NoWorker EXCEPT !.pc = "gone", !.copy = copy]
                                 IN  w \in SshWorker /\ w.pc = "gone" /\ w.copy = copy
    BY SshNobody DEF SshWorker
  <2>5. CASE Ssh!Boots(s)
    <3>1. \A copy \in Ssh!Record : LET w == [Ssh!NoWorker EXCEPT !.pc = "live", !.copy = copy, !.ssh = "up"]
                                   IN  w \in SshWorker /\ w.pc = "live"
      BY SshNobody DEF SshWorker
    <3>2. [disk[s] EXCEPT !.state = "running"] \in Ssh!Record
      BY <2>1, <2>3 DEF Ssh!States
    <3>3. [disk[s] EXCEPT !.state = "failed"] \in Ssh!Record /\ [disk[s] EXCEPT !.state = "failed"].state = "failed"
      BY <2>1, <2>3 DEF Ssh!States
    <3>4. CASE Ssh!Persists(s, [Ssh!NoWorker EXCEPT !.pc = "live", !.copy = [disk[s] EXCEPT !.state = "running"], !.ssh = "up"])
      <4> DEFINE w == [Ssh!NoWorker EXCEPT !.pc = "live", !.copy = [disk[s] EXCEPT !.state = "running"], !.ssh = "up"]
      <4>1. w \in SshWorker /\ w.pc = "live" /\ Ssh!Persists(s, w)
        BY <3>1, <3>2, <3>4
      <4> HIDE DEF w
      <4>2. QED BY <1>7, <2>2, <4>1
    <3>5. CASE Ssh!Persists(s, [Ssh!NoWorker EXCEPT !.pc = "gone", !.copy = [disk[s] EXCEPT !.state = "failed"]])
      <4> DEFINE w == [Ssh!NoWorker EXCEPT !.pc = "gone", !.copy = [disk[s] EXCEPT !.state = "failed"]]
      <4>1. w \in SshWorker /\ w.pc = "gone" /\ w.copy.state = "failed" /\ Ssh!Persists(s, w)
        BY <2>4, <3>3, <3>5
      <4> HIDE DEF w
      <4>2. QED BY <1>7, <2>2, <4>1
    <3>6. QED BY <2>5, <3>4, <3>5 DEF Ssh!Boots
  <2>6. CASE Ssh!Output(s)
    <3> DEFINE w == [worker[s] EXCEPT !.copy.cursor = transcript'[s]]
    <3>1. w \in SshWorker /\ w.pc = "live" /\ Ssh!Persists(s, w)
      BY <2>1, <2>2, <2>6 DEF Ssh!Output, Ssh!Live, SshWorker, Ssh!Record
    <3> HIDE DEF w
    <3>2. QED BY <1>7, <2>2, <3>1
  <2>7. CASE Ssh!PollInbox(s)
    <3> DEFINE w == [worker[s] EXCEPT !.offset = inbox[s]]
    <3>1. w \in SshWorker /\ w.pc = "live" /\ Ssh!Persists(s, w)
      BY <2>1, <2>7 DEF Ssh!PollInbox, Ssh!Live, SshWorker, SshInv, SshTypes
    <3> HIDE DEF w
    <3>2. QED BY <1>7, <2>2, <3>1
  <2>8. CASE Ssh!OnTerm(s)
    <3> DEFINE w == [worker[s] EXCEPT !.term = FALSE, !.ssh = "killed", !.copy.state = "stopping"]
    <3>1. w \in SshWorker /\ w.pc = "live" /\ Ssh!Persists(s, w)
      BY <2>1, <2>8 DEF Ssh!OnTerm, Ssh!Live, SshWorker, Ssh!Record, Ssh!States
    <3> HIDE DEF w
    <3>2. QED BY <1>7, <2>2, <3>1
  <2>9. ASSUME NEW code \in 0..1, Ssh!SshExits(s, code) PROVE SshInv'
    <3>1. PICK st \in {"stopped", "failed"} : st = Ssh!EndState(s, code)
      BY DEF Ssh!EndState
    <3> DEFINE w == Ssh!Ended(s, st)
    <3>2. w \in SshWorker /\ w.pc = "gone" /\ w.copy.state \in {"stopped", "failed"}
      <4> DEFINE end == [worker[s].copy EXCEPT !.state = st]
      <4>1. st \in Ssh!States
        BY <3>1 DEF Ssh!States
      <4>2. end \in Ssh!Record /\ end.state = st
        BY <2>1, <2>3, <4>1
      <4>3. w = [Ssh!NoWorker EXCEPT !.pc = "gone", !.copy = end]
        BY DEF Ssh!Ended
      <4> HIDE DEF end, w
      <4>4. QED BY <2>4, <3>1, <4>2, <4>3
    <3>3. Ssh!Persists(s, w)
      BY <2>9, <3>1 DEF Ssh!SshExits
    <3> HIDE DEF w
    <3>4. QED BY <1>7, <2>2, <3>2, <3>3
  <2>10. QED BY <1>8, <2>5, <2>6, <2>7, <2>8, <2>9
<1> QED BY <1>1, <1>2, <1>3, <1>4, <1>5, <1>6, <1>8 DEF Ssh!Next

\* While another part moves, the sessions stay as they are.
LEMMA SshRests == SshInv /\ UNCHANGED ssh => SshInv'
  BY DEF ssh, SshInv, SshTypes, SshBegun, ActiveHasWorker, Ssh!ActiveHasWorker

\* A session that holds its profile has a worker that is alive or about to be,
\* for any number of sessions, profiles and commands, in whatever order
\* commands write back the records they read, except where one was unlucky.
THEOREM SessionsHaveWorkers == WorkSpec => []ActiveHasWorker
<1>1. SshInv /\ [WorkNext]_<<vars, talk, chat, gateway_service, ssh, reply, focus>> => SshInv'
  BY SshNext, SshRests DEF WorkNext, SshMoves, ssh
<1>2. SshInv => ActiveHasWorker
  BY DEF SshInv
<1> QED BY SshInit, <1>1, <1>2, PTL DEF WorkSpec

-----------------------------------------------------------------------------
(* AgentReply: the prose of an answer, and its files, reach the chat and the *)
(* page.  The parsers and the selections go from line to line, from the last; *)
(* what holds of them is shown in the same way (Downwards).                  *)

\* A set that holds n + 1, and with all numbers up to there the one before them, holds 1.
LEMMA Downwards ==
    ASSUME NEW n \in Nat, NEW S, \A i \in 1..(n + 1) : (\A j \in (i + 1)..(n + 1) : j \in S) => i \in S
    PROVE  \A i \in 1..(n + 1) : i \in S
<1> SUFFICES ASSUME NEW k \in 1..(n + 1), k \notin S PROVE FALSE
  OBVIOUS
<1> DEFINE missing == {d \in 0..n : (n + 1) - d \notin S}
<1>1. IsWellFoundedOn(OpToRel(<, Nat), Nat)
  BY NatLessThanWellFounded
<1>2. missing \subseteq Nat /\ (n + 1) - k \in missing
  OBVIOUS
<1>3. PICK x \in missing : \A y \in missing : ~(<<y, x>> \in OpToRel(<, Nat))
  <2> HIDE DEF missing
  <2> QED BY <1>1, <1>2, WFMin
<1>4. \A y \in missing : ~(y < x)
  BY <1>2, <1>3 DEF OpToRel
<1>5. x \in 0..n /\ (n + 1) - x \notin S
  OBVIOUS
<1>6. ASSUME NEW j \in (((n + 1) - x) + 1)..(n + 1) PROVE j \in S
  <2>1. (n + 1) - j \in 0..n /\ (n + 1) - j < x /\ (n + 1) - ((n + 1) - j) = j
    BY <1>5
  <2> QED BY <1>4, <2>1
<1>7. (n + 1) - x \in 1..(n + 1)
  BY <1>5
<1> QED BY <1>5, <1>6, <1>7

\* A function on (k + 1)..(n + 1) taken to k.
Earlier(f, k, n, v) == [i \in k..(n + 1) |-> IF i = k THEN v ELSE f[i]]

\* f has those of the lines from each one on.
Gathers(f, s, W, n) ==
    /\ f[n + 1] = <<>>
    /\ \A i \in 1..n : f[i] = (IF s[i] \in W THEN <<s[i]>> ELSE <<>>) \o f[i + 1]

\* Those goes from line to line, from the last.
LEMMA ThoseFrom ==
    ASSUME NEW s, NEW n \in Nat, n = Len(s), NEW W
    PROVE  \E f : Gathers(f, s, W, n) /\ Reply!Those(s, W) = f[1]
<1>1. n = Len(s)
  OBVIOUS
<1> DEFINE At(f, i) == IF i > n THEN <<>> ELSE (IF s[i] \in W THEN <<s[i]>> ELSE <<>>) \o f[i + 1]
           Good(f, k) == f = [i \in k..(n + 1) |-> At(f, i)]
<1>2. PICK S : S = {k \in 1..(n + 1) : \E f : Good(f, k)}
  OBVIOUS
<1>3. \E f : Good(f, n + 1)
  <2>1. PICK h : h = [i \in (n + 1)..(n + 1) |-> <<>>]
    OBVIOUS
  <2>2. \A i \in (n + 1)..(n + 1) : i > n /\ h[i] = <<>>
    BY <2>1
  <2>3. \A i \in (n + 1)..(n + 1) : At(h, i) = <<>>
    BY <2>2
  <2>4. h = [i \in (n + 1)..(n + 1) |-> At(h, i)]
    <3> HIDE DEF At
    <3> QED BY <2>1, <2>3
  <2> QED BY <2>4, Zenon DEF Good
<1>4. ASSUME NEW k \in 1..n, NEW f, Good(f, k + 1) PROVE \E g : Good(g, k)
  <2>1. PICK v : v = At(f, k)
    OBVIOUS
  <2>2. PICK g : g = Earlier(f, k, n, v)
    OBVIOUS
  <2>3. \A i \in (k + 1)..(n + 1) : f[i] = At(f, i)
    <3> HIDE DEF At
    <3> QED BY <1>4
  <2>4. g = [i \in k..(n + 1) |-> g[i]] /\ g[k] = v /\ \A i \in (k + 1)..(n + 1) : g[i] = f[i]
    BY <2>2 DEF Earlier
  <2>5. \A i \in k..(n + 1) : g[i] = At(g, i)
    <3> SUFFICES ASSUME NEW i \in k..(n + 1) PROVE g[i] = At(g, i)
      OBVIOUS
    <3>1. i <= n => i + 1 \in (k + 1)..(n + 1)
      OBVIOUS
    <3>2. i <= n => g[i + 1] = f[i + 1]
      BY <2>4, <3>1
    <3>3. At(g, i) = At(f, i)
      BY <3>2
    <3>4. CASE i = k
      BY <2>1, <2>4, <3>3, <3>4
    <3>5. CASE i # k
      <4>1. i \in (k + 1)..(n + 1)
        BY <3>5
      <4> HIDE DEF At
      <4> QED BY <2>3, <2>4, <3>3, <4>1
    <3> QED BY <3>4, <3>5
  <2>6. g = [i \in k..(n + 1) |-> At(g, i)]
    <3> HIDE DEF At
    <3> QED BY <2>4, <2>5
  <2> QED BY <2>6, Zenon DEF Good
<1>5. 1 \in S
  <2> HIDE DEF Good
  <2>1. \A i \in 1..(n + 1) : (\A j \in (i + 1)..(n + 1) : j \in S) => i \in S
    <3> SUFFICES ASSUME NEW i \in 1..(n + 1), \A j \in (i + 1)..(n + 1) : j \in S PROVE i \in S
      OBVIOUS
    <3>1. CASE i = n + 1
      BY <1>2, <1>3, <3>1
    <3>2. CASE i \in 1..n
      <4>1. i + 1 \in (i + 1)..(n + 1)
        BY <3>2
      <4>2. i + 1 \in S
        BY <4>1
      <4> QED BY <1>2, <1>4, <3>2, <4>2
    <3> QED BY <3>1, <3>2
  <2>2. \A i \in 1..(n + 1) : i \in S
    BY ONLY <2>1, Downwards, n \in Nat
  <2>3. 1 \in 1..(n + 1)
    OBVIOUS
  <2> QED BY <2>2, <2>3
<1>6. PICK f : Good(f, 1) /\ Reply!Those(s, W) = f[1]
  <2> HIDE DEF Good
  <2>1. \E f : Good(f, 1)
    BY <1>2, <1>5
  <2>2. PICK f : Good(f, 1)
    BY <2>1
  <2>3. \E g : g = [i \in 1..(Len(s) + 1) |-> IF i > Len(s) THEN <<>> ELSE (IF s[i] \in W THEN <<s[i]>> ELSE <<>>) \o g[i + 1]]
    BY <1>1, <2>2, Zenon DEF Good
  <2>4. PICK g : /\ g = [i \in 1..(Len(s) + 1) |-> IF i > Len(s) THEN <<>> ELSE (IF s[i] \in W THEN <<s[i]>> ELSE <<>>) \o g[i + 1]]
                 /\ Reply!Those(s, W) = g[1]
    BY <2>3, Zenon DEF Reply!Those
  <2>5. Good(g, 1)
    BY <1>1, <2>4, Zenon DEF Good
  <2> QED BY <2>4, <2>5, Zenon
<1>7. \A i \in 1..(n + 1) : f[i] = At(f, i)
  <2> HIDE DEF At
  <2> QED BY <1>6
<1>8. f[n + 1] = <<>> /\ \A i \in 1..n : f[i] = (IF s[i] \in W THEN <<s[i]>> ELSE <<>>) \o f[i + 1]
  <2>1. n + 1 \in 1..(n + 1) /\ n + 1 > n /\ \A i \in 1..n : i \in 1..(n + 1) /\ ~(i > n)
    OBVIOUS
  <2>2. f[n + 1] = At(f, n + 1) /\ \A i \in 1..n : f[i] = At(f, i)
    <3> HIDE DEF At
    <3> QED BY <1>7, <2>1
  <2> QED BY <2>1, <2>2, Zenon
<1>9. Gathers(f, s, W, n)
  BY <1>8 DEF Gathers
<1> HIDE DEF Good
<1> QED BY <1>6, <1>9, Zenon

\* f has those of a sequence over T from each place on.
Collects(f, s, W, n, T) ==
    /\ f[n + 1] = <<>>
    /\ \A i \in 1..(n + 1) : f[i] \in Seq(T \cap W)
    /\ \A i \in 1..n : s[i] \in W => f[i] = <<s[i]>> \o f[i + 1]
    /\ \A i \in 1..n : s[i] \notin W => f[i] = f[i + 1]

\* Each step of it, for a sequence over T.
LEMMA ThoseSteps ==
    ASSUME NEW T, NEW s \in Seq(T), NEW W, NEW n \in Nat, n = Len(s)
    PROVE  \E f : Collects(f, s, W, n, T) /\ Reply!Those(s, W) = f[1]
<1>1. \A i \in 1..n : s[i] \in T
  OBVIOUS
<1>2. PICK f : Gathers(f, s, W, n) /\ Reply!Those(s, W) = f[1]
  BY ThoseFrom
<1>3. f[n + 1] = <<>> /\ \A i \in 1..n : f[i] = (IF s[i] \in W THEN <<s[i]>> ELSE <<>>) \o f[i + 1]
  BY <1>2, Zenon DEF Gathers
<1>4. /\ \A i \in 1..n : s[i] \in W => f[i] = <<s[i]>> \o f[i + 1]
      /\ \A i \in 1..n : s[i] \notin W => f[i] = <<>> \o f[i + 1]
  BY <1>3, Zenon
<1>5. PICK S : S = {i \in 1..(n + 1) : f[i] \in Seq(T \cap W)}
  OBVIOUS
<1>6. ASSUME NEW i \in 1..(n + 1), \A j \in (i + 1)..(n + 1) : j \in S PROVE i \in S
  <2>1. CASE i = n + 1
    <3>1. f[i] = <<>> /\ <<>> \in Seq(T \cap W)
      BY <1>3, <2>1
    <3> QED BY <1>5, <3>1
  <2>2. CASE i \in 1..n
    <3>1. i + 1 \in (i + 1)..(n + 1)
      BY <2>2
    <3>2. PICK rest : rest = f[i + 1] /\ rest \in Seq(T \cap W)
      BY <1>5, <1>6, <3>1
    <3>3. CASE s[i] \in W
      <4>1. PICK x : x = s[i] /\ x \in T \cap W
        BY <1>1, <2>2, <3>3
      <4>2. <<x>> \o rest \in Seq(T \cap W)
        BY <3>2, <4>1
      <4>3. f[i] = <<x>> \o rest
        BY <1>4, <2>2, <3>2, <3>3, <4>1
      <4> QED BY <1>5, <4>2, <4>3
    <3>4. CASE s[i] \notin W
      <4>1. f[i] = <<>> \o rest
        BY <1>4, <2>2, <3>2, <3>4
      <4>2. f[i] \in Seq(T \cap W)
        BY <3>2, <4>1
      <4> QED BY <1>5, <4>2
    <3> QED BY <3>3, <3>4
  <2> QED BY <2>1, <2>2
<1>7. \A i \in 1..(n + 1) : i \in S
  BY ONLY <1>6, Downwards, n \in Nat
<1>8. \A i \in 1..(n + 1) : f[i] \in Seq(T \cap W)
  BY <1>5, <1>7
<1>9. \A i \in 1..n : s[i] \notin W => f[i] = f[i + 1]
  <2> SUFFICES ASSUME NEW i \in 1..n, s[i] \notin W PROVE f[i] = f[i + 1]
    OBVIOUS
  <2>1. i + 1 \in 1..(n + 1)
    OBVIOUS
  <2>2. PICK rest : rest = f[i + 1] /\ rest \in Seq(T \cap W)
    BY <1>8, <2>1
  <2>3. f[i] = <<>> \o rest
    BY <1>4, <2>2
  <2> QED BY <2>2, <2>3
<1>10. Collects(f, s, W, n, T)
  BY <1>3, <1>4, <1>8, <1>9, Zenon DEF Collects
<1> QED BY <1>2, <1>10, Zenon

\* Those of a sequence are a sequence of what is wanted.
LEMMA ThoseAre ==
    ASSUME NEW T, NEW s \in Seq(T), NEW W
    PROVE  Reply!Those(s, W) \in Seq(T \cap W)
<1>1. PICK n \in Nat : n = Len(s) /\ 1 \in 1..(n + 1)
  OBVIOUS
<1>2. PICK f : Collects(f, s, W, n, T) /\ Reply!Those(s, W) = f[1]
  BY <1>1, ThoseSteps
<1> QED BY <1>1, <1>2 DEF Collects

\* Those of the empty sequence, and of a sequence of one.
LEMMA ThoseOfOne ==
    ASSUME NEW x, NEW W
    PROVE  /\ Reply!Those(<<>>, W) = <<>>
           /\ x \in W => Reply!Those(<<x>>, W) = <<x>>
           /\ x \notin W => Reply!Those(<<x>>, W) = <<>>
<1>1. Reply!Those(<<>>, W) = <<>>
  <2>1. PICK e, n : e = <<>> /\ n = Len(e) /\ n = 0 /\ e \in Seq({})
    <3>1. <<>> \in Seq({}) /\ Len(<<>>) = 0
      OBVIOUS
    <3> QED BY <3>1, Zenon
  <2>2. PICK f : Collects(f, e, W, n, {}) /\ Reply!Those(e, W) = f[1]
    <3>1. n \in Nat
      BY <2>1
    <3> QED BY <2>1, <3>1, ThoseSteps
  <2>3. Reply!Those(e, W) = <<>>
    BY <2>1, <2>2 DEF Collects
  <2> QED BY <2>1, <2>3
<1>2. /\ x \in W => Reply!Those(<<x>>, W) = <<x>>
      /\ x \notin W => Reply!Those(<<x>>, W) = <<>>
  <2>1. PICK e, n : e = <<x>> /\ n = Len(e) /\ n = 1 /\ e \in Seq({x}) /\ e[1] = x
    <3>1. <<x>> \in Seq({x}) /\ Len(<<x>>) = 1 /\ <<x>>[1] = x
      OBVIOUS
    <3> QED BY <3>1, Zenon
  <2>2. PICK f : Collects(f, e, W, n, {x}) /\ Reply!Those(e, W) = f[1]
    <3>1. n \in Nat
      BY <2>1
    <3> QED BY <2>1, <3>1, ThoseSteps
  <2>3. 1 \in 1..n /\ 1 + 1 = n + 1
    BY <2>1
  <2>4. x \in W => f[1] = <<x>> \o <<>>
    BY <2>1, <2>2, <2>3 DEF Collects
  <2>5. x \notin W => f[1] = <<>>
    BY <2>1, <2>2, <2>3 DEF Collects
  <2>6. <<x>> \o <<>> = <<x>>
    <3>1. <<x>> \in Seq({x})
      OBVIOUS
    <3> QED BY <3>1, ConcatEmptySeq
  <2> QED BY <2>1, <2>2, <2>4, <2>5, <2>6
<1> QED BY <1>1, <1>2

\* ConcatAssociative, of sequences that are not constants.
LEMMA Associative ==
    ASSUME NEW V, NEW a, NEW b, NEW c, a \in Seq(V) /\ b \in Seq(V) /\ c \in Seq(V)
    PROVE  (a \o c) \o b = a \o (c \o b)
<1>1. a \in Seq(V)
  OBVIOUS
<1>2. b \in Seq(V)
  OBVIOUS
<1>3. c \in Seq(V)
  OBVIOUS
<1> QED BY ONLY <1>1, <1>2, <1>3, ConcatAssociative

\* Those of two sequences, one after the other.
LEMMA ThoseOfBoth ==
    ASSUME NEW T, NEW s \in Seq(T), NEW t \in Seq(T), NEW W
    PROVE  Reply!Those(s \o t, W) = Reply!Those(s, W) \o Reply!Those(t, W)
<1>1. PICK n \in Nat : n = Len(s)
  OBVIOUS
<1>a. PICK m \in Nat : m = Len(t)
  OBVIOUS
<1>b. PICK u : u = s \o t
  OBVIOUS
<1>c. PICK k \in Nat : k = n + m
  OBVIOUS
<1>d. u \in Seq(T) /\ k = Len(u) /\ (\A i \in 1..n : u[i] = s[i]) /\ \A i \in 1..m : u[n + i] = t[i]
  BY <1>1, <1>a, <1>b, <1>c
<1>2. PICK f : Collects(f, s, W, n, T) /\ Reply!Those(s, W) = f[1]
  BY <1>1, ThoseSteps
<1>3. PICK h : Collects(h, t, W, m, T) /\ Reply!Those(t, W) = h[1]
  BY <1>a, ThoseSteps
<1>4. PICK g : Collects(g, u, W, k, T) /\ Reply!Those(u, W) = g[1]
  BY <1>d, ThoseSteps
<1>f. /\ f[n + 1] = <<>> /\ \A i \in 1..(n + 1) : f[i] \in Seq(T \cap W)
      /\ \A i \in 1..n : s[i] \in W => f[i] = <<s[i]>> \o f[i + 1]
      /\ \A i \in 1..n : s[i] \notin W => f[i] = f[i + 1]
  BY <1>2, Zenon DEF Collects
<1>h. /\ h[m + 1] = <<>> /\ \A i \in 1..(m + 1) : h[i] \in Seq(T \cap W)
      /\ \A i \in 1..m : t[i] \in W => h[i] = <<t[i]>> \o h[i + 1]
      /\ \A i \in 1..m : t[i] \notin W => h[i] = h[i + 1]
  BY <1>3, Zenon DEF Collects
<1>g. /\ g[k + 1] = <<>>
      /\ \A i \in 1..k : u[i] \in W => g[i] = <<u[i]>> \o g[i + 1]
      /\ \A i \in 1..k : u[i] \notin W => g[i] = g[i + 1]
  BY <1>4, Zenon DEF Collects
<1>5. g[n + 1] = h[1]
  <2>1. PICK S : S = {i \in 1..(m + 1) : g[n + i] = h[i]}
    OBVIOUS
  <2>2. ASSUME NEW i \in 1..(m + 1), \A j \in (i + 1)..(m + 1) : j \in S PROVE i \in S
    <3>1. CASE i = m + 1
      <4>1. n + i = k + 1
        BY <1>c, <3>1
      <4> QED BY <1>h, <1>g, <2>1, <3>1, <4>1
    <3>2. CASE i \in 1..m
      <4>1. i + 1 \in (i + 1)..(m + 1) /\ n + i \in 1..k /\ (n + i) + 1 = n + (i + 1)
        BY <1>c, <3>2
      <4>2. g[n + (i + 1)] = h[i + 1] /\ u[n + i] = t[i]
        BY <1>d, <2>1, <2>2, <3>2, <4>1
      <4>3. /\ t[i] \in W => g[n + i] = <<t[i]>> \o h[i + 1]
            /\ t[i] \notin W => g[n + i] = h[i + 1]
        BY <1>g, <4>1, <4>2
      <4>4. g[n + i] = h[i]
        BY <1>h, <3>2, <4>3
      <4> QED BY <2>1, <4>4
    <3> QED BY <3>1, <3>2
  <2>3. \A i \in 1..(m + 1) : i \in S
    BY ONLY <2>2, Downwards, m \in Nat
  <2>4. 1 \in 1..(m + 1)
    OBVIOUS
  <2> QED BY <2>1, <2>3, <2>4
<1>6. PICK b : b = h[1] /\ b \in Seq(T \cap W)
  BY <1>h
<1>7. PICK S : S = {i \in 1..(n + 1) : g[i] = f[i] \o b}
  OBVIOUS
<1>8. ASSUME NEW i \in 1..(n + 1), \A j \in (i + 1)..(n + 1) : j \in S PROVE i \in S
  <2>1. CASE i = n + 1
    <3>1. <<>> \o b = b
      BY <1>6
    <3> QED BY <1>f, <1>5, <1>6, <1>7, <2>1, <3>1
  <2>2. CASE i \in 1..n
    <3>1. i + 1 \in (i + 1)..(n + 1) /\ i \in 1..k /\ i + 1 \in 1..(n + 1)
      BY <1>c, <2>2
    <3>2. g[i + 1] = f[i + 1] \o b
      BY <1>7, <1>8, <3>1
    <3>3. PICK c : c = f[i + 1] /\ c \in Seq(T \cap W)
      BY <1>f, <3>1
    <3>4. CASE s[i] \notin W
      <4>1. f[i] = f[i + 1] /\ g[i] = g[i + 1]
        BY <1>d, <1>f, <1>g, <2>2, <3>1, <3>4
      <4> QED BY <1>7, <3>2, <4>1
    <3>5. CASE s[i] \in W
      <4>1. PICK x : x = s[i] /\ x \in T \cap W
        BY <1>1, <2>2, <3>5
      <4>2. f[i] = <<x>> \o c /\ g[i] = <<x>> \o (c \o b)
        BY <1>d, <1>f, <1>g, <2>2, <3>1, <3>2, <3>3, <3>5, <4>1
      <4>3. <<x>> \in Seq(T \cap W)
        BY <4>1
      <4>4. PICK a : a = <<x>>
        OBVIOUS
      <4>5. (a \o c) \o b = a \o (c \o b)
        <5>1. PICK V : V = T \cap W
          OBVIOUS
        <5>2. a \in Seq(V) /\ b \in Seq(V) /\ c \in Seq(V)
          BY <1>6, <3>3, <4>3, <4>4, <5>1
        <5> QED BY ONLY <5>2, Associative
      <4> QED BY <1>7, <4>2, <4>4, <4>5
    <3> QED BY <3>4, <3>5
  <2> QED BY <2>1, <2>2
<1>9. 1 \in S
  <2>1. \A i \in 1..(n + 1) : i \in S
    BY ONLY <1>8, Downwards, n \in Nat
  <2>2. 1 \in 1..(n + 1)
    OBVIOUS
  <2> QED BY <2>1, <2>2
<1> QED BY <1>b, <1>2, <1>3, <1>4, <1>6, <1>7, <1>9

\* Those of those.
LEMMA ThoseOfThose ==
    ASSUME NEW T, NEW s \in Seq(T), NEW A, NEW B
    PROVE  Reply!Those(Reply!Those(s, A), B) = Reply!Those(s, A \cap B)
<1>1. PICK n \in Nat : n = Len(s)
  OBVIOUS
<1>2. PICK f : Collects(f, s, A, n, T) /\ Reply!Those(s, A) = f[1]
  BY <1>1, ThoseSteps
<1>3. PICK C : C = A \cap B
  OBVIOUS
<1>4. PICK g : Collects(g, s, C, n, T) /\ Reply!Those(s, C) = g[1]
  BY <1>1, ThoseSteps
<1>f. /\ f[n + 1] = <<>> /\ \A i \in 1..(n + 1) : f[i] \in Seq(T \cap A)
      /\ \A i \in 1..n : s[i] \in A => f[i] = <<s[i]>> \o f[i + 1]
      /\ \A i \in 1..n : s[i] \notin A => f[i] = f[i + 1]
  BY <1>2, Zenon DEF Collects
<1>g. /\ g[n + 1] = <<>> /\ \A i \in 1..(n + 1) : g[i] \in Seq(T \cap C)
      /\ \A i \in 1..n : s[i] \in C => g[i] = <<s[i]>> \o g[i + 1]
      /\ \A i \in 1..n : s[i] \notin C => g[i] = g[i + 1]
  BY <1>4, Zenon DEF Collects
<1>5. PICK S : S = {i \in 1..(n + 1) : Reply!Those(f[i], B) = g[i]}
  OBVIOUS
<1>6. ASSUME NEW i \in 1..(n + 1), \A j \in (i + 1)..(n + 1) : j \in S PROVE i \in S
  <2>1. CASE i = n + 1
    <3>1. Reply!Those(<<>>, B) = <<>>
      BY ThoseOfOne
    <3> QED BY <1>5, <1>f, <1>g, <2>1, <3>1
  <2>2. CASE i \in 1..n
    <3>1. i + 1 \in (i + 1)..(n + 1) /\ i + 1 \in 1..(n + 1)
      BY <2>2
    <3>2. PICK V : V = T \cap A
      OBVIOUS
    <3>3. PICK rest, x : rest = f[i + 1] /\ rest \in Seq(V) /\ x = s[i] /\ x \in T
      BY <1>1, <1>f, <2>2, <3>1, <3>2
    <3>4. PICK after : after = g[i + 1] /\ after \in Seq(T \cap C) /\ Reply!Those(rest, B) = after
      BY <1>5, <1>6, <1>g, <3>1, <3>3
    <3>5. CASE x \notin A
      <4>1. f[i] = rest /\ g[i] = after
        BY <1>3, <1>f, <1>g, <2>2, <3>3, <3>4, <3>5
      <4> QED BY <1>5, <3>4, <4>1
    <3>6. CASE x \in A
      <4>1. PICK one : one = <<x>> /\ one \in Seq(V)
        <5>1. x \in V
          BY <3>2, <3>3, <3>6
        <5>2. <<x>> \in Seq(V)
          BY <5>1
        <5> QED BY <5>2
      <4>2. f[i] = one \o rest
        BY <1>f, <2>2, <3>3, <3>6, <4>1
      <4>3. Reply!Those(one \o rest, B) = Reply!Those(one, B) \o Reply!Those(rest, B)
        <5>1. one \in Seq(V) /\ rest \in Seq(V)
          BY <3>3, <4>1
        <5> QED BY ONLY <5>1, ThoseOfBoth
      <4>4. CASE x \in B
        <5>1. Reply!Those(one, B) = one
          BY <4>1, <4>4, ThoseOfOne
        <5>2. g[i] = one \o after
          BY <1>3, <1>g, <2>2, <3>3, <3>4, <3>6, <4>1, <4>4
        <5> QED BY <1>5, <3>4, <4>2, <4>3, <5>1, <5>2
      <4>5. CASE x \notin B
        <5>1. Reply!Those(one, B) = <<>>
          BY <4>1, <4>5, ThoseOfOne
        <5>2. g[i] = after
          BY <1>3, <1>g, <2>2, <3>3, <3>4, <4>5
        <5>3. <<>> \o after = after
          BY <3>4
        <5> QED BY <1>5, <3>4, <4>2, <4>3, <5>1, <5>2, <5>3
      <4> QED BY <4>4, <4>5
    <3> QED BY <3>5, <3>6
  <2> QED BY <2>1, <2>2
<1>7. 1 \in S
  <2>1. \A i \in 1..(n + 1) : i \in S
    BY ONLY <1>6, Downwards, n \in Nat
  <2>2. 1 \in 1..(n + 1)
    OBVIOUS
  <2> QED BY <2>1, <2>2
<1> QED BY <1>2, <1>3, <1>4, <1>5, <1>7

\* Of lines none of which is wanted, there are none.
LEMMA ThoseOfNone ==
    ASSUME NEW T, NEW s \in Seq(T), NEW W, T \cap W = {}
    PROVE  Reply!Those(s, W) = <<>>
<1>1. Reply!Those(s, W) \in Seq({})
  BY ThoseAre
<1> QED BY <1>1

\* What was found of a directive: none, or some lines from there on.
LEMMA ExtentIs ==
    ASSUME NEW s, Len(s) \in Nat, NEW i \in 1..Len(s)
    PROVE  \/ Reply!Extent(s, i) = 0 /\ ~\E j \in i..Len(s) : j <= i + Window /\ Reply!Complete(SubSeq(s, i, j))
           \/ \E j \in i..Len(s) : /\ Reply!Extent(s, i) = j - i + 1 /\ j <= i + Window /\ Reply!Complete(SubSeq(s, i, j))
                                   /\ \A k \in i..j - 1 : ~(k <= i + Window /\ Reply!Complete(SubSeq(s, i, k)))
<1>1. PICK ends : ends = {j \in i..Len(s) : j <= i + Window /\ Reply!Complete(SubSeq(s, i, j))}
  OBVIOUS
<1>2. Reply!Extent(s, i) = IF ends = {} THEN 0 ELSE (CHOOSE j \in ends : \A k \in ends : j <= k) - i + 1
  BY <1>1 DEF Reply!Extent
<1>3. CASE ends = {}
  BY <1>1, <1>2, <1>3
<1>4. CASE ends # {}
  <2>0. IsWellFoundedOn(OpToRel(<, Nat), Nat)
    BY NatLessThanWellFounded
  <2>1. ends \subseteq Nat
    BY <1>1
  <2>2. PICK x \in ends : \A y \in ends : ~(<<y, x>> \in OpToRel(<, Nat))
    BY <1>4, <2>0, <2>1, WFMin
  <2>3. \A y \in ends : x <= y
    <3>1. \A y \in ends : ~(y < x)
      BY <2>1, <2>2 DEF OpToRel
    <3> SUFFICES ASSUME NEW y \in ends PROVE x <= y
      OBVIOUS
    <3>2. x \in Nat /\ y \in Nat /\ ~(y < x)
      BY <2>1, <2>2, <3>1
    <3> QED BY <3>2
  <2>4. PICK j : j = CHOOSE e \in ends : \A k \in ends : e <= k
    OBVIOUS
  <2>5. j \in ends /\ \A k \in ends : j <= k
    BY <2>3, <2>4
  <2>6. Reply!Extent(s, i) = j - i + 1
    BY <1>2, <1>4, <2>4
  <2>7. j \in i..Len(s) /\ j <= i + Window /\ Reply!Complete(SubSeq(s, i, j))
    BY <1>1, <2>5
  <2>8. \A k \in i..j - 1 : ~(k <= i + Window /\ Reply!Complete(SubSeq(s, i, k)))
    <3> SUFFICES ASSUME NEW k \in i..j - 1 PROVE k \notin ends
      BY <1>1, <2>7
    <3> QED BY <2>5, <2>7
  <2> QED BY <2>6, <2>7, <2>8
<1> QED BY <1>3, <1>4

\* How many lines a line takes that begins a directive, 0 for one that begins none.
Taking(s, i) == IF Reply!IsDirective(s[i]) THEN Reply!Extent(s, i) ELSE 0

\* What is complete is one line or begins with less, and none of its lines is prose.
LEMMA CompleteIs ==
    ASSUME NEW s \in Seq(Reply!Line), NEW i \in 1..Len(s), NEW j \in i..Len(s),
           Reply!Complete(SubSeq(s, i, j))
    PROVE  /\ \A k \in i..j : s[k].is # "prose"
           /\ s[i].is \notin {"open", "bare"} => i = j /\ s[i].is = "directive"
<1>1. PICK b : b = SubSeq(s, i, j)
  OBVIOUS
<1>2. PICK m \in Nat : m = Len(b) /\ m = j - i + 1 /\ \A k \in 1..m : b[k] = s[i + k - 1]
  BY <1>1
<1>3. b[m] = s[j] /\ b[1] = s[i]
  BY <1>2
<1>4. \/ m = 1 /\ b[1].is = "directive"
      \/ b[1].is = "open" /\ Reply!EndsLast(b, 1)
      \/ b[1].is = "bare" /\ Reply!FollowsBare(b)
  BY <1>1, <1>2 DEF Reply!Complete
<1>5. ASSUME NEW e \in 1..m, Reply!EndsLast(b, e), b[e].is # "prose"
      PROVE  \A k \in e..m : b[k].is # "prose"
  <2> SUFFICES ASSUME NEW k \in e..m PROVE b[k].is # "prose"
    OBVIOUS
  <2>1. b[m].is = "rest" /\ \A l \in e + 1..m - 1 : b[l].is \in {"more", "blank"}
    BY <1>2, <1>5 DEF Reply!EndsLast
  <2>2. k = e \/ k = m \/ k \in e + 1..m - 1
    BY <1>2
  <2> QED BY <1>5, <2>1, <2>2
<1>6. \A k \in 1..m : b[k].is # "prose"
  <2>1. CASE m = 1 /\ b[1].is = "directive"
    BY <2>1
  <2>2. CASE b[1].is = "open" /\ Reply!EndsLast(b, 1)
    <3>1. 1 \in 1..m /\ b[1].is # "prose"
      BY <1>2, <2>2
    <3> QED BY <1>5, <2>2, <3>1
  <2>3. CASE b[1].is = "bare" /\ Reply!FollowsBare(b)
    <3>1. PICK e \in 2..m : /\ \A k \in 2..e - 1 : b[k].is = "blank"
                            /\ \/ b[e].is = "object" /\ e = m
                               \/ b[e].is = "begin" /\ Reply!EndsLast(b, e)
      BY <1>2, <2>3 DEF Reply!FollowsBare
    <3>2. \A k \in e..m : b[k].is # "prose"
      <4>1. CASE b[e].is = "object" /\ e = m
        <5>1. \A k \in e..m : k = e
          BY <4>1
        <5> QED BY <4>1, <5>1
      <4>2. CASE b[e].is = "begin" /\ Reply!EndsLast(b, e)
        <5>1. e \in 1..m /\ b[e].is # "prose"
          BY <4>2
        <5> QED BY <1>5, <4>2, <5>1
      <4> QED BY <3>1, <4>1, <4>2
    <3>3. ASSUME NEW k \in 1..m PROVE b[k].is # "prose"
      <4>1. k = 1 \/ k \in 2..e - 1 \/ k \in e..m
        OBVIOUS
      <4> QED BY <2>3, <3>1, <3>2, <4>1
    <3> QED BY <3>3
  <2> QED BY <1>4, <2>1, <2>2, <2>3
<1>7. ASSUME NEW k \in i..j PROVE s[k].is # "prose"
  <2>1. PICK d : d = k - i + 1 /\ d \in 1..m /\ i + d - 1 = k
    BY <1>2
  <2> QED BY <1>2, <1>6, <2>1
<1> QED BY <1>2, <1>3, <1>4, <1>7

\* What a line takes: itself or some lines from it on, none of them prose.
LEMMA TakingIs ==
    ASSUME NEW s \in Seq(Reply!Line), NEW i \in 1..Len(s)
    PROVE  \/ Taking(s, i) = 0
           \/ /\ Taking(s, i) \in Nat \ {0} /\ i + Taking(s, i) - 1 \in i..Len(s)
              /\ \A k \in i..(i + Taking(s, i) - 1) : s[k].is # "prose"
<1>1. CASE ~Reply!IsDirective(s[i])
  BY <1>1 DEF Taking
<1>2. CASE Reply!IsDirective(s[i])
  <2>1. Len(s) \in Nat /\ Taking(s, i) = Reply!Extent(s, i)
    BY <1>2 DEF Taking
  <2>2. CASE Reply!Extent(s, i) = 0
    BY <2>1, <2>2
  <2>3. CASE \E j \in i..Len(s) : Reply!Extent(s, i) = j - i + 1 /\ Reply!Complete(SubSeq(s, i, j))
    <3>1. PICK j \in i..Len(s) : Reply!Extent(s, i) = j - i + 1 /\ Reply!Complete(SubSeq(s, i, j))
      BY <2>3
    <3>2. Taking(s, i) \in Nat \ {0} /\ i + Taking(s, i) - 1 = j
      BY <2>1, <3>1
    <3>3. \A k \in i..j : s[k].is # "prose"
      BY <3>1, CompleteIs
    <3> QED BY <3>2, <3>3
  <2> QED BY <2>1, <2>2, <2>3, ExtentIs
<1> QED BY <1>1, <1>2

\* A line that says all on itself takes itself, when it holds an object.
LEMMA TakingAlone ==
    ASSUME NEW s \in Seq(Reply!Line), NEW i \in 1..Len(s), s[i].is \notin {"open", "bare"}
    PROVE  Taking(s, i) = IF s[i].is = "directive" THEN 1 ELSE 0
<1>1. CASE s[i].is = "directive"
  <2>1. Reply!IsDirective(s[i]) /\ Len(s) \in Nat /\ i \in i..Len(s) /\ i <= i + Window
    BY <1>1, WorkAssumption DEF Reply!IsDirective
  <2>2. Reply!Complete(SubSeq(s, i, i))
    <3>1. PICK b : b = SubSeq(s, i, i)
      OBVIOUS
    <3>2. Len(b) = 1 /\ b[1] = s[i]
      <4>1. /\ SubSeq(s, i, i) \in Seq(Reply!Line)
            /\ Len(SubSeq(s, i, i)) = (IF i <= i THEN i - i + 1 ELSE 0)
            /\ \A k \in 1 .. i - i + 1 : SubSeq(s, i, i)[k] = s[i + k - 1]
        <5>1. i \in 1..Len(s) + 1 /\ i \in i - 1..Len(s)
          OBVIOUS
        <5> QED BY <5>1, SubSeqProperties
      <4>2. i <= i /\ i - i + 1 = 1 /\ 1 \in 1..1 /\ i + 1 - 1 = i
        OBVIOUS
      <4> QED BY <3>1, <4>1, <4>2
    <3> QED BY <1>1, <3>1, <3>2 DEF Reply!Complete
  <2>3. PICK j \in i..Len(s) : /\ Reply!Extent(s, i) = j - i + 1
                               /\ \A k \in i..j - 1 : ~(k <= i + Window /\ Reply!Complete(SubSeq(s, i, k)))
    BY <2>1, <2>2, ExtentIs
  <2>4. j = i
    BY <2>1, <2>2, <2>3
  <2> QED BY <1>1, <2>1, <2>3, <2>4 DEF Taking
<1>2. CASE s[i].is # "directive"
  <2>1. ASSUME NEW j \in i..Len(s) PROVE ~Reply!Complete(SubSeq(s, i, j))
    BY <1>2, CompleteIs
  <2>2. Len(s) \in Nat
    OBVIOUS
  <2>3. Reply!Extent(s, i) = 0
    BY <2>1, <2>2, ExtentIs
  <2> QED BY <1>2, <2>3 DEF Taking
<1> QED BY <1>1, <1>2

\* What the parser makes of the lines from i on, when f has what it makes of later ones.
ParsedAt(s, usable, keeps, f, i) ==
    IF i > Len(s) THEN [text |-> <<>>, files |-> <<>>]
    ELSE LET n == IF Reply!IsDirective(s[i]) THEN Reply!Extent(s, i) ELSE 0
             object == s[i + n - 1].object
             next == f[i + (IF n = 0 THEN 1 ELSE n)]
             words == IF Reply!IsDirective(s[i]) /\ ~keeps THEN <<>> ELSE <<s[i]>>
         IN  IF n = 0 THEN [next EXCEPT !.text = words \o @]
             ELSE IF object \in usable THEN [next EXCEPT !.files = <<object>> \o @] ELSE next

\* f has what the parser makes of the lines from each one on.
Parses(f, s, usable, keeps, n) == f = [i \in 1..(n + 1) |-> ParsedAt(s, usable, keeps, f, i)]

\* It looks at later ones alone.
LEMMA ParsedLooks ==
    ASSUME NEW s \in Seq(Reply!Line), NEW n \in Nat, n = Len(s), NEW usable, NEW keeps,
           NEW i \in 1..(n + 1), NEW f, NEW g, \A j \in (i + 1)..(n + 1) : f[j] = g[j]
    PROVE  ParsedAt(s, usable, keeps, f, i) = ParsedAt(s, usable, keeps, g, i)
<1>1. CASE i = n + 1
  BY <1>1 DEF ParsedAt
<1>2. CASE i \in 1..n
  <2>1. PICK k : k = Taking(s, i)
    OBVIOUS
  <2>2. k = 0 \/ (k \in Nat \ {0} /\ i + k - 1 \in i..n)
    BY <1>2, <2>1, TakingIs
  <2>3. PICK to : to = i + (IF k = 0 THEN 1 ELSE k)
    OBVIOUS
  <2>4. to \in (i + 1)..(n + 1)
    BY <1>2, <2>2, <2>3
  <2>5. f[to] = g[to]
    BY <2>4
  <2> QED BY <2>1, <2>3, <2>5 DEF ParsedAt, Taking
<1> QED BY <1>1, <1>2

\* The parser goes from line to line, from the last.
LEMMA ParsedFrom ==
    ASSUME NEW s \in Seq(Reply!Line), NEW n \in Nat, n = Len(s), NEW usable, NEW keeps
    PROVE  \E f : Parses(f, s, usable, keeps, n) /\ Reply!Parsed(s, usable, keeps) = f[1]
<1> DEFINE At(f, i) == ParsedAt(s, usable, keeps, f, i)
           Good(f, k) == f = [i \in k..(n + 1) |-> At(f, i)]
<1>2. PICK S : S = {k \in 1..(n + 1) : \E f : Good(f, k)}
  OBVIOUS
<1>3. \E f : Good(f, n + 1)
  <2>1. PICK h : h = [i \in (n + 1)..(n + 1) |-> [text |-> <<>>, files |-> <<>>]]
    OBVIOUS
  <2>2. \A i \in (n + 1)..(n + 1) : i > Len(s)
    OBVIOUS
  <2>3. \A i \in (n + 1)..(n + 1) : At(h, i) = [text |-> <<>>, files |-> <<>>]
    BY <2>2 DEF ParsedAt
  <2>4. h = [i \in (n + 1)..(n + 1) |-> At(h, i)]
    <3> HIDE DEF At
    <3> QED BY <2>1, <2>3
  <2> QED BY <2>4, Zenon DEF Good
<1>4. ASSUME NEW k \in 1..n, NEW f, Good(f, k + 1) PROVE \E g : Good(g, k)
  <2>1. PICK v : v = At(f, k)
    OBVIOUS
  <2>2. PICK g : g = Earlier(f, k, n, v)
    OBVIOUS
  <2>3. \A i \in (k + 1)..(n + 1) : f[i] = At(f, i)
    <3> HIDE DEF At
    <3> QED BY <1>4
  <2>4. g = [i \in k..(n + 1) |-> g[i]] /\ g[k] = v /\ \A i \in (k + 1)..(n + 1) : g[i] = f[i]
    BY <2>2 DEF Earlier
  <2>5. \A i \in k..(n + 1) : g[i] = At(g, i)
    <3> SUFFICES ASSUME NEW i \in k..(n + 1) PROVE g[i] = At(g, i)
      OBVIOUS
    <3>1. \A j \in (i + 1)..(n + 1) : f[j] = g[j]
      <4> SUFFICES ASSUME NEW j \in (i + 1)..(n + 1) PROVE f[j] = g[j]
        OBVIOUS
      <4>1. j \in (k + 1)..(n + 1)
        OBVIOUS
      <4> QED BY ONLY <2>4, <4>1
    <3>2. i \in 1..(n + 1)
      OBVIOUS
    <3>3. At(f, i) = At(g, i)
      BY ONLY <3>1, <3>2, ParsedLooks, s \in Seq(Reply!Line), n \in Nat, n = Len(s)
    <3> HIDE DEF At
    <3>4. CASE i = k
      BY <2>1, <2>4, <3>3, <3>4
    <3>5. CASE i # k
      <4>1. i \in (k + 1)..(n + 1)
        BY <3>5
      <4> QED BY <2>3, <2>4, <3>3, <4>1
    <3> QED BY <3>4, <3>5
  <2>6. g = [i \in k..(n + 1) |-> At(g, i)]
    <3> HIDE DEF At
    <3> QED BY <2>4, <2>5
  <2> QED BY <2>6, Zenon DEF Good
<1>5. 1 \in S
  <2> HIDE DEF Good
  <2>1. \A i \in 1..(n + 1) : (\A j \in (i + 1)..(n + 1) : j \in S) => i \in S
    <3> SUFFICES ASSUME NEW i \in 1..(n + 1), \A j \in (i + 1)..(n + 1) : j \in S PROVE i \in S
      OBVIOUS
    <3>1. CASE i = n + 1
      BY <1>2, <1>3, <3>1
    <3>2. CASE i \in 1..n
      <4>1. i + 1 \in (i + 1)..(n + 1)
        BY <3>2
      <4>2. i + 1 \in S
        BY <4>1
      <4> QED BY <1>2, <1>4, <3>2, <4>2
    <3> QED BY <3>1, <3>2
  <2>2. \A i \in 1..(n + 1) : i \in S
    BY ONLY <2>1, Downwards, n \in Nat
  <2>3. 1 \in 1..(n + 1)
    OBVIOUS
  <2> QED BY <2>2, <2>3
<1>6. \E f : Parses(f, s, usable, keeps, n)
  <2> HIDE DEF Good
  <2>1. PICK f : Good(f, 1)
    BY <1>2, <1>5
  <2> QED BY <2>1, Zenon DEF Parses, Good
<1>7. PICK m : m = Len(s) + 1 /\ m = n + 1
  OBVIOUS
<1>8. \E f : f = [i \in 1..Len(s) + 1 |-> ParsedAt(s, usable, keeps, f, i)]
  BY <1>6, <1>7, Zenon DEF Parses
<1>9. PICK f : f = [i \in 1..Len(s) + 1 |-> ParsedAt(s, usable, keeps, f, i)] /\ Reply!Parsed(s, usable, keeps) = f[1]
  BY <1>8, Zenon DEF Reply!Parsed, ParsedAt
<1>10. Parses(f, s, usable, keeps, n)
  BY <1>7, <1>9, Zenon DEF Parses
<1> QED BY <1>9, <1>10, Zenon

\* What a parser gives: lines of text, and objects that it takes.
Readings(usable) == [text: Seq(Reply!Line), files: Seq(usable)]

\* A line that takes none: it is text, or dropped.
LEMMA ParsedLine ==
    ASSUME NEW s \in Seq(Reply!Line), NEW usable, NEW keeps \in BOOLEAN, NEW f, NEW i \in 1..Len(s),
           Taking(s, i) = 0, f[i + 1] \in Readings(usable)
    PROVE  /\ ParsedAt(s, usable, keeps, f, i) \in Readings(usable)
           /\ ParsedAt(s, usable, keeps, f, i).files = f[i + 1].files
           /\ ParsedAt(s, usable, keeps, f, i).text
                = (IF Reply!IsDirective(s[i]) /\ ~keeps THEN f[i + 1].text ELSE <<s[i]>> \o f[i + 1].text)
<1>1. PICK next : next = f[i + 1] /\ next \in Readings(usable)
  OBVIOUS
<1>2. PICK x : x = s[i] /\ x \in Reply!Line
  OBVIOUS
<1>3. PICK words : words = (IF Reply!IsDirective(x) /\ ~keeps THEN <<>> ELSE <<x>>) /\ words \in Seq(Reply!Line)
  <2>1. <<>> \in Seq(Reply!Line) /\ <<x>> \in Seq(Reply!Line)
    BY <1>2
  <2> QED BY <2>1
<1>4. ParsedAt(s, usable, keeps, f, i) = [next EXCEPT !.text = words \o @]
  <2>1. ~(i > Len(s))
    OBVIOUS
  <2> QED BY <1>1, <1>2, <1>3, <2>1 DEF ParsedAt, Taking
<1>5. PICK t : t = next.text /\ t \in Seq(Reply!Line) /\ next.files \in Seq(usable)
  BY <1>1 DEF Readings
<1>6. PICK r : r = words \o t /\ r \in Seq(Reply!Line)
  <2>1. words \o t \in Seq(Reply!Line)
    BY <1>3, <1>5
  <2> QED BY <2>1
<1>7. PICK p : p = ParsedAt(s, usable, keeps, f, i)
  OBVIOUS
<1>8. p \in Readings(usable) /\ p.text = r /\ p.files = next.files
  BY <1>1, <1>4, <1>5, <1>6, <1>7 DEF Readings
<1>9. r = IF Reply!IsDirective(x) /\ ~keeps THEN t ELSE <<x>> \o t
  <2>1. <<>> \o t = t
    BY <1>5
  <2> QED BY <1>3, <1>6, <2>1
<1> QED BY <1>1, <1>2, <1>5, <1>7, <1>8, <1>9

\* A directive that is whole: a file, if its object is taken, and no text.
LEMMA ParsedDirective ==
    ASSUME NEW s \in Seq(Reply!Line), NEW usable, NEW keeps \in BOOLEAN, NEW f, NEW i \in 1..Len(s),
           NEW k \in Nat \ {0}, k = Taking(s, i), f[i + k] \in Readings(usable)
    PROVE  /\ ParsedAt(s, usable, keeps, f, i) \in Readings(usable)
           /\ ParsedAt(s, usable, keeps, f, i).text = f[i + k].text
           /\ ParsedAt(s, usable, keeps, f, i).files
                = IF s[i + k - 1].object \in usable THEN <<s[i + k - 1].object>> \o f[i + k].files ELSE f[i + k].files
<1>1. PICK next : next = f[i + k] /\ next \in Readings(usable)
  OBVIOUS
<1>2. PICK x : x = s[i + k - 1].object
  OBVIOUS
<1>3. ParsedAt(s, usable, keeps, f, i) = IF x \in usable THEN [next EXCEPT !.files = <<x>> \o @] ELSE next
  <2>1. ~(i > Len(s)) /\ k # 0
    OBVIOUS
  <2> QED BY <1>1, <1>2, <2>1 DEF ParsedAt, Taking
<1>4. PICK t : t = next.files /\ t \in Seq(usable) /\ next.text \in Seq(Reply!Line)
  BY <1>1 DEF Readings
<1>5. PICK p : p = ParsedAt(s, usable, keeps, f, i)
  OBVIOUS
<1>6. CASE x \in usable
  <2>1. PICK r : r = <<x>> \o t /\ r \in Seq(usable)
    <3>1. <<x>> \o t \in Seq(usable)
      BY <1>4, <1>6
    <3> QED BY <3>1
  <2>2. p \in Readings(usable) /\ p.text = next.text /\ p.files = r
    BY <1>1, <1>3, <1>4, <1>5, <1>6, <2>1 DEF Readings
  <2> QED BY <1>1, <1>2, <1>4, <1>5, <1>6, <2>1, <2>2
<1>7. CASE x \notin usable
  BY <1>1, <1>2, <1>3, <1>4, <1>5, <1>7
<1> QED BY <1>6, <1>7

\* f has what the parser reads from each line on.
Reads(f, s, usable, keeps, n) ==
    /\ \A i \in 1..(n + 1) : f[i] \in Readings(usable)
    /\ f[n + 1].text = <<>> /\ f[n + 1].files = <<>>
    /\ \A i \in 1..n : Taking(s, i) = 0 =>
          /\ f[i].files = f[i + 1].files
          /\ f[i].text = (IF Reply!IsDirective(s[i]) /\ ~keeps THEN f[i + 1].text ELSE <<s[i]>> \o f[i + 1].text)
    /\ \A i \in 1..n : Taking(s, i) # 0 =>
          /\ f[i].text = f[i + Taking(s, i)].text
          /\ f[i].files = IF s[i + Taking(s, i) - 1].object \in usable
                          THEN <<s[i + Taking(s, i) - 1].object>> \o f[i + Taking(s, i)].files
                          ELSE f[i + Taking(s, i)].files

\* Each step of the parser.
LEMMA ParsedSteps ==
    ASSUME NEW s \in Seq(Reply!Line), NEW n \in Nat, n = Len(s), NEW usable, NEW keeps \in BOOLEAN
    PROVE  \E f : Reads(f, s, usable, keeps, n) /\ Reply!Parsed(s, usable, keeps) = f[1]
<1>1. PICK f : Parses(f, s, usable, keeps, n) /\ Reply!Parsed(s, usable, keeps) = f[1]
  BY ParsedFrom
<1>2. \A i \in 1..(n + 1) : f[i] = ParsedAt(s, usable, keeps, f, i)
  BY <1>1 DEF Parses
<1>3. f[n + 1] = [text |-> <<>>, files |-> <<>>]
  <2>1. n + 1 \in 1..(n + 1) /\ n + 1 > Len(s)
    OBVIOUS
  <2> QED BY <1>2, <2>1 DEF ParsedAt
<1>4. PICK S : S = {i \in 1..(n + 1) : f[i] \in Readings(usable)}
  OBVIOUS
<1>5. ASSUME NEW i \in 1..n PROVE Taking(s, i) = 0 \/ (Taking(s, i) \in Nat \ {0} /\ i + Taking(s, i) \in (i + 1)..(n + 1))
  <2>1. PICK k : k = Taking(s, i)
    OBVIOUS
  <2>2. k = 0 \/ (k \in Nat \ {0} /\ i + k - 1 \in i..n)
    BY <2>1, TakingIs
  <2> QED BY <2>1, <2>2
<1>6. ASSUME NEW i \in 1..(n + 1), \A j \in (i + 1)..(n + 1) : j \in S PROVE i \in S
  <2>1. CASE i = n + 1
    <3>1. <<>> \in Seq(Reply!Line) /\ <<>> \in Seq(usable)
      OBVIOUS
    <3>2. f[n + 1] \in Readings(usable)
      BY <1>3, <3>1 DEF Readings
    <3> QED BY <1>4, <2>1, <3>2
  <2>2. CASE i \in 1..n
    <3>1. CASE Taking(s, i) = 0
      <4>1. i + 1 \in (i + 1)..(n + 1)
        BY <2>2
      <4>2. f[i + 1] \in Readings(usable)
        BY <1>4, <1>6, <4>1
      <4>3. ParsedAt(s, usable, keeps, f, i) \in Readings(usable)
        BY <2>2, <3>1, <4>2, ParsedLine
      <4> QED BY <1>2, <1>4, <4>3
    <3>2. CASE Taking(s, i) # 0
      <4>1. PICK k \in Nat \ {0} : k = Taking(s, i) /\ i + k \in (i + 1)..(n + 1)
        BY <1>5, <2>2, <3>2
      <4>2. f[i + k] \in Readings(usable)
        BY <1>4, <1>6, <4>1
      <4>3. ParsedAt(s, usable, keeps, f, i) \in Readings(usable)
        BY <2>2, <4>1, <4>2, ParsedDirective
      <4> QED BY <1>2, <1>4, <4>3
    <3> QED BY <3>1, <3>2
  <2> QED BY <2>1, <2>2
<1>7. \A i \in 1..(n + 1) : f[i] \in Readings(usable)
  <2>1. \A i \in 1..(n + 1) : i \in S
    BY ONLY <1>6, Downwards, n \in Nat
  <2> QED BY <1>4, <2>1
<1>8. ASSUME NEW i \in 1..n, Taking(s, i) = 0
      PROVE  /\ f[i].files = f[i + 1].files
             /\ f[i].text = (IF Reply!IsDirective(s[i]) /\ ~keeps THEN f[i + 1].text ELSE <<s[i]>> \o f[i + 1].text)
  <2>1. f[i + 1] \in Readings(usable) /\ f[i] = ParsedAt(s, usable, keeps, f, i)
    BY <1>2, <1>7
  <2>2. /\ ParsedAt(s, usable, keeps, f, i).files = f[i + 1].files
        /\ ParsedAt(s, usable, keeps, f, i).text
                = (IF Reply!IsDirective(s[i]) /\ ~keeps THEN f[i + 1].text ELSE <<s[i]>> \o f[i + 1].text)
    BY <1>8, <2>1, ParsedLine
  <2> QED BY <2>1, <2>2, Zenon
<1>9. ASSUME NEW i \in 1..n, Taking(s, i) # 0
      PROVE  /\ f[i].text = f[i + Taking(s, i)].text
             /\ f[i].files = IF s[i + Taking(s, i) - 1].object \in usable
                             THEN <<s[i + Taking(s, i) - 1].object>> \o f[i + Taking(s, i)].files
                             ELSE f[i + Taking(s, i)].files
  <2>1. PICK k \in Nat \ {0} : k = Taking(s, i) /\ i + k \in (i + 1)..(n + 1)
    BY <1>5, <1>9
  <2>2. f[i + k] \in Readings(usable) /\ f[i] = ParsedAt(s, usable, keeps, f, i)
    BY <1>2, <1>7, <2>1
  <2>3. /\ ParsedAt(s, usable, keeps, f, i).text = f[i + k].text
        /\ ParsedAt(s, usable, keeps, f, i).files
             = IF s[i + k - 1].object \in usable THEN <<s[i + k - 1].object>> \o f[i + k].files ELSE f[i + k].files
    <3>1. i \in 1..Len(s) /\ k = Taking(s, i) /\ f[i + k] \in Readings(usable)
      BY <2>1, <2>2
    <3> QED BY ONLY <3>1, ParsedDirective, s \in Seq(Reply!Line), keeps \in BOOLEAN, k \in Nat \ {0}
  <2> QED BY <2>1, <2>2, <2>3, Zenon
<1>10. f[n + 1].text = <<>> /\ f[n + 1].files = <<>>
  BY <1>3
<1>11. Reads(f, s, usable, keeps, n)
  BY <1>7, <1>8, <1>9, <1>10, Zenon DEF Reads
<1> QED BY <1>1, <1>11, Zenon

\* Lines that are not wanted are passed over.
LEMMA PassedOver ==
    ASSUME NEW T, NEW s, NEW W, NEW n \in Nat, NEW g, Collects(g, s, W, n, T),
           NEW i \in 1..(n + 1), NEW k \in Nat, i + k <= n + 1, \A j \in i..(i + k - 1) : s[j] \notin W
    PROVE  g[i] = g[i + k]
<1>1. PICK m \in Nat : m + 1 = i + k /\ m <= n
  <2>1. i + k - 1 \in Nat /\ i + k - 1 <= n /\ (i + k - 1) + 1 = i + k
    OBVIOUS
  <2> QED BY <2>1
<1>2. PICK S : S = {j \in 1..(m + 1) : j < i \/ g[j] = g[m + 1]}
  OBVIOUS
<1>3. ASSUME NEW j \in 1..(m + 1), \A l \in (j + 1)..(m + 1) : l \in S PROVE j \in S
  <2>1. CASE j = m + 1 \/ j < i
    BY <1>2, <2>1
  <2>2. CASE j # m + 1 /\ ~(j < i)
    <3>1. j \in i..(i + k - 1) /\ j \in 1..n /\ j + 1 \in (j + 1)..(m + 1) /\ ~(j + 1 < i)
      BY <1>1, <2>2
    <3>2. g[j + 1] = g[m + 1]
      BY <1>2, <1>3, <3>1
    <3>3. g[j] = g[j + 1]
      BY <3>1 DEF Collects
    <3> QED BY <1>2, <3>2, <3>3
  <2> QED BY <2>1, <2>2
<1>4. \A j \in 1..(m + 1) : j \in S
  BY ONLY <1>3, Downwards, m \in Nat
<1>5. i \in 1..(m + 1) /\ ~(i < i)
  BY <1>1
<1> QED BY <1>1, <1>2, <1>4, <1>5

\* The lines of prose.
ProseLines == {l \in Reply!Line : l.is = "prose"}

\* A parser keeps every line of prose, and their order.
LEMMA ProseIsRead ==
    ASSUME NEW s \in Seq(Reply!Line), NEW usable, NEW keeps \in BOOLEAN
    PROVE  Reply!Prose(Reply!Parsed(s, usable, keeps).text) = Reply!Prose(s)
<1>1. PICK n \in Nat : n = Len(s) /\ 1 \in 1..(n + 1)
  OBVIOUS
<1>2. PICK f : Reads(f, s, usable, keeps, n) /\ Reply!Parsed(s, usable, keeps) = f[1]
  BY <1>1, ParsedSteps
<1>3. PICK L : L = Reply!Line
  OBVIOUS
<1>p. PICK P : P = ProseLines
  OBVIOUS
<1>4. PICK g : Collects(g, s, P, n, L) /\ Reply!Those(s, P) = g[1]
  <2>1. s \in Seq(L)
    BY <1>3
  <2> QED BY <1>1, <2>1, ThoseSteps
<1>f. /\ \A i \in 1..(n + 1) : f[i].text \in Seq(L)
      /\ f[n + 1].text = <<>>
      /\ \A i \in 1..n : Taking(s, i) = 0 =>
            f[i].text = (IF Reply!IsDirective(s[i]) /\ ~keeps THEN f[i + 1].text ELSE <<s[i]>> \o f[i + 1].text)
      /\ \A i \in 1..n : Taking(s, i) # 0 => f[i].text = f[i + Taking(s, i)].text
  <2>1. \A i \in 1..(n + 1) : f[i].text \in Seq(L)
    BY <1>2, <1>3 DEF Reads, Readings
  <2> QED BY <1>2, <2>1, Zenon DEF Reads
<1>g. /\ g[n + 1] = <<>> /\ \A i \in 1..(n + 1) : g[i] \in Seq(L \cap P)
      /\ \A i \in 1..n : s[i] \in P => g[i] = <<s[i]>> \o g[i + 1]
      /\ \A i \in 1..n : s[i] \notin P => g[i] = g[i + 1]
  BY <1>4, Zenon DEF Collects
<1>5. PICK S : S = {i \in 1..(n + 1) : Reply!Those(f[i].text, P) = g[i]}
  OBVIOUS
<1>6. ASSUME NEW i \in 1..(n + 1), \A j \in (i + 1)..(n + 1) : j \in S PROVE i \in S
  <2>1. CASE i = n + 1
    <3>1. Reply!Those(<<>>, P) = <<>>
      BY ThoseOfOne
    <3> QED BY <1>5, <1>f, <1>g, <2>1, <3>1
  <2>2. CASE i \in 1..n /\ Taking(s, i) = 0
    <3>1. i + 1 \in (i + 1)..(n + 1) /\ i + 1 \in 1..(n + 1)
      BY <2>2
    <3>2. PICK rest : rest = f[i + 1].text /\ rest \in Seq(L)
      BY <1>f, <3>1
    <3>3. PICK after : after = g[i + 1] /\ after \in Seq(L \cap P) /\ Reply!Those(rest, P) = after
      BY <1>5, <1>6, <1>g, <3>1, <3>2
    <3>4. PICK x : x = s[i] /\ x \in L
      BY <1>1, <1>3, <2>2
    <3>5. PICK one : one = <<x>> /\ one \in Seq(L)
      <4>1. <<x>> \in Seq(L)
        BY <3>4
      <4> QED BY <4>1
    <3>6. Reply!Those(one \o rest, P) = Reply!Those(one, P) \o Reply!Those(rest, P)
      <4>1. one \in Seq(L) /\ rest \in Seq(L)
        BY <3>2, <3>5
      <4> QED BY ONLY <4>1, ThoseOfBoth
    <3>7. f[i].text = (IF Reply!IsDirective(x) /\ ~keeps THEN rest ELSE one \o rest)
      BY <1>f, <2>2, <3>2, <3>4, <3>5
    <3>8. CASE x \in P
      <4>1. ~Reply!IsDirective(x)
        BY <1>p, <3>8 DEF ProseLines, Reply!IsDirective
      <4>2. Reply!Those(one, P) = one
        BY <3>5, <3>8, ThoseOfOne
      <4>3. g[i] = one \o after
        BY <1>g, <2>2, <3>3, <3>4, <3>5, <3>8
      <4> QED BY <1>5, <3>3, <3>6, <3>7, <4>1, <4>2, <4>3
    <3>9. CASE x \notin P
      <4>1. Reply!Those(one, P) = <<>>
        BY <3>5, <3>9, ThoseOfOne
      <4>2. <<>> \o after = after
        BY <3>3
      <4>3. g[i] = after
        BY <1>g, <2>2, <3>3, <3>4, <3>9
      <4> QED BY <1>5, <3>3, <3>6, <3>7, <4>1, <4>2, <4>3
    <3> QED BY <3>8, <3>9
  <2>3. CASE i \in 1..n /\ Taking(s, i) # 0
    <3>1. PICK k : k = Taking(s, i)
      OBVIOUS
    <3>2. k \in Nat \ {0} /\ i + k - 1 \in i..Len(s) /\ \A j \in i..(i + k - 1) : s[j].is # "prose"
      BY <1>1, <2>3, <3>1, TakingIs
    <3>3. i + k \in (i + 1)..(n + 1) /\ i + k <= n + 1 /\ k \in Nat
      BY <1>1, <2>3, <3>2
    <3>4. \A j \in i..(i + k - 1) : s[j] \notin P
      BY <1>p, <3>2 DEF ProseLines
    <3>5. g[i] = g[i + k]
      <4>1. Collects(g, s, P, n, L)
        BY <1>4
      <4>2. k \in Nat /\ i + k <= n + 1
        BY <3>3
      <4> QED BY ONLY <4>1, <4>2, <3>4, PassedOver, n \in Nat, i \in 1..(n + 1)
    <3>6. Reply!Those(f[i + k].text, P) = g[i + k]
      BY <1>5, <1>6, <3>3
    <3>7. f[i].text = f[i + k].text
      BY <1>f, <2>3, <3>1
    <3> QED BY <1>5, <3>5, <3>6, <3>7
  <2> QED BY <2>1, <2>2, <2>3
<1>7. 1 \in S
  <2>1. \A i \in 1..(n + 1) : i \in S
    BY ONLY <1>6, Downwards, n \in Nat
  <2> QED BY <1>1, <2>1
<1>8. Reply!Those(f[1].text, P) = Reply!Those(s, P)
  BY <1>4, <1>5, <1>7
<1> QED BY <1>2, <1>p, <1>8 DEF Reply!Prose, ProseLines

\* Trimming takes blank lines alone.
LEMMA TrimmedIs ==
    ASSUME NEW T, NEW t \in Seq(T), NEW W, \A l \in W : l.is # "blank"
    PROVE  Reply!Trimmed(t) \in Seq(T) /\ Reply!Those(Reply!Trimmed(t), W) = Reply!Those(t, W)
<1>1. PICK n \in Nat : n = Len(t) /\ \A i \in 1..n : t[i] \in T
  OBVIOUS
<1>2. PICK said : said = {i \in 1..n : t[i].is # "blank"}
  OBVIOUS
<1>3. Reply!Trimmed(t) = IF said = {} THEN <<>> ELSE SubSeq(t, Reply!Min(said), Reply!Max(said))
  BY <1>1, <1>2 DEF Reply!Trimmed
\* Of a stretch of blank lines.
<1>4. ASSUME NEW a \in Int, NEW b \in Int, \A i \in a..b : i \in 1..n /\ i \notin said
      PROVE  SubSeq(t, a, b) \in Seq(T) /\ Reply!Those(SubSeq(t, a, b), W) = <<>>
  <2>1. PICK B : B = {l \in T : l.is = "blank"} /\ B \cap W = {} /\ B \subseteq T
    <3>1. {l \in T : l.is = "blank"} \cap W = {} /\ {l \in T : l.is = "blank"} \subseteq T
      OBVIOUS
    <3> QED BY <3>1
  <2>2. \A i \in a..b : t[i] \in B
    BY <1>1, <1>2, <1>4, <2>1
  <2>3. PICK c : c = SubSeq(t, a, b) /\ c \in Seq(B)
    <3>1. SubSeq(t, a, b) \in Seq(B)
      BY ONLY <2>2, SubSeqProperties, a \in Int, b \in Int
    <3> QED BY <3>1
  <2>4. c \in Seq(T)
    BY <2>1, <2>3
  <2>5. Reply!Those(c, W) = <<>>
    BY ONLY <2>1, <2>3, ThoseOfNone
  <2> QED BY <2>3, <2>4, <2>5
<1>5. SubSeq(t, 1, n) = t
  BY <1>1, SubSeqFull
<1>6. CASE said = {}
  <2>1. Reply!Those(t, W) = <<>>
    <3>1. 1 \in Int /\ n \in Int /\ \A i \in 1..n : i \in 1..n /\ i \notin said
      BY <1>6
    <3> QED BY <1>4, <1>5, <3>1
  <2>2. Reply!Those(<<>>, W) = <<>>
    BY ThoseOfOne
  <2>3. <<>> \in Seq(T)
    OBVIOUS
  <2> QED BY <1>3, <1>6, <2>1, <2>2, <2>3
<1>7. CASE said # {}
  <2>0. IsWellFoundedOn(OpToRel(<, Nat), Nat)
    BY NatLessThanWellFounded
  <2>1. PICK x \in said : \A y \in said : x <= y
    <3>1. said \subseteq Nat
      BY <1>2
    <3>2. PICK x \in said : \A y \in said : ~(<<y, x>> \in OpToRel(<, Nat))
      BY <1>7, <2>0, <3>1, WFMin
    <3>3. \A y \in said : ~(y < x)
      BY <3>1, <3>2 DEF OpToRel
    <3>4. \A y \in said : x <= y
      BY <3>1, <3>3
    <3> QED BY <3>4
  <2>2. PICK z \in said : \A y \in said : z >= y
    <3>1. PICK far : far = {n - i : i \in said}
      OBVIOUS
    <3>2. far \subseteq Nat /\ far # {}
      BY <1>2, <1>7, <3>1
    <3>3. PICK d \in far : \A y \in far : ~(<<y, d>> \in OpToRel(<, Nat))
      BY <2>0, <3>2, WFMin
    <3>a. \A y \in far : ~(y < d)
      BY <3>2, <3>3 DEF OpToRel
    <3>4. \A y \in far : d <= y
      BY <3>2, <3>a
    <3>5. PICK z \in said : d = n - z
      BY <3>1
    <3>6. \A y \in said : n - z <= n - y
      BY <3>1, <3>4, <3>5
    <3>7. \A y \in said : y \in Nat
      BY <1>2
    <3>8. \A y \in said : z >= y
      BY <3>6, <3>7
    <3> QED BY <3>8
  <2>3. PICK a : a = Reply!Min(said)
    OBVIOUS
  <2>4. a \in said /\ \A y \in said : a <= y
    BY <2>1, <2>3 DEF Reply!Min
  <2>5. PICK b : b = Reply!Max(said)
    OBVIOUS
  <2>6. b \in said /\ \A y \in said : b >= y
    BY <2>2, <2>5 DEF Reply!Max
  <2>7. a \in 1..n /\ b \in a..n
    BY <1>2, <2>4, <2>6
  <2>8. PICK before, mid, rest, after :
          before = SubSeq(t, 1, a - 1) /\ mid = SubSeq(t, a, b) /\ rest = SubSeq(t, a, n) /\ after = SubSeq(t, b + 1, n)
    OBVIOUS
  <2>9. before \in Seq(T) /\ Reply!Those(before, W) = <<>>
    <3>1. 1 \in Int /\ a - 1 \in Int /\ \A i \in 1..a - 1 : i \in 1..n /\ i \notin said
      BY <2>4, <2>7
    <3> QED BY <1>4, <2>8, <3>1
  <2>10. after \in Seq(T) /\ Reply!Those(after, W) = <<>>
    <3>1. b + 1 \in Int /\ n \in Int /\ \A i \in b + 1..n : i \in 1..n /\ i \notin said
      BY <2>6, <2>7
    <3> QED BY <1>4, <2>8, <3>1
  <2>11. mid \in Seq(T) /\ rest \in Seq(T)
    <3>1. a \in Int /\ b \in Int /\ n \in Int /\ (\A i \in a..b : t[i] \in T) /\ (\A i \in a..n : t[i] \in T)
      BY <1>1, <2>7
    <3>2. SubSeq(t, a, b) \in Seq(T)
      BY ONLY <3>1, SubSeqProperties
    <3>3. SubSeq(t, a, n) \in Seq(T)
      BY ONLY <3>1, SubSeqProperties
    <3> QED BY <2>8, <3>2, <3>3
  <2>12. t = before \o rest
    <3>1. 1 \in 1..Len(t) + 1 /\ a - 1 \in 1 - 1..Len(t) /\ n \in a - 1..Len(t) /\ (a - 1) + 1 = a
      BY <1>1, <2>7
    <3>2. SubSeq(t, 1, a - 1) \o SubSeq(t, (a - 1) + 1, n) = SubSeq(t, 1, n)
      BY ONLY <3>1, ConcatAdjacentSubSeq, t \in Seq(T)
    <3> QED BY <1>5, <2>8, <3>1, <3>2
  <2>13. rest = mid \o after
    <3>1. a \in 1..Len(t) + 1 /\ b \in a - 1..Len(t) /\ n \in b..Len(t)
      BY <1>1, <2>7
    <3>2. SubSeq(t, a, b) \o SubSeq(t, b + 1, n) = SubSeq(t, a, n)
      BY ONLY <3>1, ConcatAdjacentSubSeq, t \in Seq(T)
    <3> QED BY <2>8, <3>2
  <2>14. Reply!Those(t, W) = Reply!Those(before, W) \o Reply!Those(rest, W)
    <3>1. before \in Seq(T)
      BY <2>9
    <3>2. rest \in Seq(T)
      BY <2>11
    <3>3. Reply!Those(before \o rest, W) = Reply!Those(before, W) \o Reply!Those(rest, W)
      BY ONLY <3>1, <3>2, ThoseOfBoth
    <3> QED BY <2>12, <3>3
  <2>15. Reply!Those(rest, W) = Reply!Those(mid, W) \o Reply!Those(after, W)
    <3>1. mid \in Seq(T)
      BY <2>11
    <3>2. after \in Seq(T)
      BY <2>10
    <3>3. Reply!Those(mid \o after, W) = Reply!Those(mid, W) \o Reply!Those(after, W)
      BY ONLY <3>1, <3>2, ThoseOfBoth
    <3> QED BY <2>13, <3>3
  <2>16. PICK c : c = Reply!Those(mid, W) /\ c \in Seq(T \cap W)
    BY <2>11, ThoseAre
  <2>17. c \o <<>> = c /\ <<>> \o c = c
    BY <2>16
  <2> QED BY <1>3, <1>7, <2>3, <2>5, <2>8, <2>9, <2>10, <2>11, <2>14, <2>15, <2>16, <2>17
<1> QED BY <1>6, <1>7

\* What a reading gives: the files that were parsed, and the text with its prose.
LEMMA ReadingIs ==
    ASSUME NEW s \in Seq(Reply!Line), NEW usable, NEW keeps \in BOOLEAN
    PROVE  /\ Reply!Reading(s, usable, keeps).files = Reply!Parsed(s, usable, keeps).files
           /\ Reply!Reading(s, usable, keeps).files \in Seq(usable)
           /\ Reply!Reading(s, usable, keeps).text = Reply!Trimmed(Reply!Parsed(s, usable, keeps).text)
           /\ Reply!Reading(s, usable, keeps).text \in Seq(Reply!Line)
           /\ Reply!Prose(Reply!Reading(s, usable, keeps).text) = Reply!Prose(s)
<1>1. PICK r : r = Reply!Parsed(s, usable, keeps) /\ r \in Readings(usable)
  <2>1. PICK n \in Nat : n = Len(s) /\ 1 \in 1..(n + 1)
    OBVIOUS
  <2>2. PICK f : Reads(f, s, usable, keeps, n) /\ Reply!Parsed(s, usable, keeps) = f[1]
    BY <2>1, ParsedSteps
  <2> QED BY <2>1, <2>2 DEF Reads
<1>2. PICK t : t = r.text /\ t \in Seq(Reply!Line) /\ r.files \in Seq(usable)
  BY <1>1 DEF Readings
<1>3. PICK u : u = Reply!Trimmed(t)
  OBVIOUS
<1>4. PICK p : p = [r EXCEPT !.text = u] /\ p.files = r.files /\ p.text = u
  <2>1. [r EXCEPT !.text = u].files = r.files /\ [r EXCEPT !.text = u].text = u
    BY <1>1 DEF Readings
  <2> QED BY <2>1
<1>5. Reply!Reading(s, usable, keeps) = p
  BY <1>1, <1>2, <1>3, <1>4 DEF Reply!Reading
<1>6. u \in Seq(Reply!Line) /\ Reply!Those(u, ProseLines) = Reply!Those(t, ProseLines)
  <2>1. \A l \in ProseLines : l.is # "blank"
    BY DEF ProseLines
  <2> QED BY <1>2, <1>3, <2>1, TrimmedIs
<1>7. Reply!Prose(t) = Reply!Prose(s)
  BY <1>1, <1>2, ProseIsRead
<1>8. Reply!Prose(u) = Reply!Prose(s)
  BY <1>6, <1>7 DEF Reply!Prose, ProseLines
<1> QED BY <1>1, <1>2, <1>3, <1>4, <1>5, <1>6, <1>8

\* What both parsers give of any lines.
LEMMA BothRead ==
    ASSUME NEW s \in Seq(Reply!Line)
    PROVE  /\ Reply!ForTelegram(s).text \in Seq(Reply!Line) /\ Reply!Prose(Reply!ForTelegram(s).text) = Reply!Prose(s)
           /\ Reply!ForTelegram(s).files \in Seq(Reply!Objects)
           /\ Reply!ForPage(s).text \in Seq(Reply!Line) /\ Reply!Prose(Reply!ForPage(s).text) = Reply!Prose(s)
           /\ Reply!ForPage(s).files \in Seq(Reply!Objects)
<1>1. PICK U : U = {"usable", "elsewhere"} /\ U \subseteq Reply!Objects
  BY DEF Reply!Objects
<1>2. PICK O : O = Reply!OnDisk /\ O \subseteq Reply!Objects
  BY DEF Reply!Objects, Reply!OnDisk
<1>3. ASSUME NEW V, V \subseteq Reply!Objects, NEW keeps \in BOOLEAN
      PROVE  /\ Reply!Reading(s, V, keeps).text \in Seq(Reply!Line)
             /\ Reply!Prose(Reply!Reading(s, V, keeps).text) = Reply!Prose(s)
             /\ Reply!Reading(s, V, keeps).files \in Seq(Reply!Objects)
  <2>1. PICK files : files = Reply!Reading(s, V, keeps).files /\ files \in Seq(V)
    BY ReadingIs
  <2>2. files \in Seq(Reply!Objects)
    BY ONLY <1>3, <2>1
  <2> QED BY <2>1, <2>2, ReadingIs
<1>4. Reply!ForTelegram(s) = Reply!Reading(s, U, TRUE)
  BY <1>1, Zenon DEF Reply!ForTelegram
<1>5. Reply!ForPage(s) = Reply!Reading(s, O, FALSE)
  BY <1>2, Zenon DEF Reply!ForPage
<1>6. /\ Reply!Reading(s, U, TRUE).text \in Seq(Reply!Line)
      /\ Reply!Prose(Reply!Reading(s, U, TRUE).text) = Reply!Prose(s)
      /\ Reply!Reading(s, U, TRUE).files \in Seq(Reply!Objects)
  BY <1>1, <1>3
<1>7. /\ Reply!Reading(s, O, FALSE).text \in Seq(Reply!Line)
      /\ Reply!Prose(Reply!Reading(s, O, FALSE).text) = Reply!Prose(s)
      /\ Reply!Reading(s, O, FALSE).files \in Seq(Reply!Objects)
  BY <1>2, <1>3
<1> QED BY <1>4, <1>5, <1>6, <1>7, Zenon

\* A file by a line of its own.
LEMMA AsLinesAre ==
    ASSUME NEW files \in Seq(Reply!Objects)
    PROVE  /\ Reply!AsLines(files) \in Seq({l \in Reply!Line : l.is = "directive"})
           /\ Len(Reply!AsLines(files)) = Len(files)
           /\ \A i \in 1..Len(files) : Reply!AsLines(files)[i].object = files[i]
<1>1. \A o \in Reply!Objects : [is |-> "directive", object |-> o] \in Reply!Line
  BY DEF Reply!Line
<1> QED BY <1>1 DEF Reply!AsLines, Reply!AsLine

\* Files by one more line than before.
LEMMA AsLinesOfMore ==
    ASSUME NEW files \in Seq(Reply!Objects), NEW o \in Reply!Objects
    PROVE  Reply!AsLines(<<o>> \o files) = <<Reply!AsLine(o)>> \o Reply!AsLines(files)
<1>1. PICK more : more = <<o>> \o files
  OBVIOUS
<1>2. /\ more \in Seq(Reply!Objects) /\ Len(more) = Len(files) + 1 /\ more[1] = o
      /\ \A i \in 1..Len(files) : more[i + 1] = files[i]
  BY <1>1
<1>3. PICK L : L = Reply!AsLines(files)
  OBVIOUS
<1>4. L \in Seq({l \in Reply!Line : l.is = "directive"}) /\ Len(L) = Len(files) /\ \A i \in 1..Len(files) : L[i] = Reply!AsLine(files[i])
  BY <1>3, AsLinesAre DEF Reply!AsLines
<1>5. Reply!AsLines(more) = <<Reply!AsLine(o)>> \o L
  <2>1. PICK a : a = Reply!AsLine(o)
    OBVIOUS
  <2>2. PICK R : R = <<a>> \o L
    OBVIOUS
  <2>3. PICK T : T = {a} \cup {l \in Reply!Line : l.is = "directive"}
    OBVIOUS
  <2>4. L \in Seq(T) /\ <<a>> \in Seq(T)
    BY <1>4, <2>3
  <2>5. R \in Seq(T) /\ Len(R) = Len(files) + 1 /\ R[1] = a /\ \A i \in 1..Len(files) : R[i + 1] = L[i]
    BY <1>4, <2>2, <2>4
  <2>6. R = [i \in 1..Len(more) |-> R[i]]
    BY <1>2, <2>5
  <2>7. ASSUME NEW i \in 1..Len(more) PROVE R[i] = Reply!AsLine(more[i])
    <3>1. CASE i = 1
      BY <1>2, <2>1, <2>5, <3>1
    <3>2. CASE i # 1
      <4>1. i - 1 \in 1..Len(files) /\ (i - 1) + 1 = i
        BY <1>2, <3>2
      <4>2. PICK j : j = i - 1 /\ j \in 1..Len(files) /\ j + 1 = i
        BY <4>1
      <4> QED BY <1>2, <1>4, <2>5, <4>2
    <3> QED BY <3>1, <3>2
  <2>8. R = [i \in 1..Len(more) |-> Reply!AsLine(more[i])]
    BY <2>6, <2>7
  <2> QED BY <2>1, <2>2, <2>8 DEF Reply!AsLines
<1> QED BY <1>1, <1>3, <1>5

\* No two sequences of files are by the same lines.
LEMMA AsLinesTell ==
    ASSUME NEW a \in Seq(Reply!Objects), NEW b \in Seq(Reply!Objects), Reply!AsLines(a) = Reply!AsLines(b)
    PROVE  a = b
<1>1. Len(a) = Len(b)
  BY AsLinesAre
<1>2. \A i \in 1..Len(a) : a[i] = b[i]
  BY <1>1, AsLinesAre
<1> QED BY <1>1, <1>2

\* The lines that say all that they say on themselves.
Single == {l \in Reply!Line : l.is \notin {"open", "bare"}}

\* Of them, those that name an object, and those that a parser takes for text.
Named(objects) == {l \in Reply!Line : l.is = "directive" /\ l.object \in objects}
Worded(keeps) == {l \in Reply!Line : l.is # "directive" /\ (keeps \/ ~Reply!IsDirective(l))}

\* One line of them.
LEMMA SingleTakes ==
    ASSUME NEW s \in Seq(Single), NEW i \in 1..Len(s)
    PROVE  /\ s[i] \in Single /\ s[i] \in Reply!Line
           /\ s[i].is = "directive" => Taking(s, i) = 1 /\ s[i].object \in Reply!Objects /\ Reply!AsLine(s[i].object) = s[i]
           /\ s[i].is # "directive" => Taking(s, i) = 0
<1>1. s \in Seq(Reply!Line)
  <2>1. Single \subseteq Reply!Line
    BY DEF Single
  <2> QED BY <2>1
<1>2. PICK x : x = s[i] /\ x \in Single /\ x \in Reply!Line
  <2>1. s[i] \in Single
    OBVIOUS
  <2> QED BY <2>1 DEF Single
<1>3. x.is \notin {"open", "bare"}
  BY <1>2 DEF Single
<1>4. Taking(s, i) = IF s[i].is = "directive" THEN 1 ELSE 0
  BY <1>1, <1>2, <1>3, TakingAlone
<1>5. ASSUME x.is = "directive" PROVE x.object \in Reply!Objects /\ Reply!AsLine(x.object) = x
  BY <1>2, <1>5 DEF Reply!Line, Reply!Plain, Reply!AsLine
<1> QED BY <1>2, <1>4, <1>5

\* Of such lines, a parser takes the objects that are named, and the rest for text.
LEMMA SingleRead ==
    ASSUME NEW s \in Seq(Single), NEW u \in SUBSET Reply!Objects, NEW keeps \in BOOLEAN
    PROVE  /\ Reply!Parsed(s, u, keeps).text = Reply!Those(s, Worded(keeps))
           /\ Reply!AsLines(Reply!Parsed(s, u, keeps).files) = Reply!Those(s, Named(u))
<1>0. s \in Seq(Reply!Line)
  <2>1. Single \subseteq Reply!Line
    BY DEF Single
  <2> QED BY <2>1
<1>1. PICK n \in Nat : n = Len(s) /\ 1 \in 1..(n + 1)
  OBVIOUS
<1>2. PICK f : Reads(f, s, u, keeps, n) /\ Reply!Parsed(s, u, keeps) = f[1]
  BY <1>0, <1>1, ParsedSteps
<1>3. PICK L : L = Reply!Line
  OBVIOUS
<1>w. PICK W : W = Worded(keeps)
  OBVIOUS
<1>n. PICK N : N = Named(u)
  OBVIOUS
<1>4. PICK t : Collects(t, s, W, n, L) /\ Reply!Those(s, W) = t[1]
  <2>1. s \in Seq(L)
    BY <1>0, <1>3
  <2> QED BY <1>1, <2>1, ThoseSteps
<1>5. PICK g : Collects(g, s, N, n, L) /\ Reply!Those(s, N) = g[1]
  <2>1. s \in Seq(L)
    BY <1>0, <1>3
  <2> QED BY <1>1, <2>1, ThoseSteps
<1>f. /\ f[n + 1].text = <<>> /\ f[n + 1].files = <<>>
      /\ \A i \in 1..n : Taking(s, i) = 0 =>
            /\ f[i].files = f[i + 1].files
            /\ f[i].text = (IF Reply!IsDirective(s[i]) /\ ~keeps THEN f[i + 1].text ELSE <<s[i]>> \o f[i + 1].text)
      /\ \A i \in 1..n : Taking(s, i) # 0 =>
          /\ f[i].text = f[i + Taking(s, i)].text
          /\ f[i].files = IF s[i + Taking(s, i) - 1].object \in u
                          THEN <<s[i + Taking(s, i) - 1].object>> \o f[i + Taking(s, i)].files
                          ELSE f[i + Taking(s, i)].files
  BY <1>2, Zenon DEF Reads
<1>a. \A i \in 1..(n + 1) : f[i].text \in Seq(L) /\ f[i].files \in Seq(u)
  BY <1>2, <1>3 DEF Reads, Readings
<1>t. /\ t[n + 1] = <<>>
      /\ \A i \in 1..n : s[i] \in W => t[i] = <<s[i]>> \o t[i + 1]
      /\ \A i \in 1..n : s[i] \notin W => t[i] = t[i + 1]
  BY <1>4, Zenon DEF Collects
<1>g. /\ g[n + 1] = <<>>
      /\ \A i \in 1..n : s[i] \in N => g[i] = <<s[i]>> \o g[i + 1]
      /\ \A i \in 1..n : s[i] \notin N => g[i] = g[i + 1]
  BY <1>5, Zenon DEF Collects
<1>6. PICK S : S = {i \in 1..(n + 1) : f[i].text = t[i] /\ Reply!AsLines(f[i].files) = g[i]}
  OBVIOUS
<1>7. ASSUME NEW i \in 1..(n + 1), \A j \in (i + 1)..(n + 1) : j \in S PROVE i \in S
  <2>1. CASE i = n + 1
    <3>1. Reply!AsLines(<<>>) = <<>>
      BY DEF Reply!AsLines
    <3> QED BY <1>6, <1>f, <1>t, <1>g, <2>1, <3>1
  <2>2. CASE i \in 1..n
    <3>1. i + 1 \in (i + 1)..(n + 1) /\ i + 1 \in 1..(n + 1)
      BY <2>2
    <3>2. f[i + 1].text = t[i + 1] /\ Reply!AsLines(f[i + 1].files) = g[i + 1]
      BY <1>6, <1>7, <3>1
    <3>3. PICK x : x = s[i] /\ x \in Reply!Line
      BY <1>0, <1>1, <2>2
    <3>4. CASE x.is = "directive"
      <4>1. Taking(s, i) = 1 /\ x.object \in Reply!Objects /\ Reply!AsLine(x.object) = x
        BY <1>1, <2>2, <3>3, <3>4, SingleTakes
      <4>2. PICK o : o = x.object
        OBVIOUS
      <4>3. s[i + Taking(s, i) - 1].object = o
        <5>1. i + 1 - 1 = i
          OBVIOUS
        <5> QED BY <3>3, <4>1, <4>2, <5>1
      <4>4. f[i].text = f[i + 1].text
        <5>1. Taking(s, i) # 0
          BY <4>1
        <5>2. f[i].text = f[i + Taking(s, i)].text
          BY <1>f, <2>2, <5>1, Zenon
        <5> QED BY <4>1, <5>2
      <4>5. f[i].files = IF o \in u THEN <<o>> \o f[i + 1].files ELSE f[i + 1].files
        BY <1>f, <2>2, <4>1, <4>3
      <4>6. x \notin W
        BY <1>w, <3>4 DEF Worded
      <4>7. t[i] = t[i + 1]
        BY <1>t, <2>2, <3>3, <4>6
      <4>8. CASE o \in u
        <5>1. PICK rest : rest = f[i + 1].files /\ rest \in Seq(Reply!Objects)
          <6>1. f[i + 1].files \in Seq(u)
            BY <1>a, <3>1
          <6> QED BY <6>1
        <5>2. Reply!AsLines(<<o>> \o rest) = <<Reply!AsLine(o)>> \o Reply!AsLines(rest)
          BY <4>1, <4>2, <5>1, AsLinesOfMore
        <5>3. x \in N
          BY <1>n, <3>3, <3>4, <4>2, <4>8 DEF Named
        <5>4. g[i] = <<x>> \o g[i + 1]
          BY <1>g, <2>2, <3>3, <5>3
        <5>5. Reply!AsLines(f[i].files) = g[i]
          BY <3>2, <4>1, <4>2, <4>5, <4>8, <5>1, <5>2, <5>4
        <5> QED BY <1>6, <3>2, <4>4, <4>7, <5>5
      <4>9. CASE o \notin u
        <5>1. x \notin N
          BY <1>n, <4>2, <4>9 DEF Named
        <5>2. g[i] = g[i + 1]
          BY <1>g, <2>2, <3>3, <5>1
        <5> QED BY <1>6, <3>2, <4>4, <4>5, <4>7, <4>9, <5>2
      <4> QED BY <4>8, <4>9
    <3>5. CASE x.is # "directive"
      <4>1. Taking(s, i) = 0
        BY <1>1, <2>2, <3>3, <3>5, SingleTakes
      <4>2. x \notin N /\ (x \in W <=> (keeps \/ ~Reply!IsDirective(x)))
        BY <1>n, <1>w, <3>3, <3>5 DEF Named, Worded
      <4>3. g[i] = g[i + 1]
        BY <1>g, <2>2, <3>3, <4>2
      <4>4. f[i].files = f[i + 1].files
        BY <1>f, <2>2, <4>1
      <4>5. f[i].text = IF Reply!IsDirective(x) /\ ~keeps THEN f[i + 1].text ELSE <<x>> \o f[i + 1].text
        BY <1>f, <2>2, <3>3, <4>1
      <4>6. f[i].text = t[i]
        BY <1>t, <2>2, <3>2, <3>3, <4>2, <4>5
      <4> QED BY <1>6, <3>2, <4>3, <4>4, <4>6
    <3> QED BY <3>4, <3>5
  <2> QED BY <2>1, <2>2
<1>8. 1 \in S
  <2>1. \A i \in 1..(n + 1) : i \in S
    BY ONLY <1>7, Downwards, n \in Nat
  <2> QED BY <1>1, <2>1
<1> QED BY <1>2, <1>4, <1>5, <1>6, <1>8, <1>w, <1>n

\* What Telegram's log and the web's are, of any answer.
LEMMA LogsAre ==
    ASSUME NEW s \in Seq(Reply!Line)
    PROVE  /\ Reply!TelegramLog(s) \in Seq(Reply!Line) /\ Reply!Prose(Reply!TelegramLog(s)) = Reply!Prose(s)
           /\ Reply!WebLog(s) \in Seq(Reply!Line) /\ Reply!Prose(Reply!WebLog(s)) = Reply!Prose(s)
<1>1. PICK L : L = Reply!Line
  OBVIOUS
<1>p. PICK P : P = ProseLines
  OBVIOUS
<1>2. \A t : Reply!Prose(t) = Reply!Those(t, P)
  BY <1>p DEF Reply!Prose, ProseLines
<1>3. ASSUME NEW a, NEW b, a \in Seq(L), b \in Seq(L), Reply!Those(a, P) = Reply!Those(s, P), Reply!Those(b, P) = <<>>
      PROVE  a \o b \in Seq(L) /\ Reply!Those(a \o b, P) = Reply!Those(s, P)
  <2>1. Reply!Those(a \o b, P) = Reply!Those(a, P) \o Reply!Those(b, P)
    <3>1. a \in Seq(L)
      BY <1>3
    <3>2. b \in Seq(L)
      BY <1>3
    <3> QED BY ONLY <3>1, <3>2, ThoseOfBoth
  <2>2. PICK c : c = Reply!Those(a, P) /\ c \in Seq(L \cap P)
    BY <1>3, ThoseAre
  <2>3. c \o <<>> = c
    BY <2>2
  <2> QED BY <1>3, <2>1, <2>2, <2>3
<1>4. Reply!TelegramLog(s) \in Seq(L) /\ Reply!Those(Reply!TelegramLog(s), P) = Reply!Those(s, P)
  <2>1. PICK a : a = Reply!ForTelegram(s).text /\ a \in Seq(L) /\ Reply!Those(a, P) = Reply!Those(s, P)
    BY <1>1, <1>2, BothRead
  <2>2. PICK files : files = Reply!ForTelegram(s).files /\ files \in Seq(Reply!Objects)
    BY BothRead
  <2>3. PICK D : D = {l \in Reply!Line : l.is = "directive"}
    OBVIOUS
  <2>4. PICK b : b = Reply!AsLines(files) /\ b \in Seq(D)
    BY <2>2, <2>3, AsLinesAre
  <2>5. D \cap P = {} /\ D \subseteq L
    BY <1>1, <1>p, <2>3 DEF ProseLines
  <2>6. b \in Seq(L) /\ Reply!Those(b, P) = <<>>
    BY <2>4, <2>5, ThoseOfNone
  <2>7. a \o b \in Seq(L) /\ Reply!Those(a \o b, P) = Reply!Those(s, P)
    BY <1>3, <2>1, <2>6
  <2> QED BY <2>1, <2>2, <2>4, <2>7 DEF Reply!TelegramLog
<1>5. Reply!WebLog(s) \in Seq(L) /\ Reply!Those(Reply!WebLog(s), P) = Reply!Those(s, P)
  <2>1. PICK a : a = Reply!ForPage(s).text /\ a \in Seq(L) /\ Reply!Those(a, P) = Reply!Those(s, P)
    BY <1>1, <1>2, BothRead
  <2>2. PICK Q : Q = {l \in Reply!Line : Reply!IsDirective(l) /\ l.is # "bare"}
    OBVIOUS
  <2>3. PICK b : b = Reply!Those(s, Q) /\ b \in Seq(L \cap Q)
    BY <1>1, ThoseAre
  <2>4. (L \cap Q) \cap P = {} /\ L \cap Q \subseteq L
    BY <1>p, <2>2 DEF ProseLines, Reply!IsDirective
  <2>5. b \in Seq(L) /\ Reply!Those(b, P) = <<>>
    BY <2>3, <2>4, ThoseOfNone
  <2>6. a \o b \in Seq(L) /\ Reply!Those(a \o b, P) = Reply!Those(s, P)
    BY <1>3, <2>1, <2>5
  <2> QED BY <2>1, <2>2, <2>3, <2>6 DEF Reply!WebLog
<1> QED BY <1>1, <1>2, <1>4, <1>5

\* A reading of such lines: its files are the named ones, and its text names none.
LEMMA SingleReading ==
    ASSUME NEW s \in Seq(Single), NEW u \in SUBSET Reply!Objects, NEW keeps \in BOOLEAN, NEW o \in SUBSET Reply!Objects
    PROVE  /\ Reply!Reading(s, u, keeps).files \in Seq(Reply!Objects)
           /\ Reply!AsLines(Reply!Reading(s, u, keeps).files) = Reply!Those(s, Named(u))
           /\ Reply!Reading(s, u, keeps).text \in Seq(Single)
           /\ Reply!Those(Reply!Reading(s, u, keeps).text, Named(o)) = <<>>
<1>0. s \in Seq(Reply!Line)
  <2>1. Single \subseteq Reply!Line
    BY DEF Single
  <2> QED BY <2>1
<1>1. PICK files : files = Reply!Reading(s, u, keeps).files /\ files \in Seq(u) /\ files = Reply!Parsed(s, u, keeps).files
  BY <1>0, ReadingIs
<1>2. files \in Seq(Reply!Objects)
  BY ONLY <1>1, u \in SUBSET Reply!Objects
<1>3. Reply!AsLines(files) = Reply!Those(s, Named(u))
  BY <1>1, SingleRead
<1>4. PICK T : T = Single \cap Worded(keeps) /\ T \cap Named(o) = {} /\ T \subseteq Single
  <2>1. (Single \cap Worded(keeps)) \cap Named(o) = {} /\ Single \cap Worded(keeps) \subseteq Single
    BY DEF Worded, Named
  <2> QED BY <2>1
<1>5. PICK t : t = Reply!Parsed(s, u, keeps).text /\ t \in Seq(T)
  <2>1. Reply!Parsed(s, u, keeps).text = Reply!Those(s, Worded(keeps))
    BY SingleRead
  <2>2. Reply!Those(s, Worded(keeps)) \in Seq(T)
    BY <1>4, ThoseAre
  <2> QED BY <2>1, <2>2
<1>6. PICK r : r = Reply!Trimmed(t) /\ r = Reply!Reading(s, u, keeps).text
  BY <1>0, <1>5, ReadingIs
<1>7. r \in Seq(T)
  <2>1. PICK W : W = {} /\ \A l \in W : l.is # "blank"
    OBVIOUS
  <2>2. Reply!Trimmed(t) \in Seq(T)
    BY <1>5, <2>1, TrimmedIs
  <2> QED BY <1>6, <2>2
<1>8. r \in Seq(Single)
  BY ONLY <1>4, <1>7
<1>9. Reply!Those(r, Named(o)) = <<>>
  BY <1>4, <1>7, ThoseOfNone
<1> QED BY <1>1, <1>2, <1>3, <1>6, <1>8, <1>9

\* Some of the files are named by those of their lines.
LEMMA SomeOfFiles ==
    ASSUME NEW files \in Seq(Reply!Objects), NEW o \in SUBSET Reply!Objects
    PROVE  /\ Reply!Those(files, o) \in Seq(Reply!Objects)
           /\ Reply!AsLines(Reply!Those(files, o)) = Reply!Those(Reply!AsLines(files), Named(o))
<1>0. PICK O : O = Reply!Objects /\ files \in Seq(O)
  OBVIOUS
<1>1. PICK n \in Nat : n = Len(files) /\ 1 \in 1..(n + 1)
  OBVIOUS
<1>2. PICK D : D = {l \in Reply!Line : l.is = "directive"}
  OBVIOUS
<1>3. PICK b : b = Reply!AsLines(files) /\ b \in Seq(D) /\ Len(b) = n /\ \A i \in 1..n : b[i] = Reply!AsLine(files[i])
  <2>1. \A i \in 1..n : Reply!AsLines(files)[i] = Reply!AsLine(files[i])
    BY <1>1 DEF Reply!AsLines
  <2> QED BY <1>1, <1>2, <2>1, AsLinesAre
<1>n. PICK N : N = Named(o)
  OBVIOUS
<1>4. PICK f : Collects(f, files, o, n, O) /\ Reply!Those(files, o) = f[1]
  BY <1>0, <1>1, ThoseSteps
<1>5. PICK g : Collects(g, b, N, n, D) /\ Reply!Those(b, N) = g[1]
  BY <1>1, <1>3, ThoseSteps
<1>f. /\ f[n + 1] = <<>> /\ \A i \in 1..(n + 1) : f[i] \in Seq(O \cap o)
      /\ \A i \in 1..n : files[i] \in o => f[i] = <<files[i]>> \o f[i + 1]
      /\ \A i \in 1..n : files[i] \notin o => f[i] = f[i + 1]
  BY <1>4, Zenon DEF Collects
<1>g. /\ g[n + 1] = <<>>
      /\ \A i \in 1..n : b[i] \in N => g[i] = <<b[i]>> \o g[i + 1]
      /\ \A i \in 1..n : b[i] \notin N => g[i] = g[i + 1]
  BY <1>5, Zenon DEF Collects
<1>a. \A i \in 1..(n + 1) : f[i] \in Seq(Reply!Objects)
  BY <1>0, <1>f
<1>6. PICK S : S = {i \in 1..(n + 1) : Reply!AsLines(f[i]) = g[i]}
  OBVIOUS
<1>7. ASSUME NEW i \in 1..(n + 1), \A j \in (i + 1)..(n + 1) : j \in S PROVE i \in S
  <2>1. CASE i = n + 1
    <3>1. Reply!AsLines(<<>>) = <<>>
      BY DEF Reply!AsLines
    <3> QED BY <1>6, <1>f, <1>g, <2>1, <3>1
  <2>2. CASE i \in 1..n
    <3>1. i + 1 \in (i + 1)..(n + 1) /\ i + 1 \in 1..(n + 1)
      BY <2>2
    <3>2. PICK rest : rest = f[i + 1] /\ rest \in Seq(Reply!Objects) /\ Reply!AsLines(rest) = g[i + 1]
      BY <1>6, <1>7, <1>a, <3>1
    <3>3. PICK x : x = files[i] /\ x \in Reply!Objects
      BY <1>1, <2>2
    <3>4. PICK y : y = b[i] /\ y = Reply!AsLine(x) /\ y \in Reply!Line
      BY <1>2, <1>3, <2>2, <3>3
    <3>5. y \in N <=> x \in o
      BY <1>n, <3>3, <3>4 DEF Named, Reply!AsLine
    <3>6. CASE x \in o
      <4>1. f[i] = <<x>> \o rest /\ g[i] = <<y>> \o g[i + 1]
        BY <1>f, <1>g, <2>2, <3>2, <3>3, <3>4, <3>5, <3>6
      <4>2. Reply!AsLines(<<x>> \o rest) = <<Reply!AsLine(x)>> \o Reply!AsLines(rest)
        BY <3>2, <3>3, AsLinesOfMore
      <4> QED BY <1>6, <3>2, <3>4, <4>1, <4>2
    <3>7. CASE x \notin o
      <4>1. f[i] = rest /\ g[i] = g[i + 1]
        BY <1>f, <1>g, <2>2, <3>2, <3>3, <3>4, <3>5, <3>7
      <4> QED BY <1>6, <3>2, <4>1
    <3> QED BY <3>6, <3>7
  <2> QED BY <2>1, <2>2
<1>8. 1 \in S
  <2>1. \A i \in 1..(n + 1) : i \in S
    BY ONLY <1>7, Downwards, n \in Nat
  <2> QED BY <1>1, <2>1
<1> QED BY <1>1, <1>3, <1>4, <1>5, <1>6, <1>8, <1>a, <1>n

\* A page made from the log offers the files of an answer that named each on one
\* line: those of them that a page may offer, and no other.
LEMMA LogsOffer ==
    ASSUME NEW s \in Seq(Single)
    PROVE  /\ Reply!ForPage(Reply!TelegramLog(s)).files = Reply!Those(Reply!ForTelegram(s).files, Reply!OnDisk)
           /\ Reply!ForPage(Reply!WebLog(s)).files = Reply!Those(Reply!ForPage(s).files, Reply!OnDisk)
<1>1. PICK O : O = Reply!OnDisk /\ O \in SUBSET Reply!Objects
  BY DEF Reply!Objects, Reply!OnDisk
<1>2. PICK D : D = Named(O)
  OBVIOUS
<1>4. ASSUME NEW t \in Seq(Single)
      PROVE  /\ Reply!ForPage(t).files \in Seq(Reply!Objects)
             /\ Reply!AsLines(Reply!ForPage(t).files) = Reply!Those(t, D)
             /\ Reply!ForPage(t).text \in Seq(Single)
             /\ Reply!Those(Reply!ForPage(t).text, D) = <<>>
  <2>1. Reply!ForPage(t) = Reply!Reading(t, O, FALSE)
    BY <1>1, Zenon DEF Reply!ForPage
  <2>2. /\ Reply!Reading(t, O, FALSE).files \in Seq(Reply!Objects)
        /\ Reply!AsLines(Reply!Reading(t, O, FALSE).files) = Reply!Those(t, Named(O))
        /\ Reply!Reading(t, O, FALSE).text \in Seq(Single)
        /\ Reply!Those(Reply!Reading(t, O, FALSE).text, Named(O)) = <<>>
    BY <1>1, <1>4, SingleReading
  <2> QED BY <1>2, <2>1, <2>2, Zenon
\* What stands behind the text of a log is what the page offers, whatever the text is.
<1>5. ASSUME NEW a, NEW b, a \in Seq(Single), b \in Seq(Single), Reply!Those(a, D) = <<>>,
             NEW files \in Seq(Reply!Objects), Reply!Those(b, D) = Reply!Those(Reply!AsLines(files), D)
      PROVE  Reply!ForPage(a \o b).files = Reply!Those(files, O)
  <2>1. Reply!Those(a \o b, D) = Reply!Those(a, D) \o Reply!Those(b, D)
    <3>1. a \in Seq(Single)
      BY <1>5
    <3>2. b \in Seq(Single)
      BY <1>5
    <3> QED BY ONLY <3>1, <3>2, ThoseOfBoth
  <2>2. PICK c : c = Reply!Those(b, D) /\ c \in Seq(Single \cap D)
    BY <1>5, ThoseAre
  <2>3. <<>> \o c = c
    BY <2>2
  <2>4. a \o b \in Seq(Single)
    BY <1>5
  <2>5. PICK offered : /\ offered = Reply!ForPage(a \o b).files /\ offered \in Seq(Reply!Objects)
                       /\ Reply!AsLines(offered) = Reply!Those(a \o b, D)
    BY <1>4, <2>4
  <2>6. Reply!Those(files, O) \in Seq(Reply!Objects) /\ Reply!AsLines(Reply!Those(files, O)) = Reply!Those(Reply!AsLines(files), D)
    BY <1>1, <1>2, SomeOfFiles
  <2>7. Reply!AsLines(offered) = Reply!AsLines(Reply!Those(files, O))
    BY <1>5, <2>1, <2>2, <2>3, <2>5, <2>6
  <2>8. offered = Reply!Those(files, O)
    BY <2>5, <2>6, <2>7, AsLinesTell
  <2> QED BY <2>5, <2>8
<1>7. Reply!ForPage(Reply!TelegramLog(s)).files = Reply!Those(Reply!ForTelegram(s).files, O)
  <2>1. PICK U : U = {"usable", "elsewhere"} /\ U \in SUBSET Reply!Objects
    BY DEF Reply!Objects
  <2>2. Reply!ForTelegram(s) = Reply!Reading(s, U, TRUE)
    BY <2>1, Zenon DEF Reply!ForTelegram
  <2>3. PICK a : a = Reply!ForTelegram(s).text /\ a \in Seq(Single) /\ Reply!Those(a, D) = <<>>
    <3>1. Reply!Reading(s, U, TRUE).text \in Seq(Single) /\ Reply!Those(Reply!Reading(s, U, TRUE).text, Named(O)) = <<>>
      BY <1>1, <2>1, SingleReading
    <3> QED BY <1>2, <2>2, <3>1, Zenon
  <2>4. PICK files : files = Reply!ForTelegram(s).files /\ files \in Seq(Reply!Objects) /\ Reply!AsLines(files) = Reply!Those(s, Named(U))
    BY <1>1, <2>1, <2>2, SingleReading
  <2>5. PICK b : b = Reply!AsLines(files) /\ b \in Seq(Single \cap Named(U))
    BY <2>4, ThoseAre
  <2>6. b \in Seq(Single)
    BY <2>5
  <2>7. Reply!Those(b, D) = Reply!Those(Reply!AsLines(files), D)
    BY <2>5
  <2>8. Reply!TelegramLog(s) = a \o b
    BY <2>3, <2>4, <2>5, Zenon DEF Reply!TelegramLog
  <2>9. Reply!ForPage(a \o b).files = Reply!Those(files, O)
    BY <1>5, <2>3, <2>4, <2>6, <2>7
  <2> QED BY <2>4, <2>8, <2>9
<1>8. Reply!ForPage(Reply!WebLog(s)).files = Reply!Those(Reply!ForPage(s).files, O)
  <2>1. PICK a : a = Reply!ForPage(s).text /\ a \in Seq(Single) /\ Reply!Those(a, D) = <<>>
    BY <1>4
  <2>2. PICK files : files = Reply!ForPage(s).files /\ files \in Seq(Reply!Objects) /\ Reply!AsLines(files) = Reply!Those(s, D)
    BY <1>4
  <2>3. PICK Q : Q = {l \in Reply!Line : Reply!IsDirective(l) /\ l.is # "bare"}
    OBVIOUS
  <2>4. PICK b : b = Reply!Those(s, Q) /\ b \in Seq(Single \cap Q)
    BY ThoseAre
  <2>5. b \in Seq(Single)
    BY <2>4
  <2>6. Reply!Those(b, D) = Reply!Those(s, D)
    <3>1. Reply!Those(Reply!Those(s, Q), D) = Reply!Those(s, Q \cap D)
      BY ThoseOfThose
    <3>2. Q \cap D = D
      BY <1>2, <2>3 DEF Named, Reply!IsDirective
    <3> QED BY <2>4, <3>1, <3>2
  <2>7. Reply!Those(Reply!AsLines(files), D) = Reply!Those(s, D)
    <3>1. Reply!Those(Reply!Those(s, D), D) = Reply!Those(s, D \cap D)
      BY ThoseOfThose
    <3>2. D \cap D = D
      OBVIOUS
    <3> QED BY <2>2, <3>1, <3>2
  <2>8. Reply!WebLog(s) = a \o b
    BY <2>1, <2>3, <2>4, Zenon DEF Reply!WebLog
  <2>9. Reply!ForPage(a \o b).files = Reply!Those(files, O)
    BY <1>5, <2>1, <2>2, <2>5, <2>6, <2>7
  <2> QED BY <2>2, <2>8, <2>9
<1> QED BY <1>1, <1>7, <1>8

\* What the chat has so far is the beginning of the text.
StartOf(some, all) == Len(some) <= Len(all) /\ \A i \in 1..Len(some) : some[i] = all[i]

\* The types of what an answer's turn keeps.
ReplyTypes ==
    /\ channel \in {"telegram", "web"} /\ answer \in Seq(Reply!Line)
    /\ place \in {"answered", "text", "files", "done"}
    /\ told \in Seq(Reply!Line) /\ sent \in BOOLEAN /\ reloaded \in BOOLEAN

\* The log was made of the whole answer, and the chat has the text as far as it
\* was sent; a web chat's answer is there at once, and a page made from the log
\* shows what the log says.
ReplyInv ==
    /\ ReplyTypes
    /\ channel = "web" => place \in {"answered", "done"}
    /\ reloaded => place = "done" /\ told = Reply!ForPage(log).text /\ returned = Reply!ForPage(log).files
    /\ place = "answered" => told = <<>>
    /\ place # "answered" => log = IF channel = "telegram" THEN Reply!TelegramLog(answer) ELSE Reply!WebLog(answer)
    /\ channel = "telegram" /\ ~reloaded => StartOf(told, Reply!Text)
    /\ channel = "telegram" /\ ~reloaded /\ place \in {"files", "done"} /\ sent => told = Reply!Text
    /\ channel = "web" /\ ~reloaded /\ place = "done" => told = Reply!ForPage(answer).text

\* A turn begins with nothing told.
LEMMA ReplyInit == WorkInit => ReplyInv
<1> SUFFICES ASSUME WorkInit PROVE ReplyInv
  OBVIOUS
<1>1. Reply!Init
  BY DEF WorkInit
<1>2. answer \in Seq(Reply!Line)
  <2>1. PICK n \in 1..MaxLines : answer \in [1..n -> Reply!Line]
    BY <1>1 DEF Reply!Init
  <2>2. n \in Nat
    BY WorkAssumption
  <2> QED BY <2>1, <2>2
<1>3. Reply!Text \in Seq(Reply!Line)
  BY <1>2, BothRead DEF Reply!Text
<1>4. PICK text : text = Reply!Text /\ text \in Seq(Reply!Line)
  BY <1>3
<1>5. StartOf(<<>>, text)
  BY <1>4 DEF StartOf
<1>6. /\ channel \in {"telegram", "web"} /\ place = "answered" /\ told = <<>> /\ sent = TRUE /\ reloaded = FALSE
      /\ told \in Seq(Reply!Line)
  BY <1>1, Zenon, EmptySeq DEF Reply!Init
<1> QED BY <1>2, <1>4, <1>5, <1>6 DEF ReplyInv, ReplyTypes

\* A piece that is sent goes on where the text was left.
LEMMA PieceFollows ==
    ASSUME NEW text \in Seq(Reply!Line), NEW some \in Seq(Reply!Line), StartOf(some, text), Len(some) < Len(text),
           NEW piece, piece = SubSeq(text, Len(some) + 1, Reply!Min({Len(some) + PieceSize, Len(text)}))
    PROVE  some \o piece \in Seq(Reply!Line) /\ StartOf(some \o piece, text)
<1>1. PICK a \in Nat : a = Len(some)
  OBVIOUS
<1>2. PICK b \in Nat : b = Len(text) /\ a < b
  BY <1>1
<1>3. PICK m \in Int : m = Reply!Min({a + PieceSize, b}) /\ m <= b /\ m >= a
  <2>1. PieceSize \in Nat
    BY WorkAssumption
  <2>2. PICK c \in Nat : c = a + PieceSize
    BY <2>1
  <2>3. a + PieceSize >= a
    BY <2>1
  <2>4. PICK m \in {c, b} : m <= c /\ m <= b
    OBVIOUS
  <2>5. \A x \in {c, b} : (\A y \in {c, b} : x <= y) => x = m
    BY <2>4
  <2>6. Reply!Min({c, b}) = m
    BY <2>4, <2>5 DEF Reply!Min
  <2> QED BY <1>2, <2>2, <2>3, <2>4, <2>6
<1>4. piece = SubSeq(text, a + 1, m)
  BY <1>1, <1>2, <1>3
<1>5. piece \in Seq(Reply!Line) /\ Len(piece) = m - a /\ \A i \in 1..(m - a) : piece[i] = text[a + i]
  <2>1. PICK c \in Int : c = a + 1 /\ m - c + 1 = m - a /\ \A i \in 1..(m - a) : c + i - 1 = a + i
    BY <1>3
  <2>2. \A i \in c..m : text[i] \in Reply!Line
    BY <1>2, <1>3, <2>1
  <2>3. /\ SubSeq(text, c, m) \in Seq(Reply!Line)
        /\ Len(SubSeq(text, c, m)) = (IF c <= m THEN m - c + 1 ELSE 0)
        /\ \A i \in 1..m - c + 1 : SubSeq(text, c, m)[i] = text[c + i - 1]
    BY ONLY <2>2, SubSeqProperties, c \in Int, m \in Int
  <2>4. IF c <= m THEN m - c + 1 = m - a ELSE m - a = 0
    BY <1>3, <2>1
  <2> QED BY <1>4, <2>1, <2>3, <2>4
<1>6. PICK all : all = some \o piece
  OBVIOUS
<1>7. all \in Seq(Reply!Line) /\ Len(all) = m
  <2>1. PICK d \in Nat : d = m - a /\ a + d = m
    BY <1>3
  <2>2. Len(some \o piece) = Len(some) + Len(piece) /\ some \o piece \in Seq(Reply!Line)
    <3>1. piece \in Seq(Reply!Line)
      BY <1>5
    <3> QED BY ONLY <3>1, some \in Seq(Reply!Line), ConcatProperties
  <2>3. all \in Seq(Reply!Line) /\ Len(all) = a + d
    BY <1>1, <1>5, <1>6, <2>1, <2>2
  <2> QED BY <2>1, <2>3
<1>8. ASSUME NEW i \in 1..m PROVE all[i] = text[i]
  <2>1. CASE i <= a
    <3>1. all[i] = some[i]
      BY <1>1, <1>5, <1>6, <2>1
    <3> QED BY <1>1, <2>1, <3>1 DEF StartOf
  <2>2. CASE i > a
    <3>1. PICK j : j = i - a /\ j \in 1..(m - a) /\ a + j = i
      BY <1>3, <2>2
    <3>2. all[i] = piece[j]
      <4>1. i \in 1..(Len(some) + Len(piece)) /\ ~(i <= Len(some)) /\ i - Len(some) = j
        <5>1. Len(some) = a /\ Len(piece) = m - a
          BY <1>1, <1>5
        <5>2. i \in 1..(a + (m - a)) /\ ~(i <= a) /\ i - a = j
          BY <1>3, <2>2, <3>1
        <5> QED BY <5>1, <5>2
      <4>2. (some \o piece)[i] = piece[i - Len(some)]
        BY <1>5, <4>1
      <4> QED BY <1>6, <4>1, <4>2
    <3> QED BY <1>5, <3>1, <3>2
  <2> QED BY <1>3, <2>1, <2>2
<1> QED BY <1>2, <1>3, <1>6, <1>7, <1>8 DEF StartOf

\* Every step of an answer keeps the invariant.
LEMMA ReplyNext == ReplyInv /\ Reply!Next => ReplyInv'
<1> SUFFICES ASSUME ReplyInv, Reply!Next PROVE ReplyInv'
  OBVIOUS
<1>1. answer' = answer /\ channel' = channel
  BY DEF Reply!Next, Reply!RecordAnswer, Reply!SendPiece, Reply!PieceFails, Reply!TextSent,
         Reply!SendFile, Reply!FilesSent, Reply!Stopped, Reply!Reload
<1>2. PICK text : text = Reply!Text /\ text = Reply!Text' /\ text \in Seq(Reply!Line)
  <2>1. answer \in Seq(Reply!Line)
    BY DEF ReplyInv, ReplyTypes
  <2> QED BY <1>1, <2>1, BothRead DEF Reply!Text
<1>3. \A s \in Seq(Reply!Line) : Reply!ForPage(s).text \in Seq(Reply!Line)
  BY BothRead
<1>4. CASE Reply!RecordAnswer
  BY <1>1, <1>2, <1>3, <1>4 DEF Reply!RecordAnswer, ReplyInv, ReplyTypes
<1>5. CASE Reply!SendPiece
  <2>1. channel = "telegram" /\ ~reloaded /\ StartOf(told, text) /\ told \in Seq(Reply!Line) /\ Len(told) < Len(text)
    BY <1>2, <1>5 DEF Reply!SendPiece, ReplyInv, ReplyTypes
  <2>2. PICK piece : piece = Reply!Piece /\ piece = SubSeq(text, Len(told) + 1, Reply!Min({Len(told) + PieceSize, Len(text)}))
    BY <1>2 DEF Reply!Piece
  <2>3. told' \in Seq(Reply!Line) /\ StartOf(told', text)
    <3>1. told \o piece \in Seq(Reply!Line) /\ StartOf(told \o piece, text)
      BY <1>2, <2>1, <2>2, PieceFollows
    <3> QED BY <1>5, <2>2, <3>1 DEF Reply!SendPiece
  <2> QED BY <1>1, <1>2, <1>5, <2>1, <2>3 DEF Reply!SendPiece, ReplyInv, ReplyTypes
<1>6. CASE Reply!PieceFails
  BY <1>1, <1>2, <1>6 DEF Reply!PieceFails, ReplyInv, ReplyTypes
<1>7. CASE Reply!TextSent
  <2>1. channel = "telegram" /\ ~reloaded /\ StartOf(told, text) /\ told \in Seq(Reply!Line) /\ Len(told) >= Len(text)
    BY <1>2, <1>7 DEF Reply!TextSent, ReplyInv, ReplyTypes
  <2>2. told = text
    BY <1>2, <2>1 DEF StartOf
  <2> QED BY <1>1, <1>2, <1>7, <2>1, <2>2 DEF Reply!TextSent, ReplyInv, ReplyTypes
<1>8. CASE Reply!SendFile
  <2>1. place = "files" /\ place' = "files" /\ log' = log /\ told' = told /\ reloaded' = reloaded
    BY <1>8 DEF Reply!SendFile
  <2>2. sent' \in BOOLEAN /\ (sent' => sent)
    <3>1. sent \in BOOLEAN
      BY DEF ReplyInv, ReplyTypes
    <3>2. sent' = sent \/ sent' = FALSE
      BY <1>8 DEF Reply!SendFile
    <3>3. CASE sent' = sent
      BY <3>1, <3>3
    <3>4. CASE sent' = FALSE
      <4>1. ~sent'
        BY <3>4
      <4>2. sent' \in BOOLEAN
        BY <3>4
      <4> QED BY <4>1, <4>2
    <3> QED BY <3>2, <3>3, <3>4
  <2>3. ReplyTypes'
    BY <1>1, <2>1, <2>2 DEF ReplyInv, ReplyTypes
  <2> QED BY <1>1, <1>2, <2>1, <2>2, <2>3 DEF ReplyInv, ReplyTypes
<1>9. CASE Reply!FilesSent
  <2>1. place = "files" /\ place' = "done" /\ log' = log /\ told' = told /\ reloaded' = reloaded
    BY <1>9 DEF Reply!FilesSent
  <2>2. sent' \in BOOLEAN /\ (sent' => sent)
    BY <1>9, Zenon DEF Reply!FilesSent
  <2>3. ReplyTypes'
    BY <1>1, <2>1, <2>2 DEF ReplyInv, ReplyTypes
  <2> QED BY <1>1, <1>2, <2>1, <2>2, <2>3 DEF ReplyInv, ReplyTypes
<1>10. CASE Reply!Stopped
  BY <1>1, <1>2, <1>10 DEF Reply!Stopped, ReplyInv, ReplyTypes
<1>11. CASE Reply!Reload
  <2>1. log \in Seq(Reply!Line)
    BY <1>11, LogsAre DEF Reply!Reload, ReplyInv, ReplyTypes
  <2>2. log' = log /\ place' = "done" /\ place = "done" /\ reloaded' = TRUE /\ sent' = sent
    BY <1>11 DEF Reply!Reload
  <2>3. told' = Reply!ForPage(log).text /\ returned' = Reply!ForPage(log).files /\ told' \in Seq(Reply!Line)
    BY <1>3, <1>11, <2>1, Zenon DEF Reply!Reload
  <2>4. told' = Reply!ForPage(log').text /\ returned' = Reply!ForPage(log').files
    BY <2>2, <2>3
  <2>5. ReplyTypes'
    BY <1>1, <2>2, <2>3 DEF ReplyInv, ReplyTypes
  <2> QED BY <1>1, <2>2, <2>4, <2>5 DEF ReplyInv
<1> QED BY <1>4, <1>5, <1>6, <1>7, <1>8, <1>9, <1>10, <1>11 DEF Reply!Next

\* While another part moves, an answer stays where it is.
LEMMA ReplyRests == ReplyInv /\ UNCHANGED reply => ReplyInv'
<1> SUFFICES ASSUME ReplyInv, UNCHANGED reply PROVE ReplyInv'
  OBVIOUS
<1>1. Reply!Text' = Reply!Text
  BY DEF reply, Reply!Text
<1> QED BY <1>1 DEF reply, ReplyInv, ReplyTypes

\* Where an answer is done, nothing of it was lost.
LEMMA ReplyKeeps == ReplyInv => NothingLost
<1> SUFFICES ASSUME ReplyInv, place = "done" PROVE Reply!ProseStays /\ (Reply!OnOneLine => Reply!FilesStay)
  BY DEF NothingLost, Reply!NothingLost
<1>1. answer \in Seq(Reply!Line) /\ channel \in {"telegram", "web"} /\ sent \in BOOLEAN /\ reloaded \in BOOLEAN
  BY DEF ReplyInv, ReplyTypes
<1>2. log = IF channel = "telegram" THEN Reply!TelegramLog(answer) ELSE Reply!WebLog(answer)
  BY DEF ReplyInv
<1>3. \A s \in Seq(Reply!Line) :
         Reply!Prose(Reply!ForPage(s).text) = Reply!Prose(s) /\ Reply!Prose(Reply!ForTelegram(s).text) = Reply!Prose(s)
  BY BothRead
<1>4. Reply!ProseStays
  <2> SUFFICES ASSUME sent \/ reloaded PROVE Reply!Prose(told) = Reply!Prose(answer)
    BY DEF Reply!ProseStays
  <2>1. CASE reloaded
    <3>1. log \in Seq(Reply!Line) /\ Reply!Prose(log) = Reply!Prose(answer)
      BY <1>1, <1>2, LogsAre
    <3>2. told = Reply!ForPage(log).text
      BY <2>1 DEF ReplyInv
    <3> QED BY <1>3, <3>1, <3>2
  <2>2. CASE ~reloaded /\ channel = "telegram"
    <3>1. told = Reply!ForTelegram(answer).text
      BY <2>2 DEF ReplyInv, Reply!Text
    <3> QED BY <1>1, <1>3, <3>1
  <2>3. CASE ~reloaded /\ channel = "web"
    <3>1. told = Reply!ForPage(answer).text
      BY <2>3 DEF ReplyInv
    <3> QED BY <1>1, <1>3, <3>1
  <2> QED BY <1>1, <2>1, <2>2, <2>3
<1>5. ASSUME Reply!OnOneLine PROVE Reply!FilesStay
  <2>1. answer \in Seq(Single)
    <3>1. \A i \in 1..Len(answer) : answer[i] \in Single
      BY <1>1, <1>5 DEF Reply!OnOneLine, Single
    <3> QED BY <1>1, <3>1
  <2>2. /\ Reply!ForPage(Reply!TelegramLog(answer)).files = Reply!Those(Reply!ForTelegram(answer).files, Reply!OnDisk)
        /\ Reply!ForPage(Reply!WebLog(answer)).files = Reply!Those(Reply!ForPage(answer).files, Reply!OnDisk)
    BY <2>1, LogsOffer
  <2>3. reloaded => returned = Reply!ForPage(log).files
    BY DEF ReplyInv
  <2> QED BY <1>2, <2>2, <2>3 DEF Reply!FilesStay, Reply!Files
<1> QED BY <1>4, <1>5

\* An answer's prose reaches the chat and the page in its order, and so does that
\* of the page made from the log; of an answer that names each file on one line
\* the later page offers those files that are under the agent's directory: for answers, windows and pieces of any
\* length, and wherever sending fails or is stopped.
THEOREM NothingIsLost == WorkSpec => []NothingLost
<1>1. ReplyInv /\ [WorkNext]_<<vars, talk, chat, gateway_service, ssh, reply, focus>> => ReplyInv'
  BY ReplyNext, ReplyRests DEF WorkNext, ReplyMoves, reply
<1> QED BY ReplyInit, <1>1, ReplyKeeps, PTL DEF WorkSpec
=============================================================================
