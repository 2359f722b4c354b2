\* One part at a time: definitions under two processes, two bots and two projects
\* with two agents each while a terminal rebinds, a chat over two days,
\* the service on each platform, one SSH session under two commands,
\* answers of up to three lines.
SPECIFICATION WorkSpec
CONSTANTS
    Names = {"w", "v", "a", "b", "c", "d", "r", "x", "task", "professor"}
    MaxDepth = 4
    Processes = {gateway, command_line}
    Workflows = {"w", "v"}
    Runs = {"r1"}
    Agents = {"professor"}
    Offered <- MCOffered
    Patches <- MCPatches
    Bots = {b1, b2}
    FirstBot = b1
    Projects = {p1, p2}
    BotAgents = {professor, critic}
    BotFiles = {f}
    MaxUpdates = 2
    MaxChanges = 1
    MaxPosts = 1
    MaxSessions = 2
    MaxTurns = 2
    MaxDay = 2
    Uploads = {"u"}
    Ports = {4646}
    MaxRevision = 2
    SshSessions = {s1}
    Profiles = {h1}
    SshAgents = {x1}
    Commands = {c1, c2}
    MaxChunks = 1
    MaxInputs = 1
    MaxLines = 3
    Window = 2
    PieceSize = 1
INVARIANTS
    NeverCrossDelivered
    StoredAreSound
    EditsSpareRuns
    SaveKeepsMeaning
    GraphShowsEveryMove
    AnswerInPlace
    SummaryIsWhole
    RestartTakesEffect
    ActiveHasWorker
    NothingLost
PROPERTIES
    PinnedChatStaysPut
CHECK_DEADLOCK FALSE
