\* Two Telegram slots over a pinned bot's lane and a floating bot's lane, a web
\* chat turn, a wake-up.
CONSTANTS
    Asks = {t1, t2}
    Webs = {w1}
    Wakes = {h1}
    Agents = {a1, a2}
    Beating = {a1}
    Lanes = {home, roaming}
    HomeLanes = {home}
    NoTask = NoTask
    NoKey = NoKey
    NoAgent = NoAgent
    Modes = {FALSE, TRUE}
SPECIFICATION Spec
INVARIANTS
    OneTelegramTurn
    StopFindsTurnWhenQuiet
    QuestionsAreClosed
PROPERTIES
    StoppedStaysSilent
    IdleAgentsOnly
