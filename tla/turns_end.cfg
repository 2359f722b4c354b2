\* Three messages at a time, two lanes, one agent: no heartbeat, no web chat.
CONSTANTS
    Asks = {t1, t2, t3}
    Webs = {}
    Wakes = {}
    Agents = {a1}
    Beating = {}
    Lanes = {home, roaming}
    HomeLanes = {home}
    NoTask = NoTask
    NoKey = NoKey
    NoAgent = NoAgent
    Modes = {FALSE}
SPECIFICATION FairSpec
INVARIANTS
    TurnsInOrder
PROPERTIES
    EveryAskEnds
