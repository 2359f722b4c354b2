\* One message from Telegram and one from the web chat.
CONSTANTS
    Asks = {t1}
    Webs = {w1}
    Wakes = {}
    Agents = {a1, a2}
    Beating = {a1}
    Lanes = {home, roaming}
    HomeLanes = {home}
    NoTask = NoTask
    NoKey = NoKey
    NoAgent = NoAgent
    Modes = {FALSE}
SPECIFICATION Spec
INVARIANTS
    OneTurnPerAgent
