CONSTANTS
    Processes = {gateway, command}
    Projects = {x1, x2}
    Chats = {c1, c2}
    Identities = {i1}
    Fields = {"provider", "agent", "target", "profile", "default", "wake"}
    MaxBots = 2
    MaxChanges = 3
    None = None
SPECIFICATION Spec
INVARIANTS
    OneOwner
    InForce
    PairedWithItsChat
