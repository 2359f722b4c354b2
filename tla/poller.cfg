CONSTANTS
    Gateways = {g1, g2}
    Loops = {l1, l2}
    NoLoop = NoLoop
    NoGateway = NoGateway
    MaxUpdates = 2
    MaxTokens = 2
SPECIFICATION Spec
INVARIANTS
    ForgottenWasTaken
    TakenOnce
PROPERTIES
    EachIsTaken
