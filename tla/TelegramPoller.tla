--------------------------- MODULE TelegramPoller ---------------------------
(***************************************************************************)
(* The polling loops of one Telegram bot (src/telegram-poller.ts), in the  *)
(* gateways that may run on one machine (src/http.ts).  Telegram keeps the *)
(* bot's updates until a getUpdates with a higher offset confirms them; a  *)
(* loop keeps its offset in memory and hands updates to the gateway        *)
(* without waiting.  Each gateway brings its loop in line with the         *)
(* registry of bots when it starts and once a minute.                      *)
(***************************************************************************)
EXTENDS Naturals, FiniteSets

CONSTANTS
    Gateways,    \* processes that may run a poller
    Loops,       \* slots for loops alive at one time
    NoLoop, NoGateway,
    MaxUpdates,  \* bound on the updates sent in a behaviour
    MaxTokens    \* bound on the tokens the bot ever has

ASSUME PollerAssumption ==
    /\ NoLoop \notin Loops /\ NoGateway \notin Gateways
    /\ MaxUpdates \in Nat /\ MaxTokens \in Nat \ {0}

Updates == 1..MaxUpdates
Tokens == 1..MaxTokens

VARIABLES
    sent, confirmed,  \* Telegram: updates received, and confirmed, so far
    valid,            \* Telegram: the bot's token; earlier ones are revoked
    known, enabled,   \* .env.local's token (0: none) and opencolab.json's profile
    env,              \* gateway: the token its environment took when it started
    up,               \* gateway: "down", "up" or "closing" (SIGTERM received)
    table,            \* gateway: its entry in the poller's map of loops
    loop,             \* the loops
    taken,            \* history: updates that were dispatched
    skipped,          \* history: updates a new loop found waiting and passed over
    again,            \* history: one was dispatched twice before "unsure"
    unsure            \* history: a loop began without its look at what was
                      \* waiting, or two gateways ran at one time

telegram == <<sent, confirmed, valid>>
registry == <<known, enabled, env>>
history == <<taken, skipped, again, unsure>>
vars == <<telegram, registry, up, table, loop, history>>

\* A loop whose token was rejected has ended and keeps its entry.
Loop == [on: Gateways \cup {NoGateway},
         pc: {"priming", "top", "polling", "sleeping", "ended", "rejected"},
         token: Tokens,
         running: BOOLEAN,         \* loopRunning
         offset: 0..MaxUpdates+1]  \* 0: undefined

Unused == [on |-> NoGateway, pc |-> "ended", token |-> 1, running |-> FALSE, offset |-> 0]

TypeOK ==
    /\ sent \in 0..MaxUpdates /\ confirmed \in 0..sent
    /\ valid \in Tokens /\ known \in 0..valid
    /\ env \in [Gateways -> 0..valid]
    /\ enabled \in BOOLEAN
    /\ up \in [Gateways -> {"down", "up", "closing"}]
    /\ table \in [Gateways -> Loops \cup {NoLoop}]
    /\ \A g \in Gateways : table[g] # NoLoop => loop[table[g]].on = g
    /\ loop \in [Loops -> Loop]
    /\ taken \subseteq 1..sent /\ skipped \subseteq 1..sent
    /\ again \in BOOLEAN /\ unsure \in BOOLEAN

Init ==
    /\ sent = 0 /\ confirmed = 0 /\ valid = 1
    /\ known \in {0, 1} /\ enabled \in BOOLEAN
    /\ env = [g \in Gateways |-> 0]
    /\ up = [g \in Gateways |-> "down"]
    /\ table = [g \in Gateways |-> NoLoop]
    /\ loop = [l \in Loops |-> Unused]
    /\ taken = {} /\ skipped = {} /\ again = FALSE /\ unsure = FALSE

-----------------------------------------------------------------------------
At(l, pc) == loop[l].pc = pc
Goes(l, pc) == loop' = [loop EXCEPT ![l].pc = pc]
Waiting == confirmed+1 .. sent
Polling == {l \in Loops : At(l, "polling")}

\* A slot nobody refers to.
Spare(l) == At(l, "ended") /\ \A g \in Gateways : table[g] # l

\* A loop started for the bot on g.
Started(g, token) ==
    [on |-> g, pc |-> "priming", token |-> token, running |-> TRUE, offset |-> 0]

\* syncLoops: a loop whose bot is gone or has another token is told to stop,
\* and a bot without an entry gets a loop.  An entry stays when its loop ends.
\* The token is looked up in the environment of the gateway's own process.
Pollable(token) == enabled /\ token # 0
InLine(g, token) ==
    IF table[g] = NoLoop THEN ~Pollable(token)
    ELSE Pollable(token) /\ loop[table[g]].token = token

Told(g) ==
    IF table[g] = NoLoop THEN loop
    ELSE [loop EXCEPT ![table[g]] = IF @.pc = "rejected" THEN Unused
                                    ELSE [@ EXCEPT !.running = FALSE]]

SyncLoops(g, token) ==
    IF InLine(g, token) THEN UNCHANGED <<table, loop>>
    ELSE IF Pollable(token)
    THEN \E l \in Loops :
           /\ Spare(l)
           /\ table' = [table EXCEPT ![g] = l]
           /\ loop' = [Told(g) EXCEPT ![l] = Started(g, token)]
    ELSE /\ table' = [table EXCEPT ![g] = NoLoop]
         /\ loop' = Told(g)

-----------------------------------------------------------------------------
(***************************************************************************)
(* The gateways and the operator.                                          *)
(***************************************************************************)
\* loadConfig reads .env.local into the environment, once.
GatewayStarts(g) ==
    /\ up[g] = "down"
    /\ up' = [up EXCEPT ![g] = "up"]
    /\ unsure' = (unsure \/ \E h \in Gateways : up[h] # "down")
    /\ env' = [env EXCEPT ![g] = known]
    /\ SyncLoops(g, known)
    /\ UNCHANGED <<telegram, known, enabled, taken, skipped, again>>

\* refresh, on the heartbeat's timer.
Refresh(g) ==
    /\ up[g] = "up" /\ ~InLine(g, env[g]) /\ SyncLoops(g, env[g])
    /\ UNCHANGED <<telegram, registry, up, history>>

\* SIGTERM: the poller is stopped, and the process ends when its server has closed.
Shutdown(g) ==
    /\ up[g] = "up"
    /\ up' = [up EXCEPT ![g] = "closing"]
    /\ loop' = [l \in Loops |-> IF loop[l].on # g THEN loop[l]
                                ELSE IF At(l, "rejected") THEN Unused
                                ELSE [loop[l] EXCEPT !.running = FALSE]]
    /\ table' = [table EXCEPT ![g] = NoLoop]
    /\ UNCHANGED <<telegram, registry, history>>

\* The process is gone, with its loops: closed, crashed or killed.
ProcessEnds(g) ==
    /\ up[g] # "down"
    /\ up' = [up EXCEPT ![g] = "down"]
    /\ loop' = [l \in Loops |-> IF loop[l].on = g THEN Unused ELSE loop[l]]
    /\ table' = [table EXCEPT ![g] = NoLoop]
    /\ env' = [env EXCEPT ![g] = 0]
    /\ UNCHANGED <<telegram, known, enabled, history>>

Send ==
    /\ sent < MaxUpdates /\ sent' = sent + 1
    /\ UNCHANGED <<confirmed, valid, registry, up, table, loop, history>>

SetEnabled ==
    /\ enabled' = ~enabled
    /\ UNCHANGED <<telegram, known, env, up, table, loop, history>>

\* A new token is issued, and entered later by a command in another process.
Revoke ==
    /\ valid < MaxTokens /\ valid' = valid + 1
    /\ UNCHANGED <<sent, confirmed, registry, up, table, loop, history>>
EnterToken ==
    /\ known # valid /\ known' = valid
    /\ UNCHANGED <<telegram, enabled, env, up, table, loop, history>>

-----------------------------------------------------------------------------
(***************************************************************************)
(* A loop.  Telegram ends a long poll with HTTP 409 when another request   *)
(* for the bot's updates comes, or refuses that request.                   *)
(***************************************************************************)
\* The long polls under way are cut by a request of l.
CutBy(l) == [m \in Loops |-> IF m \in Polling \ {l} THEN [loop[m] EXCEPT !.pc = "sleeping"]
                                                   ELSE loop[m]]

\* Mutant: a new loop begins with the first update that waits.
PrimedAtFirst(l) ==
    /\ At(l, "priming")
    /\ \/ /\ loop[l].token = valid
          /\ loop' = [CutBy(l) EXCEPT ![l].pc = "top",
                                      ![l].offset = IF Waiting = {} THEN 0 ELSE confirmed + 1]
          /\ UNCHANGED unsure
       \/ Goes(l, "top") /\ unsure' = TRUE
    /\ UNCHANGED <<telegram, registry, up, table, taken, skipped, again>>

\* primeOffset: what waits is passed over; a failure leaves the offset open.
Primed(l) ==
    /\ At(l, "priming")
    /\ \/ /\ loop[l].token = valid
          /\ loop' = [CutBy(l) EXCEPT ![l].pc = "top",
                                      ![l].offset = IF Waiting = {} THEN 0 ELSE sent + 1]
          /\ skipped' = skipped \cup (Waiting \ taken)
          /\ UNCHANGED unsure
       \/ Goes(l, "top") /\ unsure' = TRUE /\ UNCHANGED skipped
    /\ UNCHANGED <<telegram, registry, up, table, taken, again>>

\* loopRunning and running are looked at here only.
LoopEnds(l) ==
    /\ At(l, "top") /\ ~loop[l].running
    /\ loop' = [loop EXCEPT ![l] = Unused]
    /\ UNCHANGED <<telegram, registry, up, table, history>>

\* Mutant: a conflict ends the loop as a rejected token does.
PollOrEnd(l) ==
    /\ At(l, "top") /\ loop[l].running /\ loop[l].token = valid
    /\ \/ loop' = [CutBy(l) EXCEPT ![l].pc = "polling"]
       \/ Polling # {} /\ loop' = [loop EXCEPT ![l].running = FALSE, ![l].pc = "ended"]
    /\ confirmed' = IF loop[l].offset > confirmed + 1 THEN loop[l].offset - 1 ELSE confirmed
    /\ UNCHANGED <<sent, valid, registry, up, table, history>>

\* getUpdates is sent; its offset confirms what lies below.
Poll(l) ==
    /\ At(l, "top") /\ loop[l].running /\ loop[l].token = valid
    /\ \/ loop' = [CutBy(l) EXCEPT ![l].pc = "polling"]
       \/ Polling # {} /\ Goes(l, "sleeping")
    /\ confirmed' = IF loop[l].offset > confirmed + 1 THEN loop[l].offset - 1 ELSE confirmed
    /\ UNCHANGED <<sent, valid, registry, up, table, history>>

\* HTTP 401: the loop ends and its entry stays.
Rejected(l) ==
    /\ At(l, "top") /\ loop[l].running /\ loop[l].token # valid
    /\ loop' = [loop EXCEPT ![l] = [@ EXCEPT !.running = FALSE, !.pc = "rejected", !.offset = 0]]
    /\ UNCHANGED <<telegram, registry, up, table, history>>

\* Mutant: only the first update is dispatched, and the offset passes them all.
AnsweredFirst(l) ==
    /\ At(l, "polling") /\ Waiting # {}
    /\ taken' = taken \cup {confirmed + 1}
    /\ again' = (again \/ (~unsure /\ confirmed + 1 \in taken))
    /\ loop' = [loop EXCEPT ![l].pc = "top", ![l].offset = sent + 1]
    /\ UNCHANGED <<telegram, registry, up, table, skipped, unsure>>

\* Every update of the answer is dispatched, whatever became of the loop meanwhile.
Answered(l) ==
    /\ At(l, "polling") /\ Waiting # {}
    /\ taken' = taken \cup Waiting
    /\ again' = (again \/ (~unsure /\ Waiting \cap taken # {}))
    /\ loop' = [loop EXCEPT ![l].pc = "top", ![l].offset = sent + 1]
    /\ UNCHANGED <<telegram, registry, up, table, skipped, unsure>>

\* The long poll ends without an update.
NothingNew(l) ==
    /\ At(l, "polling") /\ Waiting = {} /\ Goes(l, "top")
    /\ UNCHANGED <<telegram, registry, up, table, history>>

\* The request or its answer is lost.
PollFails(l) ==
    /\ At(l, "polling") /\ Goes(l, "sleeping")
    /\ UNCHANGED <<telegram, registry, up, table, history>>

Wakes(l) ==
    /\ At(l, "sleeping") /\ Goes(l, "top")
    /\ UNCHANGED <<telegram, registry, up, table, history>>

LoopStep(l) ==
    \/ Primed(l) \/ LoopEnds(l) \/ Poll(l) \/ Rejected(l)
    \/ Answered(l) \/ NothingNew(l) \/ Wakes(l)

Next ==
    \/ \E g \in Gateways : GatewayStarts(g) \/ Refresh(g) \/ Shutdown(g) \/ ProcessEnds(g)
    \/ Send \/ SetEnabled \/ Revoke \/ EnterToken
    \/ \E l \in Loops : LoopStep(l) \/ PollFails(l)

Fairness ==
    /\ \A l \in Loops : WF_vars(LoopStep(l)) /\ SF_vars(Answered(l))
    /\ \A g \in Gateways : WF_vars(Refresh(g))

Spec == Init /\ [][Next]_vars /\ Fairness

-----------------------------------------------------------------------------
(***************************************************************************)
(* Properties.                                                             *)
(***************************************************************************)
\* Telegram forgets an update only after it was dispatched, or passed over by
\* a loop that began while it waited.
ForgottenWasTaken ==
    1..confirmed \subseteq taken \cup skipped

\* An update is dispatched once, although loops are stopped, started and
\* killed at any time: as long as every loop began with a look at what was
\* waiting, and one gateway polled at a time.
TakenOnce == ~again

\* With one gateway up for good, which started with the valid token, and the
\* bot enabled, every update is dispatched or was passed over.
Steady ==
    /\ enabled
    /\ \E g \in Gateways : /\ up[g] = "up" /\ env[g] = valid
                           /\ table[g] # NoLoop => ~At(table[g], "rejected")
                           /\ \A h \in Gateways \ {g} : up[h] = "down"
EachIsTaken ==
    <>[]Steady => []<>(1..sent \subseteq taken \cup skipped)

\* What docs/spec.md says of a registry changed by another process: a bot that
\* stays enabled with its valid token saved is polled by the gateway that runs.
Saved ==
    /\ enabled /\ known = valid
    /\ \E g \in Gateways : /\ up[g] = "up"
                           /\ table[g] = NoLoop
                           /\ \A h \in Gateways \ {g} : up[h] = "down"
PickedUpWithoutRestart == ~<>[]Saved
=============================================================================
