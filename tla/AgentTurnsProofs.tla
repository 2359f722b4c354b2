-------------------------- MODULE AgentTurnsProofs --------------------------
(***************************************************************************)
(* Theorems about AgentTurns, for any number of turns, lanes and agents,   *)
(* and first about the queue they wait in, for any tasks and keys.         *)
(***************************************************************************)
EXTENDS AgentTurns, TLAPS

-----------------------------------------------------------------------------
(***************************************************************************)
(* TaskQueue: the map of promises is a queue.  What Join and Leave keep,   *)
(* and that the task that runs is the one that came first.                 *)
(***************************************************************************)
\* A task outside the queue awaits nothing, and a task has only members of its
\* own key ahead of it.
AheadSharesKey(q, Tasks) ==
    /\ \A t \in Tasks : q.key[t] = NoKey => q.prev[t] = NoTask /\ q.ahead[t] = {}
    /\ \A t, u \in Tasks : u \in q.ahead[t] => q.key[u] = q.key[t]

\* Of two members of a key, one came first.
MembersOrdered(q, Tasks) ==
    \A t, u \in Tasks :
        t # u /\ q.key[t] = q.key[u] /\ q.key[t] # NoKey
        => (t \in q.ahead[u] <=> u \notin q.ahead[t])

\* A task awaits the last of those ahead of it.
AwaitsLast(q, Tasks) ==
    \A t \in Tasks :
        /\ q.prev[t] = NoTask => q.ahead[t] = {}
        /\ q.prev[t] # NoTask => q.ahead[t] = q.ahead[q.prev[t]] \cup {q.prev[t]}

\* The map holds the last member of a key, and nothing for an empty key.
TailIsLast(q, Tasks, Keys) ==
    \A k \in Keys :
        /\ q.tail[k] = NoTask => \A t \in Tasks : q.key[t] # k
        /\ q.tail[k] # NoTask =>
             /\ q.key[q.tail[k]] = k
             /\ \A t \in Tasks : q.key[t] = k /\ t # q.tail[k] => t \in q.ahead[q.tail[k]]

WellFormed(q, Tasks, Keys) ==
    /\ q \in Queues(Tasks, Keys)
    /\ AheadSharesKey(q, Tasks)
    /\ MembersOrdered(q, Tasks)
    /\ AwaitsLast(q, Tasks)
    /\ TailIsLast(q, Tasks, Keys)

\* The empty map is a queue.
LEMMA EmptyWellFormed ==
    ASSUME NEW Tasks, NEW Keys, NoTask \notin Tasks, NoKey \notin Keys
    PROVE  WellFormed(EmptyQueue(Tasks, Keys), Tasks, Keys)
  BY DEF WellFormed, EmptyQueue, Queues, AheadSharesKey, MembersOrdered, AwaitsLast,
         TailIsLast

\* A task whose predecessor's promise has settled has nobody ahead of it.
LEMMA FrontHasNobodyAhead ==
    ASSUME NEW Tasks, NEW Keys, NEW q, WellFormed(q, Tasks, Keys),
           NEW t \in Tasks, q.prev[t] = NoTask
    PROVE  q.ahead[t] = {}
  BY DEF WellFormed, AwaitsLast

\* Two tasks of one key never run together.
LEMMA OneRuns ==
    ASSUME NEW Tasks, NEW Keys, NEW q, WellFormed(q, Tasks, Keys),
           NEW t \in Tasks, NEW u \in Tasks, t # u,
           q.key[t] # NoKey, q.prev[t] = NoTask, q.prev[u] = NoTask
    PROVE  q.key[t] # q.key[u]
  BY FrontHasNobodyAhead DEF WellFormed, MembersOrdered

\* A task that waits awaits a member of its key.
LEMMA AwaitsMember ==
    ASSUME NEW Tasks, NEW Keys, NoTask \notin Tasks, NEW q, WellFormed(q, Tasks, Keys),
           NEW t \in Tasks, q.prev[t] # NoTask
    PROVE  /\ q.prev[t] \in q.ahead[t] /\ q.prev[t] \in Tasks
           /\ q.key[q.prev[t]] = q.key[t] /\ q.key[t] # NoKey
  <1>1. q.prev[t] \in Tasks
    BY DEF WellFormed, Queues
  <1>2. q.prev[t] \in q.ahead[t]
    BY DEF WellFormed, AwaitsLast
  <1>3. QED
    BY <1>1, <1>2 DEF WellFormed, AheadSharesKey

\* Joining keeps the queue.
LEMMA JoinKeeps ==
    ASSUME NEW Tasks, NEW Keys, NoTask \notin Tasks, NoKey \notin Keys,
           NEW q, WellFormed(q, Tasks, Keys),
           NEW t \in Tasks, NEW k \in Keys, q.key[t] = NoKey
    PROVE  WellFormed(Join(q, k, t), Tasks, Keys)
  <1> DEFINE p == Join(q, k, t)
  <1>0. /\ q \in Queues(Tasks, Keys) /\ AheadSharesKey(q, Tasks) /\ MembersOrdered(q, Tasks)
        /\ AwaitsLast(q, Tasks) /\ TailIsLast(q, Tasks, Keys)
    BY DEF WellFormed
  <1>1. Members(q, k) = {u \in Tasks : q.key[u] = k}
    BY <1>0 DEF Members, Queues
  <1>2. p \in Queues(Tasks, Keys)
    BY <1>0, <1>1 DEF Join, Queues
  <1>3. /\ \A u \in Tasks : p.key[u] = IF u = t THEN k ELSE q.key[u]
        /\ \A u \in Tasks : p.prev[u] = IF u = t THEN q.tail[k] ELSE q.prev[u]
        /\ \A u \in Tasks : p.ahead[u] = IF u = t THEN Members(q, k) ELSE q.ahead[u]
        /\ \A l \in Keys : p.tail[l] = IF l = k THEN t ELSE q.tail[l]
    BY <1>0 DEF Join, Queues
  <1> HIDE DEF p
  <1>4. \A u \in Tasks : t \notin q.ahead[u] /\ q.prev[u] # t
    <2>1. \A u \in Tasks : t \notin q.ahead[u]
      BY <1>0 DEF AheadSharesKey
    <2>2. ASSUME NEW u \in Tasks, q.prev[u] # NoTask
          PROVE  q.prev[u] \in q.ahead[u]
      BY <2>2, AwaitsMember
    <2>3. QED
      BY <2>1, <2>2
  <1>5. k # NoKey
    OBVIOUS
  <1>6. AheadSharesKey(p, Tasks)
    BY <1>0, <1>1, <1>3, <1>4, <1>5 DEF AheadSharesKey
  <1>7. MembersOrdered(p, Tasks)
    BY <1>0, <1>1, <1>3, <1>4, <1>5 DEF MembersOrdered
  <1>8. AwaitsLast(p, Tasks)
    <2>1. CASE q.tail[k] = NoTask
      <3>1. p.prev[t] = NoTask /\ p.ahead[t] = {}
        BY <1>0, <1>1, <1>3, <2>1 DEF TailIsLast
      <3>2. \A u \in Tasks : u # t /\ q.prev[u] # NoTask => q.prev[u] \in Tasks /\ q.prev[u] # t
        BY <1>0, <1>4 DEF Queues
      <3>3. QED
        BY <1>0, <1>3, <3>1, <3>2 DEF AwaitsLast
    <2>2. CASE q.tail[k] # NoTask
      <3> DEFINE last == q.tail[k]
      <3>1. last \in Tasks /\ q.key[last] = k /\ last # t
        BY <1>0, <1>5, <2>2 DEF TailIsLast, Queues
      <3>2. Members(q, k) = q.ahead[last] \cup {last}
        <4>1. \A u \in Tasks : q.key[u] = k /\ u # last => u \in q.ahead[last]
          BY <1>0, <2>2 DEF TailIsLast
        <4>2. \A u \in q.ahead[last] : u \in Tasks /\ q.key[u] = k
          BY <1>0, <3>1 DEF AheadSharesKey, Queues
        <4>3. QED
          BY <1>1, <3>1, <4>1, <4>2
      <3>3. p.prev[t] = last /\ p.ahead[t] = p.ahead[last] \cup {last}
        BY <1>3, <3>1, <3>2
      <3>4. \A u \in Tasks : u # t /\ q.prev[u] # NoTask => q.prev[u] \in Tasks /\ q.prev[u] # t
        BY <1>0, <1>4 DEF Queues
      <3>5. QED
        BY <1>0, <1>3, <2>2, <3>3, <3>4 DEF AwaitsLast
    <2>3. QED
      BY <2>1, <2>2
  <1>9. TailIsLast(p, Tasks, Keys)
    <2> SUFFICES ASSUME NEW l \in Keys
                 PROVE  /\ p.tail[l] = NoTask => \A u \in Tasks : p.key[u] # l
                        /\ p.tail[l] # NoTask =>
                             /\ p.key[p.tail[l]] = l
                             /\ \A u \in Tasks : p.key[u] = l /\ u # p.tail[l]
                                                 => u \in p.ahead[p.tail[l]]
      BY DEF TailIsLast
    <2>1. CASE l = k
      <3>1. p.tail[l] = t /\ p.key[t] = l /\ p.ahead[t] = {u \in Tasks : q.key[u] = k}
        BY <1>1, <1>3, <2>1
      <3>2. t # NoTask /\ \A u \in Tasks : u # t => p.key[u] = q.key[u]
        BY <1>3
      <3>3. QED
        BY <2>1, <3>1, <3>2
    <2>2. CASE l # k
      <3>1. p.tail[l] = q.tail[l]
        BY <1>3, <2>2
      <3>2. CASE q.tail[l] = NoTask
        BY <1>0, <1>3, <2>2, <3>1, <3>2 DEF TailIsLast
      <3>3. CASE q.tail[l] # NoTask
        <4>1. /\ q.tail[l] \in Tasks /\ q.key[q.tail[l]] = l
              /\ \A u \in Tasks : q.key[u] = l /\ u # q.tail[l] => u \in q.ahead[q.tail[l]]
          BY <1>0, <3>3 DEF TailIsLast, Queues
        <4>2. q.tail[l] # t
          BY <4>1, <2>2
        <4>3. QED
          BY <1>3, <2>2, <3>1, <3>3, <4>1, <4>2
      <3>4. QED
        BY <3>2, <3>3
    <2>3. QED
      BY <2>1, <2>2
  <1>10. WellFormed(p, Tasks, Keys)
    BY <1>2, <1>6, <1>7, <1>8, <1>9 DEF WellFormed
  <1>11. QED
    BY <1>10 DEF p

\* The task at the front leaves, and the rest is a queue.
LEMMA LeaveKeeps ==
    ASSUME NEW Tasks, NEW Keys, NoTask \notin Tasks, NoKey \notin Keys,
           NEW q, WellFormed(q, Tasks, Keys),
           NEW t \in Tasks, q.key[t] # NoKey, q.prev[t] = NoTask
    PROVE  WellFormed(Leave(q, t), Tasks, Keys)
  <1> DEFINE p == Leave(q, t)
             k == q.key[t]
  <1>0. /\ q \in Queues(Tasks, Keys) /\ AheadSharesKey(q, Tasks) /\ MembersOrdered(q, Tasks)
        /\ AwaitsLast(q, Tasks) /\ TailIsLast(q, Tasks, Keys)
    BY DEF WellFormed
  <1>1. k \in Keys /\ q.ahead[t] = {}
    BY <1>0 DEF Queues, AwaitsLast
  <1>2. p \in Queues(Tasks, Keys)
    BY <1>0, <1>1 DEF Leave, Settled, Queues
  <1>3. /\ \A u \in Tasks : p.key[u] = IF u = t THEN NoKey ELSE q.key[u]
        /\ \A u \in Tasks : p.prev[u] = IF q.prev[u] = t THEN NoTask ELSE q.prev[u]
        /\ \A u \in Tasks : p.ahead[u] = q.ahead[u] \ {t}
        /\ \A l \in Keys : p.tail[l] = IF l = k /\ q.tail[l] = t THEN NoTask ELSE q.tail[l]
    BY <1>0, <1>1 DEF Leave, Settled, Queues
  <1> HIDE DEF p
  <1>4. t # NoTask
    OBVIOUS
  <1>5. AheadSharesKey(p, Tasks)
    BY <1>0, <1>1, <1>3, <1>4 DEF AheadSharesKey
  <1>6. MembersOrdered(p, Tasks)
    BY <1>0, <1>3 DEF MembersOrdered
  <1>7. AwaitsLast(p, Tasks)
    <2> SUFFICES ASSUME NEW u \in Tasks
                 PROVE  /\ p.prev[u] = NoTask => p.ahead[u] = {}
                        /\ p.prev[u] # NoTask => p.ahead[u] = p.ahead[p.prev[u]] \cup {p.prev[u]}
      BY DEF AwaitsLast
    <2>1. CASE q.prev[u] = NoTask
      BY <1>0, <1>3, <2>1, <1>4 DEF AwaitsLast
    <2>2. CASE q.prev[u] = t
      BY <1>0, <1>1, <1>3, <1>4, <2>2 DEF AwaitsLast
    <2>3. CASE q.prev[u] # NoTask /\ q.prev[u] # t
      <3>1. q.prev[u] \in Tasks
        BY <2>3, AwaitsMember
      <3>2. q.ahead[u] = q.ahead[q.prev[u]] \cup {q.prev[u]}
        BY <1>0, <2>3 DEF AwaitsLast
      <3>3. QED
        BY <1>3, <2>3, <3>1, <3>2
    <2>4. QED
      BY <2>1, <2>2, <2>3
  <1>8. TailIsLast(p, Tasks, Keys)
    <2> SUFFICES ASSUME NEW l \in Keys
                 PROVE  /\ p.tail[l] = NoTask => \A u \in Tasks : p.key[u] # l
                        /\ p.tail[l] # NoTask =>
                             /\ p.key[p.tail[l]] = l
                             /\ \A u \in Tasks : p.key[u] = l /\ u # p.tail[l]
                                                 => u \in p.ahead[p.tail[l]]
      BY DEF TailIsLast
    <2>1. l # NoKey
      OBVIOUS
    <2>2. CASE q.tail[l] = NoTask
      BY <1>0, <1>3, <2>1, <2>2 DEF TailIsLast
    <2>3. CASE q.tail[l] = t
      <3>1. l = k /\ \A u \in Tasks : u # t => q.key[u] # l
        BY <1>0, <1>1, <1>4, <2>3 DEF TailIsLast
      <3>2. QED
        BY <1>3, <2>1, <2>3, <3>1
    <2>4. CASE q.tail[l] # NoTask /\ q.tail[l] # t
      <3>1. q.tail[l] \in Tasks /\ p.tail[l] = q.tail[l]
        BY <1>0, <1>3, <2>4 DEF Queues
      <3>2. q.key[q.tail[l]] = l
        BY <1>0, <2>4 DEF TailIsLast
      <3>3. p.key[p.tail[l]] = l
        BY <1>3, <2>4, <3>1, <3>2
      <3>4. ASSUME NEW u \in Tasks, p.key[u] = l, u # p.tail[l]
            PROVE  u \in p.ahead[p.tail[l]]
        <4>1. u # t /\ q.key[u] = l
          BY <1>3, <2>1, <3>4
        <4>2. u \in q.ahead[q.tail[l]]
          BY <1>0, <2>4, <3>1, <3>4, <4>1 DEF TailIsLast
        <4>3. QED
          BY <1>3, <3>1, <4>1, <4>2
      <3>5. QED
        BY <2>4, <3>1, <3>3, <3>4
    <2>5. QED
      BY <2>2, <2>3, <2>4
  <1>9. WellFormed(p, Tasks, Keys)
    BY <1>2, <1>5, <1>6, <1>7, <1>8 DEF WellFormed
  <1>10. QED
    BY <1>9 DEF p
-----------------------------------------------------------------------------
(***************************************************************************)
(* Types, and where each Telegram turn is in the two queues.               *)
(***************************************************************************)
\* A turn r in slot t is in its lane's queue while it lasts, at its front once
\* taken up; in its agent's queue once taken up, at its front once at work.
Placed(t, r) ==
    /\ laneQ.key[t] = IF r.pc = "idle" THEN NoKey ELSE r.lane
    /\ r.pc # "idle" => r.lane \in Lanes
    /\ agentQ.key[t] = IF r.pc \in Begun THEN r.agent ELSE NoKey
    /\ r.pc \in Begun => r.agent \in Agents
    /\ r.pc \in Begun \cup {"telling"} => laneQ.prev[t] = NoTask
    /\ r.pc \in Working => agentQ.prev[t] = NoTask

QueuesHold ==
    /\ WellFormed(laneQ, Asks, Lanes)
    /\ WellFormed(agentQ, Asks, Agents)
    /\ \A t \in Asks : Placed(t, turn[t])

Inv == TypeOK /\ QueuesHold

LEMMA SlotFacts ==
    /\ Asks \subseteq Turns /\ Webs \subseteq Turns /\ Wakes \subseteq Turns
    /\ \A w \in Webs \cup Wakes : w \notin Asks
    /\ NoTask \notin Asks /\ NoKey \notin Lanes /\ NoKey \notin Agents
  BY SlotsAssumption DEF Turns

\* What the code derives from a turn's record is a turn's record.
LEMMA DerivedTurns ==
    /\ Blank \in Turn
    /\ \A r \in Turn : Over(r) \in Turn /\ Noted(r) \in Turn
  <1>1. Blank \in Turn
    BY DEF Blank, Turn, PCs
  <1>2. \A r \in Turn : Over(r) \in Turn
    BY <1>1 DEF Over, Turn, PCs, Blank
  <1>3. \A r \in Turn : [r EXCEPT !.noting = FALSE, !.open = FALSE, !.finished = TRUE] \in Turn
    BY DEF Turn
  <1>4. \A r \in Turn : Noted(r) \in Turn
    BY <1>2, <1>3 DEF Noted
  <1>5. QED
    BY <1>1, <1>2, <1>4

\* One slot changes.
LEMMA OneSlot ==
    ASSUME TypeOK, NEW t \in Turns, NEW r \in Turn, Becomes(t, r)
    PROVE  /\ turn' \in [Turns -> Turn]
           /\ turn'[t] = r
           /\ \A u \in Turns : u # t => turn'[u] = turn[u]
  BY DEF TypeOK, Becomes

LEMMA RoutedAgent ==
    ASSUME TypeOK, NEW l
    PROVE  Routed(l) \in Agents
  BY DEF TypeOK, Routed

LEMMA PendingType ==
    ASSUME TypeOK, NEW t \in Turns, NEW outcome
    PROVE  /\ PendingAfter(turn[t].agent, outcome) \in Agents \cup {NoAgent}
           /\ Notify(t, outcome) => pending' \in Agents \cup {NoAgent}
  BY DEF TypeOK, PendingAfter, Armed, Notify

LEMMA UnregisteredType ==
    ASSUME TypeOK, NEW t
    PROVE  Unregistered(t) \in [Lanes -> Turns \cup {NoTask}]
  BY DEF TypeOK, Unregistered

\* A step that leaves the queues alone keeps the invariant if the turn it
\* changes stays where it is in them.
LEMMA QueuesAlone ==
    ASSUME Inv, UNCHANGED queues, NEW t \in Turns, NEW r \in Turn, Becomes(t, r),
           t \in Asks => Placed(t, r),
           activeReq' \in [Lanes -> Turns \cup {NoTask}],
           pending' \in Agents \cup {NoAgent}, active' \in Agents,
           binding' \in Agents \cup {NoAgent}, UNCHANGED <<lastLane, live>>
    PROVE  Inv'
  <1>1. /\ turn' \in [Turns -> Turn] /\ turn'[t] = r
        /\ \A u \in Turns : u # t => turn'[u] = turn[u]
    BY OneSlot DEF Inv
  <1>2. TypeOK'
    BY <1>1 DEF Inv, TypeOK, queues
  <1>3. WellFormed(laneQ, Asks, Lanes)' /\ WellFormed(agentQ, Asks, Agents)'
    BY DEF Inv, QueuesHold, queues
  <1>4. \A u \in Asks : Placed(u, turn[u])'
    <2> SUFFICES ASSUME NEW u \in Asks
                 PROVE  Placed(u, turn[u])'
      OBVIOUS
    <2>1. Placed(u, turn'[u])
      BY <1>1, SlotFacts DEF Inv, QueuesHold
    <2>2. QED
      BY <2>1 DEF Placed, queues
  <1>5. QED
    BY <1>2, <1>3, <1>4 DEF Inv, QueuesHold

\* A turn that goes on within its class stays where it is.
LEMMA StillPlaced ==
    ASSUME NEW t \in Asks, Placed(t, turn[t]), NEW r,
           r.lane = turn[t].lane, r.agent = turn[t].agent,
           \/ turn[t].pc \in Working /\ r.pc \in Working
           \/ r.pc = turn[t].pc
    PROVE  Placed(t, r)
  BY DEF Placed, Begun, Working

\* What joining and leaving do to the others.
LEMMA JoinEffect ==
    ASSUME NEW Tasks, NEW Keys, NEW q \in Queues(Tasks, Keys), NEW t \in Tasks, NEW k
    PROVE  /\ Join(q, k, t).key[t] = k
           /\ \A u \in Tasks : u # t => /\ Join(q, k, t).key[u] = q.key[u]
                                        /\ Join(q, k, t).prev[u] = q.prev[u]
  BY DEF Join, Queues

LEMMA LeaveEffect ==
    ASSUME NEW Tasks, NEW Keys, NEW q \in Queues(Tasks, Keys), NEW t \in Tasks
    PROVE  /\ Leave(q, t).key[t] = NoKey
           /\ \A u \in Tasks : u # t => Leave(q, t).key[u] = q.key[u]
           /\ \A u \in Tasks : q.prev[u] = NoTask => Leave(q, t).prev[u] = NoTask
  BY DEF Leave, Settled, Queues

\* A Telegram turn that works, or whose turn has come to stop, ends.
LEMMA EndKeeps ==
    ASSUME Inv, NEW t \in Asks, turn[t].pc \in Begun, agentQ.prev[t] = NoTask,
           NEW r \in Turn, r.pc = "idle", Becomes(t, r),
           activeReq' = Unregistered(t), agentQ' = Leave(agentQ, t), laneQ' = Leave(laneQ, t),
           pending' \in Agents \cup {NoAgent}, UNCHANGED routes
    PROVE  Inv'
  <1>0. TypeOK /\ t \in Turns
    BY SlotFacts DEF Inv
  <1>1. /\ turn' \in [Turns -> Turn] /\ turn'[t] = r
        /\ \A u \in Turns : u # t => turn'[u] = turn[u]
    BY <1>0, OneSlot
  <1>2. /\ WellFormed(laneQ, Asks, Lanes) /\ laneQ \in Queues(Asks, Lanes)
        /\ WellFormed(agentQ, Asks, Agents) /\ agentQ \in Queues(Asks, Agents)
    BY DEF Inv, QueuesHold, TypeOK
  <1>3. /\ laneQ.key[t] # NoKey /\ laneQ.prev[t] = NoTask
        /\ agentQ.key[t] # NoKey /\ agentQ.prev[t] = NoTask
    BY SlotFacts DEF Inv, QueuesHold, Placed, Begun, Working
  <1>4. WellFormed(laneQ', Asks, Lanes) /\ WellFormed(agentQ', Asks, Agents)
    BY <1>2, <1>3, SlotFacts, LeaveKeeps
  <1>5. TypeOK'
    BY <1>0, <1>1, <1>4, UnregisteredType DEF TypeOK, WellFormed, routes
  <1>6. \A u \in Asks : Placed(u, turn[u])'
    <2> SUFFICES ASSUME NEW u \in Asks
                 PROVE  Placed(u, turn[u])'
      OBVIOUS
    <2>1. /\ laneQ'.key[t] = NoKey /\ agentQ'.key[t] = NoKey
          /\ u # t => laneQ'.key[u] = laneQ.key[u] /\ agentQ'.key[u] = agentQ.key[u]
          /\ laneQ.prev[u] = NoTask => laneQ'.prev[u] = NoTask
          /\ agentQ.prev[u] = NoTask => agentQ'.prev[u] = NoTask
      BY <1>2, LeaveEffect
    <2>2. CASE u = t
      BY <1>1, <2>1, <2>2 DEF Placed, Begun, Working
    <2>3. CASE u # t
      <3>1. Placed(u, turn[u]) /\ turn'[u] = turn[u]
        BY <1>1, <2>3, SlotFacts DEF Inv, QueuesHold
      <3>2. QED
        BY <2>1, <2>3, <3>1 DEF Placed
    <2>4. QED
      BY <2>2, <2>3
  <1>7. QED
    BY <1>4, <1>5, <1>6 DEF Inv, QueuesHold

LEMMA ReceiveKeeps ==
    ASSUME Inv, NEW t \in Asks, NEW l \in Lanes, NEW kind \in {"lane", "command"},
           Receive(t, l, kind)
    PROVE  Inv'
  <1> DEFINE r == [Blank EXCEPT !.pc = kind, !.lane = l]
  <1>0. TypeOK /\ t \in Turns
    BY SlotFacts DEF Inv
  <1>1. r \in Turn /\ r.pc = kind /\ r.lane = l /\ Becomes(t, r)
    BY DEF Receive, Blank, Turn, PCs
  <1> HIDE DEF r
  <1>2. /\ turn' \in [Turns -> Turn] /\ turn'[t] = r
        /\ \A u \in Turns : u # t => turn'[u] = turn[u]
    BY <1>0, <1>1, OneSlot
  <1>3. /\ WellFormed(laneQ, Asks, Lanes) /\ laneQ \in Queues(Asks, Lanes)
        /\ WellFormed(agentQ, Asks, Agents)
    BY DEF Inv, QueuesHold, TypeOK
  <1>4. laneQ.key[t] = NoKey /\ agentQ.key[t] = NoKey
    BY DEF Receive, Free, At, Inv, QueuesHold, Placed, Begun, Working
  <1>5. laneQ' = Join(laneQ, l, t) /\ agentQ' = agentQ
    BY DEF Receive
  <1>6. WellFormed(laneQ', Asks, Lanes)
    BY <1>3, <1>4, <1>5, SlotFacts, JoinKeeps
  <1>7. TypeOK'
    BY <1>2, <1>6 DEF TypeOK, WellFormed, Receive, TargetAfter, Inv
  <1>8. \A u \in Asks : Placed(u, turn[u])'
    <2> SUFFICES ASSUME NEW u \in Asks
                 PROVE  Placed(u, turn[u])'
      OBVIOUS
    <2>1. /\ laneQ'.key[t] = l
          /\ u # t => laneQ'.key[u] = laneQ.key[u] /\ laneQ'.prev[u] = laneQ.prev[u]
      BY <1>3, <1>5, JoinEffect
    <2>2. CASE u = t
      BY <1>1, <1>2, <1>4, <1>5, <2>1, <2>2 DEF Placed, Begun, Working
    <2>3. CASE u # t
      <3>1. Placed(u, turn[u]) /\ turn'[u] = turn[u]
        BY <1>2, <2>3, SlotFacts DEF Inv, QueuesHold
      <3>2. QED
        BY <1>5, <2>1, <2>3, <3>1 DEF Placed
    <2>4. QED
      BY <2>2, <2>3
  <1>9. QED
    BY <1>3, <1>5, <1>6, <1>7, <1>8 DEF Inv, QueuesHold

LEMMA CommandToldKeeps ==
    ASSUME Inv, NEW t \in Asks, CommandTold(t)
    PROVE  Inv'
  <1> DEFINE r == Over(turn[t])
  <1>0. TypeOK /\ t \in Turns /\ turn[t] \in Turn
    BY SlotFacts DEF Inv, TypeOK
  <1>1. r \in Turn /\ r.pc = "idle" /\ Becomes(t, r)
    BY <1>0, DerivedTurns DEF CommandTold, Over, Blank, Turn
  <1> HIDE DEF r
  <1>2. /\ turn' \in [Turns -> Turn] /\ turn'[t] = r
        /\ \A u \in Turns : u # t => turn'[u] = turn[u]
    BY <1>0, <1>1, OneSlot
  <1>3. /\ WellFormed(laneQ, Asks, Lanes) /\ laneQ \in Queues(Asks, Lanes)
        /\ WellFormed(agentQ, Asks, Agents)
    BY DEF Inv, QueuesHold, TypeOK
  <1>4. laneQ.key[t] # NoKey /\ laneQ.prev[t] = NoTask /\ agentQ.key[t] = NoKey
    BY SlotFacts DEF CommandTold, At, Inv, QueuesHold, Placed, Begun, Working
  <1>5. laneQ' = Leave(laneQ, t) /\ agentQ' = agentQ
    BY DEF CommandTold
  <1>6. WellFormed(laneQ', Asks, Lanes)
    BY <1>3, <1>4, <1>5, SlotFacts, LeaveKeeps
  <1>7. TypeOK'
    BY <1>2, <1>6 DEF TypeOK, WellFormed, CommandTold, routes, Inv
  <1>8. \A u \in Asks : Placed(u, turn[u])'
    <2> SUFFICES ASSUME NEW u \in Asks
                 PROVE  Placed(u, turn[u])'
      OBVIOUS
    <2>1. /\ laneQ'.key[t] = NoKey
          /\ u # t => laneQ'.key[u] = laneQ.key[u]
          /\ laneQ.prev[u] = NoTask => laneQ'.prev[u] = NoTask
      BY <1>3, <1>5, LeaveEffect
    <2>2. CASE u = t
      BY <1>1, <1>2, <1>4, <1>5, <2>1, <2>2 DEF Placed, Begun, Working
    <2>3. CASE u # t
      <3>1. Placed(u, turn[u]) /\ turn'[u] = turn[u]
        BY <1>2, <2>3, SlotFacts DEF Inv, QueuesHold
      <3>2. QED
        BY <1>5, <2>1, <2>3, <3>1 DEF Placed
    <2>4. QED
      BY <2>2, <2>3
  <1>9. QED
    BY <1>3, <1>5, <1>6, <1>7, <1>8 DEF Inv, QueuesHold

LEMMA BeginAskKeeps ==
    ASSUME Inv, NEW t \in Asks, BeginAsk(t)
    PROVE  Inv'
  <1> DEFINE a == Routed(turn[t].lane)
             r == [turn[t] EXCEPT !.pc = "queued", !.agent = a]
  <1>0. TypeOK /\ t \in Turns /\ turn[t] \in Turn /\ a \in Agents
    BY SlotFacts, RoutedAgent DEF Inv, TypeOK
  <1>1. /\ r \in Turn /\ r.pc = "queued" /\ r.lane = turn[t].lane /\ r.agent = a
        /\ Becomes(t, r) /\ agentQ' = Join(agentQ, a, t) /\ laneQ' = laneQ
    BY <1>0 DEF BeginAsk, Turn, PCs, Begun
  <1> HIDE DEF r, a
  <1>2. /\ turn' \in [Turns -> Turn] /\ turn'[t] = r
        /\ \A u \in Turns : u # t => turn'[u] = turn[u]
    BY <1>0, <1>1, OneSlot
  <1>3. /\ WellFormed(laneQ, Asks, Lanes) /\ agentQ \in Queues(Asks, Agents)
        /\ WellFormed(agentQ, Asks, Agents)
    BY DEF Inv, QueuesHold, TypeOK
  <1>4. agentQ.key[t] = NoKey /\ laneQ.prev[t] = NoTask /\ turn[t].lane \in Lanes
        /\ laneQ.key[t] = turn[t].lane
    BY DEF BeginAsk, At, MayGo, Inv, QueuesHold, Placed, Begun, Working
  <1>6. WellFormed(agentQ', Asks, Agents)
    BY <1>0, <1>1, <1>3, <1>4, SlotFacts, JoinKeeps
  <1>7. TypeOK'
    BY <1>0, <1>1, <1>2, <1>4, <1>6 DEF TypeOK, WellFormed, BeginAsk, routes
  <1>8. \A u \in Asks : Placed(u, turn[u])'
    <2> SUFFICES ASSUME NEW u \in Asks
                 PROVE  Placed(u, turn[u])'
      OBVIOUS
    <2>1. /\ agentQ'.key[t] = a
          /\ u # t => agentQ'.key[u] = agentQ.key[u] /\ agentQ'.prev[u] = agentQ.prev[u]
      BY <1>1, <1>3, JoinEffect
    <2>2. CASE u = t
      BY <1>0, <1>1, <1>2, <1>4, <2>1, <2>2 DEF Placed, Begun, Working
    <2>3. CASE u # t
      <3>1. Placed(u, turn[u]) /\ turn'[u] = turn[u]
        BY <1>2, <2>3, SlotFacts DEF Inv, QueuesHold
      <3>2. QED
        BY <1>1, <2>1, <2>3, <3>1 DEF Placed
    <2>4. QED
      BY <2>2, <2>3
  <1>9. QED
    BY <1>1, <1>3, <1>6, <1>7, <1>8 DEF Inv, QueuesHold

\* The steps of a Telegram turn that move no queue.
LEMMA TurnGoesOn ==
    ASSUME Inv, NEW t \in Asks,
           \/ \E a \in Agents : RunCommand(t, a)
           \/ StartTurn(t) \/ FilesStaged(t) \/ ProviderAnswers(t) \/ RecordAnswer(t)
           \/ TurnFails(t)
           \/ \E outcome \in {"timed_out", "failed"} : RecordFailure(t, outcome)
    PROVE  Inv'
  <1>0. TypeOK /\ t \in Turns /\ turn[t] \in Turn /\ Placed(t, turn[t])
    BY SlotFacts DEF Inv, TypeOK, QueuesHold
  <1>1. ASSUME NEW a \in Agents, RunCommand(t, a)
        PROVE  Inv'
    <2> DEFINE r == [turn[t] EXCEPT !.pc = "telling"]
    <2>1. r \in Turn /\ Becomes(t, r)
      BY <1>0, <1>1 DEF RunCommand, Goes, Turn, PCs
    <2>2. Placed(t, r)
      BY <1>0, <1>1 DEF RunCommand, At, MayGo, Placed, Turn, Begun, Working
    <2>3. active' \in Agents /\ binding' \in Agents \cup {NoAgent}
      BY <1>0, <1>1 DEF RunCommand, TypeOK
    <2> HIDE DEF r
    <2>4. QED
      BY <1>0, <1>1, <2>1, <2>2, <2>3, QueuesAlone DEF RunCommand, TypeOK
  <1>2. CASE StartTurn(t)
    <2> DEFINE r == [turn[t] EXCEPT !.pc = "staging"]
    <2>1. r \in Turn /\ Becomes(t, r)
      BY <1>0, <1>2 DEF StartTurn, Goes, Turn, PCs, Begun, Working
    <2>2. Placed(t, r)
      BY <1>0, <1>2 DEF StartTurn, TurnComes, At, MayGo, Placed, Turn, Begun, Working
    <2>3. pending' \in Agents \cup {NoAgent}
      BY <1>0, <1>2 DEF StartTurn, TypeOK
    <2> HIDE DEF r
    <2>4. QED
      BY <1>0, <1>2, <2>1, <2>2, <2>3, QueuesAlone DEF StartTurn, TypeOK, routes
  <1>3. CASE FilesStaged(t)
    <2> DEFINE r == [turn[t] EXCEPT !.pc = "asking", !.open = TRUE]
    <2>1. /\ r \in Turn /\ Becomes(t, r) /\ r.lane = turn[t].lane /\ r.agent = turn[t].agent
          /\ turn[t].pc \in Working /\ r.pc \in Working
      BY <1>0, <1>3 DEF FilesStaged, At, Turn, PCs, Begun, Working
    <2> HIDE DEF r
    <2>2. Placed(t, r)
      BY <1>0, <2>1, StillPlaced
    <2>3. QED
      BY <1>0, <1>3, <2>1, <2>2, QueuesAlone DEF FilesStaged, TypeOK, routes
  <1>4. CASE ProviderAnswers(t)
    <2> DEFINE r == [turn[t] EXCEPT !.pc = "closing"]
    <2>1. /\ r \in Turn /\ Becomes(t, r) /\ r.lane = turn[t].lane /\ r.agent = turn[t].agent
          /\ turn[t].pc \in Working /\ r.pc \in Working
      BY <1>0, <1>4 DEF ProviderAnswers, Goes, At, Turn, PCs, Begun, Working
    <2> HIDE DEF r
    <2>2. Placed(t, r)
      BY <1>0, <2>1, StillPlaced
    <2>3. QED
      BY <1>0, <1>4, <2>1, <2>2, QueuesAlone DEF ProviderAnswers, TypeOK, routes
  <1>5. CASE RecordAnswer(t)
    <2> DEFINE r == [turn[t] EXCEPT !.pc = "sending", !.open = FALSE, !.answered = TRUE]
    <2>1. /\ r \in Turn /\ Becomes(t, r) /\ r.lane = turn[t].lane /\ r.agent = turn[t].agent
          /\ turn[t].pc \in Working /\ r.pc \in Working
      BY <1>0, <1>5 DEF RecordAnswer, At, Turn, PCs, Begun, Working
    <2> HIDE DEF r
    <2>2. Placed(t, r)
      BY <1>0, <2>1, StillPlaced
    <2>3. QED
      BY <1>0, <1>5, <2>1, <2>2, QueuesAlone DEF RecordAnswer, TypeOK, routes
  <1>6. CASE TurnFails(t)
    <2> DEFINE r == [turn[t] EXCEPT !.pc = "failing"]
    <2>1. /\ r \in Turn /\ Becomes(t, r) /\ r.lane = turn[t].lane /\ r.agent = turn[t].agent
          /\ turn[t].pc \in Working /\ r.pc \in Working
      BY <1>0, <1>6 DEF TurnFails, Goes, Turn, PCs, Begun, Working
    <2> HIDE DEF r
    <2>2. Placed(t, r)
      BY <1>0, <2>1, StillPlaced
    <2>3. QED
      BY <1>0, <1>6, <2>1, <2>2, QueuesAlone DEF TurnFails, TypeOK, routes
  <1>7. ASSUME NEW outcome \in {"timed_out", "failed"}, RecordFailure(t, outcome)
        PROVE  Inv'
    <2> DEFINE r == [turn[t] EXCEPT !.pc = "replying", !.finished = TRUE, !.open = FALSE]
    <2>1. /\ r \in Turn /\ Becomes(t, r) /\ r.lane = turn[t].lane /\ r.agent = turn[t].agent
          /\ turn[t].pc \in Working /\ r.pc \in Working
      BY <1>0, <1>7 DEF RecordFailure, At, Turn, PCs, Begun, Working
    <2> HIDE DEF r
    <2>2. Placed(t, r)
      BY <1>0, <2>1, StillPlaced
    <2>3. pending' \in Agents \cup {NoAgent}
      BY <1>0, <1>7, PendingType DEF RecordFailure
    <2>4. QED
      BY <1>0, <1>7, <2>1, <2>2, <2>3, QueuesAlone DEF RecordFailure, TypeOK, routes
  <1>8. QED
    BY <1>1, <1>2, <1>3, <1>4, <1>5, <1>6, <1>7

\* The three ways a Telegram turn ends.
LEMMA TurnEnds ==
    ASSUME Inv, NEW t \in Asks, AnswerSent(t) \/ FailureTold(t) \/ StoppedTurnEnds(t)
    PROVE  Inv'
  <1>0. TypeOK /\ t \in Turns /\ turn[t] \in Turn /\ Placed(t, turn[t])
    BY SlotFacts DEF Inv, TypeOK, QueuesHold
  <1>1. \A r \in Turn : Over(r) \in Turn /\ Over(r).pc = "idle"
    <2>1. \A r \in Turn : Over(r).pc = "idle"
      BY DEF Over, Blank, Turn
    <2>2. QED
      BY <2>1, DerivedTurns
  <1>2. CASE AnswerSent(t)
    <2> DEFINE r == Over([turn[t] EXCEPT !.finished = TRUE])
    <2>1. [turn[t] EXCEPT !.finished = TRUE] \in Turn
      BY <1>0 DEF Turn
    <2>2. r \in Turn /\ r.pc = "idle" /\ Becomes(t, r)
      BY <1>1, <1>2, <2>1 DEF AnswerSent
    <2> HIDE DEF r
    <2>3. pending' \in Agents \cup {NoAgent}
      BY <1>0, <1>2, PendingType DEF AnswerSent
    <2>4. turn[t].pc \in Begun /\ agentQ.prev[t] = NoTask
      BY <1>0, <1>2 DEF AnswerSent, At, Placed, Begun, Working
    <2>5. QED
      BY <1>2, <2>2, <2>3, <2>4, EndKeeps DEF AnswerSent
  <1>3. CASE FailureTold(t) \/ StoppedTurnEnds(t)
    <2> DEFINE r == Over(turn[t])
    <2>1. r \in Turn /\ r.pc = "idle"
      BY <1>0, <1>1
    <2>2. Becomes(t, r) /\ pending' = pending
      BY <1>3 DEF FailureTold, StoppedTurnEnds, EndTurn
    <2> HIDE DEF r
    <2>3. turn[t].pc \in Begun /\ agentQ.prev[t] = NoTask
      BY <1>0, <1>3 DEF FailureTold, StoppedTurnEnds, TurnComes, MayGo, At, Placed, Begun,
                        Working
    <2>4. QED
      BY <1>0, <1>3, <2>1, <2>2, <2>3, EndKeeps
      DEF FailureTold, StoppedTurnEnds, EndTurn, TypeOK
  <1>4. QED
    BY <1>2, <1>3

\* Stop commands mark a turn; web turns and wake-ups pass no queue.
LEMMA OthersKeep ==
    ASSUME Inv,
           \/ \E l \in Lanes : StopCommand(l)
           \/ \E t \in Asks \cup Wakes : NoteStop(t)
           \/ \E w \in Webs : (\E a \in Agents : WebSend(w, a)) \/ WebEnds(w)
           \/ TickClears
           \/ \E w \in Wakes : WakeStep(w)
    PROVE  Inv'
  <1>0. TypeOK /\ \A t \in Turns : turn[t] \in Turn
    BY DEF Inv, TypeOK
  <1>1. ASSUME NEW l \in Lanes, StopCommand(l)
        PROVE  Inv'
    <2> DEFINE t == activeReq[l]
               r == [turn[t] EXCEPT !.stopped = TRUE, !.noting = TRUE]
    <2>1. t \in Turns /\ turn[t] \in Turn
      BY <1>0, <1>1 DEF StopCommand, TypeOK
    <2>2. /\ r \in Turn /\ Becomes(t, r) /\ r.lane = turn[t].lane /\ r.agent = turn[t].agent
          /\ r.pc = turn[t].pc
      BY <1>1, <2>1 DEF StopCommand, Turn
    <2>3. /\ UNCHANGED <<queues, activeReq, pending, routes>>
      BY <1>1 DEF StopCommand
    <2> HIDE DEF r, t
    <2>4. t \in Asks => Placed(t, r)
      BY <2>2, StillPlaced DEF Inv, QueuesHold
    <2>5. QED
      BY <1>0, <2>1, <2>2, <2>3, <2>4, QueuesAlone DEF TypeOK, routes
  <1>2. ASSUME NEW t \in Asks \cup Wakes, NoteStop(t)
        PROVE  Inv'
    <2> DEFINE r == Noted(turn[t])
    <2>1. t \in Turns /\ r \in Turn /\ Becomes(t, r)
      BY <1>0, <1>2, SlotFacts, DerivedTurns DEF NoteStop
    <2>2. /\ r.pc = turn[t].pc
          /\ r.pc # "idle" => r.lane = turn[t].lane /\ r.agent = turn[t].agent
      BY <1>0, <2>1 DEF Noted, Over, Blank, Turn
    <2> HIDE DEF r
    <2>3. t \in Asks => Placed(t, r)
      BY <2>2 DEF Inv, QueuesHold, Placed, Begun, Working
    <2>4. pending' \in Agents \cup {NoAgent}
      BY <1>0, <1>2, <2>1, PendingType DEF NoteStop
    <2>5. QED
      BY <1>0, <1>2, <2>1, <2>3, <2>4, QueuesAlone DEF NoteStop, TypeOK, routes
  <1>3. ASSUME NEW w \in Webs, NEW a \in Agents, WebSend(w, a)
        PROVE  Inv'
    <2> DEFINE r == [Blank EXCEPT !.pc = "asking", !.agent = a, !.open = TRUE]
    <2>1. r \in Turn /\ Becomes(w, r) /\ w \in Turns /\ w \notin Asks
      BY <1>3, SlotFacts DEF WebSend, Blank, Turn, PCs, Begun, Working
    <2> HIDE DEF r
    <2>2. QED
      BY <1>0, <1>3, <2>1, QueuesAlone DEF WebSend, TypeOK, routes
  <1>4. ASSUME NEW w \in Webs, WebEnds(w)
        PROVE  Inv'
    <2>1. Becomes(w, Blank) /\ w \in Turns /\ w \notin Asks
      BY <1>4, SlotFacts DEF WebEnds
    <2>2. QED
      BY <1>0, <1>4, <2>1, DerivedTurns, QueuesAlone DEF WebEnds, TypeOK, routes
  <1>5. CASE TickClears
    <2>1. TypeOK'
      BY <1>0, <1>5 DEF TickClears, TypeOK, queues, routes
    <2>2. QueuesHold'
      BY <1>5 DEF TickClears, Inv, QueuesHold, Placed, queues
    <2>3. QED
      BY <2>1, <2>2 DEF Inv
  <1>6. ASSUME NEW w \in Wakes, WakeStep(w)
        PROVE  Inv'
    <2>0. w \in Turns /\ w \notin Asks /\ turn[w] \in Turn
      BY <1>0, SlotFacts
    <2>1. UNCHANGED <<queues, routes>>
      BY <1>6 DEF WakeStep, Wake, WakeReturns, WakeStopped, WakeRecords, WakeEnds
    <2>2. /\ activeReq' \in [Lanes -> Turns \cup {NoTask}]
          /\ pending' \in Agents \cup {NoAgent}
      <3>1. CASE Wake(w)
        BY <1>0, <2>0, <3>1 DEF Wake, TypeOK
      <3>2. CASE WakeStopped(w) \/ \E at, outcome : WakeRecords(w, at, outcome)
        BY <1>0, <2>0, <3>2, UnregisteredType, PendingType
        DEF WakeStopped, WakeRecords, TypeOK
      <3>3. CASE (\E at : WakeReturns(w, at)) \/ WakeEnds(w)
        BY <1>0, <3>3 DEF WakeReturns, WakeEnds, TypeOK
      <3>4. QED
        BY <1>6, <3>1, <3>2, <3>3 DEF WakeStep
    <2>3. PICK r \in Turn : Becomes(w, r)
      <3>1. CASE Wake(w)
        <4>1. active \in Agents /\ lastLane \in Lanes
          BY <1>0, RoutesAssumption DEF TypeOK
        <4>2. [Blank EXCEPT !.pc = "asking", !.agent = active, !.open = TRUE,
                            !.lane = IF live THEN lastLane ELSE NoKey] \in Turn
          BY <4>1 DEF Blank, Turn, PCs, Begun, Working
        <4>3. QED
          BY <3>1, <4>2 DEF Wake
      <3>2. CASE WakeStopped(w) \/ WakeEnds(w)
        BY <2>0, <3>2, DerivedTurns DEF WakeStopped, WakeEnds
      <3>3. ASSUME NEW at \in {"closing", "failing"}, WakeReturns(w, at)
            PROVE  \E r \in Turn : Becomes(w, r)
        <4>1. [turn[w] EXCEPT !.pc = at] \in Turn
          BY <2>0 DEF Turn, PCs, Begun, Working
        <4>2. QED
          BY <3>3, <4>1 DEF WakeReturns, Goes
      <3>4. ASSUME NEW at, NEW outcome, WakeRecords(w, at, outcome)
            PROVE  \E r \in Turn : Becomes(w, r)
        <4>1. [turn[w] EXCEPT !.pc = "replying", !.open = FALSE,
                              !.answered = (outcome = "completed")] \in Turn
          BY <2>0 DEF Turn, PCs, Begun, Working
        <4>2. QED
          BY <3>4, <4>1 DEF WakeRecords
      <3>5. QED
        BY <1>6, <3>1, <3>2, <3>3, <3>4 DEF WakeStep
    <2>4. QED
      BY <1>0, <2>0, <2>1, <2>2, <2>3, QueuesAlone DEF TypeOK, routes
  <1>7. QED
    BY <1>1, <1>2, <1>3, <1>4, <1>5, <1>6

LEMMA InitInv == Init => Inv
  <1> SUFFICES ASSUME Init
               PROVE  Inv
    OBVIOUS
  <1>1. WellFormed(laneQ, Asks, Lanes) /\ WellFormed(agentQ, Asks, Agents)
    BY SlotFacts, EmptyWellFormed DEF Init
  <1>2. TypeOK
    BY <1>1, DerivedTurns DEF Init, TypeOK, WellFormed
  <1>3. \A t \in Asks : Placed(t, turn[t])
    BY SlotFacts DEF Init, Blank, Placed, EmptyQueue, Begun, Working
  <1>4. QED
    BY <1>1, <1>2, <1>3 DEF Inv, QueuesHold

LEMMA NextInv == Inv /\ [Next]_vars => Inv'
  <1> SUFFICES ASSUME Inv, [Next]_vars
               PROVE  Inv'
    OBVIOUS
  <1>1. CASE UNCHANGED vars
    BY <1>1 DEF vars, queues, routes, Inv, TypeOK, QueuesHold, Placed
  <1>2. ASSUME NEW t \in Asks, AskStep(t)
        PROVE  Inv'
    BY <1>2, TurnGoesOn, TurnEnds, CommandToldKeeps, BeginAskKeeps DEF AskStep
  <1>3. CASE Next
    BY <1>2, <1>3, ReceiveKeeps, OthersKeep DEF Next
  <1>4. QED
    BY <1>1, <1>3

\* Every reachable state is well typed: TypeOK of the runs.
THEOREM TurnTypes == Spec => []TypeOK
  <1>1. Inv => TypeOK
    BY DEF Inv
  <1>2. QED
    BY <1>1, InitInv, NextInv, PTL DEF Spec

\* The invariant of the queues, for the theorems that follow.
THEOREM QueuesStayWhole == Spec => []Inv
  BY InitInv, NextInv, PTL DEF Spec

\* A map of promises serves each lane and each agent in order of arrival.
THEOREM InOrderOfArrival == Spec => []TurnsInOrder
  <1>1. Inv => TurnsInOrder
    <2> SUFFICES ASSUME Inv, NEW t \in Asks
                 PROVE  /\ turn[t].pc \in Begun \cup {"telling"} => laneQ.ahead[t] = {}
                        /\ turn[t].pc \in Working => agentQ.ahead[t] = {}
      BY DEF TurnsInOrder
    <2>1. /\ turn[t].pc \in Begun \cup {"telling"} => laneQ.prev[t] = NoTask
          /\ turn[t].pc \in Working => agentQ.prev[t] = NoTask
      BY DEF Inv, QueuesHold, Placed
    <2>2. QED
      BY <2>1, FrontHasNobodyAhead DEF Inv, QueuesHold
  <1>2. QED
    BY <1>1, QueuesStayWhole, PTL

\* One Telegram turn at a time for an agent, whatever lanes the messages came by.
THEOREM OneTelegramTurnAtATime == Spec => []OneTelegramTurn
  <1>1. Inv => OneTelegramTurn
    <2> SUFFICES ASSUME Inv, NEW t \in Asks, NEW u \in Asks, t # u,
                        turn[t].pc \in Working, turn[u].pc \in Working
                 PROVE  turn[t].agent # turn[u].agent
      BY DEF OneTelegramTurn
    <2>1. /\ agentQ.key[t] = turn[t].agent /\ agentQ.key[t] # NoKey /\ agentQ.prev[t] = NoTask
          /\ agentQ.key[u] = turn[u].agent /\ agentQ.prev[u] = NoTask
      BY SlotFacts DEF Inv, QueuesHold, Placed, Begun
    <2>2. QED
      BY <2>1, OneRuns DEF Inv, QueuesHold
  <1>2. QED
    BY <1>1, QueuesStayWhole, PTL

-----------------------------------------------------------------------------
(***************************************************************************)
(* The table of active requests.                                           *)
(***************************************************************************)
\* A step that changes one turn keeps the others' entries, unless it enters
\* a new request in the table.
LEMMA EntriesKept ==
    ASSUME Inv, StopFindsTurn, NEW t \in Turns, NEW r \in Turn, Becomes(t, r),
           t \in Asks /\ r.pc \in Begun
           => turn[t].pc \in Begun /\ r.lane = turn[t].lane /\ activeReq' = activeReq,
           activeReq' = activeReq \/ activeReq' = Unregistered(t)
    PROVE  StopFindsTurn'
  <1>1. /\ turn'[t] = r
        /\ \A u \in Turns : u # t => turn'[u] = turn[u]
    BY OneSlot DEF Inv
  <1>2. SUFFICES ASSUME NEW u \in Asks, turn'[u].pc \in Begun
                 PROVE  activeReq'[turn'[u].lane] = u
    BY DEF StopFindsTurn
  <1>3. CASE u = t
    BY <1>1, <1>2, <1>3 DEF StopFindsTurn
  <1>4. CASE u # t
    <2>1. turn'[u] = turn[u] /\ activeReq[turn[u].lane] = u /\ turn[u].lane \in Lanes
      BY <1>1, <1>2, <1>4, SlotFacts DEF StopFindsTurn, Inv, QueuesHold, Placed, Begun, Working
    <2>2. activeReq'[turn[u].lane] = u
      BY <1>4, <2>1 DEF Unregistered
    <2>3. QED
      BY <2>1, <2>2
  <1>5. QED
    BY <1>3, <1>4

\* A lane's next turn enters the table when no other turn of the lane is left.
LEMMA EntryMade ==
    ASSUME Inv, StopFindsTurn, NEW t \in Asks, BeginAsk(t)
    PROVE  StopFindsTurn'
  <1> DEFINE r == [turn[t] EXCEPT !.pc = "queued", !.agent = Routed(turn[t].lane)]
  <1>0. TypeOK /\ t \in Turns /\ turn[t] \in Turn /\ Routed(turn[t].lane) \in Agents
    BY SlotFacts, RoutedAgent DEF Inv, TypeOK
  <1>1. r \in Turn /\ r.lane = turn[t].lane /\ Becomes(t, r)
    BY <1>0 DEF BeginAsk, Turn, PCs, Begun
  <1> HIDE DEF r
  <1>2. /\ turn'[t] = r
        /\ \A u \in Turns : u # t => turn'[u] = turn[u]
    BY <1>0, <1>1, OneSlot
  <1>3. /\ activeReq' = [activeReq EXCEPT ![turn[t].lane] = t]
        /\ activeReq \in [Lanes -> Turns \cup {NoTask}]
        /\ laneQ.key[t] = turn[t].lane /\ turn[t].lane \in Lanes /\ laneQ.prev[t] = NoTask
    BY <1>0 DEF BeginAsk, At, MayGo, TypeOK, Inv, QueuesHold, Placed
  <1>4. SUFFICES ASSUME NEW u \in Asks, turn'[u].pc \in Begun
                 PROVE  activeReq'[turn'[u].lane] = u
    BY DEF StopFindsTurn
  <1>5. CASE u = t
    BY <1>1, <1>2, <1>3, <1>5
  <1>6. CASE u # t
    <2>1. turn'[u] = turn[u]
      BY <1>2, <1>6, SlotFacts
    <2>2. /\ activeReq[turn[u].lane] = u /\ turn[u].lane \in Lanes
          /\ laneQ.key[u] = turn[u].lane /\ laneQ.prev[u] = NoTask
      BY <1>4, <2>1 DEF StopFindsTurn, Inv, QueuesHold, Placed, Begun, Working
    <2>3. turn[u].lane # turn[t].lane
      BY <1>3, <1>6, <2>2, OneRuns, SlotFacts DEF Inv, QueuesHold
    <2>4. QED
      BY <1>3, <2>1, <2>2, <2>3
  <1>7. QED
    BY <1>5, <1>6

LEMMA NextEntries ==
    ASSUME Inv, ~live, StopFindsTurn, [Next]_vars
    PROVE  StopFindsTurn'
  <1>0. TypeOK /\ \A t \in Turns : turn[t] \in Turn
    BY DEF Inv, TypeOK
  <1>1. CASE UNCHANGED vars
    BY <1>1 DEF vars, StopFindsTurn
  <1>2. ASSUME NEW t \in Asks, NEW l \in Lanes, NEW kind \in {"lane", "command"},
               Receive(t, l, kind)
        PROVE  StopFindsTurn'
    <2> DEFINE r == [Blank EXCEPT !.pc = kind, !.lane = l]
    <2>1. r \in Turn /\ r.pc \notin Begun /\ Becomes(t, r) /\ activeReq' = activeReq
      BY <1>2 DEF Receive, Blank, Turn, PCs, Begun, Working
    <2> HIDE DEF r
    <2>2. QED
      BY <2>1, EntriesKept, SlotFacts
  <1>3. ASSUME NEW t \in Asks, AskStep(t)
        PROVE  StopFindsTurn'
    <2>0. t \in Turns /\ turn[t] \in Turn
      BY <1>0, SlotFacts
    <2>1. CASE BeginAsk(t)
      BY <2>1, EntryMade
    <2>2. CASE AnswerSent(t) \/ FailureTold(t) \/ StoppedTurnEnds(t) \/ CommandTold(t)
      <3>1. \E r \in Turn : /\ r.pc = "idle" /\ Becomes(t, r)
                            /\ activeReq' = activeReq \/ activeReq' = Unregistered(t)
        <4>1. [turn[t] EXCEPT !.finished = TRUE] \in Turn
          BY <2>0 DEF Turn
        <4>2. \A r \in Turn : Over(r) \in Turn /\ Over(r).pc = "idle"
          <5>1. \A r \in Turn : Over(r).pc = "idle"
            BY DEF Over, Blank, Turn
          <5>2. QED
            BY <5>1, DerivedTurns
        <4>3. QED
          BY <2>0, <2>2, <4>1, <4>2
          DEF AnswerSent, FailureTold, StoppedTurnEnds, CommandTold, EndTurn
      <3>2. "idle" \notin Begun
        BY DEF Begun, Working
      <3>3. QED
        BY <2>0, <3>1, <3>2, EntriesKept
    <2>3. CASE \E a \in Agents : RunCommand(t, a)
      <3> DEFINE r == [turn[t] EXCEPT !.pc = "telling"]
      <3>1. r \in Turn /\ r.pc \notin Begun /\ Becomes(t, r) /\ activeReq' = activeReq
        BY <2>0, <2>3 DEF RunCommand, Goes, Turn, PCs, Begun, Working
      <3> HIDE DEF r
      <3>2. QED
        BY <2>0, <3>1, EntriesKept
    <2>4. CASE \/ StartTurn(t) \/ FilesStaged(t) \/ ProviderAnswers(t) \/ RecordAnswer(t)
               \/ TurnFails(t)
               \/ \E outcome \in {"timed_out", "failed"} : RecordFailure(t, outcome)
      <3>1. turn[t].pc \in Begun /\ activeReq' = activeReq
        BY <2>4 DEF StartTurn, TurnComes, FilesStaged, ProviderAnswers, RecordAnswer,
                    TurnFails, RecordFailure, At, Begun, Working
      <3>2. \E r \in Turn : r.lane = turn[t].lane /\ Becomes(t, r)
        BY <2>0, <2>4 DEF StartTurn, FilesStaged, ProviderAnswers, RecordAnswer, TurnFails,
                          RecordFailure, Goes, Turn, PCs, Begun, Working
      <3>3. QED
        BY <2>0, <3>1, <3>2, EntriesKept
    <2>5. QED
      BY <1>3, <2>1, <2>2, <2>3, <2>4 DEF AskStep
  <1>4. ASSUME NEW l \in Lanes, StopCommand(l)
        PROVE  StopFindsTurn'
    <2> DEFINE t == activeReq[l]
               r == [turn[t] EXCEPT !.stopped = TRUE, !.noting = TRUE]
    <2>1. t \in Turns /\ turn[t] \in Turn
      BY <1>0, <1>4 DEF StopCommand, TypeOK
    <2>2. /\ r \in Turn /\ Becomes(t, r) /\ r.lane = turn[t].lane /\ r.pc = turn[t].pc
          /\ activeReq' = activeReq
      BY <1>4, <2>1 DEF StopCommand, Turn
    <2> HIDE DEF r, t
    <2>3. QED
      BY <2>1, <2>2, EntriesKept
  <1>5. ASSUME NEW t \in Asks \cup Wakes, NoteStop(t)
        PROVE  StopFindsTurn'
    <2> DEFINE r == Noted(turn[t])
    <2>1. t \in Turns /\ r \in Turn /\ Becomes(t, r) /\ activeReq' = activeReq
      BY <1>0, <1>5, SlotFacts, DerivedTurns DEF NoteStop
    <2>2. r.pc = turn[t].pc /\ (r.pc # "idle" => r.lane = turn[t].lane)
      BY <1>0, <2>1 DEF Noted, Over, Blank, Turn
    <2> HIDE DEF r
    <2>3. "idle" \notin Begun
      BY DEF Begun, Working
    <2>4. QED
      BY <2>1, <2>2, <2>3, EntriesKept
  <1>6. ASSUME NEW w \in Webs \cup Wakes,
               (\E a \in Agents : WebSend(w, a)) \/ WebEnds(w) \/ WakeStep(w)
        PROVE  StopFindsTurn'
    <2>1. w \in Turns /\ w \notin Asks
      BY SlotFacts
    <2>2. \E r : Becomes(w, r)
      BY <1>6 DEF WebSend, WebEnds, WakeStep, Wake, WakeReturns, WakeStopped, WakeRecords,
                  WakeEnds, Goes
    <2>3. \A u \in Turns : u # w => turn'[u] = turn[u]
      BY <1>0, <2>2 DEF Becomes, TypeOK
    <2>4. activeReq' = activeReq \/ activeReq' = Unregistered(w)
      BY <1>6 DEF WebSend, WebEnds, WakeStep, Wake, WakeReturns, WakeStopped, WakeRecords,
                  WakeEnds
    <2>5. SUFFICES ASSUME NEW u \in Asks, turn'[u].pc \in Begun
                   PROVE  activeReq'[turn'[u].lane] = u
      BY DEF StopFindsTurn
    <2>6. turn'[u] = turn[u] /\ activeReq[turn[u].lane] = u /\ turn[u].lane \in Lanes /\ u # w
      BY <2>1, <2>3, <2>5, SlotFacts
      DEF StopFindsTurn, Inv, QueuesHold, Placed, Begun, Working
    <2>7. QED
      BY <2>4, <2>6 DEF Unregistered
  <1>7. CASE TickClears
    BY <1>7 DEF TickClears, StopFindsTurn
  <1>8. QED
    BY <1>1, <1>2, <1>3, <1>4, <1>5, <1>6, <1>7 DEF Next

\* /stop finds every turn taken up from its lane while the heartbeat is quiet.
THEOREM StopFindsTurns == Spec => []StopFindsTurnWhenQuiet
  <1>1. Init => StopFindsTurnWhenQuiet
    BY SlotFacts DEF Init, StopFindsTurnWhenQuiet, StopFindsTurn, Blank, Begun, Working
  <1>2. Inv /\ StopFindsTurnWhenQuiet /\ [Next]_vars => StopFindsTurnWhenQuiet'
    <2> SUFFICES ASSUME Inv, StopFindsTurnWhenQuiet, [Next]_vars, ~live'
                 PROVE  StopFindsTurn'
      BY DEF StopFindsTurnWhenQuiet
    <2>1. live' = live
      BY DEF Next, vars, routes, Receive, AskStep, RunCommand, CommandTold, BeginAsk, StartTurn,
             FilesStaged, ProviderAnswers, RecordAnswer, AnswerSent, TurnFails, FailureTold,
             RecordFailure, StoppedTurnEnds, EndTurn, StopCommand, NoteStop, WebSend, WebEnds,
             TickClears, WakeStep, Wake, WakeReturns, WakeStopped, WakeRecords, WakeEnds
    <2>2. QED
      BY <2>1, NextEntries DEF StopFindsTurnWhenQuiet
  <1>3. QED
    BY <1>1, <1>2, QueuesStayWhole, PTL DEF Spec

-----------------------------------------------------------------------------
(***************************************************************************)
(* Questions and answers.                                                  *)
(***************************************************************************)
\* A question is open only while its turn may still record a reply, or a stop
\* command has a note to record; a stopped turn leaves the reply to the latter.
Answerable(r) ==
    /\ r.open => r.pc \in {"asking", "closing", "failing"} \/ r.noting
    /\ r.open /\ r.stopped => r.noting

AllAnswerable == \A t \in Turns : Answerable(turn[t])

\* What a step makes of the turn it changes, as far as its question goes.
NewTurn(t) == \E r \in Turn : Becomes(t, r) /\ Answerable(r)

LEMMA OverAnswerable ==
    ASSUME NEW r \in Turn, r.open => r.noting
    PROVE  Over(r) \in Turn /\ Answerable(Over(r))
  <1>1. Over(r) \in Turn
    BY DerivedTurns
  <1>2. Answerable(Over(r))
    BY DEF Over, Blank, Turn, Answerable
  <1>3. QED
    BY <1>1, <1>2

LEMMA AskAnswerable ==
    ASSUME TypeOK, AllAnswerable, NEW t \in Asks, AskStep(t)
    PROVE  NewTurn(t)
  <1>0. t \in Turns /\ turn[t] \in Turn /\ Answerable(turn[t])
    BY SlotFacts DEF TypeOK, AllAnswerable
  <1>1. CASE (\E a \in Agents : RunCommand(t, a)) \/ StartTurn(t)
    <2>1. PICK at \in {"telling", "staging"} : Goes(t, at)
      BY <1>1 DEF RunCommand, StartTurn
    <2>2. turn[t].open => turn[t].noting
      BY <1>0, <1>1 DEF RunCommand, StartTurn, TurnComes, At, Answerable
    <2>3. [turn[t] EXCEPT !.pc = at] \in Turn /\ Answerable([turn[t] EXCEPT !.pc = at])
      BY <1>0, <2>2 DEF Turn, PCs, Begun, Working, Answerable
    <2>4. QED
      BY <2>1, <2>3 DEF Goes, NewTurn
  <1>2. CASE BeginAsk(t)
    <2> DEFINE r == [turn[t] EXCEPT !.pc = "queued", !.agent = Routed(turn[t].lane)]
    <2>1. r \in Turn /\ Answerable(r)
      BY <1>0, <1>2, RoutedAgent DEF BeginAsk, At, Turn, PCs, Begun, Answerable
    <2>2. QED
      BY <1>2, <2>1 DEF BeginAsk, NewTurn
  <1>3. CASE FilesStaged(t)
    <2> DEFINE r == [turn[t] EXCEPT !.pc = "asking", !.open = TRUE]
    <2>1. r \in Turn /\ Answerable(r)
      BY <1>0, <1>3 DEF FilesStaged, Turn, PCs, Begun, Working, Answerable
    <2>2. QED
      BY <1>3, <2>1 DEF FilesStaged, NewTurn
  <1>4. CASE ProviderAnswers(t) \/ TurnFails(t)
    <2>1. PICK at \in {"closing", "failing"} : Goes(t, at)
      BY <1>4 DEF ProviderAnswers, TurnFails
    <2>2. [turn[t] EXCEPT !.pc = at] \in Turn /\ Answerable([turn[t] EXCEPT !.pc = at])
      BY <1>0 DEF Turn, PCs, Begun, Working, Answerable
    <2>3. QED
      BY <2>1, <2>2 DEF Goes, NewTurn
  <1>5. CASE RecordAnswer(t)
    <2> DEFINE r == [turn[t] EXCEPT !.pc = "sending", !.open = FALSE, !.answered = TRUE]
    <2>1. r \in Turn /\ Answerable(r)
      BY <1>0 DEF Turn, PCs, Begun, Working, Answerable
    <2>2. QED
      BY <1>5, <2>1 DEF RecordAnswer, NewTurn
  <1>6. CASE \E outcome \in {"timed_out", "failed"} : RecordFailure(t, outcome)
    <2> DEFINE r == [turn[t] EXCEPT !.pc = "replying", !.finished = TRUE, !.open = FALSE]
    <2>1. r \in Turn /\ Answerable(r)
      BY <1>0 DEF Turn, PCs, Begun, Working, Answerable
    <2>2. QED
      BY <1>6, <2>1 DEF RecordFailure, NewTurn
  <1>7. CASE AnswerSent(t)
    <2> DEFINE r == [turn[t] EXCEPT !.finished = TRUE]
    <2>1. r \in Turn /\ (r.open => r.noting)
      BY <1>0, <1>7 DEF AnswerSent, At, Turn, Answerable
    <2> HIDE DEF r
    <2>2. Over(r) \in Turn /\ Answerable(Over(r))
      BY <2>1, OverAnswerable
    <2>3. QED
      BY <1>7, <2>2 DEF AnswerSent, NewTurn, r
  <1>8. CASE CommandTold(t) \/ FailureTold(t) \/ StoppedTurnEnds(t)
    <2>1. turn[t].open => turn[t].noting
      BY <1>0, <1>8 DEF CommandTold, FailureTold, StoppedTurnEnds, At, Answerable
    <2>2. Over(turn[t]) \in Turn /\ Answerable(Over(turn[t]))
      BY <1>0, <2>1, OverAnswerable
    <2>3. QED
      BY <1>8, <2>2 DEF CommandTold, FailureTold, StoppedTurnEnds, EndTurn, NewTurn
  <1>9. QED
    BY <1>1, <1>2, <1>3, <1>4, <1>5, <1>6, <1>7, <1>8 DEF AskStep

LEMMA WakeAnswerable ==
    ASSUME TypeOK, AllAnswerable, NEW w \in Wakes, WakeStep(w)
    PROVE  NewTurn(w)
  <1>0. w \in Turns /\ turn[w] \in Turn /\ Answerable(turn[w])
    BY SlotFacts DEF TypeOK, AllAnswerable
  <1>1. CASE Wake(w)
    <2> DEFINE r == [Blank EXCEPT !.pc = "asking", !.agent = active, !.open = TRUE,
                                  !.lane = IF live THEN lastLane ELSE NoKey]
    <2>1. active \in Agents /\ lastLane \in Lanes
      BY RoutesAssumption DEF TypeOK
    <2>2. r \in Turn /\ Answerable(r)
      BY <2>1 DEF Blank, Turn, PCs, Begun, Working, Answerable
    <2>3. QED
      BY <1>1, <2>2 DEF Wake, NewTurn
  <1>2. CASE WakeReturns(w, "closing") \/ WakeReturns(w, "failing")
    <2>1. PICK at \in {"closing", "failing"} : Goes(w, at)
      BY <1>2 DEF WakeReturns
    <2>2. [turn[w] EXCEPT !.pc = at] \in Turn /\ Answerable([turn[w] EXCEPT !.pc = at])
      BY <1>0 DEF Turn, PCs, Begun, Working, Answerable
    <2>3. QED
      BY <2>1, <2>2 DEF Goes, NewTurn
  <1>3. CASE WakeStopped(w) \/ WakeEnds(w)
    <2>1. turn[w].open => turn[w].noting
      BY <1>0, <1>3 DEF WakeStopped, WakeEnds, At, Answerable
    <2>2. Over(turn[w]) \in Turn /\ Answerable(Over(turn[w]))
      BY <1>0, <2>1, OverAnswerable
    <2>3. QED
      BY <1>3, <2>2 DEF WakeStopped, WakeEnds, NewTurn
  <1>4. ASSUME NEW at, NEW outcome, WakeRecords(w, at, outcome)
        PROVE  NewTurn(w)
    <2> DEFINE r == [turn[w] EXCEPT !.pc = "replying", !.open = FALSE,
                                    !.answered = (outcome = "completed")]
    <2>1. r \in Turn /\ Answerable(r)
      BY <1>0 DEF Turn, PCs, Begun, Working, Answerable
    <2>2. QED
      BY <1>4, <2>1 DEF WakeRecords, NewTurn
  <1>5. QED
    BY <1>1, <1>2, <1>3, <1>4 DEF WakeStep

\* Every step that changes a turn changes one.
LEMMA NextAnswerable ==
    ASSUME TypeOK, AllAnswerable, [Next]_vars
    PROVE  AllAnswerable'
  <1>0. \A t \in Turns : turn[t] \in Turn /\ Answerable(turn[t])
    BY DEF TypeOK, AllAnswerable
  <1>1. ASSUME NEW t \in Turns, NewTurn(t)
        PROVE  AllAnswerable'
    <2>1. PICK r \in Turn : Becomes(t, r) /\ Answerable(r)
      BY <1>1 DEF NewTurn
    <2>2. /\ turn'[t] = r
          /\ \A u \in Turns : u # t => turn'[u] = turn[u]
      BY <2>1, OneSlot
    <2>3. \A u \in Turns : Answerable(turn'[u])
      BY <1>0, <2>1, <2>2
    <2>4. QED
      BY <2>3 DEF AllAnswerable, Answerable
  <1>2. CASE UNCHANGED vars \/ TickClears
    BY <1>2 DEF vars, TickClears, AllAnswerable, Answerable
  <1>3. ASSUME NEW t \in Asks, NEW l \in Lanes, NEW kind \in {"lane", "command"},
               Receive(t, l, kind)
        PROVE  NewTurn(t)
    <2> DEFINE r == [Blank EXCEPT !.pc = kind, !.lane = l]
    <2>1. r \in Turn /\ Answerable(r)
      BY DEF Blank, Turn, PCs, Answerable
    <2>2. QED
      BY <1>3, <2>1 DEF Receive, NewTurn
  <1>4. ASSUME NEW l \in Lanes, StopCommand(l)
        PROVE  activeReq[l] \in Turns /\ NewTurn(activeReq[l])
    <2> DEFINE t == activeReq[l]
               r == [turn[t] EXCEPT !.stopped = TRUE, !.noting = TRUE]
    <2>1. t \in Turns
      BY <1>4 DEF StopCommand, TypeOK
    <2>2. r \in Turn /\ Answerable(r)
      BY <1>0, <2>1 DEF Turn, Answerable
    <2>3. QED
      BY <1>4, <2>1, <2>2 DEF StopCommand, NewTurn
  <1>5. ASSUME NEW t \in Asks \cup Wakes, NoteStop(t)
        PROVE  NewTurn(t)
    <2>1. turn[t] \in Turn
      BY <1>0, SlotFacts
    <2> DEFINE n == [turn[t] EXCEPT !.noting = FALSE, !.open = FALSE, !.finished = TRUE]
    <2>2. n \in Turn /\ ~n.open
      BY <2>1 DEF Turn
    <2>3. Answerable(n)
      BY <2>2 DEF Answerable
    <2>4. Noted(turn[t]) = IF n.pc = "idle" THEN Over(n) ELSE n
      BY DEF Noted
    <2> HIDE DEF n
    <2>5. Noted(turn[t]) \in Turn /\ Answerable(Noted(turn[t]))
      BY <2>2, <2>3, <2>4, OverAnswerable
    <2>6. QED
      BY <1>5, <2>5 DEF NoteStop, NewTurn
  <1>6. ASSUME NEW w \in Webs, NEW a \in Agents, WebSend(w, a)
        PROVE  NewTurn(w)
    <2> DEFINE r == [Blank EXCEPT !.pc = "asking", !.agent = a, !.open = TRUE]
    <2>1. r \in Turn /\ Answerable(r)
      BY DEF Blank, Turn, PCs, Begun, Working, Answerable
    <2>2. QED
      BY <1>6, <2>1 DEF WebSend, NewTurn
  <1>7. ASSUME NEW w \in Webs, WebEnds(w)
        PROVE  NewTurn(w)
    <2>1. Blank \in Turn /\ Answerable(Blank)
      BY DerivedTurns DEF Blank, Answerable
    <2>2. QED
      BY <1>7, <2>1 DEF WebEnds, NewTurn
  <1>8. \A t \in Asks \cup Webs \cup Wakes : t \in Turns
    BY SlotFacts
  <1>9. QED
    BY <1>1, <1>2, <1>3, <1>4, <1>5, <1>6, <1>7, <1>8, AskAnswerable, WakeAnswerable DEF Next

\* No turn is over with its question unanswered and nobody to note it.
THEOREM QuestionsClosed == Spec => []QuestionsAreClosed
  <1>1. Init => AllAnswerable
    BY DEF Init, AllAnswerable, Answerable, Blank
  <1>2. Inv /\ AllAnswerable /\ [Next]_vars => AllAnswerable'
    BY NextAnswerable DEF Inv
  <1>3. AllAnswerable => QuestionsAreClosed
    BY DEF AllAnswerable, Answerable, QuestionsAreClosed, Free, At
  <1>4. QED
    BY <1>1, <1>2, <1>3, QueuesStayWhole, PTL DEF Spec

-----------------------------------------------------------------------------
(***************************************************************************)
(* What a step may never do.                                               *)
(***************************************************************************)
\* No step adds an answer to a stopped turn.
KeepsSilent(t) ==
    \E r \in Turn : Becomes(t, r) /\ (turn[t].stopped /\ r.answered => turn[t].answered)

LEMMA OverSilent ==
    ASSUME NEW r \in Turn
    PROVE  Over(r) \in Turn /\ (Over(r).answered => r.answered)
  <1>1. Over(r).answered => r.answered
    BY DEF Over, Blank, Turn
  <1>2. QED
    BY <1>1, DerivedTurns

LEMMA AskSilent ==
    ASSUME TypeOK, NEW t \in Asks, AskStep(t)
    PROVE  KeepsSilent(t)
  <1>0. t \in Turns /\ turn[t] \in Turn
    BY SlotFacts DEF TypeOK
  <1>1. CASE \/ \E a \in Agents : RunCommand(t, a)
             \/ StartTurn(t) \/ ProviderAnswers(t) \/ TurnFails(t)
    <2>1. PICK at \in PCs : Goes(t, at)
      BY <1>1 DEF RunCommand, StartTurn, ProviderAnswers, TurnFails, PCs, Begun, Working
    <2>2. [turn[t] EXCEPT !.pc = at] \in Turn
      BY <1>0 DEF Turn
    <2>3. [turn[t] EXCEPT !.pc = at].answered = turn[t].answered
      BY <1>0 DEF Turn
    <2>4. QED
      BY <2>1, <2>2, <2>3 DEF Goes, KeepsSilent
  <1>2. CASE BeginAsk(t)
    <2> DEFINE r == [turn[t] EXCEPT !.pc = "queued", !.agent = Routed(turn[t].lane)]
    <2>1. r \in Turn /\ r.answered = turn[t].answered
      BY <1>0, RoutedAgent DEF Turn, PCs, Begun
    <2>2. QED
      BY <1>2, <2>1 DEF BeginAsk, KeepsSilent
  <1>3. CASE FilesStaged(t)
    <2> DEFINE r == [turn[t] EXCEPT !.pc = "asking", !.open = TRUE]
    <2>1. r \in Turn /\ r.answered = turn[t].answered
      BY <1>0 DEF Turn, PCs, Begun, Working
    <2>2. QED
      BY <1>3, <2>1 DEF FilesStaged, KeepsSilent
  <1>4. CASE RecordAnswer(t)
    <2> DEFINE r == [turn[t] EXCEPT !.pc = "sending", !.open = FALSE, !.answered = TRUE]
    <2>1. r \in Turn /\ ~turn[t].stopped
      BY <1>0, <1>4 DEF RecordAnswer, Turn, PCs, Begun, Working
    <2>2. QED
      BY <1>4, <2>1 DEF RecordAnswer, KeepsSilent
  <1>5. CASE \E outcome \in {"timed_out", "failed"} : RecordFailure(t, outcome)
    <2> DEFINE r == [turn[t] EXCEPT !.pc = "replying", !.finished = TRUE, !.open = FALSE]
    <2>1. r \in Turn /\ r.answered = turn[t].answered
      BY <1>0 DEF Turn, PCs, Begun, Working
    <2>2. QED
      BY <1>5, <2>1 DEF RecordFailure, KeepsSilent
  <1>6. CASE AnswerSent(t)
    <2> DEFINE r == [turn[t] EXCEPT !.finished = TRUE]
    <2>1. r \in Turn /\ r.answered = turn[t].answered
      BY <1>0 DEF Turn
    <2> HIDE DEF r
    <2>2. Over(r) \in Turn /\ (Over(r).answered => turn[t].answered)
      BY <2>1, OverSilent
    <2>3. QED
      BY <1>6, <2>2 DEF AnswerSent, KeepsSilent, r
  <1>7. CASE CommandTold(t) \/ FailureTold(t) \/ StoppedTurnEnds(t)
    <2>1. Over(turn[t]) \in Turn /\ (Over(turn[t]).answered => turn[t].answered)
      BY <1>0, OverSilent
    <2>2. QED
      BY <1>7, <2>1 DEF CommandTold, FailureTold, StoppedTurnEnds, EndTurn, KeepsSilent
  <1>8. QED
    BY <1>1, <1>2, <1>3, <1>4, <1>5, <1>6, <1>7 DEF AskStep

LEMMA WakeSilent ==
    ASSUME TypeOK, NEW w \in Wakes, WakeStep(w)
    PROVE  KeepsSilent(w)
  <1>0. w \in Turns /\ turn[w] \in Turn
    BY SlotFacts DEF TypeOK
  <1>1. CASE Wake(w)
    <2> DEFINE r == [Blank EXCEPT !.pc = "asking", !.agent = active, !.open = TRUE,
                                  !.lane = IF live THEN lastLane ELSE NoKey]
    <2>1. active \in Agents /\ lastLane \in Lanes
      BY RoutesAssumption DEF TypeOK
    <2>2. r \in Turn /\ ~r.answered
      BY <2>1 DEF Blank, Turn, PCs, Begun, Working
    <2>3. QED
      BY <1>1, <2>2 DEF Wake, KeepsSilent
  <1>2. CASE WakeReturns(w, "closing") \/ WakeReturns(w, "failing")
    <2>1. PICK at \in {"closing", "failing"} : Goes(w, at)
      BY <1>2 DEF WakeReturns
    <2>2. /\ [turn[w] EXCEPT !.pc = at] \in Turn
          /\ [turn[w] EXCEPT !.pc = at].answered = turn[w].answered
      BY <1>0 DEF Turn, PCs, Begun, Working
    <2>3. QED
      BY <2>1, <2>2 DEF Goes, KeepsSilent
  <1>3. CASE WakeStopped(w) \/ WakeEnds(w)
    <2>1. Over(turn[w]) \in Turn /\ (Over(turn[w]).answered => turn[w].answered)
      BY <1>0, OverSilent
    <2>2. QED
      BY <1>3, <2>1 DEF WakeStopped, WakeEnds, KeepsSilent
  <1>4. ASSUME NEW at, NEW outcome, WakeRecords(w, at, outcome)
        PROVE  KeepsSilent(w)
    <2> DEFINE r == [turn[w] EXCEPT !.pc = "replying", !.open = FALSE,
                                    !.answered = (outcome = "completed")]
    <2>1. r \in Turn /\ ~turn[w].stopped
      BY <1>0, <1>4 DEF WakeRecords, Turn, PCs, Begun, Working
    <2>2. QED
      BY <1>4, <2>1 DEF WakeRecords, KeepsSilent
  <1>5. QED
    BY <1>1, <1>2, <1>3, <1>4 DEF WakeStep

\* A stopped turn adds no answer to the session, wherever the stop met it.
THEOREM StoppedTurnsStaySilent == Spec => StoppedStaysSilent
  <1>1. ASSUME TypeOK, [Next]_vars,
               NEW t \in Asks \cup Wakes, turn[t].stopped, turn'[t].answered
        PROVE  turn[t].answered
    <2>0. t \in Turns /\ \A u \in Turns : turn[u] \in Turn
      BY <1>1, SlotFacts DEF TypeOK
    <2>1. ASSUME NEW u \in Turns, KeepsSilent(u)
          PROVE  turn[t].answered
      <3>1. PICK r \in Turn : Becomes(u, r) /\ (turn[u].stopped /\ r.answered => turn[u].answered)
        BY <2>1 DEF KeepsSilent
      <3>2. /\ turn'[u] = r
            /\ \A v \in Turns : v # u => turn'[v] = turn[v]
        BY <1>1, <3>1, OneSlot
      <3>3. QED
        BY <1>1, <2>0, <3>1, <3>2
    <2>2. CASE UNCHANGED vars \/ TickClears
      BY <1>1, <2>2 DEF vars, TickClears
    <2>3. ASSUME NEW u \in Asks, NEW l \in Lanes, NEW kind \in {"lane", "command"},
                 Receive(u, l, kind)
          PROVE  KeepsSilent(u)
      <3> DEFINE r == [Blank EXCEPT !.pc = kind, !.lane = l]
      <3>1. r \in Turn /\ ~r.answered
        BY DEF Blank, Turn, PCs
      <3>2. QED
        BY <2>3, <3>1 DEF Receive, KeepsSilent
    <2>4. ASSUME NEW l \in Lanes, StopCommand(l)
          PROVE  activeReq[l] \in Turns /\ KeepsSilent(activeReq[l])
      <3> DEFINE u == activeReq[l]
                 r == [turn[u] EXCEPT !.stopped = TRUE, !.noting = TRUE]
      <3>1. u \in Turns
        BY <1>1, <2>4 DEF StopCommand, TypeOK
      <3>2. r \in Turn /\ r.answered = turn[u].answered
        BY <2>0, <3>1 DEF Turn
      <3>3. QED
        BY <2>4, <3>1, <3>2 DEF StopCommand, KeepsSilent
    <2>5. ASSUME NEW u \in Asks \cup Wakes, NoteStop(u)
          PROVE  KeepsSilent(u)
      <3> DEFINE n == [turn[u] EXCEPT !.noting = FALSE, !.open = FALSE, !.finished = TRUE]
      <3>1. turn[u] \in Turn
        BY <2>0, SlotFacts
      <3>2. n \in Turn /\ n.answered = turn[u].answered
        BY <3>1 DEF Turn
      <3>3. Noted(turn[u]) = IF n.pc = "idle" THEN Over(n) ELSE n
        BY DEF Noted
      <3> HIDE DEF n
      <3>4. Noted(turn[u]) \in Turn /\ (Noted(turn[u]).answered => turn[u].answered)
        BY <3>2, <3>3, OverSilent
      <3>5. QED
        BY <2>5, <3>4 DEF NoteStop, KeepsSilent
    <2>6. ASSUME NEW w \in Webs, (\E a \in Agents : WebSend(w, a)) \/ WebEnds(w)
          PROVE  KeepsSilent(w)
      <3>1. Blank \in Turn /\ ~Blank.answered
        BY DerivedTurns DEF Blank
      <3>2. \A a \in Agents :
               LET r == [Blank EXCEPT !.pc = "asking", !.agent = a, !.open = TRUE]
               IN  r \in Turn /\ ~r.answered
        BY DEF Blank, Turn, PCs, Begun, Working
      <3>3. QED
        BY <2>6, <3>1, <3>2 DEF WebSend, WebEnds, KeepsSilent
    <2>7. \A u \in Asks \cup Webs \cup Wakes : u \in Turns
      BY SlotFacts
    <2>8. QED
      BY <1>1, <2>1, <2>2, <2>3, <2>4, <2>5, <2>6, <2>7, AskSilent, WakeSilent DEF Next
  <1>2. TypeOK /\ [Next]_vars
        => [\A t \in Asks \cup Wakes :
               turn[t].stopped /\ turn'[t].answered => turn[t].answered]_vars
    BY <1>1
  <1>3. QED
    BY <1>2, TurnTypes, PTL DEF Spec, StoppedStaysSilent

\* Only a web chat message or a wake-up begins a turn in its slot.
LEMMA Beginners ==
    ASSUME TypeOK, [Next]_vars, NEW w \in Webs \cup Wakes,
           At(w, "idle"), turn'[w].pc # "idle"
    PROVE  (\E a \in Agents : w \in Webs /\ WebSend(w, a)) \/ (w \in Wakes /\ Wake(w))
  <1>0. w \in Turns /\ w \notin Asks /\ \A u \in Turns : turn[u] \in Turn
    BY SlotFacts DEF TypeOK
  <1>1. CASE UNCHANGED vars \/ TickClears
    BY <1>1 DEF vars, TickClears, At
  <1>2. ASSUME NEW u \in Turns, NEW r, Becomes(u, r), u = w => r.pc = "idle"
        PROVE  FALSE
    BY <1>0, <1>2 DEF Becomes, At, TypeOK
  <1>3. ASSUME NEW u \in Asks
        PROVE  /\ \A l \in Lanes, kind \in {"lane", "command"} : ~Receive(u, l, kind)
               /\ ~AskStep(u)
    <2>1. \A r : ~Becomes(u, r)
      BY <1>0, <1>2, SlotFacts
    <2>2. QED
      BY <2>1 DEF Receive, AskStep, RunCommand, CommandTold, BeginAsk, StartTurn, FilesStaged,
             ProviderAnswers, RecordAnswer, AnswerSent, TurnFails, FailureTold, RecordFailure,
             StoppedTurnEnds, EndTurn, Goes
  <1>4. ASSUME NEW l \in Lanes, StopCommand(l)
        PROVE  FALSE
    <2> DEFINE u == activeReq[l]
               r == [turn[u] EXCEPT !.stopped = TRUE, !.noting = TRUE]
    <2>1. u \in Turns /\ Becomes(u, r)
      BY <1>4 DEF StopCommand, TypeOK
    <2>2. u = w => r.pc = "idle"
      BY <1>0 DEF At, Turn
    <2> HIDE DEF r, u
    <2>3. QED
      BY <1>2, <2>1, <2>2
  <1>5. ASSUME NEW u \in Asks \cup Wakes, NoteStop(u)
        PROVE  FALSE
    <2>1. u \in Turns /\ Becomes(u, Noted(turn[u]))
      BY <1>5, SlotFacts DEF NoteStop
    <2>2. u = w => Noted(turn[u]).pc = "idle"
      BY <1>0 DEF Noted, Over, Blank, At, Turn
    <2>3. QED
      BY <1>2, <2>1, <2>2
  <1>6. ASSUME NEW u \in Webs, WebEnds(u)
        PROVE  FALSE
    <2>1. u \in Turns /\ Becomes(u, Blank) /\ Blank.pc = "idle"
      BY <1>6, SlotFacts DEF WebEnds, Blank
    <2>2. QED
      BY <1>2, <2>1
  <1>7. ASSUME NEW u \in Webs, NEW a \in Agents, WebSend(u, a)
        PROVE  u = w
    <2>1. u \in Turns /\ \E r : Becomes(u, r)
      BY <1>7, SlotFacts DEF WebSend
    <2>2. QED
      BY <1>2, <2>1
  <1>8. ASSUME NEW u \in Wakes, WakeStep(u)
        PROVE  u = w /\ Wake(u)
    <2>1. u \in Turns /\ \E r : Becomes(u, r)
      BY <1>8, SlotFacts
      DEF WakeStep, Wake, WakeReturns, WakeStopped, WakeRecords, WakeEnds, Goes
    <2>2. u = w
      BY <1>2, <2>1
    <2>3. QED
      BY <1>8, <2>2 DEF WakeStep, WakeReturns, WakeStopped, WakeRecords, WakeEnds, At
  <1>9. QED
    BY <1>1, <1>3, <1>4, <1>5, <1>6, <1>7, <1>8 DEF Next

\* While the heartbeat is quiet, no web chat turn and no wake-up begins beside a
\* Telegram turn of the same agent.
THEOREM OnlyIdleAgents == Spec => IdleAgentsOnly
  <1>1. ASSUME Inv, StopFindsTurnWhenQuiet, [Next]_vars, ~live,
               NEW w \in Webs \cup Wakes, NEW t \in Asks,
               At(w, "idle"), turn'[w].pc # "idle", turn[t].pc \in Begun
        PROVE  turn[t].agent # turn'[w].agent
    <2>1. /\ activeReq[turn[t].lane] = t /\ turn[t].lane \in Lanes /\ t # NoTask
          /\ \A a : ~BusyOnGateway(a) => turn[t].agent # a
      BY <1>1, SlotFacts DEF StopFindsTurnWhenQuiet, StopFindsTurn, BusyOnGateway, Inv,
                             QueuesHold, Placed, Begun, Working
    <2>2. w \in Turns /\ turn \in [Turns -> Turn]
      BY <1>1, SlotFacts DEF Inv, TypeOK
    <2>3. ASSUME NEW a \in Agents, WebSend(w, a)
          PROVE  turn[t].agent # turn'[w].agent
      <3>1. turn'[w].agent = a
        BY <2>2, <2>3 DEF WebSend, Becomes, Blank
      <3>2. QED
        BY <2>1, <2>3, <3>1 DEF WebSend, BusyForWeb
    <2>4. CASE Wake(w)
      <3>1. turn'[w].agent = active
        BY <2>2, <2>4 DEF Wake, Becomes, Blank
      <3>2. QED
        BY <2>1, <2>4, <3>1 DEF Wake
    <2>5. QED
      BY <1>1, <2>3, <2>4, Beginners DEF Inv
  <1>2. Inv /\ StopFindsTurnWhenQuiet /\ [Next]_vars
        => [~live => \A w \in Webs \cup Wakes, t \in Asks :
               At(w, "idle") /\ turn'[w].pc # "idle" /\ turn[t].pc \in Begun
               => turn[t].agent # turn'[w].agent]_vars
    BY <1>1
  <1>3. QED
    BY <1>2, QueuesStayWhole, StopFindsTurns, PTL DEF Spec, IdleAgentsOnly
=============================================================================
