------------------------ MODULE TelegramPollerProofs ------------------------
(***************************************************************************)
(* Theorems about TelegramPoller, for any gateways and loops, any number   *)
(* of updates and of tokens.                                               *)
(***************************************************************************)
EXTENDS TelegramPoller, TLAPS

-----------------------------------------------------------------------------
(***************************************************************************)
(* What the steps rely on: a loop belongs to a gateway that is not down,   *)
(* and one that may poll again is in that gateway's table.                 *)
(***************************************************************************)
Live(l) == loop[l].running

TypeInv ==
    /\ TypeOK
    /\ \A l \in Loops : loop[l].offset <= sent + 1
    /\ \A l \in Loops :
         /\ loop[l].on = NoGateway => loop[l] = Unused
         /\ loop[l].on # NoGateway => up[loop[l].on] # "down" /\ ~At(l, "ended")
         /\ Live(l) => /\ loop[l].on # NoGateway /\ table[loop[l].on] = l
                       /\ ~At(l, "rejected")
    /\ \A g \in Gateways :
         table[g] # NoLoop => up[g] = "up" /\ (Live(table[g]) \/ At(table[g], "rejected"))

\* All below an offset was taken or passed over.
Behind(n) == n = 0 \/ 1..n-1 \subseteq taken \cup skipped

Accounted ==
    /\ 1..confirmed \subseteq taken \cup skipped
    /\ \A l \in Loops : Behind(loop[l].offset)

\* As long as every loop looked first and gateways did not overlap: one loop is
\* live, one polls, and what was taken is confirmed or behind the live loop.
Alone ==
    ~unsure =>
      /\ \A g, h \in Gateways : up[g] # "down" /\ up[h] # "down" => g = h
      /\ \A l, m \in Loops : Live(l) /\ Live(m) => l = m
      /\ \A l, m \in Loops : At(l, "polling") /\ At(m, "polling") => l = m
      /\ \A l, m \in Loops : Live(l) /\ ~At(l, "priming") /\ At(m, "polling") => l = m
      /\ \A l \in Loops : At(l, "polling") => taken \subseteq 1..confirmed
      /\ \A l \in Loops : Live(l) /\ ~At(l, "priming") =>
           \/ taken \subseteq 1..confirmed
           \/ loop[l].offset > 0 /\ taken \subseteq 1..loop[l].offset-1

PollerInv == TypeInv /\ Accounted /\ Alone /\ ~again

LEMMA UnusedIsLoop == Unused \in Loop
  BY PollerAssumption DEF Unused, Loop, Tokens

\* The invariant holds at first.
LEMMA PollerInit == Init => PollerInv
  <1> SUFFICES ASSUME Init PROVE PollerInv
    OBVIOUS
  <1>1. \A l \in Loops : /\ loop[l] = Unused /\ loop[l].on = NoGateway /\ loop[l].pc = "ended"
                         /\ ~Live(l) /\ loop[l].offset = 0
    BY DEF Init, Unused, Live
  <1>2. TypeOK
    <2>1. /\ env \in [Gateways -> 0..valid] /\ table \in [Gateways -> Loops \cup {NoLoop}]
          /\ loop \in [Loops -> Loop] /\ \A g \in Gateways : table[g] = NoLoop
      BY UnusedIsLoop DEF Init
    <2>2. /\ sent \in 0..MaxUpdates /\ confirmed \in 0..sent /\ valid \in Tokens /\ known \in 0..valid
      BY PollerAssumption DEF Init, Tokens
    <2> QED
      BY <2>1, <2>2 DEF Init, TypeOK
  <1>3. TypeInv
    BY <1>1, <1>2, PollerAssumption DEF TypeInv, Init
  <1>4. Accounted
    BY <1>1 DEF Accounted, Init, Behind
  <1>5. Alone
    BY <1>1 DEF Alone, Init, At
  <1> QED
    BY <1>3, <1>4, <1>5 DEF PollerInv, Init

-----------------------------------------------------------------------------
(***************************************************************************)
(* What an action makes of the loops.                                      *)
(***************************************************************************)
\* A loop that was told to stop keeps the rest; one that was rejected is gone.
LEMMA ToldLoops ==
    ASSUME TypeInv, NEW g \in Gateways
    PROVE  \A m \in Loops :
             /\ Told(g)[m] \in Loop
             /\ \/ Told(g)[m] = loop[m] /\ m # table[g]
                \/ Told(g)[m] = Unused /\ m = table[g]
                \/ /\ m = table[g] /\ loop[m].pc # "rejected"
                   /\ Told(g)[m].on = loop[m].on /\ Told(g)[m].pc = loop[m].pc
                   /\ Told(g)[m].offset = loop[m].offset /\ ~Told(g)[m].running
  <1> TAKE m \in Loops
  <1>1. loop[m] \in Loop /\ loop \in [Loops -> Loop] /\ table[g] \in Loops \cup {NoLoop}
    BY DEF TypeInv, TypeOK
  <1>2. CASE table[g] = NoLoop
    BY <1>1, <1>2, PollerAssumption DEF Told
  <1>3. CASE table[g] # NoLoop
    <2>1. Told(g)[m] = IF m # table[g] THEN loop[m]
                       ELSE IF loop[m].pc = "rejected" THEN Unused
                       ELSE [loop[m] EXCEPT !.running = FALSE]
      BY <1>1, <1>3 DEF Told
    <2>2. /\ [loop[m] EXCEPT !.running = FALSE] \in Loop
          /\ [loop[m] EXCEPT !.running = FALSE].on = loop[m].on
          /\ [loop[m] EXCEPT !.running = FALSE].pc = loop[m].pc
          /\ [loop[m] EXCEPT !.running = FALSE].offset = loop[m].offset
          /\ ~[loop[m] EXCEPT !.running = FALSE].running
      BY <1>1 DEF Loop
    <2> QED
      BY <1>1, <2>1, <2>2, UnusedIsLoop
  <1> QED
    BY <1>2, <1>3

\* Bringing a gateway's loop in line leaves it, ends it, or starts another.
Synced(g) ==
    \/ UNCHANGED <<table, loop>>
    \/ /\ table' = [table EXCEPT ![g] = NoLoop]
       /\ loop' = Told(g)
    \/ \E l \in Loops, token \in Tokens :
         /\ Spare(l)
         /\ table' = [table EXCEPT ![g] = l]
         /\ loop' = [Told(g) EXCEPT ![l] = Started(g, token)]

LEMMA SyncIsSynced ==
    ASSUME TypeInv, NEW g \in Gateways, NEW token \in 0..valid, SyncLoops(g, token)
    PROVE  Synced(g)
  <1>1. CASE InLine(g, token)
    BY <1>1 DEF SyncLoops, Synced
  <1>2. CASE ~InLine(g, token) /\ Pollable(token)
    <2>1. token \in Tokens
      BY <1>2, PollerAssumption DEF Pollable, TypeInv, TypeOK, Tokens
    <2> QED
      BY <1>2, <2>1 DEF SyncLoops, Synced
  <1>3. CASE ~InLine(g, token) /\ ~Pollable(token)
    BY <1>3 DEF SyncLoops, Synced
  <1> QED
    BY <1>1, <1>2, <1>3

\* The long polls that a request cuts short sleep; nothing else changes.
LEMMA CutLoops ==
    ASSUME TypeInv, NEW l \in Loops
    PROVE  \A m \in Loops :
             /\ CutBy(l)[m] \in Loop
             /\ CutBy(l)[m].on = loop[m].on /\ CutBy(l)[m].running = loop[m].running
             /\ CutBy(l)[m].offset = loop[m].offset /\ CutBy(l)[m].token = loop[m].token
             /\ m = l => CutBy(l)[m] = loop[m]
             /\ m # l => CutBy(l)[m].pc = IF At(m, "polling") THEN "sleeping" ELSE loop[m].pc
  BY DEF TypeInv, TypeOK, CutBy, Polling, At, Loop

\* A loop goes on: at most its place and offset change, and the long polls of
\* others may be cut.
GoesOn(l) ==
    /\ loop' \in [Loops -> Loop]
    /\ loop[l].pc \in {"priming", "top", "polling", "sleeping"}
    /\ loop'[l].pc \in {"top", "polling", "sleeping"}
    /\ \A m \in Loops : /\ loop'[m].on = loop[m].on /\ loop'[m].running = loop[m].running
                        /\ m # l => \/ loop'[m] = loop[m]
                                    \/ /\ At(m, "polling") /\ loop'[m].pc = "sleeping"
                                       /\ loop'[m].offset = loop[m].offset

LEMMA GoesGoesOn ==
    ASSUME TypeInv, NEW l \in Loops, NEW pc \in {"top", "polling", "sleeping"}, Goes(l, pc),
           loop[l].pc \in {"priming", "top", "polling", "sleeping"}
    PROVE  GoesOn(l) /\ loop'[l].offset = loop[l].offset /\ loop'[l].pc = pc
           /\ \A m \in Loops \ {l} : loop'[m] = loop[m]
  BY DEF TypeInv, TypeOK, Goes, GoesOn, Loop

LEMMA RequestGoesOn ==
    ASSUME TypeInv, NEW l \in Loops, NEW pc \in {"top", "polling"}, NEW n \in 0..MaxUpdates+1,
           loop[l].pc \in {"priming", "top"},
           \/ loop' = [CutBy(l) EXCEPT ![l].pc = pc, ![l].offset = n]
           \/ loop' = [CutBy(l) EXCEPT ![l].pc = pc] /\ n = loop[l].offset
    PROVE  /\ GoesOn(l) /\ loop'[l].pc = pc /\ loop'[l].offset = n
           /\ \A m \in Loops \ {l} : loop'[m].pc # "polling"
  <1>1. CutBy(l) \in [Loops -> Loop] /\ CutBy(l)[l] = loop[l] /\ loop[l] \in Loop
    <2>1. CutBy(l) = [m \in Loops |-> CutBy(l)[m]]
      BY DEF CutBy
    <2> QED
      BY <2>1, CutLoops DEF TypeInv, TypeOK
  <1>2. /\ [loop[l] EXCEPT !.pc = pc, !.offset = n] \in Loop
        /\ [loop[l] EXCEPT !.pc = pc, !.offset = n].on = loop[l].on
        /\ [loop[l] EXCEPT !.pc = pc, !.offset = n].running = loop[l].running
        /\ [loop[l] EXCEPT !.pc = pc, !.offset = n].pc = pc
        /\ [loop[l] EXCEPT !.pc = pc, !.offset = n].offset = n
        /\ n = loop[l].offset =>
             [loop[l] EXCEPT !.pc = pc] = [loop[l] EXCEPT !.pc = pc, !.offset = n]
    BY <1>1 DEF Loop
  <1>3. \A m \in Loops : loop'[m] = IF m = l THEN [loop[l] EXCEPT !.pc = pc, !.offset = n]
                                             ELSE CutBy(l)[m]
    BY <1>1, <1>2
  <1>4. loop' \in [Loops -> Loop]
    BY <1>1, <1>2, <1>3
  <1>5. \A m \in Loops \ {l} : At(m, "polling") \/ CutBy(l)[m] = loop[m]
    BY DEF CutBy, Polling
  <1>6. \A m \in Loops \ {l} :
          /\ CutBy(l)[m].on = loop[m].on /\ CutBy(l)[m].running = loop[m].running
          /\ CutBy(l)[m].pc = IF At(m, "polling") THEN "sleeping" ELSE loop[m].pc
          /\ CutBy(l)[m].offset = loop[m].offset
    BY CutLoops
  <1>7. /\ loop'[l].pc = pc /\ loop'[l].offset = n
        /\ loop'[l].on = loop[l].on /\ loop'[l].running = loop[l].running
    BY <1>2, <1>3
  <1>8. ASSUME NEW m \in Loops \ {l}
        PROVE  /\ loop'[m].on = loop[m].on /\ loop'[m].running = loop[m].running
               /\ loop'[m].pc # "polling"
               /\ \/ loop'[m] = loop[m]
                  \/ /\ At(m, "polling") /\ loop'[m].pc = "sleeping"
                     /\ loop'[m].offset = loop[m].offset
    BY <1>3, <1>5, <1>6 DEF At
  <1> QED
    BY <1>4, <1>7, <1>8 DEF GoesOn

\* The part of TypeInv about loops and tables, of given values.
Owned(lp, t, u) ==
    /\ lp \in [Loops -> Loop]
    /\ t \in [Gateways -> Loops \cup {NoLoop}]
    /\ u \in [Gateways -> {"down", "up", "closing"}]
    /\ \A m \in Loops :
         /\ lp[m].on = NoGateway => lp[m] = Unused
         /\ lp[m].on # NoGateway => u[lp[m].on] # "down" /\ lp[m].pc # "ended"
         /\ lp[m].running => /\ lp[m].on # NoGateway /\ t[lp[m].on] = m
                             /\ lp[m].pc # "rejected"
    /\ \A g \in Gateways :
         t[g] # NoLoop => /\ lp[t[g]].on = g /\ u[g] = "up"
                          /\ lp[t[g]].running \/ lp[t[g]].pc = "rejected"

\* The rest.
Counts ==
    /\ sent \in 0..MaxUpdates /\ confirmed \in 0..sent
    /\ valid \in Tokens /\ known \in 0..valid
    /\ env \in [Gateways -> 0..valid]
    /\ enabled \in BOOLEAN
    /\ taken \subseteq 1..sent /\ skipped \subseteq 1..sent
    /\ again \in BOOLEAN /\ unsure \in BOOLEAN

Offsets(lp, n) == \A m \in Loops : lp[m].offset <= n + 1

LEMMA TypeInvParts == TypeInv <=> Counts /\ Owned(loop, table, up) /\ Offsets(loop, sent)
  BY DEF TypeInv, TypeOK, Counts, Owned, Offsets, Live, At

LEMMA TypeInvNext == Counts' /\ Owned(loop', table', up') /\ Offsets(loop', sent') => TypeInv'
  BY DEF TypeInv, TypeOK, Counts, Owned, Offsets, Live, At

\* A loop that goes on stays its gateway's.
LEMMA GoesOnKeeps ==
    ASSUME TypeInv, NEW l \in Loops, GoesOn(l), UNCHANGED <<up, table>>
    PROVE  Owned(loop', table', up')
  <1> Owned(loop, table, up)
    BY TypeInvParts
  <1>1. \A m \in Loops : loop'[m].on = loop[m].on /\ loop'[m].running = loop[m].running
    BY DEF GoesOn
  <1>2. loop[l].on # NoGateway /\ loop[l].pc # "rejected" /\ loop'[l].pc \notin {"ended", "rejected"}
    BY DEF GoesOn, Owned, Unused
  <1>3. \A m \in Loops : \/ m = l \/ loop'[m] = loop[m]
                         \/ loop[m].pc = "polling" /\ loop'[m].pc = "sleeping"
    BY DEF GoesOn, At
  <1>4. ASSUME NEW m \in Loops
        PROVE  /\ loop'[m].on = NoGateway => loop'[m] = Unused
               /\ loop'[m].on # NoGateway => up'[loop'[m].on] # "down" /\ loop'[m].pc # "ended"
               /\ loop'[m].running => /\ loop'[m].on # NoGateway /\ table'[loop'[m].on] = m
                                      /\ loop'[m].pc # "rejected"
    <2>1. loop[m].pc = "polling" => loop[m].on # NoGateway
      BY DEF Owned, Unused
    <2> QED
      BY <1>1, <1>2, <1>3, <2>1 DEF Owned
  <1>5. ASSUME NEW g \in Gateways, table[g] # NoLoop
        PROVE  /\ loop'[table[g]].on = g /\ up'[g] = "up"
               /\ loop'[table[g]].running \/ loop'[table[g]].pc = "rejected"
    <2>1. table[g] \in Loops /\ loop[table[g]].on = g
          /\ up[g] = "up" /\ (loop[table[g]].running \/ loop[table[g]].pc = "rejected")
      BY <1>5 DEF Owned
    <2> QED
      BY <1>1, <1>2, <1>3, <2>1
  <1>6. loop' \in [Loops -> Loop]
    BY DEF GoesOn
  <1> QED
    BY <1>4, <1>5, <1>6 DEF Owned

\* So does one that ends by itself.
LEMMA EndingKeeps ==
    ASSUME TypeInv, NEW l \in Loops, LoopEnds(l) \/ Rejected(l)
    PROVE  Owned(loop', table', up')
  <1> Owned(loop, table, up)
    BY TypeInvParts
  <1>1. loop[l] \in Loop /\ loop[l].on # NoGateway
    BY DEF LoopEnds, Rejected, At, Owned, Unused
  <1>2. CASE LoopEnds(l)
    <2>1. ~loop[l].running /\ loop[l].pc = "top" /\ loop' = [loop EXCEPT ![l] = Unused]
          /\ table' = table /\ up' = up
      BY <1>2 DEF LoopEnds, At
    <2>2. \A g \in Gateways : table[g] # l
      BY <2>1, PollerAssumption DEF Owned
    <2> QED
      BY <2>1, <2>2, UnusedIsLoop DEF Owned, Unused
  <1>3. CASE Rejected(l)
    <2> DEFINE r == [loop[l] EXCEPT !.running = FALSE, !.pc = "rejected", !.offset = 0]
    <2>1. loop' = [loop EXCEPT ![l] = r] /\ table' = table /\ up' = up
      BY <1>3 DEF Rejected
    <2>2. r \in Loop /\ r.on = loop[l].on /\ ~r.running /\ r.pc = "rejected"
      <3>1. 0 \in 0..MaxUpdates+1
        BY PollerAssumption
      <3> QED
        BY <1>1, <3>1 DEF Loop
    <2> HIDE DEF r
    <2> QED
      BY <1>1, <2>1, <2>2 DEF Owned
  <1> QED
    BY <1>2, <1>3

\* A gateway that is up may bring its loop in line.
LEMMA SyncKeeps ==
    ASSUME TypeInv, NEW g \in Gateways, Synced(g), up' = [up EXCEPT ![g] = "up"]
    PROVE  Owned(loop', table', up')
  <1> Owned(loop, table, up)
    BY TypeInvParts
  <1>1. CASE UNCHANGED <<table, loop>>
    BY <1>1 DEF Owned
  <1>2. \A h \in Gateways : h # g /\ table[h] # NoLoop =>
          table[h] \in Loops /\ table[h] # table[g] /\ Told(g)[table[h]] = loop[table[h]]
    BY ToldLoops, PollerAssumption DEF Owned
  <1>3. \A m \in Loops :
          /\ Told(g)[m].on = NoGateway => Told(g)[m] = Unused
          /\ Told(g)[m].on # NoGateway => /\ up'[Told(g)[m].on] # "down"
                                          /\ Told(g)[m].pc # "ended"
          /\ Told(g)[m].running => /\ Told(g)[m].on \notin {NoGateway, g}
                                   /\ table[Told(g)[m].on] = m
                                   /\ Told(g)[m].pc # "rejected"
    <2> TAKE m \in Loops
    <2>1. loop[m] \in Loop /\ loop[m].on \in Gateways \cup {NoGateway}
      BY DEF Owned, Loop
    <2>2. CASE Told(g)[m] = loop[m] /\ m # table[g]
      BY <2>1, <2>2 DEF Owned
    <2>3. CASE Told(g)[m] = Unused
      BY <2>3 DEF Unused
    <2>4. CASE /\ m = table[g] /\ Told(g)[m].on = loop[m].on /\ Told(g)[m].pc = loop[m].pc
               /\ ~Told(g)[m].running
      BY <2>1, <2>4, PollerAssumption DEF Owned
    <2> QED
      BY <2>2, <2>3, <2>4, ToldLoops
  <1>4. Told(g) \in [Loops -> Loop]
    <2>1. Told(g) = [m \in Loops |-> Told(g)[m]]
      BY DEF Told, Owned
    <2> QED
      BY <2>1, ToldLoops
  <1>5. CASE table' = [table EXCEPT ![g] = NoLoop] /\ loop' = Told(g)
    BY <1>2, <1>3, <1>4, <1>5 DEF Owned
  <1>6. ASSUME NEW l \in Loops, NEW token \in Tokens, Spare(l),
               table' = [table EXCEPT ![g] = l],
               loop' = [Told(g) EXCEPT ![l] = Started(g, token)]
        PROVE  Owned(loop', table', up')
    <2> DEFINE r == Started(g, token)
    <2>1. r \in Loop /\ r.on = g /\ r.pc = "priming" /\ r.running
      BY PollerAssumption DEF Started, Loop
    <2>2. \A h \in Gateways : table[h] # l
      BY <1>6 DEF Spare
    <2> HIDE DEF r
    <2>3. loop' \in [Loops -> Loop] /\ loop'[l] = r
          /\ \A m \in Loops \ {l} : loop'[m] = Told(g)[m]
      BY <1>4, <1>6, <2>1 DEF r
    <2>4. table' \in [Gateways -> Loops \cup {NoLoop}] /\ table'[g] = l
          /\ \A h \in Gateways \ {g} : table'[h] = table[h]
      BY <1>6 DEF Owned
    <2>5. up' \in [Gateways -> {"down", "up", "closing"}] /\ up'[g] = "up"
          /\ \A h \in Gateways \ {g} : up'[h] = up[h]
      BY DEF Owned
    <2>6. ASSUME NEW m \in Loops
          PROVE  /\ loop'[m].on = NoGateway => loop'[m] = Unused
                 /\ loop'[m].on # NoGateway => up'[loop'[m].on] # "down" /\ loop'[m].pc # "ended"
                 /\ loop'[m].running => /\ loop'[m].on # NoGateway /\ table'[loop'[m].on] = m
                                        /\ loop'[m].pc # "rejected"
      <3>1. CASE m = l
        BY <2>1, <2>3, <2>4, <2>5, <3>1, PollerAssumption
      <3>2. CASE m # l
        <4>1. loop'[m] = Told(g)[m] /\ loop'[m].on \in Gateways \cup {NoGateway}
          BY <2>3, <3>2, <1>4 DEF Loop
        <4> QED
          BY <1>3, <2>4, <4>1
      <3> QED
        BY <3>1, <3>2
    <2>7. ASSUME NEW h \in Gateways, table'[h] # NoLoop
          PROVE  /\ loop'[table'[h]].on = h /\ up'[h] = "up"
                 /\ loop'[table'[h]].running \/ loop'[table'[h]].pc = "rejected"
      <3>1. CASE h = g
        BY <2>1, <2>3, <2>4, <2>5, <3>1
      <3>2. CASE h # g
        <4>1. table'[h] = table[h] /\ table[h] \in Loops \ {l} /\ loop'[table[h]] = loop[table[h]]
          BY <1>2, <2>2, <2>3, <2>4, <2>7, <3>2
        <4> QED
          BY <2>5, <2>7, <3>2, <4>1 DEF Owned
      <3> QED
        BY <3>1, <3>2
    <2> QED
      BY <2>3, <2>4, <2>5, <2>6, <2>7 DEF Owned
  <1> QED
    BY <1>1, <1>5, <1>6 DEF Synced

\* An action of a loop that goes on is the step of one.
LEMMA LoopGoesOn ==
    ASSUME TypeInv, NEW l \in Loops,
           \/ Primed(l) \/ Poll(l) \/ Answered(l) \/ NothingNew(l) \/ PollFails(l) \/ Wakes(l)
    PROVE  /\ GoesOn(l) /\ loop'[l].offset \in {0, sent + 1, loop[l].offset}
           /\ UNCHANGED <<sent, valid, registry, up, table>>
  <1>1. sent + 1 \in 0..MaxUpdates+1 /\ 0 \in 0..MaxUpdates+1
        /\ loop[l].offset \in 0..MaxUpdates+1 /\ loop \in [Loops -> Loop]
    BY PollerAssumption DEF TypeInv, TypeOK, Loop
  <1>2. CASE Primed(l)
    <2>1. CASE loop' = [CutBy(l) EXCEPT ![l].pc = "top",
                                        ![l].offset = IF Waiting = {} THEN 0 ELSE sent + 1]
      BY <1>1, <1>2, <2>1, RequestGoesOn DEF Primed, At, telegram
    <2>2. CASE Goes(l, "top")
      BY <1>2, <2>2, GoesGoesOn DEF Primed, At, telegram
    <2> QED
      BY <1>2, <2>1, <2>2 DEF Primed
  <1>3. CASE Poll(l)
    <2>1. CASE loop' = [CutBy(l) EXCEPT ![l].pc = "polling"]
      BY <1>1, <1>3, <2>1, RequestGoesOn DEF Poll, At
    <2>2. CASE Goes(l, "sleeping")
      BY <1>3, <2>2, GoesGoesOn DEF Poll, At
    <2> QED
      BY <1>3, <2>1, <2>2 DEF Poll
  <1>4. CASE Answered(l)
    <2> DEFINE r == [loop[l] EXCEPT !.pc = "top", !.offset = sent + 1]
    <2>1. loop' = [loop EXCEPT ![l] = r] /\ loop[l].pc = "polling"
      BY <1>4 DEF Answered, At
    <2>2. r \in Loop /\ r.on = loop[l].on /\ r.running = loop[l].running /\ r.pc = "top"
          /\ r.offset = sent + 1
      BY <1>1 DEF Loop
    <2> HIDE DEF r
    <2> QED
      BY <1>1, <1>4, <2>1, <2>2 DEF Answered, GoesOn, telegram
  <1>5. CASE NothingNew(l) \/ PollFails(l) \/ Wakes(l)
    BY <1>5, GoesGoesOn DEF NothingNew, PollFails, Wakes, At, telegram
  <1> QED
    BY <1>2, <1>3, <1>4, <1>5

-----------------------------------------------------------------------------
(***************************************************************************)
(* Type correctness.                                                       *)
(***************************************************************************)
GoingOn(l) ==
    \/ Primed(l) \/ Poll(l) \/ Answered(l) \/ NothingNew(l) \/ PollFails(l) \/ Wakes(l)

LEMMA LoopKeepsTypes ==
    ASSUME TypeInv, NEW l \in Loops, LoopStep(l) \/ PollFails(l)
    PROVE  TypeInv'
  <1> Counts /\ Owned(loop, table, up) /\ Offsets(loop, sent)
    BY TypeInvParts
  <1>1. CASE GoingOn(l)
    <2>1. /\ GoesOn(l) /\ loop'[l].offset \in {0, sent + 1, loop[l].offset}
          /\ UNCHANGED <<sent, valid, registry, up, table>>
      BY <1>1, LoopGoesOn DEF GoingOn
    <2>2. Owned(loop', table', up')
      BY <2>1, GoesOnKeeps
    <2>3. confirmed' \in 0..sent
      <3>1. loop[l].offset \in 0..sent+1
        BY PollerAssumption DEF Owned, Loop, Offsets
      <3>2. CASE Poll(l)
        BY <3>1, <3>2, PollerAssumption DEF Poll, Counts
      <3> QED
        BY <1>1, <3>2 DEF GoingOn, Primed, Answered, NothingNew, PollFails, Wakes, telegram, Counts
    <2>4. /\ taken' \subseteq 1..sent /\ skipped' \subseteq 1..sent
          /\ again' \in BOOLEAN /\ unsure' \in BOOLEAN
      <3>1. Waiting \subseteq 1..sent
        BY DEF Waiting, Counts
      <3> QED
        BY <1>1, <3>1 DEF GoingOn, Primed, Poll, Answered, NothingNew, PollFails, Wakes, history, Counts
    <2>5. Offsets(loop', sent)
      BY <2>1, PollerAssumption DEF Offsets, GoesOn, Counts
    <2> QED
      BY <2>1, <2>2, <2>3, <2>4, <2>5, TypeInvNext DEF Counts, registry
  <1>2. CASE LoopEnds(l) \/ Rejected(l)
    <2>1. Owned(loop', table', up')
      BY <1>2, EndingKeeps
    <2>2. Offsets(loop', sent)
      <3>1. /\ \A m \in Loops \ {l} : loop'[m] = loop[m]
            /\ loop'[l].offset = 0
        <4>1. loop[l] \in Loop /\ loop \in [Loops -> Loop] /\ Unused.offset = 0
          BY DEF Owned, Unused
        <4>2. [[loop[l] EXCEPT !.running = FALSE] EXCEPT !.pc = "rejected", !.offset = 0].offset = 0
          BY <4>1 DEF Loop
        <4>3. CASE LoopEnds(l)
          BY <4>1, <4>3 DEF LoopEnds
        <4>4. CASE Rejected(l)
          BY <4>1, <4>2, <4>4 DEF Rejected, Loop
        <4> QED
          BY <1>2, <4>3, <4>4
      <3>2. 0 <= sent + 1
        BY PollerAssumption DEF Counts
      <3> QED
        BY <3>1, <3>2 DEF Offsets
    <2> QED
      BY <1>2, <2>1, <2>2, TypeInvNext DEF LoopEnds, Rejected, telegram, registry, history, Counts
  <1> QED
    BY <1>1, <1>2 DEF LoopStep, GoingOn

\* Shutdown tells its gateway's loops to stop, and ProcessEnds ends them.
LEMMA GoneKeeps ==
    ASSUME TypeInv, NEW g \in Gateways, Shutdown(g) \/ ProcessEnds(g)
    PROVE  /\ Owned(loop', table', up')
           /\ \A m \in Loops :
                \/ loop'[m] = Unused
                \/ loop[m].on # g /\ loop'[m] = loop[m]
                \/ /\ Shutdown(g) /\ loop[m].on = g
                   /\ loop'[m] = [loop[m] EXCEPT !.running = FALSE]
  <1> Owned(loop, table, up)
    BY TypeInvParts
  <1>1. table' = [table EXCEPT ![g] = NoLoop] /\ up'[g] \in {"closing", "down"}
        /\ up' \in [Gateways -> {"down", "up", "closing"}]
        /\ \A h \in Gateways \ {g} : up'[h] = up[h]
    BY DEF Shutdown, ProcessEnds, Owned
  <1>2. \A m \in Loops :
          \/ loop'[m] = Unused
          \/ loop[m].on # g /\ loop'[m] = loop[m]
          \/ /\ Shutdown(g) /\ up'[g] = "closing" /\ loop[m].on = g
             /\ loop'[m] = [loop[m] EXCEPT !.running = FALSE]
    <2> TAKE m \in Loops
    <2>1. CASE Shutdown(g)
      <3>1. loop'[m] = IF loop[m].on # g THEN loop[m] ELSE IF At(m, "rejected") THEN Unused
                       ELSE [loop[m] EXCEPT !.running = FALSE]
        BY <2>1 DEF Shutdown
      <3>2. up'[g] = "closing"
        BY <2>1 DEF Shutdown, Owned
      <3> QED
        BY <2>1, <3>1, <3>2
    <2>2. CASE ProcessEnds(g)
      <3>1. loop'[m] = IF loop[m].on = g THEN Unused ELSE loop[m]
        BY <2>2 DEF ProcessEnds
      <3> QED
        BY <3>1
    <2> QED
      BY <2>1, <2>2
  <1>3. \A m \in Loops : loop[m] \in Loop
    BY DEF Owned
  <1>4. ASSUME NEW m \in Loops
        PROVE  LET r == [loop[m] EXCEPT !.running = FALSE]
               IN  r \in Loop /\ r.on = loop[m].on /\ r.pc = loop[m].pc /\ ~r.running
    BY <1>3 DEF Loop
  <1>5. loop' \in [Loops -> Loop]
    <2>1. loop' = [m \in Loops |-> loop'[m]]
      BY DEF Shutdown, ProcessEnds
    <2> QED
      BY <1>2, <1>3, <1>4, <2>1, UnusedIsLoop
  <1>6. ASSUME NEW m \in Loops
        PROVE  /\ loop'[m].on = NoGateway => loop'[m] = Unused
               /\ loop'[m].on # NoGateway => up'[loop'[m].on] # "down" /\ loop'[m].pc # "ended"
               /\ loop'[m].running => /\ loop'[m].on # NoGateway /\ table'[loop'[m].on] = m
                                      /\ loop'[m].pc # "rejected"
    <2>1. CASE loop'[m] = Unused
      BY <2>1 DEF Unused
    <2>2. CASE loop[m].on # g /\ loop'[m] = loop[m]
      <3>1. loop[m].on \in Gateways \cup {NoGateway}
        BY <1>3 DEF Loop
      <3> QED
        BY <1>1, <2>2, <3>1 DEF Owned
    <2>3. CASE /\ up'[g] = "closing" /\ loop[m].on = g
               /\ loop'[m] = [loop[m] EXCEPT !.running = FALSE]
      BY <1>4, <2>3, PollerAssumption DEF Owned
    <2> QED
      BY <1>2, <2>1, <2>2, <2>3
  <1>7. ASSUME NEW h \in Gateways, table'[h] # NoLoop
        PROVE  /\ loop'[table'[h]].on = h /\ up'[h] = "up"
               /\ loop'[table'[h]].running \/ loop'[table'[h]].pc = "rejected"
    <2>1. h # g /\ table'[h] = table[h] /\ table[h] \in Loops /\ loop[table[h]].on = h
      BY <1>1, <1>7 DEF Owned
    <2>2. loop'[table[h]] = loop[table[h]]
      <3>1. loop[table[h]].on # g
        BY <2>1
      <3> QED
        BY <2>1, <3>1 DEF Shutdown, ProcessEnds
    <2> QED
      BY <1>1, <1>7, <2>1, <2>2 DEF Owned
  <1>8. table' \in [Gateways -> Loops \cup {NoLoop}]
    BY <1>1 DEF Owned
  <1>9. Owned(loop', table', up')
    BY <1>1, <1>5, <1>6, <1>7, <1>8 DEF Owned
  <1> QED
    BY <1>2, <1>9

\* No gateway moves the offset of a loop but to forget it.
LEMMA GatewayOffsets ==
    ASSUME TypeInv, NEW g \in Gateways,
           GatewayStarts(g) \/ Refresh(g) \/ Shutdown(g) \/ ProcessEnds(g)
    PROVE  \A m \in Loops : loop'[m].offset = loop[m].offset \/ loop'[m].offset = 0
  <1> Counts /\ Owned(loop, table, up)
    BY TypeInvParts
  <1>1. CASE GatewayStarts(g) \/ Refresh(g)
    <2>1. Synced(g)
      BY <1>1, SyncIsSynced DEF GatewayStarts, Refresh, Counts
    <2>2. \A m \in Loops : Told(g)[m].offset = loop[m].offset \/ Told(g)[m].offset = 0
      BY ToldLoops DEF Unused
    <2>3. Told(g) = [m \in Loops |-> Told(g)[m]]
      BY DEF Told, Owned
    <2> QED
      BY <2>1, <2>2, <2>3 DEF Synced, Started
  <1>2. CASE Shutdown(g) \/ ProcessEnds(g)
    <2>1. \A m \in Loops : \/ loop'[m] = Unused \/ loop'[m] = loop[m]
                            \/ loop'[m] = [loop[m] EXCEPT !.running = FALSE]
      BY <1>2, GoneKeeps
    <2>2. \A m \in Loops : [loop[m] EXCEPT !.running = FALSE].offset = loop[m].offset
      BY DEF Owned, Loop
    <2>3. Unused.offset = 0
      BY DEF Unused
    <2> QED
      BY <2>1, <2>2, <2>3
  <1> QED
    BY <1>1, <1>2

LEMMA GatewayKeepsTypes ==
    ASSUME TypeInv, NEW g \in Gateways,
           GatewayStarts(g) \/ Refresh(g) \/ Shutdown(g) \/ ProcessEnds(g)
    PROVE  TypeInv'
  <1> Counts /\ Owned(loop, table, up) /\ Offsets(loop, sent)
    BY TypeInvParts
  <1>1. Counts'
    <2>1. UNCHANGED <<sent, confirmed, valid, known, enabled, taken, skipped, again>>
      BY DEF GatewayStarts, Refresh, Shutdown, ProcessEnds, telegram, registry, history
    <2>2. env' \in [Gateways -> 0..valid]
      <3>1. known \in 0..valid /\ 0 \in 0..valid
        BY PollerAssumption DEF Counts, Tokens
      <3> QED
        BY <3>1 DEF GatewayStarts, Refresh, Shutdown, ProcessEnds, registry, Counts
    <2>3. unsure' \in BOOLEAN
      BY DEF GatewayStarts, Refresh, Shutdown, ProcessEnds, history, Counts
    <2> QED
      BY <2>1, <2>2, <2>3 DEF Counts
  <1>2. sent' = sent
    BY DEF GatewayStarts, Refresh, Shutdown, ProcessEnds, telegram
  <1>3. 0 <= sent + 1
    BY PollerAssumption DEF Counts
  <1>4. CASE GatewayStarts(g) \/ Refresh(g)
    <2>1. Synced(g)
      BY <1>4, SyncIsSynced DEF GatewayStarts, Refresh, Counts
    <2>2. up' = [up EXCEPT ![g] = "up"]
      BY <1>4 DEF GatewayStarts, Refresh, Owned
    <2> QED
      BY <1>1, <1>2, <1>3, <2>1, <2>2, GatewayOffsets, SyncKeeps, TypeInvNext DEF Offsets
  <1>5. CASE Shutdown(g) \/ ProcessEnds(g)
    BY <1>1, <1>2, <1>3, <1>5, GatewayOffsets, GoneKeeps, TypeInvNext DEF Offsets
  <1> QED
    BY <1>4, <1>5

LEMMA TypeStep == TypeInv /\ [Next]_vars => TypeInv'
  <1> SUFFICES ASSUME TypeInv, [Next]_vars PROVE TypeInv'
    OBVIOUS
  <1> Counts /\ Owned(loop, table, up) /\ Offsets(loop, sent)
    BY TypeInvParts
  <1>1. CASE Send \/ SetEnabled \/ Revoke \/ EnterToken \/ UNCHANGED vars
    <2>1. UNCHANGED <<up, table, loop>>
      BY <1>1 DEF Send, SetEnabled, Revoke, EnterToken, vars
    <2>2. Counts' /\ sent' \in {sent, sent + 1}
      <3>1. CASE Send
        <4>1. /\ sent' = sent + 1 /\ sent' \in 0..MaxUpdates
              /\ 0..sent \subseteq 0..sent' /\ 1..sent \subseteq 1..sent'
          BY <3>1, PollerAssumption DEF Send, Counts
        <4>2. UNCHANGED <<confirmed, valid, known, enabled, env, taken, skipped, again, unsure>>
          BY <3>1 DEF Send, registry, history
        <4> QED
          BY <4>1, <4>2 DEF Counts
      <3>2. CASE SetEnabled \/ EnterToken
        <4>1. UNCHANGED <<sent, confirmed, valid, env, taken, skipped, again, unsure>>
          BY <3>2 DEF SetEnabled, EnterToken, telegram, history
        <4>2. known' \in 0..valid
          BY <3>2, PollerAssumption DEF SetEnabled, EnterToken, Counts, Tokens
        <4>3. enabled' \in BOOLEAN
          BY <3>2 DEF SetEnabled, EnterToken, Counts
        <4> QED
          BY <4>1, <4>2, <4>3 DEF Counts
      <3>3. CASE Revoke
        BY <3>3, PollerAssumption DEF Revoke, Counts, registry, history, Tokens
      <3>4. CASE UNCHANGED vars
        BY <3>4 DEF vars, telegram, registry, history, Counts
      <3> QED
        BY <1>1, <3>1, <3>2, <3>3, <3>4
    <2>3. Offsets(loop, sent')
      <3>1. \A m \in Loops : loop[m].offset \in Nat
        BY PollerAssumption DEF Owned, Loop
      <3> QED
        BY <2>2, <3>1, PollerAssumption DEF Offsets, Counts
    <2> QED
      BY <2>1, <2>2, <2>3, TypeInvNext
  <1>2. CASE \E g \in Gateways :
               GatewayStarts(g) \/ Refresh(g) \/ Shutdown(g) \/ ProcessEnds(g)
    BY <1>2, GatewayKeepsTypes
  <1>3. CASE \E l \in Loops : LoopStep(l) \/ PollFails(l)
    BY <1>3, LoopKeepsTypes
  <1> QED
    BY <1>1, <1>2, <1>3 DEF Next

\* Every state the poller reaches is well typed.
THEOREM PollerTypes == Spec => []TypeOK
  <1>1. TypeInv => TypeOK
    BY DEF TypeInv
  <1>2. Init => TypeInv
    BY PollerInit DEF PollerInv
  <1> QED
    BY <1>1, <1>2, TypeStep, PTL DEF Spec

-----------------------------------------------------------------------------
(***************************************************************************)
(* Nothing is forgotten: an offset passes what was dispatched or passed    *)
(* over, and only an offset confirms.                                      *)
(***************************************************************************)
LEMMA AccountedStep == TypeInv /\ Accounted /\ [Next]_vars => Accounted'
  <1> SUFFICES ASSUME TypeInv, Accounted, [Next]_vars PROVE Accounted'
    OBVIOUS
  <1> DEFINE done == taken \cup skipped
  <1> Counts /\ Owned(loop, table, up) /\ Offsets(loop, sent)
    BY TypeInvParts
  <1>1. \A l \in Loops : loop[l].offset \in 0..sent+1 /\ Behind(loop[l].offset)
    BY PollerAssumption DEF Owned, Loop, Offsets, Accounted
  \* It is enough that nothing done is undone, and how the numbers move.
  <1>2. ASSUME done \subseteq done',
               confirmed' = confirmed
                 \/ \E l \in Loops : loop[l].offset > 0 /\ confirmed' = loop[l].offset - 1,
               \A m \in Loops : \/ loop'[m].offset \in {0, loop[m].offset}
                                \/ loop'[m].offset = sent + 1 /\ 1..sent \subseteq done'
        PROVE  Accounted'
    <2>1. 1..confirmed' \subseteq done'
      BY <1>1, <1>2 DEF Accounted, Behind
    <2>2. ASSUME NEW m \in Loops
          PROVE  loop'[m].offset = 0 \/ 1..loop'[m].offset-1 \subseteq done'
      <3>1. sent \in Nat /\ 1..(sent + 1)-1 = 1..sent
        BY DEF Counts
      <3> QED
        BY <1>1, <1>2, <3>1 DEF Behind
    <2> QED
      BY <2>1, <2>2 DEF Accounted, Behind
  <1>3. CASE Send \/ SetEnabled \/ Revoke \/ EnterToken \/ UNCHANGED vars
    BY <1>2, <1>3 DEF Send, SetEnabled, Revoke, EnterToken, vars, telegram, history
  <1>4. ASSUME NEW g \in Gateways,
               GatewayStarts(g) \/ Refresh(g) \/ Shutdown(g) \/ ProcessEnds(g)
        PROVE  Accounted'
    <2>1. UNCHANGED <<confirmed, taken, skipped>>
      BY <1>4 DEF GatewayStarts, Refresh, Shutdown, ProcessEnds, telegram, history
    <2> QED
      BY <1>2, <1>4, <2>1, GatewayOffsets
  <1>5. ASSUME NEW l \in Loops, LoopEnds(l) \/ Rejected(l)
        PROVE  Accounted'
    <2>1. UNCHANGED <<confirmed, taken, skipped>>
      BY <1>5 DEF LoopEnds, Rejected, telegram, history
    <2>2. \A m \in Loops : loop'[m].offset \in {0, loop[m].offset}
      <3>1. loop[l] \in Loop /\ loop \in [Loops -> Loop] /\ Unused.offset = 0
        BY DEF Owned, Unused
      <3>2. CASE LoopEnds(l)
        BY <3>1, <3>2 DEF LoopEnds
      <3>3. CASE Rejected(l)
        BY <3>1, <3>3 DEF Rejected, Loop
      <3> QED
        BY <1>5, <3>2, <3>3
    <2> QED
      BY <1>2, <2>1, <2>2
  <1>6. ASSUME NEW l \in Loops, GoingOn(l)
        PROVE  Accounted'
    <2>1. /\ loop'[l].offset \in {0, sent + 1, loop[l].offset}
          /\ \A m \in Loops \ {l} : loop'[m].offset = loop[m].offset
      BY <1>6, LoopGoesOn DEF GoingOn, GoesOn
    <2>2. done \subseteq done'
      BY <1>6 DEF GoingOn, Primed, Poll, Answered, NothingNew, PollFails, Wakes, history
    <2>3. confirmed' = confirmed \/ (loop[l].offset > 0 /\ confirmed' = loop[l].offset - 1)
      <3>1. CASE Poll(l)
        BY <1>1, <3>1 DEF Poll, Counts
      <3> QED
        BY <1>6, <3>1 DEF GoingOn, Primed, Answered, NothingNew, PollFails, Wakes, telegram
    <2>4. loop'[l].offset = sent + 1 => 1..sent \subseteq done' \/ loop'[l].offset = loop[l].offset
      <3>1. 1..sent = 1..confirmed \cup Waiting
        BY DEF Waiting, Counts
      <3>2. 1..confirmed \subseteq done
        BY DEF Accounted
      <3>3. CASE Primed(l) /\ skipped' = skipped \cup (Waiting \ taken)
        BY <2>2, <3>1, <3>2, <3>3 DEF Primed
      <3>4. CASE Primed(l) /\ Goes(l, "top")
        BY <3>4, GoesGoesOn DEF Primed, At
      <3>5. CASE Answered(l)
        BY <2>2, <3>1, <3>2, <3>5 DEF Answered
      <3>6. CASE NothingNew(l) \/ PollFails(l) \/ Wakes(l)
        BY <3>6, GoesGoesOn DEF NothingNew, PollFails, Wakes, At
      <3>7. CASE Poll(l) /\ Goes(l, "sleeping")
        BY <3>7, GoesGoesOn DEF Poll, At
      <3>8. CASE Poll(l) /\ loop' = [CutBy(l) EXCEPT ![l].pc = "polling"]
        <4>1. loop[l].offset \in 0..MaxUpdates+1 /\ loop[l].pc = "top"
          BY <3>8 DEF Poll, At, Owned, Loop
        <4> QED
          BY <3>8, <4>1, RequestGoesOn
      <3> QED
        BY <1>6, <3>3, <3>4, <3>5, <3>6, <3>7, <3>8 DEF GoingOn, Primed, Poll
    <2> QED
      BY <1>2, <2>1, <2>2, <2>3, <2>4
  <1> QED
    BY <1>3, <1>4, <1>5, <1>6 DEF Next, LoopStep, GoingOn

\* Telegram forgets an update only after it was dispatched, or passed over by a
\* loop that began while it waited, whatever gateways and loops do, however
\* many there are, and whenever they end.
THEOREM ForgottenUpdatesWereTaken == Spec => []ForgottenWasTaken
  <1>1. Accounted => ForgottenWasTaken
    BY DEF Accounted, ForgottenWasTaken
  <1>2. Init => TypeInv /\ Accounted
    BY PollerInit DEF PollerInv
  <1> QED
    BY <1>1, <1>2, TypeStep, AccountedStep, PTL DEF Spec

-----------------------------------------------------------------------------
(***************************************************************************)
(* Nothing is taken twice, as long as the loops are alone.                 *)
(***************************************************************************)
Ready(lp, m) == lp[m].running /\ lp[m].pc # "priming"

Reached(l) ==
    \/ taken \subseteq 1..confirmed
    \/ loop[l].offset > 0 /\ taken \subseteq 1..loop[l].offset-1

LEMMA AloneParts ==
    Alone <=>
      (~unsure =>
        /\ \A g, h \in Gateways : up[g] # "down" /\ up[h] # "down" => g = h
        /\ \A l, m \in Loops : loop[l].running /\ loop[m].running => l = m
        /\ \A l, m \in Loops : loop[l].pc = "polling" /\ loop[m].pc = "polling" => l = m
        /\ \A l, m \in Loops : Ready(loop, l) /\ loop[m].pc = "polling" => l = m
        /\ \A l \in Loops : loop[l].pc = "polling" => taken \subseteq 1..confirmed
        /\ \A l \in Loops : Ready(loop, l) => Reached(l))
  BY DEF Alone, Live, At, Ready, Reached

LEMMA AloneNext ==
    ASSUME ~unsure' =>
        /\ \A g, h \in Gateways : up'[g] # "down" /\ up'[h] # "down" => g = h
        /\ \A l, m \in Loops : loop'[l].running /\ loop'[m].running => l = m
        /\ \A l, m \in Loops : loop'[l].pc = "polling" /\ loop'[m].pc = "polling" => l = m
        /\ \A l, m \in Loops : Ready(loop', l) /\ loop'[m].pc = "polling" => l = m
        /\ \A l \in Loops : loop'[l].pc = "polling" => taken' \subseteq 1..confirmed'
        /\ \A l \in Loops : Ready(loop', l) =>
             \/ taken' \subseteq 1..confirmed'
             \/ loop'[l].offset > 0 /\ taken' \subseteq 1..loop'[l].offset-1
    PROVE  Alone'
  BY DEF Alone, Live, At, Ready

\* A step that brings no gateway up, no loop to life and no long poll about.
LEMMA ShrinkingKeepsAlone ==
    ASSUME Alone, UNCHANGED <<taken, confirmed>>, unsure => unsure',
           \A g \in Gateways : up'[g] # "down" => up[g] # "down",
           \A m \in Loops :
             /\ loop'[m].running => loop[m].running
             /\ loop'[m].pc = "polling" => loop[m].pc = "polling"
             /\ Ready(loop', m) => Ready(loop, m) /\ loop'[m].offset = loop[m].offset
    PROVE  Alone'
  BY AloneParts, AloneNext DEF Reached

LEMMA GatewayKeepsAlone ==
    ASSUME TypeInv, Alone, NEW g \in Gateways,
           GatewayStarts(g) \/ Refresh(g) \/ Shutdown(g) \/ ProcessEnds(g)
    PROVE  Alone'
  <1> Counts /\ Owned(loop, table, up) /\ Offsets(loop, sent)
    BY TypeInvParts
  <1>1. UNCHANGED <<taken, confirmed>> /\ (unsure => unsure')
    <2>1. UNCHANGED <<taken, confirmed>>
      BY DEF GatewayStarts, Refresh, Shutdown, ProcessEnds, telegram, history
    <2>2. CASE GatewayStarts(g)
      <3>1. unsure' = (unsure \/ \E h \in Gateways : up[h] # "down")
        BY <2>2 DEF GatewayStarts
      <3> QED
        BY <2>1, <3>1
    <2>3. CASE Refresh(g) \/ Shutdown(g) \/ ProcessEnds(g)
      <3>1. unsure' = unsure
        BY <2>3 DEF Refresh, Shutdown, ProcessEnds, history
      <3> QED
        BY <2>1, <3>1
    <2> QED
      BY <2>2, <2>3
  <1>2. CASE Shutdown(g) \/ ProcessEnds(g)
    <2>1. \A h \in Gateways : up'[h] # "down" => up[h] # "down"
      BY <1>2 DEF Shutdown, ProcessEnds, Owned
    <2>2. \A m \in Loops : \/ loop'[m] = Unused \/ loop'[m] = loop[m]
                            \/ loop'[m] = [loop[m] EXCEPT !.running = FALSE]
      BY <1>2, GoneKeeps
    <2>3. \A m \in Loops : /\ ~[loop[m] EXCEPT !.running = FALSE].running
                           /\ [loop[m] EXCEPT !.running = FALSE].pc = loop[m].pc
      BY DEF Owned, Loop
    <2>4. \A m \in Loops :
            /\ loop'[m].running => loop[m].running
            /\ loop'[m].pc = "polling" => loop[m].pc = "polling"
            /\ Ready(loop', m) => Ready(loop, m) /\ loop'[m].offset = loop[m].offset
      <3> TAKE m \in Loops
      <3>1. CASE loop'[m] = Unused
        BY <3>1 DEF Ready, Unused
      <3>2. CASE loop'[m] = loop[m]
        BY <3>2 DEF Ready
      <3>3. CASE loop'[m] = [loop[m] EXCEPT !.running = FALSE]
        <4>1. ~loop'[m].running /\ loop'[m].pc = loop[m].pc
          BY <2>3, <3>3
        <4> QED
          BY <4>1 DEF Ready
      <3> QED
        BY <2>2, <3>1, <3>2, <3>3
    <2> QED
      BY <1>1, <2>1, <2>4, ShrinkingKeepsAlone
  <1>3. CASE GatewayStarts(g) \/ Refresh(g)
    <2> SUFFICES ASSUME ~unsure' PROVE Alone'
      BY DEF Alone
    <2>1. Synced(g) /\ up' = [up EXCEPT ![g] = "up"]
      BY <1>3, SyncIsSynced DEF GatewayStarts, Refresh, Counts, Owned
    <2>2. \A h \in Gateways : up[h] # "down" => h = g
      <3>1. CASE GatewayStarts(g)
        BY <3>1 DEF GatewayStarts
      <3>2. CASE Refresh(g)
        BY <1>1, <3>2 DEF Refresh, Alone
      <3> QED
        BY <1>3, <3>1, <3>2
    <2>3. \A m \in Loops : loop[m].running => m = table[g]
      <3> TAKE m \in Loops
      <3> HAVE loop[m].running
      <3>1. loop[m].on \in Gateways /\ table[loop[m].on] = m /\ up[loop[m].on] # "down"
        BY DEF Owned, Loop
      <3> QED
        BY <2>2, <3>1
    <2>4. \A m \in Loops :
            /\ ~Told(g)[m].running
            /\ Told(g)[m].pc = "polling" => loop[m].pc = "polling"
      BY <2>3, ToldLoops DEF Unused
    <2>5. \A h \in Gateways : up'[h] # "down" => h = g
      BY <2>1, <2>2 DEF Owned
    <2>6. CASE loop' = loop
      <3>1. CASE ~unsure
        BY <1>1, <2>5, <2>6, <3>1, AloneParts, AloneNext DEF Reached
      <3> QED
        BY <1>1, <3>1
    <2>7. CASE loop' = Told(g)
      BY <1>1, <2>4, <2>5, <2>7, AloneParts, AloneNext DEF Ready
    <2>8. ASSUME NEW l \in Loops, NEW token \in Tokens,
                 loop' = [Told(g) EXCEPT ![l] = Started(g, token)]
          PROVE  Alone'
      <3>1. DOMAIN Told(g) = Loops
        BY DEF Told, Owned
      <3>2. /\ loop'[l].running /\ loop'[l].pc = "priming"
            /\ \A m \in Loops \ {l} : loop'[m] = Told(g)[m]
        BY <2>8, <3>1 DEF Started
      <3>3. \A m \in Loops : /\ ~Ready(loop', m)
                             /\ loop'[m].running => m = l
                             /\ loop'[m].pc = "polling" => loop[m].pc = "polling"
        BY <2>4, <3>2 DEF Ready
      <3> QED
        BY <1>1, <2>5, <3>3, AloneParts, AloneNext
    <2> QED
      BY <2>1, <2>6, <2>7, <2>8 DEF Synced
  <1> QED
    BY <1>2, <1>3

\* A loop that looks, polls or is answered: what it takes is behind it.
LEMMA RequestKeepsAlone ==
    ASSUME TypeInv, Alone, ~again, NEW l \in Loops, Primed(l) \/ Poll(l) \/ Answered(l)
    PROVE  Alone' /\ ~again'
  <1> Counts /\ Owned(loop, table, up) /\ Offsets(loop, sent)
    BY TypeInvParts
  <1>1. /\ \A m \in Loops : loop'[m].running = loop[m].running
        /\ \A m \in Loops \ {l} :
             /\ loop'[m].offset = loop[m].offset
             /\ loop'[m] = loop[m] \/ (loop[m].pc = "polling" /\ loop'[m].pc = "sleeping")
        /\ up' = up /\ sent' = sent
    <2>1. GoesOn(l) /\ UNCHANGED <<sent, up>>
      BY LoopGoesOn
    <2> QED
      BY <2>1 DEF GoesOn, At
  <1>2. \A m \in Loops \ {l} : /\ Ready(loop', m) => Ready(loop, m)
                               /\ loop'[m].pc = "polling" => loop[m].pc = "polling"
    BY <1>1 DEF Ready
  <1>3. sent \in Nat /\ confirmed \in 0..sent /\ 1..(sent + 1)-1 = 1..sent /\ taken \subseteq 1..sent
        /\ loop[l].offset \in 0..MaxUpdates+1
    BY DEF Counts, Owned, Loop
  <1>4. CASE Primed(l)
    <2> SUFFICES ASSUME ~unsure' PROVE Alone' /\ ~again'
      BY <1>4 DEF Alone, Primed
    <2>1. /\ loop' = [CutBy(l) EXCEPT ![l].pc = "top",
                                      ![l].offset = IF Waiting = {} THEN 0 ELSE sent + 1]
          /\ loop[l].pc = "priming" /\ ~unsure
          /\ UNCHANGED <<confirmed, taken, again>>
      BY <1>4 DEF Primed, At, telegram
    <2>2. (IF Waiting = {} THEN 0 ELSE sent + 1) \in 0..MaxUpdates+1
      BY PollerAssumption DEF Counts
    <2>3. /\ loop'[l].pc = "top" /\ loop'[l].offset = IF Waiting = {} THEN 0 ELSE sent + 1
          /\ \A m \in Loops \ {l} : loop'[m].pc # "polling"
      BY <2>1, <2>2, RequestGoesOn
    <2>4. \/ taken \subseteq 1..confirmed
          \/ loop'[l].offset > 0 /\ taken \subseteq 1..loop'[l].offset-1
      <3>1. CASE Waiting = {}
        BY <1>3, <3>1 DEF Waiting
      <3>2. CASE Waiting # {}
        BY <1>3, <2>3, <3>2
      <3> QED
        BY <3>1, <3>2
    <2>5. \A m \in Loops : loop'[m].pc # "polling"
      BY <2>3
    <2>6. Alone'
      BY <1>1, <1>2, <2>1, <2>4, <2>5, AloneParts, AloneNext DEF Reached
    <2> QED
      BY <2>1, <2>6
  <1>5. CASE Poll(l)
    <2>1. /\ loop[l].pc = "top" /\ loop[l].running /\ Ready(loop, l)
          /\ unsure' = unsure /\ again' = again /\ taken' = taken
      BY <1>5 DEF Poll, At, history, Ready
    <2>2. CASE unsure
      BY <2>1, <2>2 DEF Alone
    <2>3. CASE ~unsure
      <3>1. \A m \in Loops : loop[m].pc # "polling"
        BY <2>1, <2>3, AloneParts
      <3>2. loop' = [CutBy(l) EXCEPT ![l].pc = "polling"]
        BY <1>5, <3>1 DEF Poll, Polling, At
      <3>3. loop'[l].pc = "polling" /\ \A m \in Loops \ {l} : loop'[m].pc # "polling"
        BY <1>3, <2>1, <3>2, RequestGoesOn
      <3>4. Reached(l)
        BY <2>1, <2>3, AloneParts
      <3>5. taken \subseteq 1..confirmed'
        BY <1>3, <1>5, <3>4 DEF Poll, Reached
      <3>6. \A m \in Loops : loop[m].running => m = l
        BY <2>1, <2>3, AloneParts
      <3>7. \A g, h \in Gateways : up[g] # "down" /\ up[h] # "down" => g = h
        BY <2>3 DEF Alone
      <3> QED
        BY <1>1, <2>1, <3>3, <3>5, <3>6, <3>7, AloneNext DEF Ready
    <2> QED
      BY <2>2, <2>3
  <1>6. CASE Answered(l)
    <2>1. /\ loop[l].pc = "polling" /\ unsure' = unsure /\ taken' = taken \cup Waiting
          /\ confirmed' = confirmed
          /\ again' = (again \/ (~unsure /\ Waiting \cap taken # {}))
          /\ loop' = [loop EXCEPT ![l].pc = "top", ![l].offset = sent + 1]
      BY <1>6 DEF Answered, At, telegram
    <2>2. CASE unsure
      BY <2>1, <2>2 DEF Alone
    <2>3. CASE ~unsure
      <3>1. taken \subseteq 1..confirmed /\ \A m \in Loops \ {l} : loop[m].pc # "polling"
        BY <2>1, <2>3, AloneParts
      <3>2. ~again'
        <4>1. Waiting \cap taken = {}
          BY <1>3, <3>1 DEF Waiting
        <4> QED
          BY <2>1, <4>1
      <3>3. loop'[l].pc = "top" /\ loop'[l].offset = sent + 1
        BY <2>1 DEF Owned, Loop
      <3>4. \A m \in Loops : loop'[m].pc # "polling"
        BY <1>2, <3>1, <3>3
      <3>5. \A m \in Loops : Ready(loop', m) => m = l
        BY <1>2, <2>1, <2>3, AloneParts
      <3>6. taken' \subseteq 1..sent
        BY <1>3, <2>1 DEF Waiting
      <3>7. Alone'
        <4>1. loop'[l].offset > 0 /\ taken' \subseteq 1..loop'[l].offset-1
          BY <1>3, <3>3, <3>6
        <4>2. \A i, j \in Loops : loop'[i].running /\ loop'[j].running => i = j
          BY <1>1, <2>3, AloneParts
        <4>3. \A g, h \in Gateways : up'[g] # "down" /\ up'[h] # "down" => g = h
          BY <1>1, <2>3, AloneParts
        <4>4. \A i \in Loops : Ready(loop', i) =>
                loop'[i].offset > 0 /\ taken' \subseteq 1..loop'[i].offset-1
          BY <3>5, <4>1
        <4> QED
          BY <3>4, <4>2, <4>3, <4>4, AloneNext
      <3> QED
        BY <3>2, <3>7
    <2> QED
      BY <2>2, <2>3
  <1> QED
    BY <1>4, <1>5, <1>6

LEMMA AloneStep == TypeInv /\ Alone /\ ~again /\ [Next]_vars => Alone' /\ ~again'
  <1> SUFFICES ASSUME TypeInv, Alone, ~again, [Next]_vars PROVE Alone' /\ ~again'
    OBVIOUS
  <1> Counts /\ Owned(loop, table, up) /\ Offsets(loop, sent)
    BY TypeInvParts
  <1>1. CASE Send \/ SetEnabled \/ Revoke \/ EnterToken \/ UNCHANGED vars
    <2>1. UNCHANGED <<confirmed, taken, again, unsure, up, loop>>
      BY <1>1 DEF Send, SetEnabled, Revoke, EnterToken, vars, telegram, history
    <2> QED
      BY <2>1, ShrinkingKeepsAlone DEF Ready
  <1>2. ASSUME NEW g \in Gateways,
               GatewayStarts(g) \/ Refresh(g) \/ Shutdown(g) \/ ProcessEnds(g)
        PROVE  Alone' /\ ~again'
    <2>1. again' = again
      BY <1>2 DEF GatewayStarts, Refresh, Shutdown, ProcessEnds, history
    <2> QED
      BY <1>2, <2>1, GatewayKeepsAlone
  <1>3. ASSUME NEW l \in Loops, Primed(l) \/ Poll(l) \/ Answered(l)
        PROVE  Alone' /\ ~again'
    BY <1>3, RequestKeepsAlone
  <1>4. ASSUME NEW l \in Loops,
               LoopEnds(l) \/ Rejected(l) \/ NothingNew(l) \/ PollFails(l) \/ Wakes(l)
        PROVE  Alone' /\ ~again'
    <2>1. UNCHANGED <<confirmed, taken, again, unsure, up>>
      BY <1>4 DEF LoopEnds, Rejected, NothingNew, PollFails, Wakes, telegram, history
    <2>2. /\ \A m \in Loops \ {l} : loop'[m] = loop[m]
          /\ \/ ~loop'[l].running /\ loop'[l].pc # "polling"
             \/ /\ loop'[l].running = loop[l].running /\ loop'[l].offset = loop[l].offset
                /\ loop[l].pc # "priming" /\ loop'[l].pc # "polling"
      <3>1. loop \in [Loops -> Loop] /\ loop[l] \in Loop
        BY DEF Owned
      <3>2. CASE LoopEnds(l)
        BY <3>1, <3>2 DEF LoopEnds, Unused
      <3>3. CASE Rejected(l)
        BY <3>1, <3>3 DEF Rejected, Loop
      <3>4. CASE NothingNew(l) \/ PollFails(l) \/ Wakes(l)
        BY <3>1, <3>4 DEF NothingNew, PollFails, Wakes, At, Goes, Loop
      <3> QED
        BY <1>4, <3>2, <3>3, <3>4
    <2> QED
      BY <2>1, <2>2, ShrinkingKeepsAlone DEF Ready
  <1> QED
    BY <1>1, <1>2, <1>3, <1>4 DEF Next, LoopStep

\* No update is dispatched twice, however loops are stopped, started and killed,
\* as long as every loop began with its look at what was waiting and gateways
\* polled one at a time.
THEOREM UpdatesAreTakenOnce == Spec => []TakenOnce
  <1>1. Init => TypeInv /\ Alone /\ ~again
    BY PollerInit DEF PollerInv
  <1> QED
    BY <1>1, TypeStep, AloneStep, PTL DEF Spec, TakenOnce
=============================================================================
