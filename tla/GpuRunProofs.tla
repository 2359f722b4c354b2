---------------------------- MODULE GpuRunProofs ----------------------------
(***************************************************************************)
(* Theorems about GpuRun, for any runs submitted at one time, any commands *)
(* that look at them, fetch and cancel them, and any pods.                 *)
(***************************************************************************)
EXTENDS GpuRun, TLAPS

-----------------------------------------------------------------------------
(***************************************************************************)
(* What a status, carried or on disk, says of the job j of its run, and of *)
(* the pod p the run took, NoPod before it took one.                       *)
(***************************************************************************)
Finished == {"cancelled", "timed_out"}

Knows(s, j, m) ==
    /\ s.exit # "none" => s.exit = j.is
    /\ s.launched => j.is # "none"
    /\ s.state = "completed" => j.is = "ok"
    /\ s.state = "failed" /\ s.launched /\ ~m => j.is # "running"
    /\ s.state \in Finished /\ s.launched /\ ~m => j.is \notin Alive

Podless == {"none", "provisioning", "failed", "cancelled"}

Names(s, p) ==
    /\ s.pod \in {NoPod, p}
    /\ s.pod = NoPod => ~s.launched /\ s.state \in Podless

Taking == {"starting", "started", "created"}      \* carries a pod that is not recorded
Early == Taking \cup {"listing", "creating"}      \* before the pod is recorded
Unlaunched == Early \cup {"ssh", "syncing", "boot", "booted", "launch"}

\* What worker w is at, x, beside its run's pod p, status d on disk and job j.
Carries(w, x, p, d, j, m) ==
    x.pc # "idle" =>
      /\ d.state # "none"
      /\ w \in Commands => x.pc \notin Unlaunched \cup {"waiting"} /\ x.op # "start"
      /\ x.pc # "waiting" => x.st.state # "none"
      /\ x.pc \in Early => /\ p = NoPod /\ x.st.state = "provisioning"
                           /\ x.pc \in Taking <=> x.st.pod # NoPod
      /\ x.pc \in Unlaunched => j.is = "none" /\ x.st.state \notin Terminal
      /\ x.pc \notin Early => Names(x.st, p)
      /\ x.pc \notin Early \cup {"waiting", "record"} => x.st.pod # NoPod
      /\ x.op = "fetch" \/ x.pc = "fetch" => x.st.exit # "none" \/ m
      /\ Knows(x.st, j, m)

\* What is on disk of a run.
Written(d, p, j, m) ==
    /\ Knows(d, j, m) /\ Names(d, p)
    /\ d.state = "none" => d = NoStatus /\ j.is = "none" /\ p = NoPod

Placed(h) == \A r \in Runs : proc[r].is \in Alive =>
    proc[r].on \in Pods /\ pod[proc[r].on] = "running" /\ proc[r].on = h[r]

\* What holds when h is the pod that every run took.
Held(h) ==
    /\ h \in [Runs -> Pods \cup {NoPod}]
    /\ TypeOK
    /\ \A w \in Workers : LET r == at[w].run IN
         Carries(w, at[w], h[r], disk[r], proc[r], misled[r])
    /\ \A r \in Runs : Written(disk[r], h[r], proc[r], misled[r])
    /\ Placed(h)

Inv == \E h \in [Runs -> Pods \cup {NoPod}] : Held(h)

-----------------------------------------------------------------------------
(* What a job may come to beside a worker that does not move.               *)
Follows(j, k) ==
    \/ k = j
    \/ j.is = "running" /\ k.is \in {"orphan", "ok", "bad", "killed"}
    \/ j.is = "orphan" /\ k.is = "killed"

LEMMA KnowsOn ==
    ASSUME NEW s \in Status, NEW j, NEW k, NEW m \in BOOLEAN, NEW n \in BOOLEAN, m => n,
           Knows(s, j, m), Follows(j, k) \/ j.is = "none"
    PROVE  Knows(s, k, n)
  <1>1. CASE k = j
    BY <1>1 DEF Knows
  <1>2. CASE j.is = "running" /\ k.is \in {"orphan", "ok", "bad", "killed"}
    BY <1>2 DEF Knows, Status, Alive
  <1>3. CASE j.is = "orphan" /\ k.is = "killed"
    BY <1>3 DEF Knows, Status, Alive
  <1>4. CASE j.is = "none"
    BY <1>4 DEF Knows, Status
  <1> QED
    BY <1>1, <1>2, <1>3, <1>4 DEF Follows

LEMMA CarriesOn ==
    ASSUME NEW w, NEW x \in Worker, NEW p, NEW q, NEW d, NEW e, NEW j, NEW k,
           NEW m \in BOOLEAN, NEW n \in BOOLEAN, m => n,
           Carries(w, x, p, d, j, m),
           Follows(j, k) \/ (j.is = "none" /\ x.pc \notin Unlaunched),
           e.state # "none" \/ e = d,
           q = p \/ (p = NoPod /\ x.pc \notin Early)
    PROVE  Carries(w, x, q, e, k, n)
  <1> SUFFICES ASSUME x.pc # "idle" PROVE Carries(w, x, q, e, k, n)
    BY DEF Carries
  <1> x.st \in Status
    BY DEF Worker
  <1>1. Knows(x.st, k, n)
    BY KnowsOn DEF Carries
  <1>2. /\ e.state # "none"
        /\ w \in Commands => x.pc \notin Unlaunched \cup {"waiting"} /\ x.op # "start"
        /\ x.pc # "waiting" => x.st.state # "none"
        /\ x.pc \in Early => /\ q = NoPod /\ x.st.state = "provisioning"
                             /\ x.pc \in Taking <=> x.st.pod # NoPod
        /\ x.pc \notin Early \cup {"waiting", "record"} => x.st.pod # NoPod
    BY DEF Carries
  <1>3. x.pc \in Unlaunched => k.is = "none" /\ x.st.state \notin Terminal
    BY DEF Carries, Follows
  <1>4. x.op = "fetch" \/ x.pc = "fetch" => x.st.exit # "none" \/ n
    BY DEF Carries
  <1>5. x.pc \notin Early => Names(x.st, q)
    BY DEF Carries, Names
  <1> QED
    BY <1>1, <1>2, <1>3, <1>4, <1>5 DEF Carries

LEMMA WrittenOn ==
    ASSUME NEW d \in Status, NEW p, NEW j, NEW k, NEW m \in BOOLEAN, NEW n \in BOOLEAN, m => n,
           Written(d, p, j, m), Follows(j, k)
    PROVE  Written(d, p, k, n)
  BY KnowsOn DEF Written, Follows

-----------------------------------------------------------------------------
(***************************************************************************)
(* A step of one worker.  It leaves the runs' pods as they are, h, or      *)
(* takes one for a run of its own that has none, g.                        *)
(***************************************************************************)
Moves(w, x, r, d) ==
    /\ at' = [at EXCEPT ![w] = x]
    /\ disk' = [disk EXCEPT ![r] = d]

\* The pods, the jobs and the rest after a step have their types.
WorldOK ==
    /\ pod' \in [Pods -> {"absent", "running", "exited", "lost"}]
    /\ proc' \in [Runs -> Job]
    /\ sshUp' \in BOOLEAN /\ late' \in [Runs -> BOOLEAN] /\ misled' \in [Runs -> BOOLEAN]
    /\ \A r \in Runs : misled[r] => misled'[r]

\* A worker may record what it carries.
MayMove(w, x, r, d) ==
    /\ x \in Worker /\ d \in Status /\ r \in Runs
    /\ x.run = r \/ x.pc = "idle"
    /\ w \in Runs => x.run = w /\ x.op = "start"
    /\ d.state # "none" \/ d = disk[r]

LEMMA MoveStep ==
    ASSUME NEW h, Held(h), NEW w \in Workers, NEW x, NEW u, NEW d,
           Moves(w, x, u, d), MayMove(w, x, u, d),
           WorldOK,
           \A r \in Runs : Follows(proc[r], proc'[r])
                             \/ (r = u /\ r = w /\ proc[r].is = "none"),
           NEW g \in [Runs -> Pods \cup {NoPod}],
           \A r \in Runs : g[r] = h[r] \/ (r = u /\ r = w /\ h[r] = NoPod),
           Carries(w, x, g[u], d, proc'[u], misled'[u]),
           Written(d, g[u], proc'[u], misled'[u]),
           Placed(g)'
    PROVE  Held(g)'
  <1>1. /\ x \in Worker /\ d \in Status /\ u \in Runs
        /\ at \in [Workers -> Worker] /\ disk \in [Runs -> Status]
        /\ misled \in [Runs -> BOOLEAN] /\ misled' \in [Runs -> BOOLEAN]
    BY DEF MayMove, Held, TypeOK, WorldOK
  <1>2. /\ at'[w] = x /\ \A v \in Workers \ {w} : at'[v] = at[v]
        /\ disk'[u] = d /\ \A r \in Runs \ {u} : disk'[r] = disk[r]
    BY <1>1 DEF Moves
  <1>3. TypeOK'
    <2>1. at' \in [Workers -> Worker] /\ disk' \in [Runs -> Status]
      BY <1>1 DEF Moves
    <2>2. \A r \in Runs : at'[r].run = r /\ at'[r].op = "start"
      BY <1>2 DEF MayMove, Held, TypeOK, Workers
    <2> QED
      BY <2>1, <2>2 DEF TypeOK, WorldOK
  <1>4. ASSUME NEW v \in Workers \ {w}
        PROVE  LET r == at'[v].run IN Carries(v, at'[v], g[r], disk'[r], proc'[r], misled'[r])
    <2> DEFINE r == at[v].run
    <2>1. /\ r \in Runs /\ at[v] \in Worker /\ at'[v] = at[v]
          /\ misled[r] \in BOOLEAN /\ misled'[r] \in BOOLEAN /\ (misled[r] => misled'[r])
          /\ Carries(v, at[v], h[r], disk[r], proc[r], misled[r])
      BY <1>1, <1>2 DEF Worker, WorldOK, Held
    <2>2. r = w => at[v].pc \notin Unlaunched
      <3>1. ASSUME r = w PROVE v \in Commands
        BY <2>1, <3>1 DEF Workers, Held, TypeOK
      <3> QED
        BY <2>1, <3>1 DEF Carries, Unlaunched, Early, Taking
    <2>3. \/ Follows(proc[r], proc'[r])
          \/ proc[r].is = "none" /\ at[v].pc \notin Unlaunched
      BY <2>1, <2>2
    <2>4. disk'[r].state # "none" \/ disk'[r] = disk[r]
      BY <1>2, <2>1 DEF MayMove
    <2>5. g[r] = h[r] \/ (h[r] = NoPod /\ at[v].pc \notin Early)
      BY <2>1, <2>2 DEF Unlaunched
    <2> QED
      BY <1>1, <2>1, <2>3, <2>4, <2>5, CarriesOn
  <1>5. \A v \in Workers : LET r == at'[v].run IN
          Carries(v, at'[v], g[r], disk'[r], proc'[r], misled'[r])
    <2>1. Carries(w, x, g[x.run], disk'[x.run], proc'[x.run], misled'[x.run])
      BY <1>2 DEF MayMove, Carries
    <2> QED
      BY <1>2, <1>4, <2>1
  <1>6. ASSUME NEW r \in Runs
        PROVE  Written(disk'[r], g[r], proc'[r], misled'[r])
    <2>1. CASE r = u
      BY <1>2, <2>1
    <2>2. CASE r # u
      <3>1. disk'[r] = disk[r] /\ disk[r] \in Status /\ Follows(proc[r], proc'[r]) /\ g[r] = h[r]
        BY <1>1, <1>2, <2>2
      <3>2. misled[r] \in BOOLEAN /\ misled'[r] \in BOOLEAN /\ (misled[r] => misled'[r])
        BY <1>1 DEF WorldOK
      <3> QED
        BY <3>1, <3>2, WrittenOn DEF Held
    <2> QED
      BY <2>1, <2>2
  <1> QED
    BY <1>3, <1>5, <1>6 DEF Held

-----------------------------------------------------------------------------
(* What happens to jobs and pods without a launch.                          *)
Settles ==
    \A r \in Runs :
      /\ Follows(proc[r], proc'[r])
      /\ proc'[r].is \in Alive =>
           /\ proc'[r].on = proc[r].on
           /\ pod[proc[r].on] = "running" => pod'[proc[r].on] = "running"

\* A job that is at work was so before.
LEMMA AliveBefore ==
    ASSUME NEW j, NEW k, Follows(j, k), k.is \in Alive
    PROVE  j.is \in Alive
  BY DEF Follows, Alive

LEMMA SettledPlaced ==
    ASSUME NEW h, Held(h), Settles
    PROVE  Placed(h)'
  BY AliveBefore DEF Settles, Held, Placed

LEMMA SettledStep ==
    ASSUME NEW h, Held(h), NEW w \in Workers, NEW x, NEW u, NEW d,
           Moves(w, x, u, d), MayMove(w, x, u, d),
           WorldOK, Settles,
           Carries(w, x, h[u], d, proc'[u], misled'[u]),
           Written(d, h[u], proc'[u], misled'[u])
    PROVE  Held(h)'
  <1>1. Placed(h)' /\ h \in [Runs -> Pods \cup {NoPod}]
    BY SettledPlaced DEF Held
  <1>2. \A r \in Runs : Follows(proc[r], proc'[r])
    BY DEF Settles
  <1> QED
    BY <1>1, <1>2, MoveStep

\* Nothing happens to them.
LEMMA KeptSettles ==
    ASSUME NEW h, Held(h), PodKept
    PROVE  Settles /\ pod' \in [Pods -> {"absent", "running", "exited", "lost"}]
           /\ proc' \in [Runs -> Job]
  BY DEF PodKept, Settles, Follows, Held, TypeOK

\* A pod that comes to a stop kills the jobs on it.
LEMMA BecomesSettles ==
    ASSUME NEW h, Held(h), NEW p \in Pods, NEW s \in {"running", "exited", "lost"},
           PodBecomes(p, s)
    PROVE  /\ Settles /\ pod' \in [Pods -> {"absent", "running", "exited", "lost"}]
           /\ proc' \in [Runs -> Job]
           /\ \A r \in Runs : proc'[r].is \in Alive => proc[r].on # p
  <1>1. pod' = [pod EXCEPT ![p] = s] /\ proc' = Killed(p)
    BY DEF PodBecomes
  <1>2. \A r \in Runs : proc[r] \in Job
    BY DEF Held, TypeOK
  <1>3. \A r \in Runs : proc'[r] = IF proc[r].on = p /\ proc[r].is \in Alive
                                  THEN [proc[r] EXCEPT !.is = "killed"] ELSE proc[r]
    BY <1>1 DEF Killed
  <1>4. \A r \in Runs : [proc[r] EXCEPT !.is = "killed"] \in Job
                        /\ [proc[r] EXCEPT !.is = "killed"].is = "killed"
    BY <1>2 DEF Job
  <1>5. proc' \in [Runs -> Job]
    <2>1. proc' = [r \in Runs |-> proc'[r]]
      BY <1>1 DEF Killed
    <2> QED
      BY <1>2, <1>3, <1>4, <2>1
  <1>6. pod' \in [Pods -> {"absent", "running", "exited", "lost"}]
    BY <1>1 DEF Held, TypeOK
  <1>7. ASSUME NEW r \in Runs
        PROVE  /\ Follows(proc[r], proc'[r])
               /\ proc'[r].is \in Alive =>
                    /\ proc'[r].on = proc[r].on /\ proc[r].on # p
                    /\ pod[proc[r].on] = "running" => pod'[proc[r].on] = "running"
    <2>1. CASE proc[r].on = p /\ proc[r].is \in Alive
      BY <1>3, <1>4, <2>1 DEF Follows, Alive
    <2>2. CASE ~(proc[r].on = p /\ proc[r].is \in Alive)
      <3>1. proc'[r] = proc[r]
        BY <1>3, <2>2
      <3>2. proc[r].is \in Alive => proc[r].on \in Pods \ {p}
        BY <2>2 DEF Held, Placed
      <3> QED
        BY <1>1, <3>1, <3>2 DEF Follows, Held, TypeOK
    <2> QED
      BY <2>1, <2>2
  <1> QED
    BY <1>5, <1>6, <1>7 DEF Settles

\* A pod that was asked to stop has no job left, whatever it was doing.
LEMMA StopSettles ==
    ASSUME NEW h, Held(h), NEW p \in Pods, Stop(p)
    PROVE  /\ Settles /\ pod' \in [Pods -> {"absent", "running", "exited", "lost"}]
           /\ proc' \in [Runs -> Job]
           /\ \A r \in Runs : proc'[r].is \in Alive => proc[r].on # p
  <1>1. CASE pod[p] = "running"
    BY <1>1, BecomesSettles DEF Stop, PodStops
  <1>2. CASE pod[p] # "running"
    <2>1. PodKept
      BY <1>2 DEF Stop, PodStops, PodKept
    <2>2. \A r \in Runs : proc'[r].is \in Alive => proc[r].on # p
      BY <1>2, <2>1 DEF PodKept, Held, Placed
    <2> QED
      BY <2>1, <2>2, KeptSettles
  <1> QED
    BY <1>1, <1>2

LEMMA StopFailsSettles ==
    ASSUME NEW h, Held(h), NEW p \in Pods, StopFails(p)
    PROVE  Settles /\ pod' \in [Pods -> {"absent", "running", "exited", "lost"}]
           /\ proc' \in [Runs -> Job]
  BY StopSettles, KeptSettles DEF Stop, StopFails

-----------------------------------------------------------------------------
(***************************************************************************)
(* The ways a worker goes on.                                              *)
(***************************************************************************)
Going(w, pc, s) == [at[w] EXCEPT !.pc = pc, !.st = s]

LEMMA GoingParts ==
    ASSUME NEW h, Held(h), NEW w \in Workers, NEW pc \in PCs, NEW s \in Status
    PROVE  /\ Going(w, pc, s) \in Worker
           /\ Going(w, pc, s).pc = pc /\ Going(w, pc, s).st = s
           /\ Going(w, pc, s).run = at[w].run /\ Going(w, pc, s).op = at[w].op
           /\ at[w] \in Worker /\ at[w].run \in Runs /\ St(w) \in Status
           /\ disk[at[w].run] \in Status
  <1>1. at[w] \in Worker /\ disk \in [Runs -> Status]
    BY DEF Held, TypeOK
  <1>2. at[w].run \in Runs /\ St(w) \in Status /\ disk[at[w].run] \in Status
    BY <1>1 DEF Worker, St
  <1>3. /\ Going(w, pc, s) \in Worker
        /\ Going(w, pc, s).pc = pc /\ Going(w, pc, s).st = s
        /\ Going(w, pc, s).run = at[w].run /\ Going(w, pc, s).op = at[w].op
    BY <1>1 DEF Worker, Going
  <1> QED
    BY <1>1, <1>2, <1>3

LEMMA OwnRun ==
    ASSUME NEW h, Held(h), NEW w \in Workers
    PROVE  w \in Runs => at[w].run = w /\ at[w].op = "start"
  BY DEF Held, TypeOK

LEMMA RestParts ==
    ASSUME NEW r \in Runs
    PROVE  Rest(r) \in Worker /\ Rest(r).pc = "idle" /\ Rest(r).run = r /\ Rest(r).op = "start"
  BY DEF Rest, Worker, PCs, NoStatus, Status, States

\* It ends with a status, or with nothing said.
LEMMA EndStep ==
    ASSUME NEW h, Held(h), NEW w \in Workers, NEW s \in Status, EndsWith(w, s),
           s.state # "none" \/ s = disk[at[w].run],
           WorldOK, Settles,
           Written(s, h[at[w].run], proc'[at[w].run], misled'[at[w].run])
    PROVE  Held(h)'
  <1> DEFINE x == Rest(at[w].run)
  <1>1. at[w].run \in Runs /\ at[w] \in Worker
    BY DEF Held, TypeOK, Worker
  <1>2. x \in Worker /\ x.pc = "idle" /\ x.run = at[w].run /\ x.op = "start"
    BY <1>1, RestParts
  <1>3. Moves(w, x, at[w].run, s)
    BY <1>2 DEF Moves, EndsWith, Gone, Writes
  <1>4. MayMove(w, x, at[w].run, s)
    BY <1>1, <1>2, OwnRun DEF MayMove
  <1>5. Carries(w, x, h[at[w].run], s, proc'[at[w].run], misled'[at[w].run])
    BY <1>2 DEF Carries
  <1> HIDE DEF x
  <1> QED
    BY <1>2, <1>3, <1>4, <1>5, SettledStep

LEMMA QuietEndStep ==
    ASSUME NEW h, Held(h), NEW w \in Workers, Ends(w), WorldOK, Settles
    PROVE  Held(h)'
  <1> DEFINE r == at[w].run
  <1>1. r \in Runs /\ disk \in [Runs -> Status] /\ disk[r] \in Status
        /\ misled[r] \in BOOLEAN /\ misled'[r] \in BOOLEAN /\ (misled[r] => misled'[r])
    BY DEF Held, TypeOK, Worker, WorldOK
  <1>2. EndsWith(w, disk[r])
    BY <1>1 DEF Ends, EndsWith, Writes
  <1>3. Written(disk[r], h[r], proc'[r], misled'[r])
    BY <1>1, WrittenOn DEF Held, Settles
  <1> QED
    BY <1>1, <1>2, <1>3, EndStep

\* It turns to pc with the status s, and writes d.
LEMMA TurnStep ==
    ASSUME NEW h, Held(h), NEW w \in Workers, NEW s \in Status, NEW pc \in PCs,
           NEW d \in Status, Turns(w, pc, s), Writes(w, d),
           d.state # "none" \/ d = disk[at[w].run],
           WorldOK, Settles,
           Carries(w, Going(w, pc, s), h[at[w].run], d, proc'[at[w].run], misled'[at[w].run]),
           Written(d, h[at[w].run], proc'[at[w].run], misled'[at[w].run])
    PROVE  Held(h)'
  <1> DEFINE x == Going(w, pc, s)
  <1>1. x \in Worker /\ x.run = at[w].run /\ x.op = at[w].op /\ at[w].run \in Runs
    BY GoingParts
  <1>2. Moves(w, x, at[w].run, d)
    BY <1>1 DEF Moves, Turns, Writes, Going, Held, TypeOK
  <1>3. MayMove(w, x, at[w].run, d)
    BY <1>1, OwnRun DEF MayMove
  <1> HIDE DEF x
  <1>4. Carries(w, x, h[at[w].run], d, proc'[at[w].run], misled'[at[w].run])
    BY <1>1 DEF x
  <1> QED
    BY <1>1, <1>2, <1>3, <1>4, SettledStep

\* It goes on with a status and writes nothing.
LEMMA GoesStep ==
    ASSUME NEW h, Held(h), NEW w \in Workers, NEW s \in Status, NEW pc \in PCs, Goes(w, pc, s),
           WorldOK, Settles,
           Carries(w, Going(w, pc, s), h[at[w].run], disk[at[w].run], proc'[at[w].run],
                   misled'[at[w].run])
    PROVE  Held(h)'
  <1> DEFINE r == at[w].run
  <1>1. r \in Runs /\ disk \in [Runs -> Status] /\ disk[r] \in Status
        /\ misled[r] \in BOOLEAN /\ misled'[r] \in BOOLEAN /\ (misled[r] => misled'[r])
    BY GoingParts DEF Held, TypeOK, WorldOK
  <1>2. Turns(w, pc, s) /\ Writes(w, disk[r])
    BY <1>1 DEF Goes, Writes
  <1>3. Written(disk[r], h[r], proc'[r], misled'[r])
    BY <1>1, WrittenOn DEF Held, Settles
  <1> QED
    BY <1>1, <1>2, <1>3, TurnStep

-----------------------------------------------------------------------------
(***************************************************************************)
(* A worker past the taking of a pod.                                      *)
(***************************************************************************)
Late(w) == at[w].pc \notin Early \cup {"idle", "waiting"}

LEMMA LateFacts ==
    ASSUME NEW h, Held(h), NEW w \in Workers, Late(w)
    PROVE  LET r == at[w].run IN
           /\ r \in Runs /\ St(w) \in Status /\ disk[r] \in Status /\ proc[r] \in Job
           /\ misled[r] \in BOOLEAN
           /\ St(w).state # "none" /\ disk[r].state # "none"
           /\ Names(St(w), h[r])
           /\ at[w].pc # "record" => St(w).pod \in Pods /\ St(w).pod = h[r] /\ St(w).pod # NoPod
           /\ Knows(St(w), proc[r], misled[r])
           /\ at[w].op = "fetch" \/ at[w].pc = "fetch" => St(w).exit # "none" \/ misled[r]
           /\ w \in Commands => at[w].op # "start"
           /\ w \notin Commands => at[w].run = w
  <1>1. at[w] \in Worker /\ disk \in [Runs -> Status] /\ proc \in [Runs -> Job]
        /\ misled \in [Runs -> BOOLEAN]
    BY DEF Held, TypeOK
  <1>2. at[w].run \in Runs /\ St(w) \in Status
    BY <1>1 DEF Worker, St
  <1>3. Carries(w, at[w], h[at[w].run], disk[at[w].run], proc[at[w].run], misled[at[w].run])
    BY DEF Held
  <1>4. St(w).pod \in Pods \cup {NoPod}
    BY <1>2 DEF Status
  <1>5. w \notin Commands => at[w].run = w
    BY OwnRun DEF Workers
  <1>6. St(w).state # "none" /\ disk[at[w].run].state # "none" /\ Names(St(w), h[at[w].run])
        /\ (at[w].pc # "record" => St(w).pod # NoPod)
    BY <1>3 DEF Carries, Late, St
  <1>7. Knows(St(w), proc[at[w].run], misled[at[w].run])
        /\ (at[w].op = "fetch" \/ at[w].pc = "fetch" => St(w).exit # "none" \/ misled[at[w].run])
        /\ (w \in Commands => at[w].op # "start")
    BY <1>3 DEF Carries, Late, St
  <1> QED
    BY <1>1, <1>2, <1>4, <1>5, <1>6, <1>7 DEF Names

\* What is known while jobs settle stays known.
LEMMA KnowsSettled ==
    ASSUME NEW h, Held(h), WorldOK, Settles, NEW r \in Runs, NEW s \in Status,
           Knows(s, proc[r], misled[r])
    PROVE  Knows(s, proc'[r], misled'[r])
  <1>1. misled[r] \in BOOLEAN /\ misled'[r] \in BOOLEAN /\ (misled[r] => misled'[r])
    BY DEF Held, TypeOK, WorldOK
  <1> QED
    BY <1>1, KnowsOn DEF Settles

\* A status that names the pod of the one it was made from, or still none.
LEMMA NamesFrom ==
    ASSUME NEW s, NEW t, NEW p, Names(s, p), t.pod = s.pod, t.launched = s.launched,
           t.pod # NoPod \/ t.state \in Podless
    PROVE  Names(t, p)
  BY DEF Names

Later == PCs \ (Unlaunched \cup {"waiting", "idle"})

\* It goes on to pc with a status s.
LEMMA LateCarries ==
    ASSUME NEW h, Held(h), NEW w \in Workers, Late(w), NEW s \in Status, NEW pc \in Later, NEW d,
           s.state # "none", d.state # "none", Names(s, h[at[w].run]),
           s.pod # NoPod \/ pc = "record",
           Knows(s, proc'[at[w].run], misled'[at[w].run]),
           at[w].op = "fetch" \/ pc = "fetch" => s.exit # "none" \/ misled'[at[w].run]
    PROVE  Carries(w, Going(w, pc, s), h[at[w].run], d, proc'[at[w].run], misled'[at[w].run])
  <1>1. pc \in PCs /\ pc \notin Unlaunched \cup Early \cup {"waiting", "idle"}
    BY DEF Later, Unlaunched
  <1>2. /\ Going(w, pc, s).pc = pc /\ Going(w, pc, s).st = s /\ Going(w, pc, s).op = at[w].op
    BY <1>1, GoingParts
  <1>3. w \in Commands => at[w].op # "start"
    BY LateFacts
  <1> QED
    BY <1>1, <1>2, <1>3 DEF Carries

LEMMA LateWritten ==
    ASSUME NEW s, NEW p, NEW j, NEW m, s.state # "none", Names(s, p), Knows(s, j, m)
    PROVE  Written(s, p, j, m)
  BY DEF Written

LEMMA LateSave ==
    ASSUME NEW h, Held(h), NEW w \in Workers, Late(w), NEW s \in Status, NEW pc \in Later,
           Saves(w, pc, s),
           s.state # "none", s.pod = St(w).pod, s.pod # NoPod, s.launched = St(w).launched,
           WorldOK, Settles,
           Knows(s, proc'[at[w].run], misled'[at[w].run]),
           at[w].op = "fetch" \/ pc = "fetch" => s.exit # "none" \/ misled'[at[w].run]
    PROVE  Held(h)'
  <1>1. Names(s, h[at[w].run])
    BY LateFacts, NamesFrom
  <1>2. Carries(w, Going(w, pc, s), h[at[w].run], s, proc'[at[w].run], misled'[at[w].run])
    BY <1>1, LateCarries
  <1>3. Written(s, h[at[w].run], proc'[at[w].run], misled'[at[w].run])
    BY <1>1, LateWritten
  <1>4. Turns(w, pc, s) /\ Writes(w, s) /\ pc \in PCs
    BY DEF Saves, Later
  <1> QED
    BY <1>2, <1>3, <1>4, TurnStep

\* It goes on with a status s, and the file is left as it is.
LEMMA LateGoesWith ==
    ASSUME NEW h, Held(h), NEW w \in Workers, Late(w), NEW s \in Status, NEW pc \in Later,
           Goes(w, pc, s),
           s.state # "none", s.pod = St(w).pod, s.pod # NoPod, s.launched = St(w).launched,
           WorldOK, Settles,
           Knows(s, proc'[at[w].run], misled'[at[w].run]),
           at[w].op = "fetch" \/ pc = "fetch" => s.exit # "none" \/ misled'[at[w].run]
    PROVE  Held(h)'
  <1>1. Names(s, h[at[w].run]) /\ disk[at[w].run].state # "none"
    BY LateFacts, NamesFrom
  <1>2. Carries(w, Going(w, pc, s), h[at[w].run], disk[at[w].run], proc'[at[w].run],
                misled'[at[w].run])
    BY <1>1, LateCarries
  <1>3. pc \in PCs
    BY DEF Later
  <1> QED
    BY <1>2, <1>3, GoesStep

LEMMA LateGoes ==
    ASSUME NEW h, Held(h), NEW w \in Workers, Late(w), at[w].pc # "record",
           NEW pc \in Later \ {"fetch"}, Goes(w, pc, St(w)), WorldOK, Settles
    PROVE  Held(h)'
  <1> DEFINE r == at[w].run
  <1>1. /\ r \in Runs /\ St(w) \in Status /\ St(w).state # "none" /\ St(w).pod # NoPod
        /\ Knows(St(w), proc[r], misled[r])
        /\ misled[r] => misled'[r]
        /\ at[w].op = "fetch" => St(w).exit # "none" \/ misled[r]
    BY LateFacts DEF WorldOK
  <1>2. Knows(St(w), proc'[r], misled'[r])
    BY <1>1, KnowsSettled
  <1> QED
    BY <1>1, <1>2, LateGoesWith

LEMMA LateEnd ==
    ASSUME NEW h, Held(h), NEW w \in Workers, Late(w), NEW s \in Status, EndsWith(w, s),
           s.state # "none", s.pod = St(w).pod, s.launched = St(w).launched,
           s.pod # NoPod \/ s.state \in Podless, WorldOK, Settles,
           Knows(s, proc'[at[w].run], misled'[at[w].run])
    PROVE  Held(h)'
  <1>1. Names(s, h[at[w].run])
    BY LateFacts, NamesFrom
  <1> QED
    BY <1>1, LateWritten, EndStep

LEMMA LateReconciled ==
    ASSUME NEW h, Held(h), NEW w \in Workers, Late(w), NEW s \in Status, Reconciled(w, s),
           s.state # "none", s.pod = St(w).pod, s.launched = St(w).launched, s.pod # NoPod,
           WorldOK, Settles,
           Knows(s, proc'[at[w].run], misled'[at[w].run])
    PROVE  Held(h)'
  <1>1. CASE EndsWith(w, s)
    BY <1>1, LateEnd
  <1>2. CASE at[w].op = "start" /\ Turns(w, "waiting", NoStatus) /\ Writes(w, s)
    <2> DEFINE x == Going(w, "waiting", NoStatus)
               r == at[w].run
    <2>1. NoStatus \in Status /\ "waiting" \in PCs /\ NoStatus.pod = NoPod /\ ~NoStatus.launched
          /\ NoStatus.state = "none" /\ NoStatus.exit = "none"
      BY DEF NoStatus, Status, States, PCs
    <2>2. x.op = "start" /\ x.pc = "waiting" /\ x.st = NoStatus
      BY <1>2, <2>1, GoingParts
    <2>3. w \notin Commands /\ r \in Runs /\ Names(s, h[r])
      BY <1>2, LateFacts, NamesFrom
    <2>4. Written(s, h[r], proc'[r], misled'[r])
      BY <2>3, LateWritten
    <2> HIDE DEF x
    <2>5. Names(NoStatus, h[r]) /\ Knows(NoStatus, proc'[r], misled'[r])
      BY <2>1 DEF Names, Podless, Knows, Finished
    <2>6. Carries(w, x, h[r], s, proc'[r], misled'[r])
      BY <2>2, <2>3, <2>5 DEF Carries, Unlaunched, Early, Taking
    <2> QED
      BY <1>2, <2>1, <2>4, <2>6, TurnStep DEF x
  <1> QED
    BY <1>1, <1>2 DEF Reconciled

LEMMA LateAutoStop ==
    ASSUME NEW h, Held(h), NEW w \in Workers, Late(w), NEW s \in Status, AutoStop(w, s),
           s.state # "none", s.pod = St(w).pod, s.launched = St(w).launched,
           s.pod # NoPod, WorldOK, Settles,
           at[w].op = "fetch" => s.exit # "none" \/ misled'[at[w].run],
           Knows(s, proc'[at[w].run], misled'[at[w].run])
    PROVE  Held(h)'
  <1>1. "autostop" \in Later /\ "autostop" # "fetch"
    BY DEF Later, PCs, Unlaunched, Early, Taking
  <1>2. CASE EndsWith(w, s)
    BY <1>1, <1>2, LateEnd
  <1>3. CASE Saves(w, "autostop", s)
    BY <1>1, <1>3, LateSave
  <1> QED
    BY <1>2, <1>3 DEF AutoStop

-----------------------------------------------------------------------------
(***************************************************************************)
(* The rest of the world.                                                  *)
(***************************************************************************)
LEMMA AllKept ==
    ASSUME NEW h, Held(h), PodKept, UNCHANGED <<world, misled>>
    PROVE  WorldOK /\ Settles /\ proc' = proc /\ misled' = misled
  BY KeptSettles DEF WorldOK, PodKept, world, Held, TypeOK

\* A pod that comes up disturbs nothing.
LEMMA PodUp ==
    ASSUME NEW h, Held(h), UNCHANGED <<proc, world, misled>>,
           pod' = pod \/ \E p \in Pods : pod' = [pod EXCEPT ![p] = "running"]
    PROVE  WorldOK /\ Settles /\ proc' = proc /\ misled' = misled
  <1>1. pod' \in [Pods -> {"absent", "running", "exited", "lost"}]
        /\ \A p \in Pods : pod[p] = "running" => pod'[p] = "running"
    BY DEF Held, TypeOK
  <1>2. \A r \in Runs : proc[r].is \in Alive => proc[r].on \in Pods
    BY DEF Held, Placed
  <1> QED
    BY <1>1, <1>2 DEF WorldOK, Settles, Follows, world, Held, TypeOK

LEMMA InParts ==
    ASSUME NEW s \in Status, NEW state \in States
    PROVE  /\ In(s, state) \in Status /\ In(s, state).state = state /\ In(s, state).pod = s.pod
           /\ In(s, state).launched = s.launched /\ In(s, state).exit = s.exit
  BY DEF In, Status

LEMMA NoStatusParts ==
    /\ NoStatus \in Status /\ NoStatus.state = "none" /\ NoStatus.pod = NoPod
    /\ ~NoStatus.launched /\ NoStatus.exit = "none"
  BY DEF NoStatus, Status, States

-----------------------------------------------------------------------------
(***************************************************************************)
(* startRun: a submitting command before its job is launched.              *)
(***************************************************************************)
LEMMA UnlaunchedFacts ==
    ASSUME NEW h, Held(h), NEW w \in Workers, at[w].pc \in Unlaunched
    PROVE  /\ w \in Runs /\ w \notin Commands /\ at[w].run = w /\ at[w].op = "start"
           /\ St(w) \in Status /\ disk[w] \in Status
           /\ proc[w].is = "none" /\ St(w).exit = "none" /\ ~St(w).launched
           /\ St(w).state \notin Terminal \cup {"none"} /\ disk[w].state # "none"
           /\ at[w].pc \in Early => /\ h[w] = NoPod /\ St(w).state = "provisioning"
                                    /\ at[w].pc \in Taking <=> St(w).pod # NoPod
           /\ at[w].pc \notin Early => Late(w) /\ St(w).pod # NoPod /\ St(w).pod = h[w]
  <1>1. at[w].run \in Runs /\ at[w] \in Worker /\ disk[at[w].run] \in Status
        /\ LET r == at[w].run IN Carries(w, at[w], h[r], disk[r], proc[r], misled[r])
    BY DEF Held, TypeOK, Worker
  <1>2. w \in Runs
    BY <1>1 DEF Carries, Workers, Unlaunched, Early, Taking
  <1>3. at[w].run = w /\ at[w].op = "start" /\ w \notin Commands
    BY <1>2, OwnRun, RunsAssumption
  <1>4. at[w].pc \notin {"idle", "waiting", "record"}
    BY DEF Unlaunched, Early, Taking
  <1>5. St(w) \in Status /\ St(w).exit \in {"none", "ok", "bad"}
    BY <1>1 DEF St, Worker, Status
  <1>6. /\ proc[w].is = "none" /\ St(w).exit = "none" /\ ~St(w).launched
        /\ St(w).state \notin Terminal \cup {"none"} /\ disk[w].state # "none"
    BY <1>1, <1>3, <1>4, <1>5 DEF Carries, Knows, St
  <1>7. at[w].pc \notin Early => Late(w) /\ St(w).pod # NoPod /\ St(w).pod = h[w]
    BY <1>1, <1>3, <1>4 DEF Carries, Names, St, Late
  <1>8. at[w].pc \in Early => /\ h[w] = NoPod /\ St(w).state = "provisioning"
                              /\ at[w].pc \in Taking <=> St(w).pod # NoPod
    BY <1>1, <1>3, <1>4 DEF Carries, St
  <1> QED
    BY <1>1, <1>2, <1>3, <1>5, <1>6, <1>7, <1>8

\* What a command may write while there is no job.
LEMMA JoblessKnows ==
    ASSUME NEW s, NEW j, NEW m, ~s.launched, s.exit = "none", s.state # "completed"
    PROVE  Knows(s, j, m)
  BY DEF Knows

\* It fails.
LEMMA UnlaunchedFail ==
    ASSUME NEW h, Held(h), NEW w \in Workers, at[w].pc \in Unlaunched \ Taking, Fail(w),
           WorldOK, Settles
    PROVE  Held(h)'
  <1> DEFINE s == In(St(w), "failed")
  <1>1. /\ s \in Status /\ s.state = "failed" /\ s.pod = St(w).pod /\ ~s.launched
        /\ s.exit = "none" /\ at[w].run = w /\ w \in Runs /\ at[w].op = "start"
        /\ s.launched = St(w).launched
        /\ \/ Saves(w, "salvage", s) /\ at[w].pc \notin Early
           \/ AutoStop(w, s)
    BY UnlaunchedFacts, InParts DEF Fail, States, Terminal, Early, Taking
  <1>2. Knows(s, proc'[w], misled'[w])
    BY <1>1, JoblessKnows
  <1> HIDE DEF s
  <1>3. CASE at[w].pc \in Early
    <2>1. s.pod = NoPod /\ h[w] = NoPod /\ AutoStop(w, s)
      BY <1>1, <1>3, UnlaunchedFacts
    <2>2. EndsWith(w, s)
      BY <1>1, <2>1 DEF AutoStop
    <2>3. Written(s, h[w], proc'[w], misled'[w])
      BY <1>1, <1>2, <2>1 DEF Written, Names, Podless
    <2> QED
      BY <1>1, <2>1, <2>2, <2>3, EndStep
  <1>4. CASE at[w].pc \notin Early
    <2>1. Late(w) /\ s.pod # NoPod
      BY <1>1, <1>4, UnlaunchedFacts
    <2>2. "salvage" \in Later
      BY DEF Later, PCs, Unlaunched, Early, Taking
    <2> QED
      BY <1>1, <1>2, <2>1, <2>2, LateAutoStop, LateSave
  <1> QED
    BY <1>3, <1>4

\* A run with nothing on disk has no job.
LEMMA StartRunStep ==
    ASSUME NEW h, Held(h), NEW r \in Runs, StartRun(r)
    PROVE  Held(h)'
  <1>1. r \in Workers /\ r \notin Commands
    BY RunsAssumption DEF Workers
  <1>2. at[r].run = r /\ at[r].op = "start"
    BY <1>1, OwnRun
  <1>3. WorldOK /\ Settles /\ proc' = proc /\ misled' = misled
    BY AllKept DEF StartRun
  <1>4. proc[r].is = "none" /\ h[r] = NoPod
    BY NoStatusParts DEF StartRun, Held, Written
  <1>5. CASE EndsWith(r, In(NoStatus, "failed"))
    <2> DEFINE s == In(NoStatus, "failed")
    <2>1. /\ s \in Status /\ s.state = "failed" /\ s.pod = NoPod /\ ~s.launched
          /\ s.exit = "none" /\ EndsWith(r, s)
      BY <1>5, InParts, NoStatusParts DEF States, Terminal
    <2> HIDE DEF s
    <2>2. Written(s, h[r], proc'[r], misled'[r])
      BY <1>4, <2>1, JoblessKnows DEF Written, Names, Podless
    <2> QED
      BY <1>1, <1>2, <1>3, <2>1, <2>2, EndStep
  <1>6. CASE Saves(r, "listing", In(NoStatus, "provisioning"))
    <2> DEFINE s == In(NoStatus, "provisioning")
    <2>1. /\ s \in Status /\ s.state = "provisioning" /\ s.pod = NoPod /\ ~s.launched
          /\ s.exit = "none" /\ Turns(r, "listing", s) /\ Writes(r, s) /\ "listing" \in PCs
      BY <1>6, InParts, NoStatusParts DEF States, PCs, Saves
    <2> HIDE DEF s
    <2>2. Knows(s, proc'[r], misled'[r]) /\ Written(s, h[r], proc'[r], misled'[r])
      BY <1>4, <2>1, JoblessKnows DEF Written, Names, Podless
    <2>3. /\ Going(r, "listing", s).pc = "listing" /\ Going(r, "listing", s).st = s
          /\ Going(r, "listing", s).op = "start"
      BY <1>1, <1>2, <2>1, GoingParts
    <2>4. Carries(r, Going(r, "listing", s), h[r], s, proc'[r], misled'[r])
      BY <1>1, <1>3, <1>4, <2>1, <2>2, <2>3 DEF Carries, Early, Taking, Terminal
    <2> QED
      BY <1>1, <1>2, <1>3, <2>1, <2>2, <2>4, TurnStep
  <1> QED
    BY <1>5, <1>6 DEF StartRun

\* It goes on before it has a pod, or with one that is not recorded.
LEMMA EarlyTurns ==
    ASSUME NEW h, Held(h), NEW w \in Workers, at[w].pc \in Early, NEW pc \in Early,
           NEW s \in Status, WorldOK, Settles,
           \/ Goes(w, pc, s)
           \/ Turns(w, pc, s) /\ Writes(w, St(w)) /\ at[w].pc \notin Taking,
           s.state = St(w).state, s.launched = St(w).launched, s.exit = St(w).exit,
           pc \in Taking <=> s.pod # NoPod
    PROVE  Held(h)'
  <1>0. at[w].pc \in Unlaunched /\ pc \in PCs /\ pc \in Unlaunched
    BY DEF Unlaunched, Early, Taking, PCs
  <1>1. /\ w \in Runs /\ at[w].run = w /\ at[w].op = "start" /\ w \notin Commands
        /\ St(w) \in Status /\ proc[w].is = "none" /\ h[w] = NoPod
        /\ St(w).exit = "none" /\ ~St(w).launched /\ disk[w].state # "none"
        /\ St(w).state = "provisioning"
        /\ at[w].pc \notin Taking => St(w).pod = NoPod
    BY <1>0, UnlaunchedFacts
  <1>2. proc'[w].is = "none"
    BY <1>1 DEF Settles, Follows
  <1>3. Knows(s, proc'[w], misled'[w]) /\ Knows(St(w), proc'[w], misled'[w])
    BY <1>1, JoblessKnows
  <1>4. Going(w, pc, s).pc = pc /\ Going(w, pc, s).st = s /\ Going(w, pc, s).op = "start"
    BY <1>0, <1>1, GoingParts
  <1>5. ASSUME NEW d, d.state # "none"
        PROVE  Carries(w, Going(w, pc, s), h[w], d, proc'[w], misled'[w])
    BY <1>1, <1>2, <1>3, <1>4, <1>0, <1>5 DEF Carries, Early, Taking, Terminal
  <1>6. at[w].pc \notin Taking => Written(St(w), h[w], proc'[w], misled'[w])
    BY <1>1, <1>3 DEF Written, Names, Podless
  <1>7. CASE Goes(w, pc, s)
    BY <1>0, <1>1, <1>5, <1>7, GoesStep
  <1>8. CASE Turns(w, pc, s) /\ Writes(w, St(w)) /\ at[w].pc \notin Taking
    BY <1>0, <1>1, <1>5, <1>6, <1>8, TurnStep
  <1> QED
    BY <1>7, <1>8

\* It takes the pod p, and this is the run's from now on.
LEMMA AllocatedStep ==
    ASSUME NEW h, Held(h), NEW w \in Workers, at[w].pc \in Early, NEW p \in Pods,
           Allocated(w, p), WorldOK, Settles
    PROVE  h[w] = NoPod /\ Held([h EXCEPT ![w] = p])'
  <1> DEFINE s == [In(St(w), "waiting_for_ssh") EXCEPT !.pod = p]
             g == [h EXCEPT ![w] = p]
  <1>0. at[w].pc \in Unlaunched
    BY DEF Unlaunched
  <1>1. /\ w \in Runs /\ at[w].run = w /\ at[w].op = "start" /\ w \notin Commands
        /\ St(w) \in Status /\ proc[w].is = "none" /\ h[w] = NoPod
        /\ St(w).exit = "none" /\ ~St(w).launched
        /\ h \in [Runs -> Pods \cup {NoPod}] /\ p # NoPod
    BY <1>0, UnlaunchedFacts, RunsAssumption DEF Held
  <1>2. /\ In(St(w), "waiting_for_ssh") \in Status
        /\ In(St(w), "waiting_for_ssh").state = "waiting_for_ssh"
        /\ ~In(St(w), "waiting_for_ssh").launched /\ In(St(w), "waiting_for_ssh").exit = "none"
    BY <1>1, InParts DEF States
  <1>3. /\ s \in Status /\ s.state = "waiting_for_ssh" /\ s.pod = p /\ ~s.launched
        /\ s.exit = "none"
    BY <1>2 DEF Status
  <1>4. Turns(w, "ssh", s) /\ Writes(w, s) /\ "ssh" \in PCs
    BY DEF Allocated, Saves, PCs
  <1> HIDE DEF s
  <1>5. proc'[w].is = "none" /\ \A r \in Runs : Follows(proc[r], proc'[r])
    BY <1>1 DEF Settles, Follows
  <1>6. Knows(s, proc'[w], misled'[w])
    BY <1>3, JoblessKnows
  <1>7. g \in [Runs -> Pods \cup {NoPod}] /\ g[w] = p /\ \A r \in Runs \ {w} : g[r] = h[r]
    BY <1>1
  <1> DEFINE x == Going(w, "ssh", s)
  <1>8. x \in Worker /\ x.pc = "ssh" /\ x.st = s /\ x.op = "start" /\ x.run = w
    BY <1>1, <1>3, <1>4, GoingParts
  <1>9. Moves(w, x, w, s)
    BY <1>1, <1>4 DEF Moves, Turns, Writes, Going, Held, TypeOK
  <1>10. Placed(h)'
    BY SettledPlaced
  <1> HIDE DEF x, g
  <1>11. Placed(g)'
    BY <1>5, <1>7, <1>10 DEF Placed, Alive
  <1>12. Written(s, g[w], proc'[w], misled'[w])
    BY <1>1, <1>3, <1>6, <1>7 DEF Written, Names
  <1>13. Carries(w, x, g[w], s, proc'[w], misled'[w])
    BY <1>1, <1>3, <1>5, <1>6, <1>7, <1>8 DEF Carries, Early, Taking, Terminal, Names
  <1>14. MayMove(w, x, w, s)
    BY <1>1, <1>3, <1>8 DEF MayMove
  <1>15. Held(g)'
    BY <1>1, <1>5, <1>7, <1>9, <1>11, <1>12, <1>13, <1>14, MoveStep
  <1> QED
    BY <1>1, <1>15 DEF g

\* A step after which each run has the pod it had, or one where it had none.
HoldsOn(h) ==
    \E g \in [Runs -> Pods \cup {NoPod}] :
      /\ Held(g)'
      /\ \A r \in Runs : h[r] # NoPod => g[r] = h[r]

LEMMA HeldHoldsOn ==
    ASSUME NEW h, Held(h), Held(h)'
    PROVE  HoldsOn(h)
  BY DEF HoldsOn, Held

LEMMA AllocatedHoldsOn ==
    ASSUME NEW h, Held(h), NEW w \in Runs, at[w].pc \in Early, NEW p \in Pods,
           Allocated(w, p), WorldOK, Settles
    PROVE  HoldsOn(h)
  <1> DEFINE g == [h EXCEPT ![w] = p]
  <1>1. h[w] = NoPod /\ Held(g)'
    BY AllocatedStep DEF Workers
  <1>2. g \in [Runs -> Pods \cup {NoPod}] /\ \A r \in Runs \ {w} : g[r] = h[r]
    BY DEF Held
  <1> QED
    BY <1>1, <1>2 DEF HoldsOn

LEMMA PodsListedStep ==
    ASSUME NEW h, Held(h), NEW r \in Runs, PodsListed(r)
    PROVE  HoldsOn(h)
  <1>1. r \in Workers /\ at[r].pc = "listing"
    BY DEF Workers, PodsListed, At
  <1>2. WorldOK /\ Settles
    BY AllKept DEF PodsListed
  <1>3. /\ at[r].pc \in Early /\ at[r].pc \in Unlaunched \ Taking
        /\ St(r) \in Status /\ St(r).pod = NoPod
    BY <1>1, UnlaunchedFacts DEF Early, Unlaunched, Taking
  <1>4. ASSUME NEW p \in Reusable, Allocated(r, p)
        PROVE  HoldsOn(h)
    BY <1>1, <1>2, <1>3, <1>4, AllocatedHoldsOn DEF Reusable
  <1>5. ASSUME NEW p \in Reusable,
               Turns(r, "starting", [St(r) EXCEPT !.pod = p]), Writes(r, St(r))
        PROVE  Held(h)'
    <2> DEFINE s == [St(r) EXCEPT !.pod = p]
    <2>1. s \in Status /\ s.state = St(r).state /\ s.launched = St(r).launched
          /\ s.exit = St(r).exit /\ s.pod # NoPod /\ Turns(r, "starting", s)
          /\ "starting" \in Early /\ "starting" \in Taking
      BY <1>3, <1>5, RunsAssumption DEF Status, Reusable, Early, Taking
    <2> HIDE DEF s
    <2> QED
      BY <1>1, <1>2, <1>3, <1>5, <2>1, EarlyTurns
  <1>6. CASE Saves(r, "creating", St(r))
    <2>1. "creating" \in Early /\ "creating" \notin Taking
      BY DEF Early, Taking
    <2>2. Held(h)'
      BY <1>1, <1>2, <1>3, <1>6, <2>1, EarlyTurns DEF Saves
    <2> QED
      BY <2>2, HeldHoldsOn
  <1>7. CASE Fail(r)
    BY <1>1, <1>2, <1>3, <1>7, UnlaunchedFail, HeldHoldsOn
  <1> QED
    BY <1>4, <1>5, <1>6, <1>7, HeldHoldsOn DEF PodsListed

\* It fails before the id of its pod is known to it.
LEMMA PodUnknownStep ==
    ASSUME NEW h, Held(h), NEW r \in Runs, at[r].pc \in Early, PodUnknown(r), WorldOK, Settles
    PROVE  Held(h)'
  <1> DEFINE s == In(NoStatus, "failed")
  <1>1. /\ s \in Status /\ s.state = "failed" /\ s.pod = NoPod /\ ~s.launched
        /\ s.exit = "none" /\ EndsWith(r, s)
    BY InParts, NoStatusParts DEF States, Terminal, PodUnknown
  <1> HIDE DEF s
  <1>2. r \in Workers /\ at[r].run = r
    BY OwnRun DEF Workers
  <1>3. Written(s, h[r], proc'[r], misled'[r])
    BY <1>1, JoblessKnows DEF Written, Names, Podless
  <1> QED
    BY <1>1, <1>2, <1>3, EndStep

LEMMA PodStartedStep ==
    ASSUME NEW h, Held(h), NEW r \in Runs, PodStarted(r)
    PROVE  Held(h)'
  <1> DEFINE p == St(r).pod
  <1>1. r \in Workers /\ at[r].pc = "starting" /\ UNCHANGED <<proc, world, misled>>
    BY DEF Workers, PodStarted, At
  <1>2. /\ at[r].pc \in Early /\ at[r].pc \in Unlaunched
        /\ St(r) \in Status /\ p # NoPod /\ "started" \in Early /\ "started" \in Taking
    BY <1>1, UnlaunchedFacts DEF Early, Unlaunched, Taking
  <1>3. p \in Pods
    <2>1. p \in Pods \cup {NoPod}
      BY <1>2 DEF Status
    <2> QED
      BY <1>2, <2>1
  <1>4. pod' = pod \/ pod' = [pod EXCEPT ![p] = "running"]
    BY DEF PodStarted
  <1>5. WorldOK /\ Settles
    BY <1>1, <1>3, <1>4, PodUp
  <1>6. CASE Goes(r, "started", St(r))
    BY <1>1, <1>2, <1>5, <1>6, EarlyTurns
  <1>7. CASE PodUnknown(r)
    BY <1>2, <1>5, <1>7, PodUnknownStep
  <1> QED
    BY <1>6, <1>7 DEF PodStarted

LEMMA PodCreatedStep ==
    ASSUME NEW h, Held(h), NEW r \in Runs, PodCreated(r)
    PROVE  Held(h)'
  <1>1. r \in Workers /\ at[r].pc = "creating" /\ UNCHANGED <<proc, world, misled>>
    BY DEF Workers, PodCreated, At
  <1>2. /\ at[r].pc \in Early /\ at[r].pc \in Unlaunched \ Taking /\ at[r].pc \notin Taking
        /\ St(r) \in Status /\ St(r).pod = NoPod /\ "creating" \in Early \ Taking
        /\ "created" \in Early /\ "created" \in Taking
    BY <1>1, UnlaunchedFacts DEF Early, Unlaunched, Taking
  <1>3. pod' = pod \/ \E p \in Pods : pod' = [pod EXCEPT ![p] = "running"]
    BY DEF PodCreated
  <1>4. WorldOK /\ Settles
    BY <1>1, <1>3, PodUp
  <1>5. ASSUME NEW p \in Pods, Goes(r, "created", [St(r) EXCEPT !.pod = p])
        PROVE  Held(h)'
    <2> DEFINE s == [St(r) EXCEPT !.pod = p]
    <2>1. s \in Status /\ s.state = St(r).state /\ s.launched = St(r).launched
          /\ s.exit = St(r).exit /\ s.pod # NoPod /\ Goes(r, "created", s)
      BY <1>2, <1>5, RunsAssumption DEF Status
    <2> HIDE DEF s
    <2> QED
      BY <1>1, <1>2, <1>4, <2>1, EarlyTurns
  <1>6. CASE Saves(r, "creating", St(r))
    BY <1>1, <1>2, <1>4, <1>6, EarlyTurns DEF Saves
  <1>7. CASE Fail(r)
    BY <1>1, <1>2, <1>4, <1>7, UnlaunchedFail
  <1> QED
    BY <1>5, <1>6, <1>7 DEF PodCreated

LEMMA PodTakenStep ==
    ASSUME NEW h, Held(h), NEW r \in Runs, PodTaken(r)
    PROVE  HoldsOn(h)
  <1>1. r \in Workers /\ at[r].pc \in {"started", "created"}
    BY DEF Workers, PodTaken, At
  <1>2. WorldOK /\ Settles
    BY AllKept DEF PodTaken
  <1>3. /\ at[r].pc \in Early /\ at[r].pc \in Unlaunched /\ at[r].pc \in Taking
    BY <1>1 DEF Early, Unlaunched, Taking
  <1>4. St(r).pod \in Pods
    <2>1. St(r) \in Status /\ St(r).pod # NoPod
      BY <1>1, <1>3, UnlaunchedFacts
    <2>2. St(r).pod \in Pods \cup {NoPod}
      BY <2>1 DEF Status
    <2> QED
      BY <2>1, <2>2
  <1>5. CASE Allocated(r, St(r).pod)
    BY <1>2, <1>3, <1>4, <1>5, AllocatedHoldsOn
  <1>6. CASE PodUnknown(r)
    BY <1>2, <1>3, <1>6, PodUnknownStep, HeldHoldsOn
  <1> QED
    BY <1>5, <1>6 DEF PodTaken

\* It has a pod, and records what it does next.
LEMMA UnlaunchedSave ==
    ASSUME NEW h, Held(h), NEW w \in Workers, at[w].pc \in Unlaunched \ Early,
           NEW pc \in Unlaunched \ Early, NEW s \in Status, Saves(w, pc, s),
           s.state \notin Terminal \cup {"none"},
           s.pod = St(w).pod, s.launched = St(w).launched, s.exit = St(w).exit,
           WorldOK, Settles
    PROVE  Held(h)'
  <1>1. /\ w \in Runs /\ at[w].run = w /\ at[w].op = "start" /\ w \notin Commands /\ Late(w)
        /\ St(w) \in Status /\ proc[w].is = "none" /\ s.exit = "none" /\ ~s.launched
        /\ s.pod # NoPod /\ s.pod = h[w]
    BY UnlaunchedFacts
  <1>2. pc \in PCs /\ Turns(w, pc, s) /\ Writes(w, s)
    BY DEF Unlaunched, Early, Taking, PCs, Saves
  <1>3. proc'[w].is = "none"
    BY <1>1 DEF Settles, Follows
  <1>4. Knows(s, proc'[w], misled'[w]) /\ Names(s, h[w])
    BY <1>1, JoblessKnows DEF Terminal, Names
  <1>5. Written(s, h[w], proc'[w], misled'[w])
    BY <1>4 DEF Written
  <1>6. Going(w, pc, s).pc = pc /\ Going(w, pc, s).st = s /\ Going(w, pc, s).op = "start"
    BY <1>1, <1>2, GoingParts
  <1>7. pc # "fetch"
    BY DEF Unlaunched, Early, Taking
  <1>8. Carries(w, Going(w, pc, s), h[w], s, proc'[w], misled'[w])
    BY <1>1, <1>3, <1>4, <1>6, <1>7 DEF Carries
  <1> QED
    BY <1>1, <1>2, <1>5, <1>8, TurnStep

LEMMA SshWaitedStep ==
    ASSUME NEW h, Held(h), NEW r \in Runs, SshWaited(r)
    PROVE  Held(h)'
  <1>1. r \in Workers /\ at[r].pc = "ssh"
    BY DEF Workers, SshWaited, At
  <1>2. WorldOK /\ Settles
    BY AllKept DEF SshWaited
  <1>3. /\ {"ssh", "syncing"} \subseteq Unlaunched \ Early /\ "ssh" \in Unlaunched \ Taking
        /\ "syncing" \in States \ (Terminal \cup {"none"})
    BY DEF Unlaunched, Early, Taking, States, Terminal
  <1>4. St(r) \in Status
    BY <1>1, <1>3, UnlaunchedFacts
  <1>5. CASE Saves(r, "syncing", In(St(r), "syncing"))
    BY <1>1, <1>2, <1>3, <1>4, <1>5, InParts, UnlaunchedSave
  <1>6. CASE Fail(r)
    BY <1>1, <1>2, <1>3, <1>6, UnlaunchedFail
  <1> QED
    BY <1>5, <1>6 DEF SshWaited

LEMMA PreparedStep ==
    ASSUME NEW h, Held(h), NEW r \in Runs, Prepared(r)
    PROVE  Held(h)'
  <1>1. r \in Workers /\ at[r].pc \in {"syncing", "boot", "booted"}
    BY DEF Workers, Prepared, At
  <1>2. WorldOK /\ Settles
    BY AllKept DEF Prepared
  <1>3. /\ {"syncing", "boot", "booted", "launch"} \subseteq Unlaunched \ Early
        /\ {"syncing", "boot"} \subseteq Unlaunched \ Taking
        /\ {"bootstrapping", "running"} \subseteq States \ (Terminal \cup {"none"})
    BY DEF Unlaunched, Early, Taking, States, Terminal
  <1>4. St(r) \in Status /\ St(r).state \notin Terminal \cup {"none"}
    BY <1>1, <1>3, UnlaunchedFacts
  <1>5. CASE Saves(r, "boot", In(St(r), "bootstrapping"))
    BY <1>1, <1>2, <1>3, <1>4, <1>5, InParts, UnlaunchedSave
  <1>6. CASE Saves(r, "booted", St(r))
    BY <1>1, <1>2, <1>3, <1>4, <1>6, UnlaunchedSave
  <1>7. CASE Saves(r, "launch", In(St(r), "running"))
    BY <1>1, <1>2, <1>3, <1>4, <1>7, InParts, UnlaunchedSave
  <1>8. CASE at[r].pc \in {"syncing", "boot"} /\ Fail(r)
    BY <1>1, <1>2, <1>3, <1>8, UnlaunchedFail
  <1> QED
    BY <1>5, <1>6, <1>7, <1>8 DEF Prepared, At

\* The job starts; x is what the run's command carries on, d what is on disk of the run.
LEMMA LaunchStep ==
    ASSUME NEW h, Held(h), NEW r \in Runs, at[r].pc = "launch", Reaches(r),
           proc' = [proc EXCEPT ![r] = [is |-> "running", on |-> St(r).pod]],
           UNCHANGED <<pod, world, misled>>,
           NEW s \in Status, s.pod = St(r).pod, s.exit = "none",
           s.state \notin Terminal \cup {"none"} \/ (s.state = "failed" /\ ~s.launched),
           NEW pc \in Later \ {"fetch", "record"}, Turns(r, pc, s),
           UNCHANGED disk \/ Writes(r, s)
    PROVE  Held(h)'
  <1> DEFINE x == Going(r, pc, s)
  <1>1. r \in Workers /\ at[r].pc \in Unlaunched \ Early
    BY DEF Workers, Unlaunched, Early, Taking
  <1>2. /\ at[r].run = r /\ at[r].op = "start" /\ r \notin Commands /\ Late(r)
        /\ proc[r].is = "none" /\ St(r).pod = h[r] /\ St(r).pod # NoPod
        /\ disk[r] \in Status /\ disk[r].state # "none"
    BY <1>1, UnlaunchedFacts
  <1>3. St(r).pod \in Pods
    BY <1>1, <1>2, LateFacts
  <1>4. /\ proc'[r] = [is |-> "running", on |-> St(r).pod]
        /\ \A q \in Runs \ {r} : proc'[q] = proc[q]
        /\ proc' \in [Runs -> Job]
    BY <1>3 DEF Held, TypeOK, Job
  <1>5. WorldOK
    BY <1>4 DEF WorldOK, world, Held, TypeOK
  <1>6. \A q \in Runs : Follows(proc[q], proc'[q]) \/ (q = r /\ proc[q].is = "none")
    BY <1>2, <1>4 DEF Follows
  <1>7. Knows(s, proc'[r], misled'[r]) /\ Names(s, h[r])
    BY <1>2, <1>4 DEF Knows, Names, Terminal, Finished
  <1>8. pc \in PCs /\ pc \notin Unlaunched \cup Early \cup {"waiting", "idle", "fetch", "record"}
    BY DEF Later, Unlaunched
  <1>9. /\ x \in Worker /\ x.pc = pc /\ x.st = s /\ x.op = "start" /\ x.run = r
    BY <1>1, <1>2, <1>8, GoingParts
  <1>10. s.state # "none"
    OBVIOUS
  <1> HIDE DEF x
  <1>11. ASSUME NEW d, d.state # "none"
         PROVE  Carries(r, x, h[r], d, proc'[r], misled'[r])
    BY <1>2, <1>7, <1>8, <1>9, <1>10, <1>11 DEF Carries
  <1>12. PICK d \in {disk[r], s} : disk' = [disk EXCEPT ![r] = d]
    BY <1>2 DEF Writes, Held, TypeOK
  <1>13. d \in Status /\ d.state # "none" /\ Written(d, h[r], proc'[r], misled'[r])
    <2>1. CASE d = s
      BY <1>7, <1>10, <2>1 DEF Written
    <2>2. CASE d = disk[r]
      <3>1. Written(disk[r], h[r], proc[r], misled[r])
        BY DEF Held
      <3>2. Knows(disk[r], proc[r], misled[r]) /\ proc[r].is = "none"
        BY <1>2, <3>1 DEF Written
      <3>3. Knows(disk[r], proc'[r], misled'[r])
        BY <3>2 DEF Knows, Finished
      <3> QED
        BY <1>2, <2>2, <3>1, <3>3 DEF Written
    <2> QED
      BY <2>1, <2>2
  <1>14. Moves(r, x, r, d)
    BY <1>12 DEF Moves, Turns, Going, Held, TypeOK, x
  <1>15. MayMove(r, x, r, d)
    BY <1>9, <1>13 DEF MayMove
  <1>16. Placed(h)'
    <2> SUFFICES ASSUME NEW q \in Runs, proc'[q].is \in Alive
                 PROVE  /\ proc'[q].on \in Pods /\ pod'[proc'[q].on] = "running"
                        /\ proc'[q].on = h[q]
      BY DEF Placed
    <2>1. CASE q = r
      BY <1>2, <1>3, <1>4, <2>1 DEF Reaches, PodIs
    <2>2. CASE q # r
      BY <1>4, <2>2 DEF Held, Placed
    <2> QED
      BY <2>1, <2>2
  <1>17. h \in [Runs -> Pods \cup {NoPod}]
    BY DEF Held
  <1> QED
    BY <1>1, <1>5, <1>6, <1>11, <1>13, <1>14, <1>15, <1>16, <1>17, MoveStep

LEMMA LaunchedStep ==
    ASSUME NEW h, Held(h), NEW r \in Runs, Launched(r)
    PROVE  Held(h)'
  <1> DEFINE s == [St(r) EXCEPT !.launched = TRUE]
             f == In(St(r), "failed")
             runs == /\ Reaches(r)
                     /\ proc' = [proc EXCEPT ![r] = [is |-> "running", on |-> St(r).pod]]
  <1>1. r \in Workers /\ at[r].pc = "launch" /\ UNCHANGED <<pod, world, misled>>
    BY DEF Workers, Launched, At
  <1>2. at[r].pc \in Unlaunched \ Taking /\ at[r].pc \notin Early
    BY <1>1 DEF Unlaunched, Early, Taking
  <1>3. /\ St(r) \in Status /\ St(r).exit = "none" /\ ~St(r).launched
        /\ St(r).state \notin Terminal \cup {"none"}
    BY <1>1, <1>2, UnlaunchedFacts
  <1>4. /\ f \in Status /\ f.pod = St(r).pod /\ f.exit = "none" /\ f.state = "failed"
        /\ ~f.launched
    BY <1>3, InParts DEF States, Terminal
  <1>5. s \in Status /\ s.pod = St(r).pod /\ s.exit = "none" /\ s.state = St(r).state
    BY <1>3 DEF Status
  <1>6. {"launched", "salvage"} \subseteq Later \ {"fetch", "record"}
    BY DEF Later, PCs, Unlaunched, Early, Taking
  <1>7. Fail(r) => Turns(r, "salvage", f) /\ Writes(r, f)
    BY <1>1 DEF Fail, Saves
  <1>8. Goes(r, "launched", s) => Turns(r, "launched", s) /\ UNCHANGED disk
    BY DEF Goes
  <1> HIDE DEF s, f
  <1>9. CASE Fail(r) /\ UNCHANGED proc
    <2>1. WorldOK /\ Settles
      BY <1>1, <1>9, PodUp
    <2> QED
      BY <1>1, <1>2, <1>9, <2>1, UnlaunchedFail
  <1>10. CASE runs /\ Goes(r, "launched", s)
    BY <1>1, <1>3, <1>5, <1>6, <1>8, <1>10, LaunchStep
  <1>11. CASE runs /\ Fail(r)
    BY <1>1, <1>4, <1>6, <1>7, <1>11, LaunchStep
  <1> QED
    BY <1>9, <1>10, <1>11 DEF Launched, s

LEMMA LaunchRecordedStep ==
    ASSUME NEW h, Held(h), NEW r \in Runs, LaunchRecorded(r)
    PROVE  Held(h)'
  <1>1. r \in Workers /\ Late(r) /\ at[r].pc # "record"
    BY DEF Workers, LaunchRecorded, At, Late, Early, Taking
  <1>2. WorldOK /\ Settles
    BY AllKept DEF LaunchRecorded
  <1>3. /\ St(r) \in Status /\ St(r).state # "none" /\ St(r).pod # NoPod /\ at[r].run \in Runs
        /\ Knows(St(r), proc[at[r].run], misled[at[r].run])
    BY <1>1, LateFacts
  <1>4. Knows(St(r), proc'[at[r].run], misled'[at[r].run])
    BY <1>2, <1>3, KnowsSettled
  <1> QED
    BY <1>1, <1>2, <1>3, <1>4, LateEnd, LateReconciled DEF LaunchRecorded

LEMMA SalvagedStep ==
    ASSUME NEW h, Held(h), NEW w \in Workers, Salvaged(w)
    PROVE  Held(h)'
  <1>1. Late(w) /\ at[w].pc = "salvage"
    BY DEF Salvaged, At, Late, Early, Taking
  <1>2. WorldOK /\ Settles /\ proc' = proc /\ misled' = misled
    BY AllKept DEF Salvaged
  <1>3. /\ St(w) \in Status /\ St(w).state # "none" /\ St(w).pod # NoPod
        /\ Knows(St(w), proc[at[w].run], misled[at[w].run])
        /\ at[w].op = "fetch" => St(w).exit # "none" \/ misled[at[w].run]
    BY <1>1, LateFacts
  <1> QED
    BY <1>1, <1>2, <1>3, LateAutoStop DEF Salvaged

-----------------------------------------------------------------------------
(***************************************************************************)
(* A command reads a run's status.                                         *)
(***************************************************************************)
LEMMA BeginsStep ==
    ASSUME NEW h, Held(h), NEW w \in Workers, NEW r \in Runs, NEW pc \in {"lookup", "record"},
           NEW op \in {"start", "status", "fetch", "cancel"}, NEW s \in Status,
           Begins(w, pc, op, r, s), WorldOK, Settles,
           disk[r].state # "none", s.state # "none", s.pod = disk[r].pod, s.launched = disk[r].launched,
           IF pc = "record" THEN s.state \in Podless ELSE s.pod # NoPod,
           Knows(s, proc'[r], misled'[r]),
           w \in Runs => w = r /\ op = "start",
           w \in Commands => op # "start",
           op = "fetch" => s.exit # "none" \/ misled'[r]
    PROVE  Held(h)'
  <1> DEFINE x == [pc |-> pc, op |-> op, run |-> r, st |-> s]
  <1>1. /\ disk \in [Runs -> Status] /\ disk[r] \in Status
        /\ misled[r] \in BOOLEAN /\ misled'[r] \in BOOLEAN /\ (misled[r] => misled'[r])
        /\ Written(disk[r], h[r], proc[r], misled[r])
    BY DEF Held, TypeOK, WorldOK
  <1>2. x \in Worker /\ x.pc = pc /\ x.op = op /\ x.run = r /\ x.st = s
    BY DEF Worker, PCs
  <1>3. Moves(w, x, r, disk[r])
    BY <1>1 DEF Moves, Begins
  <1> HIDE DEF x
  <1>4. MayMove(w, x, r, disk[r])
    BY <1>1, <1>2 DEF MayMove
  <1>5. Written(disk[r], h[r], proc'[r], misled'[r])
    BY <1>1, WrittenOn DEF Settles
  <1>6. Names(s, h[r])
    BY <1>1, NamesFrom DEF Written
  <1>7. pc \notin Unlaunched \cup Early \cup {"waiting", "fetch", "idle"}
    BY DEF Unlaunched, Early, Taking
  <1>8. Carries(w, x, h[r], disk[r], proc'[r], misled'[r])
    BY <1>2, <1>6, <1>7 DEF Carries
  <1> QED
    BY <1>2, <1>3, <1>4, <1>5, <1>8, SettledStep

\* What the file says of the job, it says after a step, too.
LEMMA DiskKnows ==
    ASSUME NEW h, Held(h), WorldOK, Settles, NEW r \in Runs
    PROVE  disk[r] \in Status /\ Knows(disk[r], proc'[r], misled'[r]) /\ Names(disk[r], h[r])
  <1>1. disk[r] \in Status /\ Knows(disk[r], proc[r], misled[r]) /\ Names(disk[r], h[r])
    BY DEF Held, TypeOK, Written
  <1> QED
    BY <1>1, KnowsSettled

\* A run without a pod is over: there is nothing to be known of its job.
LEMMA PodlessBegins ==
    ASSUME NEW h, Held(h), NEW w \in Workers, NEW r \in Runs,
           NEW op \in {"start", "status", "cancel"}, NEW state \in {"failed", "cancelled"},
           Begins(w, "record", op, r, In(disk[r], state)), WorldOK, Settles,
           disk[r].state # "none", disk[r].pod = NoPod,
           w \in Runs => w = r /\ op = "start",
           w \in Commands => op # "start"
    PROVE  Held(h)'
  <1> DEFINE s == In(disk[r], state)
  <1>1. disk[r] \in Status /\ Knows(disk[r], proc'[r], misled'[r]) /\ ~disk[r].launched
    BY DiskKnows DEF Names
  <1>2. /\ s \in Status /\ s.state = state /\ s.pod = disk[r].pod /\ s.exit = disk[r].exit
        /\ s.launched = disk[r].launched
    BY <1>1, InParts DEF States, Terminal
  <1> HIDE DEF s
  <1>3. Knows(s, proc'[r], misled'[r])
    BY <1>1, <1>2 DEF Knows
  <1>4. Begins(w, "record", op, r, s)
    BY DEF s
  <1> QED
    BY <1>2, <1>3, <1>4, BeginsStep DEF Podless

LEMMA ReconcileStep ==
    ASSUME NEW h, Held(h), NEW w \in Workers, NEW r \in Runs, NEW op \in {"start", "status"},
           Reconcile(w, r, op), WorldOK, Settles, disk[r].state # "none",
           w \in Runs => w = r /\ op = "start", w \in Commands => op # "start"
    PROVE  Held(h)'
  <1>1. disk[r] \in Status /\ Knows(disk[r], proc'[r], misled'[r])
    BY DiskKnows
  <1>2. CASE Ends(w)
    BY <1>2, QuietEndStep
  <1>3. CASE disk[r].pod = NoPod /\ Begins(w, "record", op, r, In(disk[r], "failed"))
    BY <1>3, PodlessBegins
  <1>4. CASE disk[r].pod # NoPod /\ Begins(w, "lookup", op, r, disk[r])
    BY <1>1, <1>4, BeginsStep
  <1> QED
    BY <1>2, <1>3, <1>4 DEF Reconcile

LEMMA LookAgainStep ==
    ASSUME NEW h, Held(h), NEW r \in Runs, LookAgain(r)
    PROVE  Held(h)'
  <1>1. r \in Workers /\ at[r].pc = "waiting" /\ r \notin Commands
    BY RunsAssumption DEF Workers, LookAgain, At
  <1>2. WorldOK /\ Settles
    BY AllKept DEF LookAgain
  <1>3. disk[r].state # "none"
    BY <1>1, OwnRun DEF Held, Carries
  <1> QED
    BY <1>1, <1>2, <1>3, ReconcileStep DEF LookAgain

LEMMA StatusCommandStep ==
    ASSUME NEW h, Held(h), NEW c \in Commands, NEW r \in Runs, StatusCommand(c, r)
    PROVE  Held(h)'
  <1>1. c \in Workers /\ c \notin Runs
    BY RunsAssumption DEF Workers
  <1>2. WorldOK /\ Settles
    BY AllKept DEF StatusCommand
  <1>3. disk[r].state # "none"
    BY DEF StatusCommand, Held, Written
  <1> QED
    BY <1>1, <1>2, <1>3, ReconcileStep DEF StatusCommand

LEMMA FetchCommandStep ==
    ASSUME NEW h, Held(h), NEW c \in Commands, NEW r \in Runs, FetchCommand(c, r)
    PROVE  Held(h)'
  <1>1. c \in Workers /\ c \notin Runs
    BY RunsAssumption DEF Workers
  <1>2. /\ misled \in [Runs -> BOOLEAN]
        /\ misled' = [misled EXCEPT ![r] = @ \/ disk[r].exit = "none"]
    BY DEF FetchCommand, Held, TypeOK
  <1>3. /\ misled' \in [Runs -> BOOLEAN] /\ \A q \in Runs : misled[q] => misled'[q]
        /\ disk[r].exit # "none" \/ misled'[r]
    BY <1>2
  <1>4. PodKept /\ UNCHANGED world /\ disk[r].pod # NoPod
        /\ Begins(c, "lookup", "fetch", r, disk[r])
    BY DEF FetchCommand
  <1>5. WorldOK /\ Settles
    BY <1>3, <1>4, KeptSettles DEF WorldOK, world, Held, TypeOK
  <1>6. disk[r].state # "none"
    BY <1>4, NoStatusParts DEF Held, Written
  <1>7. disk[r] \in Status /\ Knows(disk[r], proc'[r], misled'[r])
    BY <1>5, DiskKnows
  <1> QED
    BY <1>1, <1>3, <1>4, <1>5, <1>6, <1>7, BeginsStep

LEMMA CancelCommandStep ==
    ASSUME NEW h, Held(h), NEW c \in Commands, NEW r \in Runs, CancelCommand(c, r)
    PROVE  Held(h)'
  <1>1. c \in Workers /\ c \notin Runs /\ disk[r].state # "none"
    BY RunsAssumption DEF Workers, CancelCommand
  <1>2. WorldOK /\ Settles
    BY AllKept DEF CancelCommand
  <1>3. disk[r] \in Status /\ Knows(disk[r], proc'[r], misled'[r])
    BY <1>2, DiskKnows
  <1>4. CASE disk[r].pod = NoPod /\ Begins(c, "record", "cancel", r, In(disk[r], "cancelled"))
    BY <1>1, <1>2, <1>4, PodlessBegins
  <1>5. CASE disk[r].pod # NoPod /\ Begins(c, "lookup", "cancel", r, disk[r])
    BY <1>1, <1>2, <1>3, <1>5, BeginsStep
  <1> QED
    BY <1>4, <1>5 DEF CancelCommand

-----------------------------------------------------------------------------
(***************************************************************************)
(* A command at work on a run with a pod.                                  *)
(***************************************************************************)
\* The run's own state changes, and nothing it says of its job.
LEMMA KnowsIn ==
    ASSUME NEW s \in Status, NEW state \in States \ (Finished \cup {"completed", "failed"}),
           NEW j, NEW m, Knows(s, j, m)
    PROVE  Knows(In(s, state), j, m)
  BY InParts DEF Knows

\* What it knows the exit code of, has ended with it.
LEMMA LateExit ==
    ASSUME NEW h, Held(h), NEW w \in Workers, Late(w)
    PROVE  St(w).exit # "none" => proc[at[w].run].is = St(w).exit /\ St(w).exit \in {"ok", "bad"}
  <1>1. St(w) \in Status /\ Knows(St(w), proc[at[w].run], misled[at[w].run])
    BY LateFacts
  <1>2. St(w).exit \in {"none", "ok", "bad"}
    BY <1>1 DEF Status
  <1> QED
    BY <1>1, <1>2 DEF Knows

\* Its pod has been stopped.
LEMMA LateStopped ==
    ASSUME NEW h, Held(h), NEW w \in Workers, Late(w), at[w].pc # "record", Stop(St(w).pod),
           UNCHANGED <<world, misled>>
    PROVE  WorldOK /\ Settles /\ proc'[at[w].run].is \notin Alive
  <1>1. St(w).pod \in Pods /\ St(w).pod = h[at[w].run] /\ at[w].run \in Runs
    BY LateFacts
  <1>2. /\ Settles /\ pod' \in [Pods -> {"absent", "running", "exited", "lost"}]
        /\ proc' \in [Runs -> Job]
        /\ \A r \in Runs : proc'[r].is \in Alive => proc[r].on # St(w).pod
    BY <1>1, StopSettles
  <1>3. WorldOK
    BY <1>2 DEF WorldOK, world, Held, TypeOK
  <1>4. proc'[at[w].run].is \in Alive => proc[at[w].run].is \in Alive
    BY <1>1, <1>2, AliveBefore DEF Settles
  <1>5. proc[at[w].run].is \in Alive => proc[at[w].run].on = St(w).pod
    BY <1>1 DEF Held, Placed
  <1> QED
    BY <1>1, <1>2, <1>3, <1>4, <1>5

LEMMA LateStopFailed ==
    ASSUME NEW h, Held(h), NEW w \in Workers, Late(w), at[w].pc # "record",
           StopFails(St(w).pod), UNCHANGED <<world, misled>>
    PROVE  WorldOK /\ Settles
  <1>1. St(w).pod \in Pods
    BY LateFacts
  <1>2. /\ Settles /\ pod' \in [Pods -> {"absent", "running", "exited", "lost"}]
        /\ proc' \in [Runs -> Job]
    BY <1>1, StopFailsSettles
  <1> QED
    BY <1>2 DEF WorldOK, world, Held, TypeOK

\* Its run has ended, and its job is over: this is to be recorded.
LEMMA FinishedStep ==
    ASSUME NEW h, Held(h), NEW w \in Workers, Late(w), at[w].pc # "record",
           NEW state \in Finished, NEW pc \in {"record"},
           Goes(w, pc, In(St(w), state)) \/ EndsWith(w, In(St(w), state)),
           WorldOK, Settles, ~misled'[at[w].run] => proc'[at[w].run].is \notin Alive
    PROVE  Held(h)'
  <1> DEFINE s == In(St(w), state)
  <1>1. /\ St(w) \in Status /\ at[w].run \in Runs /\ St(w).pod # NoPod
        /\ Knows(St(w), proc[at[w].run], misled[at[w].run])
        /\ at[w].op = "fetch" => St(w).exit # "none" \/ misled[at[w].run]
        /\ misled[at[w].run] => misled'[at[w].run]
    BY LateFacts DEF WorldOK
  <1>2. /\ s \in Status /\ s.state = state /\ s.pod = St(w).pod /\ s.exit = St(w).exit
        /\ s.launched = St(w).launched
    BY <1>1, InParts DEF States, Terminal, Finished
  <1>3. Knows(St(w), proc'[at[w].run], misled'[at[w].run])
    BY <1>1, KnowsSettled
  <1>4. Knows(s, proc'[at[w].run], misled'[at[w].run]) /\ s.state # "none"
    BY <1>2, <1>3 DEF Knows, Finished
  <1>5. pc \in Later /\ pc # "fetch"
    BY DEF Later, PCs, Unlaunched, Early, Taking
  <1> HIDE DEF s
  <1>6. Goes(w, pc, s) \/ EndsWith(w, s)
    BY DEF s
  <1> QED
    BY <1>1, <1>2, <1>4, <1>5, <1>6, LateEnd, LateGoesWith

\* The provider did not show it the pod: a job that is still at work misleads it.
LEMMA LateNoAnswer ==
    ASSUME NEW h, Held(h), NEW w \in Workers, Late(w), at[w].pc # "record", NoAnswer(w),
           PodKept, UNCHANGED world
    PROVE  /\ WorldOK /\ Settles /\ proc' = proc
           /\ ~misled'[at[w].run] => proc'[at[w].run].is \notin Alive
  <1> DEFINE r == at[w].run
  <1>1. /\ r \in Runs /\ St(w).pod \in Pods /\ St(w).pod # NoPod /\ St(w).pod = h[r]
    BY LateFacts
  <1>2. misled \in [Runs -> BOOLEAN] /\ misled' = [misled EXCEPT ![r] = @ \/ PodIs(w, {"running"})]
    BY DEF NoAnswer, Held, TypeOK
  <1>3. PodIs(w, {"running"}) \in BOOLEAN
    BY DEF PodIs
  <1>4. misled' \in [Runs -> BOOLEAN] /\ \A q \in Runs : misled[q] => misled'[q]
    BY <1>2, <1>3
  <1>5. misled'[r] \/ ~PodIs(w, {"running"})
    BY <1>1, <1>2
  <1>6. proc[r].is \in Alive => PodIs(w, {"running"})
    BY <1>1 DEF Held, Placed, PodIs
  <1>7. WorldOK /\ Settles /\ proc' = proc
    BY <1>4, KeptSettles DEF WorldOK, PodKept, world, Held, TypeOK
  <1> QED
    BY <1>5, <1>6, <1>7

LEMMA AutoStoppedStep ==
    ASSUME NEW h, Held(h), NEW w \in Workers, AutoStopped(w)
    PROVE  Held(h)'
  <1>1. Late(w) /\ at[w].pc # "record"
    BY DEF AutoStopped, At, Late, Early, Taking
  <1>2. {"record", "unstopped", "cleanup"} \subseteq Later \ {"fetch"}
    BY DEF Later, PCs, Unlaunched, Early, Taking
  <1>3. CASE Stop(St(w).pod) /\ Goes(w, "record", St(w))
    <2>1. WorldOK /\ Settles
      BY <1>1, <1>3, LateStopped DEF AutoStopped
    <2> QED
      BY <1>1, <1>2, <1>3, <2>1, LateGoes
  <1>4. CASE StopFails(St(w).pod) /\ \E pc \in {"unstopped", "cleanup"} : Goes(w, pc, St(w))
    <2>1. WorldOK /\ Settles
      BY <1>1, <1>4, LateStopFailed DEF AutoStopped
    <2> QED
      BY <1>1, <1>2, <1>4, <2>1, LateGoes
  <1> QED
    BY <1>3, <1>4 DEF AutoStopped

\* A command writes what it carries, or ends the run with it.
LEMMA LateSame ==
    ASSUME NEW h, Held(h), NEW w \in Workers, Late(w), at[w].pc # "record",
           NEW pc \in Later, pc = "fetch" => at[w].op = "fetch", WorldOK, Settles,
           Saves(w, pc, St(w))
    PROVE  Held(h)'
  <1>1. /\ St(w) \in Status /\ St(w).state # "none" /\ St(w).pod # NoPod /\ at[w].run \in Runs
        /\ Knows(St(w), proc[at[w].run], misled[at[w].run])
        /\ at[w].op = "fetch" => St(w).exit # "none" \/ misled[at[w].run]
        /\ misled[at[w].run] => misled'[at[w].run]
    BY LateFacts DEF WorldOK
  <1>2. Knows(St(w), proc'[at[w].run], misled'[at[w].run])
    BY <1>1, KnowsSettled
  <1> QED
    BY <1>1, <1>2, LateSave

LEMMA UnstoppedStep ==
    ASSUME NEW h, Held(h), NEW w \in Workers, Unstopped(w)
    PROVE  Held(h)'
  <1>1. Late(w) /\ at[w].pc # "record"
    BY DEF Unstopped, At, Late, Early, Taking
  <1>2. WorldOK /\ Settles /\ proc' = proc /\ misled' = misled
    BY AllKept DEF Unstopped
  <1>3. CASE Saves(w, "cleanup", St(w))
    <2>1. "cleanup" \in Later /\ "cleanup" # "fetch"
      BY DEF Later, PCs, Unlaunched, Early, Taking
    <2> QED
      BY <1>1, <1>2, <1>3, <2>1, LateSame
  <1>4. CASE EndsWith(w, In(St(w), "cleanup_failed"))
    <2> DEFINE s == In(St(w), "cleanup_failed")
    <2>1. "cleanup_failed" \in States \ (Finished \cup {"completed", "failed"})
          /\ "cleanup_failed" # "none"
      BY DEF States, Terminal, Finished
    <2>2. St(w) \in Status /\ St(w).pod # NoPod
          /\ Knows(St(w), proc[at[w].run], misled[at[w].run])
      BY <1>1, LateFacts
    <2>3. s \in Status /\ s.state = "cleanup_failed" /\ s.pod = St(w).pod
          /\ s.launched = St(w).launched /\ Knows(s, proc[at[w].run], misled[at[w].run])
      BY <2>1, <2>2, InParts, KnowsIn
    <2> HIDE DEF s
    <2>4. EndsWith(w, s)
      BY <1>4 DEF s
    <2> QED
      BY <1>1, <1>2, <2>1, <2>2, <2>3, <2>4, LateEnd
  <1> QED
    BY <1>3, <1>4 DEF Unstopped

LEMMA RecordedStep ==
    ASSUME NEW h, Held(h), NEW w \in Workers, Recorded(w)
    PROVE  Held(h)'
  <1>1. Late(w) /\ EndsWith(w, St(w))
    BY DEF Recorded, At, Late, Early, Taking
  <1>2. WorldOK /\ Settles /\ proc' = proc /\ misled' = misled
    BY AllKept DEF Recorded, PodKept
  <1>3. /\ St(w) \in Status /\ St(w).state # "none" /\ Names(St(w), h[at[w].run])
        /\ Knows(St(w), proc[at[w].run], misled[at[w].run])
    BY <1>1, LateFacts
  <1> QED
    BY <1>1, <1>2, <1>3, LateEnd DEF Names

LEMMA LookedUpStep ==
    ASSUME NEW h, Held(h), NEW w \in Workers, LookedUp(w)
    PROVE  Held(h)'
  <1>1. Late(w) /\ at[w].pc # "record" /\ PodKept /\ UNCHANGED world
    BY DEF LookedUp, At, Late, Early, Taking
  <1>2. CASE Saves(w, "open", St(w)) /\ UNCHANGED misled
    <2>1. WorldOK /\ Settles
      BY <1>1, <1>2, AllKept
    <2>2. "open" \in Later /\ "open" # "fetch"
      BY DEF Later, PCs, Unlaunched, Early, Taking
    <2> QED
      BY <1>1, <1>2, <2>1, <2>2, LateSame
  <1>3. CASE NoAnswer(w) /\ Reconciled(w, In(St(w), "failed"))
    <2> DEFINE s == In(St(w), "failed")
    <2>1. /\ WorldOK /\ Settles /\ proc' = proc
          /\ ~misled'[at[w].run] => proc'[at[w].run].is \notin Alive
      BY <1>1, <1>3, LateNoAnswer
    <2>2. /\ St(w) \in Status /\ St(w).pod # NoPod
          /\ Knows(St(w), proc[at[w].run], misled[at[w].run])
      BY <1>1, LateFacts
    <2>3. s \in Status /\ s.state = "failed" /\ s.pod = St(w).pod /\ s.exit = St(w).exit
          /\ s.launched = St(w).launched
      BY <2>2, InParts DEF States, Terminal
    <2> HIDE DEF s
    <2>4. Knows(s, proc'[at[w].run], misled'[at[w].run])
      BY <2>1, <2>2, <2>3 DEF Knows, Alive, Finished
    <2>5. Reconciled(w, s) /\ s.state # "none"
      BY <1>3, <2>3 DEF s
    <2> QED
      BY <1>1, <2>1, <2>2, <2>3, <2>4, <2>5, LateReconciled
  <1> QED
    BY <1>2, <1>3 DEF LookedUp

LEMMA OpenedStep ==
    ASSUME NEW h, Held(h), NEW w \in Workers, Opened(w)
    PROVE  Held(h)'
  <1>1. Late(w) /\ at[w].pc # "record"
    BY DEF Opened, At, Late, Early, Taking
  <1>2. WorldOK /\ Settles /\ proc' = proc /\ misled' = misled
    BY AllKept DEF Opened
  <1>3. CASE Goes(w, "logs", St(w))
    <2>1. "logs" \in Later \ {"fetch"}
      BY DEF Later, PCs, Unlaunched, Early, Taking
    <2> QED
      BY <1>1, <1>2, <1>3, <2>1, LateGoes
  <1>4. CASE Reconciled(w, In(St(w), "running_unreachable"))
    <2> DEFINE s == In(St(w), "running_unreachable")
    <2>1. "running_unreachable" \in States \ (Finished \cup {"completed", "failed"})
          /\ "running_unreachable" # "none"
      BY DEF States, Terminal, Finished
    <2>2. St(w) \in Status /\ St(w).pod # NoPod
          /\ Knows(St(w), proc[at[w].run], misled[at[w].run])
      BY <1>1, LateFacts
    <2>3. s \in Status /\ s.state = "running_unreachable" /\ s.pod = St(w).pod
          /\ s.launched = St(w).launched /\ Knows(s, proc'[at[w].run], misled'[at[w].run])
      BY <1>2, <2>1, <2>2, InParts, KnowsIn
    <2> HIDE DEF s
    <2>4. Reconciled(w, s)
      BY <1>4 DEF s
    <2> QED
      BY <1>1, <1>2, <2>1, <2>2, <2>3, <2>4, LateReconciled
  <1> QED
    BY <1>3, <1>4 DEF Opened

LEMMA LogsFetchedStep ==
    ASSUME NEW h, Held(h), NEW w \in Workers, LogsFetched(w)
    PROVE  Held(h)'
  <1>1. Late(w) /\ at[w].pc # "record"
    BY DEF LogsFetched, At, Late, Early, Taking
  <1>2. WorldOK /\ Settles /\ proc' = proc /\ misled' = misled
    BY AllKept DEF LogsFetched
  <1>3. {"stop", "fetch", "inspect"} \subseteq Later
    BY DEF Later, PCs, Unlaunched, Early, Taking
  <1>4. /\ St(w) \in Status /\ St(w).pod # NoPod /\ St(w).state # "none"
        /\ Knows(St(w), proc[at[w].run], misled[at[w].run])
    BY <1>1, LateFacts
  <1>5. CASE Saves(w, "stop", St(w)) \/ Saves(w, "inspect", St(w))
    BY <1>1, <1>2, <1>3, <1>5, LateSame
  <1>6. CASE at[w].op = "fetch" /\ Saves(w, "fetch", St(w))
    BY <1>1, <1>2, <1>3, <1>6, LateSame
  <1>7. CASE Reconciled(w, St(w))
    BY <1>1, <1>2, <1>4, <1>7, LateReconciled
  <1> QED
    BY <1>5, <1>6, <1>7 DEF LogsFetched

LEMMA CutStep ==
    ASSUME NEW h, Held(h), NEW w \in Workers, Cut(w) \/ Crash(w)
    PROVE  Held(h)'
  BY AllKept, QuietEndStep DEF Cut, Crash

\* A job ends, is killed, or loses its wrapper.
LEMMA JobMoves ==
    ASSUME NEW h, Held(h), NEW r \in Runs, NEW k \in Job, Follows(proc[r], k), k.on = proc[r].on,
           proc' = [proc EXCEPT ![r] = k], UNCHANGED <<pod, world, misled>>
    PROVE  WorldOK /\ Settles /\ proc'[r] = k
  <1>1. proc \in [Runs -> Job]
    BY DEF Held, TypeOK
  <1>2. /\ proc'[r] = k /\ \A q \in Runs \ {r} : proc'[q] = proc[q]
        /\ proc' \in [Runs -> Job]
    BY <1>1
  <1>3. Settles
    <2> SUFFICES ASSUME NEW q \in Runs
                 PROVE  Follows(proc[q], proc'[q]) /\ proc'[q].on = proc[q].on
      BY DEF Settles
    <2> QED
      BY <1>2 DEF Follows
  <1> QED
    BY <1>2, <1>3 DEF WorldOK, world, Held, TypeOK

LEMMA JobOver ==
    ASSUME NEW h, Held(h), NEW r \in Runs, NEW e \in {"ok", "bad", "killed", "orphan"},
           IF proc[r].is = "running" THEN TRUE ELSE proc[r].is = "orphan" /\ e = "killed",
           proc' = [proc EXCEPT ![r].is = e], UNCHANGED <<pod, world, misled>>
    PROVE  WorldOK /\ Settles /\ proc'[r].is = e
  <1> DEFINE k == [proc[r] EXCEPT !.is = e]
  <1>1. proc \in [Runs -> Job] /\ proc[r] \in Job
    BY DEF Held, TypeOK
  <1>2. k \in Job /\ k.is = e /\ k.on = proc[r].on
    BY <1>1 DEF Job
  <1>3. proc' = [proc EXCEPT ![r] = k]
    OBVIOUS
  <1> HIDE DEF k
  <1>4. Follows(proc[r], k)
    BY <1>2 DEF Follows
  <1> QED
    BY <1>2, <1>3, <1>4, JobMoves

\* What inspectRemoteRun finds of a run.
LEMMA InspectedStep ==
    ASSUME NEW h, Held(h), NEW w \in Workers, Inspected(w)
    PROVE  Held(h)'
  <1> DEFINE r == at[w].run
             unseen == [St(w) EXCEPT !.exit = "none"]
             dead == In(unseen, "failed")
  <1>1. Late(w) /\ UNCHANGED <<pod, world, misled>> /\ at[w].pc = "inspect"
    BY DEF Inspected, At, Late, Early, Taking
  <1>2. /\ St(w) \in Status /\ St(w).state # "none" /\ r \in Runs /\ St(w).pod # NoPod
        /\ misled[r] \in BOOLEAN
        /\ Knows(St(w), proc[r], misled[r])
        /\ at[w].op = "fetch" => St(w).exit # "none" \/ misled[r]
    BY <1>1, LateFacts
  <1>3. St(w).exit # "none" => proc[r].is = St(w).exit /\ St(w).exit \in {"ok", "bad"}
    BY <1>1, LateExit
  <1>4. /\ unseen \in Status /\ unseen.state = St(w).state /\ unseen.pod = St(w).pod
        /\ unseen.launched = St(w).launched /\ unseen.exit = "none"
        /\ Knows(unseen, proc[r], misled[r])
    <2>1. /\ unseen \in Status /\ unseen.state = St(w).state /\ unseen.pod = St(w).pod
          /\ unseen.launched = St(w).launched /\ unseen.exit = "none"
      BY <1>2 DEF Status
    <2> HIDE DEF unseen
    <2> QED
      BY <1>2, <2>1 DEF Knows
  <1>5. /\ dead \in Status /\ dead.state = "failed" /\ dead.pod = St(w).pod
        /\ dead.launched = St(w).launched /\ dead.exit = "none"
    BY <1>4, InParts DEF States, Terminal
  <1>6. UNCHANGED proc => WorldOK /\ Settles /\ proc' = proc /\ misled' = misled
    BY <1>1, AllKept DEF PodKept
  <1>7. /\ {"fetch", "timeout"} \subseteq Later
        /\ {"fetching", "running"} \subseteq States \ (Finished \cup {"completed", "failed"})
    BY DEF Later, PCs, Unlaunched, Early, Taking, States, Terminal, Finished
  <1>8. CASE /\ UNCHANGED proc /\ proc[r].is \in {"ok", "bad"}
             /\ Saves(w, "fetch", [In(St(w), "fetching") EXCEPT !.exit = proc[r].is])
    <2> DEFINE s == [In(St(w), "fetching") EXCEPT !.exit = proc[r].is]
    <2>1. WorldOK /\ Settles /\ proc' = proc /\ misled' = misled
      BY <1>6, <1>8
    <2>2. In(St(w), "fetching") \in Status /\ In(St(w), "fetching").pod = St(w).pod
          /\ In(St(w), "fetching").state = "fetching"
          /\ In(St(w), "fetching").launched = St(w).launched
      BY <1>2, <1>7, InParts
    <2>3. s \in Status /\ s.state = "fetching" /\ s.pod = St(w).pod /\ s.exit = proc[r].is
          /\ s.launched = St(w).launched
      BY <1>8, <2>2 DEF Status
    <2> HIDE DEF s
    <2>4. Knows(s, proc'[r], misled'[r]) /\ s.exit # "none"
      BY <1>8, <2>1, <2>3 DEF Knows, Finished
    <2>5. Saves(w, "fetch", s)
      BY <1>8 DEF s
    <2> QED
      BY <1>1, <1>2, <1>7, <2>1, <2>3, <2>4, <2>5, LateSave
  <1>9. CASE /\ UNCHANGED proc /\ proc[r].is = "running" /\ Saves(w, "timeout", unseen)
    <2>1. WorldOK /\ Settles /\ proc' = proc /\ misled' = misled
      BY <1>6, <1>9
    <2>2. at[w].op = "fetch" => misled[r]
      BY <1>2, <1>3, <1>9
    <2> HIDE DEF unseen
    <2> QED
      BY <1>1, <1>2, <1>4, <1>7, <1>9, <2>1, <2>2, LateSave
  <1>10. CASE /\ UNCHANGED proc /\ Reconciled(w, In(unseen, "running"))
    <2> DEFINE s == In(unseen, "running")
    <2>1. WorldOK /\ Settles /\ proc' = proc /\ misled' = misled
      BY <1>6, <1>10
    <2> HIDE DEF unseen
    <2>2. s \in Status /\ s.state = "running" /\ s.pod = St(w).pod /\ Knows(s, proc[r], misled[r])
          /\ s.launched = St(w).launched
      BY <1>4, <1>7, InParts, KnowsIn
    <2> HIDE DEF s
    <2>3. Reconciled(w, s)
      BY <1>10 DEF s
    <2> QED
      BY <1>1, <1>2, <2>1, <2>2, <2>3, LateReconciled
  <1> HIDE DEF unseen, dead
  <1>11. CASE /\ UNCHANGED proc /\ proc[r].is # "running" /\ Reconciled(w, dead)
    <2>1. WorldOK /\ Settles /\ proc' = proc /\ misled' = misled
      BY <1>6, <1>11
    <2>2. Knows(dead, proc'[r], misled'[r])
      BY <1>2, <1>5, <1>11, <2>1 DEF Knows, Finished
    <2> QED
      BY <1>1, <1>2, <1>5, <1>11, <2>1, <2>2, LateReconciled
  <1>12. CASE /\ proc[r].is = "running" /\ Reconciled(w, dead)
              /\ \E e \in {"ok", "bad"} : proc' = [proc EXCEPT ![r].is = e]
    <2>1. PICK e \in {"ok", "bad"} : proc' = [proc EXCEPT ![r].is = e]
      BY <1>12
    <2>2. WorldOK /\ Settles /\ proc'[r].is = e
      BY <1>1, <1>2, <1>12, <2>1, JobOver
    <2>3. Knows(dead, proc'[r], misled'[r])
      BY <1>2, <1>5, <1>12, <2>2 DEF Knows, Finished
    <2> QED
      BY <1>1, <1>2, <1>5, <1>12, <2>2, <2>3, LateReconciled
  <1> QED
    BY <1>8, <1>9, <1>10, <1>11, <1>12 DEF Inspected, unseen, dead

LEMMA TimedOutStep ==
    ASSUME NEW h, Held(h), NEW w \in Workers, TimedOut(w)
    PROVE  Held(h)'
  <1>1. Late(w) /\ at[w].pc # "record" /\ UNCHANGED <<world, misled>>
    BY DEF TimedOut, At, Late, Early, Taking
  <1>2. CASE Stop(St(w).pod) /\ Goes(w, "record", In(St(w), "timed_out"))
    BY <1>1, <1>2, LateStopped, FinishedStep DEF Finished
  <1>3. CASE StopFails(St(w).pod) /\ Ends(w)
    BY <1>1, <1>3, LateStopFailed, QuietEndStep
  <1> QED
    BY <1>2, <1>3 DEF TimedOut

LEMMA FetchedStep ==
    ASSUME NEW h, Held(h), NEW w \in Workers, Fetched(w)
    PROVE  Held(h)'
  <1>1. Late(w) /\ at[w].pc = "fetch"
    BY DEF Fetched, At, Late, Early, Taking
  <1>2. WorldOK /\ Settles /\ proc' = proc /\ misled' = misled
    BY AllKept DEF Fetched
  <1>3. PICK outcome \in {Outcome(St(w)), "failed"} :
          IF at[w].op = "fetch" THEN EndsWith(w, In(St(w), outcome))
                                ELSE AutoStop(w, In(St(w), outcome))
    BY DEF Fetched
  <1>4. /\ St(w) \in Status /\ Knows(St(w), proc[at[w].run], misled[at[w].run])
        /\ St(w).exit # "none" \/ misled[at[w].run]
        /\ St(w).pod # NoPod
    BY <1>1, LateFacts
  <1>5. /\ outcome = "failed" \/ (outcome = "completed" /\ St(w).exit = "ok")
        /\ outcome \in States /\ outcome # "none"
    BY DEF Outcome, States, Terminal
  <1> DEFINE s == In(St(w), outcome)
  <1>6. /\ s \in Status /\ s.state = outcome /\ s.pod = St(w).pod
        /\ s.launched = St(w).launched /\ s.exit = St(w).exit
    BY <1>4, <1>5, InParts
  <1> HIDE DEF s
  <1>7. St(w).exit # "none" => proc[at[w].run].is = St(w).exit /\ St(w).exit \in {"ok", "bad"}
    BY <1>1, LateExit
  <1>8. Knows(s, proc'[at[w].run], misled'[at[w].run])
    BY <1>2, <1>4, <1>5, <1>6, <1>7 DEF Knows, Finished
  <1>9. CASE EndsWith(w, s)
    BY <1>1, <1>2, <1>4, <1>5, <1>6, <1>8, <1>9, LateEnd
  <1>10. CASE at[w].op # "fetch" /\ AutoStop(w, s)
    BY <1>1, <1>2, <1>4, <1>5, <1>6, <1>8, <1>10, LateAutoStop
  <1> QED
    BY <1>3, <1>9, <1>10 DEF s

LEMMA FetchReachesStep ==
    ASSUME NEW h, Held(h), NEW w \in Workers, FetchReaches(w)
    PROVE  Held(h)'
  <1>1. Late(w) /\ at[w].pc # "record"
    BY DEF FetchReaches, At, Late, Early, Taking
  <1>2. WorldOK /\ Settles
    BY AllKept DEF FetchReaches
  <1>3. {"open", "logs"} \subseteq Later \ {"fetch"}
    BY DEF Later, PCs, Unlaunched, Early, Taking
  <1>4. CASE Ends(w)
    BY <1>2, <1>4, QuietEndStep
  <1>5. CASE \E pc \in {"open", "logs"} : Goes(w, pc, St(w))
    BY <1>1, <1>2, <1>3, <1>5, LateGoes
  <1> QED
    BY <1>4, <1>5 DEF FetchReaches

-----------------------------------------------------------------------------
(***************************************************************************)
(* cancelRun, once it has read the status.                                 *)
(***************************************************************************)
LEMMA CancelLooksUpStep ==
    ASSUME NEW h, Held(h), NEW w \in Workers, CancelLooksUp(w)
    PROVE  Held(h)'
  <1>1. Late(w) /\ at[w].pc # "record" /\ PodKept /\ UNCHANGED world
    BY DEF CancelLooksUp, At, Late, Early, Taking
  <1>2. CASE Goes(w, "open", St(w)) /\ UNCHANGED misled
    <2>1. WorldOK /\ Settles
      BY <1>1, <1>2, AllKept
    <2>2. "open" \in Later \ {"fetch"}
      BY DEF Later, PCs, Unlaunched, Early, Taking
    <2> QED
      BY <1>1, <1>2, <2>1, <2>2, LateGoes
  <1>3. CASE NoAnswer(w) /\ EndsWith(w, In(St(w), "cancelled"))
    BY <1>1, <1>3, LateNoAnswer, FinishedStep DEF Finished
  <1> QED
    BY <1>2, <1>3 DEF CancelLooksUp

LEMMA CancelOpensStep ==
    ASSUME NEW h, Held(h), NEW w \in Workers, CancelOpens(w)
    PROVE  Held(h)'
  <1>1. Late(w) /\ at[w].pc # "record"
    BY DEF CancelOpens, At, Late, Early, Taking
  <1>2. WorldOK /\ Settles
    BY AllKept DEF CancelOpens
  <1>3. PICK pc \in {"kill", "stop"} : Goes(w, pc, St(w))
    BY DEF CancelOpens
  <1>4. pc \in Later \ {"fetch"}
    BY DEF Later, PCs, Unlaunched, Early, Taking
  <1> QED
    BY <1>1, <1>2, <1>3, <1>4, LateGoes

LEMMA CancelKillsStep ==
    ASSUME NEW h, Held(h), NEW w \in Workers, CancelKills(w)
    PROVE  Held(h)'
  <1> DEFINE r == at[w].run
  <1>1. Late(w) /\ at[w].pc # "record" /\ UNCHANGED <<pod, world, misled>>
        /\ proc' = [proc EXCEPT ![r].is = IF @ = "running" THEN "orphan" ELSE @]
    BY DEF CancelKills, At, Late, Early, Taking
  <1>2. r \in Runs /\ proc[r] \in Job /\ proc \in [Runs -> Job]
    BY <1>1, LateFacts DEF Held, TypeOK
  <1>3. WorldOK /\ Settles
    <2>1. CASE proc[r].is = "running"
      <3>1. proc' = [proc EXCEPT ![r].is = "orphan"]
        BY <1>1, <2>1
      <3> QED
        BY <1>1, <1>2, <2>1, <3>1, JobOver
    <2>2. CASE proc[r].is # "running"
      <3>1. proc' = [proc EXCEPT ![r].is = @]
        BY <1>1, <2>2
      <3>2. [proc[r] EXCEPT !.is = @] = proc[r]
        BY <1>2 DEF Job
      <3>3. proc' = [proc EXCEPT ![r] = proc[r]]
        BY <3>1, <3>2
      <3>4. proc' = proc
        BY <1>2, <3>3
      <3> QED
        BY <1>1, <3>4, AllKept DEF PodKept
    <2> QED
      BY <2>1, <2>2
  <1>4. "logs" \in Later \ {"fetch"}
    BY DEF Later, PCs, Unlaunched, Early, Taking
  <1>5. Goes(w, "logs", St(w)) \/ Ends(w)
    BY DEF CancelKills
  <1> QED
    BY <1>1, <1>3, <1>4, <1>5, LateGoes, QuietEndStep

LEMMA CancelStopsStep ==
    ASSUME NEW h, Held(h), NEW w \in Workers, CancelStops(w)
    PROVE  Held(h)'
  <1>1. Late(w) /\ at[w].pc # "record" /\ UNCHANGED <<world, misled>>
    BY DEF CancelStops, At, Late, Early, Taking
  <1>2. CASE Stop(St(w).pod) /\ Goes(w, "record", In(St(w), "cancelled"))
    BY <1>1, <1>2, LateStopped, FinishedStep DEF Finished
  <1>3. CASE StopFails(St(w).pod) /\ Ends(w)
    BY <1>1, <1>3, LateStopFailed, QuietEndStep
  <1> QED
    BY <1>2, <1>3 DEF CancelStops

-----------------------------------------------------------------------------
(***************************************************************************)
(* A step in which no command moves.                                       *)
(***************************************************************************)
LEMMA WorldStep ==
    ASSUME NEW h, Held(h), UNCHANGED <<disk, at>>, WorldOK, Settles
    PROVE  Held(h)'
  <1>1. TypeOK'
    BY DEF Held, TypeOK, WorldOK
  <1>2. \A r \in Runs : /\ disk[r] \in Status /\ misled[r] \in BOOLEAN /\ misled'[r] \in BOOLEAN
                        /\ misled[r] => misled'[r]
    BY DEF Held, TypeOK, WorldOK
  <1>3. ASSUME NEW w \in Workers
        PROVE  LET r == at'[w].run IN
               Carries(w, at'[w], h[r], disk'[r], proc'[r], misled'[r])
    <2>1. at[w] \in Worker /\ at[w].run \in Runs
      BY DEF Held, TypeOK, Worker
    <2> QED
      BY <1>2, <2>1, CarriesOn DEF Held, Settles
  <1>4. \A r \in Runs : Written(disk'[r], h[r], proc'[r], misled'[r])
    BY <1>2, WrittenOn DEF Held, Settles
  <1>5. Placed(h)'
    BY SettledPlaced
  <1> QED
    BY <1>1, <1>3, <1>4, <1>5 DEF Held

LEMMA OutsideStep ==
    ASSUME NEW h, Held(h),
           \/ \E r \in Runs : JobEnds(r) \/ TimePasses(r)
           \/ SshChanges
           \/ \E p \in Pods : PodLost(p) \/ OthersUse(p)
           \/ UNCHANGED vars
    PROVE  Held(h)'
  <1>1. ASSUME NEW r \in Runs, JobEnds(r) PROVE Held(h)'
    <2>1. PICK e \in {"ok", "bad", "killed"} :
            /\ IF proc[r].is = "running" THEN TRUE ELSE proc[r].is = "orphan" /\ e = "killed"
            /\ proc' = [proc EXCEPT ![r].is = e]
      BY <1>1 DEF JobEnds, Alive
    <2>2. WorldOK /\ Settles
      BY <1>1, <2>1, JobOver DEF JobEnds
    <2> QED
      BY <1>1, <2>2, WorldStep DEF JobEnds
  <1>2. ASSUME NEW r \in Runs, TimePasses(r) PROVE Held(h)'
    <2>1. PodKept /\ UNCHANGED <<disk, at, sshUp, misled>> /\ late' \in [Runs -> BOOLEAN]
      BY <1>2 DEF TimePasses, PodKept, Held, TypeOK
    <2>2. WorldOK /\ Settles
      BY <2>1, KeptSettles DEF WorldOK, Held, TypeOK
    <2> QED
      BY <2>1, <2>2, WorldStep
  <1>3. CASE SshChanges
    <2>1. PodKept /\ UNCHANGED <<disk, at, late, misled>> /\ sshUp' \in BOOLEAN
      BY <1>3 DEF SshChanges, PodKept, Held, TypeOK
    <2>2. WorldOK /\ Settles
      BY <2>1, KeptSettles DEF WorldOK, Held, TypeOK
    <2> QED
      BY <2>1, <2>2, WorldStep
  <1>4. ASSUME NEW p \in Pods, PodLost(p) \/ OthersUse(p) PROVE Held(h)'
    <2>1. PICK s \in {"running", "exited", "lost"} : PodBecomes(p, s)
      BY <1>4 DEF PodLost, OthersUse
    <2>2. UNCHANGED <<disk, at, world, misled>>
      BY <1>4 DEF PodLost, OthersUse
    <2>3. WorldOK /\ Settles
      BY <2>1, <2>2, BecomesSettles DEF WorldOK, world, Held, TypeOK
    <2> QED
      BY <2>2, <2>3, WorldStep
  <1>5. CASE UNCHANGED vars
    BY <1>5, AllKept, WorldStep DEF vars, PodKept, world
  <1> QED
    BY <1>1, <1>2, <1>3, <1>4, <1>5

-----------------------------------------------------------------------------
(***************************************************************************)
(* The theorems.                                                           *)
(***************************************************************************)
LEMMA InvInit ==
    ASSUME Init
    PROVE  Inv
  <1> DEFINE a(w) == IF w \in Runs THEN w ELSE CHOOSE r \in Runs : TRUE
             h == [r \in Runs |-> NoPod]
  <1>1. \A w \in Workers : a(w) \in Runs
    BY RunsAssumption
  <1>2. /\ at = [w \in Workers |-> Rest(a(w))]
        /\ disk = [r \in Runs |-> NoStatus]
        /\ proc = [r \in Runs |-> [is |-> "none", on |-> NoPod]]
    BY DEF Init
  <1> HIDE DEF a
  <1>3. \A w \in Workers : at[w] \in Worker /\ at[w].pc = "idle" /\ at[w].run = a(w)
                           /\ at[w].op = "start"
    BY <1>1, <1>2, RestParts
  <1>4. TypeOK
    <2>1. at \in [Workers -> Worker]
      BY <1>2, <1>3
    <2>2. \A r \in Runs : at[r].run = r /\ at[r].op = "start"
      BY <1>3 DEF Workers, a
    <2>3. disk \in [Runs -> Status] /\ proc \in [Runs -> Job]
      BY <1>2, NoStatusParts DEF Job
    <2> QED
      BY <2>1, <2>2, <2>3 DEF Init, TypeOK
  <1>5. \A w \in Workers : LET r == at[w].run IN
          Carries(w, at[w], h[r], disk[r], proc[r], misled[r])
    BY <1>3 DEF Carries
  <1>6. \A r \in Runs : Written(disk[r], h[r], proc[r], misled[r])
    BY <1>2, NoStatusParts DEF Written, Knows, Names, Podless, Finished
  <1>7. Placed(h)
    BY <1>2 DEF Placed, Alive
  <1>8. h \in [Runs -> Pods \cup {NoPod}]
    OBVIOUS
  <1> QED
    BY <1>4, <1>5, <1>6, <1>7, <1>8 DEF Inv, Held

LEMMA HeldStep ==
    ASSUME NEW h, Held(h), [Next]_vars
    PROVE  HoldsOn(h)
  <1>1. ASSUME NEW w \in Workers, Step(w) PROVE HoldsOn(h)
    <2>1. CASE w \in Runs /\ (PodsListed(w) \/ PodTaken(w))
      BY <2>1, PodsListedStep, PodTakenStep
    <2>2. CASE w \in Runs /\ (PodStarted(w) \/ PodCreated(w) \/ SshWaited(w) \/ Prepared(w))
      BY <2>2, PodStartedStep, PodCreatedStep, SshWaitedStep, PreparedStep, HeldHoldsOn
    <2>3. CASE w \in Runs /\ (Launched(w) \/ LaunchRecorded(w) \/ LookAgain(w))
      BY <2>3, LaunchedStep, LaunchRecordedStep, LookAgainStep, HeldHoldsOn
    <2>4. CASE Salvaged(w) \/ AutoStopped(w) \/ Unstopped(w) \/ Recorded(w) \/ LookedUp(w)
      BY <2>4, SalvagedStep, AutoStoppedStep, UnstoppedStep, RecordedStep, LookedUpStep,
         HeldHoldsOn
    <2>5. CASE Opened(w) \/ LogsFetched(w) \/ Cut(w) \/ Inspected(w)
      BY <2>5, OpenedStep, LogsFetchedStep, CutStep, InspectedStep, HeldHoldsOn
    <2>6. CASE TimedOut(w) \/ Fetched(w) \/ FetchReaches(w)
      BY <2>6, TimedOutStep, FetchedStep, FetchReachesStep, HeldHoldsOn
    <2>7. CASE CancelLooksUp(w) \/ CancelOpens(w) \/ CancelKills(w) \/ CancelStops(w)
      BY <2>7, CancelLooksUpStep, CancelOpensStep, CancelKillsStep, CancelStopsStep, HeldHoldsOn
    <2> QED
      BY <1>1, <2>1, <2>2, <2>3, <2>4, <2>5, <2>6, <2>7 DEF Step, Submission
  <1>2. ASSUME NEW w \in Workers, Crash(w) PROVE HoldsOn(h)
    BY <1>2, CutStep, HeldHoldsOn
  <1>3. ASSUME NEW r \in Runs, StartRun(r) PROVE HoldsOn(h)
    BY <1>3, StartRunStep, HeldHoldsOn
  <1>4. ASSUME NEW c \in Commands, NEW r \in Runs,
               StatusCommand(c, r) \/ FetchCommand(c, r) \/ CancelCommand(c, r)
        PROVE  HoldsOn(h)
    BY <1>4, StatusCommandStep, FetchCommandStep, CancelCommandStep, HeldHoldsOn
  <1>5. CASE \/ \E r \in Runs : JobEnds(r) \/ TimePasses(r)
             \/ SshChanges
             \/ \E p \in Pods : PodLost(p) \/ OthersUse(p)
             \/ UNCHANGED vars
    BY <1>5, OutsideStep, HeldHoldsOn
  <1> QED
    BY <1>1, <1>2, <1>3, <1>4, <1>5 DEF Next

\* A run names its pod, before a step and after it.
NamedStep ==
    \A r \in Runs : LET d == disk[r]
                        e == disk'[r] IN
      IF e.pod = NoPod THEN e.state \in Podless ELSE d.pod \in {NoPod, e.pod}

LEMMA InvStep ==
    ASSUME Inv, [Next]_vars
    PROVE  Inv' /\ NamedStep
  <1>1. PICK h \in [Runs -> Pods \cup {NoPod}] : Held(h)
    BY DEF Inv
  <1>2. PICK g \in [Runs -> Pods \cup {NoPod}] :
          Held(g)' /\ \A r \in Runs : h[r] # NoPod => g[r] = h[r]
    BY <1>1, HeldStep DEF HoldsOn
  <1>3. Inv'
    BY <1>2 DEF Inv
  <1>4. ASSUME NEW r \in Runs
        PROVE  Names(disk[r], h[r]) /\ Names(disk'[r], g[r])
    BY <1>1, <1>2 DEF Held, Written
  <1>5. NamedStep
    BY <1>2, <1>4 DEF NamedStep, Names
  <1> QED
    BY <1>3, <1>5

LEMMA Always == Spec => []Inv
  <1>1. Init => Inv
    BY InvInit
  <1>2. Inv /\ [Next]_vars => Inv'
    BY InvStep
  <1> QED
    BY <1>1, <1>2, PTL DEF Spec

\* The types of the status files, of what every command carries, of the pods and the
\* jobs; a submitting command stays with its own run.
THEOREM GpuTypes == Spec => []TypeOK
  <1>1. Inv => TypeOK
    BY DEF Inv, Held
  <1> QED
    BY <1>1, Always, PTL

\* CompletedIsSuccess: however many commands look at a run, fetch its outputs and write
\* back what they had read of it, it is shown completed only when its job exited with 0.
THEOREM CompletedMeansSuccess == Spec => []CompletedIsSuccess
  <1>1. Inv => CompletedIsSuccess
    BY DEF Inv, Held, Written, Knows, CompletedIsSuccess
  <1> QED
    BY <1>1, Always, PTL

\* StoppedIsQuiet: cancelRun and the timeout, where they knew of the launch, record their
\* end only when the job is over, unless a command acted on the run without a true picture.
THEOREM StoppedLeavesNothing == Spec => []StoppedIsQuiet
  <1>1. Inv => StoppedIsQuiet
    BY DEF Inv, Held, Written, Knows, Finished, StoppedIsQuiet
  <1> QED
    BY <1>1, Always, PTL

\* SshLossIsNoFailure: losing SSH, at any await of any command, never makes a launched run
\* that is still at work a failed one.
THEOREM UnreachableHasNotFailed == Spec => []SshLossIsNoFailure
  <1>1. Inv => SshLossIsNoFailure
    BY DEF Inv, Held, Written, Knows, SshLossIsNoFailure
  <1> QED
    BY <1>1, Always, PTL

\* PodNamed: whatever copies of its status the commands write back, and however old they
\* are, a run at work, or ended at work, names its pod, and never another than before.
THEOREM PodsAreNamed == Spec => PodNamed
  <1>1. Inv /\ [Next]_vars =>
          [\A r \in Runs : LET d == disk[r]
                               e == disk'[r] IN
             IF e.pod = NoPod THEN e.state \in {"none", "provisioning", "failed", "cancelled"}
                              ELSE d.pod \in {NoPod, e.pod}]_disk
    BY InvStep DEF NamedStep, Podless
  <1>2. Spec => [][Next]_vars
    BY DEF Spec
  <1> QED
    BY <1>1, <1>2, Always, PTL DEF PodNamed
=============================================================================
