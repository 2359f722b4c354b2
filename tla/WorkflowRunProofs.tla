------------------------- MODULE WorkflowRunProofs --------------------------
(***************************************************************************)
(* Theorems about WorkflowRun, for every workflow definition, any number   *)
(* of processes and executors, and any number of faults; and first what    *)
(* the functions of WorkflowDefinition return.                             *)
(***************************************************************************)
EXTENDS WorkflowRun, WellFoundedInduction, TLAPS

\* Every step has a position in the document.
LEMMA IndexOfType ==
    ASSUME NEW s \in Steps
    PROVE  IndexOf(s) \in 1..Len(StepOrder) /\ StepOrder[IndexOf(s)] = s
  BY DEF IndexOf, Steps

\* Every nonempty set of positions has a least element and a greatest one.
LEMMA LeastPosition ==
    ASSUME NEW T \in SUBSET Nat, T # {}
    PROVE  \E x \in T : \A y \in T : x <= y
  <1> DEFINE Less == {ss \in Nat \X Nat : ss[1] < ss[2]}
  <1>1. IsWellFoundedOn(Less, Nat)
    BY NatLessThanWellFounded, SMT DEF OpToRel
  <1>2. PICK x \in T : \A y \in T : <<y, x>> \notin Less
    <2> HIDE DEF Less
    <2> QED BY <1>1, WFMin
  <1>3. ASSUME NEW y \in T PROVE x <= y
    <2>1. <<y, x>> \notin Less
      BY <1>2
    <2>2. y \in Nat /\ x \in Nat /\ ~ (y < x)
      BY <2>1
    <2>3. QED
      BY <2>2
  <1>4. QED
    BY <1>3

LEMMA GreatestPosition ==
    ASSUME NEW n \in Nat, NEW T \in SUBSET (0..n), T # {}
    PROVE  \E x \in T : \A y \in T : x >= y
  <1> DEFINE U == {i \in 0..n : n - i \in T}
  <1>1. PICK t \in T : TRUE
    OBVIOUS
  <1>2. U \in SUBSET Nat /\ n - t \in U
    <2>1. t \in 0..n /\ n - t \in 0..n /\ n - (n - t) = t
      OBVIOUS
    <2>2. QED
      BY <2>1
  <1>3. PICK u \in U : \A v \in U : u <= v
    <2>1. U # {}
      BY <1>2
    <2> HIDE DEF U
    <2>2. QED
      BY <1>2, <2>1, LeastPosition
  <1>4. ASSUME NEW y \in T PROVE n - u >= y
    <2>1. y \in 0..n /\ n - y \in 0..n /\ n - (n - y) = y
      OBVIOUS
    <2>2. n - y \in U
      BY <2>1
    <2>3. u <= n - y /\ u \in 0..n
      BY <1>3, <2>2
    <2>4. QED
      BY <2>1, <2>3
  <1>5. n - u \in T
    OBVIOUS
  <1>6. QED
    BY <1>4, <1>5

-----------------------------------------------------------------------------
\* A loop starts and ends at a step of its own.
LEMMA LoopStartInLoop ==
    ASSUME NEW l \in Loops
    PROVE  LoopStart(l) \in Children(l)
  <1> DEFINE T == {IndexOf(s) : s \in Children(l)}
  <1>1. PICK c \in Children(l) : TRUE
    BY DEF Loops, Children
  <1>2. \A s \in Children(l) : s \in Steps
    BY DEF Children
  <1>3. T \in SUBSET Nat /\ IndexOf(c) \in T
    BY <1>2, IndexOfType, StepsAssumption
  <1>4. PICK x \in T : \A y \in T : x <= y
    <2>1. T # {}
      BY <1>3
    <2> HIDE DEF T
    <2>2. QED
      BY <1>3, <2>1, LeastPosition
  <1>5. PICK s \in Children(l) : x = IndexOf(s)
    BY <1>4
  <1>6. \A t \in Children(l) : IndexOf(s) <= IndexOf(t)
    BY <1>4, <1>5
  <1>7. QED
    BY <1>6 DEF LoopStart

LEMMA LoopEndInLoop ==
    ASSUME NEW l \in Loops
    PROVE  LoopEnd(l) \in Children(l)
  <1> DEFINE T == {IndexOf(s) : s \in Children(l)}
  <1>1. PICK c \in Children(l) : TRUE
    BY DEF Loops, Children
  <1>2. \A s \in Children(l) : s \in Steps
    BY DEF Children
  <1>3. T \in SUBSET (0..Len(StepOrder)) /\ IndexOf(c) \in T
    BY <1>2, IndexOfType, StepsAssumption
  <1>4. PICK x \in T : \A y \in T : x >= y
    <2>1. T # {}
      BY <1>3
    <2> HIDE DEF T
    <2>2. QED
      BY <1>3, <2>1, GreatestPosition, StepsAssumption
  <1>5. PICK s \in Children(l) : x = IndexOf(s)
    BY <1>4
  <1>6. \A t \in Children(l) : IndexOf(s) >= IndexOf(t)
    BY <1>4, <1>5
  <1>7. QED
    BY <1>6 DEF LoopEnd

\* The step after a step, in order or around its loop, is a step or null.
LEMMA NextStepType ==
    ASSUME NEW s \in Steps
    PROVE  NextStepInOrder(s) \in Steps \cup {NoStep}
  <1>1. CASE IndexOf(s) = Len(StepOrder)
    BY <1>1 DEF NextStepInOrder
  <1>2. CASE IndexOf(s) # Len(StepOrder)
    <2>1. IndexOf(s) + 1 \in 1..Len(StepOrder)
      BY <1>2, IndexOfType, StepsAssumption
    <2>2. QED
      BY <1>2, <2>1 DEF NextStepInOrder, Steps
  <1>3. QED
    BY <1>1, <1>2

LEMMA AdvanceType ==
    ASSUME NEW s \in Steps
    PROVE  AdvanceAfter(s) \in Steps \cup {NoStep}
  <1>1. CASE InLoop(s)
    <2>1. LoopOf[s] \in Loops
      BY <1>1 DEF InLoop, Loops
    <2>2. LoopStart(LoopOf[s]) \in Steps
      BY <2>1, LoopStartInLoop DEF Children
    <2>3. QED
      BY <2>2, NextStepType DEF AdvanceAfter
  <1>2. CASE ~InLoop(s)
    BY <1>2, NextStepType DEF AdvanceAfter
  <1>3. QED
    BY <1>1, <1>2

\* The counters stay counters, and never go down.
LEMMA CountRoundType ==
    ASSUME NEW iter \in [Loops -> Nat], NEW s
    PROVE  /\ CountRound(iter, s) \in [Loops -> Nat]
           /\ \A l \in Loops : CountRound(iter, s)[l] >= iter[l]
  <1>1. CASE BeginsRound(s)
    <2>1. LoopOf[s] \in Loops
      BY <1>1 DEF BeginsRound, InLoop, Loops
    <2>2. QED
      BY <1>1, <2>1, DefinitionAssumption DEF CountRound, Bump
  <1>2. CASE ~BeginsRound(s)
    BY <1>2 DEF CountRound
  <1>3. QED
    BY <1>1, <1>2

LEMMA CountStepType ==
    ASSUME NEW steps \in [Loops -> Nat], NEW s
    PROVE  CountStep(steps, s) \in [Loops -> Nat]
  <1>1. CASE InLoop(s)
    <2>1. LoopOf[s] \in Loops
      BY <1>1 DEF InLoop, Loops
    <2>2. QED
      BY <1>1, <2>1, DefinitionAssumption DEF CountStep, Bump
  <1>2. CASE ~InLoop(s)
    BY <1>2 DEF CountStep
  <1>3. QED
    BY <1>1, <1>2

\* Entering the first step of a loop adds one to its rounds.
LEMMA CountRoundCounts ==
    ASSUME NEW iter \in [Loops -> Nat], NEW s, BeginsRound(s)
    PROVE  CountRound(iter, s)[LoopOf[s]] = Bump(iter[LoopOf[s]], MaxIter[LoopOf[s]])
  <1>1. LoopOf[s] \in Loops
    BY DEF BeginsRound, InLoop, Loops
  <1>2. QED
    BY <1>1 DEF CountRound

-----------------------------------------------------------------------------
(***************************************************************************)
(* Types.  A step handler runs on the step nextStepId names.               *)
(***************************************************************************)
HandlersRunSteps ==
    \A e \in Execs : pc[e] \in {"step", "parse"} => mem[e].next \in Steps

TypeInv == TypeOK /\ HandlersRunSteps

\* The run states the code derives from a run state are run states.
LEMMA DerivedStates ==
    ASSUME NEW m \in RunState
    PROVE  /\ \A s \in StepIds \cup {NoStep} : Goto(m, s) \in RunState
           /\ \A s : Entered(m, s) \in RunState /\ Entered(m, s).next = m.next
           /\ \A s \in Steps : Recorded(m, s) \in RunState
           /\ \A s \in Steps : WithOutput(m, s) \in RunState
           /\ \A s \in Steps : AtGate(m, s) \in RunState
           /\ \A status \in RunStatus : Ended(m, status) \in RunState
           /\ Paused(m) \in RunState
           /\ Resumed(m) \in RunState
  <1>1. \A s \in StepIds \cup {NoStep} : Goto(m, s) \in RunState
    BY DEF Goto, RunState
  <1>2. \A s : Entered(m, s) \in RunState /\ Entered(m, s).next = m.next
    <2>1. m.iter \in [Loops -> Nat]
      BY DEF RunState
    <2>2. \A s : CountRound(m.iter, s) \in [Loops -> Nat]
      BY <2>1, CountRoundType
    <2>3. QED
      BY <2>2 DEF Entered, RunState
  <1>3. \A s \in Steps : Recorded(m, s) \in RunState
    <2>1. m.steps \in [Loops -> Nat]
      BY DEF RunState
    <2>2. \A s : CountStep(m.steps, s) \in [Loops -> Nat]
      BY <2>1, CountStepType
    <2>3. QED
      BY <2>2 DEF Recorded, RunState
  <1>4. \A s \in Steps : WithOutput(m, s) \in RunState
    BY <1>3 DEF WithOutput, RunState
  <1>5. \A s \in Steps : AtGate(m, s) \in RunState
    BY DEF AtGate, RunState, RunStatus
  <1>6. \A status \in RunStatus : Ended(m, status) \in RunState
    BY DEF Ended, RunState
  <1>7. Paused(m) \in RunState
    BY DEF Paused, RunState, RunStatus
  <1>8. Resumed(m) \in RunState
    BY DEF Resumed, RunState, RunStatus, ActiveStatus
  <1>9. QED
    BY <1>1, <1>2, <1>3, <1>4, <1>5, <1>6, <1>7, <1>8

LEMMA InitialTypes ==
    /\ InitialState \in RunState
    /\ \A p \in Procs : NewEntry(p) \in Entry
  <1>1. EntryStep \in Steps
    BY StepsAssumption DEF EntryStep, Steps
  <1>2. InitialState \in RunState
    BY <1>1 DEF InitialState, RunState, StepIds
  <1>3. \A p \in Procs : NewEntry(p) \in Entry
    BY DEF NewEntry, Entry
  <1>4. QED
    BY <1>2, <1>3

LEMMA PersistType ==
    ASSUME TypeInv, NEW e \in Execs, NEW m \in RunState, NEW at \in PCs,
           at \in {"step", "parse"} => m.next \in Steps,
           rounds' \in [Loops -> Nat], answered' \in SUBSET Steps,
           Persist(e, m, at)
    PROVE  TypeInv'
  BY DEF Persist, TypeInv, TypeOK, HandlersRunSteps

LEMMA SettleType ==
    ASSUME TypeInv, NEW e \in Execs, NEW m \in RunState, Settle(e, m)
    PROVE  TypeInv'
  <1>1. Persist(e, m, "closing") /\ rounds' = rounds /\ answered' = answered
    BY DEF Settle
  <1>2. QED
    BY <1>1, PersistType DEF PCs, TypeInv, TypeOK

LEMMA CarryType ==
    ASSUME TypeInv, NEW e \in Execs, NEW m \in RunState, Carry(e, m)
    PROVE  TypeInv'
  BY DEF Carry, TypeInv, TypeOK, HandlersRunSteps, PCs

LEMMA LaunchType ==
    ASSUME TypeInv, NEW p \in Procs, NEW m \in RunState, Launch(p, m),
           shown' \in RunStatus \cup {"absent"}
    PROVE  TypeInv'
  <1>1. launched' \in Execs /\ launched' \in 0..MaxLaunches
    BY BoundsAssumption DEF Launch, TypeInv, TypeOK, Execs
  <1>2. NewEntry(p) \in Entry
    BY InitialTypes
  <1> HIDE DEF Execs
  <1>3. QED
    BY <1>1, <1>2 DEF Launch, TypeInv, TypeOK, HandlersRunSteps, PCs

LEMMA InitType == Init => TypeInv
  <1> SUFFICES ASSUME Init PROVE TypeInv
    OBVIOUS
  <1>1. (CHOOSE p \in Procs : TRUE) \in Procs
    BY BoundsAssumption
  <1>2. TypeOK
    BY <1>1, InitialTypes, BoundsAssumption DEF Init, TypeOK, PCs
  <1>3. HandlersRunSteps
    BY DEF Init, HandlersRunSteps
  <1>4. QED
    BY <1>2, <1>3 DEF TypeInv

LEMMA ExecutorTypes ==
    ASSUME TypeInv, NEW e \in Execs, ExecutorStep(e)
    PROVE  TypeInv'
  <1> DEFINE m == mem[e]
             s == Running(e)
  <1>1. m \in RunState /\ s \in StepIds \cup {NoStep} /\ s = m.next
    BY DEF TypeInv, TypeOK, Running, RunState
  <1>2. pc[e] \in {"step", "parse"} => s \in Steps
    BY DEF TypeInv, HandlersRunSteps, Running
  <1>3. {"complete", "failed", "stopped"} \subseteq RunStatus
    BY DEF RunStatus, FinalStatus
  <1>4. rounds \in [Loops -> Nat] /\ answered \in SUBSET Steps
    BY DEF TypeInv, TypeOK
  <1> HIDE DEF m, s
  <1>5. s \in Steps => WithOutput(m, s) \in RunState
    BY <1>1, DerivedStates
  <1>6. CASE Boot(e)
    <2>1. [m EXCEPT !.status = "running"] \in RunState
      BY <1>1 DEF RunState, RunStatus, ActiveStatus
    <2>2. QED
      BY <1>4, <1>6, <2>1, PersistType DEF Boot, PCs, m
  <1>7. CASE WriteStatus(e)
    <2>1. m.status \in RunStatus \cup {"absent"}
      BY <1>1 DEF RunState
    <2>2. \A n \in Entry, x \in RunStatus \cup {"absent"}, b \in BOOLEAN :
            [n EXCEPT !.seen = x, !.completed = b] \in Entry
      BY DEF Entry
    <2>3. \A n \in Entry : n.completed \in BOOLEAN /\ n.seen \in RunStatus \cup {"absent"}
      BY DEF Entry
    <2>4. entry \in [Execs -> Entry]
      BY DEF TypeInv, TypeOK
    <2>5. entry' \in [Execs -> Entry]
      BY <1>7, <2>1, <2>2, <2>3, <2>4 DEF WriteStatus, m
    <2>6. shown' \in RunStatus \cup {"absent"} /\ flush' \in [Execs -> BOOLEAN]
      BY <1>7, <2>1 DEF WriteStatus, TypeInv, TypeOK, m
    <2>7. QED
      BY <1>7, <2>5, <2>6 DEF WriteStatus, TypeInv, TypeOK, HandlersRunSteps
  <1>8. CASE StopAtTop(e)
    BY <1>1, <1>3, <1>8, DerivedStates, SettleType DEF StopAtTop, m
  <1>9. CASE PauseAtTop(e)
    BY <1>1, <1>9, DerivedStates, SettleType DEF PauseAtTop, m
  <1>10. CASE EndAtTop(e)
    BY <1>1, <1>3, <1>10, DerivedStates, SettleType DEF EndAtTop, m
  <1>11. CASE UnknownStep(e)
    BY <1>1, <1>3, <1>11, DerivedStates, SettleType DEF UnknownStep, m
  <1>12. CASE LoopBoundExceeded(e)
    <2>1. Entered(m, s) \in RunState
      BY <1>1, DerivedStates
    <2>2. Ended(Entered(m, s), "failed") \in RunState
      BY <1>3, <2>1, DerivedStates
    <2>3. QED
      BY <1>12, <2>2, SettleType DEF LoopBoundExceeded, m, s
  <1>13. CASE BeginStep(e)
    <2>1. Entered(m, s) \in RunState /\ Entered(m, s).next = s
      BY <1>1, DerivedStates
    <2>2. rounds' \in [Loops -> Nat]
      <3>1. \A l \in Loops : rounds[l] \in Nat /\ Bump(rounds[l], MaxIter[l]) \in Nat
        BY <1>4, DefinitionAssumption DEF Bump
      <3>2. QED
        BY <1>13, <3>1 DEF BeginStep
    <2>3. QED
      BY <1>4, <1>13, <2>1, <2>2, PersistType DEF BeginStep, PCs, m, s
  <1>14. CASE AgentMissing(e)
    BY <1>1, <1>3, <1>14, DerivedStates, SettleType DEF AgentMissing, m
  <1>15. CASE AgentFails(e)
    <2>1. (IF StopSeen(e) THEN "stopped" ELSE "failed") \in RunStatus
      BY <1>3
    <2>2. Ended(m, IF StopSeen(e) THEN "stopped" ELSE "failed") \in RunState
      BY <1>1, <2>1, DerivedStates
    <2>3. QED
      BY <1>15, <2>2, SettleType DEF AgentFails, m
  <1>16. CASE AgentAnswers(e)
    <2>1. s \in Steps
      BY <1>2, <1>16 DEF AgentAnswers, AwaitsAgent
    <2>2. Goto(WithOutput(m, s), AdvanceAfter(s)) \in RunState
      <3>1. AdvanceAfter(s) \in StepIds \cup {NoStep}
        BY <2>1, AdvanceType DEF StepIds
      <3>2. QED
        BY <1>5, <2>1, <3>1, DerivedStates
    <2>3. QED
      BY <1>4, <1>16, <2>1, <2>2, PersistType DEF AgentAnswers, PCs, m, s
  <1>17. CASE DecisionAnswers(e)
    <2>1. m.next \in Steps
      BY <1>1, <1>2, <1>17 DEF DecisionAnswers, AwaitsAgent
    <2>2. QED
      BY <1>1, <1>4, <1>17, <2>1, PersistType DEF DecisionAnswers, PCs, m
  <1>18. CASE DecisionInvalid(e)
    <2>1. s \in Steps
      BY <1>2, <1>18 DEF DecisionInvalid, At
    <2>2. Ended(m, "failed") \in RunState /\ AtGate(Recorded(m, s), s) \in RunState
      BY <1>1, <1>3, <2>1, DerivedStates
    <2>3. QED
      BY <1>18, <2>2, SettleType DEF DecisionInvalid, m, s
  <1>19. CASE DecisionStops(e)
    <2>1. s \in Steps
      BY <1>2, <1>19 DEF DecisionStops, At
    <2>2. Ended(WithOutput(m, s), "complete") \in RunState
      BY <1>3, <1>5, <2>1, DerivedStates
    <2>3. QED
      BY <1>19, <2>2, SettleType DEF DecisionStops, m, s
  <1>20. CASE DecisionAsksHuman(e)
    <2>1. s \in Steps
      BY <1>2, <1>20 DEF DecisionAsksHuman, At
    <2>2. AtGate(WithOutput(m, s), s) \in RunState
      BY <1>5, <2>1, DerivedStates
    <2>3. QED
      BY <1>20, <2>2, SettleType DEF DecisionAsksHuman, m, s
  <1>21. CASE DecisionGoesOn(e)
    <2>1. s \in Steps
      BY <1>2, <1>21 DEF DecisionGoesOn, At
    <2>2. \A t \in Targets[s] \cup {AdvanceAfter(s)} :
            Goto(WithOutput(m, s), t) \in RunState
      <3>1. \A t \in Targets[s] \cup {AdvanceAfter(s)} : t \in StepIds \cup {NoStep}
        BY <2>1, AdvanceType, DefinitionAssumption DEF StepIds
      <3>2. QED
        BY <1>5, <2>1, <3>1, DerivedStates
    <2>3. QED
      BY <1>21, <2>2, CarryType DEF DecisionGoesOn, m, s
  <1>22. CASE RunHumanGate(e)
    <2>1. s \in Steps
      BY <1>2, <1>22 DEF RunHumanGate, At
    <2>2. AtGate(Recorded(m, s), s) \in RunState
      BY <1>1, <2>1, DerivedStates
    <2>3. QED
      BY <1>22, <2>2, SettleType DEF RunHumanGate, m, s
  <1>23. CASE RunMerge(e)
    <2>1. s \in Steps
      BY <1>2, <1>23 DEF RunMerge, At
    <2>2. Goto(WithOutput(m, s), AdvanceAfter(s)) \in RunState
      <3>1. AdvanceAfter(s) \in StepIds \cup {NoStep}
        BY <2>1, AdvanceType DEF StepIds
      <3>2. QED
        BY <1>5, <2>1, <3>1, DerivedStates
    <2>3. Ended(m, "failed") \in RunState
      BY <1>1, <1>3, DerivedStates
    <2>4. QED
      BY <1>23, <2>2, <2>3, SettleType, CarryType DEF RunMerge, m, s
  <1>24. CASE RunTerminate(e)
    <2>1. s \in Steps
      BY <1>2, <1>24 DEF RunTerminate, At
    <2>2. EndsAs[s] \in RunStatus
      BY <1>3, <2>1, DefinitionAssumption
    <2>3. Ended(Recorded(m, s), EndsAs[s]) \in RunState
      BY <1>1, <2>1, <2>2, DerivedStates
    <2>4. QED
      BY <1>24, <2>3, SettleType DEF RunTerminate, m, s
  <1>25. CASE Teardown(e)
    BY <1>25, InitialTypes DEF Teardown, TypeInv, TypeOK, HandlersRunSteps, PCs
  <1>26. QED
    BY <1>6, <1>7, <1>8, <1>9, <1>10, <1>11, <1>12, <1>13, <1>14, <1>15, <1>16,
       <1>17, <1>18, <1>19, <1>20, <1>21, <1>22, <1>23, <1>24, <1>25
    DEF ExecutorStep

LEMMA OperationTypes ==
    ASSUME TypeInv, NEW p \in Procs, Operation(p)
    PROVE  TypeInv'
  <1>1. disk \in RunState /\ shown \in RunStatus \cup {"absent"}
    BY DEF TypeInv, TypeOK
  <1>2. CASE StartRun(p)
    <2>1. [disk EXCEPT !.status = "queued"] \in RunState
      BY <1>1 DEF RunState, RunStatus, ActiveStatus
    <2>2. shown' \in RunStatus \cup {"absent"}
      BY <1>2 DEF StartRun, RunStatus, ActiveStatus
    <2>3. QED
      BY <1>2, <2>1, <2>2, LaunchType DEF StartRun
  <1>3. CASE ResumeRun(p)
    <2>1. Resumed(disk) \in RunState
      BY <1>1, DerivedStates
    <2>2. QED
      BY <1>1, <1>3, <2>1, LaunchType DEF ResumeRun
  <1>4. CASE ApproveAndGoOn(p)
    <2>1. disk.gate \in Steps
      BY <1>1, <1>4 DEF ApproveAndGoOn, AtPendingGate, RunState
    <2>2. \A t \in NextAfterApproval(disk.gate) : t \in StepIds \cup {NoStep}
      BY <2>1, NextStepType DEF NextAfterApproval, StepIds
    <2>3. \A t \in NextAfterApproval(disk.gate) : Resumed(Goto(disk, t)) \in RunState
      BY <1>1, <2>2, DerivedStates
    <2>4. QED
      BY <1>1, <1>4, <2>3, LaunchType DEF ApproveAndGoOn
  <1>5. CASE ApproveStop(p)
    <2>1. Ended(disk, "stopped") \in RunState
      BY <1>1, DerivedStates DEF RunStatus, FinalStatus
    <2>2. [Ended(disk, "stopped") EXCEPT !.gate = NoStep] \in RunState
      BY <2>1 DEF RunState
    <2>3. QED
      BY <1>5, <2>2 DEF ApproveStop, TypeInv, TypeOK, HandlersRunSteps
  <1>6. CASE PauseRun(p)
    BY <1>6 DEF PauseRun, TypeInv, TypeOK, HandlersRunSteps, Entry
  <1>7. CASE StopLive(p)
    BY <1>7 DEF StopLive, TypeInv, TypeOK, HandlersRunSteps, Entry
  <1>8. CASE StopDurable(p)
    <2>1. disk' \in RunState
      BY <1>1, <1>8 DEF StopDurable, RunState, RunStatus, FinalStatus
    <2>2. QED
      BY <1>8, <2>1 DEF StopDurable, TypeInv, TypeOK, HandlersRunSteps
  <1>9. QED
    BY <1>2, <1>3, <1>4, <1>5, <1>6, <1>7, <1>8 DEF Operation

LEMMA FaultTypes ==
    /\ \A p \in Procs : TypeInv /\ Crash(p) => TypeInv'
    /\ \A e \in Execs : TypeInv /\ Throw(e) => TypeInv'
  <1>1. ASSUME NEW p \in Procs, TypeInv, Crash(p) PROVE TypeInv'
    <2> USE <1>1 DEF Crash
    <2>1. TypeOK
      BY DEF TypeInv
    <2>2. faults' \in 0..MaxFaults
      BY <2>1, BoundsAssumption DEF TypeOK
    <2>3. pc' \in [Execs -> PCs] /\ flush' \in [Execs -> BOOLEAN]
      BY <2>1 DEF TypeOK, PCs
    <2>4. mem' \in [Execs -> RunState] /\ reg' \in [Procs -> Execs \cup {NoExec}]
      BY <2>1, InitialTypes DEF TypeOK
    <2>5. HandlersRunSteps'
      <3>1. \A e \in Execs : pc'[e] # "gone" => pc'[e] = pc[e] /\ mem'[e] = mem[e]
        OBVIOUS
      <3>2. QED
        BY <3>1 DEF TypeInv, HandlersRunSteps
    <2>6. QED
      BY <2>1, <2>2, <2>3, <2>4, <2>5 DEF TypeInv, TypeOK
  <1>2. ASSUME NEW e \in Execs, TypeInv, Throw(e) PROVE TypeInv'
    <2>1. TypeOK
      BY <1>2 DEF TypeInv
    <2>2. faults' \in 0..MaxFaults
      BY <1>2, <2>1, BoundsAssumption DEF Throw, TypeOK
    <2>3. [entry[e] EXCEPT !.completed = TRUE] \in Entry
      BY <1>2, <2>1 DEF TypeOK, Entry
    <2>4. entry' \in [Execs -> Entry]
      BY <1>2, <2>1, <2>3 DEF Throw, TypeOK
    <2>5. pc' \in [Execs -> PCs] /\ flush' \in [Execs -> BOOLEAN]
      BY <1>2, <2>1 DEF Throw, TypeOK, PCs
    <2>6. HandlersRunSteps'
      BY <1>2, <2>1 DEF Throw, TypeInv, TypeOK, HandlersRunSteps
    <2>7. QED
      BY <1>2, <2>1, <2>2, <2>4, <2>5, <2>6 DEF Throw, TypeInv, TypeOK
  <1>3. QED
    BY <1>1, <1>2

LEMMA NextTypes == TypeInv /\ [Next]_vars => TypeInv'
  <1> SUFFICES ASSUME TypeInv, [Next]_vars PROVE TypeInv'
    OBVIOUS
  <1>1. CASE UNCHANGED vars
    BY <1>1 DEF vars, TypeInv, TypeOK, HandlersRunSteps
  <1>2. CASE Next
    BY <1>2, ExecutorTypes, OperationTypes, FaultTypes DEF Next
  <1>3. QED
    BY <1>1, <1>2

LEMMA TypeInvariant == Spec => []TypeInv
  BY InitType, NextTypes, PTL DEF Spec

\* Every state of a run, of its files and of the registries is well formed:
\* no path of the runner or of the service leaves a status, a next step or a
\* pending gate outside its type, whatever the definition.
THEOREM TypeCorrectness == Spec => []TypeOK
  <1>1. TypeInv => TypeOK
    BY DEF TypeInv
  <1>2. QED
    BY <1>1, TypeInvariant, PTL

-----------------------------------------------------------------------------
(***************************************************************************)
(* One executor at a time, and the registry leads to it.  Executors start  *)
(* in order; an active one carries the status running, keeps the run on    *)
(* disk from looking absent or paused, and has not been marked completed;  *)
(* and while a finished one tears down, it still owns its registry entry   *)
(* and nobody else can have started.                                       *)
(***************************************************************************)
StartedInOrder == \A e \in Execs : pc[e] = "idle" <=> e > launched

FlushPending == \A e \in Execs : flush[e] => pc[e] \in {"top", "step", "parse", "closing"}

ActiveIsRunning ==
    \A e \in Execs : Active(e) /\ pc[e] # "boot" => mem[e].status = "running"

ActiveIsOpen ==
    \A e \in Execs : Active(e) => /\ disk.status \notin {"absent", "paused"}
                                  /\ ~entry[e].completed

Finished(e) == /\ pc[e] = "closing"
               /\ entry[e].completed \/ (flush[e] /\ mem[e].status # "paused")

FinishedAlone ==
    \A e \in Execs : Finished(e) => /\ reg[entry[e].proc] = e
                                    /\ disk.status \notin {"absent", "paused"}
                                    /\ \A f \in Execs : ~Active(f)

Control == /\ StartedInOrder /\ FlushPending
           /\ ActiveIsRunning /\ ActiveIsOpen
           /\ OneExecutor /\ LiveRunReachable
           /\ FinishedAlone

\* What each derived run state says of the run's status.
LEMMA DerivedStatus ==
    ASSUME NEW m \in RunState, NEW s
    PROVE  /\ Goto(m, s).status = m.status
           /\ Entered(m, s).status = m.status
           /\ Recorded(m, s).status = m.status
           /\ WithOutput(m, s).status = m.status
           /\ AtGate(m, s).status = "paused"
           /\ Paused(m).status = "paused"
           /\ Resumed(m).status = "running"
           /\ \A status : Ended(m, status).status = status
  <1>1. Recorded(m, s).status = m.status
    BY DEF Recorded, RunState
  <1>2. WithOutput(m, s).status = m.status
    BY <1>1 DEF WithOutput, Recorded, RunState
  <1>3. QED
    BY <1>1, <1>2 DEF Goto, Entered, AtGate, Paused, Resumed, Ended, RunState

LEMMA PersistControl ==
    ASSUME TypeInv, Control, NEW e \in Execs, NEW m, NEW at \in {"top", "step", "parse"},
           Active(e), m.status = "running", Persist(e, m, at)
    PROVE  Control'
  <1>1. \A f \in Execs : Active(f) => f = e
    BY DEF Control, OneExecutor
  <1>2. \A f \in Execs : ~Finished(f)
    BY DEF Control, FinishedAlone
  <1>3. \A f \in Execs : /\ Active(f)' => f = e
                         /\ Finished(f)' => Finished(f)
    BY <1>1 DEF Persist, TypeInv, TypeOK, Active, Finished
  <1>4. pc' = [pc EXCEPT ![e] = at] /\ mem' = [mem EXCEPT ![e] = m]
        /\ flush' = [flush EXCEPT ![e] = TRUE] /\ disk' = m
        /\ UNCHANGED <<reg, entry, launched>>
    BY DEF Persist
  <1>5. StartedInOrder' /\ FlushPending'
    BY <1>4 DEF Control, StartedInOrder, FlushPending, TypeInv, TypeOK, Active
  <1>6. ActiveIsRunning' /\ ActiveIsOpen'
    BY <1>3, <1>4 DEF Control, ActiveIsRunning, ActiveIsOpen, TypeInv, TypeOK
  <1>7. OneExecutor' /\ LiveRunReachable'
    BY <1>3, <1>4 DEF Control, OneExecutor, LiveRunReachable
  <1>8. FinishedAlone'
    BY <1>2, <1>3 DEF FinishedAlone
  <1>9. QED
    BY <1>5, <1>6, <1>7, <1>8 DEF Control

LEMMA SettleControl ==
    ASSUME TypeInv, Control, NEW e \in Execs, NEW m,
           Active(e), m.status \in FinalStatus \cup {"paused"}, Settle(e, m)
    PROVE  Control'
  <1>1. \A f \in Execs : Active(f) => f = e
    BY DEF Control, OneExecutor
  <1>2. \A f \in Execs : ~Finished(f)
    BY DEF Control, FinishedAlone
  <1>3. pc' = [pc EXCEPT ![e] = "closing"] /\ mem' = [mem EXCEPT ![e] = m]
        /\ flush' = [flush EXCEPT ![e] = TRUE] /\ disk' = m
        /\ UNCHANGED <<reg, entry, launched>>
    BY DEF Settle, Persist
  <1>4. \A f \in Execs : /\ ~Active(f)'
                         /\ f # e /\ Finished(f)' => Finished(f)
    BY <1>1, <1>3 DEF TypeInv, TypeOK, Active, Finished
  <1>5. StartedInOrder' /\ FlushPending'
    BY <1>3 DEF Control, StartedInOrder, FlushPending, TypeInv, TypeOK, Active
  <1>6. ActiveIsRunning' /\ ActiveIsOpen' /\ OneExecutor' /\ LiveRunReachable'
    BY <1>4 DEF ActiveIsRunning, ActiveIsOpen, OneExecutor, LiveRunReachable
  <1>7. FinishedAlone'
    <2>1. reg[entry[e].proc] = e /\ ~entry[e].completed
      BY DEF Control, LiveRunReachable, ActiveIsOpen
    <2>2. Finished(e)' => m.status # "paused"
      BY <1>3, <2>1 DEF Finished, TypeInv, TypeOK
    <2>3. m.status # "absent"
      BY DEF FinalStatus
    <2>4. QED
      BY <1>2, <1>3, <1>4, <2>1, <2>2, <2>3 DEF FinishedAlone
  <1>8. QED
    BY <1>5, <1>6, <1>7 DEF Control

LEMMA CarryControl ==
    ASSUME TypeInv, Control, NEW e \in Execs, NEW m,
           Active(e), m.status = "running", Carry(e, m)
    PROVE  Control'
  <1>1. pc' = [pc EXCEPT ![e] = "top"] /\ mem' = [mem EXCEPT ![e] = m]
        /\ UNCHANGED <<disk, reg, entry, flush, launched>>
    BY DEF Carry
  <1>2. \A f \in Execs : /\ Active(f)' => Active(f)
                         /\ Finished(f)' => Finished(f)
                         /\ ~Finished(f)
    BY <1>1 DEF Control, FinishedAlone, TypeInv, TypeOK, Active, Finished
  <1>3. StartedInOrder' /\ FlushPending'
    BY <1>1 DEF Control, StartedInOrder, FlushPending, TypeInv, TypeOK, Active
  <1>4. ActiveIsRunning' /\ ActiveIsOpen' /\ OneExecutor' /\ LiveRunReachable'
    BY <1>1, <1>2 DEF Control, ActiveIsRunning, ActiveIsOpen, OneExecutor, LiveRunReachable,
                      TypeInv, TypeOK
  <1>5. FinishedAlone'
    BY <1>2 DEF FinishedAlone
  <1>6. QED
    BY <1>3, <1>4, <1>5 DEF Control

LEMMA LaunchControl ==
    ASSUME TypeInv, Control, NEW p \in Procs, NEW m, Launch(p, m),
           m.status \in ActiveStatus,
           \/ disk.status \in {"absent", "paused"}
           \/ \A q \in Procs : reg[q] = NoExec
    PROVE  Control'
  <1> DEFINE n == launched + 1
  <1>1. n \in Execs /\ n # NoExec /\ launched' = n
    BY BoundsAssumption DEF Launch, TypeInv, TypeOK, Execs, NoExec
  <1>2. pc' = [pc EXCEPT ![n] = "boot"] /\ mem' = [mem EXCEPT ![n] = m]
        /\ entry' = [entry EXCEPT ![n] = NewEntry(p)] /\ reg' = [reg EXCEPT ![p] = n]
        /\ disk' = m /\ UNCHANGED flush
    BY <1>1 DEF Launch
  <1>3. \A f \in Execs : ~Active(f) /\ ~Finished(f)
    <2>1. \A f \in Execs : entry[f].proc \in Procs /\ f # NoExec
      BY DEF TypeInv, TypeOK, Entry, Execs, NoExec
    <2>2. QED
      BY <2>1 DEF Control, ActiveIsOpen, LiveRunReachable, FinishedAlone
  <1>4. pc[n] = "idle" /\ ~flush[n]
    BY <1>1 DEF Control, StartedInOrder, FlushPending, TypeInv, TypeOK
  <1> HIDE DEF n
  <1>5. \A f \in Execs : /\ Active(f)' <=> f = n
                         /\ ~Finished(f)'
    BY <1>1, <1>2, <1>3 DEF TypeInv, TypeOK, Active, Finished
  <1>6. StartedInOrder'
    <2>1. \A f \in Execs : f > n <=> f > launched /\ f # n
      BY DEF n, Execs, TypeInv, TypeOK
    <2>2. QED
      BY <1>1, <1>2, <2>1 DEF Control, StartedInOrder, TypeInv, TypeOK
  <1>7. FlushPending'
    BY <1>2, <1>4 DEF Control, FlushPending, TypeInv, TypeOK
  <1>8. ActiveIsRunning'
    BY <1>1, <1>2, <1>5 DEF ActiveIsRunning, TypeInv, TypeOK
  <1>9. entry'[n].proc = p /\ ~entry'[n].completed
    BY <1>1, <1>2 DEF TypeInv, TypeOK, NewEntry
  <1>10. ActiveIsOpen' /\ OneExecutor' /\ LiveRunReachable'
    BY <1>1, <1>2, <1>5, <1>9 DEF ActiveIsOpen, OneExecutor, LiveRunReachable,
                                 TypeInv, TypeOK, ActiveStatus
  <1>11. FinishedAlone'
    BY <1>5 DEF FinishedAlone
  <1>12. QED
    BY <1>6, <1>7, <1>8, <1>10, <1>11 DEF Control

LEMMA InitControl == Init => Control
  <1> SUFFICES ASSUME Init PROVE Control
    OBVIOUS
  <1>1. \A e \in Execs : pc[e] = "idle" /\ ~flush[e] /\ e > launched
    BY DEF Init, Execs
  <1>2. \A e \in Execs : ~Active(e) /\ ~Finished(e)
    BY <1>1 DEF Active, Finished
  <1>3. QED
    BY <1>1, <1>2 DEF Control, StartedInOrder, FlushPending, ActiveIsRunning, ActiveIsOpen,
                      OneExecutor, LiveRunReachable, FinishedAlone

LEMMA WriteStatusControl ==
    ASSUME TypeInv, Control, NEW e \in Execs, WriteStatus(e)
    PROVE  Control'
  <1> DEFINE current == reg[entry[e].proc]
             status == mem[e].status
             ends(f) == \/ f = e /\ pc[e] = "closing" /\ status # "paused"
                        \/ f = current /\ status \in FinalStatus
  <1>1. /\ flush[e] /\ flush' = [flush EXCEPT ![e] = FALSE]
        /\ UNCHANGED <<disk, reg, pc, mem, launched>>
    BY DEF WriteStatus
  <1>2. \A f \in Execs : /\ entry'[f].proc = entry[f].proc
                         /\ entry'[f].completed <=> entry[f].completed \/ ends(f)
    <2>1. \A n \in Entry : \A x : \A b \in BOOLEAN :
            /\ [n EXCEPT !.seen = x, !.completed = b].proc = n.proc
            /\ [n EXCEPT !.seen = x, !.completed = b].completed = b
      BY DEF Entry
    <2>2. \A f \in Execs : entry[f] \in Entry /\ entry[f].completed \in BOOLEAN
      BY DEF TypeInv, TypeOK, Entry
    <2>3. ASSUME NEW f \in Execs
          PROVE  /\ entry'[f].proc = entry[f].proc
                 /\ entry'[f].completed = (entry[f].completed \/ ends(f))
      <3> DEFINE x == IF f = current THEN status ELSE entry[f].seen
                 b == entry[f].completed \/ ends(f)
      <3>1. entry'[f] = [entry[f] EXCEPT !.seen = x, !.completed = b]
        BY DEF WriteStatus
      <3>2. b \in BOOLEAN
        BY <2>2
      <3> HIDE DEF x, b
      <3>3. entry'[f].proc = entry[f].proc /\ entry'[f].completed = b
        BY <2>1, <2>2, <3>1, <3>2
      <3>4. QED
        BY <3>3 DEF b
    <2>4. QED
      BY <2>3
  <1>3. \A f \in Execs : Active(f)' <=> Active(f)
    BY <1>1 DEF Active
  <1>4. \A f \in Execs : ends(f) => f = e /\ Finished(e)
    <2>1. CASE Active(e)
      <3>1. status = "running" /\ pc[e] # "closing"
        BY <1>1, <2>1 DEF Control, ActiveIsRunning, FlushPending, Active
      <3>2. QED
        BY <3>1 DEF FinalStatus
    <2>2. CASE pc[e] = "closing"
      <3>1. status # "paused" => Finished(e)
        BY <1>1, <2>2 DEF Finished
      <3>2. status # "paused" => current = e
        BY <3>1 DEF Control, FinishedAlone
      <3>3. status \in FinalStatus => status # "paused"
        BY DEF FinalStatus
      <3>4. QED
        BY <3>1, <3>2, <3>3
    <2>3. QED
      BY <1>1, <2>1, <2>2 DEF Control, FlushPending, Active
  <1> HIDE DEF ends
  <1>5. \A f \in Execs : Finished(f)' => Finished(f)
    <2> SUFFICES ASSUME NEW f \in Execs, Finished(f)' PROVE Finished(f)
      OBVIOUS
    <2>1. flush'[f] => flush[f]
      BY <1>1 DEF TypeInv, TypeOK
    <2>2. CASE entry'[f].completed
      BY <1>1, <1>2, <1>4, <2>2 DEF Finished
    <2>3. CASE flush'[f] /\ mem'[f].status # "paused"
      BY <1>1, <2>1, <2>3 DEF Finished
    <2>4. QED
      BY <2>2, <2>3 DEF Finished
  <1>6. StartedInOrder' /\ FlushPending' /\ ActiveIsRunning'
    BY <1>1, <1>3 DEF Control, StartedInOrder, FlushPending, ActiveIsRunning, TypeInv, TypeOK
  <1>7. ActiveIsOpen'
    <2>1. \A f \in Execs : Active(f) => ~ends(f)
      BY <1>4 DEF Finished, Active
    <2>2. QED
      BY <1>1, <1>2, <1>3, <2>1 DEF Control, ActiveIsOpen
  <1>8. OneExecutor' /\ LiveRunReachable'
    BY <1>1, <1>2, <1>3 DEF Control, OneExecutor, LiveRunReachable
  <1>9. FinishedAlone'
    BY <1>1, <1>2, <1>3, <1>5 DEF Control, FinishedAlone
  <1>10. QED
    BY <1>6, <1>7, <1>8, <1>9 DEF Control

LEMMA TeardownControl ==
    ASSUME TypeInv, Control, NEW e \in Execs, Teardown(e)
    PROVE  Control'
  <1>1. /\ pc[e] = "closing" /\ ~flush[e] /\ pc' = [pc EXCEPT ![e] = "gone"]
        /\ mem' = [mem EXCEPT ![e] = InitialState]
        /\ UNCHANGED <<disk, entry, flush, launched>>
        /\ \/ reg' = reg
           \/ entry[e].completed /\ reg' = [reg EXCEPT ![entry[e].proc] = NoExec]
    BY DEF Teardown, At
  <1>2. \A f \in Execs : /\ Active(f)' <=> Active(f)
                         /\ Active(f) => f # e
                         /\ Finished(f)' => Finished(f) /\ f # e
    BY <1>1 DEF Active, Finished, TypeInv, TypeOK
  <1>3. entry[e].completed => /\ reg[entry[e].proc] = e
                              /\ \A f \in Execs : ~Active(f)
    BY <1>1 DEF Control, FinishedAlone, Finished
  <1>4. StartedInOrder' /\ FlushPending' /\ ActiveIsRunning' /\ ActiveIsOpen' /\ OneExecutor'
    BY <1>1, <1>2 DEF Control, StartedInOrder, FlushPending, ActiveIsRunning, ActiveIsOpen,
                      OneExecutor, TypeInv, TypeOK
  <1>5. LiveRunReachable'
    BY <1>1, <1>2, <1>3 DEF Control, LiveRunReachable
  <1>6. FinishedAlone'
    <2> SUFFICES ASSUME NEW f \in Execs, Finished(f)'
                 PROVE  reg'[entry[f].proc] = f
      BY <1>1, <1>2 DEF Control, FinishedAlone
    <2>1. reg[entry[f].proc] = f /\ f # e
      BY <1>2 DEF Control, FinishedAlone
    <2>2. entry[e].completed => entry[f].proc # entry[e].proc
      BY <1>3, <2>1
    <2>3. entry[f].proc \in Procs
      BY DEF TypeInv, TypeOK, Entry
    <2>4. QED
      BY <1>1, <2>1, <2>2, <2>3 DEF TypeInv, TypeOK
  <1>7. QED
    BY <1>4, <1>5, <1>6 DEF Control

LEMMA ExecutorControl ==
    ASSUME TypeInv, Control, NEW e \in Execs, ExecutorStep(e)
    PROVE  Control'
  <1> DEFINE m == mem[e]
             s == Running(e)
  <1>1. m \in RunState
    BY DEF TypeInv, TypeOK
  <1>2. pc[e] \in {"step", "parse"} => s \in Steps
    BY DEF TypeInv, HandlersRunSteps, Running
  <1>3. pc[e] \in {"top", "step", "parse"} => Active(e) /\ m.status = "running"
    BY DEF Control, ActiveIsRunning, Active
  <1>4. \A x \in RunState : Ended(x, "complete").status \in FinalStatus
                          /\ Ended(x, "failed").status \in FinalStatus
                          /\ Ended(x, "stopped").status \in FinalStatus
    BY DerivedStatus DEF FinalStatus
  <1> HIDE DEF m, s
  <1>5. s \in Steps => WithOutput(m, s) \in RunState /\ Recorded(m, s) \in RunState
    BY <1>1, DerivedStates
  <1>6. /\ Entered(m, s) \in RunState /\ Entered(m, s).status = m.status
        /\ WithOutput(m, s).status = m.status
    BY <1>1, DerivedStates, DerivedStatus
  <1>7. s \in Steps => \A t : Goto(WithOutput(m, s), t).status = m.status
    BY <1>5, <1>6, DerivedStatus
  <1>8. CASE Boot(e)
    <2>1. [m EXCEPT !.status = "running"].status = "running"
      BY <1>1 DEF RunState
    <2>2. QED
      BY <1>8, <2>1, PersistControl DEF Boot, Active, m
  <1>9. CASE WriteStatus(e)
    BY <1>9, WriteStatusControl
  <1>10. CASE StopAtTop(e)
    BY <1>1, <1>3, <1>4, <1>10, SettleControl DEF StopAtTop, At, m
  <1>11. CASE PauseAtTop(e)
    BY <1>1, <1>3, <1>11, DerivedStatus, SettleControl DEF PauseAtTop, At, m
  <1>12. CASE EndAtTop(e)
    BY <1>1, <1>3, <1>4, <1>12, SettleControl DEF EndAtTop, GoesOn, At, m
  <1>13. CASE UnknownStep(e)
    BY <1>1, <1>3, <1>4, <1>13, SettleControl DEF UnknownStep, GoesOn, At, m
  <1>14. CASE LoopBoundExceeded(e)
    BY <1>3, <1>4, <1>6, <1>14, SettleControl DEF LoopBoundExceeded, GoesOn, At, m, s
  <1>15. CASE BeginStep(e)
    BY <1>3, <1>6, <1>15, PersistControl DEF BeginStep, GoesOn, At, m, s
  <1>16. CASE AgentMissing(e)
    BY <1>1, <1>3, <1>4, <1>16, SettleControl DEF AgentMissing, AwaitsAgent, m
  <1>17. CASE AgentFails(e)
    <2>1. Ended(m, IF StopSeen(e) THEN "stopped" ELSE "failed").status \in FinalStatus
      BY <1>1, <1>4
    <2>2. QED
      BY <1>3, <1>17, <2>1, SettleControl DEF AgentFails, AwaitsAgent, m
  <1>18. CASE AgentAnswers(e)
    BY <1>2, <1>3, <1>7, <1>18, PersistControl DEF AgentAnswers, AwaitsAgent, m, s
  <1>19. CASE DecisionAnswers(e)
    BY <1>3, <1>19, PersistControl DEF DecisionAnswers, AwaitsAgent, m
  <1>20. CASE DecisionInvalid(e)
    <2>1. Active(e) /\ s \in Steps
      BY <1>2, <1>3, <1>20 DEF DecisionInvalid, At
    <2>2. AtGate(Recorded(m, s), s).status = "paused"
      BY <1>5, <2>1, DerivedStatus
    <2>3. QED
      BY <1>1, <1>4, <1>20, <2>1, <2>2, SettleControl DEF DecisionInvalid, m, s
  <1>21. CASE DecisionStops(e)
    <2>1. Active(e) /\ s \in Steps
      BY <1>2, <1>3, <1>21 DEF DecisionStops, At
    <2>2. QED
      BY <1>4, <1>5, <1>21, <2>1, SettleControl DEF DecisionStops, m, s
  <1>22. CASE DecisionAsksHuman(e)
    <2>1. Active(e) /\ s \in Steps
      BY <1>2, <1>3, <1>22 DEF DecisionAsksHuman, At
    <2>2. AtGate(WithOutput(m, s), s).status = "paused"
      BY <1>5, <2>1, DerivedStatus
    <2>3. QED
      BY <1>22, <2>1, <2>2, SettleControl DEF DecisionAsksHuman, m, s
  <1>23. CASE DecisionGoesOn(e)
    <2>1. Active(e) /\ m.status = "running" /\ s \in Steps
      BY <1>2, <1>3, <1>23 DEF DecisionGoesOn, At
    <2>2. PICK t : Carry(e, Goto(WithOutput(m, s), t))
      BY <1>23 DEF DecisionGoesOn, m, s
    <2>3. QED
      BY <1>7, <2>1, <2>2, CarryControl
  <1>24. CASE RunHumanGate(e)
    <2>1. Active(e) /\ s \in Steps
      BY <1>2, <1>3, <1>24 DEF RunHumanGate, At
    <2>2. AtGate(Recorded(m, s), s).status = "paused"
      BY <1>5, <2>1, DerivedStatus
    <2>3. QED
      BY <1>24, <2>1, <2>2, SettleControl DEF RunHumanGate, m, s
  <1>25. CASE RunMerge(e)
    <2>1. Active(e) /\ m.status = "running" /\ s \in Steps
      BY <1>2, <1>3, <1>25 DEF RunMerge, At
    <2>2. \/ Carry(e, Goto(WithOutput(m, s), AdvanceAfter(s)))
          \/ Settle(e, Ended(m, "failed"))
      BY <1>25 DEF RunMerge, m, s
    <2>3. QED
      BY <1>1, <1>4, <1>7, <2>1, <2>2, CarryControl, SettleControl
  <1>26. CASE RunTerminate(e)
    <2>1. Active(e) /\ s \in Steps
      BY <1>2, <1>3, <1>26 DEF RunTerminate, At
    <2>2. EndsAs[s] \in FinalStatus
      BY <2>1, DefinitionAssumption DEF FinalStatus
    <2>3. Ended(Recorded(m, s), EndsAs[s]).status = EndsAs[s]
      BY <1>5, <2>1, DerivedStatus
    <2>4. QED
      BY <1>26, <2>1, <2>2, <2>3, SettleControl DEF RunTerminate, m, s
  <1>27. CASE Teardown(e)
    BY <1>27, TeardownControl
  <1>28. QED
    BY <1>8, <1>9, <1>10, <1>11, <1>12, <1>13, <1>14, <1>15, <1>16, <1>17, <1>18,
       <1>19, <1>20, <1>21, <1>22, <1>23, <1>24, <1>25, <1>26, <1>27
    DEF ExecutorStep

LEMMA MarkControl ==
    ASSUME TypeInv, Control, UNCHANGED <<disk, reg, pc, mem, flush, launched>>,
           \A e \in Execs : /\ entry'[e].proc = entry[e].proc
                           /\ entry'[e].completed = entry[e].completed
    PROVE  Control'
  <1>1. \A e \in Execs : /\ Active(e)' <=> Active(e)
                         /\ Finished(e)' <=> Finished(e)
    BY DEF Active, Finished
  <1>2. QED
    BY <1>1 DEF Control, StartedInOrder, FlushPending, ActiveIsRunning, ActiveIsOpen,
                OneExecutor, LiveRunReachable, FinishedAlone

LEMMA DiskControl ==
    ASSUME TypeInv, Control, UNCHANGED <<reg, entry, pc, mem, flush, launched>>,
           disk'.status \notin {"absent", "paused"}
    PROVE  Control'
  <1>1. \A e \in Execs : /\ Active(e)' <=> Active(e)
                         /\ Finished(e)' <=> Finished(e)
    BY DEF Active, Finished
  <1>2. QED
    BY <1>1 DEF Control, StartedInOrder, FlushPending, ActiveIsRunning, ActiveIsOpen,
                OneExecutor, LiveRunReachable, FinishedAlone

LEMMA OperationControl ==
    ASSUME Careful, TypeInv, Control, NEW p \in Procs, Operation(p)
    PROVE  Control'
  <1>1. disk \in RunState
    BY DEF TypeInv, TypeOK
  <1>2. CASE StartRun(p)
    <2>1. [disk EXCEPT !.status = "queued"].status \in ActiveStatus
      BY <1>1 DEF RunState, ActiveStatus
    <2>2. QED
      BY <1>2, <2>1, LaunchControl DEF StartRun
  <1>3. CASE ResumeRun(p)
    <2>1. Resumed(disk).status \in ActiveStatus
      BY <1>1, DerivedStatus DEF ActiveStatus
    <2>2. QED
      BY <1>3, <2>1, LaunchControl DEF ResumeRun, CallerMayResume
  <1>4. CASE ApproveAndGoOn(p)
    <2>1. PICK t \in NextAfterApproval(disk.gate) : Launch(p, Resumed(Goto(disk, t)))
      BY <1>4 DEF ApproveAndGoOn
    <2>2. Resumed(Goto(disk, t)).status \in ActiveStatus
      BY <1>1 DEF Resumed, Goto, RunState, ActiveStatus
    <2>3. QED
      BY <1>4, <2>1, <2>2, LaunchControl DEF ApproveAndGoOn, AtPendingGate
  <1>5. CASE ApproveStop(p)
    <2>1. disk'.status = "stopped"
      BY <1>1, <1>5 DEF ApproveStop, Ended, RunState
    <2>2. QED
      BY <1>5, <2>1, DiskControl DEF ApproveStop
  <1>6. CASE PauseRun(p)
    BY <1>6, MarkControl DEF PauseRun, TypeInv, TypeOK, Entry
  <1>7. CASE StopLive(p)
    BY <1>7, MarkControl DEF StopLive, TypeInv, TypeOK, Entry
  <1>8. CASE StopDurable(p)
    <2>1. disk'.status \in FinalStatus
      BY <1>1, <1>8 DEF StopDurable, RunState, FinalStatus
    <2>2. QED
      BY <1>8, <2>1, DiskControl DEF StopDurable, FinalStatus
  <1>9. QED
    BY <1>2, <1>3, <1>4, <1>5, <1>6, <1>7, <1>8 DEF Operation

LEMMA CrashControl ==
    ASSUME TypeInv, Control, NEW p \in Procs, Crash(p)
    PROVE  Control'
  <1> DEFINE lost(e) == entry[e].proc = p /\ pc[e] # "idle"
  <1>1. /\ pc' = [e \in Execs |-> IF lost(e) THEN "gone" ELSE pc[e]]
        /\ flush' = [e \in Execs |-> flush[e] /\ ~lost(e)]
        /\ mem' = [e \in Execs |-> IF lost(e) THEN InitialState ELSE mem[e]]
        /\ reg' = [reg EXCEPT ![p] = NoExec]
        /\ UNCHANGED <<disk, entry, launched>>
    BY DEF Crash
  <1>2. \A e \in Execs : /\ Active(e)' => Active(e) /\ ~lost(e)
                         /\ Finished(e)' => Finished(e) /\ ~lost(e)
    BY <1>1 DEF Active, Finished
  <1>3. StartedInOrder' /\ FlushPending' /\ ActiveIsRunning'
    BY <1>1, <1>2 DEF Control, StartedInOrder, FlushPending, ActiveIsRunning
  <1>4. ActiveIsOpen' /\ OneExecutor'
    BY <1>1, <1>2 DEF Control, ActiveIsOpen, OneExecutor
  <1>5. \A e \in Execs : (Active(e) \/ Finished(e)) /\ ~lost(e) =>
                              reg'[entry[e].proc] = reg[entry[e].proc]
    BY <1>1 DEF Active, Finished, TypeInv, TypeOK, Entry
  <1>6. LiveRunReachable' /\ FinishedAlone'
    BY <1>1, <1>2, <1>5 DEF Control, LiveRunReachable, FinishedAlone
  <1>7. QED
    BY <1>3, <1>4, <1>6 DEF Control

LEMMA ThrowControl ==
    ASSUME ~TornPersist, TypeInv, Control, NEW e \in Execs, Throw(e)
    PROVE  Control'
  <1>1. /\ Active(e) /\ ~flush[e]
        /\ pc' = [pc EXCEPT ![e] = "closing"]
        /\ flush' = [flush EXCEPT ![e] = FALSE]
        /\ entry' = [entry EXCEPT ![e].completed = TRUE]
        /\ UNCHANGED <<disk, reg, mem, launched>>
    BY DEF Throw
  <1>2. \A f \in Execs : ~Active(f)' /\ (Finished(f)' => f = e)
    BY <1>1 DEF Control, OneExecutor, FinishedAlone, Active, Finished, TypeInv, TypeOK
  <1>3. StartedInOrder' /\ FlushPending'
    BY <1>1 DEF Control, StartedInOrder, FlushPending, Active, TypeInv, TypeOK
  <1>4. ActiveIsRunning' /\ ActiveIsOpen' /\ OneExecutor' /\ LiveRunReachable'
    BY <1>2 DEF ActiveIsRunning, ActiveIsOpen, OneExecutor, LiveRunReachable
  <1>5. FinishedAlone'
    <2>1. entry'[e].proc = entry[e].proc
      BY <1>1 DEF TypeInv, TypeOK, Entry
    <2>2. QED
      BY <1>1, <1>2, <2>1 DEF Control, ActiveIsOpen, LiveRunReachable, FinishedAlone
  <1>6. QED
    BY <1>3, <1>4, <1>5 DEF Control

LEMMA NextControl ==
    ASSUME Careful, ~TornPersist
    PROVE  TypeInv /\ Control /\ [Next]_vars => Control'
  <1> SUFFICES ASSUME TypeInv, Control, [Next]_vars PROVE Control'
    OBVIOUS
  <1>1. CASE UNCHANGED vars
    BY <1>1, MarkControl DEF vars
  <1>2. CASE Next
    BY <1>2, ExecutorControl, OperationControl, CrashControl, ThrowControl DEF Next
  <1>3. QED
    BY <1>1, <1>2

LEMMA ControlInvariant ==
    ASSUME Careful, ~TornPersist
    PROVE  Spec => []Control
  BY InitControl, NextControl, TypeInvariant, PTL DEF Spec

\* When callers resume a run only at rest, no interleaving of starts, resumes,
\* approvals, stops, crashes and exceptions, in any number of processes, puts
\* two executors to work on the run at once.
THEOREM OneExecutorAtWork ==
    ASSUME Careful, ~TornPersist
    PROVE  Spec => []OneExecutor
  <1>1. Control => OneExecutor
    BY DEF Control
  <1>2. QED
    BY <1>1, ControlInvariant, PTL

\* Under the same assumptions the executor at work is always the one its
\* process's registry holds: a stop, a pause and a status read reach it.
THEOREM RegistryLeadsToExecutor ==
    ASSUME Careful, ~TornPersist
    PROVE  Spec => []LiveRunReachable
  <1>1. Control => LiveRunReachable
    BY DEF Control
  <1>2. QED
    BY <1>1, ControlInvariant, PTL

-----------------------------------------------------------------------------
(***************************************************************************)
(* Progress is carried over.  Whatever writes state.json has read it, or   *)
(* is the one executor that holds a later state: the loop counters and the *)
(* outputs never fall behind what really began and what was answered.      *)
(***************************************************************************)
Covers(m) == /\ \A l \in Loops : rounds[l] <= m.iter[l]
             /\ answered \subseteq m.done

Progress == /\ Covers(disk)
            /\ \A e \in Execs : Active(e) => Covers(mem[e])
            /\ RoundsBounded

Keeps(m, n) == /\ \A l \in Loops : m.iter[l] <= n.iter[l]
               /\ m.done \subseteq n.done

LEMMA DerivedKeeps ==
    ASSUME NEW m \in RunState, NEW s
    PROVE  /\ Keeps(m, m)
           /\ Keeps(m, Goto(m, s))
           /\ Keeps(m, Entered(m, s))
           /\ Keeps(m, Recorded(m, s))
           /\ Keeps(m, WithOutput(m, s)) /\ s \in WithOutput(m, s).done
           /\ Keeps(m, AtGate(m, s))
           /\ Keeps(m, Ended(m, s))
           /\ Keeps(m, Paused(m))
           /\ Keeps(m, Resumed(m))
  <1>1. m.iter \in [Loops -> Nat] /\ \A l \in Loops : m.iter[l] <= m.iter[l]
    BY DEF RunState
  <1>2. Keeps(m, Entered(m, s))
    <2>1. \A l \in Loops : m.iter[l] <= CountRound(m.iter, s)[l]
      <3>1. CountRound(m.iter, s) \in [Loops -> Nat]
            /\ \A l \in Loops : CountRound(m.iter, s)[l] >= m.iter[l]
        BY <1>1, CountRoundType
      <3>2. QED
        BY <1>1, <3>1
    <2>2. QED
      BY <2>1 DEF Keeps, Entered, RunState
  <1>3. Keeps(m, WithOutput(m, s)) /\ s \in WithOutput(m, s).done
    BY <1>1 DEF Keeps, WithOutput, Recorded, RunState
  <1>4. QED
    BY <1>1, <1>2, <1>3
    DEF Keeps, Goto, Recorded, AtGate, Ended, Paused, Resumed, RunState

LEMMA KeepsTransitive ==
    ASSUME NEW m \in RunState, NEW n \in RunState, NEW k \in RunState,
           Keeps(m, n), Keeps(n, k)
    PROVE  Keeps(m, k)
  <1>1. \A l \in Loops : m.iter[l] \in Nat /\ n.iter[l] \in Nat /\ k.iter[l] \in Nat
    BY DEF RunState
  <1>2. QED
    BY <1>1 DEF Keeps

LEMMA CoversKept ==
    ASSUME TypeInv, NEW m \in RunState, NEW n \in RunState, Covers(m), Keeps(m, n)
    PROVE  Covers(n)
  <1>1. \A l \in Loops : m.iter[l] \in Nat /\ n.iter[l] \in Nat /\ rounds[l] \in Nat
    BY DEF RunState, TypeInv, TypeOK
  <1>2. QED
    BY <1>1 DEF Covers, Keeps

\* A step that begins no round and brings no answer.
LEMMA QuietProgress ==
    ASSUME TypeInv, Progress, UNCHANGED <<rounds, answered>>, Covers(disk'),
           \A e \in Execs : Active(e)' => Covers(mem'[e])
    PROVE  Progress'
  BY DEF Progress, Covers, RoundsBounded

LEMMA SettleProgress ==
    ASSUME TypeInv, Control, Progress, NEW e \in Execs, NEW m \in RunState,
           Active(e), Keeps(mem[e], m), Settle(e, m)
    PROVE  Progress'
  <1>1. mem[e] \in RunState /\ Covers(m)
    BY CoversKept DEF Progress, TypeInv, TypeOK
  <1>2. \A f \in Execs : ~Active(f)'
    BY DEF Control, OneExecutor, Settle, Persist, Active, TypeInv, TypeOK
  <1>3. disk' = m /\ UNCHANGED <<rounds, answered>>
    BY DEF Settle, Persist
  <1>4. QED
    BY <1>1, <1>2, <1>3, QuietProgress

LEMMA PersistProgress ==
    ASSUME TypeInv, Control, Progress, NEW e \in Execs, NEW m \in RunState, NEW at,
           Active(e), Keeps(mem[e], m), Persist(e, m, at), UNCHANGED <<rounds, answered>>
    PROVE  Progress'
  <1>1. mem[e] \in RunState /\ Covers(m)
    BY CoversKept DEF Progress, TypeInv, TypeOK
  <1>2. \A f \in Execs : Active(f)' => f = e
    BY DEF Control, OneExecutor, Persist, Active, TypeInv, TypeOK
  <1>3. disk' = m /\ mem'[e] = m
    BY DEF Persist, TypeInv, TypeOK
  <1>4. QED
    BY <1>1, <1>2, <1>3, QuietProgress

LEMMA CarryProgress ==
    ASSUME TypeInv, Control, Progress, NEW e \in Execs, NEW m \in RunState,
           Active(e), Keeps(mem[e], m), Carry(e, m)
    PROVE  Progress'
  <1>1. mem[e] \in RunState /\ Covers(m)
    BY CoversKept DEF Progress, TypeInv, TypeOK
  <1>2. \A f \in Execs : Active(f)' => f = e
    BY DEF Control, OneExecutor, Carry, Active, TypeInv, TypeOK
  <1>3. disk' = disk /\ mem'[e] = m /\ UNCHANGED <<rounds, answered>>
    BY DEF Carry, TypeInv, TypeOK
  <1>4. QED
    BY <1>1, <1>2, <1>3, QuietProgress DEF Progress

LEMMA LaunchProgress ==
    ASSUME TypeInv, Control', Progress, NEW p \in Procs, NEW m \in RunState,
           Keeps(disk, m), Launch(p, m)
    PROVE  Progress'
  <1>1. disk \in RunState /\ Covers(m)
    BY CoversKept DEF Progress, TypeInv, TypeOK
  <1>2. PICK n \in Execs : n = launched'
    BY BoundsAssumption DEF Launch, TypeInv, TypeOK, Execs
  <1>3. disk' = m /\ mem'[n] = m /\ pc'[n] = "boot" /\ UNCHANGED <<rounds, answered>>
    BY <1>2 DEF Launch, TypeInv, TypeOK
  <1>4. \A f \in Execs : Active(f)' => f = n
    BY <1>2, <1>3 DEF Control, OneExecutor, Active
  <1>5. QED
    BY <1>1, <1>3, <1>4, QuietProgress

LEMMA BeginStepProgress ==
    ASSUME TypeInv, Control, Progress, NEW e \in Execs, BeginStep(e)
    PROVE  Progress'
  <1> DEFINE s == Running(e)
             m == Entered(mem[e], s)
  <1>1. mem[e] \in RunState /\ m \in RunState /\ Active(e) /\ s \in Steps
    <2>1. mem[e] \in RunState
      BY DEF TypeInv, TypeOK
    <2>2. QED
      BY <2>1, DerivedStates DEF BeginStep, GoesOn, At, Active
  <1>2. /\ disk' = m /\ mem' = [mem EXCEPT ![e] = m] /\ pc' = [pc EXCEPT ![e] = "step"]
        /\ WithinBounds(m.iter, m.steps, s) /\ answered' = answered
        /\ rounds' = [l \in Loops |-> IF BeginsRound(s) /\ l = LoopOf[s]
                                      THEN Bump(rounds[l], MaxIter[l])
                                      ELSE rounds[l]]
    BY DEF BeginStep, Persist
  <1>3. Covers(mem[e])
    BY <1>1 DEF Progress
  <1>4. m.iter = CountRound(mem[e].iter, s) /\ mem[e].iter \in [Loops -> Nat]
        /\ m.done = mem[e].done
    BY <1>1 DEF Entered, RunState
  <1> HIDE DEF m, s
  <1>5. \A l \in Loops : rounds'[l] <= m.iter[l] /\ rounds'[l] \in Nat
    <2> SUFFICES ASSUME NEW l \in Loops PROVE rounds'[l] <= m.iter[l] /\ rounds'[l] \in Nat
      OBVIOUS
    <2>1. /\ rounds[l] \in Nat /\ mem[e].iter[l] \in Nat /\ MaxIter[l] \in Nat
          /\ rounds[l] <= mem[e].iter[l]
      BY <1>3, <1>4, DefinitionAssumption DEF Covers, TypeInv, TypeOK
    <2>2. CASE BeginsRound(s) /\ l = LoopOf[s]
      <3>1. m.iter[l] = Bump(mem[e].iter[l], MaxIter[l])
        BY <1>4, <2>2, CountRoundCounts
      <3>2. rounds'[l] = Bump(rounds[l], MaxIter[l])
        BY <1>2, <2>2
      <3>3. QED
        BY <2>1, <3>1, <3>2 DEF Bump
    <2>3. CASE ~(BeginsRound(s) /\ l = LoopOf[s])
      <3>1. m.iter[l] \in Nat /\ m.iter[l] >= mem[e].iter[l]
        BY <1>4, CountRoundType
      <3>2. rounds'[l] = rounds[l]
        BY <1>2, <2>3
      <3>3. QED
        BY <2>1, <3>1, <3>2
    <2>4. QED
      BY <2>2, <2>3
  <1>6. Covers(disk)' /\ \A f \in Execs : Active(f)' => Covers(mem[f])'
    <2>1. answered' \subseteq m.done
      BY <1>2, <1>3, <1>4 DEF Covers
    <2>2. \A f \in Execs : Active(f)' => mem'[f] = m
      BY <1>1, <1>2 DEF Control, OneExecutor, Active, TypeInv, TypeOK
    <2>3. QED
      BY <1>2, <1>5, <2>1, <2>2 DEF Covers
  <1>7. RoundsBounded'
    <2> SUFFICES ASSUME NEW l \in Loops, MaxIter[l] > 0 PROVE rounds'[l] <= MaxIter[l]
      BY DEF RoundsBounded
    <2>1. CASE BeginsRound(s) /\ l = LoopOf[s]
      <3>1. m.iter[l] <= MaxIter[l]
        BY <1>2, <2>1 DEF WithinBounds, BeginsRound
      <3>2. m.iter[l] \in Nat /\ MaxIter[l] \in Nat
        BY <1>4, CountRoundType, DefinitionAssumption
      <3>3. QED
        BY <1>5, <3>1, <3>2
    <2>2. CASE ~(BeginsRound(s) /\ l = LoopOf[s])
      BY <1>2, <2>2 DEF Progress, RoundsBounded
    <2>3. QED
      BY <2>1, <2>2
  <1>8. QED
    BY <1>6, <1>7 DEF Progress

LEMMA AgentAnswersProgress ==
    ASSUME TypeInv, Control, Progress, NEW e \in Execs, AgentAnswers(e)
    PROVE  Progress'
  <1> DEFINE s == Running(e)
             m == Goto(WithOutput(mem[e], s), AdvanceAfter(s))
  <1>1. /\ mem[e] \in RunState /\ Active(e) /\ s \in Steps
        /\ WithOutput(mem[e], s) \in RunState /\ m \in RunState
    <2>1. mem[e] \in RunState /\ Active(e) /\ s \in Steps
      BY DEF AgentAnswers, AwaitsAgent, Active, Running, TypeInv, TypeOK, HandlersRunSteps
    <2>2. WithOutput(mem[e], s) \in RunState /\ AdvanceAfter(s) \in StepIds \cup {NoStep}
      BY <2>1, DerivedStates, AdvanceType DEF StepIds
    <2>3. QED
      BY <2>1, <2>2, DerivedStates
  <1>2. Keeps(mem[e], m) /\ s \in m.done
    <2>1. /\ Keeps(mem[e], WithOutput(mem[e], s)) /\ s \in WithOutput(mem[e], s).done
          /\ Keeps(WithOutput(mem[e], s), m)
      BY <1>1, DerivedKeeps
    <2>2. QED
      BY <1>1, <2>1, KeepsTransitive DEF Keeps
  <1>3. Covers(m)
    BY <1>1, <1>2, CoversKept DEF Progress
  <1>4. /\ disk' = m /\ mem' = [mem EXCEPT ![e] = m] /\ pc' = [pc EXCEPT ![e] = "top"]
        /\ rounds' = rounds /\ answered' = answered \cup {s}
    BY DEF AgentAnswers, Persist
  <1> HIDE DEF m, s
  <1>5. \A f \in Execs : Active(f)' => mem'[f] = m
    BY <1>1, <1>4 DEF Control, OneExecutor, Active, TypeInv, TypeOK
  <1>6. Covers(disk)' /\ \A f \in Execs : Active(f)' => Covers(mem[f])'
    BY <1>2, <1>3, <1>4, <1>5 DEF Covers
  <1>7. QED
    BY <1>4, <1>6 DEF Progress, RoundsBounded

LEMMA ExecutorProgress ==
    ASSUME TypeInv, Control, Progress, NEW e \in Execs, ExecutorStep(e)
    PROVE  Progress'
  <1> DEFINE m == mem[e]
             s == Running(e)
             w == WithOutput(m, s)
             r == Recorded(m, s)
  <1>1. m \in RunState /\ Keeps(m, m)
    BY DerivedKeeps DEF TypeInv, TypeOK
  <1>2. pc[e] \in {"step", "parse"} => s \in Steps
    BY DEF TypeInv, HandlersRunSteps, Running
  <1>3. pc[e] \in {"boot", "top", "step", "parse"} => Active(e)
    BY DEF Active
  <1>4. \A x \in RunState : \A status \in {"complete", "failed", "stopped"} :
            Ended(x, status) \in RunState /\ Keeps(x, Ended(x, status))
    BY DerivedStates, DerivedKeeps DEF RunStatus, FinalStatus
  <1>5. s \in Steps => /\ w \in RunState /\ Keeps(m, w)
                       /\ r \in RunState /\ Keeps(m, r)
    BY <1>1, DerivedStates, DerivedKeeps
  <1>6. \A x \in RunState : s \in Steps => /\ AtGate(x, s) \in RunState
                                          /\ Keeps(x, AtGate(x, s))
    BY DerivedStates, DerivedKeeps
  <1> HIDE DEF m, s, w, r
  <1>7. s \in Steps => \A t \in StepIds \cup {NoStep} :
            Goto(w, t) \in RunState /\ Keeps(m, Goto(w, t))
    BY <1>1, <1>5, DerivedStates, DerivedKeeps, KeepsTransitive
  <1>8. s \in Steps => AdvanceAfter(s) \in StepIds \cup {NoStep}
    BY AdvanceType DEF StepIds
  <1>9. CASE Boot(e)
    <2>1. [m EXCEPT !.status = "running"] \in RunState
          /\ Keeps(m, [m EXCEPT !.status = "running"])
      BY <1>1 DEF RunState, RunStatus, ActiveStatus, Keeps
    <2>2. QED
      BY <1>3, <1>9, <2>1, PersistProgress DEF Boot, m
  <1>10. CASE WriteStatus(e)
    BY <1>10, QuietProgress DEF WriteStatus, Progress, Active
  <1>11. CASE StopAtTop(e)
    BY <1>1, <1>3, <1>4, <1>11, SettleProgress DEF StopAtTop, At, m
  <1>12. CASE PauseAtTop(e)
    BY <1>1, <1>3, <1>12, DerivedStates, DerivedKeeps, SettleProgress DEF PauseAtTop, At, m
  <1>13. CASE EndAtTop(e)
    BY <1>1, <1>3, <1>4, <1>13, SettleProgress DEF EndAtTop, GoesOn, At, m
  <1>14. CASE UnknownStep(e)
    BY <1>1, <1>3, <1>4, <1>14, SettleProgress DEF UnknownStep, GoesOn, At, m
  <1>15. CASE LoopBoundExceeded(e)
    <2>1. Entered(m, s) \in RunState /\ Keeps(m, Entered(m, s))
      BY <1>1, DerivedStates, DerivedKeeps
    <2>2. Ended(Entered(m, s), "failed") \in RunState
          /\ Keeps(m, Ended(Entered(m, s), "failed"))
      BY <1>1, <1>4, <2>1, KeepsTransitive
    <2>3. QED
      BY <1>3, <1>15, <2>2, SettleProgress DEF LoopBoundExceeded, GoesOn, At, m, s
  <1>16. CASE BeginStep(e)
    BY <1>16, BeginStepProgress
  <1>17. CASE AgentMissing(e)
    BY <1>1, <1>3, <1>4, <1>17, SettleProgress DEF AgentMissing, AwaitsAgent, m
  <1>18. CASE AgentFails(e)
    <2>1. PICK status \in {"failed", "stopped"} : Settle(e, Ended(m, status))
      BY <1>18 DEF AgentFails, m
    <2>2. QED
      BY <1>1, <1>3, <1>4, <1>18, <2>1, SettleProgress DEF AgentFails, AwaitsAgent, m
  <1>19. CASE AgentAnswers(e)
    BY <1>19, AgentAnswersProgress
  <1>20. CASE DecisionAnswers(e)
    BY <1>1, <1>3, <1>20, PersistProgress DEF DecisionAnswers, AwaitsAgent, m
  <1>21. CASE DecisionInvalid(e)
    <2>1. Active(e) /\ s \in Steps
      BY <1>2, <1>3, <1>21 DEF DecisionInvalid, At
    <2>2. AtGate(r, s) \in RunState /\ Keeps(m, AtGate(r, s))
      BY <1>1, <1>5, <1>6, <2>1, KeepsTransitive
    <2>3. Settle(e, AtGate(r, s)) \/ Settle(e, Ended(m, "failed"))
      BY <1>21 DEF DecisionInvalid, m, s, r
    <2>4. QED
      BY <1>1, <1>4, <2>1, <2>2, <2>3, SettleProgress DEF m
  <1>22. CASE DecisionStops(e)
    <2>1. Active(e) /\ s \in Steps
      BY <1>2, <1>3, <1>22 DEF DecisionStops, At
    <2>2. Ended(w, "complete") \in RunState /\ Keeps(m, Ended(w, "complete"))
      BY <1>1, <1>4, <1>5, <2>1, KeepsTransitive
    <2>3. QED
      BY <1>22, <2>1, <2>2, SettleProgress DEF DecisionStops, m, s, w
  <1>23. CASE DecisionAsksHuman(e)
    <2>1. Active(e) /\ s \in Steps
      BY <1>2, <1>3, <1>23 DEF DecisionAsksHuman, At
    <2>2. AtGate(w, s) \in RunState /\ Keeps(m, AtGate(w, s))
      BY <1>1, <1>5, <1>6, <2>1, KeepsTransitive
    <2>3. QED
      BY <1>23, <2>1, <2>2, SettleProgress DEF DecisionAsksHuman, m, s, w
  <1>24. CASE DecisionGoesOn(e)
    <2>1. Active(e) /\ s \in Steps
      BY <1>2, <1>3, <1>24 DEF DecisionGoesOn, At
    <2>2. PICK t \in Targets[s] \cup {AdvanceAfter(s)} : Carry(e, Goto(w, t))
      BY <1>24 DEF DecisionGoesOn, m, s, w
    <2>3. t \in StepIds \cup {NoStep}
      BY <1>8, <2>1, DefinitionAssumption
    <2>4. QED
      BY <1>7, <2>1, <2>2, <2>3, CarryProgress DEF m
  <1>25. CASE RunHumanGate(e)
    <2>1. Active(e) /\ s \in Steps
      BY <1>2, <1>3, <1>25 DEF RunHumanGate, At
    <2>2. AtGate(r, s) \in RunState /\ Keeps(m, AtGate(r, s))
      BY <1>1, <1>5, <1>6, <2>1, KeepsTransitive
    <2>3. QED
      BY <1>25, <2>1, <2>2, SettleProgress DEF RunHumanGate, m, s, r
  <1>26. CASE RunMerge(e)
    <2>1. Active(e) /\ s \in Steps
      BY <1>2, <1>3, <1>26 DEF RunMerge, At
    <2>2. Carry(e, Goto(w, AdvanceAfter(s))) \/ Settle(e, Ended(m, "failed"))
      BY <1>26 DEF RunMerge, m, s, w
    <2>3. QED
      BY <1>1, <1>4, <1>7, <1>8, <2>1, <2>2, CarryProgress, SettleProgress DEF m
  <1>27. CASE RunTerminate(e)
    <2>1. Active(e) /\ s \in Steps
      BY <1>2, <1>3, <1>27 DEF RunTerminate, At
    <2>2. Ended(r, EndsAs[s]) \in RunState /\ Keeps(m, Ended(r, EndsAs[s]))
      BY <1>1, <1>4, <1>5, <2>1, KeepsTransitive, DefinitionAssumption
    <2>3. QED
      BY <1>27, <2>1, <2>2, SettleProgress DEF RunTerminate, m, s, r
  <1>28. CASE Teardown(e)
    <2>1. \A f \in Execs : Active(f)' => Active(f) /\ mem'[f] = mem[f]
      BY <1>28 DEF Teardown, Active, TypeInv, TypeOK
    <2>2. QED
      BY <1>28, <2>1, QuietProgress DEF Teardown, Progress
  <1>29. QED
    BY <1>9, <1>10, <1>11, <1>12, <1>13, <1>14, <1>15, <1>16, <1>17, <1>18, <1>19,
       <1>20, <1>21, <1>22, <1>23, <1>24, <1>25, <1>26, <1>27, <1>28
    DEF ExecutorStep

LEMMA OperationProgress ==
    ASSUME Careful, TypeInv, Control, Progress, NEW p \in Procs, Operation(p)
    PROVE  Progress'
  <1>1. disk \in RunState /\ Covers(disk) /\ Control'
    BY OperationControl DEF TypeInv, TypeOK, Progress
  <1>2. \A n \in RunState : Keeps(disk, n) => Covers(n)
    BY <1>1, CoversKept
  <1>3. CASE StartRun(p)
    <2>1. [disk EXCEPT !.status = "queued"] \in RunState
          /\ Keeps(disk, [disk EXCEPT !.status = "queued"])
      BY <1>1, DerivedKeeps DEF RunState, RunStatus, ActiveStatus, Keeps
    <2>2. QED
      BY <1>1, <1>3, <2>1, LaunchProgress DEF StartRun
  <1>4. CASE ResumeRun(p)
    BY <1>1, <1>4, DerivedStates, DerivedKeeps, LaunchProgress DEF ResumeRun
  <1>5. CASE ApproveAndGoOn(p)
    <2>1. PICK t \in NextAfterApproval(disk.gate) : Launch(p, Resumed(Goto(disk, t)))
      BY <1>5 DEF ApproveAndGoOn
    <2>2. disk.gate \in Steps
      BY <1>1, <1>5 DEF ApproveAndGoOn, AtPendingGate, RunState
    <2>3. t \in StepIds \cup {NoStep}
      BY <2>2, NextStepType DEF NextAfterApproval, StepIds
    <2>4. Goto(disk, t) \in RunState /\ Resumed(Goto(disk, t)) \in RunState
      BY <1>1, <2>3, DerivedStates
    <2>5. Keeps(disk, Resumed(Goto(disk, t)))
      BY <1>1, <2>4, DerivedKeeps, KeepsTransitive
    <2>6. QED
      BY <1>1, <2>1, <2>4, <2>5, LaunchProgress
  <1>6. CASE ApproveStop(p)
    <2>1. Covers(disk')
      BY <1>1, <1>6 DEF ApproveStop, Ended, Covers, RunState
    <2>2. QED
      BY <1>6, <2>1, QuietProgress DEF ApproveStop, Progress, Active
  <1>7. CASE PauseRun(p)
    BY <1>7, QuietProgress DEF PauseRun, Progress, Active
  <1>8. CASE StopLive(p)
    BY <1>8, QuietProgress DEF StopLive, Progress, Active
  <1>9. CASE StopDurable(p)
    <2>1. Covers(disk')
      BY <1>1, <1>9 DEF StopDurable, Covers, RunState
    <2>2. QED
      BY <1>9, <2>1, QuietProgress DEF StopDurable, Progress, Active
  <1>10. QED
    BY <1>3, <1>4, <1>5, <1>6, <1>7, <1>8, <1>9 DEF Operation

LEMMA FaultProgress ==
    /\ \A p \in Procs : TypeInv /\ Progress /\ Crash(p) => Progress'
    /\ \A e \in Execs : TypeInv /\ Progress /\ Throw(e) => Progress'
  <1>1. ASSUME NEW p \in Procs, TypeInv, Progress, Crash(p) PROVE Progress'
    <2>1. \A f \in Execs : Active(f)' => Active(f) /\ mem'[f] = mem[f]
      BY <1>1 DEF Crash, Active
    <2>2. QED
      BY <1>1, <2>1, QuietProgress DEF Crash, Progress
  <1>2. ASSUME NEW e \in Execs, TypeInv, Progress, Throw(e) PROVE Progress'
    <2>1. \A f \in Execs : Active(f)' => Active(f) /\ mem'[f] = mem[f]
      BY <1>2 DEF Throw, Active, TypeInv, TypeOK
    <2>2. QED
      BY <1>2, <2>1, QuietProgress DEF Throw, Progress
  <1>3. QED
    BY <1>1, <1>2

LEMMA InitProgress == Init => Progress
  <1> SUFFICES ASSUME Init PROVE Progress
    OBVIOUS
  <1>1. \A m : m = InitialState => Covers(m)
    BY DEF Init, InitialState, Covers
  <1>2. RoundsBounded
    BY DefinitionAssumption DEF Init, RoundsBounded
  <1>3. QED
    BY <1>1, <1>2 DEF Init, Progress

LEMMA NextProgress ==
    ASSUME Careful, ~TornPersist
    PROVE  TypeInv /\ Control /\ Progress /\ [Next]_vars => Progress'
  <1> SUFFICES ASSUME TypeInv, Control, Progress, [Next]_vars PROVE Progress'
    OBVIOUS
  <1>1. CASE UNCHANGED vars
    BY <1>1, QuietProgress DEF vars, Progress, Active
  <1>2. CASE Next
    BY <1>2, ExecutorProgress, OperationProgress, FaultProgress DEF Next
  <1>3. QED
    BY <1>1, <1>2

LEMMA ProgressInvariant ==
    ASSUME Careful, ~TornPersist
    PROVE  Spec => []Progress
  BY InitProgress, NextProgress, TypeInvariant, ControlInvariant, PTL DEF Spec

\* However a run is paused, resumed, retried, branched, crashed and moved to
\* another process, a loop never begins more rounds than its maxIterations.
THEOREM LoopsStayBounded ==
    ASSUME Careful, ~TornPersist
    PROVE  Spec => []RoundsBounded
  <1>1. Progress => RoundsBounded
    BY DEF Progress
  <1>2. QED
    BY <1>1, ProgressInvariant, PTL

\* An agent's answer is in state.json from the moment it arrives, for good.
THEOREM AnswersAreDurable ==
    ASSUME Careful, ~TornPersist
    PROVE  Spec => []AnswersSurvive
  <1>1. Progress => AnswersSurvive
    BY DEF Progress, Covers, AnswersSurvive
  <1>2. QED
    BY <1>1, ProgressInvariant, PTL

-----------------------------------------------------------------------------
(***************************************************************************)
(* What an executor's step does to the run state, in outline: it persists  *)
(* the state it carries, or the one after an agent's answer; settles and   *)
(* returns; moves on in memory, from a decision or a merge; or leaves      *)
(* state.json and the executors at work as they are.                       *)
(***************************************************************************)
ParsesDecisions == \A e \in Execs : pc[e] = "parse" => Kind[mem[e].next] = "decision"

PersistsSame(e) ==
    \E m \in RunState, at \in {"top", "step", "parse"} :
        /\ Active(e) /\ m.status = "running" /\ m.next = mem[e].next
        /\ at = "parse" => Kind[m.next] = "decision"
        /\ Persist(e, m, at)

PersistsAnswer(e) ==
    \E m \in RunState :
        /\ pc[e] = "step" /\ Kind[mem[e].next] = "agent" /\ m.status = "running"
        /\ Persist(e, m, "top")

Settles(e) ==
    \E m \in RunState :
        /\ Active(e) /\ m.status \in FinalStatus \cup {"paused"}
        /\ m.status = "paused" => m.next = mem[e].next
        /\ Settle(e, m)

MovesOn(e) ==
    \E m \in RunState :
        /\ pc[e] \in {"step", "parse"} /\ Kind[mem[e].next] \in {"decision", "merge"}
        /\ m.status = "running"
        /\ Carry(e, m)

RestsOnDisk ==
    /\ UNCHANGED disk
    /\ \A e \in Execs : Active(e)' => Active(e) /\ pc'[e] = pc[e] /\ mem'[e] = mem[e]

\* The step a derived run state goes to.
LEMMA DerivedNext ==
    ASSUME NEW m \in RunState, NEW s
    PROVE  /\ Recorded(m, s).next = m.next
           /\ WithOutput(m, s).next = m.next
           /\ AtGate(m, s).next = m.next
           /\ Entered(m, s).next = m.next
           /\ Paused(m).next = m.next
           /\ Resumed(m).next = m.next
           /\ Goto(m, s).next = s
  <1>1. Recorded(m, s).next = m.next
    BY DEF Recorded, RunState
  <1>2. WithOutput(m, s).next = m.next
    BY DEF WithOutput, Recorded, RunState
  <1>3. QED
    BY <1>1, <1>2 DEF AtGate, Entered, Paused, Resumed, Goto, RunState

LEMMA ExecutorOutline ==
    ASSUME TypeInv, Control, ParsesDecisions, NEW e \in Execs, ExecutorStep(e)
    PROVE  \/ PersistsSame(e) \/ PersistsAnswer(e) \/ Settles(e) \/ MovesOn(e)
           \/ RestsOnDisk /\ \A f \in Execs : Active(f) => Active(f)'
  <1> DEFINE m == mem[e]
             s == Running(e)
             w == WithOutput(m, s)
             r == Recorded(m, s)
  <1>1. m \in RunState /\ s = m.next
    BY DEF TypeInv, TypeOK, Running
  <1>2. pc[e] \in {"step", "parse"} => s \in Steps
    BY DEF TypeInv, HandlersRunSteps, Running
  <1>3. pc[e] = "parse" => Kind[s] = "decision"
    BY DEF ParsesDecisions, Running
  <1>4. pc[e] \in {"top", "step", "parse"} => Active(e) /\ m.status = "running"
    BY DEF Control, ActiveIsRunning, Active
  <1>5. \A x \in RunState : \A status \in FinalStatus :
            Ended(x, status) \in RunState /\ Ended(x, status).status = status
    BY DerivedStates, DerivedStatus DEF RunStatus
  <1> HIDE DEF m, s
  <1>6. s \in Steps => /\ w \in RunState /\ w.next = m.next /\ w.status = m.status
                       /\ r \in RunState /\ r.next = m.next /\ r.status = m.status
    <2>1. s \in Steps => w \in RunState /\ r \in RunState
      BY <1>1, DerivedStates
    <2>2. w.next = m.next /\ w.status = m.status /\ r.next = m.next /\ r.status = m.status
      BY <1>1, DerivedStatus, DerivedNext
    <2>3. QED
      BY <2>1, <2>2
  <1> HIDE DEF w, r
  <1>7. s \in Steps =>
            \A x \in {r, w} : /\ AtGate(x, s) \in RunState /\ AtGate(x, s).next = m.next
                              /\ AtGate(x, s).status = "paused"
    <2>1. ASSUME NEW x \in RunState, s \in Steps
          PROVE  /\ AtGate(x, s) \in RunState /\ AtGate(x, s).next = x.next
                 /\ AtGate(x, s).status = "paused"
      BY <2>1, DerivedStates, DerivedStatus, DerivedNext
    <2>2. QED
      BY <1>6, <2>1
  <1>8. \A status \in {"complete", "failed", "stopped"} :
            status \in FinalStatus /\ status # "paused"
    BY DEF FinalStatus
  <1>9. /\ Entered(m, s) \in RunState /\ Entered(m, s).next = m.next
        /\ Entered(m, s).status = m.status
    BY <1>1, DerivedStates, DerivedStatus
  <1>10. /\ Paused(m) \in RunState /\ Paused(m).next = m.next /\ Paused(m).status = "paused"
    BY <1>1, DerivedStates, DerivedStatus, DerivedNext
  <1>11. s \in Steps => \A t \in StepIds \cup {NoStep} :
            Goto(w, t) \in RunState /\ Goto(w, t).status = m.status
    <2>1. ASSUME s \in Steps, NEW t \in StepIds \cup {NoStep}
          PROVE  Goto(w, t) \in RunState /\ Goto(w, t).status = w.status
      <3>1. w \in RunState
        BY <1>6, <2>1
      <3>2. Goto(w, t) \in RunState
        BY <2>1, <3>1, DerivedStates
      <3>3. Goto(w, t).status = w.status
        BY <3>1, DerivedStatus
      <3>4. QED
        BY <3>2, <3>3
    <2>2. QED
      BY <1>6, <2>1
  <1>12. s \in Steps => /\ AdvanceAfter(s) \in StepIds \cup {NoStep}
                        /\ Targets[s] \subseteq StepIds
    BY AdvanceType, DefinitionAssumption DEF StepIds
  <1>13. ASSUME NEW x \in RunState, NEW status \in {"complete", "failed", "stopped"},
                Active(e), Settle(e, Ended(x, status))
         PROVE  Settles(e)
    BY <1>5, <1>8, <1>13 DEF Settles
  <1>14. CASE Boot(e)
    <2>1. /\ [m EXCEPT !.status = "running"] \in RunState
          /\ [m EXCEPT !.status = "running"].status = "running"
          /\ [m EXCEPT !.status = "running"].next = m.next
      BY <1>1 DEF RunState, RunStatus, ActiveStatus
    <2>2. QED
      BY <1>14, <2>1 DEF Boot, PersistsSame, Active, m
  <1>15. CASE WriteStatus(e)
    <2>1. UNCHANGED <<disk, pc, mem>>
      BY <1>15 DEF WriteStatus
    <2>2. QED
      BY <2>1 DEF RestsOnDisk, Active
  <1>16. CASE StopAtTop(e)
    BY <1>1, <1>4, <1>13, <1>16 DEF StopAtTop, At, m
  <1>17. CASE PauseAtTop(e)
    BY <1>1, <1>4, <1>10, <1>17 DEF PauseAtTop, At, Settles, m
  <1>18. CASE EndAtTop(e)
    BY <1>1, <1>4, <1>13, <1>18 DEF EndAtTop, GoesOn, At, m
  <1>19. CASE UnknownStep(e)
    BY <1>1, <1>4, <1>13, <1>19 DEF UnknownStep, GoesOn, At, m
  <1>20. CASE LoopBoundExceeded(e)
    BY <1>4, <1>9, <1>13, <1>20 DEF LoopBoundExceeded, GoesOn, At, m, s
  <1>21. CASE BeginStep(e)
    BY <1>4, <1>9, <1>21 DEF BeginStep, GoesOn, At, PersistsSame, m, s
  <1>22. CASE AgentMissing(e)
    BY <1>1, <1>4, <1>13, <1>22 DEF AgentMissing, AwaitsAgent, m
  <1>23. CASE AgentFails(e)
    <2>1. PICK status \in {"failed", "stopped"} : Settle(e, Ended(m, status))
      BY <1>23 DEF AgentFails, m
    <2>2. QED
      BY <1>1, <1>4, <1>13, <1>23, <2>1 DEF AgentFails, AwaitsAgent
  <1>24. CASE AgentAnswers(e)
    <2>1. s \in Steps /\ m.status = "running"
      BY <1>2, <1>4, <1>24 DEF AgentAnswers, AwaitsAgent
    <2>2. Goto(w, AdvanceAfter(s)) \in RunState /\ Goto(w, AdvanceAfter(s)).status = "running"
      BY <1>11, <1>12, <2>1
    <2>3. /\ pc[e] = "step" /\ Kind[s] = "agent"
          /\ Persist(e, Goto(w, AdvanceAfter(s)), "top")
      BY <1>24 DEF AgentAnswers, AwaitsAgent, m, s, w
    <2>4. QED
      BY <1>1, <2>2, <2>3 DEF PersistsAnswer, m
  <1>25. CASE DecisionAnswers(e)
    <2>1. Active(e) /\ m.status = "running" /\ Kind[m.next] = "decision" /\ Persist(e, m, "parse")
      BY <1>1, <1>4, <1>25 DEF DecisionAnswers, AwaitsAgent, m, s
    <2>2. QED
      BY <1>1, <2>1 DEF PersistsSame, m
  <1>26. CASE DecisionInvalid(e)
    <2>1. Active(e) /\ s \in Steps
      BY <1>2, <1>4, <1>26 DEF DecisionInvalid, At
    <2>2. Settle(e, AtGate(r, s)) \/ Settle(e, Ended(m, "failed"))
      BY <1>26 DEF DecisionInvalid, m, s, r
    <2>3. QED
      BY <1>1, <1>7, <1>13, <2>1, <2>2 DEF Settles, m
  <1>27. CASE DecisionStops(e)
    <2>1. Active(e) /\ w \in RunState
      BY <1>2, <1>4, <1>6, <1>27 DEF DecisionStops, At
    <2>2. QED
      BY <1>13, <1>27, <2>1 DEF DecisionStops, m, s, w
  <1>28. CASE DecisionAsksHuman(e)
    <2>1. Active(e) /\ s \in Steps /\ Settle(e, AtGate(w, s))
      BY <1>2, <1>4, <1>28 DEF DecisionAsksHuman, At, m, s, w
    <2>2. QED
      BY <1>7, <2>1 DEF Settles, m
  <1>29. CASE DecisionGoesOn(e)
    <2>1. pc[e] = "parse" /\ s \in Steps /\ m.status = "running"
      BY <1>2, <1>4, <1>29 DEF DecisionGoesOn, At
    <2>2. PICK t \in Targets[s] \cup {AdvanceAfter(s)} : Carry(e, Goto(w, t))
      BY <1>29 DEF DecisionGoesOn, m, s, w
    <2>3. Goto(w, t) \in RunState /\ Goto(w, t).status = "running"
      BY <1>11, <1>12, <2>1
    <2>4. QED
      BY <1>1, <1>3, <2>1, <2>2, <2>3 DEF MovesOn, m
  <1>30. CASE RunHumanGate(e)
    <2>1. Active(e) /\ s \in Steps /\ Settle(e, AtGate(r, s))
      BY <1>2, <1>4, <1>30 DEF RunHumanGate, At, m, s, r
    <2>2. QED
      BY <1>7, <2>1 DEF Settles, m
  <1>31. CASE RunMerge(e)
    <2>1. pc[e] = "step" /\ Active(e) /\ s \in Steps /\ m.status = "running" /\ Kind[s] = "merge"
      BY <1>2, <1>4, <1>31 DEF RunMerge, At, s
    <2>2. Carry(e, Goto(w, AdvanceAfter(s))) \/ Settle(e, Ended(m, "failed"))
      BY <1>31 DEF RunMerge, m, s, w
    <2>3. Goto(w, AdvanceAfter(s)) \in RunState /\ Goto(w, AdvanceAfter(s)).status = "running"
      BY <1>11, <1>12, <2>1
    <2>4. QED
      BY <1>1, <1>13, <2>1, <2>2, <2>3 DEF MovesOn, m
  <1>32. CASE RunTerminate(e)
    <2>1. Active(e) /\ s \in Steps /\ r \in RunState
      BY <1>2, <1>4, <1>6, <1>32 DEF RunTerminate, At
    <2>2. Settle(e, Ended(r, EndsAs[s])) /\ EndsAs[s] \in {"complete", "failed", "stopped"}
      BY <1>32, <2>1, DefinitionAssumption DEF RunTerminate, m, s, r
    <2>3. QED
      BY <1>13, <2>1, <2>2
  <1>33. CASE Teardown(e)
    BY <1>33 DEF Teardown, At, RestsOnDisk, Active, TypeInv, TypeOK
  <1>34. QED
    BY <1>14, <1>15, <1>16, <1>17, <1>18, <1>19, <1>20, <1>21, <1>22, <1>23, <1>24, <1>25,
       <1>26, <1>27, <1>28, <1>29, <1>30, <1>31, <1>32, <1>33
    DEF ExecutorStep

\* An operation or a fault that is no launch leaves the executors as they are,
\* but for those it ends.
LEMMA LaunchOutline ==
    ASSUME TypeInv, Control', NEW p \in Procs, NEW m \in RunState, Launch(p, m)
    PROVE  \E n \in Execs : /\ disk' = m /\ mem'[n] = m /\ pc'[n] = "boot"
                            /\ \A f \in Execs : Active(f)' <=> f = n
  <1>1. PICK n \in Execs : n = launched'
    BY BoundsAssumption DEF Launch, TypeInv, TypeOK, Execs
  <1>2. disk' = m /\ mem'[n] = m /\ pc'[n] = "boot"
    BY <1>1 DEF Launch, TypeInv, TypeOK
  <1>3. \A f \in Execs : Active(f)' <=> f = n
    BY <1>1, <1>2 DEF Control, OneExecutor, Active
  <1>4. QED
    BY <1>2, <1>3

LEMMA AtRest ==
    ASSUME TypeInv, Control,
           disk.status \in {"absent", "paused"} \/ \A q \in Procs : reg[q] = NoExec
    PROVE  \A e \in Execs : ~Active(e)
  <1>1. \A e \in Execs : entry[e].proc \in Procs /\ e # NoExec
    BY DEF TypeInv, TypeOK, Entry, Execs, NoExec
  <1>2. QED
    BY <1>1 DEF Control, ActiveIsOpen, LiveRunReachable

LEMMA FaultsRestOnDisk ==
    ASSUME TypeInv
    PROVE  /\ \A p \in Procs : Crash(p) => RestsOnDisk
           /\ \A e \in Execs : Throw(e) => RestsOnDisk
  <1>1. ASSUME NEW p \in Procs, Crash(p) PROVE RestsOnDisk
    BY <1>1 DEF Crash, RestsOnDisk, Active
  <1>2. ASSUME NEW e \in Execs, Throw(e) PROVE RestsOnDisk
    BY <1>2 DEF Throw, RestsOnDisk, Active, TypeInv, TypeOK
  <1>3. QED
    BY <1>1, <1>2

\* The states an operation launches an executor with.
LEMMA LaunchStates ==
    ASSUME TypeInv, NEW p \in Procs
    PROVE  /\ StartRun(p) =>
                /\ [disk EXCEPT !.status = "queued"] \in RunState
                /\ [disk EXCEPT !.status = "queued"].status = "queued"
                /\ [disk EXCEPT !.status = "queued"].next = disk.next
           /\ ResumeRun(p) =>
                /\ Resumed(disk) \in RunState /\ Resumed(disk).status = "running"
                /\ Resumed(disk).next = disk.next
           /\ ApproveAndGoOn(p) =>
                \A t \in NextAfterApproval(disk.gate) :
                    /\ Resumed(Goto(disk, t)) \in RunState
                    /\ Resumed(Goto(disk, t)).status = "running"
  <1>1. disk \in RunState
    BY DEF TypeInv, TypeOK
  <1>2. /\ [disk EXCEPT !.status = "queued"] \in RunState
        /\ [disk EXCEPT !.status = "queued"].status = "queued"
        /\ [disk EXCEPT !.status = "queued"].next = disk.next
    BY <1>1 DEF RunState, RunStatus, ActiveStatus
  <1>3. Resumed(disk) \in RunState /\ Resumed(disk).status = "running" /\ Resumed(disk).next = disk.next
    BY <1>1, DerivedStates, DerivedStatus, DerivedNext
  <1>4. ASSUME ApproveAndGoOn(p), NEW t \in NextAfterApproval(disk.gate)
        PROVE  Resumed(Goto(disk, t)) \in RunState /\ Resumed(Goto(disk, t)).status = "running"
    <2>1. disk.gate \in Steps
      BY <1>1, <1>4 DEF ApproveAndGoOn, AtPendingGate, RunState
    <2>2. t \in StepIds \cup {NoStep}
      BY <1>4, <2>1, NextStepType DEF NextAfterApproval, StepIds
    <2>3. Goto(disk, t) \in RunState
      BY <1>1, <2>2, DerivedStates
    <2>4. QED
      BY <2>3, DerivedStates, DerivedStatus
  <1>5. QED
    BY <1>2, <1>3, <1>4

-----------------------------------------------------------------------------
(***************************************************************************)
(* Gates.  While an executor is at work, state.json names the step it is   *)
(* at, except when a decision or a merge has sent it on in memory; a gate  *)
(* is neither.                                                             *)
(***************************************************************************)
NextOnDisk ==
    \A e \in Execs : Active(e) =>
        disk.next = mem[e].next \/ (pc[e] = "top" /\ disk.next \notin HumanGates)

GateInv == ParsesDecisions /\ NextOnDisk

LEMMA RestKeepsGates ==
    ASSUME TypeInv, GateInv, RestsOnDisk
    PROVE  GateInv'
  <1>1. \A e \in Execs : pc'[e] = "parse" => pc[e] = "parse" /\ mem'[e] = mem[e]
    BY DEF RestsOnDisk, Active
  <1>2. QED
    BY <1>1 DEF RestsOnDisk, GateInv, ParsesDecisions, NextOnDisk

LEMMA LaunchKeepsGates ==
    ASSUME TypeInv, Control', NEW p \in Procs, NEW m \in RunState, Launch(p, m)
    PROVE  GateInv'
  <1>1. PICK n \in Execs : /\ disk' = m /\ mem'[n] = m /\ pc'[n] = "boot"
                           /\ \A f \in Execs : Active(f)' <=> f = n
    BY LaunchOutline
  <1>2. QED
    BY <1>1 DEF GateInv, ParsesDecisions, NextOnDisk, Active

LEMMA ExecutorKeepsGates ==
    ASSUME TypeInv, Control, GateInv, NEW e \in Execs, ExecutorStep(e)
    PROVE  /\ GateInv'
           /\ \A g \in HumanGates :
                  disk.next = g /\ disk'.next # g => disk'.status \in FinalStatus
  <1>1. \A f \in Execs : Active(f) => f = e \/ ~Active(e)
    BY DEF Control, OneExecutor
  <1>2. \A f \in Execs : pc[f] = "parse" => Active(f)
    BY DEF Active
  <1>3. CASE PersistsSame(e)
    <2>1. PICK m \in RunState, at \in {"top", "step", "parse"} :
            /\ Active(e) /\ m.status = "running" /\ m.next = mem[e].next
            /\ at = "parse" => Kind[m.next] = "decision"
            /\ Persist(e, m, at)
      BY <1>3 DEF PersistsSame
    <2>2. /\ disk' = m /\ mem' = [mem EXCEPT ![e] = m] /\ pc' = [pc EXCEPT ![e] = at]
      BY <2>1 DEF Persist
    <2>3. \A f \in Execs : Active(f)' \/ pc'[f] = "parse" => f = e
      BY <1>1, <1>2, <2>1, <2>2 DEF Active, TypeInv, TypeOK
    <2>4. GateInv'
      BY <2>1, <2>2, <2>3 DEF GateInv, ParsesDecisions, NextOnDisk, TypeInv, TypeOK
    <2>5. disk.next \in HumanGates => disk'.next = disk.next
      BY <2>1, <2>2 DEF GateInv, NextOnDisk
    <2>6. QED
      BY <2>4, <2>5
  <1>4. CASE PersistsAnswer(e)
    <2>1. PICK m \in RunState :
            /\ pc[e] = "step" /\ Kind[mem[e].next] = "agent" /\ m.status = "running"
            /\ Persist(e, m, "top")
      BY <1>4 DEF PersistsAnswer
    <2>2. /\ disk' = m /\ mem' = [mem EXCEPT ![e] = m] /\ pc' = [pc EXCEPT ![e] = "top"]
      BY <2>1 DEF Persist
    <2>3. \A f \in Execs : Active(f)' \/ pc'[f] = "parse" => f = e
      BY <1>1, <1>2, <2>1, <2>2 DEF Active, TypeInv, TypeOK
    <2>4. GateInv'
      BY <2>1, <2>2, <2>3 DEF GateInv, ParsesDecisions, NextOnDisk, TypeInv, TypeOK
    <2>5. disk.next = mem[e].next
      BY <2>1 DEF GateInv, NextOnDisk, Active
    <2>6. disk.next \notin HumanGates
      BY <2>1, <2>5 DEF HumanGates
    <2>7. QED
      BY <2>4, <2>6
  <1>5. CASE Settles(e)
    <2>1. PICK m \in RunState :
            /\ Active(e) /\ m.status \in FinalStatus \cup {"paused"}
            /\ m.status = "paused" => m.next = mem[e].next
            /\ Settle(e, m)
      BY <1>5 DEF Settles
    <2>2. /\ disk' = m /\ mem' = [mem EXCEPT ![e] = m] /\ pc' = [pc EXCEPT ![e] = "closing"]
      BY <2>1 DEF Settle, Persist
    <2>3. \A f \in Execs : ~Active(f)' /\ pc'[f] # "parse"
      BY <1>1, <1>2, <2>1, <2>2 DEF Active, TypeInv, TypeOK
    <2>4. GateInv'
      BY <2>3 DEF GateInv, ParsesDecisions, NextOnDisk
    <2>5. disk.next \in HumanGates /\ disk'.status \notin FinalStatus => disk'.next = disk.next
      BY <2>1, <2>2 DEF GateInv, NextOnDisk
    <2>6. QED
      BY <2>4, <2>5
  <1>6. CASE MovesOn(e)
    <2>1. PICK m \in RunState :
            /\ pc[e] \in {"step", "parse"} /\ Kind[mem[e].next] \in {"decision", "merge"}
            /\ Carry(e, m)
      BY <1>6 DEF MovesOn
    <2>2. /\ disk' = disk /\ mem' = [mem EXCEPT ![e] = m] /\ pc' = [pc EXCEPT ![e] = "top"]
      BY <2>1 DEF Carry
    <2>3. \A f \in Execs : Active(f)' \/ pc'[f] = "parse" => f = e
      BY <1>1, <1>2, <2>1, <2>2 DEF Active, TypeInv, TypeOK
    <2>4. disk.next = mem[e].next
      BY <2>1 DEF GateInv, NextOnDisk, Active
    <2>5. disk.next \notin HumanGates
      BY <2>1, <2>4 DEF HumanGates
    <2>6. QED
      BY <2>2, <2>3, <2>5 DEF GateInv, ParsesDecisions, NextOnDisk, TypeInv, TypeOK
  <1>7. CASE RestsOnDisk
    BY <1>7, RestKeepsGates DEF RestsOnDisk
  <1>8. QED
    BY <1>3, <1>4, <1>5, <1>6, <1>7, ExecutorOutline DEF GateInv

LEMMA OperationKeepsGates ==
    ASSUME TypeInv, Control, Control', GateInv, NEW p \in Procs, Operation(p)
    PROVE  /\ GateInv'
           /\ \A g \in HumanGates :
                  disk.next = g /\ disk'.next # g
                      => disk'.status \in FinalStatus \/ ApproveAndGoOn(p)
  <1>1. disk \in RunState
    BY DEF TypeInv, TypeOK
  <1>2. ASSUME UNCHANGED <<pc, mem>>, disk'.next = disk.next
        PROVE  GateInv'
    BY <1>2 DEF GateInv, ParsesDecisions, NextOnDisk, Active
  <1>3. CASE StartRun(p)
    BY <1>3, LaunchStates, LaunchKeepsGates DEF StartRun, Launch
  <1>4. CASE ResumeRun(p)
    BY <1>4, LaunchStates, LaunchKeepsGates DEF ResumeRun, Launch
  <1>5. CASE ApproveAndGoOn(p)
    <2>1. PICK t \in NextAfterApproval(disk.gate) : Launch(p, Resumed(Goto(disk, t)))
      BY <1>5 DEF ApproveAndGoOn
    <2>2. QED
      BY <1>5, <2>1, LaunchStates, LaunchKeepsGates
  <1>6. CASE ApproveStop(p)
    <2>1. \A e \in Execs : ~Active(e)
      BY <1>6, AtRest DEF ApproveStop, AtPendingGate
    <2>2. UNCHANGED <<pc, mem>> /\ disk'.status = "stopped"
      BY <1>1, <1>6 DEF ApproveStop, Ended, RunState
    <2>3. QED
      BY <2>1, <2>2 DEF GateInv, ParsesDecisions, NextOnDisk, Active, FinalStatus
  <1>7. CASE PauseRun(p)
    BY <1>2, <1>7 DEF PauseRun
  <1>8. CASE StopLive(p)
    BY <1>2, <1>8 DEF StopLive
  <1>9. CASE StopDurable(p)
    BY <1>1, <1>2, <1>9 DEF StopDurable, RunState
  <1>10. QED
    BY <1>3, <1>4, <1>5, <1>6, <1>7, <1>8, <1>9 DEF Operation

GateKept ==
    \A g \in HumanGates :
        disk.next = g /\ disk'.next # g =>
            \/ disk'.status \in FinalStatus
            \/ \E p \in Procs : ApproveAndGoOn(p)

LEMMA NextKeepsGates ==
    TypeInv /\ Control /\ Control' /\ GateInv /\ [Next]_vars => GateInv' /\ GateKept
  <1> SUFFICES ASSUME TypeInv, Control, Control', GateInv, [Next]_vars PROVE GateInv' /\ GateKept
    OBVIOUS
  <1>1. CASE UNCHANGED vars
    BY <1>1 DEF vars, GateInv, ParsesDecisions, NextOnDisk, Active, GateKept
  <1>2. ASSUME NEW p \in Procs, Operation(p) PROVE GateInv' /\ GateKept
    BY <1>2, OperationKeepsGates DEF GateKept
  <1>3. ASSUME NEW e \in Execs, ExecutorStep(e) PROVE GateInv' /\ GateKept
    BY <1>3, ExecutorKeepsGates DEF GateKept
  <1>4. ASSUME RestsOnDisk PROVE GateInv' /\ GateKept
    BY <1>4, RestKeepsGates DEF GateKept, RestsOnDisk
  <1>5. QED
    BY <1>1, <1>2, <1>3, <1>4, FaultsRestOnDisk DEF Next

LEMMA InitGates == Init => GateInv
  BY DEF Init, GateInv, ParsesDecisions, NextOnDisk, Active

LEMMA GateInvariant ==
    ASSUME Careful, ~TornPersist
    PROVE  Spec => []GateInv
  BY InitGates, NextKeepsGates, TypeInvariant, ControlInvariant, PTL DEF Spec

\* However a run is paused, resumed, stopped and crashed, in any number of
\* processes, and wherever its decisions and merges send it, it leaves a human
\* gate only by an approval or by coming to an end.
THEOREM GatesAreApproved ==
    ASSUME Careful, ~TornPersist
    PROVE  Spec => GateNeedsApproval
  <1>1. TypeInv /\ Control /\ Control' /\ GateInv /\ [Next]_vars => [GateKept]_vars
    BY NextKeepsGates
  <1>2. [GateKept]_vars => [\A g \in HumanGates :
                               disk.next = g /\ disk'.next # g =>
                                   \/ disk'.status \in FinalStatus
                                   \/ \E p \in Procs : ApproveAndGoOn(p)]_vars
    BY DEF GateKept
  <1>3. QED
    BY <1>1, <1>2, TypeInvariant, ControlInvariant, GateInvariant, PTL
    DEF Spec, GateNeedsApproval

-----------------------------------------------------------------------------
(***************************************************************************)
(* The life cycle.  Where one process serves the run, nobody writes the    *)
(* status behind the executor's back: while one is at work, the run on     *)
(* disk is queued or running.  Two processes break it: the stop of one     *)
(* that does not hold the run is overwritten (PersistedStopHolds).         *)
(***************************************************************************)
OneProcess == \A p, q \in Procs : p = q

StatusFollows ==
    \A e \in Execs : Active(e) => /\ disk.status \in ActiveStatus
                                  /\ pc[e] # "boot" => disk.status = "running"

Working == \E e \in Execs : Active(e)

LifecycleInv == ParsesDecisions /\ StatusFollows

LEMMA RestKeepsLifecycle ==
    ASSUME TypeInv, StatusFollows, RestsOnDisk
    PROVE  /\ StatusFollows'
           /\ disk'.status = disk.status /\ (Working' => Working)
  BY DEF RestsOnDisk, StatusFollows, Working

LEMMA LaunchKeepsLifecycle ==
    ASSUME TypeInv, Control', NEW p \in Procs, NEW m \in RunState, Launch(p, m),
           m.status \in ActiveStatus
    PROVE  StatusFollows' /\ disk'.status = m.status /\ Working'
  <1>1. PICK n \in Execs : /\ disk' = m /\ mem'[n] = m /\ pc'[n] = "boot"
                           /\ \A f \in Execs : Active(f)' <=> f = n
    BY LaunchOutline
  <1>2. QED
    BY <1>1 DEF StatusFollows, Working

\* A step of the life cycle, or none.
LifecycleStep == [Lifecycle!Next]_(Lifecycle!vars)

LEMMA StepForms ==
    ASSUME \/ disk.status = "absent" /\ disk'.status = "queued" /\ Working'
           \/ Working /\ disk.status = "queued" /\ disk'.status = "running" /\ Working'
           \/ /\ Working /\ ~Working'
              /\ disk'.status \in FinalStatus \cup {"paused"}
           \/ Working /\ ~Working' /\ disk'.status = disk.status
           \/ /\ ~Working /\ Working' /\ disk'.status = "running"
              /\ disk.status \in ActiveStatus \cup {"paused"}
           \/ /\ ~Working /\ ~Working' /\ disk'.status = "stopped"
              /\ disk.status \in ActiveStatus \cup {"paused"}
           \/ disk'.status = disk.status /\ (Working' <=> Working)
    PROVE  LifecycleStep
  BY DEF LifecycleStep, Lifecycle!Next, Lifecycle!vars, Lifecycle!Begin, Lifecycle!Work,
         Lifecycle!Settle, Lifecycle!Lose, Lifecycle!Continue, Lifecycle!Cancel,
         Lifecycle!Open, Lifecycle!Final, Working, ActiveStatus, FinalStatus

LEMMA ExecutorFollowsLifecycle ==
    ASSUME TypeInv, Control, LifecycleInv, NEW e \in Execs, ExecutorStep(e)
    PROVE  StatusFollows' /\ LifecycleStep
  <1>1. \A f \in Execs : Active(f) => f = e \/ ~Active(e)
    BY DEF Control, OneExecutor
  <1>2. ASSUME NEW m \in RunState, NEW at \in {"top", "step", "parse"},
               Active(e), m.status = "running", Persist(e, m, at)
        PROVE  StatusFollows' /\ LifecycleStep
    <2>1. disk' = m /\ pc' = [pc EXCEPT ![e] = at]
      BY <1>2 DEF Persist
    <2>2. \A f \in Execs : Active(f)' <=> f = e
      BY <1>1, <1>2, <2>1 DEF Active, TypeInv, TypeOK
    <2>3. disk.status \in ActiveStatus /\ Working /\ Working' /\ disk'.status = "running"
      BY <1>2, <2>1, <2>2 DEF LifecycleInv, StatusFollows, Working
    <2>4. StatusFollows'
      BY <2>2, <2>3 DEF StatusFollows, ActiveStatus
    <2>5. QED
      BY <2>3, <2>4, StepForms DEF ActiveStatus
  <1>3. CASE PersistsSame(e)
    BY <1>2, <1>3 DEF PersistsSame
  <1>4. CASE PersistsAnswer(e)
    BY <1>2, <1>4 DEF PersistsAnswer, Active
  <1>5. CASE Settles(e)
    <2>1. PICK m \in RunState :
            /\ Active(e) /\ m.status \in FinalStatus \cup {"paused"}
            /\ Settle(e, m)
      BY <1>5 DEF Settles
    <2>2. disk' = m /\ pc' = [pc EXCEPT ![e] = "closing"]
      BY <2>1 DEF Settle, Persist
    <2>3. \A f \in Execs : ~Active(f)'
      BY <1>1, <2>1, <2>2 DEF Active, TypeInv, TypeOK
    <2>4. QED
      BY <2>1, <2>2, <2>3, StepForms DEF StatusFollows, Working
  <1>6. CASE MovesOn(e)
    <2>1. PICK m \in RunState : pc[e] \in {"step", "parse"} /\ Carry(e, m)
      BY <1>6 DEF MovesOn
    <2>2. disk' = disk /\ pc' = [pc EXCEPT ![e] = "top"]
      BY <2>1 DEF Carry
    <2>3. Active(e) /\ \A f \in Execs : Active(f)' <=> f = e
      BY <1>1, <2>1, <2>2 DEF Active, TypeInv, TypeOK
    <2>4. StatusFollows'
      BY <2>1, <2>2, <2>3 DEF LifecycleInv, StatusFollows
    <2>5. Working /\ Working'
      BY <2>3 DEF Working
    <2>6. QED
      BY <2>2, <2>4, <2>5, StepForms
  <1>7. CASE RestsOnDisk /\ \A f \in Execs : Active(f) => Active(f)'
    <2>1. StatusFollows' /\ disk'.status = disk.status /\ (Working' => Working)
      BY <1>7, RestKeepsLifecycle DEF LifecycleInv
    <2>2. Working => Working'
      BY <1>7 DEF Working
    <2>3. QED
      BY <2>1, <2>2, StepForms
  <1>8. QED
    BY <1>3, <1>4, <1>5, <1>6, <1>7, ExecutorOutline DEF LifecycleInv

LEMMA OperationFollowsLifecycle ==
    ASSUME Careful, OneProcess, TypeInv, Control, Control', LifecycleInv,
           NEW p \in Procs, Operation(p)
    PROVE  StatusFollows' /\ LifecycleStep
  <1>1. disk \in RunState
    BY DEF TypeInv, TypeOK
  <1>2. disk.status \in {"absent", "paused"} => ~Working
    BY AtRest DEF Working
  <1>3. ASSUME UNCHANGED <<disk, pc>> PROVE StatusFollows' /\ LifecycleStep
    <2>1. StatusFollows' /\ (Working' <=> Working)
      BY <1>3 DEF LifecycleInv, StatusFollows, Working, Active
    <2>2. QED
      BY <1>3, <2>1, StepForms
  <1>4. ASSUME ~Working, UNCHANGED pc, disk'.status = "stopped" \/ disk'.status = disk.status,
               disk.status # "absent", disk.status \in FinalStatus => disk'.status = disk.status
        PROVE  StatusFollows' /\ LifecycleStep
    <2>1. StatusFollows' /\ ~Working'
      BY <1>4 DEF StatusFollows, Working, Active
    <2>2. disk.status \in ActiveStatus \cup FinalStatus \cup {"paused"}
      BY <1>1, <1>4 DEF RunState, RunStatus
    <2>3. QED
      BY <1>4, <2>1, <2>2, StepForms
  <1>5. CASE StartRun(p)
    <2>1. /\ [disk EXCEPT !.status = "queued"] \in RunState
          /\ [disk EXCEPT !.status = "queued"].status = "queued"
          /\ Launch(p, [disk EXCEPT !.status = "queued"])
      BY <1>5, LaunchStates DEF StartRun
    <2>2. StatusFollows' /\ disk'.status = "queued" /\ Working'
      BY <2>1, LaunchKeepsLifecycle DEF ActiveStatus
    <2>3. QED
      BY <1>5, <2>2, StepForms DEF StartRun
  <1>6. CASE ResumeRun(p)
    <2>1. Resumed(disk) \in RunState /\ Resumed(disk).status = "running" /\ Launch(p, Resumed(disk))
      BY <1>6, LaunchStates DEF ResumeRun
    <2>2. StatusFollows' /\ disk'.status = "running" /\ Working'
      BY <2>1, LaunchKeepsLifecycle DEF ActiveStatus
    <2>3. ~Working /\ disk.status \in ActiveStatus \cup {"paused"}
      BY <1>6, AtRest DEF ResumeRun, CallerMayResume, Working
    <2>4. QED
      BY <2>2, <2>3, StepForms
  <1>7. CASE ApproveAndGoOn(p)
    <2>1. PICK t \in NextAfterApproval(disk.gate) : Launch(p, Resumed(Goto(disk, t)))
      BY <1>7 DEF ApproveAndGoOn
    <2>2. Resumed(Goto(disk, t)) \in RunState /\ Resumed(Goto(disk, t)).status = "running"
      BY <1>7, LaunchStates
    <2>3. StatusFollows' /\ disk'.status = "running" /\ Working'
      BY <2>1, <2>2, LaunchKeepsLifecycle DEF ActiveStatus
    <2>4. ~Working /\ disk.status = "paused"
      BY <1>2, <1>7 DEF ApproveAndGoOn, AtPendingGate
    <2>5. QED
      BY <2>3, <2>4, StepForms
  <1>8. CASE ApproveStop(p)
    <2>1. disk.status = "paused" /\ UNCHANGED pc /\ disk'.status = "stopped"
      BY <1>1, <1>8 DEF ApproveStop, AtPendingGate, Ended, RunState
    <2>2. QED
      BY <1>2, <1>4, <2>1 DEF FinalStatus
  <1>9. CASE PauseRun(p)
    BY <1>3, <1>9 DEF PauseRun
  <1>10. CASE StopLive(p)
    BY <1>3, <1>10 DEF StopLive
  <1>11. CASE StopDurable(p)
    <2>1. \A q \in Procs : reg[q] = NoExec
      BY <1>11 DEF StopDurable, OneProcess
    <2>2. ~Working
      BY <2>1, AtRest DEF Working
    <2>3. /\ disk.status # "absent" /\ UNCHANGED pc
          /\ disk'.status = IF disk.status \in FinalStatus THEN disk.status ELSE "stopped"
      BY <1>1, <1>11 DEF StopDurable, RunState
    <2>4. QED
      BY <1>4, <2>2, <2>3
  <1>12. QED
    BY <1>5, <1>6, <1>7, <1>8, <1>9, <1>10, <1>11 DEF Operation

LEMMA NextFollowsLifecycle ==
    ASSUME Careful, OneProcess
    PROVE  TypeInv /\ Control /\ Control' /\ ParsesDecisions /\ StatusFollows /\ [Next]_vars
               => StatusFollows' /\ LifecycleStep
  <1> SUFFICES ASSUME TypeInv, Control, Control', ParsesDecisions, StatusFollows, [Next]_vars
               PROVE  StatusFollows' /\ LifecycleStep
    OBVIOUS
  <1>1. CASE UNCHANGED vars
    <2>1. StatusFollows' /\ disk'.status = disk.status /\ (Working' <=> Working)
      BY <1>1 DEF vars, StatusFollows, Working, Active
    <2>2. QED
      BY <2>1, StepForms
  <1>2. ASSUME RestsOnDisk PROVE StatusFollows' /\ LifecycleStep
    <2>1. StatusFollows' /\ disk'.status = disk.status /\ (Working' => Working)
      BY <1>2, RestKeepsLifecycle
    <2>2. QED
      BY <2>1, StepForms
  <1>3. QED
    BY <1>1, <1>2, FaultsRestOnDisk, OperationFollowsLifecycle, ExecutorFollowsLifecycle
    DEF Next, LifecycleInv

LEMMA InitLifecycle == Init => StatusFollows /\ Lifecycle!Init
  <1> SUFFICES ASSUME Init PROVE StatusFollows /\ Lifecycle!Init
    OBVIOUS
  <1>1. disk.status = "absent" /\ \A e \in Execs : ~Active(e)
    BY DEF Init, InitialState, Active
  <1>2. QED
    BY <1>1 DEF StatusFollows, Lifecycle!Init

\* Where one process serves a run, its status on disk and the executor at work
\* on it follow RunLifecycle: work goes on only while the run is open, every
\* end is one that an executor or a stop wrote, and it is never taken back.
THEOREM RunsFollowLifecycle ==
    ASSUME Careful, ~TornPersist, OneProcess
    PROVE  Spec => LifecycleKept
  <1>1. Init => StatusFollows /\ Lifecycle!Init
    BY InitLifecycle
  <1>2. TypeInv /\ Control /\ Control' /\ GateInv /\ StatusFollows /\ [Next]_vars
            => StatusFollows' /\ [Lifecycle!Next]_(Lifecycle!vars)
    BY NextFollowsLifecycle DEF GateInv, LifecycleStep
  <1>3. QED
    BY <1>1, <1>2, TypeInvariant, ControlInvariant, GateInvariant, PTL
    DEF Spec, LifecycleKept, Lifecycle!Spec
=============================================================================
