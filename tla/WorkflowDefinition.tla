------------------------- MODULE WorkflowDefinition -------------------------
(***************************************************************************)
(* A validated workflow definition (src/types.ts, src/workflows/parser.ts) *)
(* and the pure functions of src/workflows/runner.ts that read it.  The    *)
(* definition is a constant: an edit is refused while a run of it is live. *)
(***************************************************************************)
EXTENDS Naturals, Sequences, FiniteSets

CONSTANTS
    StepOrder,   \* stepOrder: the step ids, in the order of the XML document
    Kind,        \* the kind of each step
    LoopOf,      \* loopId of each step, or NoLoop
    MaxIter,     \* maxIterations of each loop, 0 when the loop declares none
    MaxSteps,    \* maxSteps of each loop, 0 when the loop declares none
    Timed,       \* the loops that declare maxRuntimeMinutes
    Targets,     \* the next ids the answers of a decision step may carry
    OnInvalid,   \* onInvalid of a decision step
    EndsAs,      \* status of a terminate step
    Inputs,      \* the steps whose outputs a merge step reads
    NoStep,      \* null, where a step id is expected
    NoLoop,      \* null, where a loop id is expected
    Ghost        \* an id that names no step of the definition

Steps == {StepOrder[i] : i \in 1..Len(StepOrder)}
StepIds == Steps \cup {Ghost}
Loops == {LoopOf[s] : s \in Steps} \ {NoLoop}
Kinds == {"agent", "decision", "human_gate", "merge", "terminate"}

ASSUME StepsAssumption ==
    /\ Len(StepOrder) \in Nat \ {0}
    /\ \A i \in 1..Len(StepOrder), j \in 1..Len(StepOrder) :
            StepOrder[i] = StepOrder[j] => i = j
    /\ NoStep \notin StepIds
    /\ Ghost \notin Steps

ASSUME DefinitionAssumption ==
    /\ Kind \in [Steps -> Kinds]
    /\ MaxIter \in [Loops -> Nat]
    /\ MaxSteps \in [Loops -> Nat]
    /\ Targets \in [Steps -> SUBSET StepIds]
    /\ OnInvalid \in [Steps -> {"pause", "fail"}]
    /\ EndsAs \in [Steps -> {"complete", "failed", "stopped"}]
    /\ Inputs \in [Steps -> SUBSET Steps]

\* parseLoopBounds rejects a loop that declares no bound at all.
DeclaresBound(l) == MaxIter[l] > 0 \/ MaxSteps[l] > 0 \/ l \in Timed

ASSUME LoopsAreBounded == \A l \in Loops : DeclaresBound(l)

-----------------------------------------------------------------------------
CallsAgent(s) == Kind[s] \in {"agent", "decision"}
HumanGates == {s \in Steps : Kind[s] = "human_gate"}

EntryStep == StepOrder[1]

IndexOf(s) == CHOOSE i \in 1..Len(StepOrder) : StepOrder[i] = s

\* nextStepInOrder: the step after s in the document, null after the last one.
NextStepInOrder(s) ==
    IF IndexOf(s) = Len(StepOrder) THEN NoStep ELSE StepOrder[IndexOf(s) + 1]

Children(l) == {s \in Steps : LoopOf[s] = l}
LoopStart(l) == CHOOSE s \in Children(l) : \A t \in Children(l) : IndexOf(s) <= IndexOf(t)
LoopEnd(l) == CHOOSE s \in Children(l) : \A t \in Children(l) : IndexOf(s) >= IndexOf(t)

InLoop(s) == s \in Steps /\ LoopOf[s] # NoLoop

\* advanceAfterStep: from the end of a loop back to its start, else in order.
AdvanceAfter(s) ==
    IF InLoop(s) /\ s = LoopEnd(LoopOf[s])
    THEN LoopStart(LoopOf[s])
    ELSE NextStepInOrder(s)

(***************************************************************************)
(* Counters stop one above their limit, where every comparison with the    *)
(* limit has already tripped; a counter without a limit stops at 1.        *)
(***************************************************************************)
\* Mutant: the new count is never stored.
BumpLost(n, limit) == n

Bump(n, limit) == IF n > limit THEN n ELSE n + 1

\* computeIteration: a loop's round is counted when its first step is entered.
BeginsRound(s) == InLoop(s) /\ s = LoopStart(LoopOf[s])

CountRound(iter, s) ==
    IF BeginsRound(s)
    THEN [iter EXCEPT ![LoopOf[s]] = Bump(@, MaxIter[LoopOf[s]])]
    ELSE iter

\* stepHistory grows by one record: what enforceLoopBounds counts of it.
CountStep(steps, s) ==
    IF InLoop(s)
    THEN [steps EXCEPT ![LoopOf[s]] = Bump(@, MaxSteps[LoopOf[s]])]
    ELSE steps

(***************************************************************************)
(* enforceLoopBounds, for the bounds that count.  maxRuntimeMinutes is     *)
(* wall-clock time, and trips at a moment the model leaves open.  Where a  *)
(* loop has no count of its own the code falls back on state.iteration,    *)
(* which computeIteration has just set to 0 for such a loop.               *)
(***************************************************************************)
WithinBounds(iter, steps, s) ==
    InLoop(s) =>
        /\ MaxIter[LoopOf[s]] > 0 => iter[LoopOf[s]] <= MaxIter[LoopOf[s]]
        /\ MaxSteps[LoopOf[s]] > 0 => steps[LoopOf[s]] <= MaxSteps[LoopOf[s]]

MayTimeOut(s) == InLoop(s) /\ LoopOf[s] \in Timed
=============================================================================
