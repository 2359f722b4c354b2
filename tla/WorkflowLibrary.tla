-------------------------- MODULE WorkflowLibrary --------------------------
(***************************************************************************)
(* The workflows of a project and the runs that use them: the service's    *)
(* operations on definitions (src/workflows/service.ts, storage.ts), in    *)
(* several processes over one folder per workflow, which agents and people *)
(* may also edit by hand.  What a run does is WorkflowRun; here it only    *)
(* begins, pauses, is resumed and ends.                                    *)
(***************************************************************************)
EXTENDS WorkflowDocument

CONSTANTS
    Processes,
    Workflows,  \* the workflow ids, which are Names
    Runs,
    Offered,    \* the documents people bring to each workflow
    Patches,    \* the changes of the metadata form
    Agents      \* the project's agents

\* A document is a sequence of tokens.  The form changes no step and no loop.
ASSUME OfferedAssumption == \A w \in Workflows : \A c \in Offered[w] :
    c \in Seq(ToSet(c)) /\ \A t \in ToSet(c) : Legible(t)
ASSUME PatchesAssumption == \A patch \in Patches :
    /\ DOMAIN patch \subseteq {"version", "described", "description", "inputs"}
    /\ "inputs" \in DOMAIN patch => patch.inputs \in Seq(ToSet(patch.inputs))
    /\ "description" \in DOMAIN patch => patch.description \in Seq(ToSet(patch.description))

VARIABLES
    file,    \* workflow.xml of each workflow, NoFile without one
    of,      \* the workflow each run was started from
    folder,  \* the runs whose folder exists
    entry    \* ACTIVE_RUNS of each process: its entries that are not completed, with
             \* whether the file has changed since the run read it, and whether it
             \* was changed from elsewhere

vars == <<file, of, folder, entry>>

NoFile == <<>>
NoWorkflow == ""
NoEntry == [held |-> FALSE, stale |-> FALSE, touched |-> FALSE]
Fresh == [NoEntry EXCEPT !.held = TRUE]

Definition(w) == Parse(file[w])
Exists(w) == file[w] # NoFile
Held(p) == {r \in Runs : entry[p][r].held}

TypeOK ==
    /\ DOMAIN file = Workflows
    /\ of \in [Runs -> Workflows \cup {NoWorkflow}]
    /\ folder \cup UNION {Held(p) : p \in Processes} \subseteq {r \in Runs : of[r] \in Workflows}
    /\ entry \in [Processes -> [Runs -> [held : BOOLEAN, stale : BOOLEAN, touched : BOOLEAN]]]

Init ==
    /\ file = [w \in Workflows |-> NoFile]
    /\ of = [r \in Runs |-> NoWorkflow]
    /\ folder = {}
    /\ entry = [p \in Processes |-> [r \in Runs |-> NoEntry]]

-----------------------------------------------------------------------------
\* assertNoActiveRun, in the registry of process p.
NoActiveRun(p, w) == \A r \in Held(p) : of[r] # w

\* The file of w becomes content; a run of w held by one that is not "by" does
\* not hear of it.
Saves(by, w, content) ==
    /\ file' = [file EXCEPT ![w] = content]
    /\ entry' = [p \in Processes |-> [r \in Runs |->
          IF r \in Held(p) /\ of[r] = w /\ content # file[w]
          THEN [entry[p][r] EXCEPT !.stale = TRUE, !.touched = @ \/ p \notin by]
          ELSE entry[p][r]]]

\* The id in the document's first tag is replaced.
Rename(content, w) ==
    [i \in DOMAIN content |->
        IF content[i].tag = "workflow" /\ content[i].is = "start"
        THEN Start("workflow", [content[i].attrs EXCEPT !["id"] = w]) ELSE content[i]]

CreateWorkflow(p, w, content) ==
    /\ ~Exists(w) /\ Parse(Rename(content, w)).fits
    /\ Saves({p}, w, Rename(content, w)) /\ UNCHANGED <<of, folder>>

\* The documents updateXml accepts.
Acceptable(w, content) == LET def == Parse(content) IN def.fits /\ def.id = w

\* Mutant: the definition is saved under its runs.
UpdateAnyway(p, w, content) ==
    /\ Exists(w) /\ Acceptable(w, content)
    /\ Saves({p}, w, content) /\ UNCHANGED <<of, folder>>

UpdateXml(p, w, content) ==
    /\ Exists(w) /\ NoActiveRun(p, w)
    /\ Acceptable(w, content)
    /\ Saves({p}, w, content) /\ UNCHANGED <<of, folder>>

DuplicateWorkflow(p, v, w) == Exists(v) /\ CreateWorkflow(p, w, file[v])

\* The definition with the metadata form's changes; an absent field stays.
Patched(def, patch) == [f \in DOMAIN def |-> IF f \in DOMAIN patch THEN patch[f] ELSE def[f]]

PatchMetadata(p, w, patch) ==
    /\ Exists(w) /\ NoActiveRun(p, w)
    /\ LET def == Definition(w)
           content == Serialize(Patched(def, patch))
       IN  /\ def.fits /\ Parse(content).fits
           /\ Saves({p}, w, content)
    /\ UNCHANGED <<of, folder>>

\* The folder goes, with those of its runs.
DeleteWorkflow(p, w, cascade) ==
    LET here == {r \in folder : of[r] = w} IN
    /\ Exists(w) /\ NoActiveRun(p, w) /\ (here # {} => cascade)
    /\ Saves({p}, w, NoFile)
    /\ folder' = folder \ here /\ UNCHANGED of

EditByHand(w, content) ==
    /\ Exists(w) /\ Saves({}, w, content) /\ UNCHANGED <<of, folder>>

-----------------------------------------------------------------------------
AgentsOf(def) == {s.agent : s \in {t \in ToSet(def.steps) : t.kind \in {"agent", "decision"}}}

\* The file is read and validated again each time a run begins or goes on.
Begins(p, r, w) ==
    /\ Exists(w) /\ Definition(w).fits
    /\ of' = [of EXCEPT ![r] = w] /\ folder' = folder \cup {r}
    /\ entry' = [entry EXCEPT ![p][r] = Fresh]
    /\ UNCHANGED file

StartRun(p, r, w) ==
    /\ of[r] = NoWorkflow
    /\ Begins(p, r, w) /\ AgentsOf(Definition(w)) \subseteq Agents

\* Nothing asks whether the run is over, or at work elsewhere.
ResumeRun(p, r) == r \in folder /\ Begins(p, r, of[r])

\* A run at work writes its files, and a deleted folder anew: without a workflow.xml.
RunWrites(p, r) ==
    /\ r \in Held(p) \ folder
    /\ folder' = folder \cup {r} /\ UNCHANGED <<file, of, entry>>

\* A run that pauses keeps its entry; one that ends leaves it.
RunEnds(p, r) ==
    /\ r \in Held(p)
    /\ entry' = [entry EXCEPT ![p][r] = NoEntry] /\ UNCHANGED <<file, of, folder>>

ProcessEnds(p) ==
    /\ Held(p) # {}
    /\ entry' = [entry EXCEPT ![p] = [r \in Runs |-> NoEntry]]
    /\ UNCHANGED <<file, of, folder>>

Edit(p, w) ==
    \/ \E c \in Offered[w] : CreateWorkflow(p, w, c) \/ UpdateXml(p, w, c)
    \/ \E v \in Workflows : DuplicateWorkflow(p, v, w)
    \/ \E patch \in Patches : PatchMetadata(p, w, patch)
    \/ \E cascade \in BOOLEAN : DeleteWorkflow(p, w, cascade)

Next ==
    \/ \E p \in Processes, w \in Workflows : Edit(p, w) \/ \E r \in Runs : StartRun(p, r, w)
    \/ \E p \in Processes, r \in Runs : ResumeRun(p, r) \/ RunWrites(p, r) \/ RunEnds(p, r)
    \/ \E w \in Workflows : \E c \in Offered[w] : EditByHand(w, c)
    \/ \E p \in Processes : ProcessEnds(p)

Spec == Init /\ [][Next]_vars

-----------------------------------------------------------------------------
(***************************************************************************)
(* Properties.                                                             *)
(***************************************************************************)
\* A definition as WorkflowDefinition takes it, which is how a run reads it.
\* Bounds and inputs do not bear on where it goes.
Model(def) == INSTANCE WorkflowDefinition WITH
    StepOrder <- [i \in DOMAIN def.steps |-> def.steps[i].id],
    Kind <- [s \in Ids(def) |-> StepNamed(def, s).kind],
    LoopOf <- [s \in Ids(def) |-> StepNamed(def, s).loop],
    Targets <- [s \in Ids(def) |-> NextIds(StepNamed(def, s))],
    MaxIter <- [l \in LoopIds(def) |-> 1], MaxSteps <- [l \in LoopIds(def) |-> 1],
    Timed <- {}, OnInvalid <- <<>>, EndsAs <- <<>>, Inputs <- <<>>,
    NoStep <- "", NoLoop <- "", Ghost <- "?"

Stored == {def \in {Definition(w) : w \in Workflows} : def.fits}

\* What WorkflowDefinition assumes of a definition, and WorkflowRun relies on.
Sound(def) ==
    /\ def.steps # <<>> /\ Distinct(def.steps, LAMBDA s : s.id)
    /\ TargetsKnown(def)
    /\ \A s \in ToSet(def.steps) : s.loop # "" => s.loop \in LoopIds(def)
    /\ \A l \in ToSet(def.loops) :
         /\ \E b \in Bounds : l.bounds[b] > 0
         /\ l.steps[1] = Model(def)!LoopStart(l.id) /\ Last(l.steps) = Model(def)!LoopEnd(l.id)
         /\ ToSet(l.steps) = Model(def)!Children(l.id)

\* Whoever wrote the file, a run only goes by a definition that can be run: the
\* parser guarantees what the runner takes for granted.
StoredAreSound == \A def \in Stored : Sound(def)

\* A definition is not changed under a run that its process still holds, at
\* work or paused.
EditsSpareRuns ==
    \A p \in Processes, r \in Runs : entry[p][r].stale => entry[p][r].touched

\* Writing a definition and reading it back changes nothing, so that the
\* metadata form changes only what it shows.  An empty separator is lost.
SaveKeepsMeaning ==
    \A def \in Stored :
        (\A s \in ToSet(def.steps) : s.kind = "merge" => s.separator # "")
            => Parse(Serialize(def)) = def

\* Where a run may go from a step without a person's choosing, and where an
\* approval lets it go on.
Moves(def) ==
    {m \in Ids(def) \X Ids(def) :
        CASE StepNamed(def, m[1]).kind \in {"agent", "merge"} -> m[2] = Model(def)!AdvanceAfter(m[1])
          [] StepNamed(def, m[1]).kind = "human_gate" -> m[2] = Model(def)!NextStepInOrder(m[1])
          [] StepNamed(def, m[1]).kind = "decision" -> m[2] \in NextIds(StepNamed(def, m[1]))
          [] OTHER -> FALSE}

\* The graph shown to people has an edge for every move a run can make.
GraphShowsEveryMove ==
    \A def \in Stored : \A m \in Moves(def) :
        \E e \in Graph(def) : e.source = m[1] /\ e.target = m[2]
=============================================================================
