-------------------------- MODULE WorkflowDocument --------------------------
(***************************************************************************)
(* workflow.xml as a document: reading (src/workflows/xml.ts), validation  *)
(* (parser.ts), writing (serializer.ts) and the graph drawn of it          *)
(* (graph.ts).  A file is a sequence of tokens, an element a tag with its  *)
(* attributes and children; a text is a sequence of words, of which some   *)
(* are characters that XML reserves.                                       *)
(*                                                                         *)
(* Every complaint of the parser rejects the document, so of its issues    *)
(* only their absence is kept; warnings (unknown values in a prompt)       *)
(* change nothing and are left out.                                        *)
(***************************************************************************)
EXTENDS Naturals, Sequences, FiniteSets, SequencesExt

CONSTANTS
    Names,    \* the words that match ID_PATTERN
    MaxDepth  \* MAX_NESTING_DEPTH

\* ID_PATTERN asks for a letter first; there is room for a choice in a loop's step.
ASSUME NamesAssumption == "" \notin Names
ASSUME DepthAssumption == MaxDepth \in Nat /\ MaxDepth >= 4

\* A pass over a sequence from its front, as the code's loops make.
Pass(Step(_, _), base, seq) ==
    LET upTo[i \in 0..Len(seq)] == IF i = 0 THEN base ELSE Step(upTo[i - 1], seq[i])
    IN upTo[Len(seq)]
Joined(seqs) == Pass(LAMBDA s, t : s \o t, <<>>, seqs)

-----------------------------------------------------------------------------
(***************************************************************************)
(* xml.ts.                                                                 *)
(***************************************************************************)
Element(tag, attrs, kids) == [tag |-> tag, attrs |-> attrs, kids |-> kids]
TextTag == "#text"
IsElement(node) == node.tag # TextTag
TextNode(words) == Element(TextTag, [words |-> words], <<>>)

\* Tokens: a start tag, an empty tag, an end tag, text, CDATA, a comment, or
\* what is refused (a document type, a processing instruction, a stray "<").
Start(tag, attrs) == [is |-> "start", tag |-> tag, attrs |-> attrs]
Empty(tag, attrs) == [is |-> "empty", tag |-> tag, attrs |-> attrs]
End(tag) == [is |-> "end", tag |-> tag, attrs |-> <<>>]
Text(words) == [is |-> "text", tag |-> TextTag, attrs |-> [words |-> words]]
CData(words) == [is |-> "cdata", tag |-> TextTag, attrs |-> [words |-> words]]
Comment == [is |-> "comment", tag |-> "", attrs |-> <<>>]
Refused == [is |-> "refused", tag |-> "", attrs |-> <<>>]

\* escapeText and readEntity, for the reserved characters among the words.
Entity == [c \in {"&", "<", ">"} |->
             CASE c = "&" -> "&amp;" [] c = "<" -> "&lt;" [] c = ">" -> "&gt;"]
Escape(words) == [i \in DOMAIN words |->
                    IF words[i] \in DOMAIN Entity THEN Entity[words[i]] ELSE words[i]]
Unescape(words) == [i \in DOMAIN words |->
                      LET known == {w \in DOMAIN Entity : Entity[w] = words[i]}
                      IN IF known = {} THEN words[i] ELSE CHOOSE w \in known : TRUE]

\* A token as a file has them.  A name has no "#" (readName), and what CDATA has
\* of an entity is not one word but "&" and others.
Legible(t) ==
    /\ t.is \in {"start", "empty", "end", "text", "cdata", "comment", "refused"}
    /\ t.is \in {"start", "empty"} => t.tag # TextTag
    /\ t.is \in {"text", "cdata"} => t.attrs.words \in Seq(ToSet(t.attrs.words))
    /\ t.is = "cdata" => \A c \in DOMAIN Entity : Entity[c] \notin ToSet(t.attrs.words)

\* The element at the top of the stack takes a child; without one it is the root.
Attach(s, node) ==
    IF s.open = <<>>
    THEN IF IsElement(node) /\ s.root = <<>> THEN [s EXCEPT !.root = <<node>>]
                                             ELSE [s EXCEPT !.bad = TRUE]
    ELSE [s EXCEPT !.open[Len(s.open)].kids = Append(@, node)]

Close(s, tag) ==
    IF s.open = <<>> \/ Last(s.open).tag # tag
    THEN [s EXCEPT !.bad = TRUE]
    ELSE Attach([s EXCEPT !.open = Front(@)], Last(s.open))

\* There is no room for one more element: too deep, or after the root.
Full(s) == Len(s.open) > MaxDepth \/ (s.open = <<>> /\ s.root # <<>>)

ReadToken(s, t) ==
    IF s.bad THEN s ELSE
    CASE t.is = "comment" -> s
      [] t.is = "refused" -> [s EXCEPT !.bad = TRUE]
      [] t.is = "text" -> Attach(s, TextNode(Unescape(t.attrs.words)))
      [] t.is = "cdata" -> Attach(s, TextNode(t.attrs.words))
      [] t.is = "end" -> Close(s, t.tag)
      [] t.is \in {"start", "empty"} /\ Full(s) -> [s EXCEPT !.bad = TRUE]
      [] t.is = "start" /\ ~Full(s) -> [s EXCEPT !.open = Append(@, Element(t.tag, t.attrs, <<>>))]
      [] OTHER -> Attach(s, Element(t.tag, t.attrs, <<>>))

\* parseXml.
ReadXml(file) == Pass(ReadToken, [open |-> <<>>, root |-> <<>>, bad |-> FALSE], file)
WellFormed(file) ==
    LET s == ReadXml(file) IN ~s.bad /\ s.open = <<>> /\ s.root # <<>>
Root(file) == ReadXml(file).root[1]

\* The children with one of some tags, in their order.
Tagged(e, tags) ==
    LET upTo[i \in 0..Len(e.kids)] ==
          IF i = 0 THEN <<>>
          ELSE IF e.kids[i].tag \in tags THEN Append(upTo[i - 1], e.kids[i]) ELSE upTo[i - 1]
    IN upTo[Len(e.kids)]
Children(e) == Tagged(e, {k.tag : k \in ToSet(e.kids)} \ {TextTag})
ChildrenOf(e, tag) == Tagged(e, {tag})
Attr(e, a) == IF a \in DOMAIN e.attrs THEN e.attrs[a] ELSE ""
AttrOr(e, a, default) == IF a \in DOMAIN e.attrs THEN e.attrs[a] ELSE default

\* getElementText throws when there are elements where text was expected.
HasTextOnly(e) == Children(e) = <<>>
TextOf(e) == Joined([i \in DOMAIN e.kids |-> e.kids[i].attrs.words])
ChildText(e, tag) ==
    LET found == ChildrenOf(e, tag) IN IF found = <<>> THEN <<>> ELSE TextOf(found[1])
ChildTextFits(e, tag) ==
    LET found == ChildrenOf(e, tag) IN found # <<>> => HasTextOnly(found[1])

-----------------------------------------------------------------------------
(***************************************************************************)
(* parser.ts: the steps.                                                   *)
(***************************************************************************)
Kinds == {"agent", "decision", "human_gate", "merge", "terminate"}
Ends == {"success", "failed", "stopped"}
Actions == {"approve", "stop", "retry", "edit", "branch"}

\* The children a step of each kind may have (rejectUnknownChildren).
Allowed(kind) ==
    CASE kind = "agent" -> {"prompt", "output"}
      [] kind = "decision" -> {"prompt", "output", "choices"}
      [] kind = "human_gate" -> {"prompt"}
      [] kind = "merge" -> {"input", "output"}
      [] kind = "terminate" -> {"message"}

\* A choice names exactly one of a next step, an end, or a human.
ChoiceFits(c) ==
    /\ c.tag = "choice" /\ Attr(c, "name") # ""
    /\ Attr(c, "terminate") \in Ends \cup {""}
    /\ Attr(c, "gate") \in {"human", ""}
    /\ Cardinality({a \in {"next", "terminate", "gate"} : Attr(c, a) # ""}) = 1

ChoiceList(e) == IF ChildrenOf(e, "choices") = <<>> THEN <<>>
              ELSE Children(ChildrenOf(e, "choices")[1])
Distinct(seq, Key(_)) ==
    \A i \in DOMAIN seq, j \in DOMAIN seq : Key(seq[i]) = Key(seq[j]) => i = j
ChoicesFit(e) ==
    /\ ChoiceList(e) # <<>>
    /\ \A c \in ToSet(ChoiceList(e)) : ChoiceFits(c)
    /\ Distinct(ChoiceList(e), LAMBDA c : Attr(c, "name"))

OutputName(e) ==
    LET found == ChildrenOf(e, "output") IN IF found = <<>> THEN "" ELSE Attr(found[1], "name")
OutputFits(e) == ChildrenOf(e, "output") # <<>> => OutputName(e) \in Names
InputNames(e) == LET found == ChildrenOf(e, "input")
                 IN [i \in DOMAIN found |-> Attr(found[i], "name")]

AsksAgent(e) == Attr(e, "type") \in {"agent", "decision"}
AgentStepFits(e) ==
    /\ Attr(e, "agent") \in Names /\ OutputFits(e)
    /\ ChildText(e, "prompt") # <<>> /\ "${}" \notin ToSet(ChildText(e, "prompt"))
HumanGateFits(e) ==
    /\ ChildText(e, "prompt") # <<>>
    /\ LET allow == AttrOr(e, "allow", {"approve", "stop"})
       IN allow # {} /\ allow \subseteq Actions
MergeFits(e) ==
    /\ InputNames(e) # <<>> /\ \A i \in DOMAIN InputNames(e) : InputNames(e)[i] # ""
    /\ ChildrenOf(e, "output") # <<>> /\ OutputFits(e)

\* parseStep accepts e.
StepFits(e) ==
    /\ Attr(e, "id") \in Names /\ Attr(e, "type") \in Kinds
    /\ \A k \in ToSet(Children(e)) : k.tag \in Allowed(Attr(e, "type"))
    /\ ChildTextFits(e, "prompt") /\ ChildTextFits(e, "message")
    /\ AsksAgent(e) => AgentStepFits(e)
    /\ Attr(e, "type") = "decision" =>
         ChoicesFit(e) /\ AttrOr(e, "onInvalid", "pause") \in {"pause", "fail"}
    /\ Attr(e, "type") = "human_gate" => HumanGateFits(e)
    /\ Attr(e, "type") = "merge" => MergeFits(e)
    /\ Attr(e, "type") = "terminate" => AttrOr(e, "status", "success") \in Ends

\* The step parseStep makes of e; a field its kind lacks is empty.
StepOf(e, loop) ==
    LET kind == Attr(e, "type")
        for(kinds, value, none) == IF kind \in kinds THEN value ELSE none
        list == ChoiceList(e)
        choices == [i \in DOMAIN list |->
                      [a \in {"name", "next", "terminate", "gate"} |-> Attr(list[i], a)]]
    IN [id |-> Attr(e, "id"), kind |-> kind, loop |-> loop,
        agent |-> for({"agent", "decision"}, Attr(e, "agent"), ""),
        prompt |-> for({"agent", "decision", "human_gate"}, ChildText(e, "prompt"), <<>>),
        output |-> for({"agent", "decision", "merge"}, OutputName(e), ""),
        choices |-> for({"decision"}, choices, <<>>),
        onInvalid |-> for({"decision"}, AttrOr(e, "onInvalid", "pause"), ""),
        allow |-> for({"human_gate"}, AttrOr(e, "allow", {"approve", "stop"}), {}),
        inputs |-> for({"merge"}, InputNames(e), <<>>),
        separator |-> for({"merge"}, AttrOr(e, "separator", "blank line"), ""),
        status |-> for({"terminate"}, AttrOr(e, "status", "success"), ""),
        message |-> for({"terminate"}, ChildText(e, "message"), <<>>)]

-----------------------------------------------------------------------------
(***************************************************************************)
(* parser.ts: loops and the whole document.  A definition under            *)
(* construction has its steps in the order of the document, which is       *)
(* stepOrder, and its loops; fits falls with the first complaint.          *)
(***************************************************************************)
Ids(def) == {def.steps[i].id : i \in DOMAIN def.steps}
LoopIds(def) == {def.loops[i].id : i \in DOMAIN def.loops}

\* Mutant: a step may have the id of another.
RegisterAnyway(def, step) ==
    [def EXCEPT !.fits = @ /\ \A i \in DOMAIN def.steps :
                                 step.output # "" => def.steps[i].output # step.output,
                !.steps = Append(@, step)]

Register(def, step) ==
    [def EXCEPT !.fits = @ /\ \A i \in DOMAIN def.steps :
                                 /\ def.steps[i].id # step.id
                                 /\ step.output # "" => def.steps[i].output # step.output,
                !.steps = Append(@, step)]

AddStep(def, e, loop) ==
    IF e.tag = "step" /\ StepFits(e) THEN Register(def, StepOf(e, loop))
                                     ELSE [def EXCEPT !.fits = FALSE]

\* parseLoopBounds: at least one bound, each a positive number; 0 is none.
Bounds == {"maxIterations", "maxSteps", "maxRuntimeMinutes"}
BoundsFit(e) ==
    /\ DOMAIN e.attrs \cap Bounds # {}
    /\ \A b \in DOMAIN e.attrs \cap Bounds : e.attrs[b] > 0

\* The children of a loop, which are steps.
AddSteps(def, kids, loop) == Pass(LAMBDA d, k : AddStep(d, k, loop), def, kids)

AddLoop(def, e) ==
    LET id == Attr(e, "id")
        kids == Children(e)
        inner == AddSteps(def, kids, id)
        ids == [i \in DOMAIN kids |-> Attr(kids[i], "id")]
    IN IF id \in Names \ LoopIds(def) /\ BoundsFit(e) /\ ids # <<>>
       THEN [inner EXCEPT !.loops = Append(@,
                [id |-> id, steps |-> ids, bounds |-> [b \in Bounds |-> AttrOr(e, b, 0)]])]
       ELSE [def EXCEPT !.fits = FALSE]

\* The inputs: a name once; optional="true" makes one optional.
AddInput(def, e) ==
    LET name == Attr(e, "name") IN
    [def EXCEPT !.fits = @ /\ name \in Names
                           /\ \A i \in DOMAIN def.inputs : def.inputs[i].name # name,
                !.inputs = Append(@, [name |-> name, optional |-> Attr(e, "optional") = "true"])]

AddChild(def, e) ==
    CASE e.tag = "description" ->
            IF def.described THEN def
            ELSE [def EXCEPT !.described = TRUE, !.description = TextOf(e),
                             !.fits = @ /\ HasTextOnly(e)]
      [] e.tag = "input" -> AddInput(def, e)
      [] e.tag = "step" -> AddStep(def, e, "")
      [] e.tag = "loop" -> AddLoop(def, e)
      [] OTHER -> [def EXCEPT !.fits = FALSE]

AddChildren(def, kids) == Pass(AddChild, def, kids)

NextIds(step) ==
    IF step.kind # "decision" THEN {}
    ELSE {step.choices[i].next : i \in DOMAIN step.choices} \ {""}

\* collectBranchTargets: every next names a step, wherever it stands.
TargetsKnown(def) == \A i \in DOMAIN def.steps : NextIds(def.steps[i]) \subseteq Ids(def)

NoDefinition == [fits |-> FALSE]

\* parseAndValidateWorkflow.
Parse(file) ==
    LET root == Root(file) IN
    IF ~WellFormed(file) \/ root.tag # "workflow" \/ Attr(root, "id") \notin Names
    THEN NoDefinition
    ELSE LET blank == [fits |-> TRUE, id |-> Attr(root, "id"),
                       version |-> AttrOr(root, "version", "1"),
                       described |-> FALSE, description |-> <<>>,
                       inputs |-> <<>>, steps |-> <<>>, loops |-> <<>>]
             def == AddChildren(blank, Children(root))
         IN IF def.fits /\ def.steps # <<>> /\ TargetsKnown(def)
            THEN [def EXCEPT !.described = def.description # <<>>] ELSE NoDefinition

-----------------------------------------------------------------------------
(***************************************************************************)
(* serializer.ts.  Attributes at their default are not written.            *)
(***************************************************************************)
Wrap(tag, attrs, inner) == <<Start(tag, attrs)>> \o inner \o <<End(tag)>>
TextElement(tag, words) == Wrap(tag, <<>>, <<Text(Escape(words))>>)

\* The attributes of both records, which share none.
Joint(attrs, more) ==
    [a \in DOMAIN attrs \cup DOMAIN more |-> IF a \in DOMAIN attrs THEN attrs[a] ELSE more[a]]

\* The attributes of a record that are not in "unless".
Written(attrs, unless) ==
    [a \in {b \in DOMAIN attrs : attrs[b] \notin unless[b]} |-> attrs[a]]
Always(attrs) == [a \in DOMAIN attrs |-> {}]

OutputElement(step) ==
    IF step.output = "" THEN <<>> ELSE <<Empty("output", [name |-> step.output])>>
ChoiceElement(c) ==
    Empty("choice", Written(c, [Always(c) EXCEPT !["next"] = {""}, !["terminate"] = {""},
                                                 !["gate"] = {""}]))

StepAttrs(step) ==
    LET id == [id |-> step.id, type |-> step.kind] IN
    CASE step.kind = "agent" -> Joint(id, [agent |-> step.agent])
      [] step.kind = "decision" ->
           Joint(id, Joint([agent |-> step.agent],
                           Written([onInvalid |-> step.onInvalid], [onInvalid |-> {"pause"}])))
      [] step.kind = "human_gate" -> Joint(id, [allow |-> step.allow])
      [] step.kind = "merge" ->
           Joint(id, Written([separator |-> step.separator],
                             [separator |-> {"", "blank line"}]))
      [] step.kind = "terminate" -> Joint(id, [status |-> step.status])

StepInner(step) ==
    CASE step.kind = "agent" -> TextElement("prompt", step.prompt) \o OutputElement(step)
      [] step.kind = "decision" ->
           TextElement("prompt", step.prompt) \o OutputElement(step)
             \o Wrap("choices", <<>>, [i \in DOMAIN step.choices |-> ChoiceElement(step.choices[i])])
      [] step.kind = "human_gate" -> TextElement("prompt", step.prompt)
      [] step.kind = "merge" ->
           [i \in DOMAIN step.inputs |-> Empty("input", [name |-> step.inputs[i]])]
             \o OutputElement(step)
      [] step.kind = "terminate" ->
           IF step.message = <<>> THEN <<>> ELSE TextElement("message", step.message)

StepElement(step) == Wrap("step", StepAttrs(step), StepInner(step))
StepNamed(def, id) == CHOOSE s \in ToSet(def.steps) : s.id = id

LoopElement(def, loop) ==
    Wrap("loop",
         Joint([id |-> loop.id], Written(loop.bounds, [b \in Bounds |-> {0}])),
         Joined([i \in DOMAIN loop.steps |-> StepElement(StepNamed(def, loop.steps[i]))]))

LoopNamed(def, id) == CHOOSE l \in ToSet(def.loops) : l.id = id

\* Mutant: a loop is written again for each of its steps.
GroupRepeated(def, i) ==
    IF def.steps[i].loop = "" THEN StepElement(def.steps[i])
    ELSE LoopElement(def, LoopNamed(def, def.steps[i].loop))

\* groupByLoop: a loop stands where its first step stands.
IsFirst(def, i) == \A j \in 1..(i - 1) : def.steps[j].loop # def.steps[i].loop
GroupAt(def, i) ==
    IF def.steps[i].loop = "" THEN StepElement(def.steps[i])
    ELSE IF IsFirst(def, i) THEN LoopElement(def, LoopNamed(def, def.steps[i].loop))
    ELSE <<>>
Groups(def) == Joined([i \in DOMAIN def.steps |-> GroupAt(def, i)])

InputElement(input) ==
    Empty("input", Joint([name |-> input.name],
                         IF input.optional THEN [optional |-> "true"] ELSE <<>>))

Serialize(def) ==
    Wrap("workflow", [id |-> def.id, version |-> def.version],
         (IF def.described THEN TextElement("description", def.description) ELSE <<>>)
           \o [i \in DOMAIN def.inputs |-> InputElement(def.inputs[i])]
           \o Groups(def))

-----------------------------------------------------------------------------
(***************************************************************************)
(* graph.ts: the edges drawn between steps.                                *)
(***************************************************************************)
Edge(source, target, kind) == [source |-> source, target |-> target, kind |-> kind]
OwnFlow == {"decision", "terminate"}

\* Mutant: a loop flows back only when its last step calls an agent.
LoopEdgesOfAgents(def) ==
    {Edge(Last(l.steps), l.steps[1], "loop") :
        l \in {m \in ToSet(def.loops) : StepNamed(def, Last(m.steps)).kind = "agent"}}

\* The last step of a loop flows back to its first, unless it decides or ends.
LoopEdges(def) ==
    {Edge(Last(l.steps), l.steps[1], "loop") :
        l \in {m \in ToSet(def.loops) : StepNamed(def, Last(m.steps)).kind \notin OwnFlow}}

\* Between neighbours in the order of the document, loops or not.
SequenceEdges(def) ==
    {Edge(def.steps[i].id, def.steps[i + 1].id, "sequence") :
        i \in {j \in 1..(Len(def.steps) - 1) : def.steps[j].kind \notin OwnFlow}}

IndexIn(def, id) == CHOOSE i \in DOMAIN def.steps : def.steps[i].id = id

ChoiceEdges(def) ==
    UNION {{Edge(s.id, t, IF /\ s.loop # "" /\ StepNamed(def, t).loop = s.loop
                             /\ IndexIn(def, t) <= IndexIn(def, s.id) THEN "loop" ELSE "choice") :
              t \in NextIds(s)} : s \in ToSet(def.steps)}

GateEdges(def) ==
    {Edge(s.id, s.id, "gate") :
        s \in {d \in ToSet(def.steps) : d.kind = "decision"
                 /\ \E i \in DOMAIN d.choices : d.choices[i].gate = "human"}}

Graph(def) == SequenceEdges(def) \cup LoopEdges(def) \cup ChoiceEdges(def) \cup GateEdges(def)
=============================================================================
