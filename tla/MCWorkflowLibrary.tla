------------------------- MODULE MCWorkflowLibrary -------------------------
(***************************************************************************)
(* Documents for TLC: each of a small stock of steps and loops, sound and  *)
(* unsound, alone, behind a step, and between two.                         *)
(***************************************************************************)
EXTENDS WorkflowLibrary

Say == TextElement("prompt", <<"review", "<">>)
Step(id, kind, more, inner) == Wrap("step", [id |-> id, type |-> kind] @@ more, inner)
Agent(id, inner) == Step(id, "agent", [agent |-> "professor"], Say \o inner)
Output(name) == <<Empty("output", [name |-> name])>>
Choice(name, target) == Empty("choice", [name |-> name] @@ target)
Decision(id, choices) ==
    Step(id, "decision", [agent |-> "professor", onInvalid |-> "fail"],
         Say \o Wrap("choices", <<>>, choices))
Gate(id) == Step(id, "human_gate", [allow |-> {"approve"}], Say)
Merge(id, separator) ==
    Step(id, "merge", [separator |-> separator], <<Empty("input", [name |-> "a"])>> \o Output("x"))
Loop(id, bounds, inner) == Wrap("loop", [id |-> id] @@ bounds, inner)
Thrice == [maxIterations |-> 3]

Again == Loop("r", Thrice, Agent("b", <<>>) \o Merge("c", "; "))
Ask == Loop("r", [maxSteps |-> 2, maxRuntimeMinutes |-> 1],
            Gate("b") \o Decision("c", <<Choice("again", [next |-> "b"])>>))

Stock ==
    {Agent("a", <<>>), Agent("b", Output("x")), Gate("b"), Merge("c", ""),
     Step("c", "terminate", [status |-> "failed"], TextElement("message", <<"&">>)),
     Decision("b", <<Choice("again", [next |-> "a"]), Choice("ask", [gate |-> "human"])>>),
     Decision("b", <<Choice("on", [next |-> "c"]), Choice("stop", [terminate |-> "success"])>>),
     Decision("b", <<Choice("both", [next |-> "a", gate |-> "human"])>>),
     Again, Loop("r", [maxSteps |-> 0], Agent("b", <<>>)), Ask}

Task == <<Empty("input", [name |-> "task", optional |-> "true"])>>
Document(body) == Wrap("workflow", [id |-> "w", version |-> "1"], body)
About == TextElement("description", <<"Q", "&", "A">>)
First == Agent("a", <<>>)

Documents ==
    {Document(Task \o First \o e \o Agent("d", <<>>)) : e \in Stock}
      \cup {Document(Again)}
      \cup {<<Comment>> \o Document(About \o First), Document(First) \o <<Empty("workflow", <<>>)>>,
            Front(Document(First)),
            Document(Step("a", "human_gate", <<>>,
                          Wrap("prompt", <<>>, <<CData(<<"<">>), Text(<<"go">>)>>)))}

MCOffered == [v \in Workflows |-> IF v = "w" THEN Documents ELSE {}]
MCPatches == {[version |-> "1", inputs |-> <<[name |-> "task", optional |-> TRUE]>>]}
=============================================================================
