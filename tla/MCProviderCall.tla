--------------------------- MODULE MCProviderCall ---------------------------
(***************************************************************************)
(* Calls for TLC: for each runtime a stream with intermediate texts, tools *)
(* and a final one, a CLI that prints plain text, one that prints nothing  *)
(* of use, and one with more tools than the status message shows; each     *)
(* with a child that may be deaf to signals, leave another process behind, *)
(* or end its output without a newline.                                    *)
(***************************************************************************)
EXTENDS ProviderCall, TLC

Slot == CHOOSE s \in Slots : TRUE
Of(kind, words, slot) == [kind |-> kind, words |-> words, slot |-> slot]
Say(w) == Of("message", <<w>>, Slot)
Piece(w) == Of("delta", <<w>>, Slot)
Use(slot) == Of("tool", <<>>, slot)
End(words) == Of("result", words, Slot)
Warn == Of("warning", <<"busy">>, Slot)
Noise == Of("plain", <<"noise">>, Slot)

Streams ==
    {[runtime |-> "claude", lines |-> <<Of("tool", <<"plan">>, "a"), Say("almost"), End(<<"done">>)>>],
     [runtime |-> "claude", lines |-> <<Noise, Of("tool", <<"plan">>, "b"), End(<<>>)>>],
     [runtime |-> "gemini", lines |-> <<Piece("all"), Use("a"), Warn, Piece("done"), End(<<>>)>>],
     [runtime |-> "gemini", lines |-> <<Piece("all"), Say("done"), Of("other", <<>>, Slot)>>],
     [runtime |-> "pi", lines |-> <<Piece("plan"), Say("plan"), Use("a"), Use("a"), Say("done"), End(<<"done">>)>>],
     [runtime |-> "codex", lines |-> <<Say("plan"), Use("a"), Use("b"), Use("c"), Use("a"), End(<<"done">>)>>],
     [runtime |-> "codex", lines |-> <<Say("plan"), Piece("done"), Warn>>],
     [runtime |-> "pi", lines |-> <<Noise, Noise>>]}

MCCalls ==
    {s @@ [deaf |-> d, heir |-> h, unended |-> u] : s \in Streams, d, h, u \in BOOLEAN}
MCWords == {"plan", "almost", "all", "done", "busy", "noise"}
=============================================================================
