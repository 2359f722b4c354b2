---------------------------- MODULE ProviderCall ----------------------------
(***************************************************************************)
(* One call of a provider's CLI for an agent turn (src/provider-agent.ts)  *)
(* and the Telegram turn around it (src/gateway.ts): the child process,    *)
(* the reader of its event stream, the timers, the files made for it, the  *)
(* live status message, and a /stop.                                       *)
(*                                                                         *)
(* A text is a sequence of words.  The spaces between are left out: the    *)
(* reader trims each piece, so a delta loses those at its ends.            *)
(***************************************************************************)
EXTENDS Naturals, Sequences, FiniteSets, FiniteSetsExt, SequencesExt

CONSTANTS
    Calls,          \* the calls to try; see Call
    Words, Slots,   \* what texts are made of; what tools work on
    MaxLines        \* MAX_LIVE_STATUS_LINES

ASSUME ProviderAssumption == MaxLines \in Nat \ {0}

VARIABLES
    call,     \* the call made
    phase,    \* of its promise: "new", "running", "settled", "delivered"
    outcome,  \* what it settled with
    cli,      \* the child process, and the pipe of its stdout
    read,     \* how many lines of output have arrived
    got,      \* ProviderStreamState
    files,    \* the prompt file and the output file
    status,   \* TelegramLiveStatusSession
    stopped,  \* stopRequested of the turn
    said      \* what the chat was told in the end

promise == <<phase, outcome>>
output == <<cli, read, files>>
turn == <<stopped, said>>
vars == <<call, promise, output, got, status, turn>>

\* A line of output.  "plain" is not a JSON object; the others stand for the
\* events a runtime's stream has: a whole message, a piece of one, the start of
\* a tool, a warning, the end of the turn, and events nothing is done with.
Line == [kind: {"plain", "message", "delta", "tool", "warning", "result", "other"},
         words: Seq(Words), slot: Slots]

\* deaf: the CLI ignores SIGTERM.  heir: a process it left behind holds its
\* stdout.  unended: its last line has no newline.
Call == [runtime: {"claude", "gemini", "pi", "codex"}, lines: Seq(Line),
         deaf: BOOLEAN, heir: BOOLEAN, unended: BOOLEAN]

Printed == Len(call.lines)
Event == [kind: {"none", "progress", "warning", "completed"},
          slot: Slots \cup {"warning", "finalize"}, message: Seq(Words \cup Slots)]
NoEvent == [kind |-> "none", slot |-> "finalize", message |-> <<>>]

\* The words of some of a call's lines.
WordsOf(c, lines) == FlattenSeq([i \in 1..Len(c.lines) |-> IF i \in lines THEN c.lines[i].words ELSE <<>>])

\* The lines of some kinds that say something, and those that are whole messages.
Spoken(c, kinds) == {i \in 1..Len(c.lines) : c.lines[i].kind \in kinds /\ c.lines[i].words # <<>>}
Whole(c) == Spoken(c, {"message"} \cup IF c.runtime = "claude" THEN {"tool"} ELSE {})

\* What the CLI has told in the end: the text its turn ended with, or the last
\* whole message and the pieces after it, or all its output when none of it is
\* an event.  Codex writes it to the output file too.
Told(c) ==
    LET ends == Spoken(c, {"result"})
        since == {i \in Whole(c) \cup Spoken(c, {"delta"}) : \A j \in Whole(c) : j <= i}
        plain == \A i \in 1..Len(c.lines) : c.lines[i].kind = "plain"
    IN  CASE ends # {} -> c.lines[Max(ends)].words
          [] ends = {} /\ ~plain -> WordsOf(c, since)
          [] OTHER -> WordsOf(c, 1..Len(c.lines))

\* A line of some kinds that says something has one of others behind it, if there is any.
Followed(c, kinds, by) == \A i \in Spoken(c, kinds) : Spoken(c, by) = {} \/ \E j \in Spoken(c, by) : i < j

\* What the CLIs print as they are called here.  Claude and gemini end their turn
\* once, and last; claude, not asked for them, prints no pieces, and gemini's end
\* says nothing.  Pi has many turns: pieces, their message, the end, which repeats
\* the message.
Orderly(c) ==
    /\ c.runtime \in {"claude", "gemini"} =>
          \A i, j \in 1..Len(c.lines) :
             c.lines[i].kind = "result" /\ i < j => c.lines[j].kind \in {"plain", "warning", "other"}
    /\ c.runtime = "claude" => Spoken(c, {"delta"}) = {}
    /\ c.runtime = "gemini" => Spoken(c, {"result"}) = {}
    /\ c.runtime = "pi" => Followed(c, {"delta"}, {"message", "result"}) /\ Followed(c, {"message"}, {"result"})

ASSUME StreamsAssumption == \A c \in Calls : c \in Call /\ Orderly(c)

-----------------------------------------------------------------------------
(* What a line does to the stream state.                                    *)

\* The progress event of a line: the start of a tool, by what it works on, a
\* warning, the end of the turn.
ToolEvent(line) == [kind |-> "progress", slot |-> line.slot, message |-> <<line.slot>>]
EventOf(line) ==
    CASE line.kind = "tool" -> ToolEvent(line)
      [] line.kind = "warning" -> [kind |-> "warning", slot |-> "warning", message |-> line.words]
      [] line.kind = "result" -> [kind |-> "completed", slot |-> "finalize", message |-> <<>>]
      [] OTHER -> NoEvent

\* A text replaces an earlier one unless it is empty.
OrElse(words, earlier) == IF words # <<>> THEN words ELSE earlier

\* An assistant message of claude may hold a tool: a tool line that has words.
Claude(line, g) ==
    CASE line.kind \in {"message", "tool"} -> [g EXCEPT !.text = OrElse(line.words, @)]
      [] line.kind = "result" -> [g EXCEPT !.final = OrElse(OrElse(line.words, g.text), @)]
      [] OTHER -> g

Gemini(line, g) ==
    CASE line.kind = "delta" -> [g EXCEPT !.text = @ \o line.words]
      [] line.kind = "message" -> [g EXCEPT !.text = OrElse(line.words, @)]
      [] line.kind = "result" -> [g EXCEPT !.final = OrElse(g.text, @)]
      [] OTHER -> g

Pi(line, g) ==
    CASE line.kind = "delta" -> [g EXCEPT !.text = @ \o line.words]
      [] line.kind \in {"message", "result"} -> [g EXCEPT !.final = OrElse(line.words, @)]
      [] OTHER -> g

Codex(line, g) ==
    CASE line.kind = "delta" -> [g EXCEPT !.text = @ \o line.words]
      [] line.kind = "message" -> [g EXCEPT !.text = OrElse(line.words, @)]
      [] line.kind = "result" -> [g EXCEPT !.final = OrElse(line.words, @)]
      [] OTHER -> g

Taken(line, g) ==
    CASE call.runtime = "claude" -> Claude(line, g)
      [] call.runtime = "gemini" -> Gemini(line, g)
      [] call.runtime = "pi" -> Pi(line, g)
      [] call.runtime = "codex" -> Codex(line, g)

\* A line that is no event is passed over.
Consumed(line, g) ==
    LET next == [g EXCEPT !.eaten = @ + 1]
    IN  IF line.kind = "plain" THEN next ELSE Taken(line, [next EXCEPT !.saw = TRUE])

\* The text of a claude message with a tool in it is stored after its progress.
StoredLater(line, g) == IF line.kind = "tool" THEN [g EXCEPT !.text = got.text, !.owed = g.text] ELSE g

\* Mutant of Resolved: the text gathered from the stream comes first.
ResolvedText ==
    CASE got.text # <<>> -> got.text
      [] got.text = <<>> /\ files.output # <<>> -> files.output
      [] got.text = <<>> /\ files.output = <<>> /\ got.final # <<>> -> got.final
      [] OTHER -> IF got.saw THEN <<>> ELSE WordsOf(call, 1..read)

\* resolveProviderCliResponse.
Resolved ==
    CASE files.output # <<>> -> files.output
      [] files.output = <<>> /\ got.final # <<>> -> got.final
      [] files.output = <<>> /\ got.final = <<>> /\ got.text # <<>> -> got.text
      [] OTHER -> IF got.saw THEN <<>> ELSE WordsOf(call, 1..read)

-----------------------------------------------------------------------------
(* The live status message.                                                 *)

\* applyEvent: the newest event of each slot, of the MaxLines newest slots.
ApplyEvent(e) ==
    LET others == SelectSeq(status.lines, LAMBDA l : l.slot # e.slot)
        all == Append(others, e)
    IN  IF Len(all) > MaxLines THEN Tail(all) ELSE all

\* flush: nothing new, or too soon after the last edit, unless it matters.
Forced(e) == e.kind \in {"warning", "completed"}
Held(e, soon) == ~Forced(e) /\ (status.shown = ApplyEvent(e) \/ (soon /\ status.shown # <<>>))

\* Mutant of Push: a closed session is not looked for.
PushAnyway(e) ==
    \E soon \in BOOLEAN :
        status' = [status EXCEPT !.lines = ApplyEvent(e), !.sending = ~Held(e, soon)]

\* push of a session that is open: an edit starts, or the text is kept for
\* the next one.  The message is created by the first edit that succeeds.
Push(e) ==
    IF status.closed THEN status' = status
    ELSE \E soon \in BOOLEAN :
            status' = [status EXCEPT !.lines = ApplyEvent(e),
                                     !.sending = ~Held(e, soon)]

-----------------------------------------------------------------------------
(* The reader: one line after the other, waiting for each edit to end.      *)

\* Complete lines not consumed; the last, without a newline, waits for close.
Readable ==
    IF call.unended /\ read = Printed /\ ~(cli.pipe = "closed" /\ cli.code = "ok")
    THEN Printed - 1 ELSE read
Available == ~status.sending /\ got.eaten < Readable

\* Node runs a callback when no promise can go on: the reader, the promise of
\* a settled call, the end of the turn, the confirmation of a /stop.
Quiet ==
    \/ status.sending
    \/ ~Available /\ phase # "settled" /\ (phase = "delivered" \/ stopped => said # "nothing")

Consume ==
    /\ Available
    /\ LET line == call.lines[got.eaten + 1]
           e == EventOf(line)
           news == e # NoEvent /\ e # got.key
           next == [Consumed(line, got) EXCEPT !.key = IF news THEN e ELSE @]
       IN  /\ IF news /\ ~stopped THEN Push(e) ELSE UNCHANGED status
           /\ got' = IF status'.sending THEN StoredLater(line, next) ELSE next
    /\ UNCHANGED <<call, promise, output, turn>>

\* Telegram has answered a sendMessage or an editMessageText.
EditEnds(ok) ==
    /\ status.sending
    /\ status' = [status EXCEPT !.sending = FALSE, !.shown = IF ok THEN status.lines ELSE @]
    /\ got' = [got EXCEPT !.text = IF got.owed # <<>> THEN got.owed ELSE @, !.owed = <<>>]
    /\ UNCHANGED <<call, promise, output, turn>>

-----------------------------------------------------------------------------
(* The child process.                                                       *)

Alive == cli.at = "running"

\* A line arrives, of the child or of a process it left behind.
Data ==
    /\ Quiet
    /\ cli.pipe = "open" /\ read < Printed
    /\ read' = read + 1
    /\ UNCHANGED <<call, promise, cli, got, files, status, turn>>

\* The end of the child; codex writes the file it was asked to before.
Gone(code) == cli' = [cli EXCEPT !.at = "gone", !.code = code, !.pipe = IF call.heir THEN @ ELSE "ended"]

Exit(code) ==
    /\ Alive
    /\ code = "ok" => read = Printed
    /\ Gone(code)
    /\ files' = [files EXCEPT !.output = IF call.runtime = "codex" /\ code = "ok" THEN Told(call) ELSE @]
    /\ UNCHANGED <<call, promise, read, got, status, turn>>

TakesSignal ==
    /\ Alive /\ cli.term /\ ~call.deaf
    /\ Gone("signal")
    /\ UNCHANGED <<call, promise, read, got, files, status, turn>>

HeirEnds ==
    /\ ~Alive /\ cli.pipe = "open" /\ phase # "new"
    /\ cli' = [cli EXCEPT !.pipe = "ended"]
    /\ UNCHANGED <<call, promise, read, got, files, status, turn>>

-----------------------------------------------------------------------------
(* The promise of the call.                                                 *)

\* Mutant of Finish: each callback settles the call again.
FinishAgain(o) == phase' = "settled" /\ outcome' = o

\* finish, which only the first of the callbacks gets past.  It clears the
\* timers, the one that would follow a SIGTERM with a SIGKILL too: that one
\* never fires.
Finish(o) ==
    IF phase = "running" THEN phase' = "settled" /\ outcome' = o ELSE UNCHANGED promise

NoAnswer(kind) == [kind |-> kind, words |-> <<>>, whole |-> FALSE]

\* A /stop before, or no key, or no sign-in: nothing was started.
Refuse ==
    /\ phase = "new"
    /\ phase' = "delivered" /\ outcome' = NoAnswer(IF stopped THEN "stopped" ELSE "failure")
    /\ UNCHANGED <<call, output, got, status, turn>>

Start ==
    /\ phase = "new" /\ ~stopped
    /\ phase' = "running"
    /\ files' = [files EXCEPT !.prompt = call.runtime = "pi"]
    /\ \E spawned \in BOOLEAN :
          cli' = IF spawned THEN [cli EXCEPT !.at = "running", !.pipe = "open"]
                            ELSE [cli EXCEPT !.at = "gone", !.code = "bad"]
    /\ UNCHANGED <<call, outcome, read, got, status, turn>>

\* spawn throws instead (of arguments that are too long): nobody removes the prompt file.
StartThrows ==
    /\ phase = "new" /\ ~stopped
    /\ phase' = "delivered" /\ outcome' = NoAnswer("failure")
    /\ files' = [files EXCEPT !.prompt = call.runtime = "pi"]
    /\ UNCHANGED <<call, cli, read, got, status, turn>>

\* The "error" event of a child that could not be started.
SpawnFailed ==
    /\ phase = "running" /\ cli.pipe = "none" /\ Quiet
    /\ Finish(NoAnswer("failure"))
    /\ UNCHANGED <<call, output, got, status, turn>>

\* The "close" event: the child is gone and nobody holds its stdout.  The
\* answer is what the reader has by now.
Close ==
    /\ Quiet /\ cli.pipe = "ended"
    /\ cli' = [cli EXCEPT !.pipe = "closed"]
    /\ Finish(IF cli.code = "ok"
              THEN [kind |-> "answer", words |-> Resolved, whole |-> got.eaten = read /\ ~status.sending]
              ELSE NoAnswer("failure"))
    /\ UNCHANGED <<call, read, got, files, status, turn>>

\* Mutant of TimeOut: the timer kills the child and leaves the rest to "close".
TimeOutWaits ==
    /\ Quiet /\ phase = "running" /\ Alive
    /\ Gone("signal")
    /\ UNCHANGED <<call, promise, read, got, files, status, turn>>

TimeOut ==
    /\ Quiet /\ phase = "running"
    /\ IF Alive THEN Gone("signal") ELSE UNCHANGED cli
    /\ Finish(NoAnswer("timeout"))
    /\ UNCHANGED <<call, read, got, files, status, turn>>

\* What finish chained behind the reader: the files go, the promise settles.
Deliver ==
    /\ phase = "settled" /\ ~Available /\ ~status.sending
    /\ phase' = "delivered"
    /\ files' = [prompt |-> FALSE, output |-> <<>>]
    /\ UNCHANGED <<call, outcome, cli, read, got, status, turn>>

-----------------------------------------------------------------------------
(* The turn.                                                                *)

\* processAgentTurn after the call: the live status is closed, then the answer
\* or the failure is sent, unless the turn was stopped.
TurnEnds ==
    /\ phase = "delivered" /\ ~stopped /\ said = "nothing" /\ ~status.sending
    /\ status' = [status EXCEPT !.closed = TRUE]
    /\ said' = IF outcome.kind = "answer" THEN "answer" ELSE "failure"
    /\ UNCHANGED <<call, promise, output, got, stopped>>

\* handleStopCommand: abort() calls the call's abort listener at once.
Stop ==
    /\ Quiet /\ ~stopped /\ said = "nothing"
    /\ stopped' = TRUE
    /\ status' = [status EXCEPT !.closed = TRUE]
    /\ Finish(NoAnswer("stopped"))
    /\ cli' = [cli EXCEPT !.term = phase = "running" /\ Alive]
    /\ UNCHANGED <<call, read, got, files, said>>

\* Its second half, when the session's queue is empty.  (A second /stop in
\* between would be confirmed at once.)
Confirm ==
    /\ stopped /\ said = "nothing" /\ ~status.sending
    /\ said' = "confirmation"
    /\ UNCHANGED <<call, promise, output, got, status, stopped>>

-----------------------------------------------------------------------------
Init ==
    /\ call \in Calls
    /\ phase = "new" /\ outcome = NoAnswer("none")
    /\ cli = [at |-> "none", code |-> "none", pipe |-> "none", term |-> FALSE]
    /\ read = 0
    /\ got = [eaten |-> 0, text |-> <<>>, final |-> <<>>, saw |-> FALSE, key |-> NoEvent, owed |-> <<>>]
    /\ files = [prompt |-> FALSE, output |-> <<>>]
    /\ status = [closed |-> FALSE, sending |-> FALSE, lines |-> <<>>, shown |-> <<>>]
    /\ stopped = FALSE /\ said = "nothing"

Next ==
    \/ Start \/ StartThrows \/ Refuse \/ SpawnFailed \/ Data \/ Consume
    \/ \E ok \in BOOLEAN : EditEnds(ok)
    \/ \E code \in {"ok", "bad"} : Exit(code)
    \/ TakesSignal \/ HeirEnds \/ Close \/ TimeOut \/ Deliver
    \/ TurnEnds \/ Stop \/ Confirm

\* Promises go on, the timer fires, a signal reaches a CLI that heeds it.
\* Telegram answers each call of its API: the code sets no limit on that, and
\* waits for ever otherwise.  Nothing is assumed of the CLI itself.
Fairness ==
    /\ WF_vars(Consume) /\ WF_vars(\E ok \in BOOLEAN : EditEnds(ok))
    /\ WF_vars(SpawnFailed) /\ WF_vars(TimeOut) /\ WF_vars(Deliver)
    /\ WF_vars(TurnEnds) /\ WF_vars(Confirm) /\ WF_vars(TakesSignal)

Spec == Init /\ [][Next]_vars
FairSpec == Spec /\ Fairness

-----------------------------------------------------------------------------
TypeOK ==
    /\ phase \in {"new", "running", "settled", "delivered"}
    /\ outcome.kind \in {"none", "answer", "failure", "timeout", "stopped"}
    /\ outcome.words \in Seq(Words) /\ outcome.whole \in BOOLEAN
    /\ cli \in [at: {"none", "running", "gone"}, code: {"none", "ok", "bad", "signal"},
                 pipe: {"none", "open", "ended", "closed"}, term: BOOLEAN]
    /\ 0 <= got.eaten /\ got.eaten <= read /\ read <= Printed
    /\ {got.text, got.final, got.owed, files.output} \subseteq Seq(Words)
    /\ got.saw \in BOOLEAN /\ files.prompt \in BOOLEAN
    /\ got.key \in Event
    /\ {status.closed, status.sending, stopped} \subseteq BOOLEAN
    /\ Len(status.lines) <= MaxLines /\ Len(status.shown) <= MaxLines
    /\ \A i, j \in 1..Len(status.lines) : status.lines[i].slot = status.lines[j].slot => i = j
    /\ said \in {"nothing", "answer", "failure", "confirmation"}

\* The abort, the timer, the end of the process and the failure to start race
\* for one promise: what it settled with never changes, and a turn that was
\* stopped never turns into an answer.
OneOutcome ==
    [][/\ phase \in {"settled", "delivered"} => outcome' = outcome
       /\ outcome'.kind = "answer" => outcome.kind = "answer" \/ ~stopped]_vars

\* Once the chat has been told how the turn ended no edit of its status
\* message is under way or begins, whatever the child still prints.
QuietAfterEnd == said # "nothing" => ~status.sending

\* An answer is the last thing the CLI said as a whole, never an intermediate
\* piece, when the reader had taken in all of the output by the time the CLI
\* was gone.
AnswerIsTheLast == outcome.kind = "answer" /\ outcome.whole => outcome.words = Told(call)

\* A call that was started comes to its end, whatever the CLI and the
\* processes it leaves behind do: the chat is told, the prompt file is gone.
CallEnds == phase = "running" ~> phase = "delivered" /\ ~files.prompt /\ said # "nothing"

\* docs/telegram_pause_spec.md:73 "the provider process should be terminated
\* on `/stop`".
StoppedIsTerminated == cli.term ~> ~Alive
=============================================================================
