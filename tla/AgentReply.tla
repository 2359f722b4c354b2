----------------------------- MODULE AgentReply ------------------------------
(***************************************************************************)
(* What becomes of an agent's answer.  Lines that begin with               *)
(* @telegram-file name files to return: a JSON object on the line, or      *)
(* begun there, or on the lines below.  The gateway (src/gateway.ts) and   *)
(* the web chat (src/web/server/chat.ts) each have a parser.  The gateway  *)
(* sends text and files; both keep a log of the answer, which a web page   *)
(* that is loaded later is made from.                                      *)
(***************************************************************************)
EXTENDS Naturals, Sequences, SequencesExt

CONSTANTS
    MaxLines,   \* bound: lines of an answer
    Window,     \* MAX_DIRECTIVE_JSON_LINES
    PieceSize   \* MAX_TELEGRAM_TEXT_CHARS, in lines

\* An object names a kind and a file.  "usable": both are good wherever it is read;
\* "elsewhere": the file is not under the agent's directory, or is a URL or an id of
\* Telegram's; "kindless": the kind is none that Telegram knows.
Objects == {"usable", "elsewhere", "kindless"}

\* A line: a directive with a whole object, the beginning of one ("open"), nothing
\* ("bare") or another word behind it; a whole object or the beginning of one ("begin"),
\* as may stand below a bare one; the middle or end of one; nothing; or prose.
Plain == {[is |-> is, object |-> "none"] :
             is \in {"prose", "blank", "word", "bare", "open", "begin", "more"}}
Line == Plain \cup [is: {"directive", "object", "rest"}, object: Objects]

\* Those of some lines, in their order.
Those(lines, wanted) ==
    LET from[i \in 1..Len(lines) + 1] ==
          IF i > Len(lines) THEN <<>>
          ELSE (IF lines[i] \in wanted THEN <<lines[i]>> ELSE <<>>) \o from[i + 1]
    IN  from[1]

IsDirective(line) == line.is \in {"directive", "open", "bare", "word"}

VARIABLES
    channel,   \* where the question came from: "telegram" or "web"
    answer,    \* the lines of the answer
    place,     \* how far the turn has come with it
    log,       \* the assistant's message in the session
    told,      \* the lines of text that the chat has
    returned,  \* the files that the chat has
    tried,     \* how many files were sent or could not be
    sent,      \* nothing failed to be sent
    reloaded   \* the page was made from the log

vars == <<channel, answer, place, log, told, returned, tried, sent, reloaded>>

-----------------------------------------------------------------------------
(* The parsers.                                                             *)

\* The object begun on line i ends on the last line.
EndsLast(lines, i) ==
    /\ i < Len(lines) /\ lines[Len(lines)].is = "rest"
    /\ \A k \in i + 1..Len(lines) - 1 : lines[k].is \in {"more", "blank"}

\* Below a bare directive, behind blank lines, is a whole object.
FollowsBare(lines) ==
    \E i \in 2..Len(lines) :
        /\ \A k \in 2..i - 1 : lines[k].is = "blank"
        /\ \/ lines[i].is = "object" /\ i = Len(lines)
           \/ lines[i].is = "begin" /\ EndsLast(lines, i)

\* JSON.parse of the payload and the lines below it.
Complete(lines) ==
    \/ lines[1].is = "directive" /\ Len(lines) = 1
    \/ lines[1].is = "open" /\ EndsLast(lines, 1)
    \/ lines[1].is = "bare" /\ FollowsBare(lines)

\* How many lines a directive that begins at i takes, 0 for one that never
\* becomes whole within the window.
Extent(lines, i) ==
    LET ends == {j \in i..Len(lines) : j <= i + Window /\ Complete(SubSeq(lines, i, j))}
    IN  IF ends = {} THEN 0 ELSE (CHOOSE j \in ends : \A k \in ends : j <= k) - i + 1

\* What a parser makes of the lines: the text, and the objects of the files.
\* usable: the objects it takes; keeps: it leaves the first line of a directive
\* that is not whole as prose.
Parsed(lines, usable, keeps) ==
    LET from[i \in 1..Len(lines) + 1] ==
          IF i > Len(lines) THEN [text |-> <<>>, files |-> <<>>]
          ELSE LET n == IF IsDirective(lines[i]) THEN Extent(lines, i) ELSE 0
                   object == lines[i + n - 1].object
                   next == from[i + (IF n = 0 THEN 1 ELSE n)]
                   words == IF IsDirective(lines[i]) /\ ~keeps THEN <<>> ELSE <<lines[i]>>
               IN  IF n = 0 THEN [next EXCEPT !.text = words \o @]
                   ELSE IF object \in usable THEN [next EXCEPT !.files = <<object>> \o @] ELSE next
    IN  from[1]

\* trim: without the blank lines before and behind.
Trimmed(lines) ==
    LET said == {i \in 1..Len(lines) : lines[i].is # "blank"}
    IN  IF said = {} THEN <<>> ELSE SubSeq(lines, Min(said), Max(said))

Reading(lines, usable, keeps) == [Parsed(lines, usable, keeps) EXCEPT !.text = Trimmed(@)]

\* parseOutboundAgentResponse keeps it as prose; it takes whatever kind it knows.
ForTelegram(lines) == Reading(lines, {"usable", "elsewhere"}, TRUE)

\* parseAssistantContent drops it.  Telegram's kind is not looked at; the file must be
\* there, under the agent's directory (the model removes none).
OnDisk == {"usable", "kindless"}
ForPage(lines) == Reading(lines, OnDisk, FALSE)

-----------------------------------------------------------------------------
(* The logs.                                                                *)

AsLine(object) == [is |-> "directive", object |-> object]
AsLines(files) == [i \in 1..Len(files) |-> AsLine(files[i])]

\* Each file by a line of its own, behind the text.
TelegramLog(lines) ==
    ForTelegram(lines).text \o AsLines(ForTelegram(lines).files)

\* Mutant of WebLog: what the page shows is what is kept.
WebLogOfText(lines) == ForPage(lines).text

\* Behind the text, the lines that begin a directive and have something behind it.
WebLog(lines) ==
    ForPage(lines).text \o Those(lines, {l \in Line : IsDirective(l) /\ l.is # "bare"})

-----------------------------------------------------------------------------
(* The turn.                                                                *)

Text == ForTelegram(answer).text
Files == ForTelegram(answer).files

\* splitTelegramText: the text in pieces of at most the size.
Piece == SubSeq(Text, Len(told) + 1, Min({Len(told) + PieceSize, Len(Text)}))

\* The answer goes to the session before it goes to the chat.
RecordAnswer ==
    /\ place = "answered"
    /\ IF channel = "telegram"
       THEN log' = TelegramLog(answer) /\ place' = "text" /\ UNCHANGED <<told, returned>>
       ELSE /\ log' = WebLog(answer) /\ place' = "done"
            /\ told' = ForPage(answer).text /\ returned' = ForPage(answer).files
    /\ UNCHANGED <<channel, answer, tried, sent, reloaded>>

SendPiece ==
    /\ place = "text" /\ Len(told) < Len(Text)
    /\ told' = told \o Piece
    /\ UNCHANGED <<channel, answer, place, log, returned, tried, sent, reloaded>>

\* A piece that is not taken ends the text, not the turn.
PieceFails ==
    /\ place = "text" /\ Len(told) < Len(Text)
    /\ place' = "files" /\ sent' = FALSE
    /\ UNCHANGED <<channel, answer, log, told, returned, tried, reloaded>>

TextSent ==
    /\ place = "text" /\ Len(told) >= Len(Text)
    /\ place' = "files"
    /\ UNCHANGED <<channel, answer, log, told, returned, tried, sent, reloaded>>

SendFile ==
    /\ place = "files" /\ tried < Len(Files)
    /\ tried' = tried + 1
    /\ \/ returned' = Append(returned, Files[tried + 1]) /\ UNCHANGED sent
       \/ sent' = FALSE /\ UNCHANGED returned
    /\ UNCHANGED <<channel, answer, place, log, told, reloaded>>

\* A reply of nothing counts as not sent.
FilesSent ==
    /\ place = "files" /\ tried = Len(Files)
    /\ place' = "done" /\ sent' = (sent /\ (Text # <<>> \/ Files # <<>>))
    /\ UNCHANGED <<channel, answer, log, told, returned, tried, reloaded>>

\* /stop, seen before the next file.
Stopped ==
    /\ place = "files" /\ tried < Len(Files)
    /\ place' = "done" /\ sent' = FALSE
    /\ UNCHANGED <<channel, answer, log, told, returned, tried, reloaded>>

\* buildSessionDetail: a page of the session, of either channel.
Reload ==
    /\ place = "done" /\ ~reloaded
    /\ told' = ForPage(log).text /\ returned' = ForPage(log).files /\ reloaded' = TRUE
    /\ UNCHANGED <<channel, answer, place, log, tried, sent>>

Init ==
    /\ channel \in {"telegram", "web"}
    /\ answer \in UNION {[1..n -> Line] : n \in 1..MaxLines}
    /\ place = "answered" /\ log = <<>> /\ told = <<>> /\ returned = <<>> /\ tried = 0
    /\ sent = TRUE /\ reloaded = FALSE

Next == RecordAnswer \/ SendPiece \/ PieceFails \/ TextSent \/ SendFile \/ FilesSent \/ Stopped \/ Reload

Spec == Init /\ [][Next]_vars
-----------------------------------------------------------------------------
Prose(lines) == Those(lines, {l \in Line : l.is = "prose"})

\* The prose of a reply that was sent, or that a page shows, is the answer's.
ProseStays == sent \/ reloaded => Prose(told) = Prose(answer)

\* A page that is loaded offers the files that the answer returned, of those that a
\* page may offer.
FilesStay ==
    reloaded => returned = Those(IF channel = "telegram" THEN Files ELSE ForPage(answer).files, OnDisk)

OnOneLine == \A i \in 1..Len(answer) : answer[i].is \notin {"open", "bare"}

\* Whatever directives an answer begins and does not end, its prose reaches the
\* chat and the page, and the page again, in its order (src/gateway.ts 2558,
\* src/web/server/chat.ts 461); a page loaded later offers the files that were
\* returned and are under the agent's directory, all of them and no other, if each
\* was named on one line.
NothingLost == place = "done" => ProseStays /\ (OnOneLine => FilesStay)

\* "Preserve the raw @telegram-file directives in memory" (src/web/server/chat.ts
\* 993): the same of the files of a web chat's answer, on however many lines.
WebFilesStay == place = "done" /\ channel = "web" => FilesStay
=============================================================================
