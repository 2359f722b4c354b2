------------------------------ MODULE WebChat -------------------------------
(***************************************************************************)
(* The web chat with one agent (src/web/server/chat.ts) over the agent's   *)
(* conversation store (src/conversation.ts), which Telegram turns of the   *)
(* same agent write too (src/gateway.ts).  A request is handled in one go  *)
(* up to the call of the provider; the rest of its turn when that ends.    *)
(***************************************************************************)
EXTENDS Naturals, Sequences, FiniteSetsExt

CONSTANTS
    MaxSessions, MaxTurns, MaxDay,  \* bounds: sessions made, messages sent, days
    Uploads                         \* files a browser may upload

Sessions == 1..MaxSessions   \* in the order of their names, which is of time
Turns == 1..MaxTurns
Days == 1..MaxDay

VARIABLES
    day,       \* the UTC day
    store,     \* the agent's memory folder
    turn,      \* TURNS, and the turns no longer in it
    registry,  \* UPLOAD_REGISTRY: the uploads that have an id
    telegram   \* how far a Telegram turn of the agent has come

vars == <<day, store, turn, registry, telegram>>

Message == [turn: 0..MaxTurns,  \* 0: of Telegram
            role: {"user", "assistant"}, day: Days]

\* made: the folders under Session; born: how many there ever were; marker: .active-session (0: none); log: the
\* messages of each session, in the files of its days; daily: how many messages
\* the summary of a day was made of (0: no file).
NoStore == [made |-> {}, born |-> 0, marker |-> 0,
            log |-> [s \in Sessions |-> <<>>], daily |-> [d \in Days |-> 0]]

\* session: the active one when it was sent; moved: another became active while
\* it ran; watched: a stream of its events is open.
NoTurn == [status |-> "none", session |-> 0, aborted |-> FALSE, moved |-> FALSE, watched |-> FALSE]
\* "failed" ends like "completed", with a note for the answer.
Ended == {"completed", "stopped"}
Statuses == Ended \cup {"none", "running"}

\* Of a Telegram turn: it has read its memory, and asked.
Stages == {"idle", "reading", "asked"}

TypeOK ==
    /\ day \in Days
    /\ store.made \subseteq Sessions /\ {store.born, store.marker} \subseteq 0..MaxSessions
    /\ store.log \in [Sessions -> Seq(Message)] /\ store.daily \in [Days -> Nat]
    /\ \A t \in Turns :
         /\ turn[t].status \in Statuses /\ turn[t].session \in 0..MaxSessions
         /\ {turn[t].aborted, turn[t].moved, turn[t].watched} \subseteq BOOLEAN
    /\ registry \subseteq Uploads
    /\ telegram \in Stages

-----------------------------------------------------------------------------
(* The conversation store, as functions of the folder.                      *)

\* resetSession.
NewSession(st) ==
    LET s == st.born + 1
    IN  [st EXCEPT !.made = @ \cup {s}, !.born = s, !.marker = s]

\* resolveCurrentSessionDir, getActiveSessionId: the marked session, or the
\* latest, or a new one; the marker follows.
Resolved(st) ==
    CASE st.marker \in st.made -> st
      [] st.marker \notin st.made /\ st.made # {} -> [st EXCEPT !.marker = Max(st.made)]
      [] OTHER -> NewSession(st)

Appended(st, message) ==
    LET now == Resolved(st)
    IN  [now EXCEPT !.log[now.marker] = Append(@, message)]

\* collectDayMessages: where the sessions have messages of a day, and how many.
MessagesOf(st, d) ==
    {e \in UNION {{s} \X DOMAIN st.log[s] : s \in st.made} : st.log[e[1]][e[2]].day = d}
OfDay(st, d) == Cardinality(MessagesOf(st, d))

\* buildDailySummary.
SummaryOf(st, d) == OfDay(st, d)

\* Mutant of Summarized: the day is summed up before it is over.
SummarizedToday(st) ==
    IF st.daily[day] # 0 THEN st ELSE [st EXCEPT !.daily[day] = SummaryOf(st, day)]

\* readPreviousDaySummary: made once, when first asked for, and kept.
Summarized(st) ==
    IF day = 1 \/ st.daily[day - 1] # 0 THEN st
    ELSE [st EXCEPT !.daily[day - 1] = SummaryOf(st, day - 1)]

-----------------------------------------------------------------------------
(* Turns.                                                                   *)

Running == {t \in Turns : turn[t].status = "running"}
Busy == Running # {} \/ telegram # "idle"   \* isAgentBusy
Sent == {t \in Turns \cup {0} : \E s \in Sessions : \E i \in 1..Len(store.log[s]) : store.log[s][i].turn = t}
Fresh(t) == turn[t].status = "none" /\ t \notin Sent /\ \A u \in Turns : u < t => ~(turn[u].status = "none" /\ u \notin Sent)

Asks(t) == [turn |-> t, role |-> "user", day |-> day]
Closes(t) == [turn |-> t, role |-> "assistant", day |-> day]

\* The turns under way see the active session change, or theirs removed.
Moved(before, after) ==
    [t \in Turns |-> IF t \in Running /\ (before.marker # after.marker \/ turn[t].session \notin after.made)
                     THEN [turn[t] EXCEPT !.moved = TRUE] ELSE turn[t]]
Stores(after) == store' = after /\ turn' = Moved(store, after)

\* POST sessions/new, sessions/<id>/reset, and /session_reset in Telegram.
Reset ==
    /\ store.born < MaxSessions
    /\ Stores(NewSession(store))
    /\ UNCHANGED <<day, registry, telegram>>

\* POST send of a page that shows session s, or none (0).  The session is
\* activated before the busy agent or an unknown upload is looked for.
Activated(s) == IF s \in store.made THEN [store EXCEPT !.marker = s] ELSE store

Refused(s) ==
    /\ s \in store.made
    /\ Stores(Activated(s))
    /\ UNCHANGED <<day, registry, telegram>>

SendRefused(s, files) == (Busy \/ ~(files \subseteq registry)) /\ Refused(s)

Send(t, s, files) ==
    /\ Fresh(t) /\ s \in store.made \cup {0}
    /\ ~Busy /\ files \subseteq registry
    /\ LET asked == Summarized(Appended(Activated(s), Asks(t)))
       IN  /\ store' = asked
           /\ turn' = [turn EXCEPT ![t] = [NoTurn EXCEPT !.status = "running", !.session = asked.marker]]
    /\ UNCHANGED <<day, registry, telegram>>

\* Mutant of Ends: a turn that was stopped has nothing to add.
EndsUnlessStopped(t, status) ==
    /\ turn' = [turn EXCEPT ![t].status = status, ![t].aborted = FALSE, ![t].watched = FALSE]
    /\ store' = IF status = "stopped" THEN store ELSE Appended(store, Closes(t))

\* The rest of executeTurn: the answer, or the note that stands for it, goes to
\* the session that is active now; streams are told and closed.
Ends(t, status) ==
    /\ turn' = [turn EXCEPT ![t].status = status, ![t].aborted = FALSE, ![t].watched = FALSE]
    /\ store' = Appended(store, Closes(t))

\* The provider has answered, which a stop may come too late for, or failed or timed out.
TurnEnds(t, status) ==
    /\ t \in Running
    /\ status = "stopped" => turn[t].aborted
    /\ Ends(t, status)
    /\ UNCHANGED <<day, registry, telegram>>

StopTurn(t) ==
    /\ t \in Running
    /\ turn' = [turn EXCEPT ![t].aborted = TRUE]
    /\ UNCHANGED <<day, store, registry, telegram>>

\* GET turns/<id>/events; of a turn that has ended it is told, and closed, at once.
Watch(t) ==
    /\ t \in Running /\ ~turn[t].watched
    /\ turn' = [turn EXCEPT ![t].watched = TRUE]
    /\ UNCHANGED <<day, store, registry, telegram>>

Unwatch(t) ==
    /\ turn[t].watched
    /\ turn' = [turn EXCEPT ![t].watched = FALSE]
    /\ UNCHANGED <<day, store, registry, telegram>>

\* gcTurns, with each request: half an hour after their end.
Forget(t) ==
    /\ turn[t].status \in Ended /\ ~turn[t].watched
    /\ turn' = [turn EXCEPT ![t] = NoTurn]
    /\ UNCHANGED <<day, store, registry, telegram>>

\* GET sessions/<id>.
ReadSession ==
    /\ store.made # {} /\ store.marker \notin store.made
    /\ Stores(Resolved(store))
    /\ UNCHANGED <<day, registry, telegram>>

\* POST uploads of a batch.  A file too large ends it where it is met; the ones
\* before it stay, their ids never told.
Upload(files) ==
    /\ files # {} /\ files \cap registry = {}
    /\ registry' = registry \cup files
    /\ UNCHANGED <<day, store, turn, telegram>>

-----------------------------------------------------------------------------
(* Beside the web chat.                                                     *)

\* A Telegram turn of the agent; the gateway does not look for web turns.
TelegramReads ==
    /\ telegram = "idle" /\ 0 \notin Sent
    /\ Stores(Summarized(Resolved(store))) /\ telegram' = "reading"
    /\ UNCHANGED <<day, registry>>

\* Its files have come meanwhile; the question goes to the session active now.
TelegramAsks ==
    /\ telegram = "reading"
    /\ Stores(Appended(store, Asks(0))) /\ telegram' = "asked"
    /\ UNCHANGED <<day, registry>>

\* The answer, or the note that stands for it.
TelegramCloses ==
    /\ telegram = "asked"
    /\ Stores(Appended(store, Closes(0))) /\ telegram' = "idle"
    /\ UNCHANGED <<day, registry>>

\* A turn that was stopped, or failed before it asked, adds nothing.
TelegramStops ==
    /\ telegram # "idle" /\ telegram' = "idle"
    /\ UNCHANGED <<day, store, turn, registry>>

Midnight ==
    /\ day < MaxDay
    /\ day' = day + 1
    /\ UNCHANGED <<store, turn, registry, telegram>>

\* Somebody removes the folder of a session; where no more can be made, of the
\* active one of two, and an empty one.
RemoveSession(s) ==
    /\ s \in store.made /\ (store.born < MaxSessions \/ (s = store.marker /\ store.made # {s} /\ store.log[s] = <<>>))
    /\ Stores([store EXCEPT !.made = @ \ {s}, !.log[s] = <<>>])
    /\ UNCHANGED <<day, registry, telegram>>

\* The process ends and begins again: turns and upload ids were its memory.
Restart ==
    /\ turn' = [t \in Turns |-> NoTurn] /\ registry' = {} /\ telegram' = "idle"
    /\ UNCHANGED <<day, store>>

Init ==
    /\ day = 1 /\ store = NoStore
    /\ turn = [t \in Turns |-> NoTurn]
    /\ registry = {} /\ telegram = "idle"

Next ==
    \/ Reset \/ ReadSession \/ Midnight \/ Restart
    \/ TelegramReads \/ TelegramAsks \/ TelegramCloses \/ TelegramStops
    \/ \E s \in Sessions : RemoveSession(s)
    \/ \E s \in Sessions, files \in SUBSET Uploads : SendRefused(s, files)
    \/ \E t \in Turns, s \in Sessions \cup {0}, files \in SUBSET Uploads : Send(t, s, files)
    \/ \E t \in Turns : \E status \in Ended : TurnEnds(t, status)
    \/ \E t \in Turns : StopTurn(t) \/ Watch(t) \/ Unwatch(t) \/ Forget(t)
    \/ \E files \in SUBSET Uploads : Upload(files)

Spec == Init /\ [][Next]_vars
-----------------------------------------------------------------------------
\* Messages of which turn t has two: its question, and after it what answers.
Answered(t, messages) ==
    \E i, j \in DOMAIN messages :
        /\ i < j /\ messages[i].role = "user" /\ messages[j].role = "assistant"
        /\ \A k \in DOMAIN messages : messages[k].turn = t <=> k \in {i, j}

\* A turn that ended, however, left its question and one answer or note, in
\* that order, in the session it was begun in, unless the active session was
\* changed meanwhile: the answer goes to the one that is active when it comes.
AnswerInPlace ==
    \A t \in Turns : turn[t].status \in Ended /\ ~turn[t].moved /\ turn[t].session \in store.made =>
        Answered(t, store.log[turn[t].session])

\* The summary of a day is made once and never again: it was made of all the
\* messages the sessions have of that day.
SummaryIsWhole == \A d \in Days : store.daily[d] # 0 => OfDay(store, d) <= store.daily[d]
=============================================================================
