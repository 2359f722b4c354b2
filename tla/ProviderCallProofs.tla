------------------------- MODULE ProviderCallProofs -------------------------
(***************************************************************************)
(* Theorems about ProviderCall, for any call: any runtime, any lines of    *)
(* output, any behaviour of the child.                                     *)
(***************************************************************************)
EXTENDS ProviderCall, SequenceTheorems, WellFoundedInduction, TLAPS

-----------------------------------------------------------------------------
(***************************************************************************)
(* A stop closes the status message and settles the call, if it runs.      *)
(***************************************************************************)
Keys == {"closed", "sending", "lines", "shown"}

Order ==
    /\ DOMAIN status = Keys
    /\ status.closed \in BOOLEAN /\ status.sending \in BOOLEAN /\ stopped \in BOOLEAN
    /\ phase \in {"new", "running", "settled", "delivered"}
    /\ stopped => status.closed /\ phase # "running"
    /\ said # "nothing" => status.closed /\ ~status.sending

LEMMA OrderInit == Init => Order
  <1> SUFFICES ASSUME Init PROVE Order
    OBVIOUS
  <1>1. /\ DOMAIN status = Keys /\ status.closed = FALSE /\ status.sending = FALSE
        /\ phase = "new" /\ said = "nothing"
    BY DEF Init, Keys
  <1>2. stopped = FALSE
    BY DEF Init
  <1> QED
    BY <1>1, <1>2 DEF Order

\* Pushing an event to a closed session changes nothing; to an open one, never
\* whether it is open.
LEMMA Pushed ==
    ASSUME DOMAIN status = Keys, status.sending \in BOOLEAN, status.closed \in BOOLEAN,
           NEW e, Push(e)
    PROVE  /\ DOMAIN status' = Keys /\ status'.closed = status.closed
           /\ status'.sending \in BOOLEAN
           /\ status.closed => status' = status
  <1>1. CASE status.closed
    BY <1>1 DEF Push
  <1>2. CASE ~status.closed
    <2>1. PICK soon \in BOOLEAN :
            status' = [status EXCEPT !.lines = ApplyEvent(e), !.sending = ~Held(e, soon)]
      BY <1>2 DEF Push
    <2>2. (~Held(e, soon)) \in BOOLEAN
      OBVIOUS
    <2> QED
      BY <1>2, <2>1, <2>2 DEF Keys
  <1> QED
    BY <1>1, <1>2

\* What finish may do to the promise.
LEMMA Finished ==
    ASSUME Order, NEW o, Finish(o)
    PROVE  /\ phase = "running" => phase' = "settled" /\ outcome' = o
           /\ phase # "running" => phase' = phase /\ outcome' = outcome
  BY DEF Finish, promise

-----------------------------------------------------------------------------
(* The steps that leave the status message and the stop alone.              *)
LEMMA OthersKeepOrder ==
    ASSUME Order, UNCHANGED <<status, stopped, said>>,
           phase' \in {"new", "running", "settled", "delivered"},
           stopped => phase' # "running"
    PROVE  Order'
  BY DEF Order

LEMMA OrderStep == Order /\ [Next]_vars => Order'
  <1> SUFFICES ASSUME Order, [Next]_vars PROVE Order'
    OBVIOUS
  <1>1. CASE Start
    <2>1. UNCHANGED <<status, stopped, said>> /\ phase' = "running" /\ ~stopped
      BY <1>1 DEF Start, turn
    <2> QED
      BY <2>1, OthersKeepOrder
  <1>2. CASE Refuse \/ StartThrows \/ Deliver
    <2>1. UNCHANGED <<status, stopped, said>> /\ phase' = "delivered"
      BY <1>2 DEF Refuse, StartThrows, Deliver, turn
    <2> QED
      BY <2>1, OthersKeepOrder
  <1>3. CASE SpawnFailed \/ Close \/ TimeOut
    <2>1. UNCHANGED <<status, stopped, said>>
      BY <1>3 DEF SpawnFailed, Close, TimeOut, turn
    <2>2. \E o : Finish(o)
      BY <1>3 DEF SpawnFailed, Close, TimeOut
    <2>3. phase' \in {phase, "settled"}
      BY <2>2, Finished
    <2> QED
      BY <2>1, <2>3, OthersKeepOrder DEF Order
  <1>4. CASE Data \/ (\E code \in {"ok", "bad"} : Exit(code)) \/ TakesSignal \/ HeirEnds
             \/ UNCHANGED vars
    <2>1. UNCHANGED <<status, stopped, said, phase>>
      BY <1>4 DEF Data, Exit, TakesSignal, HeirEnds, vars, turn, promise
    <2> QED
      BY <2>1, OthersKeepOrder DEF Order
  <1>5. CASE Consume
    <2>1. UNCHANGED <<stopped, said, phase>>
      BY <1>5 DEF Consume, turn, promise
    <2>2. status' = status \/ \E e : Push(e)
      BY <1>5 DEF Consume
    <2>3. /\ DOMAIN status' = Keys /\ status'.closed = status.closed
          /\ status'.sending \in BOOLEAN
          /\ status.closed => status' = status
      BY <2>2, Pushed DEF Order
    <2> QED
      BY <2>1, <2>3 DEF Order
  <1>6. ASSUME NEW ok \in BOOLEAN, EditEnds(ok)
        PROVE  Order'
    <2>1. UNCHANGED <<stopped, said, phase>>
      BY <1>6 DEF EditEnds, turn, promise
    <2>2. DOMAIN status' = Keys /\ status'.closed = status.closed /\ status'.sending = FALSE
      BY <1>6 DEF EditEnds, Order, Keys
    <2> QED
      BY <2>1, <2>2 DEF Order
  <1>7. CASE TurnEnds
    <2>1. UNCHANGED <<stopped, phase>> /\ ~stopped /\ ~status.sending
      BY <1>7 DEF TurnEnds, promise
    <2>2. DOMAIN status' = Keys /\ status'.closed = TRUE /\ status'.sending = status.sending
      BY <1>7 DEF TurnEnds, Order, Keys
    <2> QED
      BY <2>1, <2>2 DEF Order
  <1>8. CASE Stop
    <2>1. /\ stopped' = TRUE /\ said' = said /\ said = "nothing"
          /\ phase' = IF phase = "running" THEN "settled" ELSE phase
      BY <1>8, Finished DEF Stop
    <2>2. DOMAIN status' = Keys /\ status'.closed = TRUE /\ status'.sending = status.sending
      BY <1>8 DEF Stop, Order, Keys
    <2> QED
      BY <2>1, <2>2 DEF Order
  <1>9. CASE Confirm
    <2>1. UNCHANGED <<stopped, status, phase>> /\ stopped /\ ~status.sending
      BY <1>9 DEF Confirm, promise
    <2> QED
      BY <2>1 DEF Order
  <1> QED
    BY <1>1, <1>2, <1>3, <1>4, <1>5, <1>6, <1>7, <1>8, <1>9 DEF Next

\* Once the chat has been told how the turn ended no edit of its status message
\* is under way, whatever the child prints and whenever Telegram answers.
THEOREM QuietOnceTold == Spec => []QuietAfterEnd
  <1>1. Order => QuietAfterEnd
    BY DEF Order, QuietAfterEnd
  <1> QED
    BY <1>1, OrderInit, OrderStep, PTL DEF Spec

-----------------------------------------------------------------------------
(***************************************************************************)
(* The abort, the timer, the end of the process and the failure to start   *)
(* settle the call once; a stopped turn never turns into an answer.        *)
(***************************************************************************)
LEMMA OutcomeStep ==
    ASSUME Order, [Next]_vars
    PROVE  /\ phase \in {"settled", "delivered"} => outcome' = outcome
           /\ outcome'.kind = "answer" => outcome.kind = "answer" \/ ~stopped
  <1>1. CASE outcome' = outcome
    BY <1>1
  <1>2. CASE Refuse \/ StartThrows
    <2>1. phase = "new" /\ \E kind \in {"stopped", "failure"} : outcome' = NoAnswer(kind)
      BY <1>2 DEF Refuse, StartThrows
    <2> QED
      BY <2>1 DEF NoAnswer
  <1>3. ASSUME NEW o, Finish(o)
        PROVE  outcome' = outcome \/ (phase = "running" /\ ~stopped)
    BY <1>3, Finished DEF Order
  <1>4. CASE SpawnFailed \/ Close \/ TimeOut \/ Stop
    <2>1. \E o : Finish(o)
      BY <1>4 DEF SpawnFailed, Close, TimeOut, Stop
    <2>2. outcome' = outcome \/ (phase = "running" /\ ~stopped)
      BY <1>3, <2>1
    <2> QED
      BY <2>2
  <1>5. CASE \/ Start \/ Data \/ Consume \/ TakesSignal \/ HeirEnds \/ Deliver
             \/ TurnEnds \/ Confirm \/ UNCHANGED vars
             \/ \E ok \in BOOLEAN : EditEnds(ok)
             \/ \E code \in {"ok", "bad"} : Exit(code)
    BY <1>1, <1>5 DEF Start, Data, Consume, TakesSignal, HeirEnds, Deliver, TurnEnds, Confirm,
                      EditEnds, Exit, promise, vars
  <1> QED
    BY <1>2, <1>4, <1>5 DEF Next

\* What a call settled with never changes, whichever of its ends come later, and a
\* call that was stopped is not answered after all.
THEOREM CallSettlesOnce == Spec => OneOutcome
  <1>1. Order /\ [Next]_vars =>
          [/\ phase \in {"settled", "delivered"} => outcome' = outcome
           /\ outcome'.kind = "answer" => outcome.kind = "answer" \/ ~stopped]_vars
    BY OutcomeStep
  <1> QED
    BY <1>1, OrderInit, OrderStep, PTL DEF Spec, OneOutcome

-----------------------------------------------------------------------------
(***************************************************************************)
(* The words of some lines, one line after the other.  FlattenSeq is a fold *)
(* over them; a fact about every number of lines is shown from each to the *)
(* next, by the least number at which it would fail.                       *)
(***************************************************************************)

\* A set that holds, of the numbers up to n, each one before which it holds all, holds all.
LEMMA Upwards ==
    ASSUME NEW n \in Nat, NEW S, \A i \in 1..n : (\A j \in 1..(i - 1) : j \in S) => i \in S
    PROVE  \A i \in 1..n : i \in S
  <1> SUFFICES ASSUME NEW k \in 1..n, k \notin S PROVE FALSE
    OBVIOUS
  <1> DEFINE missing == {i \in 1..n : i \notin S}
  <1>1. IsWellFoundedOn(OpToRel(<, Nat), Nat)
    BY NatLessThanWellFounded
  <1>2. missing \subseteq Nat /\ k \in missing
    OBVIOUS
  <1>3. PICK x \in missing : \A y \in missing : ~(<<y, x>> \in OpToRel(<, Nat))
    <2> HIDE DEF missing
    <2> QED BY <1>1, <1>2, WFMin
  <1>4. \A y \in missing : ~(y < x)
    BY <1>2, <1>3 DEF OpToRel
  <1>5. x \in 1..n /\ x \notin S
    OBVIOUS
  <1>6. \A j \in 1..(x - 1) : j \in S
    <2> SUFFICES ASSUME NEW j \in 1..(x - 1), j \notin S PROVE FALSE
      OBVIOUS
    <2>1. j \in missing /\ j < x
      BY <1>5
    <2> QED BY <1>4, <2>1
  <1> QED BY <1>5, <1>6

\* f on 1..k - 1, taken to k.
Later(f, k, v) == [i \in 1..k |-> IF i = k THEN v ELSE f[i]]

\* f has the first ones of some sequences as one.
Flattens(f, seqs, n) == f[1] = seqs[1] /\ \A i \in 2..n : f[i] = f[i - 1] \o seqs[i]

\* FlattenSeq goes from sequence to sequence.
LEMMA FlattenFrom ==
    ASSUME NEW seqs, NEW n \in Nat \ {0}, n = Len(seqs)
    PROVE  \E f : Flattens(f, seqs, n) /\ FlattenSeq(seqs) = f[n]
  <1> DEFINE At(f, i) == IF i = 1 THEN seqs[i] ELSE f[i - 1] \o seqs[i]
             Good(f, k) == f = [i \in 1..k |-> At(f, i)]
  <1>1. PICK S : S = {k \in 1..n : \E f : Good(f, k)}
    OBVIOUS
  <1>2. \E f : Good(f, 1)
    <2>1. PICK f : f = [i \in 1..1 |-> seqs[1]]
      OBVIOUS
    <2>2. \A i \in 1..1 : At(f, i) = seqs[1]
      OBVIOUS
    <2>3. Good(f, 1)
      BY <2>1, <2>2
    <2> QED BY <2>3, Zenon
  <1>3. ASSUME NEW k \in 2..n, NEW f, Good(f, k - 1) PROVE \E g : Good(g, k)
    <2>1. PICK v : v = At(f, k)
      OBVIOUS
    <2>2. PICK g : g = Later(f, k, v)
      OBVIOUS
    <2>3. \A i \in 1..(k - 1) : f[i] = At(f, i)
      <3> HIDE DEF At
      <3> QED BY <1>3
    <2>4. g = [i \in 1..k |-> g[i]] /\ g[k] = v /\ \A i \in 1..(k - 1) : g[i] = f[i]
      BY <2>2 DEF Later
    <2>5. \A i \in 1..k : g[i] = At(g, i)
      <3> SUFFICES ASSUME NEW i \in 1..k PROVE g[i] = At(g, i)
        OBVIOUS
      <3>1. i # 1 => i - 1 \in 1..(k - 1)
        OBVIOUS
      <3>2. At(g, i) = At(f, i)
        BY <2>4, <3>1
      <3>3. CASE i = k
        BY <2>1, <2>4, <3>2, <3>3
      <3>4. CASE i # k
        <4>1. i \in 1..(k - 1)
          BY <3>4
        <4> HIDE DEF At
        <4> QED BY <2>3, <2>4, <3>2, <4>1
      <3> QED BY <3>3, <3>4
    <2>6. g = [i \in 1..k |-> At(g, i)]
      <3> HIDE DEF At
      <3> QED BY <2>4, <2>5
    <2> QED BY <2>6, Zenon
  <1>4. \E f : Good(f, n)
    <2> HIDE DEF Good
    <2>1. ASSUME NEW i \in 1..n, \A j \in 1..(i - 1) : j \in S PROVE i \in S
      <3>1. CASE i = 1
        BY <1>1, <1>2, <3>1
      <3>2. CASE i # 1
        <4>1. i \in 2..n /\ i - 1 \in 1..(i - 1)
          BY <3>2
        <4>2. i - 1 \in S
          BY <2>1, <4>1
        <4> QED BY <1>1, <1>3, <4>1, <4>2
      <3> QED BY <3>1, <3>2
    <2>2. \A i \in 1..n : i \in S
      BY ONLY <2>1, Upwards, n \in Nat \ {0}
    <2>3. n \in 1..n
      OBVIOUS
    <2> QED BY <1>1, <2>2, <2>3
  <1>5. PICK f : Good(f, n) /\ FlattenSeq(seqs) = f[n]
    <2>1. PICK f : Good(f, n)
      BY <1>4
    <2>2. \E g : g = [i \in 1..Len(seqs) |-> IF i = 1 THEN seqs[i] ELSE g[i - 1] \o seqs[i]]
      BY <2>1
    <2>3. Len(seqs) # 0
      OBVIOUS
    <2>4. PICK g : /\ g = [i \in 1..Len(seqs) |-> IF i = 1 THEN seqs[i] ELSE g[i - 1] \o seqs[i]]
                   /\ FlattenSeq(seqs) = g[Len(seqs)]
      <3> HIDE DEF Good, At
      <3> QED BY <2>2, <2>3, Zenon DEF FlattenSeq
    <2> QED BY <2>4
  <1>6. \A i \in 1..n : f[i] = At(f, i)
    <2> HIDE DEF At
    <2> QED BY <1>5
  <1>7. Flattens(f, seqs, n)
    <2>1. 1 \in 1..n /\ \A i \in 2..n : i \in 1..n /\ i # 1
      OBVIOUS
    <2> QED BY <1>6, <2>1 DEF Flattens
  <1> HIDE DEF Good
  <1> QED BY <1>5, <1>7, Zenon

\* f has the words of the lines up to each that are among some.
Adds(f, c, lines, n) ==
    /\ f[0] = <<>> /\ \A i \in 0..n : f[i] \in Seq(Words)
    /\ \A i \in 1..n : i \in lines => f[i] = f[i - 1] \o c.lines[i].words
    /\ \A i \in 1..n : i \notin lines => f[i] = f[i - 1]

\* The lines of a call.
LEMMA LinesAre ==
    ASSUME NEW c \in Call
    PROVE  Len(c.lines) \in Nat /\ \A i \in 1..Len(c.lines) : c.lines[i] \in Line /\ c.lines[i].words \in Seq(Words)
  <1>1. c.lines \in Seq(Line)
    BY DEF Call
  <1>2. PICK s : s = c.lines /\ s \in Seq(Line)
    BY <1>1
  <1>3. Len(s) \in Nat /\ \A i \in 1..Len(s) : s[i] \in Line
    BY <1>2
  <1> QED BY <1>2, <1>3 DEF Line

\* WordsOf goes from line to line.
LEMMA WordsSteps ==
    ASSUME NEW c \in Call, NEW n \in Nat, n = Len(c.lines), NEW lines
    PROVE  \E f : Adds(f, c, lines, n) /\ WordsOf(c, lines) = f[n]
  <1>1. PICK seqs : seqs = [i \in 1..Len(c.lines) |-> IF i \in lines THEN c.lines[i].words ELSE <<>>]
    OBVIOUS
  <1>2. seqs \in Seq(Seq(Words)) /\ Len(seqs) = n
    <2>1. \A i \in 1..n : (IF i \in lines THEN c.lines[i].words ELSE <<>>) \in Seq(Words)
      BY LinesAre
    <2> QED BY <1>1, <2>1
  <1>3. /\ WordsOf(c, lines) = FlattenSeq(seqs)
        /\ \A i \in 1..n : seqs[i] = IF i \in lines THEN c.lines[i].words ELSE <<>>
    BY <1>1 DEF WordsOf
  <1>4. CASE n = 0
    <2>1. FlattenSeq(seqs) = <<>>
      BY <1>2, <1>4 DEF FlattenSeq
    <2>2. PICK f : f = [i \in 0..0 |-> <<>>]
      OBVIOUS
    <2>3. f[0] = <<>> /\ <<>> \in Seq(Words)
      BY <2>2
    <2>4. Adds(f, c, lines, n)
      <3>1. \A i \in 0..n : f[i] \in Seq(Words)
        <4>1. \A i \in 0..n : i = 0
          BY <1>4
        <4> QED BY <2>3, <4>1
      <3>2. \A i \in 1..n : FALSE
        BY <1>4
      <3> QED BY <2>3, <3>1, <3>2, Zenon DEF Adds
    <2> QED BY <1>3, <1>4, <2>1, <2>3, <2>4, Zenon
  <1>5. CASE n # 0
    <2>1. PICK g : Flattens(g, seqs, n) /\ FlattenSeq(seqs) = g[n]
      BY <1>2, <1>5, FlattenFrom
    <2>2. PICK f : f = [i \in 0..n |-> IF i = 0 THEN <<>> ELSE g[i]]
      OBVIOUS
    <2>3. f[0] = <<>> /\ \A i \in 1..n : f[i] = g[i]
      BY <2>2
    <2>4. g[1] = seqs[1] /\ \A i \in 2..n : g[i] = g[i - 1] \o seqs[i]
      BY <2>1, Zenon DEF Flattens
    <2>5. PICK S : S = {i \in 1..n : g[i] \in Seq(Words)}
      OBVIOUS
    <2>6. ASSUME NEW i \in 1..n, \A j \in 1..(i - 1) : j \in S PROVE i \in S
      <3>1. CASE i = 1
        BY <1>2, <2>4, <2>5, <3>1
      <3>2. CASE i # 1
        <4>1. i \in 2..n /\ i - 1 \in 1..(i - 1)
          BY <3>2
        <4>2. PICK a, b : a = g[i - 1] /\ a \in Seq(Words) /\ b = seqs[i] /\ b \in Seq(Words)
          BY <1>2, <2>5, <2>6, <4>1
        <4>3. a \o b \in Seq(Words)
          BY <4>2
        <4> QED BY <2>4, <2>5, <4>1, <4>2, <4>3
      <3> QED BY <3>1, <3>2
    <2>7. \A i \in 1..n : g[i] \in Seq(Words)
      <3>1. \A i \in 1..n : i \in S
        BY ONLY <2>6, Upwards, n \in Nat
      <3> QED BY <2>5, <3>1
    <2>8. ASSUME NEW i \in 1..n
          PROVE  /\ i \in lines => f[i] = f[i - 1] \o c.lines[i].words
                 /\ i \notin lines => f[i] = f[i - 1]
      <3>1. PICK b : b = seqs[i] /\ b \in Seq(Words) /\ b = IF i \in lines THEN c.lines[i].words ELSE <<>>
        BY <1>2, <1>3
      <3>2. PICK a : a = f[i - 1] /\ a \in Seq(Words)
        <4>1. CASE i = 1
          <5>1. i - 1 = 0 /\ <<>> \in Seq(Words)
            BY <4>1
          <5> QED BY <2>3, <5>1
        <4>2. CASE i # 1
          <5>1. i - 1 \in 1..n
            BY <4>2
          <5> QED BY <2>3, <2>7, <5>1
        <4> QED BY <4>1, <4>2
      <3>3. f[i] = a \o b
        <4>1. CASE i = 1
          <5>1. <<>> \o b = b /\ i - 1 = 0
            BY <3>1, <4>1
          <5> QED BY <2>3, <2>4, <3>1, <3>2, <4>1, <5>1
        <4>2. CASE i # 1
          <5>1. i \in 2..n /\ i - 1 \in 1..n
            BY <4>2
          <5> QED BY <2>3, <2>4, <3>1, <3>2, <5>1
        <4> QED BY <4>1, <4>2
      <3>4. a \o <<>> = a
        BY <3>2
      <3> QED BY <3>1, <3>2, <3>3, <3>4
    <2>9. \A i \in 0..n : f[i] \in Seq(Words)
      <3> SUFFICES ASSUME NEW i \in 0..n PROVE f[i] \in Seq(Words)
        OBVIOUS
      <3>1. CASE i = 0
        <4>1. <<>> \in Seq(Words)
          OBVIOUS
        <4> QED BY <2>3, <3>1, <4>1
      <3>2. CASE i \in 1..n
        BY <2>3, <2>7, <3>2
      <3> QED BY <3>1, <3>2
    <2>10. Adds(f, c, lines, n)
      BY <2>3, <2>8, <2>9, Zenon DEF Adds
    <2>11. FlattenSeq(seqs) = f[n]
      BY <1>5, <2>1, <2>3
    <2> QED BY <1>3, <2>10, <2>11, Zenon
  <1> QED BY <1>4, <1>5

\* Behind the last of the lines, nothing is added.
LEMMA WordsStay ==
    ASSUME NEW c, NEW n \in Nat, NEW lines, NEW f, Adds(f, c, lines, n),
           NEW k \in 0..n, \A i \in (k + 1)..n : i \notin lines
    PROVE  f[n] = f[k]
  <1>1. PICK S : S = {i \in 1..n : i < k \/ f[i] = f[k]}
    OBVIOUS
  <1>2. ASSUME NEW i \in 1..n, \A j \in 1..(i - 1) : j \in S PROVE i \in S
    <2>1. CASE i <= k
      BY <1>1, <2>1
    <2>2. CASE ~(i <= k)
      <3>1. i \in (k + 1)..n /\ ~(i - 1 < k) /\ (i - 1 = k \/ i - 1 \in 1..(i - 1))
        BY <2>2
      <3>2. f[i] = f[i - 1]
        BY <3>1, Zenon DEF Adds
      <3>3. f[i - 1] = f[k]
        BY <1>1, <1>2, <3>1
      <3> QED BY <1>1, <3>2, <3>3
    <2> QED BY <2>1, <2>2
  <1>3. \A i \in 1..n : i \in S
    BY ONLY <1>2, Upwards, n \in Nat
  <1>4. n = k \/ (n \in 1..n /\ ~(n < k))
    OBVIOUS
  <1> QED BY <1>1, <1>3, <1>4

\* The words of lines are words; of none, there are none.
LEMMA WordsAre ==
    ASSUME NEW c \in Call, NEW lines
    PROVE  /\ WordsOf(c, lines) \in Seq(Words)
           /\ (\A i \in 1..Len(c.lines) : i \notin lines) => WordsOf(c, lines) = <<>>
  <1>1. PICK n \in Nat : n = Len(c.lines) /\ n \in 0..n /\ 0 \in 0..n
    BY LinesAre
  <1>2. PICK f : Adds(f, c, lines, n) /\ WordsOf(c, lines) = f[n]
    BY <1>1, WordsSteps
  <1>3. WordsOf(c, lines) \in Seq(Words)
    BY <1>1, <1>2 DEF Adds
  <1>4. ASSUME \A i \in 1..n : i \notin lines PROVE f[n] = <<>>
    <2>1. \A i \in (0 + 1)..n : i \notin lines
      BY <1>4
    <2>2. f[n] = f[0]
      BY ONLY <1>1, <1>2, <2>1, WordsStay, n \in Nat
    <2> QED BY <1>2, <2>2 DEF Adds
  <1> QED BY <1>1, <1>2, <1>3, <1>4

\* A line behind them all adds its words.
LEMMA WordsOfMore ==
    ASSUME NEW c \in Call, NEW lines, NEW k \in 1..Len(c.lines), \A i \in k..Len(c.lines) : i \notin lines
    PROVE  WordsOf(c, lines \cup {k}) = WordsOf(c, lines) \o c.lines[k].words
  <1>1. PICK n \in Nat : n = Len(c.lines)
    BY LinesAre
  <1>2. PICK f : Adds(f, c, lines, n) /\ WordsOf(c, lines) = f[n]
    BY <1>1, WordsSteps
  <1>3. PICK more : more = lines \cup {k}
    OBVIOUS
  <1>4. PICK g : Adds(g, c, more, n) /\ WordsOf(c, more) = g[n]
    BY <1>1, WordsSteps
  <1>5. k - 1 \in 0..n /\ k \in 0..n /\ k \in 1..n
    BY <1>1
  <1>f. /\ f[0] = <<>>
        /\ \A i \in 1..n : i \in lines => f[i] = f[i - 1] \o c.lines[i].words
        /\ \A i \in 1..n : i \notin lines => f[i] = f[i - 1]
    BY <1>2, Zenon DEF Adds
  <1>g. /\ g[0] = <<>>
        /\ \A i \in 1..n : i \in more => g[i] = g[i - 1] \o c.lines[i].words
        /\ \A i \in 1..n : i \notin more => g[i] = g[i - 1]
    BY <1>4, Zenon DEF Adds
  <1>6. f[n] = f[k - 1]
    <2>1. \A i \in ((k - 1) + 1)..n : i \notin lines
      BY <1>1
    <2> QED BY ONLY <1>2, <1>5, <2>1, WordsStay, n \in Nat
  <1>7. g[n] = g[k]
    <2>1. \A i \in (k + 1)..n : i \notin more
      BY <1>1, <1>3
    <2> QED BY ONLY <1>4, <1>5, <2>1, WordsStay, n \in Nat
  <1>8. g[k - 1] = f[k - 1]
    <2>1. PICK S : S = {i \in 1..n : i >= k \/ g[i] = f[i]}
      OBVIOUS
    <2>2. ASSUME NEW i \in 1..n, \A j \in 1..(i - 1) : j \in S PROVE i \in S
      <3>1. CASE i >= k
        BY <2>1, <3>1
      <3>2. CASE ~(i >= k)
        <4>1. i # k /\ (i - 1 = 0 \/ (i - 1 \in 1..(i - 1) /\ ~(i - 1 >= k)))
          BY <3>2
        <4>2. g[i - 1] = f[i - 1]
          BY <1>f, <1>g, <2>1, <2>2, <4>1
        <4>3. i \in more <=> i \in lines
          BY <1>3, <4>1
        <4>4. g[i] = f[i]
          BY <1>f, <1>g, <4>2, <4>3
        <4> QED BY <2>1, <4>4
      <3> QED BY <3>1, <3>2
    <2>3. \A i \in 1..n : i \in S
      BY ONLY <2>2, Upwards, n \in Nat
    <2>4. k - 1 = 0 \/ (k - 1 \in 1..n /\ ~(k - 1 >= k))
      BY <1>1
    <2> QED BY <1>f, <1>g, <2>1, <2>3, <2>4
  <1>9. g[k] = g[k - 1] \o c.lines[k].words
    BY <1>3, <1>5, <1>g
  <1> QED BY <1>2, <1>3, <1>4, <1>6, <1>7, <1>8, <1>9

\* Of one line, its own.
LEMMA WordsOfOne ==
    ASSUME NEW c \in Call, NEW k \in 1..Len(c.lines)
    PROVE  WordsOf(c, {k}) = c.lines[k].words
  <1>1. WordsOf(c, {} \cup {k}) = WordsOf(c, {}) \o c.lines[k].words
    BY WordsOfMore
  <1>2. WordsOf(c, {}) = <<>>
    BY WordsAre
  <1>3. PICK w : w = c.lines[k].words /\ w \in Seq(Words)
    BY LinesAre
  <1>4. <<>> \o w = w
    BY <1>3
  <1>5. {} \cup {k} = {k}
    OBVIOUS
  <1> QED BY <1>1, <1>2, <1>3, <1>4, <1>5

\* Where there are no words, no line of them has any.
LEMMA WordsOfSilent ==
    ASSUME NEW c \in Call, NEW lines, WordsOf(c, lines) = <<>>, NEW k \in 1..Len(c.lines), k \in lines
    PROVE  c.lines[k].words = <<>>
  <1> SUFFICES ASSUME c.lines[k].words # <<>> PROVE FALSE
    OBVIOUS
  <1>1. PICK n \in Nat : n = Len(c.lines) /\ n \in 1..n /\ n >= k
    BY LinesAre
  <1>2. PICK f : Adds(f, c, lines, n) /\ WordsOf(c, lines) = f[n]
    BY <1>1, WordsSteps
  <1>f. /\ \A i \in 0..n : f[i] \in Seq(Words)
        /\ \A i \in 1..n : i \in lines => f[i] = f[i - 1] \o c.lines[i].words
        /\ \A i \in 1..n : i \notin lines => f[i] = f[i - 1]
    BY <1>2, Zenon DEF Adds
  <1>3. PICK S : S = {i \in 1..n : i < k \/ f[i] # <<>>}
    OBVIOUS
  <1>4. ASSUME NEW i \in 1..n, \A j \in 1..(i - 1) : j \in S PROVE i \in S
    <2>1. CASE i < k
      BY <1>3, <2>1
    <2>2. CASE ~(i < k)
      <3>1. PICK a : a = f[i - 1] /\ a \in Seq(Words)
        <4>1. i - 1 \in 0..n
          OBVIOUS
        <4> QED BY <1>f, <4>1
      <3>2. PICK b : b = c.lines[i].words /\ b \in Seq(Words)
        BY <1>1, LinesAre
      <3>3. a # <<>> \/ b # <<>> => a \o b # <<>>
        BY <3>1, <3>2
      <3>4. CASE i = k
        <4>1. f[i] = a \o b
          BY <1>f, <3>1, <3>2, <3>4
        <4> QED BY <1>3, <3>2, <3>3, <3>4, <4>1
      <3>5. CASE i # k
        <4>1. i - 1 \in 1..(i - 1) /\ ~(i - 1 < k)
          BY <2>2, <3>5
        <4>2. a # <<>>
          BY <1>3, <1>4, <3>1, <4>1
        <4>3. f[i] = a \o b \/ f[i] = a
          BY <1>f, <3>1, <3>2
        <4> QED BY <1>3, <3>3, <4>2, <4>3
      <3> QED BY <3>4, <3>5
    <2> QED BY <2>1, <2>2
  <1>5. \A i \in 1..n : i \in S
    BY ONLY <1>4, Upwards, n \in Nat
  <1> QED BY <1>1, <1>2, <1>3, <1>5

-----------------------------------------------------------------------------
(***************************************************************************)
(* What the CLI has told, of the first lines and of all.                   *)
(***************************************************************************)

\* Some numbers up to n have a greatest.
LEMMA Greatest ==
    ASSUME NEW n \in Nat, NEW s \in SUBSET (1..n), s # {}
    PROVE  Max(s) \in s /\ \A y \in s : y <= Max(s)
  <1>1. PICK S : S = {i \in 1..n : (\E y \in s : y <= i) => \E m \in s : \A y \in s : y <= i => y <= m}
    OBVIOUS
  <1>2. ASSUME NEW i \in 1..n, \A j \in 1..(i - 1) : j \in S PROVE i \in S
    <2>1. CASE i \in s
      BY <1>1, <2>1
    <2>2. CASE i \notin s
      <3>1. \A y \in s : y <= i => y <= i - 1 /\ i - 1 \in 1..(i - 1)
        BY <2>2
      <3> QED BY <1>1, <1>2, <3>1
    <2> QED BY <2>1, <2>2
  <1>3. \A i \in 1..n : i \in S
    BY ONLY <1>2, Upwards, n \in Nat
  <1>4. n \in 1..n /\ \A y \in s : y <= n
    <2>1. PICK y \in s : y \in 1..n
      OBVIOUS
    <2>2. n \in 1..n
      BY <2>1
    <2> QED BY <2>2
  <1>5. PICK m \in s : \A y \in s : y <= m
    BY <1>1, <1>3, <1>4
  <1>6. \A y \in s : m >= y
    BY <1>5
  <1>7. PICK x : x = CHOOSE z \in s : \A y \in s : z >= y
    OBVIOUS
  <1>8. x \in s /\ \A y \in s : x >= y
    BY <1>6, <1>7
  <1>9. \A y \in s : y <= x
    BY <1>8
  <1> QED BY <1>7, <1>8, <1>9 DEF Max

\* Of the first n lines: the last whole message and the pieces after it; all pieces.
Since(c, n) == {i \in Whole(c) \cup Spoken(c, {"delta"}) : i <= n /\ \A j \in Whole(c) : j <= n => j <= i}
Pieces(c, n) == {i \in Spoken(c, {"delta"}) : i <= n}

WholeKinds(c) == {"message"} \cup IF c.runtime = "claude" THEN {"tool"} ELSE {}

\* One more line, and what is told since the last whole message.
LEMMA SinceGrows ==
    ASSUME NEW c \in Call, NEW n \in Nat, n + 1 \in 1..Len(c.lines),
           NEW w, w = c.lines[n + 1].words, NEW k, k = c.lines[n + 1].kind
    PROVE  /\ k \in WholeKinds(c) => WordsOf(c, Since(c, n + 1)) = OrElse(w, WordsOf(c, Since(c, n)))
           /\ k = "delta" => WordsOf(c, Since(c, n + 1)) = WordsOf(c, Since(c, n)) \o w
           /\ k \notin WholeKinds(c) \cup {"delta"} => WordsOf(c, Since(c, n + 1)) = WordsOf(c, Since(c, n))
  <1>1. w \in Seq(Words) /\ Len(c.lines) \in Nat
    BY LinesAre
  <1>2. PICK before : before = WordsOf(c, Since(c, n)) /\ before \in Seq(Words)
    BY WordsAre
  <1>3. Whole(c) \subseteq 1..Len(c.lines) /\ Spoken(c, {"delta"}) \subseteq 1..Len(c.lines)
    BY DEF Whole, Spoken
  <1>4. n + 1 \in Whole(c) <=> k \in WholeKinds(c) /\ w # <<>>
    BY DEF Whole, Spoken, WholeKinds
  <1>5. n + 1 \in Spoken(c, {"delta"}) <=> k = "delta" /\ w # <<>>
    BY DEF Spoken
  <1>6. "delta" \notin WholeKinds(c)
    BY DEF WholeKinds
  <1>7. CASE n + 1 \in Whole(c)
    <2>1. Since(c, n + 1) = {n + 1}
      BY <1>3, <1>7 DEF Since
    <2>2. WordsOf(c, Since(c, n + 1)) = w
      BY <2>1, WordsOfOne
    <2> QED BY <1>4, <1>6, <1>7, <2>2 DEF OrElse
  <1>8. CASE n + 1 \in Spoken(c, {"delta"})
    <2>1. n + 1 \notin Whole(c)
      BY <1>4, <1>5, <1>6, <1>8
    <2>2. Since(c, n + 1) = Since(c, n) \cup {n + 1}
      BY <1>3, <1>8, <2>1 DEF Since
    <2>3. \A i \in (n + 1)..Len(c.lines) : i \notin Since(c, n)
      BY <1>3 DEF Since
    <2>4. WordsOf(c, Since(c, n) \cup {n + 1}) = WordsOf(c, Since(c, n)) \o w
      BY <2>3, WordsOfMore
    <2> QED BY <1>5, <1>6, <1>8, <2>2, <2>4
  <1>9. CASE n + 1 \notin Whole(c) /\ n + 1 \notin Spoken(c, {"delta"})
    <2>1. Since(c, n + 1) = Since(c, n)
      BY <1>3, <1>9 DEF Since
    <2>2. before \o <<>> = before
      BY <1>2
    <2>3. k \in WholeKinds(c) \/ k = "delta" => w = <<>>
      BY <1>4, <1>5, <1>9
    <2> QED BY <1>2, <1>6, <2>1, <2>2, <2>3 DEF OrElse
  <1> QED BY <1>7, <1>8, <1>9

\* One more line, and all pieces.
LEMMA PiecesGrow ==
    ASSUME NEW c \in Call, NEW n \in Nat, n + 1 \in 1..Len(c.lines),
           NEW w, w = c.lines[n + 1].words, NEW k, k = c.lines[n + 1].kind
    PROVE  /\ k = "delta" => WordsOf(c, Pieces(c, n + 1)) = WordsOf(c, Pieces(c, n)) \o w
           /\ k # "delta" => WordsOf(c, Pieces(c, n + 1)) = WordsOf(c, Pieces(c, n))
  <1>1. Len(c.lines) \in Nat
    BY LinesAre
  <1>2. PICK before : before = WordsOf(c, Pieces(c, n)) /\ before \in Seq(Words)
    BY WordsAre
  <1>3. Spoken(c, {"delta"}) \subseteq 1..Len(c.lines) /\ (n + 1 \in Spoken(c, {"delta"}) <=> k = "delta" /\ w # <<>>)
    BY DEF Spoken
  <1>4. CASE n + 1 \in Spoken(c, {"delta"})
    <2>1. Pieces(c, n + 1) = Pieces(c, n) \cup {n + 1}
      BY <1>3, <1>4 DEF Pieces
    <2>2. \A i \in (n + 1)..Len(c.lines) : i \notin Pieces(c, n)
      BY <1>3 DEF Pieces
    <2>3. WordsOf(c, Pieces(c, n) \cup {n + 1}) = WordsOf(c, Pieces(c, n)) \o w
      BY <2>2, WordsOfMore
    <2> QED BY <1>3, <1>4, <2>1, <2>3
  <1>5. CASE n + 1 \notin Spoken(c, {"delta"})
    <2>1. Pieces(c, n + 1) = Pieces(c, n)
      BY <1>3, <1>5 DEF Pieces
    <2>2. before \o <<>> = before
      BY <1>2
    <2> QED BY <1>2, <1>3, <1>5, <2>1, <2>2
  <1> QED BY <1>4, <1>5

-----------------------------------------------------------------------------
(***************************************************************************)
(* The reader keeps, of the lines it has taken in, the text since the last *)
(* whole message and the end.  Claude and gemini end once, so what is kept at *)
(* the end stands; pi's end is followed by others, the last of which counts. *)
(***************************************************************************)

\* What the reader has gathered of the first n lines.
ReadsTo(c, n, text, final) ==
    /\ c.runtime \in {"claude", "gemini"} =>
          /\ text = WordsOf(c, Since(c, n))
          /\ (\A i \in 1..n : c.lines[i].kind # "result") => final = <<>>
          /\ \A i \in 1..n : c.lines[i].kind = "result" => final = OrElse(c.lines[i].words, text)
    /\ c.runtime = "pi" =>
          /\ text = WordsOf(c, Pieces(c, n))
          /\ (\A i \in 1..n : i \notin Spoken(c, {"message", "result"})) => final = <<>>
          /\ \A i \in 1..n :
                i \in Spoken(c, {"message", "result"}) /\ (\A j \in Spoken(c, {"message", "result"}) : j <= n => j <= i)
                  => final = c.lines[i].words
    /\ c.runtime = "codex" /\ Told(c) = <<>> => text = <<>> /\ final = <<>>

\* A line of claude or gemini, whose turn ends once.
LEMMA OneEndReads ==
    ASSUME NEW c \in Call, Orderly(c), c.runtime \in {"claude", "gemini"},
           NEW n \in Nat, n + 1 \in 1..Len(c.lines), NEW text, NEW final, ReadsTo(c, n, text, final),
           NEW w, w = c.lines[n + 1].words, NEW k, k = c.lines[n + 1].kind,
           NEW text2, NEW final2,
           k \in WholeKinds(c) => text2 = OrElse(w, text),
           k = "delta" => text2 = text \o w,
           k \notin WholeKinds(c) \cup {"delta"} => text2 = text,
           k = "result" => final2 = OrElse(OrElse(w, text), final),
           k # "result" => final2 = final
    PROVE  ReadsTo(c, n + 1, text2, final2)
  <1>1. Len(c.lines) \in Nat
    BY LinesAre
  <1>2. /\ text = WordsOf(c, Since(c, n))
        /\ (\A i \in 1..n : c.lines[i].kind # "result") => final = <<>>
        /\ \A i \in 1..n : c.lines[i].kind = "result" => final = OrElse(c.lines[i].words, text)
    BY DEF ReadsTo
  <1>3. text2 = WordsOf(c, Since(c, n + 1))
    <2>1. /\ k \in WholeKinds(c) => WordsOf(c, Since(c, n + 1)) = OrElse(w, WordsOf(c, Since(c, n)))
          /\ k = "delta" => WordsOf(c, Since(c, n + 1)) = WordsOf(c, Since(c, n)) \o w
          /\ k \notin WholeKinds(c) \cup {"delta"} => WordsOf(c, Since(c, n + 1)) = WordsOf(c, Since(c, n))
      BY SinceGrows
    <2>2. CASE k \in WholeKinds(c)
      BY <1>2, <2>1, <2>2
    <2>3. CASE k = "delta"
      BY <1>2, <2>1, <2>3
    <2>4. CASE k \notin WholeKinds(c) \cup {"delta"}
      BY <1>2, <2>1, <2>4
    <2> QED BY <2>2, <2>3, <2>4
  <1>4. ASSUME NEW i \in 1..n, c.lines[i].kind = "result" PROVE k \in {"plain", "warning", "other"}
    <2>1. i \in 1..Len(c.lines) /\ n + 1 \in 1..Len(c.lines) /\ i < n + 1
      BY <1>1
    <2>2. \A a, b \in 1..Len(c.lines) : c.lines[a].kind = "result" /\ a < b => c.lines[b].kind \in {"plain", "warning", "other"}
      BY DEF Orderly
    <2> QED BY <1>4, <2>1, <2>2
  <1>5. (\A i \in 1..(n + 1) : c.lines[i].kind # "result") => final2 = <<>>
    <2> SUFFICES ASSUME \A i \in 1..(n + 1) : c.lines[i].kind # "result" PROVE final2 = <<>>
      OBVIOUS
    <2>1. k # "result" /\ \A i \in 1..n : c.lines[i].kind # "result"
      OBVIOUS
    <2> QED BY <1>2, <2>1
  <1>6. ASSUME NEW i \in 1..(n + 1), c.lines[i].kind = "result" PROVE final2 = OrElse(c.lines[i].words, text2)
    <2>1. CASE i \in 1..n
      <3>1. k \in {"plain", "warning", "other"}
        BY <1>4, <1>6, <2>1
      <3>2. text2 = text /\ final2 = final
        BY <3>1 DEF WholeKinds
      <3> QED BY <1>2, <1>6, <2>1, <3>2
    <2>2. CASE i = n + 1
      <3>1. k = "result"
        BY <1>6, <2>2
      <3>2. \A j \in 1..n : c.lines[j].kind # "result"
        <4> SUFFICES ASSUME NEW j \in 1..n, c.lines[j].kind = "result" PROVE FALSE
          OBVIOUS
        <4> QED BY <1>4, <3>1
      <3>3. final = <<>>
        BY <1>2, <3>2
      <3>4. text2 = text
        BY <3>1 DEF WholeKinds
      <3>5. final2 = OrElse(OrElse(w, text), <<>>)
        BY <3>1, <3>3
      <3> QED BY <2>2, <3>4, <3>5 DEF OrElse
    <2> QED BY <2>1, <2>2
  <1>7. c.runtime # "pi" /\ c.runtime # "codex"
    OBVIOUS
  <1> QED BY <1>3, <1>5, <1>6, <1>7 DEF ReadsTo

\* A line of pi.
LEMMA PiReads ==
    ASSUME NEW c \in Call, c.runtime = "pi",
           NEW n \in Nat, n + 1 \in 1..Len(c.lines), NEW text, NEW final, ReadsTo(c, n, text, final),
           NEW w, w = c.lines[n + 1].words, NEW k, k = c.lines[n + 1].kind,
           NEW text2, NEW final2,
           k = "delta" => text2 = text \o w,
           k # "delta" => text2 = text,
           k \in {"message", "result"} => final2 = OrElse(w, final),
           k \notin {"message", "result"} => final2 = final
    PROVE  ReadsTo(c, n + 1, text2, final2)
  <1>1. PICK X : X = Spoken(c, {"message", "result"})
    OBVIOUS
  <1>2. /\ text = WordsOf(c, Pieces(c, n))
        /\ (\A i \in 1..n : i \notin X) => final = <<>>
        /\ \A i \in 1..n : i \in X /\ (\A j \in X : j <= n => j <= i) => final = c.lines[i].words
    BY <1>1 DEF ReadsTo
  <1>3. text2 = WordsOf(c, Pieces(c, n + 1))
    BY <1>2, PiecesGrow
  <1>4. X \subseteq 1..Len(c.lines) /\ (n + 1 \in X <=> k \in {"message", "result"} /\ w # <<>>) /\ Len(c.lines) \in Nat
    BY <1>1, LinesAre DEF Spoken
  <1>5. final2 = IF n + 1 \in X THEN w ELSE final
    BY <1>4 DEF OrElse
  <1>6. (\A i \in 1..(n + 1) : i \notin X) => final2 = <<>>
    <2> SUFFICES ASSUME \A i \in 1..(n + 1) : i \notin X PROVE final2 = <<>>
      OBVIOUS
    <2>1. n + 1 \notin X /\ \A i \in 1..n : i \notin X
      OBVIOUS
    <2> QED BY <1>2, <1>5, <2>1
  <1>7. ASSUME NEW i \in 1..(n + 1), i \in X, \A j \in X : j <= n + 1 => j <= i PROVE final2 = c.lines[i].words
    <2>1. CASE n + 1 \in X
      <3>1. i = n + 1
        BY <1>7, <2>1
      <3> QED BY <1>5, <2>1, <3>1
    <2>2. CASE n + 1 \notin X
      <3>1. i \in 1..n /\ \A j \in X : j <= n => j <= i
        BY <1>4, <1>7, <2>2
      <3> QED BY <1>2, <1>5, <1>7, <2>2, <3>1
    <2> QED BY <2>1, <2>2
  <1> QED BY <1>1, <1>3, <1>6, <1>7 DEF ReadsTo

\* What is told, with the last whole message named.
LEMMA ToldIs ==
    ASSUME NEW c \in Call, NEW N \in Nat, N = Len(c.lines)
    PROVE  /\ Spoken(c, {"result"}) # {} =>
                /\ Max(Spoken(c, {"result"})) \in Spoken(c, {"result"})
                /\ \A i \in Spoken(c, {"result"}) : i <= Max(Spoken(c, {"result"}))
                /\ Told(c) = c.lines[Max(Spoken(c, {"result"}))].words
           /\ Spoken(c, {"result"}) = {} /\ ~(\A i \in 1..N : c.lines[i].kind = "plain") => Told(c) = WordsOf(c, Since(c, N))
           /\ Spoken(c, {"result"}) = {} /\ (\A i \in 1..N : c.lines[i].kind = "plain") => Told(c) = WordsOf(c, 1..N)
  <1>1. PICK ends : ends = Spoken(c, {"result"}) /\ ends \in SUBSET (1..N)
    BY DEF Spoken
  <1>2. PICK plain \in BOOLEAN : plain = \A i \in 1..N : c.lines[i].kind = "plain"
    OBVIOUS
  <1>3. {i \in Whole(c) \cup Spoken(c, {"delta"}) : \A j \in Whole(c) : j <= i} = Since(c, N)
    <2>1. Whole(c) \subseteq 1..N /\ Spoken(c, {"delta"}) \subseteq 1..N
      BY DEF Whole, Spoken
    <2> QED BY <2>1 DEF Since
  <1>4. Told(c) = CASE ends # {} -> c.lines[Max(ends)].words
                    [] ends = {} /\ ~plain -> WordsOf(c, Since(c, N))
                    [] OTHER -> WordsOf(c, 1..N)
    BY <1>1, <1>2, <1>3 DEF Told
  <1>5. ends # {} => Max(ends) \in ends /\ \A y \in ends : y <= Max(ends)
    BY <1>1, Greatest
  <1>6. ends # {} => Told(c) = c.lines[Max(ends)].words
    BY <1>4
  <1>7. ends = {} /\ ~plain => Told(c) = WordsOf(c, Since(c, N))
    BY <1>4
  <1>8. ends = {} /\ plain => Told(c) = WordsOf(c, 1..N)
    BY <1>4
  <1> QED BY <1>1, <1>2, <1>5, <1>6, <1>7, <1>8

\* Where nothing is told, nothing was said that a reader takes.
LEMMA ToldNothing ==
    ASSUME NEW c \in Call, Told(c) = <<>>,
           NEW i \in 1..Len(c.lines), c.lines[i].kind \in {"message", "delta", "result"}
    PROVE  c.lines[i].words = <<>>
  <1>1. PICK N \in Nat : N = Len(c.lines)
    BY LinesAre
  <1>2. Spoken(c, {"result"}) = {}
    <2> SUFFICES ASSUME Spoken(c, {"result"}) # {} PROVE FALSE
      OBVIOUS
    <2>1. c.lines[Max(Spoken(c, {"result"}))].words = <<>> /\ Max(Spoken(c, {"result"})) \in Spoken(c, {"result"})
      BY <1>1, ToldIs
    <2> QED BY <2>1 DEF Spoken
  <1>3. WordsOf(c, Since(c, N)) = <<>>
    BY <1>1, <1>2, ToldIs
  <1>4. Whole(c) \in SUBSET (1..N) /\ Spoken(c, {"delta"}) \subseteq 1..N
    BY <1>1 DEF Whole, Spoken
  <1>5. Whole(c) = {}
    <2> SUFFICES ASSUME Whole(c) # {} PROVE FALSE
      OBVIOUS
    <2>1. PICK m : m = Max(Whole(c)) /\ m \in Whole(c) /\ \A y \in Whole(c) : y <= m
      BY <1>4, Greatest
    <2>2. m \in Since(c, N) /\ m \in 1..Len(c.lines)
      BY <1>1, <1>4, <2>1 DEF Since
    <2>3. c.lines[m].words = <<>>
      BY <1>3, <2>2, WordsOfSilent
    <2> QED BY <2>1, <2>3 DEF Whole, Spoken
  <1>6. ASSUME c.lines[i].words # <<>> PROVE FALSE
    <2>1. c.lines[i].kind = "delta"
      BY <1>2, <1>5, <1>6 DEF Whole, Spoken
    <2>2. i \in Since(c, N)
      BY <1>1, <1>5, <1>6, <2>1 DEF Since, Spoken
    <2> QED BY <1>3, <1>6, <2>2, WordsOfSilent
  <1> QED BY <1>6

-----------------------------------------------------------------------------
(***************************************************************************)
(* All lines taken in, what resolveProviderCliResponse picks is what the CLI *)
(* has told.                                                               *)
(***************************************************************************)

\* What is shown of a call, from what its reader has gathered of all its lines:
\* the text the turn ended with, else the text gathered, else all the output.
ShownIsTold(c, text, final) ==
    /\ final # <<>> => final = Told(c)
    /\ final = <<>> /\ text # <<>> => text = Told(c)
    /\ final = <<>> /\ text = <<>> /\ (\E i \in 1..Len(c.lines) : c.lines[i].kind # "plain") => Told(c) = <<>>

\* A text that is gathered comes of a line that is an event.
LEMMA PlainIsSilent ==
    ASSUME NEW c \in Call, \A i \in 1..Len(c.lines) : c.lines[i].kind = "plain", NEW n \in Nat
    PROVE  /\ Told(c) = WordsOf(c, 1..Len(c.lines))
           /\ WordsOf(c, Since(c, n)) = <<>> /\ WordsOf(c, Pieces(c, n)) = <<>>
           /\ Spoken(c, {"result"}) = {} /\ Spoken(c, {"message", "result"}) = {}
  <1>1. Whole(c) = {} /\ Spoken(c, {"delta"}) = {} /\ Spoken(c, {"result"}) = {} /\ Spoken(c, {"message", "result"}) = {}
    BY DEF Whole, Spoken
  <1>2. Since(c, n) = {} /\ Pieces(c, n) = {}
    BY <1>1 DEF Since, Pieces
  <1>3. WordsOf(c, {}) = <<>>
    BY WordsAre
  <1>4. Told(c) = WordsOf(c, 1..Len(c.lines))
    BY <1>1, LinesAre, ToldIs
  <1> QED BY <1>1, <1>2, <1>3, <1>4

\* Of claude and gemini.
LEMMA OneEndShown ==
    ASSUME NEW c \in Call, c.runtime \in {"claude", "gemini"}, Orderly(c),
           NEW N \in Nat, N = Len(c.lines), NEW text, NEW final, ReadsTo(c, N, text, final)
    PROVE  ShownIsTold(c, text, final)
  <1>1. /\ text = WordsOf(c, Since(c, N))
        /\ (\A i \in 1..N : c.lines[i].kind # "result") => final = <<>>
        /\ \A i \in 1..N : c.lines[i].kind = "result" => final = OrElse(c.lines[i].words, text)
    BY DEF ReadsTo
  <1>2. CASE Spoken(c, {"result"}) # {}
    <2>1. PICK m : m = Max(Spoken(c, {"result"})) /\ m \in Spoken(c, {"result"}) /\ Told(c) = c.lines[m].words
      BY <1>2, ToldIs
    <2>2. m \in 1..N /\ c.lines[m].kind = "result" /\ c.lines[m].words # <<>>
      BY <2>1 DEF Spoken
    <2>3. final = Told(c) /\ final # <<>>
      BY <1>1, <2>1, <2>2 DEF OrElse
    <2> QED BY <2>3 DEF ShownIsTold
  <1>3. CASE Spoken(c, {"result"}) = {}
    <2>1. final = <<>> \/ final = text
      <3>1. \A i \in 1..N : c.lines[i].kind = "result" => c.lines[i].words = <<>>
        BY <1>3 DEF Spoken
      <3> QED BY <1>1, <3>1 DEF OrElse
    <2>2. CASE \A i \in 1..N : c.lines[i].kind = "plain"
      <3>1. text = <<>>
        BY <1>1, <2>2, PlainIsSilent
      <3> QED BY <2>1, <2>2, <3>1 DEF ShownIsTold
    <2>3. CASE ~\A i \in 1..N : c.lines[i].kind = "plain"
      <3>1. Told(c) = text
        BY <1>1, <1>3, <2>3, ToldIs
      <3> QED BY <2>1, <3>1 DEF ShownIsTold
    <2> QED BY <2>2, <2>3
  <1> QED BY <1>2, <1>3

\* Of pi: the last of its whole messages and ends, or the pieces.
LEMMA PiShown ==
    ASSUME NEW c \in Call, c.runtime = "pi", Orderly(c),
           NEW N \in Nat, N = Len(c.lines), NEW text, NEW final, ReadsTo(c, N, text, final)
    PROVE  ShownIsTold(c, text, final)
  <1>1. PICK X : X = Spoken(c, {"message", "result"}) /\ X \in SUBSET (1..N)
    BY DEF Spoken
  <1>2. /\ text = WordsOf(c, Pieces(c, N))
        /\ (\A i \in 1..N : i \notin X) => final = <<>>
        /\ \A i \in 1..N : i \in X /\ (\A j \in X : j <= N => j <= i) => final = c.lines[i].words
    BY <1>1 DEF ReadsTo
  <1>r. PICK R : R = Spoken(c, {"result"}) /\ R \in SUBSET (1..N)
    BY DEF Spoken
  <1>w. PICK W : W = Whole(c) /\ W \in SUBSET (1..N)
    BY DEF Spoken, Whole
  <1>3. R = Spoken(c, {"result"}) /\ W = Whole(c) /\ R \in SUBSET (1..N) /\ W \in SUBSET (1..N)
    BY <1>r, <1>w
  <1>4. X = R \cup W /\ W = Spoken(c, {"message"}) /\ \A i \in X : c.lines[i].words # <<>>
    BY <1>1, <1>3 DEF Spoken, Whole
  <1>5. /\ \A i \in Spoken(c, {"delta"}) : X = {} \/ \E j \in X : i < j
        /\ \A i \in W : R = {} \/ \E j \in R : i < j
    BY <1>1, <1>3, <1>4 DEF Orderly, Followed
  <1>6. CASE R # {}
    <2>1. PICK m : m = Max(R) /\ m \in R /\ (\A i \in R : i <= m) /\ Told(c) = c.lines[m].words
      BY <1>3, <1>6, ToldIs
    <2>2. m \in 1..N /\ m \in X /\ \A j \in X : j <= m
      BY <1>1, <1>3, <1>4, <1>5, <1>6, <2>1
    <2>3. final = Told(c) /\ final # <<>>
      BY <1>2, <1>4, <2>1, <2>2
    <2> QED BY <2>3 DEF ShownIsTold
  <1>7. CASE R = {} /\ W # {}
    <2>1. PICK m : m = Max(W) /\ m \in W /\ \A i \in W : i <= m
      BY <1>3, <1>7, Greatest
    <2>2. m \in 1..N /\ m \in X /\ \A j \in X : j <= m
      BY <1>3, <1>4, <1>7, <2>1
    <2>3. Since(c, N) = {m}
      <3>1. \A i \in Spoken(c, {"delta"}) : i < m
        BY <1>1, <1>4, <1>5, <1>7, <2>1, <2>2 DEF Spoken
      <3>2. \A i \in W \cup Spoken(c, {"delta"}) : i \in Since(c, N) <=> i <= N /\ \A j \in W : j <= N => j <= i
        BY <1>3 DEF Since
      <3>3. Since(c, N) \subseteq W \cup Spoken(c, {"delta"})
        BY <1>3 DEF Since
      <3>4. Spoken(c, {"delta"}) \subseteq 1..N
        BY DEF Spoken
      <3>5. ASSUME NEW i \in Since(c, N) PROVE i = m
        <4>1. m <= i
          <5>1. i \in W \cup Spoken(c, {"delta"})
            BY <3>3, <3>5
          <5>2. \A j \in W : j <= N => j <= i
            BY <3>2, <3>5, <5>1
          <5>3. m <= N
            BY <2>2
          <5> QED BY <2>1, <5>2, <5>3
        <4>2. i \in Nat /\ i <= m
          BY <1>3, <2>1, <3>1, <3>3, <3>4, <3>5
        <4> QED BY <2>2, <4>1, <4>2
      <3>6. m \in Since(c, N)
        BY <2>1, <2>2, <3>2
      <3> QED BY <3>5, <3>6
    <2>4. WordsOf(c, Since(c, N)) = c.lines[m].words
      BY <2>2, <2>3, WordsOfOne
    <2>5. ~\A i \in 1..N : c.lines[i].kind = "plain"
      BY <1>3, <2>1, <2>2 DEF Whole, Spoken
    <2>6. Told(c) = c.lines[m].words
      BY <1>3, <1>7, <2>4, <2>5, ToldIs
    <2>7. final = Told(c) /\ final # <<>>
      BY <1>2, <1>4, <2>2, <2>6
    <2> QED BY <2>7 DEF ShownIsTold
  <1>8. CASE R = {} /\ W = {}
    <2>1. final = <<>>
      BY <1>2, <1>4, <1>8
    <2>2. Since(c, N) = Pieces(c, N)
      BY <1>3, <1>8 DEF Since, Pieces
    <2>3. CASE \A i \in 1..N : c.lines[i].kind = "plain"
      <3>1. text = <<>>
        BY <1>2, <2>3, PlainIsSilent
      <3> QED BY <2>1, <2>3, <3>1 DEF ShownIsTold
    <2>4. CASE ~\A i \in 1..N : c.lines[i].kind = "plain"
      <3>1. Told(c) = text
        BY <1>2, <1>3, <1>8, <2>2, <2>4, ToldIs
      <3> QED BY <2>1, <3>1 DEF ShownIsTold
    <2> QED BY <2>3, <2>4
  <1> QED BY <1>6, <1>7, <1>8

\* resolveProviderCliResponse on what was read of all the lines.
LEMMA AllShown ==
    ASSUME NEW c \in Call, Orderly(c), NEW N \in Nat, N = Len(c.lines),
           NEW text, NEW final, ReadsTo(c, N, text, final),
           NEW saw \in BOOLEAN, saw <=> \E i \in 1..N : c.lines[i].kind # "plain",
           NEW out, out = IF c.runtime = "codex" THEN Told(c) ELSE <<>>
    PROVE  /\ out # <<>> => out = Told(c)
           /\ out = <<>> /\ final # <<>> => final = Told(c)
           /\ out = <<>> /\ final = <<>> /\ text # <<>> => text = Told(c)
           /\ out = <<>> /\ final = <<>> /\ text = <<>> => (IF saw THEN <<>> ELSE WordsOf(c, 1..N)) = Told(c)
  <1>1. out # <<>> => out = Told(c)
    OBVIOUS
  <1>2. ~saw => Told(c) = WordsOf(c, 1..N)
    BY PlainIsSilent
  <1>3. CASE c.runtime = "codex"
    <2>1. out = <<>> => Told(c) = <<>> /\ text = <<>> /\ final = <<>>
      BY <1>3 DEF ReadsTo
    <2> QED BY <1>1, <1>2, <2>1
  <1>4. CASE c.runtime # "codex"
    <2>1. c.runtime \in {"claude", "gemini", "pi"}
      BY <1>4 DEF Call
    <2>2. ShownIsTold(c, text, final)
      BY <2>1, OneEndShown, PiShown
    <2>3. /\ final # <<>> => final = Told(c)
          /\ final = <<>> /\ text # <<>> => text = Told(c)
          /\ final = <<>> /\ text = <<>> /\ saw => Told(c) = <<>>
      BY <2>2 DEF ShownIsTold
    <2> QED BY <1>1, <1>2, <2>3
  <1> QED BY <1>3, <1>4

-----------------------------------------------------------------------------
(***************************************************************************)
(* What a line does, as the model has it, does what those lemmas ask for.  *)
(***************************************************************************)

GotKeys == {"eaten", "text", "final", "saw", "key", "owed"}

\* What a line makes of the text and the end gathered before it, by the runtime.
Takes(runtime, k, w, text, final, text2, final2) ==
    /\ runtime = "claude" =>
          /\ text2 = IF k \in {"message", "tool"} THEN OrElse(w, text) ELSE text
          /\ final2 = IF k = "result" THEN OrElse(OrElse(w, text), final) ELSE final
    /\ runtime = "gemini" =>
          /\ text2 = IF k = "delta" THEN text \o w ELSE IF k = "message" THEN OrElse(w, text) ELSE text
          /\ final2 = IF k = "result" THEN OrElse(text, final) ELSE final
    /\ runtime = "pi" =>
          /\ text2 = IF k = "delta" THEN text \o w ELSE text
          /\ final2 = IF k \in {"message", "result"} THEN OrElse(w, final) ELSE final
    /\ runtime = "codex" =>
          /\ text2 = IF k = "delta" THEN text \o w ELSE IF k = "message" THEN OrElse(w, text) ELSE text
          /\ final2 = IF k = "result" THEN OrElse(w, final) ELSE final

\* The text and the end that a line makes of those before, by its runtime.
LEMMA LineTakes ==
    ASSUME NEW g, DOMAIN g = GotKeys, NEW line, NEW h, h = Consumed(line, g), call \in Call,
           NEW k, k = line.kind, NEW w, w = line.words
    PROVE  /\ DOMAIN h = GotKeys /\ h.eaten = g.eaten + 1 /\ h.owed = g.owed /\ h.key = g.key
           /\ (k = "plain" => h.saw = g.saw) /\ (k # "plain" => h.saw = TRUE)
           /\ Takes(call.runtime, k, w, g.text, g.final, h.text, h.final)
  <1>1. PICK next : next = [g EXCEPT !.eaten = @ + 1]
    OBVIOUS
  <1>2. /\ DOMAIN next = GotKeys /\ next.eaten = g.eaten + 1 /\ next.owed = g.owed /\ next.key = g.key
        /\ next.saw = g.saw /\ next.text = g.text /\ next.final = g.final
    BY <1>1 DEF GotKeys
  <1>3. CASE k = "plain"
    <2>1. h = next
      BY <1>1, <1>3 DEF Consumed
    <2> QED BY <1>2, <1>3, <2>1 DEF Takes, Call, OrElse
  <1>4. CASE k # "plain"
    <2>1. PICK seen : seen = [next EXCEPT !.saw = TRUE]
      OBVIOUS
    <2>2. /\ DOMAIN seen = GotKeys /\ seen.eaten = g.eaten + 1 /\ seen.owed = g.owed /\ seen.key = g.key
          /\ seen.saw = TRUE /\ seen.text = g.text /\ seen.final = g.final
      BY <1>2, <2>1 DEF GotKeys
    <2>3. h = Taken(line, seen)
      BY <1>1, <1>4, <2>1 DEF Consumed
    <2>4. CASE call.runtime = "claude"
      <3>1. h = Claude(line, seen)
        BY <2>3, <2>4 DEF Taken
      <3> QED BY <1>4, <2>2, <2>4, <3>1 DEF Claude, GotKeys, Takes
    <2>5. CASE call.runtime = "gemini"
      <3>1. h = Gemini(line, seen)
        BY <2>3, <2>5 DEF Taken
      <3> QED BY <1>4, <2>2, <2>5, <3>1 DEF Gemini, GotKeys, Takes
    <2>6. CASE call.runtime = "pi"
      <3>1. h = Pi(line, seen)
        BY <2>3, <2>6 DEF Taken
      <3> QED BY <1>4, <2>2, <2>6, <3>1 DEF Pi, GotKeys, Takes
    <2>7. CASE call.runtime = "codex"
      <3>1. h = Codex(line, seen)
        BY <2>3, <2>7 DEF Taken
      <3> QED BY <1>4, <2>2, <2>7, <3>1 DEF Codex, GotKeys, Takes
    <2> QED BY <2>4, <2>5, <2>6, <2>7 DEF Call
  <1> QED BY <1>3, <1>4

\* A line taken in is one of those read.
LEMMA LineReads ==
    ASSUME call \in Call, Orderly(call), NEW g, DOMAIN g = GotKeys, NEW n \in Nat, n = g.eaten,
           n + 1 \in 1..Len(call.lines), ReadsTo(call, n, g.text, g.final),
           NEW line, line = call.lines[n + 1], NEW h, h = Consumed(line, g)
    PROVE  ReadsTo(call, n + 1, h.text, h.final)
  <1>1. PICK c : c = call
    OBVIOUS
  <1>2. PICK k : k = line.kind
    OBVIOUS
  <1>3. PICK w : w = line.words
    OBVIOUS
  <1>4. PICK text : text = g.text
    OBVIOUS
  <1>5. PICK final : final = g.final
    OBVIOUS
  <1>6. PICK text2 : text2 = h.text
    OBVIOUS
  <1>7. PICK final2 : final2 = h.final
    OBVIOUS
  <1>t. Takes(call.runtime, k, w, g.text, g.final, h.text, h.final)
    BY <1>2, <1>3, LineTakes
  <1>8. Takes(c.runtime, k, w, text, final, text2, final2)
    BY <1>1, <1>4, <1>5, <1>6, <1>7, <1>t
  <1>9. c \in Call /\ Orderly(c) /\ n + 1 \in 1..Len(c.lines) /\ ReadsTo(c, n, text, final)
    BY <1>1, <1>4, <1>5
  <1>10. w = c.lines[n + 1].words /\ k = c.lines[n + 1].kind /\ w \in Seq(Words)
    BY <1>1, <1>2, <1>3, LinesAre
  <1>11. CASE c.runtime \in {"claude", "gemini"}
    <2>1. text \in Seq(Words)
      <3>1. text = WordsOf(c, Since(c, n))
        BY <1>9, <1>11 DEF ReadsTo
      <3> QED BY <1>9, <3>1, WordsAre
    <2>2. text \o <<>> = text
      BY <2>1
    <2>3. c.runtime = "claude" /\ k = "delta" => w = <<>>
      BY <1>9, <1>10 DEF Orderly, Spoken
    <2>4. c.runtime = "gemini" /\ k = "result" => w = <<>>
      BY <1>9, <1>10 DEF Orderly, Spoken
    <2>5. WholeKinds(c) = IF c.runtime = "claude" THEN {"message", "tool"} ELSE {"message"}
      BY DEF WholeKinds
    <2>6. k \in WholeKinds(c) => text2 = OrElse(w, text)
      BY <1>8, <1>11, <2>5 DEF Takes
    <2>7. k = "delta" => text2 = text \o w
      BY <1>8, <1>11, <2>2, <2>3 DEF Takes
    <2>8. k \notin WholeKinds(c) \cup {"delta"} => text2 = text
      BY <1>8, <1>11, <2>5 DEF Takes
    <2>9. k = "result" => final2 = OrElse(OrElse(w, text), final)
      BY <1>8, <1>11, <2>4 DEF OrElse, Takes
    <2>10. k # "result" => final2 = final
      BY <1>8, <1>11 DEF Takes
    <2>11. ReadsTo(c, n + 1, text2, final2)
      <3>1. c \in Call
        BY <1>9
      <3>2. Orderly(c)
        BY <1>9
      <3>3. n + 1 \in 1..Len(c.lines)
        BY <1>9
      <3>4. ReadsTo(c, n, text, final)
        BY <1>9
      <3>5. w = c.lines[n + 1].words
        BY <1>10
      <3>6. k = c.lines[n + 1].kind
        BY <1>10
      <3> QED BY ONLY <1>11, <2>6, <2>7, <2>8, <2>9, <2>10, <3>1, <3>2, <3>3, <3>4, <3>5, <3>6, OneEndReads, n \in Nat
    <2> QED BY <1>1, <1>6, <1>7, <2>11
  <1>12. CASE c.runtime = "pi"
    <2>1. k = "delta" => text2 = text \o w
      BY <1>8, <1>12 DEF Takes
    <2>2. k # "delta" => text2 = text
      BY <1>8, <1>12 DEF Takes
    <2>3. k \in {"message", "result"} => final2 = OrElse(w, final)
      BY <1>8, <1>12 DEF Takes
    <2>4. k \notin {"message", "result"} => final2 = final
      BY <1>8, <1>12 DEF Takes
    <2>5. ReadsTo(c, n + 1, text2, final2)
      BY ONLY <1>9, <1>10, <1>12, <2>1, <2>2, <2>3, <2>4, PiReads, n \in Nat
    <2> QED BY <1>1, <1>6, <1>7, <2>5
  <1>13. CASE c.runtime = "codex"
    <2>1. ASSUME Told(c) = <<>> PROVE text2 = <<>> /\ final2 = <<>>
      <3>1. text = <<>> /\ final = <<>>
        BY <1>9, <1>13, <2>1 DEF ReadsTo
      <3>2. k \in {"message", "delta", "result"} => w = <<>>
        BY <1>9, <1>10, <2>1, ToldNothing
      <3>3. <<>> \o <<>> = <<>>
        OBVIOUS
      <3> QED BY <1>8, <1>13, <3>1, <3>2, <3>3 DEF OrElse, Takes
    <2>2. c.runtime \notin {"claude", "gemini"} /\ c.runtime # "pi"
      BY <1>13
    <2>3. ReadsTo(c, n + 1, text2, final2)
      BY <2>1, <2>2, Zenon DEF ReadsTo
    <2> QED BY <1>1, <1>6, <1>7, <2>3
  <1> QED BY <1>9, <1>11, <1>12, <1>13 DEF Call

-----------------------------------------------------------------------------
(***************************************************************************)
(* The answer: the invariant.                                              *)
(***************************************************************************)

\* The text gathered, the part of it included that waits for the edit of its progress.
Text == IF got.owed # <<>> THEN got.owed ELSE got.text

\* The reader has gathered what ReadsTo says of the lines it has taken in.
Gathering ==
    /\ call \in Calls
    /\ DOMAIN got = GotKeys
    /\ got.eaten \in Nat /\ read \in Nat /\ got.eaten <= read /\ read <= Len(call.lines)
    /\ got.owed # <<>> => status.sending
    /\ ReadsTo(call, got.eaten, Text, got.final)
    /\ got.saw \in BOOLEAN /\ (got.saw <=> \E i \in 1..got.eaten : call.lines[i].kind # "plain")

\* A child that has ended well has printed all, and codex has written what it told.
Ending ==
    /\ DOMAIN cli = {"at", "code", "pipe", "term"} /\ DOMAIN files = {"prompt", "output"}
    /\ phase = "new" => cli.at = "none" /\ cli.pipe = "none" /\ cli.code # "ok"
    /\ cli.code = "ok" => cli.at = "gone" /\ read = Len(call.lines)
    /\ call.runtime # "codex" => files.output = <<>>
    /\ call.runtime = "codex" /\ cli.code = "ok" /\ phase = "running" => files.output = Told(call)

Answering == Order /\ Gathering /\ Ending /\ AnswerIsTheLast

\* The calls tried are calls, and their streams are as the CLIs print them.
LEMMA CallIs == ASSUME call \in Calls PROVE call \in Call /\ Orderly(call) /\ Len(call.lines) \in Nat
  <1>1. call \in Call /\ Orderly(call)
    BY StreamsAssumption
  <1> QED BY <1>1, LinesAre

\* Before the first line nothing is gathered.
LEMMA ReadsNothing == ASSUME NEW c \in Call PROVE ReadsTo(c, 0, <<>>, <<>>)
  <1>1. Whole(c) \subseteq 1..Len(c.lines) /\ Spoken(c, {"delta"}) \subseteq 1..Len(c.lines) /\ Len(c.lines) \in Nat
    BY LinesAre DEF Whole, Spoken
  <1>2. Since(c, 0) = {} /\ Pieces(c, 0) = {}
    BY <1>1 DEF Since, Pieces
  <1>3. WordsOf(c, {}) = <<>>
    BY WordsAre
  <1>4. \A i \in 1..0 : FALSE
    OBVIOUS
  <1> QED BY <1>2, <1>3, <1>4 DEF ReadsTo

LEMMA AnsweringInit == Init => Answering
  <1> SUFFICES ASSUME Init PROVE Answering
    OBVIOUS
  <1>1. call \in Calls /\ call \in Call /\ Len(call.lines) \in Nat
    BY CallIs DEF Init
  <1>2. /\ DOMAIN got = GotKeys /\ got.eaten = 0 /\ got.text = <<>> /\ got.final = <<>>
        /\ got.saw = FALSE /\ got.owed = <<>> /\ read = 0
    BY DEF Init, GotKeys
  <1>3. Text = <<>>
    BY <1>2 DEF Text
  <1>4. \A i \in 1..0 : FALSE
    OBVIOUS
  <1>5. Gathering
    <2>1. ReadsTo(call, got.eaten, Text, got.final)
      BY <1>1, <1>2, <1>3, ReadsNothing
    <2>2. got.saw \in BOOLEAN /\ (got.saw <=> \E i \in 1..got.eaten : call.lines[i].kind # "plain")
      BY <1>2, <1>4
    <2> QED BY <1>1, <1>2, <2>1, <2>2 DEF Gathering
  <1>6. Ending
    BY DEF Init, Ending
  <1>7. AnswerIsTheLast
    BY DEF Init, AnswerIsTheLast, NoAnswer
  <1> QED BY <1>5, <1>6, <1>7, OrderInit DEF Answering

-----------------------------------------------------------------------------
(* The reader.                                                              *)

\* A line taken in.  The text of a message with a tool in it waits for an edit.
LEMMA ConsumeGathers ==
    ASSUME Gathering, Consume
    PROVE  Gathering'
  <1>1. call \in Calls /\ call \in Call /\ Orderly(call) /\ Len(call.lines) \in Nat
    BY CallIs DEF Gathering
  <1>2. ~status.sending /\ got.eaten < Readable /\ got.eaten \in Nat /\ read \in Nat /\ read <= Len(call.lines)
    BY DEF Consume, Available, Gathering
  <1>3. got.eaten + 1 \in 1..Len(call.lines) /\ got.eaten + 1 <= read
    <2>1. Readable = read \/ (read = Len(call.lines) /\ Readable = Len(call.lines) - 1)
      BY DEF Readable, Printed
    <2> QED BY <1>1, <1>2, <2>1
  <1>4. got.owed = <<>> /\ Text = got.text /\ DOMAIN got = GotKeys
    BY <1>2 DEF Gathering, Text
  <1>5. PICK line : line = call.lines[got.eaten + 1]
    OBVIOUS
  <1>6. PICK h : h = Consumed(line, got)
    OBVIOUS
  <1>7. /\ DOMAIN h = GotKeys /\ h.eaten = got.eaten + 1 /\ h.owed = <<>>
        /\ (line.kind = "plain" => h.saw = got.saw) /\ (line.kind # "plain" => h.saw = TRUE)
        /\ Takes(call.runtime, line.kind, line.words, got.text, got.final, h.text, h.final)
    <2>1. PICK k : k = line.kind
      OBVIOUS
    <2>2. PICK w : w = line.words
      OBVIOUS
    <2>3. PICK g : g = got
      OBVIOUS
    <2>4. DOMAIN g = GotKeys
      BY <1>4, <2>3
    <2>5. h = Consumed(line, g)
      BY <1>6, <2>3
    <2>6. call \in Call
      BY <1>1
    <2>7. DOMAIN h = GotKeys /\ h.eaten = g.eaten + 1 /\ h.owed = g.owed
      BY ONLY <2>1, <2>2, <2>4, <2>5, <2>6, LineTakes
    <2>8. (k = "plain" => h.saw = g.saw) /\ (k # "plain" => h.saw = TRUE)
      BY ONLY <2>1, <2>2, <2>4, <2>5, <2>6, LineTakes
    <2>9. Takes(call.runtime, k, w, g.text, g.final, h.text, h.final)
      BY ONLY <2>1, <2>2, <2>4, <2>5, <2>6, LineTakes
    <2> QED BY <1>4, <2>1, <2>2, <2>3, <2>7, <2>8, <2>9
  <1>8. ReadsTo(call, got.eaten + 1, h.text, h.final)
    <2>1. ReadsTo(call, got.eaten, got.text, got.final)
      BY <1>4 DEF Gathering
    <2> QED BY <1>1, <1>2, <1>3, <1>4, <1>5, <1>6, <2>1, LineReads
  <1>9. PICK key, next : next = [h EXCEPT !.key = key] /\ got' = IF status'.sending THEN StoredLater(line, next) ELSE next
    BY <1>5, <1>6 DEF Consume
  <1>10. /\ DOMAIN next = GotKeys /\ next.eaten = got.eaten + 1 /\ next.owed = <<>> /\ next.saw = h.saw
         /\ next.text = h.text /\ next.final = h.final
    BY <1>7, <1>9 DEF GotKeys
  <1>11. /\ DOMAIN got' = GotKeys /\ got'.eaten = got.eaten + 1 /\ got'.saw = h.saw /\ got'.final = h.final
         /\ got'.owed # <<>> => status'.sending
         /\ Text' = h.text
    <2>1. CASE status'.sending /\ line.kind = "tool"
      <3>1. got' = [next EXCEPT !.text = got.text, !.owed = next.text]
        BY <1>9, <2>1 DEF StoredLater
      <3>2. /\ DOMAIN got' = GotKeys /\ got'.eaten = got.eaten + 1 /\ got'.saw = h.saw /\ got'.final = h.final
            /\ got'.text = got.text /\ got'.owed = h.text
        BY <1>10, <3>1 DEF GotKeys
      <3>3. h.text = got.text \/ h.text # <<>>
        BY <1>1, <1>7, <2>1 DEF Takes, OrElse, Call
      <3> QED BY <2>1, <3>2, <3>3 DEF Text
    <2>2. CASE ~(status'.sending /\ line.kind = "tool")
      <3>1. got' = next
        BY <1>9, <2>2 DEF StoredLater
      <3> QED BY <1>10, <3>1 DEF Text
    <2> QED BY <2>1, <2>2
  <1>12. call' = call /\ read' = read
    BY DEF Consume, output
  <1>13. got'.saw \in BOOLEAN /\ (got'.saw <=> \E i \in 1..(got.eaten + 1) : call.lines[i].kind # "plain")
    <2>1. got.saw \in BOOLEAN /\ (got.saw <=> \E i \in 1..got.eaten : call.lines[i].kind # "plain")
      BY DEF Gathering
    <2>2. \A i : i \in 1..(got.eaten + 1) <=> i \in 1..got.eaten \/ i = got.eaten + 1
      BY <1>2
    <2> QED BY <1>5, <1>7, <1>11, <2>1, <2>2
  <1> QED BY <1>1, <1>2, <1>3, <1>8, <1>11, <1>12, <1>13 DEF Gathering

\* An edit has ended: the text that waited is stored.
LEMMA EditGathers ==
    ASSUME Gathering, NEW ok \in BOOLEAN, EditEnds(ok)
    PROVE  Gathering'
  <1>1. got' = [got EXCEPT !.text = Text, !.owed = <<>>] /\ call' = call /\ read' = read
    BY DEF EditEnds, output, Text
  <1>2. /\ DOMAIN got' = GotKeys /\ got'.text = Text /\ got'.owed = <<>> /\ got'.eaten = got.eaten
        /\ got'.final = got.final /\ got'.saw = got.saw
    BY <1>1 DEF Gathering, GotKeys
  <1>3. Text' = Text
    BY <1>2 DEF Text
  <1> QED BY <1>1, <1>2, <1>3 DEF Gathering

\* The steps that leave the reader alone.
LEMMA OthersGather ==
    ASSUME Gathering, UNCHANGED <<call, got>>, status'.sending = status.sending,
           read' = read \/ (read < Printed /\ read' = read + 1)
    PROVE  Gathering'
  <1>1. Text' = Text
    BY DEF Text
  <1>2. Len(call.lines) \in Nat
    BY CallIs DEF Gathering
  <1>3. read' \in Nat /\ got.eaten <= read' /\ read' <= Len(call.lines)
    BY <1>2 DEF Gathering, Printed
  <1> QED BY <1>1, <1>3 DEF Gathering

LEMMA GatheringStep == Order /\ Gathering /\ [Next]_vars => Gathering'
  <1> SUFFICES ASSUME Order, Gathering, [Next]_vars PROVE Gathering'
    OBVIOUS
  <1>1. CASE Consume
    BY <1>1, ConsumeGathers
  <1>2. ASSUME NEW ok \in BOOLEAN, EditEnds(ok) PROVE Gathering'
    BY <1>2, EditGathers
  <1>3. CASE Data
    BY <1>3, OthersGather DEF Data
  <1>4. CASE \/ Start \/ StartThrows \/ Refuse \/ SpawnFailed \/ (\E code \in {"ok", "bad"} : Exit(code)) \/ TakesSignal
             \/ HeirEnds \/ Close \/ TimeOut \/ Deliver \/ Confirm \/ UNCHANGED vars
    <2>1. UNCHANGED <<call, got, status, read>>
      BY <1>4 DEF Start, StartThrows, Refuse, SpawnFailed, Exit, TakesSignal, HeirEnds, Close, TimeOut, Deliver, Confirm, vars, output
    <2> QED BY <2>1, OthersGather
  <1>5. CASE TurnEnds \/ Stop
    <2>1. UNCHANGED <<call, got, read>> /\ status' = [status EXCEPT !.closed = TRUE]
      BY <1>5 DEF TurnEnds, Stop, output
    <2>2. status'.sending = status.sending
      BY <2>1 DEF Order, Keys
    <2> QED BY <2>1, <2>2, OthersGather
  <1> QED BY <1>1, <1>2, <1>3, <1>4, <1>5 DEF Next

CliKeys == {"at", "code", "pipe", "term"}

\* What finish may settle a call with but an answer.
LEMMA NoAnswerIsNone ==
    ASSUME Order, AnswerIsTheLast, UNCHANGED call, NEW kind, kind # "answer", Finish(NoAnswer(kind))
    PROVE  AnswerIsTheLast' /\ phase' # "running" /\ (phase' = "new" => phase = "new")
  <1>1. CASE phase = "running"
    <2>1. phase' = "settled" /\ outcome' = NoAnswer(kind)
      BY <1>1 DEF Finish
    <2>2. outcome'.kind # "answer"
      BY <2>1 DEF NoAnswer
    <2> QED BY <2>1, <2>2 DEF AnswerIsTheLast
  <1>2. CASE phase # "running"
    <2>1. phase' = phase /\ outcome' = outcome
      BY <1>2, Finished
    <2> QED BY <1>2, <2>1 DEF AnswerIsTheLast
  <1> QED BY <1>1, <1>2

\* The steps that leave the files alone.
LEMMA OthersEnd ==
    ASSUME Ending, UNCHANGED <<call, files>>, DOMAIN cli' = CliKeys,
           phase' = "new" => phase = "new" /\ cli' = cli,
           cli'.code = "ok" => cli.code = "ok" /\ cli'.at = cli.at /\ read' = read,
           phase' = "running" /\ cli'.code = "ok" => phase = "running"
    PROVE  Ending'
  BY DEF Ending, CliKeys

\* A child that is gone.
LEMMA GoneIs ==
    ASSUME Ending, NEW code, Gone(code)
    PROVE  DOMAIN cli' = CliKeys /\ cli'.at = "gone" /\ cli'.code = code
  BY DEF Gone, Ending, CliKeys

\* The answer to a child that ended well, all of whose output was taken in.
LEMMA CloseAnswers ==
    ASSUME Order, Gathering, Ending, AnswerIsTheLast, Close
    PROVE  AnswerIsTheLast'
  <1>1. call' = call /\ call \in Call /\ Orderly(call) /\ Len(call.lines) \in Nat
    BY CallIs DEF Close, Gathering
  <1>2. CASE phase # "running"
    <2>1. outcome' = outcome
      BY <1>2, Finished DEF Close
    <2> QED BY <1>1, <2>1 DEF AnswerIsTheLast
  <1>3. CASE phase = "running" /\ cli.code # "ok"
    <2>1. outcome' = NoAnswer("failure")
      BY <1>3 DEF Close, Finish
    <2>2. outcome'.kind # "answer"
      BY <2>1 DEF NoAnswer
    <2> QED BY <2>2 DEF AnswerIsTheLast
  <1>4. CASE phase = "running" /\ cli.code = "ok"
    <2>1. outcome' = [kind |-> "answer", words |-> Resolved, whole |-> got.eaten = read /\ ~status.sending]
      BY <1>4 DEF Close, Finish
    <2>2. outcome'.words = Resolved /\ outcome'.whole = (got.eaten = read /\ ~status.sending)
      BY <2>1
    <2>3. SUFFICES ASSUME got.eaten = read, ~status.sending PROVE Resolved = Told(call)
      <3>1. CASE got.eaten = read /\ ~status.sending
        BY <1>1, <2>2, <2>3, <3>1 DEF AnswerIsTheLast
      <3>2. CASE ~(got.eaten = read /\ ~status.sending)
        <4>1. outcome'.whole = FALSE
          BY <2>2, <3>2
        <4> QED BY <4>1 DEF AnswerIsTheLast
      <3> QED BY <3>1, <3>2
    <2>4. PICK N \in Nat : N = Len(call.lines)
      BY <1>1
    <2>5. got.eaten = N /\ read = N /\ Text = got.text
      BY <1>4, <2>3, <2>4 DEF Ending, Gathering, Text
    <2>6. PICK text : text = got.text
      OBVIOUS
    <2>7. PICK final : final = got.final
      OBVIOUS
    <2>8. PICK saw \in BOOLEAN : saw = got.saw /\ (saw <=> \E i \in 1..N : call.lines[i].kind # "plain")
      BY <2>5 DEF Gathering
    <2>9. PICK out : out = files.output
      OBVIOUS
    <2>10. ReadsTo(call, N, text, final)
      BY <2>5, <2>6, <2>7 DEF Gathering
    <2>11. out = IF call.runtime = "codex" THEN Told(call) ELSE <<>>
      BY <1>4, <2>9 DEF Ending
    <2>12. saw <=> \E i \in 1..N : call.lines[i].kind # "plain"
      BY <2>8
    <2>c. call \in Call
      BY <1>1
    <2>o. Orderly(call)
      BY <1>1
    <2>13. /\ out # <<>> => out = Told(call)
           /\ out = <<>> /\ final # <<>> => final = Told(call)
           /\ out = <<>> /\ final = <<>> /\ text # <<>> => text = Told(call)
           /\ out = <<>> /\ final = <<>> /\ text = <<>> => (IF saw THEN <<>> ELSE WordsOf(call, 1..N)) = Told(call)
      BY ONLY <2>c, <2>o, <2>4, <2>8, <2>10, <2>11, <2>12, AllShown
    <2>14. Resolved = CASE out # <<>> -> out
                        [] out = <<>> /\ final # <<>> -> final
                        [] out = <<>> /\ final = <<>> /\ text # <<>> -> text
                        [] OTHER -> IF saw THEN <<>> ELSE WordsOf(call, 1..N)
      BY <2>5, <2>6, <2>7, <2>8, <2>9 DEF Resolved
    <2> QED BY <2>13, <2>14
  <1> QED BY <1>2, <1>3, <1>4

\* Each step keeps what is known of the child, and the answer.
LEMMA EndingStep ==
    ASSUME Order, Gathering, Ending, AnswerIsTheLast, [Next]_vars
    PROVE  Ending' /\ AnswerIsTheLast'
  <1>a. UNCHANGED <<call, outcome>> => AnswerIsTheLast'
    BY DEF AnswerIsTheLast
  <1>d. DOMAIN cli = CliKeys
    BY DEF Ending, CliKeys
  <1>1. CASE Data
    <2>1. UNCHANGED <<call, files, cli, phase, outcome>> /\ read < Printed
      BY <1>1 DEF Data, promise
    <2>2. cli.code # "ok"
      BY <2>1 DEF Ending, Gathering, Printed
    <2> QED BY <1>a, <1>d, <2>1, <2>2, OthersEnd
  <1>2. CASE Start
    <2>1. UNCHANGED <<call, outcome, read>> /\ phase = "new" /\ phase' = "running"
      BY <1>2 DEF Start
    <2>2. DOMAIN cli' = CliKeys /\ cli'.code # "ok"
      <3>1. PICK spawned \in BOOLEAN :
              cli' = IF spawned THEN [cli EXCEPT !.at = "running", !.pipe = "open"]
                                ELSE [cli EXCEPT !.at = "gone", !.code = "bad"]
        BY <1>2 DEF Start
      <3> QED BY <1>d, <2>1, <3>1 DEF Ending, CliKeys
    <2>3. DOMAIN files' = {"prompt", "output"} /\ files'.output = files.output
      BY <1>2 DEF Start, Ending
    <2>4. Ending'
      BY <2>1, <2>2, <2>3 DEF Ending, CliKeys
    <2> QED BY <1>a, <2>1, <2>4
  <1>3. CASE Refuse
    <2>1. UNCHANGED <<call, files, cli, read>> /\ phase' = "delivered"
      BY <1>3 DEF Refuse, output
    <2>2. PICK kind \in {"stopped", "failure"} : outcome' = NoAnswer(kind)
      BY <1>3 DEF Refuse
    <2>3. outcome'.kind # "answer"
      BY <2>2 DEF NoAnswer
    <2>4. Ending'
      BY <1>d, <2>1, OthersEnd
    <2> QED BY <2>3, <2>4 DEF AnswerIsTheLast
  <1>4. ASSUME NEW code \in {"ok", "bad"}, Exit(code) PROVE Ending' /\ AnswerIsTheLast'
    <2>1. UNCHANGED <<call, phase, outcome, read>> /\ Alive /\ (code = "ok" => read = Printed)
      BY <1>4 DEF Exit, promise
    <2>2. DOMAIN cli' = CliKeys /\ cli'.at = "gone" /\ cli'.code = code
      BY <1>4, GoneIs DEF Exit
    <2>3. phase # "new"
      BY <2>1 DEF Ending, Alive
    <2>4. /\ DOMAIN files' = {"prompt", "output"}
          /\ files'.output = IF call.runtime = "codex" /\ code = "ok" THEN Told(call) ELSE files.output
      BY <1>4 DEF Exit, Ending
    <2>5. Ending'
      BY <2>1, <2>2, <2>3, <2>4 DEF Ending, CliKeys, Printed
    <2> QED BY <1>a, <2>1, <2>5
  <1>5. CASE TakesSignal
    <2>1. UNCHANGED <<call, phase, outcome, read, files>> /\ Alive
      BY <1>5 DEF TakesSignal, promise
    <2>2. DOMAIN cli' = CliKeys /\ cli'.at = "gone" /\ cli'.code = "signal"
      BY <1>5, GoneIs DEF TakesSignal
    <2>3. phase # "new"
      BY <2>1 DEF Ending, Alive
    <2> QED BY <1>a, <2>1, <2>2, <2>3, OthersEnd
  <1>6. CASE HeirEnds
    <2>1. UNCHANGED <<call, phase, outcome, read, files>> /\ phase # "new" /\ cli' = [cli EXCEPT !.pipe = "ended"]
      BY <1>6 DEF HeirEnds, promise
    <2>2. DOMAIN cli' = CliKeys /\ cli'.at = cli.at /\ cli'.code = cli.code
      BY <1>d, <2>1 DEF CliKeys
    <2> QED BY <1>a, <2>1, <2>2, OthersEnd
  <1>7. CASE SpawnFailed
    <2>1. UNCHANGED <<call, files, cli, read>> /\ phase = "running" /\ Finish(NoAnswer("failure"))
      BY <1>7 DEF SpawnFailed, output
    <2>2. AnswerIsTheLast' /\ phase' # "running" /\ (phase' = "new" => phase = "new")
      BY <2>1, NoAnswerIsNone
    <2> QED BY <1>d, <2>1, <2>2, OthersEnd
  <1>8. CASE Close
    <2>1. UNCHANGED <<call, files, read>> /\ cli' = [cli EXCEPT !.pipe = "closed"] /\ \E o : Finish(o)
      BY <1>8 DEF Close
    <2>2. DOMAIN cli' = CliKeys /\ cli'.at = cli.at /\ cli'.code = cli.code
      BY <1>d, <2>1 DEF CliKeys
    <2>3. phase' = phase \/ phase' = "settled"
      BY <2>1, Finished
    <2>4. phase # "new"
      <3>1. cli.pipe = "ended"
        BY <1>8 DEF Close
      <3> QED BY <3>1 DEF Ending
    <2>5. Ending'
      BY <2>1, <2>2, <2>3, <2>4, OthersEnd
    <2> QED BY <1>8, <2>5, CloseAnswers
  <1>9. CASE TimeOut
    <2>1. UNCHANGED <<call, files, read>> /\ phase = "running" /\ Finish(NoAnswer("timeout"))
      BY <1>9 DEF TimeOut
    <2>2. AnswerIsTheLast' /\ phase' # "running" /\ (phase' = "new" => phase = "new")
      BY <2>1, NoAnswerIsNone
    <2>3. cli' = cli \/ (DOMAIN cli' = CliKeys /\ cli'.at = "gone" /\ cli'.code = "signal")
      <3>1. cli' = cli \/ Gone("signal")
        BY <1>9 DEF TimeOut
      <3> QED BY <3>1, GoneIs
    <2> QED BY <1>d, <2>1, <2>2, <2>3, OthersEnd
  <1>10. CASE Deliver
    <2>1. UNCHANGED <<call, cli, read, outcome>> /\ phase' = "delivered" /\ files' = [prompt |-> FALSE, output |-> <<>>]
      BY <1>10 DEF Deliver
    <2>2. DOMAIN files' = {"prompt", "output"} /\ files'.output = <<>>
      BY <2>1
    <2>3. Ending'
      BY <2>1, <2>2 DEF Ending
    <2> QED BY <1>a, <2>1, <2>3
  <1>11. CASE Stop
    <2>1. /\ UNCHANGED <<call, files, read>> /\ Finish(NoAnswer("stopped"))
          /\ cli' = [cli EXCEPT !.term = phase = "running" /\ Alive]
      BY <1>11 DEF Stop
    <2>2. AnswerIsTheLast' /\ phase' # "running" /\ (phase' = "new" => phase = "new")
      BY <2>1, NoAnswerIsNone
    <2>3. DOMAIN cli' = CliKeys /\ cli'.at = cli.at /\ cli'.code = cli.code /\ cli'.pipe = cli.pipe
      BY <1>d, <2>1 DEF CliKeys
    <2>4. Ending'
      BY <2>1, <2>2, <2>3 DEF Ending, CliKeys
    <2> QED BY <2>2, <2>4
  <1>12. CASE Consume \/ (\E ok \in BOOLEAN : EditEnds(ok)) \/ TurnEnds \/ Confirm \/ UNCHANGED vars
    <2>1. UNCHANGED <<call, files, cli, phase, outcome, read>>
      BY <1>12 DEF Consume, EditEnds, TurnEnds, Confirm, vars, output, promise
    <2> QED BY <1>a, <1>d, <2>1, OthersEnd
  <1>13. CASE StartThrows
    <2>1. /\ UNCHANGED <<call, cli, read>> /\ phase' = "delivered" /\ outcome' = NoAnswer("failure")
          /\ files' = [files EXCEPT !.prompt = call.runtime = "pi"]
      BY <1>13 DEF StartThrows
    <2>2. outcome'.kind # "answer"
      BY <2>1 DEF NoAnswer
    <2>3. DOMAIN files' = {"prompt", "output"} /\ files'.output = files.output
      BY <2>1 DEF Ending
    <2>4. Ending'
      BY <2>1, <2>3 DEF Ending
    <2> QED BY <2>2, <2>4 DEF AnswerIsTheLast
  <1> QED BY <1>1, <1>2, <1>3, <1>4, <1>5, <1>6, <1>7, <1>8, <1>9, <1>10, <1>11, <1>12, <1>13 DEF Next

LEMMA AnsweringStep == Answering /\ [Next]_vars => Answering'
  BY OrderStep, GatheringStep, EndingStep DEF Answering

\* An answer is the last thing the CLI said as a whole, never an intermediate piece,
\* when the reader had taken in all of the output by the time the CLI was gone:
\* whatever the stream, in whatever order exit, edits, timer, signal and /stop come.
THEOREM AnswerIsWhatWasTold == Spec => []AnswerIsTheLast
  <1>1. Answering => AnswerIsTheLast
    BY DEF Answering
  <1> QED BY <1>1, AnsweringInit, AnsweringStep, PTL DEF Spec
=============================================================================
