----------------------- MODULE WorkflowLibraryProofs -----------------------
(***************************************************************************)
(* Theorems about WorkflowLibrary, for any processes, workflows and runs.  *)
(***************************************************************************)
EXTENDS WorkflowLibrary, SequenceTheorems, WellFoundedInduction, TLAPS

-----------------------------------------------------------------------------
(***************************************************************************)
(* Edits and the runs that are held.                                       *)
(***************************************************************************)
\* An entry of ACTIVE_RUNS as it can be.
RunEntry == [held : BOOLEAN, stale : BOOLEAN, touched : BOOLEAN]

\* The variables are well typed.
LibraryTypes ==
    /\ DOMAIN file = Workflows /\ of \in [Runs -> Workflows \cup {NoWorkflow}]
    /\ entry \in [Processes -> [Runs -> RunEntry]]
    /\ \A r \in folder \cap Runs : of[r] \in Workflows

\* A run that is held was started from a workflow.  Its process does not remove
\* that: where the file is gone, it was removed from elsewhere.
HeldHaveFiles ==
    \A p \in Processes, r \in Runs : entry[p][r].held =>
        of[r] \in Workflows /\ (~Exists(of[r]) => entry[p][r].touched)

\* The inductive invariant for EditsSpareRuns.
LibraryInv == LibraryTypes /\ HeldHaveFiles /\ EditsSpareRuns

\* The invariant holds at first.
LEMMA LibraryInit == Init => LibraryInv
  BY DEF Init, LibraryInv, LibraryTypes, HeldHaveFiles, EditsSpareRuns, NoEntry, RunEntry

\* A file is written by a process that holds no run of it, by hand, or anew.
LEMMA SavesSpare ==
    ASSUME LibraryInv, NEW by, NEW w \in Workflows, NEW content, Saves(by, w, content), UNCHANGED of,
           folder' \subseteq folder,
           \A p \in by : NoActiveRun(p, w) \/ (~Exists(w) /\ content # NoFile)
    PROVE  LibraryInv'
<1>1. ASSUME NEW p \in Processes, NEW r \in Runs
      PROVE  /\ entry[p][r] \in RunEntry /\ entry'[p][r] \in RunEntry
             /\ entry'[p][r].held = entry[p][r].held
             /\ \/ entry'[p][r] = entry[p][r] /\ ~(r \in Held(p) /\ of[r] = w /\ content # file[w])
                \/ /\ r \in Held(p) /\ of[r] = w /\ content # file[w]
                   /\ entry'[p][r].touched = (entry[p][r].touched \/ p \notin by)
  <2>1. entry[p][r] \in RunEntry
    BY DEF LibraryInv, LibraryTypes
  <2>2. CASE r \in Held(p) /\ of[r] = w /\ content # file[w]
    <3>1. entry'[p][r] = [entry[p][r] EXCEPT !.stale = TRUE, !.touched = @ \/ p \notin by]
      BY <2>2 DEF Saves
    <3>2. /\ entry'[p][r] \in RunEntry /\ entry'[p][r].held = entry[p][r].held
          /\ entry'[p][r].touched = (entry[p][r].touched \/ p \notin by)
      BY <2>1, <3>1 DEF RunEntry
    <3> QED BY <2>1, <2>2, <3>2
  <2>3. CASE ~(r \in Held(p) /\ of[r] = w /\ content # file[w])
    <3>1. entry'[p][r] = entry[p][r]
      BY <2>3 DEF Saves
    <3> QED BY <2>1, <2>3, <3>1
  <2> QED BY <2>2, <2>3
<1>2. entry' \in [Processes -> [Runs -> RunEntry]]
  <2>1. DOMAIN entry' = Processes /\ \A p \in Processes : DOMAIN entry'[p] = Runs
    BY DEF Saves
  <2>2. entry' = [p \in Processes |-> [r \in Runs |-> entry'[p][r]]]
    BY DEF Saves
  <2> QED BY <1>1, <2>2
<1>3. DOMAIN file' = Workflows /\ file'[w] = content /\ \A v \in Workflows : v # w => file'[v] = file[v]
  BY DEF Saves, LibraryInv, LibraryTypes
<1>4. LibraryTypes'
  BY <1>2, <1>3 DEF LibraryInv, LibraryTypes
<1>5. ASSUME NEW p \in Processes, NEW r \in Runs
      PROVE  /\ entry'[p][r].held => of'[r] \in Workflows /\ (~Exists(of[r])' => entry'[p][r].touched)
             /\ entry'[p][r].stale => entry'[p][r].touched
  <2>1. /\ entry[p][r].held => of[r] \in Workflows /\ (~Exists(of[r]) => entry[p][r].touched)
        /\ entry[p][r].stale => entry[p][r].touched
    BY DEF LibraryInv, HeldHaveFiles, EditsSpareRuns
  <2>2. CASE entry'[p][r] = entry[p][r] /\ ~(r \in Held(p) /\ of[r] = w /\ content # file[w])
    BY <1>3, <2>1, <2>2 DEF Held, Exists
  <2>3. CASE /\ r \in Held(p) /\ of[r] = w /\ content # file[w]
             /\ entry'[p][r].touched = (entry[p][r].touched \/ p \notin by)
    <3>1. entry'[p][r].touched
      BY <2>1, <2>3 DEF NoActiveRun, Held
    <3> QED BY <1>1, <2>1, <2>3, <3>1 DEF Held
  <2> QED BY <1>1, <2>2, <2>3
<1> QED BY <1>4, <1>5 DEF LibraryInv, HeldHaveFiles, EditsSpareRuns

\* A run that goes on has just read the file.
LEMMA BeginsSpares ==
    ASSUME LibraryInv, NEW p \in Processes, NEW r \in Runs, NEW w \in Workflows, Begins(p, r, w),
           of[r] \in {NoWorkflow, w}
    PROVE  LibraryInv'
<1>1. Fresh \in RunEntry /\ Fresh.held /\ ~Fresh.stale
  BY DEF Fresh, NoEntry, RunEntry
<1>2. /\ entry' = [entry EXCEPT ![p][r] = Fresh] /\ of' = [of EXCEPT ![r] = w] /\ UNCHANGED file /\ Exists(w)
  BY DEF Begins
<1>3. LibraryTypes'
  <2>1. folder' = folder \cup {r}
    BY DEF Begins
  <2>2. \A u \in folder' \cap Runs : of'[u] \in Workflows
    BY <1>2, <2>1 DEF LibraryInv, LibraryTypes
  <2> QED BY <1>1, <1>2, <2>2 DEF LibraryInv, LibraryTypes
<1>4. ASSUME NEW q \in Processes, NEW u \in Runs
      PROVE  \/ q = p /\ u = r /\ entry'[q][u] = Fresh
             \/ entry'[q][u] = entry[q][u]
  BY <1>2 DEF LibraryInv, LibraryTypes
<1>5. of'[r] = w /\ \A u \in Runs : u # r => of'[u] = of[u]
  BY <1>2 DEF LibraryInv, LibraryTypes
<1>6. HeldHaveFiles'
  <2> SUFFICES ASSUME NEW q \in Processes, NEW u \in Runs, entry'[q][u].held
               PROVE  of'[u] \in Workflows /\ (~Exists(of[u])' => entry'[q][u].touched)
    BY DEF HeldHaveFiles
  <2>1. CASE u = r
    BY <1>2, <1>5, <2>1 DEF Exists
  <2>2. CASE u # r
    <3>1. entry'[q][u] = entry[q][u] /\ of'[u] = of[u] /\ file' = file
      BY <1>2, <1>4, <1>5, <2>2
    <3> QED BY <3>1 DEF LibraryInv, HeldHaveFiles, Exists
  <2> QED BY <2>1, <2>2
<1>7. EditsSpareRuns'
  BY <1>1, <1>4 DEF LibraryInv, EditsSpareRuns
<1> QED BY <1>3, <1>6, <1>7 DEF LibraryInv

\* Every action keeps it.
LEMMA LibraryNext == LibraryInv /\ Next => LibraryInv'
<1> SUFFICES ASSUME LibraryInv, Next PROVE LibraryInv'
  OBVIOUS
<1>1. ASSUME NEW p \in Processes, NEW w \in Workflows, NEW c, CreateWorkflow(p, w, c) PROVE LibraryInv'
  <2>1. ~Exists(w) /\ Saves({p}, w, Rename(c, w)) /\ UNCHANGED <<of, folder>>
    BY <1>1 DEF CreateWorkflow
  <2>2. CASE Rename(c, w) # NoFile
    BY <2>1, <2>2, SavesSpare
  <2>3. CASE Rename(c, w) = NoFile
    <3>1. Rename(c, w) = file[w]
      BY <2>1, <2>3 DEF Exists
    <3>2. Saves({}, w, Rename(c, w))
      BY <2>1, <3>1 DEF Saves
    <3> QED BY <2>1, <3>2, SavesSpare
  <2> QED BY <2>2, <2>3
<1>2. ASSUME NEW p \in Processes, NEW w \in Workflows, Edit(p, w) PROVE LibraryInv'
  <2>1. ASSUME NEW c, UpdateXml(p, w, c) PROVE LibraryInv'
    <3>1. Saves({p}, w, c) /\ UNCHANGED of /\ NoActiveRun(p, w) /\ folder' \subseteq folder
      BY <2>1 DEF UpdateXml
    <3> QED BY <3>1, SavesSpare
  <2>2. ASSUME NEW v \in Workflows, DuplicateWorkflow(p, v, w) PROVE LibraryInv'
    BY <1>1, <2>2 DEF DuplicateWorkflow
  <2>3. ASSUME NEW patch, PatchMetadata(p, w, patch) PROVE LibraryInv'
    <3>1. PICK c : Saves({p}, w, c) /\ UNCHANGED of /\ NoActiveRun(p, w) /\ folder' \subseteq folder
      BY <2>3 DEF PatchMetadata
    <3> QED BY <3>1, SavesSpare
  <2>4. ASSUME NEW cascade, DeleteWorkflow(p, w, cascade) PROVE LibraryInv'
    <3>1. Saves({p}, w, NoFile) /\ UNCHANGED of /\ NoActiveRun(p, w) /\ folder' \subseteq folder
      BY <2>4 DEF DeleteWorkflow
    <3> QED BY <3>1, SavesSpare
  <2> QED BY <1>1, <1>2, <2>1, <2>2, <2>3, <2>4 DEF Edit
<1>3. ASSUME NEW p \in Processes, NEW w \in Workflows, NEW r \in Runs, StartRun(p, r, w) PROVE LibraryInv'
  BY <1>3, BeginsSpares DEF StartRun
<1>4. ASSUME NEW p \in Processes, NEW r \in Runs, ResumeRun(p, r) PROVE LibraryInv'
  <2>1. Begins(p, r, of[r])
    BY <1>4 DEF ResumeRun
  <2>2. of[r] \in Workflows
    BY <1>4 DEF ResumeRun, LibraryInv, LibraryTypes
  <2> QED BY <2>1, <2>2, BeginsSpares
<1>5. ASSUME NEW p \in Processes, NEW r \in Runs, RunWrites(p, r) PROVE LibraryInv'
  <2>1. entry[p][r].held /\ folder' = folder \cup {r} /\ UNCHANGED <<file, of, entry>>
    BY <1>5 DEF RunWrites, Held
  <2>2. of[r] \in Workflows
    BY <2>1 DEF LibraryInv, HeldHaveFiles
  <2>3. LibraryTypes'
    BY <2>1, <2>2 DEF LibraryInv, LibraryTypes
  <2> QED BY <2>1, <2>3 DEF LibraryInv, HeldHaveFiles, EditsSpareRuns, Exists
<1>6. ASSUME NEW new, new \in [Processes -> [Runs -> RunEntry]], entry' = new, UNCHANGED <<file, of, folder>>,
             \A p \in Processes, r \in Runs : new[p][r] \in {entry[p][r], NoEntry}
      PROVE  LibraryInv'
  <2>1. NoEntry.held = FALSE /\ NoEntry.stale = FALSE
    BY DEF NoEntry
  <2> QED BY <1>6, <2>1 DEF LibraryInv, LibraryTypes, HeldHaveFiles, EditsSpareRuns, Exists
<1>7. ASSUME NEW p \in Processes, NEW r \in Runs, RunEnds(p, r) PROVE LibraryInv'
  <2>1. PICK new : new = [entry EXCEPT ![p][r] = NoEntry]
    OBVIOUS
  <2>2. /\ new \in [Processes -> [Runs -> RunEntry]]
        /\ \A q \in Processes, u \in Runs : new[q][u] \in {entry[q][u], NoEntry}
    BY <2>1 DEF LibraryInv, LibraryTypes, NoEntry, RunEntry
  <2> QED BY <1>6, <1>7, <2>1, <2>2 DEF RunEnds
<1>8. ASSUME NEW p \in Processes, ProcessEnds(p) PROVE LibraryInv'
  <2>1. PICK new : new = [entry EXCEPT ![p] = [r \in Runs |-> NoEntry]]
    OBVIOUS
  <2>2. /\ new \in [Processes -> [Runs -> RunEntry]]
        /\ \A q \in Processes, u \in Runs : new[q][u] \in {entry[q][u], NoEntry}
    BY <2>1 DEF LibraryInv, LibraryTypes, NoEntry, RunEntry
  <2> QED BY <1>6, <1>8, <2>1, <2>2 DEF ProcessEnds
<1>9. ASSUME NEW w \in Workflows, NEW c, EditByHand(w, c) PROVE LibraryInv'
  <2>1. Saves({}, w, c) /\ UNCHANGED <<of, folder>>
    BY <1>9 DEF EditByHand
  <2> QED BY <2>1, SavesSpare
<1> QED BY <1>2, <1>3, <1>4, <1>5, <1>7, <1>8, <1>9 DEF Next

\* A definition is not changed under a run that its process still holds, at work
\* or paused, for any number of processes, workflows and runs, unless it was
\* changed from elsewhere: by another process or by hand.
THEOREM EditsSpareHeldRuns == Spec => []EditsSpareRuns
<1>1. LibraryInv /\ UNCHANGED vars => LibraryInv'
  BY DEF vars, LibraryInv, LibraryTypes, HeldHaveFiles, EditsSpareRuns, Exists
<1>2. LibraryInv => EditsSpareRuns
  BY DEF LibraryInv
<1> QED BY LibraryInit, LibraryNext, <1>1, <1>2, PTL DEF Spec

-----------------------------------------------------------------------------
(***************************************************************************)
(* Passes over sequences. What the code does in a loop over a list is      *)
(* proved from element to element: each pass is a function f with the      *)
(* value after i elements.                                                 *)
(***************************************************************************)

\* A set of numbers that holds 0, and with each number below n the next, holds all up to n.
LEMMA UpTo ==
    ASSUME NEW n \in Nat, NEW S, 0 \in S, \A i \in 0..n : i < n /\ i \in S => i + 1 \in S
    PROVE  \A i \in 0..n : i \in S
<1> SUFFICES ASSUME NEW k \in 0..n, k \notin S PROVE FALSE
  OBVIOUS
<1> DEFINE missing == {i \in 0..n : i \notin S}
<1>1. IsWellFoundedOn(OpToRel(<, Nat), Nat)
  BY NatLessThanWellFounded
<1>2. missing \subseteq Nat /\ k \in missing
  OBVIOUS
<1>3. PICK x \in missing : \A y \in missing : ~(<<y, x>> \in OpToRel(<, Nat))
  <2> HIDE DEF missing
  <2> QED BY <1>1, <1>2, WFMin
<1>4. \A y \in missing : ~(y < x)
  BY <1>2, <1>3 DEF OpToRel
<1>5. x \in 0..n /\ x \notin S /\ x # 0
  OBVIOUS
<1>6. x - 1 \in 0..n /\ x - 1 < n /\ x - 1 < x
  BY <1>5
<1>7. x - 1 \in S
  BY <1>4, <1>6
<1> QED BY <1>5, <1>6, <1>7

\* What holds of 0, and of each number up to n when it holds of the one before,
\* holds of n.
LEMMA Onward ==
    ASSUME NEW n \in Nat, NEW S, 0 \in S, \A i \in 1..n : i - 1 \in S => i \in S
    PROVE  n \in S
<1>1. \A i \in 0..n : i < n /\ i \in S => i + 1 \in S
  <2> SUFFICES ASSUME NEW i \in 0..n, i < n, i \in S PROVE i + 1 \in S
    OBVIOUS
  <2>1. i + 1 \in 1..n /\ (i + 1) - 1 = i
    OBVIOUS
  <2>2. (i + 1) - 1 \in S => i + 1 \in S
    BY <2>1
  <2> QED BY <2>1, <2>2
<1>2. \A i \in 0..n : i \in S
  BY <1>1, UpTo
<1> QED BY <1>2

\* A function on 0..n, taken one number further.
Longer(f, n, v) == [i \in 0..(n + 1) |-> IF i = n + 1 THEN v ELSE f[i]]

\* Its values.
LEMMA LongerIs ==
    ASSUME NEW n \in Nat, NEW f, NEW v
    PROVE  /\ Longer(f, n, v) = [i \in 0..(n + 1) |-> Longer(f, n, v)[i]]
           /\ \A i \in 0..(n + 1) :
                \/ i = n + 1 /\ i # 0 /\ Longer(f, n, v)[i] = v /\ Longer(f, n, v)[i - 1] = f[n]
                \/ /\ i \in 0..n /\ Longer(f, n, v)[i] = f[i]
                   /\ i # 0 => Longer(f, n, v)[i - 1] = f[i - 1]
  BY DEF Longer

\* Joined goes from sequence to sequence (the loops that concatenate).
LEMMA JoinedPass ==
    ASSUME NEW seq, Len(seq) \in Nat
    PROVE  \E f : /\ f[0] = <<>> /\ Joined(seq) = f[Len(seq)]
                  /\ \A i \in 1..Len(seq) : f[i] = f[i - 1] \o seq[i]
<1> DEFINE At(f, i) == IF i = 0 THEN <<>> ELSE f[i - 1] \o seq[i]
           Good(f, n) == f = [i \in 0..n |-> At(f, i)]
<1>1. PICK S : S = {n \in 0..Len(seq) : \E f : Good(f, n)}
  OBVIOUS
<1>2. \E f : Good(f, 0)
  <2>1. Good([i \in {0} |-> <<>>], 0)
    OBVIOUS
  <2> HIDE DEF Good
  <2> QED BY <2>1, Zenon
<1>3. ASSUME NEW n \in 0..Len(seq), n < Len(seq), NEW f, Good(f, n) PROVE \E g : Good(g, n + 1)
  <2>1. PICK v : v = f[n] \o seq[n + 1]
    OBVIOUS
  <2>2. PICK g : g = Longer(f, n, v)
    OBVIOUS
  <2>3. \A i \in 0..n : f[i] = At(f, i)
    <3> HIDE DEF At
    <3> QED BY <1>3
  <2> HIDE DEF Good
  <2>4. /\ g = [i \in 0..(n + 1) |-> g[i]]
        /\ \A i \in 0..(n + 1) :
             \/ i = n + 1 /\ i # 0 /\ g[i] = v /\ g[i - 1] = f[n]
             \/ i \in 0..n /\ g[i] = f[i] /\ (i # 0 => g[i - 1] = f[i - 1])
    BY <2>2, LongerIs, n \in Nat
  <2>5. \A i \in 0..(n + 1) : g[i] = At(g, i)
    BY <2>1, <2>3, <2>4
  <2>6. g = [i \in 0..(n + 1) |-> At(g, i)]
    <3> HIDE DEF At
    <3> QED BY <2>4, <2>5
  <2> QED BY <2>6, Zenon DEF Good
<1>4. 0 \in S /\ \A n \in 0..Len(seq) : n < Len(seq) /\ n \in S => n + 1 \in S
  <2> HIDE DEF Good
  <2>1. 0 \in 0..Len(seq) /\ \A n \in 0..Len(seq) : n < Len(seq) => n + 1 \in 0..Len(seq)
    OBVIOUS
  <2> QED BY <1>1, <1>2, <1>3, <2>1, Zenon
<1>5. \E f : Good(f, Len(seq))
  <2>1. \A i \in 0..Len(seq) : i \in S
    BY ONLY <1>4, UpTo, Len(seq) \in Nat
  <2>2. Len(seq) \in 0..Len(seq)
    OBVIOUS
  <2> HIDE DEF Good
  <2> QED BY <1>1, <2>1, <2>2, Zenon
<1>6. PICK f : Good(f, Len(seq)) /\ Joined(seq) = f[Len(seq)]
  BY <1>5, Zenon DEF Joined, Pass
<1>7. \A i \in 0..Len(seq) : f[i] = At(f, i)
  <2> HIDE DEF At
  <2> QED BY <1>6
<1> HIDE DEF Good
<1>8. f[0] = <<>> /\ \A i \in 1..Len(seq) : f[i] = f[i - 1] \o seq[i]
  <2>1. 0 \in 0..Len(seq) /\ \A i \in 1..Len(seq) : i \in 0..Len(seq) /\ i # 0
    OBVIOUS
  <2> QED BY <1>7, <2>1, Zenon
<1> QED BY <1>6, <1>8

\* Tagged goes from child to child (getChildren, getElementChildren).
LEMMA TaggedPass ==
    ASSUME NEW e, Len(e.kids) \in Nat, NEW tags
    PROVE  \E f : /\ f[0] = <<>> /\ Tagged(e, tags) = f[Len(e.kids)]
                  /\ \A i \in 1..Len(e.kids) : f[i] = IF e.kids[i].tag \in tags THEN Append(f[i - 1], e.kids[i]) ELSE f[i - 1]
<1> DEFINE At(f, i) == IF i = 0 THEN <<>> ELSE (IF e.kids[i].tag \in tags THEN Append(f[i - 1], e.kids[i]) ELSE f[i - 1])
           Good(f, n) == f = [i \in 0..n |-> At(f, i)]
<1>1. PICK S : S = {n \in 0..Len(e.kids) : \E f : Good(f, n)}
  OBVIOUS
<1>2. \E f : Good(f, 0)
  <2>1. Good([i \in {0} |-> <<>>], 0)
    OBVIOUS
  <2> HIDE DEF Good
  <2> QED BY <2>1, Zenon
<1>3. ASSUME NEW n \in 0..Len(e.kids), n < Len(e.kids), NEW f, Good(f, n) PROVE \E g : Good(g, n + 1)
  <2>1. PICK v : v = (IF e.kids[n + 1].tag \in tags THEN Append(f[n], e.kids[n + 1]) ELSE f[n])
    OBVIOUS
  <2>2. PICK g : g = Longer(f, n, v)
    OBVIOUS
  <2>3. \A i \in 0..n : f[i] = At(f, i)
    <3> HIDE DEF At
    <3> QED BY <1>3
  <2> HIDE DEF Good
  <2>4. /\ g = [i \in 0..(n + 1) |-> g[i]]
        /\ \A i \in 0..(n + 1) :
             \/ i = n + 1 /\ i # 0 /\ g[i] = v /\ g[i - 1] = f[n]
             \/ i \in 0..n /\ g[i] = f[i] /\ (i # 0 => g[i - 1] = f[i - 1])
    BY <2>2, LongerIs, n \in Nat
  <2>5. \A i \in 0..(n + 1) : g[i] = At(g, i)
    BY <2>1, <2>3, <2>4
  <2>6. g = [i \in 0..(n + 1) |-> At(g, i)]
    <3> HIDE DEF At
    <3> QED BY <2>4, <2>5
  <2> QED BY <2>6, Zenon DEF Good
<1>4. 0 \in S /\ \A n \in 0..Len(e.kids) : n < Len(e.kids) /\ n \in S => n + 1 \in S
  <2> HIDE DEF Good
  <2>1. 0 \in 0..Len(e.kids) /\ \A n \in 0..Len(e.kids) : n < Len(e.kids) => n + 1 \in 0..Len(e.kids)
    OBVIOUS
  <2> QED BY <1>1, <1>2, <1>3, <2>1, Zenon
<1>5. \E f : Good(f, Len(e.kids))
  <2>1. \A i \in 0..Len(e.kids) : i \in S
    BY ONLY <1>4, UpTo, Len(e.kids) \in Nat
  <2>2. Len(e.kids) \in 0..Len(e.kids)
    OBVIOUS
  <2> HIDE DEF Good
  <2> QED BY <1>1, <2>1, <2>2, Zenon
<1>6. PICK f : Good(f, Len(e.kids)) /\ Tagged(e, tags) = f[Len(e.kids)]
  BY <1>5, Zenon DEF Tagged
<1>7. \A i \in 0..Len(e.kids) : f[i] = At(f, i)
  <2> HIDE DEF At
  <2> QED BY <1>6
<1> HIDE DEF Good
<1>8. f[0] = <<>> /\ \A i \in 1..Len(e.kids) : f[i] = IF e.kids[i].tag \in tags THEN Append(f[i - 1], e.kids[i]) ELSE f[i - 1]
  BY <1>7
<1> QED BY <1>6, <1>8

\* The state of the reader after some tokens.
Reads(s, xml) == Pass(ReadToken, s, xml)

\* It goes from token to token (parseXml).
LEMMA ReadsPass ==
    ASSUME NEW d, NEW xml, Len(xml) \in Nat
    PROVE  \E f : /\ f[0] = d /\ Reads(d, xml) = f[Len(xml)]
                  /\ \A i \in 1..Len(xml) : f[i] = ReadToken(f[i - 1], xml[i])
<1> DEFINE At(f, i) == IF i = 0 THEN d ELSE ReadToken(f[i - 1], xml[i])
           Good(f, n) == f = [i \in 0..n |-> At(f, i)]
<1>1. PICK S : S = {n \in 0..Len(xml) : \E f : Good(f, n)}
  OBVIOUS
<1>2. \E f : Good(f, 0)
  <2>1. Good([i \in {0} |-> d], 0)
    OBVIOUS
  <2> HIDE DEF Good
  <2> QED BY <2>1, Zenon
<1>3. ASSUME NEW n \in 0..Len(xml), n < Len(xml), NEW f, Good(f, n) PROVE \E g : Good(g, n + 1)
  <2>1. PICK v : v = ReadToken(f[n], xml[n + 1])
    OBVIOUS
  <2>2. PICK g : g = Longer(f, n, v)
    OBVIOUS
  <2>3. \A i \in 0..n : f[i] = At(f, i)
    <3> HIDE DEF At
    <3> QED BY <1>3
  <2> HIDE DEF Good
  <2>4. /\ g = [i \in 0..(n + 1) |-> g[i]]
        /\ \A i \in 0..(n + 1) :
             \/ i = n + 1 /\ i # 0 /\ g[i] = v /\ g[i - 1] = f[n]
             \/ i \in 0..n /\ g[i] = f[i] /\ (i # 0 => g[i - 1] = f[i - 1])
    BY <2>2, LongerIs, n \in Nat
  <2>5. \A i \in 0..(n + 1) : g[i] = At(g, i)
    BY <2>1, <2>3, <2>4
  <2>6. g = [i \in 0..(n + 1) |-> At(g, i)]
    <3> HIDE DEF At
    <3> QED BY <2>4, <2>5
  <2> QED BY <2>6, Zenon DEF Good
<1>4. 0 \in S /\ \A n \in 0..Len(xml) : n < Len(xml) /\ n \in S => n + 1 \in S
  <2> HIDE DEF Good
  <2>1. 0 \in 0..Len(xml) /\ \A n \in 0..Len(xml) : n < Len(xml) => n + 1 \in 0..Len(xml)
    OBVIOUS
  <2> QED BY <1>1, <1>2, <1>3, <2>1, Zenon
<1>5. \E f : Good(f, Len(xml))
  <2>1. \A i \in 0..Len(xml) : i \in S
    BY ONLY <1>4, UpTo, Len(xml) \in Nat
  <2>2. Len(xml) \in 0..Len(xml)
    OBVIOUS
  <2> HIDE DEF Good
  <2> QED BY <1>1, <2>1, <2>2, Zenon
<1>6. PICK f : Good(f, Len(xml)) /\ Reads(d, xml) = f[Len(xml)]
  BY <1>5, Zenon DEF Reads, Pass
<1>7. \A i \in 0..Len(xml) : f[i] = At(f, i)
  <2> HIDE DEF At
  <2> QED BY <1>6
<1> HIDE DEF Good
<1>8. f[0] = d /\ \A i \in 1..Len(xml) : f[i] = ReadToken(f[i - 1], xml[i])
  BY <1>7
<1> QED BY <1>6, <1>8

\* The reader from the start of a file.
LEMMA ReadXmlIs ==
    ASSUME NEW xml, NEW s, s = [open |-> <<>>, root |-> <<>>, bad |-> FALSE]
    PROVE  ReadXml(xml) = Reads(s, xml)
  BY DEF ReadXml, Reads, Pass

\* AddSteps goes from child to child of a loop (parseLoop).
LEMMA StepsPass ==
    ASSUME NEW seq, Len(seq) \in Nat, NEW def, NEW id
    PROVE  \E f : /\ f[0] = def /\ AddSteps(def, seq, id) = f[Len(seq)]
                  /\ \A i \in 1..Len(seq) : f[i] = AddStep(f[i - 1], seq[i], id)
<1> DEFINE At(f, i) == IF i = 0 THEN def ELSE AddStep(f[i - 1], seq[i], id)
           Good(f, n) == f = [i \in 0..n |-> At(f, i)]
<1>1. PICK S : S = {n \in 0..Len(seq) : \E f : Good(f, n)}
  OBVIOUS
<1>2. \E f : Good(f, 0)
  <2>1. Good([i \in {0} |-> def], 0)
    OBVIOUS
  <2> HIDE DEF Good
  <2> QED BY <2>1, Zenon
<1>3. ASSUME NEW n \in 0..Len(seq), n < Len(seq), NEW f, Good(f, n) PROVE \E g : Good(g, n + 1)
  <2>1. PICK v : v = AddStep(f[n], seq[n + 1], id)
    OBVIOUS
  <2>2. PICK g : g = Longer(f, n, v)
    OBVIOUS
  <2>3. \A i \in 0..n : f[i] = At(f, i)
    <3> HIDE DEF At
    <3> QED BY <1>3
  <2> HIDE DEF Good
  <2>4. /\ g = [i \in 0..(n + 1) |-> g[i]]
        /\ \A i \in 0..(n + 1) :
             \/ i = n + 1 /\ i # 0 /\ g[i] = v /\ g[i - 1] = f[n]
             \/ i \in 0..n /\ g[i] = f[i] /\ (i # 0 => g[i - 1] = f[i - 1])
    BY <2>2, LongerIs, n \in Nat
  <2>5. \A i \in 0..(n + 1) : g[i] = At(g, i)
    BY <2>1, <2>3, <2>4
  <2>6. g = [i \in 0..(n + 1) |-> At(g, i)]
    <3> HIDE DEF At
    <3> QED BY <2>4, <2>5
  <2> QED BY <2>6, Zenon DEF Good
<1>4. 0 \in S /\ \A n \in 0..Len(seq) : n < Len(seq) /\ n \in S => n + 1 \in S
  <2> HIDE DEF Good
  <2>1. 0 \in 0..Len(seq) /\ \A n \in 0..Len(seq) : n < Len(seq) => n + 1 \in 0..Len(seq)
    OBVIOUS
  <2> QED BY <1>1, <1>2, <1>3, <2>1, Zenon
<1>5. \E f : Good(f, Len(seq))
  <2>1. \A i \in 0..Len(seq) : i \in S
    BY ONLY <1>4, UpTo, Len(seq) \in Nat
  <2>2. Len(seq) \in 0..Len(seq)
    OBVIOUS
  <2> HIDE DEF Good
  <2> QED BY <1>1, <2>1, <2>2, Zenon
<1>6. PICK f : Good(f, Len(seq)) /\ AddSteps(def, seq, id) = f[Len(seq)]
  BY <1>5, Zenon DEF AddSteps, Pass
<1>7. \A i \in 0..Len(seq) : f[i] = At(f, i)
  <2> HIDE DEF At
  <2> QED BY <1>6
<1> HIDE DEF Good
<1>8. f[0] = def /\ \A i \in 1..Len(seq) : f[i] = AddStep(f[i - 1], seq[i], id)
  BY <1>7
<1> QED BY <1>6, <1>8

\* AddChildren goes from child to child of the root (parseAndValidateWorkflow).
LEMMA ChildrenPass ==
    ASSUME NEW seq, Len(seq) \in Nat, NEW def
    PROVE  \E f : /\ f[0] = def /\ AddChildren(def, seq) = f[Len(seq)]
                  /\ \A i \in 1..Len(seq) : f[i] = AddChild(f[i - 1], seq[i])
<1> DEFINE At(f, i) == IF i = 0 THEN def ELSE AddChild(f[i - 1], seq[i])
           Good(f, n) == f = [i \in 0..n |-> At(f, i)]
<1>1. PICK S : S = {n \in 0..Len(seq) : \E f : Good(f, n)}
  OBVIOUS
<1>2. \E f : Good(f, 0)
  <2>1. Good([i \in {0} |-> def], 0)
    OBVIOUS
  <2> HIDE DEF Good
  <2> QED BY <2>1, Zenon
<1>3. ASSUME NEW n \in 0..Len(seq), n < Len(seq), NEW f, Good(f, n) PROVE \E g : Good(g, n + 1)
  <2>1. PICK v : v = AddChild(f[n], seq[n + 1])
    OBVIOUS
  <2>2. PICK g : g = Longer(f, n, v)
    OBVIOUS
  <2>3. \A i \in 0..n : f[i] = At(f, i)
    <3> HIDE DEF At
    <3> QED BY <1>3
  <2> HIDE DEF Good
  <2>4. /\ g = [i \in 0..(n + 1) |-> g[i]]
        /\ \A i \in 0..(n + 1) :
             \/ i = n + 1 /\ i # 0 /\ g[i] = v /\ g[i - 1] = f[n]
             \/ i \in 0..n /\ g[i] = f[i] /\ (i # 0 => g[i - 1] = f[i - 1])
    BY <2>2, LongerIs, n \in Nat
  <2>5. \A i \in 0..(n + 1) : g[i] = At(g, i)
    BY <2>1, <2>3, <2>4
  <2>6. g = [i \in 0..(n + 1) |-> At(g, i)]
    <3> HIDE DEF At
    <3> QED BY <2>4, <2>5
  <2> QED BY <2>6, Zenon DEF Good
<1>4. 0 \in S /\ \A n \in 0..Len(seq) : n < Len(seq) /\ n \in S => n + 1 \in S
  <2> HIDE DEF Good
  <2>1. 0 \in 0..Len(seq) /\ \A n \in 0..Len(seq) : n < Len(seq) => n + 1 \in 0..Len(seq)
    OBVIOUS
  <2> QED BY <1>1, <1>2, <1>3, <2>1, Zenon
<1>5. \E f : Good(f, Len(seq))
  <2>1. \A i \in 0..Len(seq) : i \in S
    BY ONLY <1>4, UpTo, Len(seq) \in Nat
  <2>2. Len(seq) \in 0..Len(seq)
    OBVIOUS
  <2> HIDE DEF Good
  <2> QED BY <1>1, <2>1, <2>2, Zenon
<1>6. PICK f : Good(f, Len(seq)) /\ AddChildren(def, seq) = f[Len(seq)]
  BY <1>5, Zenon DEF AddChildren, Pass
<1>7. \A i \in 0..Len(seq) : f[i] = At(f, i)
  <2> HIDE DEF At
  <2> QED BY <1>6
<1> HIDE DEF Good
<1>8. f[0] = def /\ \A i \in 1..Len(seq) : f[i] = AddChild(f[i - 1], seq[i])
  BY <1>7
<1> QED BY <1>6, <1>8

-----------------------------------------------------------------------------
(***************************************************************************)
(* Sequences of whatever they hold.                                        *)
(***************************************************************************)

\* A sequence, of whatever it holds.
IsSequence(s) == s \in Seq(ToSet(s))

\* A sequence over any set is one.
LEMMA Sequences ==
    ASSUME NEW S, NEW s \in Seq(S)
    PROVE  IsSequence(s)
<1>1. Len(s) \in Nat /\ DOMAIN s = 1..Len(s) /\ s = [i \in 1..Len(s) |-> s[i]]
  OBVIOUS
<1>2. \A i \in 1..Len(s) : s[i] \in ToSet(s)
  BY <1>1 DEF ToSet
<1>3. s \in [1..Len(s) -> ToSet(s)]
  BY <1>1, <1>2
<1> QED BY <1>1, <1>3, SeqDef DEF IsSequence

\* What a sequence is made of.
LEMMA SequenceIs ==
    ASSUME NEW s, IsSequence(s)
    PROVE  /\ Len(s) \in Nat /\ DOMAIN s = 1..Len(s)
           /\ s = [i \in 1..Len(s) |-> s[i]]
           /\ ToSet(s) = {s[i] : i \in 1..Len(s)}
           /\ s = <<>> <=> Len(s) = 0
  BY DEF IsSequence, ToSet

\* The shortest sequences.
LEMMA Tuples == 
    ASSUME NEW x
    PROVE  IsSequence(<<>>) /\ IsSequence(<<x>>) /\ Len(<<x>>) = 1 /\ Len(<<>>) = 0
<1>1. <<>> \in Seq({}) /\ <<x>> \in Seq({x})
  OBVIOUS
<1> QED BY <1>1, Sequences

\* The empty sequence.
LEMMA NoSequence == IsSequence(<<>>) /\ ToSet(<<>>) = {} /\ Len(<<>>) = 0
<1>1. <<>> \in Seq({})
  OBVIOUS
<1>2. ToSet(<<>>) = {}
  BY DEF ToSet
<1> QED BY <1>1, <1>2, Sequences

\* One element of a sequence is replaced.
LEMMA Replaced ==
    ASSUME NEW s, IsSequence(s), NEW i \in 1..Len(s), NEW x
    PROVE  /\ IsSequence([s EXCEPT ![i] = x])
           /\ ToSet([s EXCEPT ![i] = x]) \subseteq ToSet(s) \cup {x}
<1> DEFINE S == ToSet(s) \cup {x}
           r == [s EXCEPT ![i] = x]
<1>1. s \in Seq(ToSet(s)) /\ ToSet(s) \subseteq S /\ x \in S
  BY DEF IsSequence
<1>2. r \in Seq(S)
  <2> HIDE DEF S
  <2>1. s \in Seq(S)
    BY <1>1, SeqMonotonic
  <2> QED BY <1>1, <2>1, ExceptSeq
<1>3. IsSequence(r) /\ \A j \in DOMAIN r : r[j] \in S
  <2> HIDE DEF S, r
  <2>1. \A j \in DOMAIN r : r[j] \in S
    BY <1>2, ElementOfSeq, LenProperties
  <2> QED BY <1>2, <2>1, Sequences
<1> QED BY <1>3 DEF ToSet

\* A sequence without its last element, and that element.
LEMMA FrontIs ==
    ASSUME NEW s, IsSequence(s), s # <<>>
    PROVE  IsSequence(Front(s)) /\ ToSet(Front(s)) \subseteq ToSet(s) /\ Last(s) \in ToSet(s)
<1>1. s \in Seq(ToSet(s)) /\ Len(s) \in Nat \ {0} /\ Len(s) \in DOMAIN s
  BY SequenceIs DEF IsSequence
<1>2. Front(s) \in Seq(ToSet(s))
  BY <1>1, SubSeqProperties DEF Front
<1>3. IsSequence(Front(s)) /\ \A j \in DOMAIN Front(s) : Front(s)[j] \in ToSet(s)
  BY <1>2, ElementOfSeq, LenProperties, Sequences
<1> QED BY <1>1, <1>3 DEF ToSet, Last

\* A function on 1..n is a sequence.
LEMMA Mapped ==
    ASSUME NEW n \in Nat, NEW f, f = [i \in 1..n |-> f[i]]
    PROVE  IsSequence(f) /\ Len(f) = n
<1>1. f \in [1..n -> {f[i] : i \in 1..n}]
  OBVIOUS
<1>2. f \in Seq({f[i] : i \in 1..n})
  BY <1>1, SeqDef
<1>3. Len(f) = n
  BY <1>2
<1> QED BY <1>2, <1>3, Sequences

\* A function on the domain of a sequence is a sequence as long.
LEMMA MappedOver ==
    ASSUME NEW s, IsSequence(s), NEW f, f = [i \in DOMAIN s |-> f[i]]
    PROVE  IsSequence(f) /\ Len(f) = Len(s)
<1>1. Len(s) \in Nat /\ DOMAIN s = 1..Len(s)
  BY SequenceIs
<1> QED BY <1>1, Mapped

\* A sequence with one more element.
LEMMA Appended ==
    ASSUME NEW s, IsSequence(s), NEW x
    PROVE  /\ IsSequence(Append(s, x)) /\ Len(Append(s, x)) = Len(s) + 1
           /\ \A i \in 1..Len(s) : Append(s, x)[i] = s[i]
           /\ Append(s, x)[Len(s) + 1] = x
           /\ ToSet(Append(s, x)) = ToSet(s) \cup {x}
<1> DEFINE S == ToSet(s) \cup {x}
<1>1. s \in Seq(S) /\ x \in S
  <2>1. s \in Seq(ToSet(s)) /\ ToSet(s) \subseteq S
    BY DEF IsSequence
  <2> HIDE DEF S
  <2>2. s \in Seq(S)
    BY <2>1, SeqMonotonic
  <2> QED BY <2>2 DEF S
<1>2. /\ Append(s, x) \in Seq(S) /\ Len(Append(s, x)) = Len(s) + 1
      /\ \A i \in 1..Len(s) : Append(s, x)[i] = s[i]
      /\ Append(s, x)[Len(s) + 1] = x
  <2> HIDE DEF S
  <2> QED BY <1>1
<1>3. IsSequence(Append(s, x))
  <2> HIDE DEF S
  <2> QED BY <1>2, Sequences
<1>4. ToSet(Append(s, x)) = S
  <2>1. ToSet(Append(s, x)) = {Append(s, x)[i] : i \in 1..(Len(s) + 1)} /\ ToSet(s) = {s[i] : i \in 1..Len(s)}
    BY <1>2, <1>3, SequenceIs
  <2>2. Len(s) \in Nat
    BY SequenceIs
  <2> QED BY <1>2, <2>1, <2>2
<1> QED BY <1>2, <1>3, <1>4

\* Two sequences, one after the other.
LEMMA Concatenated ==
    ASSUME NEW s, IsSequence(s), NEW t, IsSequence(t)
    PROVE  IsSequence(s \o t)
<1>1. s \in Seq(ToSet(s) \cup ToSet(t)) /\ t \in Seq(ToSet(s) \cup ToSet(t))
  <2>1. s \in Seq(ToSet(s)) /\ t \in Seq(ToSet(t)) /\ ToSet(s) \subseteq ToSet(s) \cup ToSet(t)
        /\ ToSet(t) \subseteq ToSet(s) \cup ToSet(t)
    BY DEF IsSequence
  <2> QED BY <2>1, SeqMonotonic
<1>2. s \o t \in Seq(ToSet(s) \cup ToSet(t))
  BY <1>1, ConcatProperties
<1> QED BY <1>2, Sequences

\* The children with some tags are among the children.
LEMMA TaggedIs ==
    ASSUME NEW e, IsSequence(e.kids), NEW tags
    PROVE  IsSequence(Tagged(e, tags)) /\ ToSet(Tagged(e, tags)) \subseteq ToSet(e.kids)
<1>1. PICK n \in Nat : n = Len(e.kids) /\ \A i \in 1..n : e.kids[i] \in ToSet(e.kids)
  BY SequenceIs
<1>2. PICK f : /\ f[0] = <<>> /\ Tagged(e, tags) = f[n]
               /\ \A i \in 1..n : f[i] = IF e.kids[i].tag \in tags THEN Append(f[i - 1], e.kids[i]) ELSE f[i - 1]
  BY <1>1, TaggedPass
<1> DEFINE Good(s) == IsSequence(s) /\ ToSet(s) \subseteq ToSet(e.kids)
<1>3. Good(<<>>)
  <2>1. ToSet(<<>>) = {}
    BY DEF ToSet
  <2> QED BY <2>1, Tuples
<1>4. ASSUME NEW i \in 1..n, Good(f[i - 1]) PROVE Good(f[i])
  <2>1. PICK s, x : s = f[i - 1] /\ x = e.kids[i]
    OBVIOUS
  <2>2. Good(Append(s, x))
    BY <1>1, <1>4, <2>1, Appended
  <2> HIDE DEF Good
  <2> QED BY <1>2, <1>4, <2>1, <2>2
<1>5. PICK S : S = {i \in 0..n : Good(f[i])}
  OBVIOUS
<1> HIDE DEF Good
<1>6. n \in S
  <2>1. 0 \in S /\ \A i \in 1..n : i - 1 \in S => i \in S
    BY <1>2, <1>3, <1>4, <1>5
  <2> QED BY ONLY <2>1, Onward, n \in Nat
<1> QED BY <1>2, <1>5, <1>6 DEF Good

-----------------------------------------------------------------------------
(***************************************************************************)
(* Texts (xml.ts, serializer.ts).                                          *)
(***************************************************************************)

\* A text without entities, as the reader leaves texts.
Plain(words) == IsSequence(words) /\ \A c \in DOMAIN Entity : Entity[c] \notin ToSet(words)

\* The reserved characters and their entities differ.
LEMMA EntityIs ==
    /\ DOMAIN Entity = {"&", "<", ">"}
    /\ Entity["&"] = "&amp;" /\ Entity["<"] = "&lt;" /\ Entity[">"] = "&gt;"
  BY DEF Entity

\* readEntity leaves no entity.
LEMMA UnescapedIs ==
    ASSUME NEW words, IsSequence(words)
    PROVE  Plain(Unescape(words))
<1>1. PICK n \in Nat : n = Len(words) /\ DOMAIN words = 1..n
  BY SequenceIs
<1>2. PICK r : r = Unescape(words)
  OBVIOUS
<1>3. IsSequence(r) /\ Len(r) = n
  <2>1. r = [i \in 1..n |-> r[i]]
    BY <1>1, <1>2 DEF Unescape
  <2> QED BY <2>1, Mapped
<1>4. ASSUME NEW i \in 1..n, NEW c \in DOMAIN Entity PROVE r[i] # Entity[c]
  <2>1. PICK known : known = {w \in DOMAIN Entity : Entity[w] = words[i]}
    OBVIOUS
  <2>2. r[i] = IF known = {} THEN words[i] ELSE CHOOSE w \in known : TRUE
    BY <1>1, <1>2, <2>1 DEF Unescape
  <2>3. CASE known = {}
    BY <2>1, <2>2, <2>3
  <2>4. CASE known # {}
    <3>1. r[i] \in known
      BY <2>2, <2>4
    <3> QED BY <2>1, <3>1, EntityIs
  <2> QED BY <2>3, <2>4
<1>5. ToSet(r) = {r[i] : i \in 1..n}
  BY <1>3, SequenceIs
<1> QED BY <1>2, <1>3, <1>4, <1>5 DEF Plain

\* A text that is escaped is read as it was.
LEMMA EscapedIs ==
    ASSUME NEW words, Plain(words)
    PROVE  IsSequence(Escape(words)) /\ Unescape(Escape(words)) = words
<1>1. PICK n \in Nat : n = Len(words) /\ DOMAIN words = 1..n /\ words = [i \in 1..n |-> words[i]]
  BY SequenceIs DEF Plain
<1>2. PICK r : r = Escape(words)
  OBVIOUS
<1>3. IsSequence(r) /\ Len(r) = n /\ DOMAIN r = 1..n
  <2>1. r = [i \in 1..n |-> r[i]]
    BY <1>1, <1>2 DEF Escape
  <2> QED BY <2>1, Mapped, SequenceIs
<1>4. ASSUME NEW i \in 1..n PROVE Unescape(r)[i] = words[i]
  <2>1. PICK known : known = {w \in DOMAIN Entity : Entity[w] = r[i]}
    OBVIOUS
  <2>2. Unescape(r)[i] = IF known = {} THEN r[i] ELSE CHOOSE w \in known : TRUE
    BY <1>3, <2>1 DEF Unescape
  <2>3. CASE words[i] \in DOMAIN Entity
    <3>1. r[i] = Entity[words[i]]
      BY <1>1, <1>2, <2>3 DEF Escape
    <3>2. known = {words[i]}
      BY <2>1, <2>3, <3>1, EntityIs
    <3> QED BY <2>2, <3>2
  <2>4. CASE words[i] \notin DOMAIN Entity
    <3>1. r[i] = words[i]
      BY <1>1, <1>2, <2>4 DEF Escape
    <3>2. words[i] \in ToSet(words)
      BY <1>1, SequenceIs DEF Plain
    <3>3. known = {}
      BY <2>1, <3>1, <3>2 DEF Plain
    <3> QED BY <2>2, <3>1, <3>3
  <2> QED BY <2>3, <2>4
<1>5. Unescape(r) = [i \in 1..n |-> Unescape(r)[i]]
  BY <1>3 DEF Unescape
<1> QED BY <1>1, <1>2, <1>3, <1>4, <1>5

-----------------------------------------------------------------------------
(***************************************************************************)
(* The reader (xml.ts). Elements form a tree: all that is below an         *)
(* element is again an element, whose kids are a sequence, or a text       *)
(* without entities.                                                       *)
(***************************************************************************)

\* Elements whose kids are again of them.
Forest(N) ==
    \A e \in N : /\ e = [tag |-> e.tag, attrs |-> e.attrs, kids |-> e.kids]
                 /\ IsSequence(e.kids) /\ ToSet(e.kids) \subseteq N
                 /\ e.tag = TextTag => Plain(e.attrs.words)

\* An element as the reader makes them.
Tree(e) == \E N : Forest(N) /\ e \in N

\* The reader's state as it can be.
Reading(s) ==
    /\ s = [open |-> s.open, root |-> s.root, bad |-> s.bad]
    /\ IsSequence(s.open) /\ IsSequence(s.root)
    /\ \E N : Forest(N) /\ ToSet(s.open) \subseteq N /\ ToSet(s.root) \subseteq N

\* An element, its kids and what is below them.
LEMMA TreeIs ==
    ASSUME NEW e, Tree(e)
    PROVE  /\ e = [tag |-> e.tag, attrs |-> e.attrs, kids |-> e.kids]
           /\ IsSequence(e.kids) /\ \A i \in 1..Len(e.kids) : Tree(e.kids[i])
           /\ e.tag = TextTag => Plain(e.attrs.words)
<1>1. PICK N : Forest(N) /\ e \in N
  BY DEF Tree
<1>2. /\ IsSequence(e.kids) /\ ToSet(e.kids) \subseteq N
      /\ e = [tag |-> e.tag, attrs |-> e.attrs, kids |-> e.kids]
      /\ e.tag = TextTag => Plain(e.attrs.words)
  BY <1>1 DEF Forest
<1>3. \A i \in 1..Len(e.kids) : e.kids[i] \in N
  BY <1>2, SequenceIs
<1> QED BY <1>1, <1>2, <1>3, Zenon DEF Tree

\* So are the kids with some tags.
LEMMA TaggedTrees ==
    ASSUME NEW e, Tree(e), NEW tags
    PROVE  IsSequence(Tagged(e, tags)) /\ \A i \in 1..Len(Tagged(e, tags)) : Tree(Tagged(e, tags)[i])
<1>1. IsSequence(e.kids) /\ \A k \in ToSet(e.kids) : Tree(k)
  BY TreeIs, SequenceIs
<1>2. IsSequence(Tagged(e, tags)) /\ ToSet(Tagged(e, tags)) \subseteq ToSet(e.kids)
  BY <1>1, TaggedIs
<1>3. \A i \in 1..Len(Tagged(e, tags)) : Tagged(e, tags)[i] \in ToSet(Tagged(e, tags))
  BY <1>2, SequenceIs
<1> QED BY <1>1, <1>2, <1>3

\* So are the kids the parser asks for.
LEMMA KidsAreTrees ==
    ASSUME NEW e, Tree(e)
    PROVE  /\ IsSequence(Children(e)) /\ \A i \in 1..Len(Children(e)) : Tree(Children(e)[i])
           /\ \A tag : /\ IsSequence(ChildrenOf(e, tag))
                       /\ \A i \in 1..Len(ChildrenOf(e, tag)) : Tree(ChildrenOf(e, tag)[i])
<1>1. IsSequence(Children(e)) /\ \A i \in 1..Len(Children(e)) : Tree(Children(e)[i])
  <2>1. PICK tags : Children(e) = Tagged(e, tags)
    BY DEF Children
  <2> QED BY <2>1, TaggedTrees
<1>2. ASSUME NEW tag
      PROVE  /\ IsSequence(ChildrenOf(e, tag))
             /\ \A i \in 1..Len(ChildrenOf(e, tag)) : Tree(ChildrenOf(e, tag)[i])
  <2>1. PICK tags : ChildrenOf(e, tag) = Tagged(e, tags)
    BY DEF ChildrenOf
  <2> QED BY <2>1, TaggedTrees
<1> QED BY <1>1, <1>2

\* The leaf of a text, and an element without kids.
LEMMA Leaves ==
    ASSUME NEW N, Forest(N), NEW tag, NEW attrs, tag = TextTag => Plain(attrs.words)
    PROVE  Forest(N \cup {Element(tag, attrs, <<>>)})
<1>1. PICK e : e = Element(tag, attrs, <<>>)
  OBVIOUS
<1>2. /\ e.kids = <<>> /\ e = [tag |-> e.tag, attrs |-> e.attrs, kids |-> e.kids]
      /\ e.tag = TextTag => Plain(e.attrs.words)
  BY <1>1 DEF Element
<1>3. IsSequence(<<>>) /\ ToSet(<<>>) = {}
  BY NoSequence
<1>4. \A x \in N : ToSet(x.kids) \subseteq N \cup {e}
  BY DEF Forest
<1>5. \A x \in N \cup {e} : /\ x = [tag |-> x.tag, attrs |-> x.attrs, kids |-> x.kids]
                            /\ IsSequence(x.kids) /\ ToSet(x.kids) \subseteq N \cup {e}
                            /\ x.tag = TextTag => Plain(x.attrs.words)
  BY <1>2, <1>3, <1>4 DEF Forest
<1> QED BY <1>1, <1>5 DEF Forest

\* An element or a text is put below the open element, or becomes the root.
LEMMA AttachKeeps ==
    ASSUME NEW s, Reading(s), NEW N, Forest(N), ToSet(s.open) \subseteq N, ToSet(s.root) \subseteq N,
           NEW node \in N
    PROVE  Reading(Attach(s, node))
<1>1. s = [open |-> s.open, root |-> s.root, bad |-> s.bad] /\ IsSequence(s.open) /\ IsSequence(s.root)
  BY DEF Reading
<1>2. CASE s.open = <<>>
  <2>1. PICK r : r = Attach(s, node)
    OBVIOUS
  <2>2. /\ r = [open |-> r.open, root |-> r.root, bad |-> r.bad]
        /\ r.open = s.open /\ (r.root = s.root \/ r.root = <<node>>)
    BY <1>1, <1>2, <2>1 DEF Attach
  <2>3. IsSequence(<<node>>) /\ ToSet(<<node>>) \subseteq N
    BY Tuples DEF ToSet
  <2>4. IsSequence(r.root) /\ ToSet(r.root) \subseteq N /\ IsSequence(r.open) /\ ToSet(r.open) \subseteq N
    BY <1>1, <2>2, <2>3
  <2> QED BY <2>1, <2>2, <2>4, Zenon DEF Reading
<1>3. CASE s.open # <<>>
  <2>1. PICK r : r = Attach(s, node)
    OBVIOUS
  <2>2. PICK k : k = Len(s.open)
    OBVIOUS
  <2>3. k \in 1..Len(s.open) /\ s.open[k] \in N
    BY <1>1, <1>3, <2>2, SequenceIs
  <2>4. PICK e : e = s.open[k]
    OBVIOUS
  <2>5. PICK kids : kids = Append(e.kids, node)
    OBVIOUS
  <2>6. PICK new : new = [tag |-> e.tag, attrs |-> e.attrs, kids |-> kids]
    OBVIOUS
  <2>7. /\ IsSequence(e.kids) /\ ToSet(e.kids) \subseteq N
        /\ e = [tag |-> e.tag, attrs |-> e.attrs, kids |-> e.kids]
        /\ e.tag = TextTag => Plain(e.attrs.words)
    BY <2>3, <2>4 DEF Forest
  <2>8. IsSequence(kids) /\ ToSet(kids) \subseteq N
    BY <2>5, <2>7, Appended
  <2>9. Forest(N \cup {new})
    <3>1. \A x \in N : ToSet(x.kids) \subseteq N \cup {new}
      BY DEF Forest
    <3>2. \A x \in N \cup {new} : /\ x = [tag |-> x.tag, attrs |-> x.attrs, kids |-> x.kids]
                                  /\ IsSequence(x.kids) /\ ToSet(x.kids) \subseteq N \cup {new}
                                  /\ x.tag = TextTag => Plain(x.attrs.words)
      BY <2>6, <2>7, <2>8, <3>1 DEF Forest
    <3> QED BY <3>2 DEF Forest
  <2>10. r = [open |-> [s.open EXCEPT ![k] = new], root |-> s.root, bad |-> s.bad]
    <3>1. [s.open EXCEPT ![k].kids = Append(@, node)] = [s.open EXCEPT ![k] = new]
      <4>1. [e EXCEPT !.kids = kids] = new
        BY <2>6, <2>7
      <4>2. [s.open EXCEPT ![k].kids = Append(@, node)]
              = [s.open EXCEPT ![k] = [s.open[k] EXCEPT !.kids = Append(s.open[k].kids, node)]]
        OBVIOUS
      <4> QED BY <2>4, <2>5, <4>1, <4>2, Zenon
    <3>2. r = [s EXCEPT !.open = [s.open EXCEPT ![k].kids = Append(@, node)]]
      BY <1>3, <2>1, <2>2, Zenon DEF Attach
    <3> QED BY <1>1, <3>1, <3>2
  <2>11. /\ IsSequence([s.open EXCEPT ![k] = new])
         /\ ToSet([s.open EXCEPT ![k] = new]) \subseteq N \cup {new}
    BY <1>1, <2>3, Replaced
  <2>12. ToSet(s.root) \subseteq N \cup {new}
    OBVIOUS
  <2>13. /\ r = [open |-> r.open, root |-> r.root, bad |-> r.bad] /\ IsSequence(r.open) /\ IsSequence(r.root)
         /\ ToSet(r.open) \subseteq N \cup {new} /\ ToSet(r.root) \subseteq N \cup {new}
    BY <1>1, <2>10, <2>11, <2>12
  <2> QED BY <2>1, <2>9, <2>13, Zenon DEF Reading
<1> QED BY <1>2, <1>3

\* An end tag closes the open element, or is refused.
LEMMA CloseKeeps ==
    ASSUME NEW s, Reading(s), NEW tag
    PROVE  Reading(Close(s, tag))
<1>1. s = [open |-> s.open, root |-> s.root, bad |-> s.bad] /\ IsSequence(s.open) /\ IsSequence(s.root)
  BY DEF Reading
<1>2. PICK N : Forest(N) /\ ToSet(s.open) \subseteq N /\ ToSet(s.root) \subseteq N
  BY DEF Reading
<1>3. CASE s.open = <<>> \/ Last(s.open).tag # tag
  <2>1. PICK r : r = [s EXCEPT !.bad = TRUE]
    OBVIOUS
  <2>2. r = [open |-> r.open, root |-> r.root, bad |-> r.bad] /\ r.open = s.open /\ r.root = s.root
    BY <1>1, <2>1
  <2>3. Reading(r)
    BY <1>1, <1>2, <2>2, Zenon DEF Reading
  <2> QED BY <1>3, <2>1, <2>3 DEF Close
<1>4. CASE s.open # <<>> /\ Last(s.open).tag = tag
  <2>1. PICK r : r = [s EXCEPT !.open = Front(s.open)]
    OBVIOUS
  <2>2. r = [open |-> r.open, root |-> r.root, bad |-> r.bad] /\ r.open = Front(s.open) /\ r.root = s.root
    BY <1>1, <2>1
  <2>3. IsSequence(r.open) /\ ToSet(r.open) \subseteq N /\ Last(s.open) \in N
    BY <1>1, <1>2, <1>4, <2>2, FrontIs
  <2>4. Reading(r)
    BY <1>1, <1>2, <2>2, <2>3, Zenon DEF Reading
  <2>5. Reading(Attach(r, Last(s.open)))
    BY <1>2, <2>2, <2>3, <2>4, AttachKeeps
  <2> QED BY <1>4, <2>1, <2>5 DEF Close
<1> QED BY <1>3, <1>4

\* Whatever the token, the reader goes on from a state to a state.
LEMMA ReadTokenKeeps ==
    ASSUME NEW s, Reading(s), NEW t, Legible(t)
    PROVE  Reading(ReadToken(s, t))
<1>1. s = [open |-> s.open, root |-> s.root, bad |-> s.bad] /\ IsSequence(s.open) /\ IsSequence(s.root)
  BY DEF Reading
<1>2. PICK N : Forest(N) /\ ToSet(s.open) \subseteq N /\ ToSet(s.root) \subseteq N
  BY DEF Reading
<1>3. ASSUME NEW tag, NEW attrs, tag = TextTag => Plain(attrs.words)
      PROVE  Reading(Attach(s, Element(tag, attrs, <<>>)))
  <2>1. PICK e : e = Element(tag, attrs, <<>>)
    OBVIOUS
  <2>2. PICK M : M = N \cup {e}
    OBVIOUS
  <2>3. Forest(M) /\ ToSet(s.open) \subseteq M /\ ToSet(s.root) \subseteq M /\ e \in M
    BY <1>2, <1>3, <2>1, <2>2, Leaves
  <2> QED BY <2>1, <2>3, AttachKeeps
<1>4. ASSUME NEW words, Plain(words) PROVE Reading(Attach(s, TextNode(words)))
  <2>1. PICK attrs : attrs = [words |-> words]
    OBVIOUS
  <2>2. Reading(Attach(s, Element(TextTag, attrs, <<>>)))
    <3>1. attrs.words = words
      BY <2>1
    <3> QED BY <1>3, <1>4, <3>1
  <2> QED BY <2>1, <2>2 DEF TextNode
<1>5. Reading([s EXCEPT !.bad = TRUE])
  <2>1. PICK r : r = [s EXCEPT !.bad = TRUE]
    OBVIOUS
  <2>2. r = [open |-> r.open, root |-> r.root, bad |-> r.bad] /\ r.open = s.open /\ r.root = s.root
    BY <1>1, <2>1
  <2>3. Reading(r)
    BY <1>1, <1>2, <2>2, Zenon DEF Reading
  <2> QED BY <2>1, <2>3
<1>6. ASSUME t.is = "start"
      PROVE  Reading([s EXCEPT !.open = Append(s.open, Element(t.tag, t.attrs, <<>>))])
  <2>1. PICK e : e = Element(t.tag, t.attrs, <<>>)
    OBVIOUS
  <2>2. PICK M : M = N \cup {e}
    OBVIOUS
  <2>3. Forest(M) /\ ToSet(s.open) \subseteq M /\ ToSet(s.root) \subseteq M /\ e \in M
    BY <1>2, <1>6, <2>1, <2>2, Leaves DEF Legible
  <2>4. PICK r : r = [s EXCEPT !.open = Append(s.open, e)]
    OBVIOUS
  <2>5. r = [open |-> r.open, root |-> r.root, bad |-> r.bad] /\ r.open = Append(s.open, e) /\ r.root = s.root
    BY <1>1, <2>4
  <2>6. IsSequence(r.open) /\ ToSet(r.open) \subseteq M
    BY <1>1, <2>3, <2>5, Appended
  <2>7. Reading(r)
    BY <1>1, <2>3, <2>5, <2>6, Zenon DEF Reading
  <2> QED BY <2>1, <2>4, <2>7
<1>7. Reading(Close(s, t.tag))
  BY CloseKeeps
<1>8. PICK r : r = ReadToken(s, t)
  OBVIOUS
<1>9. CASE s.bad
  <2>1. r = s
    BY <1>8, <1>9 DEF ReadToken
  <2> QED BY <1>8, <2>1
<1>10. CASE ~s.bad
  <2>1. CASE t.is = "comment"
    <3>1. r = s
      BY <1>8, <1>10, <2>1 DEF ReadToken
    <3> QED BY <1>8, <3>1
  <2>2. CASE t.is = "refused"
    <3>1. r = [s EXCEPT !.bad = TRUE]
      BY <1>8, <1>10, <2>2 DEF ReadToken
    <3> QED BY <1>5, <1>8, <3>1
  <2>3. CASE t.is = "text"
    <3>1. r = Attach(s, TextNode(Unescape(t.attrs.words)))
      BY <1>8, <1>10, <2>3 DEF ReadToken
    <3>2. Plain(Unescape(t.attrs.words))
      BY <2>3, UnescapedIs DEF Legible, IsSequence
    <3> QED BY <1>4, <1>8, <3>1, <3>2
  <2>4. CASE t.is = "cdata"
    <3>1. r = Attach(s, TextNode(t.attrs.words))
      BY <1>8, <1>10, <2>4 DEF ReadToken
    <3>2. Plain(t.attrs.words)
      BY <2>4 DEF Legible, IsSequence, Plain
    <3> QED BY <1>4, <1>8, <3>1, <3>2
  <2>5. CASE t.is = "end"
    <3>1. r = Close(s, t.tag)
      BY <1>8, <1>10, <2>5 DEF ReadToken
    <3> QED BY <1>7, <1>8, <3>1
  <2>6. CASE t.is \in {"start", "empty"} /\ Full(s)
    <3>1. r = [s EXCEPT !.bad = TRUE]
      BY <1>8, <1>10, <2>6 DEF ReadToken
    <3> QED BY <1>5, <1>8, <3>1
  <2>7. CASE t.is = "start" /\ ~Full(s)
    <3>1. r = [s EXCEPT !.open = Append(s.open, Element(t.tag, t.attrs, <<>>))]
      BY <1>8, <1>10, <2>7 DEF ReadToken
    <3> QED BY <1>6, <1>8, <2>7, <3>1
  <2>8. CASE /\ t.is \notin {"comment", "refused", "text", "cdata", "end"}
             /\ ~(t.is \in {"start", "empty"} /\ Full(s)) /\ ~(t.is = "start" /\ ~Full(s))
    <3>1. r = Attach(s, Element(t.tag, t.attrs, <<>>))
      BY <1>8, <1>10, <2>8 DEF ReadToken
    <3>2. t.tag # TextTag
      BY <2>8 DEF Legible
    <3> QED BY <1>3, <1>8, <3>1, <3>2
  <2> QED BY <2>1, <2>2, <2>3, <2>4, <2>5, <2>6, <2>7, <2>8
<1> QED BY <1>9, <1>10

\* A file, as a sequence of tokens.
IsDocument(xml) == IsSequence(xml) /\ \A i \in 1..Len(xml) : Legible(xml[i])

\* The reader's state after a file.
LEMMA ReadXmlReads ==
    ASSUME NEW xml, IsDocument(xml)
    PROVE  Reading(ReadXml(xml))
<1>1. PICK n \in Nat : n = Len(xml) /\ \A i \in 1..n : Legible(xml[i])
  BY SequenceIs DEF IsDocument
<1>0. PICK s : s = [open |-> <<>>, root |-> <<>>, bad |-> FALSE]
  OBVIOUS
<1>2. PICK f : /\ f[0] = [open |-> <<>>, root |-> <<>>, bad |-> FALSE] /\ ReadXml(xml) = f[n]
               /\ \A i \in 1..n : f[i] = ReadToken(f[i - 1], xml[i])
  <2>1. Len(xml) \in Nat
    BY <1>1
  <2>2. ReadXml(xml) = Reads(s, xml)
    BY <1>0, ReadXmlIs
  <2>3. \E f : /\ f[0] = s /\ Reads(s, xml) = f[Len(xml)]
               /\ \A i \in 1..Len(xml) : f[i] = ReadToken(f[i - 1], xml[i])
    BY ONLY <2>1, ReadsPass
  <2> QED BY <1>0, <1>1, <2>2, <2>3, Zenon
<1>3. Reading(f[0])
  <2>1. Forest({})
    BY DEF Forest
  <2>2. /\ f[0] = [open |-> f[0].open, root |-> f[0].root, bad |-> f[0].bad]
        /\ f[0].open = <<>> /\ f[0].root = <<>>
    BY <1>2
  <2>3. IsSequence(<<>>) /\ ToSet(<<>>) \subseteq {}
    BY NoSequence
  <2> QED BY <2>1, <2>2, <2>3, Zenon DEF Reading
<1>4. ASSUME NEW i \in 1..n, Reading(f[i - 1]) PROVE Reading(f[i])
  BY <1>1, <1>2, <1>4, ReadTokenKeeps
<1>5. PICK S : S = {i \in 0..n : Reading(f[i])}
  OBVIOUS
<1>6. n \in S
  <2>1. 0 \in S /\ \A i \in 1..n : i - 1 \in S => i \in S
    BY <1>3, <1>4, <1>5
  <2> QED BY ONLY <2>1, Onward, n \in Nat
<1> QED BY <1>2, <1>5, <1>6

\* The root of a well-formed file, with all below it.
LEMMA RootIsTree ==
    ASSUME NEW xml, IsDocument(xml), WellFormed(xml)
    PROVE  Tree(Root(xml))
<1>1. PICK s : s = ReadXml(xml)
  OBVIOUS
<1>2. Reading(s) /\ s.root # <<>>
  BY <1>1, ReadXmlReads DEF WellFormed
<1>3. PICK N : Forest(N) /\ ToSet(s.root) \subseteq N
  BY <1>2 DEF Reading
<1>4. s.root[1] \in ToSet(s.root)
  BY <1>2, SequenceIs DEF Reading
<1> QED BY <1>1, <1>3, <1>4 DEF Tree, Root

-----------------------------------------------------------------------------
(***************************************************************************)
(* Sequences one after another.                                            *)
(***************************************************************************)

\* Two sequences over one set.
LEMMA Common ==
    ASSUME NEW s, IsSequence(s), NEW t, IsSequence(t)
    PROVE  s \in Seq(ToSet(s) \cup ToSet(t)) /\ t \in Seq(ToSet(s) \cup ToSet(t))
<1>1. s \in Seq(ToSet(s)) /\ t \in Seq(ToSet(t)) /\ ToSet(s) \subseteq ToSet(s) \cup ToSet(t)
      /\ ToSet(t) \subseteq ToSet(s) \cup ToSet(t)
  BY DEF IsSequence
<1> QED BY <1>1, SeqMonotonic

\* Sequences with the same elements are the same.
LEMMA SameSequence ==
    ASSUME NEW s, IsSequence(s), NEW t, IsSequence(t), Len(s) = Len(t), \A i \in 1..Len(s) : s[i] = t[i]
    PROVE  s = t
<1>1. Len(s) \in Nat /\ s = [i \in 1..Len(s) |-> s[i]] /\ t = [i \in 1..Len(t) |-> t[i]]
  BY SequenceIs
<1> QED BY <1>1

\* The elements of two sequences, one after the other.
LEMMA ConcatIs ==
    ASSUME NEW s, IsSequence(s), NEW t, IsSequence(t)
    PROVE  /\ IsSequence(s \o t) /\ Len(s \o t) = Len(s) + Len(t)
           /\ \A i \in 1..Len(s) : (s \o t)[i] = s[i]
           /\ \A j \in 1..Len(t) : (s \o t)[Len(s) + j] = t[j]
           /\ \A i \in 1..Len(s \o t) : i \in 1..Len(s) \/ \E j \in 1..Len(t) : i = Len(s) + j
<1>1. PICK k \in Nat : k = Len(s)
  BY SequenceIs
<1>2. PICK m \in Nat : m = Len(t)
  BY SequenceIs
<1>3. /\ Len(s \o t) = k + m
      /\ \A i \in 1..(k + m) : (s \o t)[i] = IF i <= k THEN s[i] ELSE t[i - k]
  BY <1>1, <1>2, Common, ConcatProperties
<1>4. \A i \in 1..k : (s \o t)[i] = s[i]
  <2>1. \A i \in 1..k : i \in 1..(k + m) /\ i <= k
    OBVIOUS
  <2> QED BY <1>3, <2>1
<1>5. \A j \in 1..m : (s \o t)[k + j] = t[j]
  <2>1. \A j \in 1..m : k + j \in 1..(k + m) /\ ~(k + j <= k) /\ (k + j) - k = j
    OBVIOUS
  <2> QED BY <1>3, <2>1
<1>6. ASSUME NEW i \in 1..(k + m) PROVE i \in 1..k \/ \E j \in 1..m : i = k + j
  <2>1. i \in 1..k \/ (i - k \in 1..m /\ i = k + (i - k))
    OBVIOUS
  <2> QED BY <2>1
<1> QED BY <1>1, <1>2, <1>3, <1>4, <1>5, <1>6, Concatenated

\* Next to nothing.
LEMMA ConcatNone ==
    ASSUME NEW s, IsSequence(s)
    PROVE  s \o <<>> = s /\ <<>> \o s = s
  BY ConcatEmptySeq DEF IsSequence

\* Three sequences, one after the other.
LEMMA ConcatThree ==
    ASSUME NEW s, IsSequence(s), NEW t, IsSequence(t), NEW u, IsSequence(u)
    PROVE  (s \o t) \o u = s \o (t \o u)
<1>1. PICK S : S = ToSet(s) \cup ToSet(t) \cup ToSet(u)
  OBVIOUS
<1>2. s \in Seq(S) /\ t \in Seq(S) /\ u \in Seq(S)
  <2>1. s \in Seq(ToSet(s)) /\ t \in Seq(ToSet(t)) /\ u \in Seq(ToSet(u))
    BY DEF IsSequence
  <2>2. ToSet(s) \subseteq S /\ ToSet(t) \subseteq S /\ ToSet(u) \subseteq S
    BY <1>1
  <2> QED BY <2>1, <2>2, SeqMonotonic
<1> QED BY <1>2, ConcatAssociative

\* One element more comes after.
LEMMA AppendIs ==
    ASSUME NEW s, IsSequence(s), NEW x
    PROVE  Append(s, x) = s \o <<x>>
<1>1. PICK k \in Nat : k = Len(s)
  BY SequenceIs
<1>2. IsSequence(<<x>>) /\ Len(<<x>>) = 1 /\ <<x>>[1] = x
  BY Tuples
<1>3. /\ IsSequence(s \o <<x>>) /\ Len(s \o <<x>>) = k + 1
      /\ \A i \in 1..k : (s \o <<x>>)[i] = s[i]
      /\ (s \o <<x>>)[k + 1] = x
  <2>1. PICK t : t = <<x>>
    OBVIOUS
  <2>2. IsSequence(t) /\ Len(t) = 1 /\ t[1] = x
    BY <1>2, <2>1
  <2>3. /\ IsSequence(s \o t) /\ Len(s \o t) = Len(s) + Len(t)
        /\ \A i \in 1..Len(s) : (s \o t)[i] = s[i]
        /\ \A j \in 1..Len(t) : (s \o t)[Len(s) + j] = t[j]
    <3>1. IsSequence(s) /\ IsSequence(t)
      BY <2>2
    <3> QED BY ONLY <3>1, ConcatIs
  <2>4. 1 \in 1..Len(t)
    BY <2>2
  <2> QED BY <1>1, <2>1, <2>2, <2>3, <2>4
<1>4. /\ IsSequence(Append(s, x)) /\ Len(Append(s, x)) = k + 1
      /\ \A i \in 1..k : Append(s, x)[i] = s[i]
      /\ Append(s, x)[k + 1] = x
  BY <1>1, Appended
<1>5. \A i \in 1..(k + 1) : i \in 1..k \/ i = k + 1
  OBVIOUS
<1>6. \A i \in 1..(k + 1) : Append(s, x)[i] = (s \o <<x>>)[i]
  BY <1>3, <1>4, <1>5
<1> QED BY <1>3, <1>4, <1>6, SameSequence

\* The sequence of one sequence, joined.
LEMMA JoinedOne ==
    ASSUME NEW s, IsSequence(s)
    PROVE  Joined(<<s>>) = s
<1>1. PICK seq : seq = <<s>>
  OBVIOUS
<1>2. Len(seq) = 1 /\ seq[1] = s
  BY <1>1
<1>21. Len(seq) \in Nat
  BY <1>2
<1>22. \E f : /\ f[0] = <<>> /\ Joined(seq) = f[Len(seq)]
              /\ \A i \in 1..Len(seq) : f[i] = f[i - 1] \o seq[i]
  BY ONLY <1>21, JoinedPass
<1>3. PICK f : f[0] = <<>> /\ Joined(seq) = f[1] /\ \A i \in 1..1 : f[i] = f[i - 1] \o seq[i]
  BY <1>2, <1>22
<1>4. f[1] = f[0] \o seq[1]
  <2>1. 1 \in 1..1 /\ 1 - 1 = 0
    OBVIOUS
  <2> QED BY <1>3, <2>1
<1>5. f[1] = <<>> \o s
  BY <1>2, <1>3, <1>4
<1> QED BY <1>1, <1>3, <1>5, ConcatNone

\* Texts joined are a text.
LEMMA JoinedPlain ==
    ASSUME NEW seq, IsSequence(seq), \A i \in 1..Len(seq) : Plain(seq[i])
    PROVE  Plain(Joined(seq))
<1>1. PICK n \in Nat : n = Len(seq)
  BY SequenceIs
<1>2. PICK f : f[0] = <<>> /\ Joined(seq) = f[n] /\ \A i \in 1..n : f[i] = f[i - 1] \o seq[i]
  BY <1>1, JoinedPass
<1>3. PICK S : S = {i \in 0..n : Plain(f[i])}
  OBVIOUS
<1>4. ASSUME NEW i \in 1..n, Plain(f[i - 1]) PROVE Plain(f[i])
  <2>1. PICK s : s = f[i - 1]
    OBVIOUS
  <2>2. PICK t : t = seq[i]
    OBVIOUS
  <2>3. f[i] = s \o t /\ Plain(s) /\ Plain(t)
    BY <1>1, <1>2, <1>4, <2>1, <2>2
  <2>4. /\ IsSequence(s \o t)
        /\ \A j \in 1..Len(s \o t) : (s \o t)[j] \in ToSet(s) \cup ToSet(t)
    <3>1. IsSequence(s) /\ IsSequence(t)
      BY <2>3 DEF Plain
    <3>2. /\ IsSequence(s \o t)
          /\ \A j \in 1..Len(s) : (s \o t)[j] = s[j]
          /\ \A j \in 1..Len(t) : (s \o t)[Len(s) + j] = t[j]
          /\ \A j \in 1..Len(s \o t) : j \in 1..Len(s) \/ \E k \in 1..Len(t) : j = Len(s) + k
      BY <3>1, ConcatIs
    <3>3. \A j \in 1..Len(s) : s[j] \in ToSet(s)
      BY <3>1, SequenceIs
    <3>4. \A j \in 1..Len(t) : t[j] \in ToSet(t)
      BY <3>1, SequenceIs
    <3> QED BY <3>2, <3>3, <3>4
  <2>5. ToSet(s \o t) = {(s \o t)[j] : j \in 1..Len(s \o t)}
    BY <2>4, SequenceIs
  <2> QED BY <2>3, <2>4, <2>5 DEF Plain
<1>5. n \in S
  <2>1. 0 \in S /\ \A i \in 1..n : i - 1 \in S => i \in S
    <3>1. Plain(f[0])
      BY <1>2, NoSequence DEF Plain
    <3> QED BY <1>3, <1>4, <3>1
  <2> QED BY ONLY <2>1, Onward, n \in Nat
<1> QED BY <1>2, <1>3, <1>5

-----------------------------------------------------------------------------
(***************************************************************************)
(* Passes over one sequence after another.                                 *)
(***************************************************************************)

\* Two passes that start alike and go on alike end alike.
LEMMA Alike ==
    ASSUME NEW n \in Nat, NEW f, NEW h, f[0] = h[0], \A i \in 1..n : f[i - 1] = h[i - 1] => f[i] = h[i]
    PROVE  f[n] = h[n]
<1>1. PICK S : S = {i \in 0..n : f[i] = h[i]}
  OBVIOUS
<1>2. 0 \in S /\ \A i \in 1..n : i - 1 \in S => i \in S
  BY <1>1
<1>3. n \in S
  BY ONLY <1>2, Onward, n \in Nat
<1> QED BY <1>1, <1>3

\* The reader: nothing, one and more after others.
LEMMA ReadsNone ==
    ASSUME NEW d
    PROVE  Reads(d, <<>>) = d
<1>1. PICK z : z = <<>>
  OBVIOUS
<1>2. Len(z) = 0 /\ Len(z) \in Nat
  BY <1>1
<1>3. PICK h : h[0] = d /\ Reads(d, z) = h[Len(z)]
  BY ONLY <1>2, ReadsPass
<1> QED BY <1>1, <1>2, <1>3

\* One token is read.
LEMMA ReadsOne ==
    ASSUME NEW d, NEW x
    PROVE  Reads(d, <<x>>) = ReadToken(d, x)
<1>1. PICK z : z = <<x>>
  OBVIOUS
<1>2. Len(z) = 1 /\ z[1] = x /\ Len(z) \in Nat
  BY <1>1
<1>3. PICK h : h[0] = d /\ Reads(d, z) = h[Len(z)] /\ \A i \in 1..Len(z) : h[i] = ReadToken(h[i - 1], z[i])
  BY ONLY <1>2, ReadsPass
<1>4. 1 \in 1..Len(z) /\ 1 - 1 = 0
  BY <1>2
<1>5. h[1] = ReadToken(h[1 - 1], z[1])
  BY ONLY <1>3, <1>4
<1>6. h[1] = ReadToken(d, x)
  BY ONLY <1>2, <1>3, <1>4, <1>5
<1> QED BY <1>1, <1>2, <1>3, <1>6

\* One sequence of tokens after another.
LEMMA ReadsThen ==
    ASSUME NEW d, NEW s, IsSequence(s), NEW t, IsSequence(t)
    PROVE  Reads(d, s \o t) = Reads(Reads(d, s), t)
<1>1. PICK n \in Nat : n = Len(s)
  BY SequenceIs
<1>2. PICK m \in Nat : m = Len(t)
  BY SequenceIs
<1>3. PICK z : z = s \o t
  OBVIOUS
<1>4. /\ Len(z) = n + m /\ Len(z) \in Nat
      /\ \A i \in 1..n : z[i] = s[i]
      /\ \A j \in 1..m : z[n + j] = t[j]
  BY <1>1, <1>2, <1>3, ConcatIs
<1>5. PICK f : f[0] = d /\ Reads(d, s) = f[n] /\ \A i \in 1..n : f[i] = ReadToken(f[i - 1], s[i])
  BY <1>1, ReadsPass
<1>6. PICK e : e = f[n]
  OBVIOUS
<1>7. PICK g : g[0] = e /\ Reads(e, t) = g[m] /\ \A i \in 1..m : g[i] = ReadToken(g[i - 1], t[i])
  <2>1. Len(t) \in Nat
    BY <1>2
  <2>2. \E g : g[0] = e /\ Reads(e, t) = g[Len(t)] /\ \A i \in 1..Len(t) : g[i] = ReadToken(g[i - 1], t[i])
    BY ONLY <2>1, ReadsPass
  <2> QED BY <1>2, <2>2
<1>8. PICK h : h[0] = d /\ Reads(d, z) = h[n + m] /\ \A i \in 1..(n + m) : h[i] = ReadToken(h[i - 1], z[i])
  <2>1. \E h : h[0] = d /\ Reads(d, z) = h[Len(z)] /\ \A i \in 1..Len(z) : h[i] = ReadToken(h[i - 1], z[i])
    BY <1>4, ReadsPass
  <2> QED BY <1>4, <2>1
<1>9. f[n] = h[n]
  <2>1. ASSUME NEW i \in 1..n, f[i - 1] = h[i - 1] PROVE f[i] = h[i]
    <3>1. i \in 1..(n + m)
      OBVIOUS
    <3>2. f[i] = ReadToken(f[i - 1], s[i]) /\ h[i] = ReadToken(h[i - 1], z[i]) /\ z[i] = s[i]
      BY <1>4, <1>5, <1>8, <3>1
    <3> QED BY ONLY <2>1, <3>2
  <2>2. f[0] = h[0]
    BY <1>5, <1>8
  <2>3. \A i \in 1..n : f[i - 1] = h[i - 1] => f[i] = h[i]
    BY <2>1
  <2> QED BY ONLY <2>2, <2>3, Alike, n \in Nat
<1>10. PICK k : k = [j \in 0..m |-> h[n + j]]
  OBVIOUS
<1>11. g[m] = k[m]
  <2>1. ASSUME NEW j \in 1..m, g[j - 1] = k[j - 1] PROVE g[j] = k[j]
    <3>1. n + j \in 1..(n + m) /\ (n + j) - 1 = n + (j - 1) /\ j - 1 \in 0..m /\ j \in 0..m
      OBVIOUS
    <3>2. h[n + j] = ReadToken(h[n + (j - 1)], z[n + j])
      BY <1>8, <3>1
    <3>3. k[j] = h[n + j] /\ k[j - 1] = h[n + (j - 1)]
      BY <1>10, <3>1
    <3>4. g[j] = ReadToken(g[j - 1], t[j]) /\ z[n + j] = t[j]
      BY <1>4, <1>7
    <3> QED BY ONLY <2>1, <3>2, <3>3, <3>4
  <2>2. g[0] = k[0]
    <3>1. 0 \in 0..m /\ n + 0 = n
      OBVIOUS
    <3> QED BY <1>6, <1>7, <1>9, <1>10, <3>1
  <2>3. \A i \in 1..m : g[i - 1] = k[i - 1] => g[i] = k[i]
    BY <2>1
  <2> QED BY ONLY <2>2, <2>3, Alike, m \in Nat
<1>12. k[m] = h[n + m]
  <2>1. m \in 0..m
    OBVIOUS
  <2> QED BY <1>10, <2>1
<1> QED BY <1>3, <1>5, <1>6, <1>7, <1>8, <1>11, <1>12

\* The children of the root: nothing, one and more after others.
LEMMA KidsNone ==
    ASSUME NEW d
    PROVE  AddChildren(d, <<>>) = d
<1>1. PICK z : z = <<>>
  OBVIOUS
<1>2. Len(z) = 0 /\ Len(z) \in Nat
  BY <1>1
<1>3. PICK h : h[0] = d /\ AddChildren(d, z) = h[Len(z)]
  BY ONLY <1>2, ChildrenPass
<1> QED BY <1>1, <1>2, <1>3

\* One child.
LEMMA KidsOne ==
    ASSUME NEW d, NEW x
    PROVE  AddChildren(d, <<x>>) = AddChild(d, x)
<1>1. PICK z : z = <<x>>
  OBVIOUS
<1>2. Len(z) = 1 /\ z[1] = x /\ Len(z) \in Nat
  BY <1>1
<1>3. PICK h : h[0] = d /\ AddChildren(d, z) = h[Len(z)] /\ \A i \in 1..Len(z) : h[i] = AddChild(h[i - 1], z[i])
  BY ONLY <1>2, ChildrenPass
<1>4. 1 \in 1..Len(z) /\ 1 - 1 = 0
  BY <1>2
<1>5. h[1] = AddChild(h[1 - 1], z[1])
  BY ONLY <1>3, <1>4
<1>6. h[1] = AddChild(d, x)
  BY ONLY <1>2, <1>3, <1>4, <1>5
<1> QED BY <1>1, <1>2, <1>3, <1>6

\* Children after others.
LEMMA KidsThen ==
    ASSUME NEW d, NEW s, IsSequence(s), NEW t, IsSequence(t)
    PROVE  AddChildren(d, s \o t) = AddChildren(AddChildren(d, s), t)
<1>1. PICK n \in Nat : n = Len(s)
  BY SequenceIs
<1>2. PICK m \in Nat : m = Len(t)
  BY SequenceIs
<1>3. PICK z : z = s \o t
  OBVIOUS
<1>4. /\ Len(z) = n + m /\ Len(z) \in Nat
      /\ \A i \in 1..n : z[i] = s[i]
      /\ \A j \in 1..m : z[n + j] = t[j]
  BY <1>1, <1>2, <1>3, ConcatIs
<1>5. PICK f : f[0] = d /\ AddChildren(d, s) = f[n] /\ \A i \in 1..n : f[i] = AddChild(f[i - 1], s[i])
  BY <1>1, ChildrenPass
<1>6. PICK e : e = f[n]
  OBVIOUS
<1>7. PICK g : g[0] = e /\ AddChildren(e, t) = g[m] /\ \A i \in 1..m : g[i] = AddChild(g[i - 1], t[i])
  <2>1. Len(t) \in Nat
    BY <1>2
  <2>2. \E g : g[0] = e /\ AddChildren(e, t) = g[Len(t)] /\ \A i \in 1..Len(t) : g[i] = AddChild(g[i - 1], t[i])
    BY ONLY <2>1, ChildrenPass
  <2> QED BY <1>2, <2>2
<1>8. PICK h : h[0] = d /\ AddChildren(d, z) = h[n + m] /\ \A i \in 1..(n + m) : h[i] = AddChild(h[i - 1], z[i])
  <2>1. \E h : h[0] = d /\ AddChildren(d, z) = h[Len(z)] /\ \A i \in 1..Len(z) : h[i] = AddChild(h[i - 1], z[i])
    BY <1>4, ChildrenPass
  <2> QED BY <1>4, <2>1
<1>9. f[n] = h[n]
  <2>1. ASSUME NEW i \in 1..n, f[i - 1] = h[i - 1] PROVE f[i] = h[i]
    <3>1. i \in 1..(n + m)
      OBVIOUS
    <3>2. f[i] = AddChild(f[i - 1], s[i]) /\ h[i] = AddChild(h[i - 1], z[i]) /\ z[i] = s[i]
      BY <1>4, <1>5, <1>8, <3>1
    <3> QED BY ONLY <2>1, <3>2
  <2>2. f[0] = h[0]
    BY <1>5, <1>8
  <2>3. \A i \in 1..n : f[i - 1] = h[i - 1] => f[i] = h[i]
    BY <2>1
  <2> QED BY ONLY <2>2, <2>3, Alike, n \in Nat
<1>10. PICK k : k = [j \in 0..m |-> h[n + j]]
  OBVIOUS
<1>11. g[m] = k[m]
  <2>1. ASSUME NEW j \in 1..m, g[j - 1] = k[j - 1] PROVE g[j] = k[j]
    <3>1. n + j \in 1..(n + m) /\ (n + j) - 1 = n + (j - 1) /\ j - 1 \in 0..m /\ j \in 0..m
      OBVIOUS
    <3>2. h[n + j] = AddChild(h[n + (j - 1)], z[n + j])
      BY <1>8, <3>1
    <3>3. k[j] = h[n + j] /\ k[j - 1] = h[n + (j - 1)]
      BY <1>10, <3>1
    <3>4. g[j] = AddChild(g[j - 1], t[j]) /\ z[n + j] = t[j]
      BY <1>4, <1>7
    <3> QED BY ONLY <2>1, <3>2, <3>3, <3>4
  <2>2. g[0] = k[0]
    <3>1. 0 \in 0..m /\ n + 0 = n
      OBVIOUS
    <3> QED BY <1>6, <1>7, <1>9, <1>10, <3>1
  <2>3. \A i \in 1..m : g[i - 1] = k[i - 1] => g[i] = k[i]
    BY <2>1
  <2> QED BY ONLY <2>2, <2>3, Alike, m \in Nat
<1>12. k[m] = h[n + m]
  <2>1. m \in 0..m
    OBVIOUS
  <2> QED BY <1>10, <2>1
<1> QED BY <1>3, <1>5, <1>6, <1>7, <1>8, <1>11, <1>12

-----------------------------------------------------------------------------
(***************************************************************************)
(* The children with some tags (getChildren, getElementChildren).          *)
(***************************************************************************)

\* Of a sequence of nodes, those with one of some tags.
Only(kids, tags) == Tagged([kids |-> kids], tags)

\* The children that are taken depend on the children alone.
LEMMA TaggedOnly ==
    ASSUME NEW e, IsSequence(e.kids), NEW tags
    PROVE  Tagged(e, tags) = Only(e.kids, tags)
<1>1. PICK n \in Nat : n = Len(e.kids)
  BY SequenceIs
<1>2. PICK w : w = [kids |-> e.kids]
  OBVIOUS
<1>3. w.kids = e.kids /\ Len(w.kids) \in Nat /\ Len(e.kids) \in Nat
  BY <1>1, <1>2
<1>4. PICK f : /\ f[0] = <<>> /\ Tagged(e, tags) = f[Len(e.kids)]
               /\ \A i \in 1..Len(e.kids) : f[i] = IF e.kids[i].tag \in tags THEN Append(f[i - 1], e.kids[i]) ELSE f[i - 1]
  BY ONLY <1>3, TaggedPass
<1>5. PICK h : /\ h[0] = <<>> /\ Tagged(w, tags) = h[Len(w.kids)]
               /\ \A i \in 1..Len(w.kids) : h[i] = IF w.kids[i].tag \in tags THEN Append(h[i - 1], w.kids[i]) ELSE h[i - 1]
  <2>1. Len(w.kids) \in Nat
    BY <1>3
  <2> QED BY ONLY <2>1, TaggedPass
<1>6. f[0] = h[0] /\ \A i \in 1..n : f[i - 1] = h[i - 1] => f[i] = h[i]
  BY <1>1, <1>3, <1>4, <1>5
<1>7. f[n] = h[n]
  BY ONLY <1>6, Alike, n \in Nat
<1> QED BY <1>1, <1>2, <1>3, <1>4, <1>5, <1>7 DEF Only

\* What Only takes, child by child.
LEMMA OnlyPass ==
    ASSUME NEW s, IsSequence(s), NEW tags
    PROVE  \E f : /\ f[0] = <<>> /\ Only(s, tags) = f[Len(s)]
                  /\ \A i \in 1..Len(s) : f[i] = IF s[i].tag \in tags THEN Append(f[i - 1], s[i]) ELSE f[i - 1]
<1>1. PICK w : w = [kids |-> s]
  OBVIOUS
<1>2. w.kids = s /\ Len(w.kids) \in Nat
  BY <1>1, SequenceIs
<1>3. PICK h : /\ h[0] = <<>> /\ Tagged(w, tags) = h[Len(w.kids)]
               /\ \A i \in 1..Len(w.kids) : h[i] = IF w.kids[i].tag \in tags THEN Append(h[i - 1], w.kids[i]) ELSE h[i - 1]
  BY ONLY <1>2, TaggedPass
<1>4. /\ h[0] = <<>> /\ Only(s, tags) = h[Len(s)]
      /\ \A i \in 1..Len(s) : h[i] = IF s[i].tag \in tags THEN Append(h[i - 1], s[i]) ELSE h[i - 1]
  BY <1>1, <1>2, <1>3 DEF Only
<1> QED BY <1>4

\* All of them, when all have such a tag; none, when none has.
LEMMA OnlyAll ==
    ASSUME NEW s, IsSequence(s), NEW tags, \A i \in 1..Len(s) : s[i].tag \in tags
    PROVE  Only(s, tags) = s
<1>1. PICK n \in Nat : n = Len(s)
  BY SequenceIs
<1>2. PICK f : /\ f[0] = <<>> /\ Only(s, tags) = f[n]
               /\ \A i \in 1..n : f[i] = IF s[i].tag \in tags THEN Append(f[i - 1], s[i]) ELSE f[i - 1]
  BY <1>1, OnlyPass
<1>3. PICK S : S = {i \in 0..n : IsSequence(f[i]) /\ Len(f[i]) = i /\ \A j \in 1..i : f[i][j] = s[j]}
  OBVIOUS
<1>4. 0 \in S
  <2>1. IsSequence(f[0]) /\ Len(f[0]) = 0
    BY <1>2, NoSequence
  <2> QED BY <1>3, <2>1
<1>5. ASSUME NEW i \in 1..n, i - 1 \in S PROVE i \in S
  <2>1. PICK g : g = f[i - 1]
    OBVIOUS
  <2>2. IsSequence(g) /\ Len(g) = i - 1 /\ \A j \in 1..(i - 1) : g[j] = s[j]
    BY <1>3, <1>5, <2>1
  <2>3. f[i] = Append(g, s[i])
    BY <1>1, <1>2, <2>1
  <2>4. /\ IsSequence(Append(g, s[i])) /\ Len(Append(g, s[i])) = Len(g) + 1
        /\ \A j \in 1..Len(g) : Append(g, s[i])[j] = g[j]
        /\ Append(g, s[i])[Len(g) + 1] = s[i]
    BY <2>2, Appended
  <2>5. (i - 1) + 1 = i /\ \A j \in 1..i : j \in 1..(i - 1) \/ j = i
    OBVIOUS
  <2>6. IsSequence(f[i]) /\ Len(f[i]) = i /\ \A j \in 1..i : f[i][j] = s[j]
    BY <2>2, <2>3, <2>4, <2>5
  <2> QED BY <1>3, <2>6
<1>6. n \in S
  <2>1. 0 \in S /\ \A i \in 1..n : i - 1 \in S => i \in S
    BY <1>4, <1>5
  <2> QED BY ONLY <2>1, Onward, n \in Nat
<1>7. PICK r : r = f[n]
  OBVIOUS
<1>8. IsSequence(r) /\ Len(r) = n /\ \A j \in 1..n : r[j] = s[j]
  BY <1>3, <1>6, <1>7
<1>9. r = s
  <2>1. IsSequence(r) /\ IsSequence(s) /\ Len(r) = Len(s) /\ \A j \in 1..Len(r) : r[j] = s[j]
    BY <1>1, <1>8
  <2> QED BY ONLY <2>1, SameSequence
<1> QED BY <1>2, <1>7, <1>9

\* None, when none has such a tag.
LEMMA OnlyNone ==
    ASSUME NEW s, IsSequence(s), NEW tags, \A i \in 1..Len(s) : s[i].tag \notin tags
    PROVE  Only(s, tags) = <<>>
<1>1. PICK n \in Nat : n = Len(s)
  BY SequenceIs
<1>2. PICK f : /\ f[0] = <<>> /\ Only(s, tags) = f[n]
               /\ \A i \in 1..n : f[i] = IF s[i].tag \in tags THEN Append(f[i - 1], s[i]) ELSE f[i - 1]
  BY <1>1, OnlyPass
<1>3. PICK S : S = {i \in 0..n : f[i] = <<>>}
  OBVIOUS
<1>4. 0 \in S /\ \A i \in 1..n : i - 1 \in S => i \in S
  BY <1>1, <1>2, <1>3
<1>5. n \in S
  BY ONLY <1>4, Onward, n \in Nat
<1> QED BY <1>2, <1>3, <1>5

\* Whoever has such a tag is among them.
LEMMA OnlyHas ==
    ASSUME NEW s, IsSequence(s), NEW tags, NEW m \in 1..Len(s), s[m].tag \in tags
    PROVE  Only(s, tags) # <<>>
<1>1. PICK n \in Nat : n = Len(s)
  BY SequenceIs
<1>2. PICK f : /\ f[0] = <<>> /\ Only(s, tags) = f[n]
               /\ \A i \in 1..n : f[i] = IF s[i].tag \in tags THEN Append(f[i - 1], s[i]) ELSE f[i - 1]
  BY <1>1, OnlyPass
<1>3. PICK S : S = {i \in 0..n : IsSequence(f[i]) /\ (i >= m => Len(f[i]) >= 1)}
  OBVIOUS
<1>4. 0 \in S
  <2>1. IsSequence(f[0]) /\ ~(0 >= m)
    BY <1>1, <1>2, NoSequence
  <2> QED BY <1>3, <2>1
<1>5. ASSUME NEW i \in 1..n, i - 1 \in S PROVE i \in S
  <2>1. PICK g : g = f[i - 1]
    OBVIOUS
  <2>2. IsSequence(g) /\ (i - 1 >= m => Len(g) >= 1) /\ Len(g) \in Nat
    <3>1. IsSequence(g) /\ (i - 1 >= m => Len(g) >= 1)
      BY <1>3, <1>5, <2>1
    <3> QED BY <3>1, SequenceIs
  <2>3. /\ IsSequence(Append(g, s[i])) /\ Len(Append(g, s[i])) = Len(g) + 1
    BY <2>2, Appended
  <2>4. CASE s[i].tag \in tags
    <3>1. f[i] = Append(g, s[i])
      BY <1>2, <2>1, <2>4
    <3>2. IsSequence(f[i]) /\ Len(f[i]) >= 1
      BY <2>2, <2>3, <3>1
    <3> QED BY <1>3, <3>2
  <2>5. CASE s[i].tag \notin tags
    <3>1. f[i] = g /\ i # m
      BY <1>2, <2>1, <2>5
    <3>2. i >= m => i - 1 >= m
      BY <1>1, <3>1
    <3> QED BY <1>3, <2>2, <3>1, <3>2
  <2> QED BY <2>4, <2>5
<1>6. n \in S
  <2>1. 0 \in S /\ \A i \in 1..n : i - 1 \in S => i \in S
    BY <1>4, <1>5
  <2> QED BY ONLY <2>1, Onward, n \in Nat
<1>7. Len(f[n]) >= 1
  BY <1>1, <1>3, <1>6
<1> QED BY <1>2, <1>7

\* Of two sequences, one after the other.
LEMMA OnlyThen ==
    ASSUME NEW s, IsSequence(s), NEW t, IsSequence(t), NEW tags
    PROVE  Only(s \o t, tags) = Only(s, tags) \o Only(t, tags)
<1>1. PICK n \in Nat : n = Len(s)
  BY SequenceIs
<1>2. PICK m \in Nat : m = Len(t)
  BY SequenceIs
<1>3. PICK z : z = s \o t
  OBVIOUS
<1>4. /\ IsSequence(z) /\ Len(z) = n + m
      /\ \A i \in 1..n : z[i] = s[i]
      /\ \A j \in 1..m : z[n + j] = t[j]
  BY <1>1, <1>2, <1>3, ConcatIs
<1>5. PICK f : /\ f[0] = <<>> /\ Only(s, tags) = f[n]
               /\ \A i \in 1..n : f[i] = IF s[i].tag \in tags THEN Append(f[i - 1], s[i]) ELSE f[i - 1]
  BY <1>1, OnlyPass
<1>6. PICK g : /\ g[0] = <<>> /\ Only(t, tags) = g[m]
               /\ \A i \in 1..m : g[i] = IF t[i].tag \in tags THEN Append(g[i - 1], t[i]) ELSE g[i - 1]
  BY <1>2, OnlyPass
<1>7. PICK h : /\ h[0] = <<>> /\ Only(z, tags) = h[n + m]
               /\ \A i \in 1..(n + m) : h[i] = IF z[i].tag \in tags THEN Append(h[i - 1], z[i]) ELSE h[i - 1]
  <2>1. \E h : /\ h[0] = <<>> /\ Only(z, tags) = h[Len(z)]
               /\ \A i \in 1..Len(z) : h[i] = IF z[i].tag \in tags THEN Append(h[i - 1], z[i]) ELSE h[i - 1]
    BY <1>4, OnlyPass
  <2> QED BY <1>4, <2>1
<1>8. f[n] = h[n]
  <2>1. \A i \in 1..n : i \in 1..(n + m)
    OBVIOUS
  <2>2. f[0] = h[0] /\ \A i \in 1..n : f[i - 1] = h[i - 1] => f[i] = h[i]
    BY <1>4, <1>5, <1>7, <2>1
  <2> QED BY ONLY <2>2, Alike, n \in Nat
<1>9. PICK a : a = f[n]
  OBVIOUS
<1>10. IsSequence(a)
  <2>1. Only(s, tags) = a /\ IsSequence(Only(s, tags))
    <3>1. IsSequence([kids |-> s].kids)
      OBVIOUS
    <3>2. IsSequence(Tagged([kids |-> s], tags))
      BY ONLY <3>1, TaggedIs
    <3> QED BY <1>5, <1>9, <3>2 DEF Only
  <2> QED BY <2>1
<1>11. PICK S : S = {j \in 0..m : IsSequence(g[j]) /\ h[n + j] = a \o g[j]}
  OBVIOUS
<1>12. 0 \in S
  <2>1. IsSequence(g[0]) /\ a \o g[0] = a /\ n + 0 = n /\ 0 \in 0..m
    BY <1>6, <1>10, NoSequence, ConcatNone
  <2> QED BY <1>8, <1>9, <1>11, <2>1
<1>13. ASSUME NEW j \in 1..m, j - 1 \in S PROVE j \in S
  <2>1. PICK u : u = g[j - 1]
    OBVIOUS
  <2>2. IsSequence(u) /\ h[n + (j - 1)] = a \o u
    BY <1>11, <1>13, <2>1
  <2>3. n + j \in 1..(n + m) /\ (n + j) - 1 = n + (j - 1)
    OBVIOUS
  <2>4. PICK v : v = t[j]
    OBVIOUS
  <2>5. h[n + j] = IF v.tag \in tags THEN Append(a \o u, v) ELSE a \o u
    BY <1>4, <1>7, <2>2, <2>3, <2>4
  <2>6. g[j] = IF v.tag \in tags THEN Append(u, v) ELSE u
    BY <1>6, <2>1, <2>4
  <2>7. IsSequence(Append(u, v)) /\ Append(a \o u, v) = a \o Append(u, v)
    <3>1. IsSequence(<<v>>) /\ IsSequence(a \o u)
      BY <1>10, <2>2, Tuples, ConcatIs
    <3>2. Append(a \o u, v) = (a \o u) \o <<v>>
      BY <3>1, AppendIs
    <3>3. Append(u, v) = u \o <<v>>
      BY <2>2, AppendIs
    <3>4. PICK o : o = <<v>>
      OBVIOUS
    <3>5. (a \o u) \o o = a \o (u \o o)
      BY <1>10, <2>2, <3>1, <3>4, ConcatThree
    <3>6. IsSequence(Append(u, v))
      BY <2>2, Appended
    <3> QED BY <3>2, <3>3, <3>4, <3>5, <3>6
  <2>8. IsSequence(g[j]) /\ h[n + j] = a \o g[j]
    BY <2>2, <2>5, <2>6, <2>7
  <2> QED BY <1>11, <2>8
<1>14. m \in S
  <2>1. 0 \in S /\ \A i \in 1..m : i - 1 \in S => i \in S
    BY <1>12, <1>13
  <2> QED BY ONLY <2>1, Onward, m \in Nat
<1>15. IsSequence(g[m]) /\ h[n + m] = a \o g[m]
  BY <1>11, <1>14
<1> QED BY <1>3, <1>5, <1>6, <1>7, <1>9, <1>10, <1>15

-----------------------------------------------------------------------------
(***************************************************************************)
(* Reading what was written (xml.ts). Tokens put nodes below the element   *)
(* that is open, whatever is above it and beside them, if there is room.   *)
(***************************************************************************)

\* The reader below an open element, which has some children.
State(below, tag, attrs, kids, root) ==
    [open |-> Append(below, Element(tag, attrs, kids)), root |-> root, bad |-> FALSE]

\* The last of a longer sequence, and what is before it.
LEMMA LastIs ==
    ASSUME NEW s, IsSequence(s), NEW x
    PROVE  /\ Append(s, x) # <<>> /\ Last(Append(s, x)) = x /\ Front(Append(s, x)) = s
           /\ \A y : [Append(s, x) EXCEPT ![Len(s) + 1] = y] = Append(s, y)
<1>1. PICK n \in Nat : n = Len(s)
  BY SequenceIs
<1>2. PICK a : a = Append(s, x)
  OBVIOUS
<1>3. IsSequence(a) /\ Len(a) = n + 1 /\ a[n + 1] = x /\ \A i \in 1..n : a[i] = s[i]
  BY <1>1, <1>2, Appended
<1>4. a # <<>> /\ Last(a) = x
  BY <1>3 DEF Last
<1>5. Front(a) = s
  <2>1. Front(a) = [i \in 1..n |-> a[i]]
    BY <1>3 DEF Front, SubSeq
  <2>2. s = [i \in 1..n |-> s[i]]
    BY <1>1, SequenceIs
  <2> QED BY <1>3, <2>1, <2>2
<1>6. ASSUME NEW y PROVE [a EXCEPT ![n + 1] = y] = Append(s, y)
  <2>1. PICK r : r = [a EXCEPT ![n + 1] = y]
    OBVIOUS
  <2>2. PICK b : b = Append(s, y)
    OBVIOUS
  <2>3. IsSequence(b) /\ Len(b) = n + 1 /\ b[n + 1] = y /\ \A i \in 1..n : b[i] = s[i]
    BY <1>1, <2>2, Appended
  <2>4. DOMAIN a = 1..(n + 1) /\ b = [i \in 1..(n + 1) |-> b[i]]
    BY <1>3, <2>3, SequenceIs
  <2>5. r = [i \in 1..(n + 1) |-> IF i = n + 1 THEN y ELSE a[i]]
    BY <2>1, <2>4
  <2>6. \A i \in 1..(n + 1) : (IF i = n + 1 THEN y ELSE a[i]) = b[i]
    BY <1>3, <2>3
  <2> QED BY <2>1, <2>2, <2>4, <2>5, <2>6
<1> QED BY <1>1, <1>2, <1>4, <1>5, <1>6

\* A child comes below the open element.
LEMMA AttachIs ==
    ASSUME NEW below, IsSequence(below), NEW tag, NEW attrs, NEW kids, NEW root, NEW node
    PROVE  Attach(State(below, tag, attrs, kids, root), node) = State(below, tag, attrs, Append(kids, node), root)
<1>1. PICK e : e = Element(tag, attrs, kids)
  OBVIOUS
<1>2. PICK k : k = Append(kids, node)
  OBVIOUS
<1>3. PICK g : g = Element(tag, attrs, k)
  OBVIOUS
<1>4. PICK n \in Nat : n = Len(below)
  BY SequenceIs
<1>5. PICK open : open = Append(below, e)
  OBVIOUS
<1>6. Len(open) = n + 1 /\ open[n + 1] = e /\ open # <<>> /\ DOMAIN open = 1..(n + 1)
  <2>1. IsSequence(open) /\ Len(open) = n + 1 /\ open[n + 1] = e /\ open # <<>>
    BY <1>4, <1>5, Appended, LastIs
  <2> QED BY <2>1, SequenceIs
<1>7. [open EXCEPT ![n + 1] = g] = Append(below, g)
  BY <1>4, <1>5, LastIs
<1>8. [e EXCEPT !.kids = k] = g /\ e.kids = kids
  BY <1>1, <1>3 DEF Element
<1>9. [open EXCEPT ![n + 1].kids = Append(@, node)] = [open EXCEPT ![n + 1] = g]
  <2>1. [open EXCEPT ![n + 1].kids = Append(@, node)]
          = [open EXCEPT ![n + 1] = [open[n + 1] EXCEPT !.kids = Append(open[n + 1].kids, node)]]
    OBVIOUS
  <2> QED BY <1>2, <1>6, <1>8, <2>1, Zenon
<1>10. PICK s : s = [open |-> open, root |-> root, bad |-> FALSE]
  OBVIOUS
<1>11. s.open = open
  BY <1>10
<1>12. Attach(s, node) = [s EXCEPT !.open[Len(s.open)].kids = Append(@, node)]
  BY <1>6, <1>11 DEF Attach
<1>13. Attach(s, node) = [s EXCEPT !.open = [open EXCEPT ![n + 1].kids = Append(@, node)]]
  BY <1>6, <1>11, <1>12, Zenon
<1>14. Attach(s, node) = [open |-> Append(below, g), root |-> root, bad |-> FALSE]
  BY <1>7, <1>9, <1>10, <1>13
<1> QED BY <1>1, <1>2, <1>3, <1>5, <1>10, <1>14 DEF State

\* The end tag of the open element puts it below the one before.
LEMMA CloseIs ==
    ASSUME NEW below, IsSequence(below), NEW tag, NEW attrs, NEW kids, NEW root,
           NEW own, NEW has, NEW inner
    PROVE  Close(State(Append(below, Element(tag, attrs, kids)), own, has, inner, root), own)
             = State(below, tag, attrs, Append(kids, Element(own, has, inner)), root)
<1>1. PICK e : e = Element(own, has, inner)
  OBVIOUS
<1>2. PICK p : p = Append(below, Element(tag, attrs, kids))
  OBVIOUS
<1>3. IsSequence(p)
  BY <1>2, Appended
<1>4. PICK open : open = Append(p, e)
  OBVIOUS
<1>5. open # <<>> /\ Last(open) = e /\ Front(open) = p
  BY <1>3, <1>4, LastIs
<1>6. PICK s : s = [open |-> open, root |-> root, bad |-> FALSE]
  OBVIOUS
<1>7. s.open = open /\ e.tag = own
  BY <1>1, <1>6 DEF Element
<1>8. Close(s, own) = Attach([s EXCEPT !.open = Front(@)], Last(s.open))
  BY <1>5, <1>7 DEF Close
<1>9. [s EXCEPT !.open = Front(@)] = [open |-> p, root |-> root, bad |-> FALSE]
  <2>1. Front(s.open) = p
    BY <1>5, <1>7
  <2>2. PICK r : r = [s EXCEPT !.open = p]
    OBVIOUS
  <2>3. DOMAIN s = {"open", "root", "bad"} /\ s.root = root /\ s.bad = FALSE
    BY <1>6
  <2>4. r = [open |-> p, root |-> root, bad |-> FALSE]
    BY <2>2, <2>3
  <2> QED BY <2>1, <2>2, <2>4, Zenon
<1>10. Close(s, own) = Attach(State(below, tag, attrs, kids, root), e)
  BY <1>2, <1>5, <1>7, <1>8, <1>9 DEF State
<1>11. Attach(State(below, tag, attrs, kids, root), e) = State(below, tag, attrs, Append(kids, e), root)
  BY AttachIs
<1> QED BY <1>1, <1>2, <1>4, <1>6, <1>10, <1>11 DEF State

\* Reading the tokens below an open element with room for d more puts the nodes
\* after its children.
Puts(tokens, nodes, d) ==
    /\ IsDocument(tokens) /\ IsSequence(nodes)
    /\ \A below, tag, attrs, kids, root :
         IsSequence(below) /\ IsSequence(kids) /\ Len(below) + d <= MaxDepth =>
           Reads(State(below, tag, attrs, kids, root), tokens) = State(below, tag, attrs, kids \o nodes, root)

\* What it says of one state of the reader.
LEMMA PutsReads ==
    ASSUME NEW x, NEW a, NEW d, Puts(x, a, d), NEW below, NEW tag, NEW attrs, NEW kids, NEW root,
           IsSequence(below), IsSequence(kids), Len(below) + d <= MaxDepth
    PROVE  Reads(State(below, tag, attrs, kids, root), x) = State(below, tag, attrs, kids \o a, root)
  BY DEF Puts

\* No token puts no node.
LEMMA PutsNone == Puts(<<>>, <<>>, 0)
<1>1. IsDocument(<<>>)
  BY NoSequence DEF IsDocument
<1>2. ASSUME NEW below, NEW tag, NEW attrs, NEW kids, NEW root, IsSequence(kids)
      PROVE  Reads(State(below, tag, attrs, kids, root), <<>>) = State(below, tag, attrs, kids \o <<>>, root)
  BY <1>2, ReadsNone, ConcatNone
<1> QED BY <1>1, <1>2, NoSequence DEF Puts

\* More room does not matter.
LEMMA PutsMore ==
    ASSUME NEW x, NEW a, NEW d \in Nat, Puts(x, a, d), NEW e \in Nat, d <= e
    PROVE  Puts(x, a, e)
<1>1. ASSUME NEW below, IsSequence(below), Len(below) + e <= MaxDepth PROVE Len(below) + d <= MaxDepth
  <2>1. Len(below) \in Nat
    BY <1>1, SequenceIs
  <2> QED BY <1>1, <2>1, DepthAssumption
<1> QED BY <1>1 DEF Puts

\* One document after another.
LEMMA DocumentThen ==
    ASSUME NEW x, IsDocument(x), NEW y, IsDocument(y)
    PROVE  IsDocument(x \o y)
<1>1. /\ IsSequence(x) /\ IsSequence(y)
      /\ \A i \in 1..Len(x) : Legible(x[i])
      /\ \A i \in 1..Len(y) : Legible(y[i])
  BY DEF IsDocument
<1>2. /\ IsSequence(x \o y)
      /\ \A i \in 1..Len(x) : (x \o y)[i] = x[i]
      /\ \A j \in 1..Len(y) : (x \o y)[Len(x) + j] = y[j]
      /\ \A i \in 1..Len(x \o y) : i \in 1..Len(x) \/ \E j \in 1..Len(y) : i = Len(x) + j
  BY <1>1, ConcatIs
<1>3. \A i \in 1..Len(x \o y) : Legible((x \o y)[i])
  BY <1>1, <1>2
<1> QED BY <1>2, <1>3 DEF IsDocument

\* One after the other.
LEMMA PutsThen ==
    ASSUME NEW x, NEW a, NEW y, NEW b, NEW d \in Nat, Puts(x, a, d), Puts(y, b, d)
    PROVE  Puts(x \o y, a \o b, d)
<1>1. /\ IsSequence(x) /\ IsSequence(y) /\ IsSequence(a) /\ IsSequence(b)
      /\ \A i \in 1..Len(x) : Legible(x[i])
      /\ \A i \in 1..Len(y) : Legible(y[i])
  BY DEF Puts, IsDocument
<1>2. IsDocument(x \o y)
  <2>1. IsDocument(x) /\ IsDocument(y)
    BY DEF Puts
  <2> QED BY ONLY <2>1, DocumentThen
<1>3. IsSequence(a \o b)
  BY <1>1, ConcatIs
<1>4. ASSUME NEW below, NEW tag, NEW attrs, NEW kids, NEW root,
             IsSequence(below), IsSequence(kids), Len(below) + d <= MaxDepth
      PROVE  Reads(State(below, tag, attrs, kids, root), x \o y)
               = State(below, tag, attrs, kids \o (a \o b), root)
  <2>1. PICK k : k = kids \o a
    OBVIOUS
  <2>2. IsSequence(k) /\ k \o b = kids \o (a \o b)
    <3>1. IsSequence(kids \o a)
      BY <1>1, <1>4, ConcatIs
    <3>2. (kids \o a) \o b = kids \o (a \o b)
      BY <1>1, <1>4, ConcatThree
    <3> QED BY <2>1, <3>1, <3>2
  <2>3. PICK s : s = State(below, tag, attrs, kids, root)
    OBVIOUS
  <2>4. PICK t : t = State(below, tag, attrs, k, root)
    OBVIOUS
  <2>5. Reads(s, x) = t
    BY <1>4, <2>1, <2>3, <2>4 DEF Puts
  <2>6. Reads(t, y) = State(below, tag, attrs, k \o b, root)
    <3>1. IsSequence(below) /\ Len(below) + d <= MaxDepth /\ IsSequence(k)
      BY <1>4, <2>2
    <3>2. Puts(y, b, d)
      OBVIOUS
    <3>3. Reads(State(below, tag, attrs, k, root), y) = State(below, tag, attrs, k \o b, root)
      BY ONLY <3>1, <3>2, PutsReads
    <3> QED BY <2>4, <3>3
  <2>7. Reads(s, x \o y) = Reads(Reads(s, x), y)
    BY <1>1, ReadsThen
  <2> QED BY <2>2, <2>3, <2>5, <2>6, <2>7
<1> QED BY <1>2, <1>3, <1>4 DEF Puts

\* A token that is a document by itself.
LEMMA OneToken ==
    ASSUME NEW t, Legible(t)
    PROVE  IsDocument(<<t>>)
<1>1. PICK s : s = <<t>>
  OBVIOUS
<1>2. IsSequence(s) /\ Len(s) = 1 /\ s[1] = t
  BY <1>1, Tuples
<1>3. \A i \in 1..Len(s) : Legible(s[i])
  BY <1>2
<1> QED BY <1>1, <1>2, <1>3 DEF IsDocument

\* A token that puts one node.
LEMMA PutsOne ==
    ASSUME NEW t, Legible(t), NEW node, NEW d \in Nat,
           \A below, tag, attrs, kids, root :
             IsSequence(below) /\ IsSequence(kids) /\ Len(below) + d <= MaxDepth =>
               ReadToken(State(below, tag, attrs, kids, root), t)
                 = State(below, tag, attrs, Append(kids, node), root)
    PROVE  Puts(<<t>>, <<node>>, d)
<1>1. IsDocument(<<t>>) /\ IsSequence(<<node>>)
  BY OneToken, Tuples
<1>2. ASSUME NEW below, NEW tag, NEW attrs, NEW kids, NEW root,
             IsSequence(below), IsSequence(kids), Len(below) + d <= MaxDepth
      PROVE  Reads(State(below, tag, attrs, kids, root), <<t>>) = State(below, tag, attrs, kids \o <<node>>, root)
  <2>1. Append(kids, node) = kids \o <<node>>
    BY <1>2, AppendIs
  <2>2. PICK s : s = State(below, tag, attrs, kids, root)
    OBVIOUS
  <2>3. Reads(s, <<t>>) = ReadToken(s, t)
    BY ReadsOne
  <2>4. ReadToken(s, t) = State(below, tag, attrs, Append(kids, node), root)
    BY <1>2, <2>2
  <2> QED BY <2>1, <2>2, <2>3, <2>4, Zenon
<1> QED BY <1>1, <1>2 DEF Puts

\* A text.
LEMMA PutsText ==
    ASSUME NEW words, Plain(words)
    PROVE  Puts(<<Text(Escape(words))>>, <<TextNode(words)>>, 0)
<1>1. PICK w : w = Escape(words)
  OBVIOUS
<1>2. IsSequence(w) /\ Unescape(w) = words
  BY <1>1, EscapedIs
<1>3. PICK t : t = Text(w)
  OBVIOUS
<1>4. t.is = "text" /\ t.attrs.words = w
  BY <1>3 DEF Text
<1>5. Legible(t)
  BY <1>2, <1>4 DEF Legible, IsSequence
<1>6. ASSUME NEW below, NEW tag, NEW attrs, NEW kids, NEW root, IsSequence(below)
      PROVE  ReadToken(State(below, tag, attrs, kids, root), t)
               = State(below, tag, attrs, Append(kids, TextNode(words)), root)
  <2>1. PICK s : s = State(below, tag, attrs, kids, root)
    OBVIOUS
  <2>2. ~s.bad
    BY <2>1 DEF State
  <2>3. ReadToken(s, t) = Attach(s, TextNode(words))
    BY <1>2, <1>4, <2>2 DEF ReadToken
  <2> QED BY <1>6, <2>1, <2>3, AttachIs
<1>7. PICK node : node = TextNode(words)
  OBVIOUS
<1>8. Puts(<<t>>, <<node>>, 0)
  <2>1. \A below, tag, attrs, kids, root :
             IsSequence(below) /\ IsSequence(kids) /\ Len(below) + 0 <= MaxDepth =>
               ReadToken(State(below, tag, attrs, kids, root), t)
                 = State(below, tag, attrs, Append(kids, node), root)
    BY <1>6, <1>7
  <2> QED BY ONLY <1>5, <2>1, PutsOne, 0 \in Nat
<1> QED BY <1>1, <1>3, <1>7, <1>8

\* There is room for an element.
LEMMA HasRoom ==
    ASSUME NEW below, IsSequence(below), NEW tag, NEW attrs, NEW kids, NEW root, Len(below) + 1 <= MaxDepth
    PROVE  ~Full(State(below, tag, attrs, kids, root)) /\ ~State(below, tag, attrs, kids, root).bad
<1>1. PICK e : e = Element(tag, attrs, kids)
  OBVIOUS
<1>2. Len(below) \in Nat
  BY SequenceIs
<1>3. Len(Append(below, e)) = Len(below) + 1 /\ Append(below, e) # <<>>
  BY Appended, LastIs
<1>4. PICK s : s = State(below, tag, attrs, kids, root)
  OBVIOUS
<1>5. s.open = Append(below, e) /\ ~s.bad
  BY <1>1, <1>4 DEF State
<1>6. ~Full(s)
  BY <1>2, <1>3, <1>5, DepthAssumption DEF Full
<1> QED BY <1>4, <1>5, <1>6

\* An empty element.
LEMMA PutsEmpty ==
    ASSUME NEW own, own # TextTag, NEW has
    PROVE  Puts(<<Empty(own, has)>>, <<Element(own, has, <<>>)>>, 1)
<1>1. PICK t : t = Empty(own, has)
  OBVIOUS
<1>2. t.is = "empty" /\ t.tag = own /\ t.attrs = has
  BY <1>1 DEF Empty
<1>3. Legible(t)
  BY <1>2 DEF Legible
<1>4. PICK node : node = Element(own, has, <<>>)
  OBVIOUS
<1>5. ASSUME NEW below, NEW tag, NEW attrs, NEW kids, NEW root, IsSequence(below), Len(below) + 1 <= MaxDepth
      PROVE  ReadToken(State(below, tag, attrs, kids, root), t)
               = State(below, tag, attrs, Append(kids, node), root)
  <2>1. PICK s : s = State(below, tag, attrs, kids, root)
    OBVIOUS
  <2>2. ~Full(s) /\ ~s.bad
    BY <1>5, <2>1, HasRoom
  <2>3. ReadToken(s, t) = Attach(s, node)
    BY <1>2, <1>4, <2>2 DEF ReadToken
  <2> QED BY <1>5, <2>1, <2>3, AttachIs
<1>6. Puts(<<t>>, <<node>>, 1)
  <2>1. \A below, tag, attrs, kids, root :
             IsSequence(below) /\ IsSequence(kids) /\ Len(below) + 1 <= MaxDepth =>
               ReadToken(State(below, tag, attrs, kids, root), t)
                 = State(below, tag, attrs, Append(kids, node), root)
    BY <1>5
  <2> QED BY ONLY <1>3, <2>1, PutsOne, 1 \in Nat
<1> QED BY <1>1, <1>4, <1>6

\* An element with the tokens of its children.
LEMMA PutsWrap ==
    ASSUME NEW own, own # TextTag, NEW has, NEW x, NEW a, NEW d \in Nat, Puts(x, a, d)
    PROVE  Puts(Wrap(own, has, x), <<Element(own, has, a)>>, d + 1)
<1>1. PICK t : t = Start(own, has)
  OBVIOUS
<1>2. PICK u : u = End(own)
  OBVIOUS
<1>3. /\ t.is = "start" /\ t.tag = own /\ t.attrs = has /\ Legible(t)
      /\ u.is = "end" /\ u.tag = own /\ Legible(u)
  BY <1>1, <1>2 DEF Start, End, Legible
<1>4. PICK first : first = <<t>>
  OBVIOUS
<1>5. PICK last : last = <<u>>
  OBVIOUS
<1>6. IsDocument(first) /\ IsDocument(last) /\ IsDocument(x) /\ IsSequence(a)
  BY <1>3, <1>4, <1>5, OneToken DEF Puts
<1>7. IsSequence(first) /\ IsSequence(last) /\ IsSequence(x)
  BY <1>6 DEF IsDocument
<1>8. IsDocument(first \o x)
  BY ONLY <1>6, DocumentThen
<1>9. IsDocument((first \o x) \o last)
  BY ONLY <1>6, <1>8, DocumentThen
<1>10. PICK node : node = Element(own, has, a)
  OBVIOUS
<1>11. ASSUME NEW below, NEW tag, NEW attrs, NEW kids, NEW root,
              IsSequence(below), IsSequence(kids), Len(below) + (d + 1) <= MaxDepth
       PROVE  Reads(State(below, tag, attrs, kids, root), (first \o x) \o last)
                = State(below, tag, attrs, kids \o <<node>>, root)
  <2>1. PICK s : s = State(below, tag, attrs, kids, root)
    OBVIOUS
  <2>2. PICK e : e = Element(tag, attrs, kids)
    OBVIOUS
  <2>3. PICK p : p = Append(below, e)
    OBVIOUS
  <2>4. IsSequence(p) /\ Len(p) = Len(below) + 1 /\ Len(below) \in Nat
    BY <1>11, <2>3, Appended, SequenceIs
  <2>5. Len(below) + 1 <= MaxDepth /\ Len(p) + d <= MaxDepth
    BY <1>11, <2>4, DepthAssumption
  <2>6. ~Full(s) /\ ~s.bad
    BY <1>11, <2>1, <2>5, HasRoom
  <2>7. s = [open |-> p, root |-> root, bad |-> FALSE]
    BY <2>1, <2>2, <2>3 DEF State
  <2>8. PICK s1 : s1 = State(p, own, has, <<>>, root)
    OBVIOUS
  <2>9. ReadToken(s, t) = s1
    <3>1. ReadToken(s, t) = [s EXCEPT !.open = Append(@, Element(own, has, <<>>))]
      BY <1>3, <2>6 DEF ReadToken
    <3>2. PICK r : r = [s EXCEPT !.open = Append(@, Element(own, has, <<>>))]
      OBVIOUS
    <3>3. DOMAIN s = {"open", "root", "bad"} /\ s.open = p /\ s.root = root /\ s.bad = FALSE
      BY <2>7
    <3>4. r = [open |-> Append(p, Element(own, has, <<>>)), root |-> root, bad |-> FALSE]
      BY <3>2, <3>3
    <3> QED BY <2>8, <3>1, <3>2, <3>4 DEF State
  <2>10. PICK s2 : s2 = State(p, own, has, a, root)
    OBVIOUS
  <2>11. Reads(s1, x) = s2
    <3>1. PICK none : none = <<>>
      OBVIOUS
    <3>2. IsSequence(none) /\ none \o a = a
      BY <1>6, <3>1, NoSequence, ConcatNone
    <3>3. IsSequence(p) /\ Len(p) + d <= MaxDepth
      BY <2>4, <2>5
    <3>4. Puts(x, a, d)
      OBVIOUS
    <3>5. Reads(State(p, own, has, none, root), x) = State(p, own, has, none \o a, root)
      <4>1. PICK k : k = none
        OBVIOUS
      <4>2. IsSequence(k) /\ IsSequence(p) /\ Len(p) + d <= MaxDepth
        BY <3>2, <3>3, <4>1
      <4>3. PICK r : r = root
        OBVIOUS
      <4>4. Reads(State(p, own, has, k, r), x) = State(p, own, has, k \o a, r)
        BY ONLY <4>2, <3>4, PutsReads
      <4> QED BY <4>1, <4>3, <4>4
    <3> QED BY <2>8, <2>10, <3>1, <3>2, <3>5
  <2>12. ReadToken(s2, u) = State(below, tag, attrs, Append(kids, node), root)
    <3>1. ~s2.bad
      BY <2>10 DEF State
    <3>2. ReadToken(s2, u) = Close(s2, own)
      BY <1>3, <3>1 DEF ReadToken
    <3>3. Close(s2, own) = State(below, tag, attrs, Append(kids, node), root)
      BY <1>10, <1>11, <2>2, <2>3, <2>10, CloseIs
    <3> QED BY <3>2, <3>3
  <2>13. Append(kids, node) = kids \o <<node>>
    BY <1>11, AppendIs
  <2>14. Reads(s, (first \o x) \o last) = Reads(Reads(Reads(s, first), x), last)
    <3>1. IsSequence(first \o x)
      BY <1>7, ConcatIs
    <3>2. Reads(s, (first \o x) \o last) = Reads(Reads(s, first \o x), last)
      BY <1>7, <3>1, ReadsThen
    <3>3. Reads(s, first \o x) = Reads(Reads(s, first), x)
      BY <1>7, ReadsThen
    <3> QED BY <3>2, <3>3
  <2>15. Reads(s, first) = s1
    BY <1>4, <2>9, ReadsOne
  <2>16. Reads(s2, last) = State(below, tag, attrs, Append(kids, node), root)
    BY <1>5, <2>12, ReadsOne
  <2> QED BY <2>1, <2>11, <2>13, <2>14, <2>15, <2>16, Zenon
<1>12. IsSequence(<<node>>)
  BY Tuples
<1>13. PICK z : z = Wrap(own, has, x)
  OBVIOUS
<1>14. z = (first \o x) \o last
  BY <1>1, <1>2, <1>4, <1>5, <1>13 DEF Wrap
<1>15. Puts(z, <<node>>, d + 1)
  BY <1>9, <1>11, <1>12, <1>14 DEF Puts
<1> QED BY <1>10, <1>13, <1>15

\* Sequences of tokens joined put their nodes joined.
LEMMA PutsJoined ==
    ASSUME NEW x, IsSequence(x), NEW a, IsSequence(a), Len(a) = Len(x), NEW d \in Nat,
           \A i \in 1..Len(x) : Puts(x[i], a[i], d)
    PROVE  Puts(Joined(x), Joined(a), d)
<1>1. PICK n \in Nat : n = Len(x)
  BY SequenceIs
<1>2. PICK f : f[0] = <<>> /\ Joined(x) = f[n] /\ \A i \in 1..n : f[i] = f[i - 1] \o x[i]
  BY <1>1, JoinedPass
<1>3. PICK g : g[0] = <<>> /\ Joined(a) = g[n] /\ \A i \in 1..n : g[i] = g[i - 1] \o a[i]
  <2>1. Len(a) \in Nat
    BY <1>1
  <2>2. \E g : /\ g[0] = <<>> /\ Joined(a) = g[Len(a)]
               /\ \A i \in 1..Len(a) : g[i] = g[i - 1] \o a[i]
    BY ONLY <2>1, JoinedPass
  <2> QED BY <1>1, <2>2
<1>4. PICK S : S = {i \in 0..n : Puts(f[i], g[i], d)}
  OBVIOUS
<1>5. 0 \in S
  <2>1. Puts(<<>>, <<>>, 0) /\ 0 \in Nat /\ 0 <= d
    BY PutsNone
  <2>2. Puts(<<>>, <<>>, d)
    BY <2>1, PutsMore
  <2> QED BY <1>2, <1>3, <1>4, <2>2
<1>6. ASSUME NEW i \in 1..n, i - 1 \in S PROVE i \in S
  <2>1. PICK y : y = f[i - 1]
    OBVIOUS
  <2>2. PICK b : b = g[i - 1]
    OBVIOUS
  <2>3. Puts(y, b, d) /\ Puts(x[i], a[i], d)
    BY <1>1, <1>4, <1>6, <2>1, <2>2
  <2>4. Puts(y \o x[i], b \o a[i], d)
    BY ONLY <2>3, PutsThen, d \in Nat
  <2>5. f[i] = y \o x[i] /\ g[i] = b \o a[i]
    BY <1>2, <1>3, <2>1, <2>2
  <2>6. Puts(f[i], g[i], d)
    BY <2>4, <2>5, Zenon
  <2>7. i \in 0..n
    OBVIOUS
  <2> QED BY <1>4, <2>6, <2>7, Zenon
<1>7. n \in S
  <2>1. 0 \in S /\ \A i \in 1..n : i - 1 \in S => i \in S
    BY <1>5, <1>6
  <2> QED BY ONLY <2>1, Onward, n \in Nat
<1> QED BY <1>2, <1>3, <1>4, <1>7

\* A sequence is its elements joined.
LEMMA JoinedSingles ==
    ASSUME NEW s, IsSequence(s), NEW x, x = [i \in 1..Len(s) |-> <<s[i]>>]
    PROVE  IsSequence(x) /\ Len(x) = Len(s) /\ Joined(x) = s
<1>1. PICK n \in Nat : n = Len(s)
  BY SequenceIs
<1>2. IsSequence(x) /\ Len(x) = n
  <2>1. x = [i \in 1..n |-> x[i]]
    BY <1>1
  <2> QED BY <2>1, Mapped
<1>3. PICK f : f[0] = <<>> /\ Joined(x) = f[n] /\ \A i \in 1..n : f[i] = f[i - 1] \o x[i]
  <2>1. Len(x) \in Nat
    BY <1>2
  <2>2. \E g : /\ g[0] = <<>> /\ Joined(x) = g[Len(x)]
               /\ \A i \in 1..Len(x) : g[i] = g[i - 1] \o x[i]
    BY ONLY <2>1, JoinedPass
  <2> QED BY <1>2, <2>2
<1>4. PICK S : S = {i \in 0..n : IsSequence(f[i]) /\ Len(f[i]) = i /\ \A j \in 1..i : f[i][j] = s[j]}
  OBVIOUS
<1>5. 0 \in S
  <2>1. IsSequence(f[0]) /\ Len(f[0]) = 0
    BY <1>3, NoSequence
  <2> QED BY <1>4, <2>1
<1>6. ASSUME NEW i \in 1..n, i - 1 \in S PROVE i \in S
  <2>1. PICK g : g = f[i - 1]
    OBVIOUS
  <2>2. IsSequence(g) /\ Len(g) = i - 1 /\ \A j \in 1..(i - 1) : g[j] = s[j]
    BY <1>4, <1>6, <2>1
  <2>3. f[i] = Append(g, s[i])
    <3>1. f[i] = g \o <<s[i]>>
      BY <1>1, <1>3, <2>1
    <3> QED BY <2>2, <3>1, AppendIs
  <2>4. /\ IsSequence(Append(g, s[i])) /\ Len(Append(g, s[i])) = Len(g) + 1
        /\ \A j \in 1..Len(g) : Append(g, s[i])[j] = g[j]
        /\ Append(g, s[i])[Len(g) + 1] = s[i]
    BY <2>2, Appended
  <2>5. (i - 1) + 1 = i /\ \A j \in 1..i : j \in 1..(i - 1) \/ j = i
    OBVIOUS
  <2>6. IsSequence(f[i]) /\ Len(f[i]) = i /\ \A j \in 1..i : f[i][j] = s[j]
    BY <2>2, <2>3, <2>4, <2>5
  <2> QED BY <1>4, <2>6
<1>7. n \in S
  <2>1. 0 \in S /\ \A i \in 1..n : i - 1 \in S => i \in S
    BY <1>5, <1>6
  <2> QED BY ONLY <2>1, Onward, n \in Nat
<1>8. PICK r : r = f[n]
  OBVIOUS
<1>9. IsSequence(r) /\ Len(r) = n /\ \A j \in 1..n : r[j] = s[j]
  BY <1>4, <1>7, <1>8
<1>10. r = s
  <2>1. IsSequence(r) /\ IsSequence(s) /\ Len(r) = Len(s) /\ \A j \in 1..Len(r) : r[j] = s[j]
    BY <1>1, <1>9
  <2> QED BY ONLY <2>1, SameSequence
<1> QED BY <1>1, <1>2, <1>3, <1>8, <1>10

\* Tokens that each put a node.
LEMMA PutsEach ==
    ASSUME NEW x, IsSequence(x), NEW a, IsSequence(a), Len(a) = Len(x), NEW d \in Nat,
           \A i \in 1..Len(x) : Puts(<<x[i]>>, <<a[i]>>, d)
    PROVE  Puts(x, a, d)
<1>1. PICK y : y = [i \in 1..Len(x) |-> <<x[i]>>]
  OBVIOUS
<1>2. PICK b : b = [i \in 1..Len(a) |-> <<a[i]>>]
  OBVIOUS
<1>3. IsSequence(y) /\ Len(y) = Len(x) /\ Joined(y) = x
  BY <1>1, JoinedSingles
<1>4. IsSequence(b) /\ Len(b) = Len(a) /\ Joined(b) = a
  BY <1>2, JoinedSingles
<1>5. Len(b) = Len(y) /\ \A i \in 1..Len(y) : Puts(y[i], b[i], d)
  BY <1>1, <1>2, <1>3, <1>4
<1>6. Puts(Joined(y), Joined(b), d)
  BY ONLY <1>3, <1>4, <1>5, PutsJoined, d \in Nat
<1> QED BY <1>3, <1>4, <1>6

-----------------------------------------------------------------------------
(***************************************************************************)
(* A step as the serializer writes it (serializer.ts).                     *)
(***************************************************************************)

Prompted == {"agent", "decision", "human_gate"}
Asking == {"agent", "decision"}

\* The choices of a step that decides: each names exactly one way on.
ChoiceIs(c) ==
    /\ c = [a \in {"name", "next", "terminate", "gate"} |-> c[a]]
    /\ c["name"] # "" /\ c["terminate"] \in Ends \cup {""} /\ c["gate"] \in {"human", ""}
    /\ Cardinality({a \in {"next", "terminate", "gate"} : c[a] # ""}) = 1
ChoicesAre(cs) ==
    /\ IsSequence(cs) /\ cs # <<>> /\ \A i \in 1..Len(cs) : ChoiceIs(cs[i])
    /\ \A i, j \in 1..Len(cs) : cs[i]["name"] = cs[j]["name"] => i = j

\* The fields of a step that was read: those of its kind, and no others.
PromptIs(s) ==
    /\ s.kind \in Prompted => Plain(s.prompt) /\ s.prompt # <<>>
    /\ s.kind \in Asking => "${}" \notin ToSet(s.prompt)
    /\ s.kind \notin Prompted => s.prompt = <<>>
AgentIs(s) ==
    /\ s.kind \in Asking => s.agent \in Names
    /\ s.kind \notin Asking => s.agent = ""
OutputIs(s) ==
    /\ s.output \in Names \cup {""}
    /\ s.kind = "merge" => s.output # ""
    /\ s.kind \in {"human_gate", "terminate"} => s.output = ""
DecisionIs(s) ==
    /\ s.kind = "decision" => ChoicesAre(s.choices) /\ s.onInvalid \in {"pause", "fail"}
    /\ s.kind # "decision" => s.choices = <<>> /\ s.onInvalid = ""
GateIs(s) ==
    /\ s.kind = "human_gate" => s.allow # {} /\ s.allow \subseteq Actions
    /\ s.kind # "human_gate" => s.allow = {}
MergeIs(s) ==
    /\ IsSequence(s.inputs)
    /\ s.kind = "merge" => s.inputs # <<>> /\ \A i \in 1..Len(s.inputs) : s.inputs[i] # ""
    /\ s.kind # "merge" => s.inputs = <<>> /\ s.separator = ""
EndIs(s) ==
    /\ s.kind = "terminate" => s.status \in Ends /\ Plain(s.message)
    /\ s.kind # "terminate" => s.status = "" /\ s.message = <<>>
FieldsAre(s) ==
    s = [id |-> s.id, kind |-> s.kind, loop |-> s.loop, agent |-> s.agent, prompt |-> s.prompt,
         output |-> s.output, choices |-> s.choices, onInvalid |-> s.onInvalid, allow |-> s.allow,
         inputs |-> s.inputs, separator |-> s.separator, status |-> s.status, message |-> s.message]
ExactStep(s) ==
    /\ s.id \in Names /\ s.kind \in Kinds /\ FieldsAre(s)
    /\ PromptIs(s) /\ AgentIs(s) /\ OutputIs(s) /\ DecisionIs(s) /\ GateIs(s) /\ MergeIs(s) /\ EndIs(s)

\* The node a step is written as.
ChoiceAttrs(c) ==
    Written(c, [Always(c) EXCEPT !["next"] = {""}, !["terminate"] = {""}, !["gate"] = {""}])
TextIn(tag, words) == <<Element(tag, <<>>, <<TextNode(words)>>)>>
PromptPart(s) == IF s.kind \in Prompted THEN TextIn("prompt", s.prompt) ELSE <<>>
InputPart(s) == [i \in 1..Len(s.inputs) |-> Element("input", [name |-> s.inputs[i]], <<>>)]
OutputPart(s) == IF s.output = "" THEN <<>> ELSE <<Element("output", [name |-> s.output], <<>>)>>
ChoiceNodes(s) == [i \in 1..Len(s.choices) |-> Element("choice", ChoiceAttrs(s.choices[i]), <<>>)]
ChoicePart(s) == IF s.kind = "decision" THEN <<Element("choices", <<>>, ChoiceNodes(s))>> ELSE <<>>
MessagePart(s) == IF s.message = <<>> THEN <<>> ELSE TextIn("message", s.message)
StepKids(s) == PromptPart(s) \o (InputPart(s) \o (OutputPart(s) \o (ChoicePart(s) \o MessagePart(s))))
StepNode(s) == Element("step", StepAttrs(s), StepKids(s))

\* The tokens of those parts.
PromptTokens(s) == IF s.kind \in Prompted THEN TextElement("prompt", s.prompt) ELSE <<>>
InputTokens(s) == [i \in 1..Len(s.inputs) |-> Empty("input", [name |-> s.inputs[i]])]
ChoiceTokens(s) == [i \in 1..Len(s.choices) |-> ChoiceElement(s.choices[i])]
ChoicesTokens(s) == IF s.kind = "decision" THEN Wrap("choices", <<>>, ChoiceTokens(s)) ELSE <<>>
MessageTokens(s) == IF s.message = <<>> THEN <<>> ELSE TextElement("message", s.message)
StepTokens(s) == PromptTokens(s) \o (InputTokens(s) \o (OutputElement(s) \o (ChoicesTokens(s) \o MessageTokens(s))))

\* An element with a text.
LEMMA PutsTextIn ==
    ASSUME NEW tag, tag # TextTag, NEW words, Plain(words)
    PROVE  Puts(TextElement(tag, words), TextIn(tag, words), 1)
<1>1. PICK x : x = <<Text(Escape(words))>>
  OBVIOUS
<1>2. PICK a : a = <<TextNode(words)>>
  OBVIOUS
<1>3. Puts(x, a, 0)
  BY <1>1, <1>2, PutsText
<1>4. Puts(Wrap(tag, <<>>, x), <<Element(tag, <<>>, a)>>, 0 + 1)
  <2>1. PICK none : none = <<>>
    OBVIOUS
  <2>2. Puts(Wrap(tag, none, x), <<Element(tag, none, a)>>, 0 + 1)
    BY ONLY <1>3, PutsWrap, 0 \in Nat, tag # TextTag
  <2> QED BY <2>1, <2>2
<1>5. 0 + 1 = 1
  OBVIOUS
<1> QED BY <1>1, <1>2, <1>4, <1>5 DEF TextElement, TextIn

\* Nothing, with any room.
LEMMA PutsNothing ==
    ASSUME NEW d \in Nat
    PROVE  Puts(<<>>, <<>>, d)
<1>1. Puts(<<>>, <<>>, 0) /\ 0 \in Nat /\ 0 <= d
  BY PutsNone
<1> QED BY <1>1, PutsMore

\* The prompt of a step.
LEMMA PutsPrompt ==
    ASSUME NEW s, PromptIs(s)
    PROVE  Puts(PromptTokens(s), PromptPart(s), 2)
<1>1. CASE s.kind \in Prompted
  <2>1. Plain(s.prompt) /\ "prompt" # TextTag
    BY <1>1 DEF PromptIs, TextTag
  <2>2. Puts(TextElement("prompt", s.prompt), TextIn("prompt", s.prompt), 1)
    BY <2>1, PutsTextIn
  <2>3. 1 \in Nat /\ 2 \in Nat /\ 1 <= 2
    OBVIOUS
  <2>4. Puts(TextElement("prompt", s.prompt), TextIn("prompt", s.prompt), 2)
    BY ONLY <2>2, <2>3, PutsMore
  <2> QED BY <1>1, <2>4 DEF PromptTokens, PromptPart
<1>2. CASE s.kind \notin Prompted
  <2>1. Puts(<<>>, <<>>, 2)
    BY PutsNothing, 2 \in Nat
  <2> QED BY <1>2, <2>1 DEF PromptTokens, PromptPart
<1> QED BY <1>1, <1>2

\* The inputs that a merge takes.
LEMMA PutsInputs ==
    ASSUME NEW s, IsSequence(s.inputs)
    PROVE  Puts(InputTokens(s), InputPart(s), 2)
<1>1. PICK n \in Nat : n = Len(s.inputs)
  BY SequenceIs
<1>2. PICK x : x = InputTokens(s)
  OBVIOUS
<1>3. PICK a : a = InputPart(s)
  OBVIOUS
<1>4. IsSequence(x) /\ Len(x) = n
  <2>1. x = [i \in 1..n |-> x[i]]
    BY <1>1, <1>2 DEF InputTokens
  <2> QED BY <2>1, Mapped
<1>5. IsSequence(a) /\ Len(a) = n
  <2>1. a = [i \in 1..n |-> a[i]]
    BY <1>1, <1>3 DEF InputPart
  <2> QED BY <2>1, Mapped
<1>6. ASSUME NEW i \in 1..n PROVE Puts(<<x[i]>>, <<a[i]>>, 2)
  <2>1. PICK has : has = [name |-> s.inputs[i]]
    OBVIOUS
  <2>2. x[i] = Empty("input", has) /\ a[i] = Element("input", has, <<>>)
    BY <1>1, <1>2, <1>3, <2>1 DEF InputTokens, InputPart
  <2>3. Puts(<<Empty("input", has)>>, <<Element("input", has, <<>>)>>, 1)
    BY PutsEmpty DEF TextTag
  <2>4. Puts(<<x[i]>>, <<a[i]>>, 1)
    BY <2>2, <2>3, Zenon
  <2>5. 1 \in Nat /\ 2 \in Nat /\ 1 <= 2
    OBVIOUS
  <2> QED BY ONLY <2>4, <2>5, PutsMore
<1>7. \A i \in 1..Len(x) : Puts(<<x[i]>>, <<a[i]>>, 2)
  BY <1>4, <1>6
<1>8. IsSequence(x) /\ IsSequence(a) /\ Len(a) = Len(x)
  BY <1>4, <1>5
<1>9. Puts(x, a, 2)
  BY ONLY <1>7, <1>8, PutsEach, 2 \in Nat
<1> QED BY <1>2, <1>3, <1>9

\* The output of a step.
LEMMA PutsOutput ==
    ASSUME NEW s
    PROVE  Puts(OutputElement(s), OutputPart(s), 2)
<1>1. CASE s.output = ""
  <2>1. Puts(<<>>, <<>>, 2)
    BY PutsNothing, 2 \in Nat
  <2> QED BY <1>1, <2>1 DEF OutputElement, OutputPart
<1>2. CASE s.output # ""
  <2>1. PICK has : has = [name |-> s.output]
    OBVIOUS
  <2>2. Puts(<<Empty("output", has)>>, <<Element("output", has, <<>>)>>, 1)
    BY PutsEmpty DEF TextTag
  <2>3. 1 \in Nat /\ 2 \in Nat /\ 1 <= 2
    OBVIOUS
  <2>4. Puts(<<Empty("output", has)>>, <<Element("output", has, <<>>)>>, 2)
    BY ONLY <2>2, <2>3, PutsMore
  <2> QED BY <1>2, <2>1, <2>4, Zenon DEF OutputElement, OutputPart
<1> QED BY <1>1, <1>2

\* The choices of a decision.
LEMMA PutsChoices ==
    ASSUME NEW s, DecisionIs(s)
    PROVE  Puts(ChoicesTokens(s), ChoicePart(s), 2)
<1>1. CASE s.kind # "decision"
  <2>1. Puts(<<>>, <<>>, 2)
    BY PutsNothing, 2 \in Nat
  <2> QED BY <1>1, <2>1 DEF ChoicesTokens, ChoicePart
<1>2. CASE s.kind = "decision"
  <2>1. PICK n \in Nat : n = Len(s.choices)
    BY <1>2, SequenceIs DEF DecisionIs, ChoicesAre
  <2>2. PICK x : x = ChoiceTokens(s)
    OBVIOUS
  <2>3. PICK a : a = ChoiceNodes(s)
    OBVIOUS
  <2>4. IsSequence(x) /\ Len(x) = n
    <3>1. x = [i \in 1..n |-> x[i]]
      BY <2>1, <2>2 DEF ChoiceTokens
    <3> QED BY <3>1, Mapped
  <2>5. IsSequence(a) /\ Len(a) = n
    <3>1. a = [i \in 1..n |-> a[i]]
      BY <2>1, <2>3 DEF ChoiceNodes
    <3> QED BY <3>1, Mapped
  <2>6. ASSUME NEW i \in 1..n PROVE Puts(<<x[i]>>, <<a[i]>>, 1)
    <3>1. PICK c : c = s.choices[i]
      OBVIOUS
    <3>2. PICK has : has = ChoiceAttrs(c)
      OBVIOUS
    <3>3. x[i] = ChoiceElement(c) /\ a[i] = Element("choice", has, <<>>)
      BY <2>1, <2>2, <2>3, <3>1, <3>2 DEF ChoiceTokens, ChoiceNodes
    <3>4. ChoiceElement(c) = Empty("choice", has)
      BY <3>2, Zenon DEF ChoiceElement, ChoiceAttrs
    <3>5. Puts(<<Empty("choice", has)>>, <<Element("choice", has, <<>>)>>, 1)
      BY PutsEmpty DEF TextTag
    <3> QED BY <3>3, <3>4, <3>5, Zenon
  <2>7. \A i \in 1..Len(x) : Puts(<<x[i]>>, <<a[i]>>, 1)
    BY <2>4, <2>6
  <2>8. IsSequence(x) /\ IsSequence(a) /\ Len(a) = Len(x)
    BY <2>4, <2>5
  <2>9. Puts(x, a, 1)
    BY ONLY <2>7, <2>8, PutsEach, 1 \in Nat
  <2>10. Puts(Wrap("choices", <<>>, x), <<Element("choices", <<>>, a)>>, 1 + 1)
    <3>1. PICK none : none = <<>>
      OBVIOUS
    <3>2. "choices" # TextTag
      BY DEF TextTag
    <3>3. Puts(Wrap("choices", none, x), <<Element("choices", none, a)>>, 1 + 1)
      BY ONLY <2>9, <3>2, PutsWrap, 1 \in Nat
    <3> QED BY <3>1, <3>3
  <2>11. 1 + 1 = 2
    OBVIOUS
  <2> QED BY <1>2, <2>2, <2>3, <2>10, <2>11 DEF ChoicesTokens, ChoicePart
<1> QED BY <1>1, <1>2

\* The message at an end.
LEMMA PutsMessage ==
    ASSUME NEW s, EndIs(s)
    PROVE  Puts(MessageTokens(s), MessagePart(s), 2)
<1>1. CASE s.message # <<>>
  <2>1. Plain(s.message) /\ "message" # TextTag
    BY <1>1 DEF EndIs, TextTag
  <2>2. Puts(TextElement("message", s.message), TextIn("message", s.message), 1)
    BY <2>1, PutsTextIn
  <2>3. 1 \in Nat /\ 2 \in Nat /\ 1 <= 2
    OBVIOUS
  <2>4. Puts(TextElement("message", s.message), TextIn("message", s.message), 2)
    BY ONLY <2>2, <2>3, PutsMore
  <2> QED BY <1>1, <2>4 DEF MessageTokens, MessagePart
<1>2. CASE s.message = <<>>
  <2>1. Puts(<<>>, <<>>, 2)
    BY PutsNothing, 2 \in Nat
  <2> QED BY <1>2, <2>1 DEF MessageTokens, MessagePart
<1> QED BY <1>1, <1>2

\* The parts of a step, one after the other.
LEMMA StepPuts ==
    ASSUME NEW s, ExactStep(s)
    PROVE  /\ Puts(StepTokens(s), StepKids(s), 2)
           /\ IsSequence(InputTokens(s)) /\ IsSequence(OutputElement(s)) /\ IsSequence(PromptTokens(s))
           /\ IsSequence(ChoicesTokens(s)) /\ IsSequence(MessageTokens(s))
<1>1. /\ Puts(PromptTokens(s), PromptPart(s), 2) /\ Puts(InputTokens(s), InputPart(s), 2)
      /\ Puts(OutputElement(s), OutputPart(s), 2) /\ Puts(ChoicesTokens(s), ChoicePart(s), 2)
      /\ Puts(MessageTokens(s), MessagePart(s), 2)
  <2>1. PromptIs(s) /\ IsSequence(s.inputs) /\ DecisionIs(s) /\ EndIs(s)
    BY DEF ExactStep, MergeIs
  <2> QED BY <2>1, PutsPrompt, PutsInputs, PutsOutput, PutsChoices, PutsMessage
<1>2. PICK x1 : x1 = ChoicesTokens(s) \o MessageTokens(s)
  OBVIOUS
<1>3. PICK a1 : a1 = ChoicePart(s) \o MessagePart(s)
  OBVIOUS
<1>4. Puts(x1, a1, 2)
  BY <1>1, <1>2, <1>3, PutsThen, 2 \in Nat
<1>5. PICK x2 : x2 = OutputElement(s) \o x1
  OBVIOUS
<1>6. PICK a2 : a2 = OutputPart(s) \o a1
  OBVIOUS
<1>7. Puts(x2, a2, 2)
  BY <1>1, <1>4, <1>5, <1>6, PutsThen, 2 \in Nat
<1>8. PICK x3 : x3 = InputTokens(s) \o x2
  OBVIOUS
<1>9. PICK a3 : a3 = InputPart(s) \o a2
  OBVIOUS
<1>10. Puts(x3, a3, 2)
  BY <1>1, <1>7, <1>8, <1>9, PutsThen, 2 \in Nat
<1>11. Puts(PromptTokens(s) \o x3, PromptPart(s) \o a3, 2)
  BY <1>1, <1>10, PutsThen, 2 \in Nat
<1>12. StepTokens(s) = PromptTokens(s) \o x3 /\ StepKids(s) = PromptPart(s) \o a3
  BY <1>2, <1>3, <1>5, <1>6, <1>8, <1>9 DEF StepTokens, StepKids
<1>13. Puts(StepTokens(s), StepKids(s), 2)
  BY <1>11, <1>12
<1> QED BY <1>1, <1>13 DEF Puts, IsDocument

\* What a step lacks leaves no tokens.
LEMMA StepInnerIs ==
    ASSUME NEW s, ExactStep(s)
    PROVE  StepInner(s) = StepTokens(s)
<1>1. /\ IsSequence(InputTokens(s)) /\ IsSequence(OutputElement(s)) /\ IsSequence(PromptTokens(s))
      /\ IsSequence(ChoicesTokens(s)) /\ IsSequence(MessageTokens(s))
  BY StepPuts
<1>2. PICK p : p = PromptTokens(s)
  OBVIOUS
<1>3. PICK i : i = InputTokens(s)
  OBVIOUS
<1>4. PICK o : o = OutputElement(s)
  OBVIOUS
<1>5. PICK c : c = ChoicesTokens(s)
  OBVIOUS
<1>6. PICK m : m = MessageTokens(s)
  OBVIOUS
<1>7. IsSequence(p) /\ IsSequence(i) /\ IsSequence(o) /\ IsSequence(c) /\ IsSequence(m)
  BY <1>1, <1>2, <1>3, <1>4, <1>5, <1>6
<1>8. StepTokens(s) = p \o (i \o (o \o (c \o m)))
  BY <1>2, <1>3, <1>4, <1>5, <1>6 DEF StepTokens
<1>9. IsSequence(<<>>)
  BY NoSequence
<1>10. s.kind \in Kinds
  BY DEF ExactStep
<1>11. \A x : IsSequence(x) => x \o <<>> = x /\ <<>> \o x = x
  BY ConcatNone
<1>12. \A x, y : IsSequence(x) /\ IsSequence(y) => IsSequence(x \o y)
  BY Concatenated
<1>13. s.kind # "merge" => i = <<>>
  <2>1. ASSUME s.kind # "merge" PROVE i = <<>>
    <3>1. s.inputs = <<>>
      BY <2>1 DEF ExactStep, MergeIs
    <3>2. Len(s.inputs) = 0
      BY <3>1, NoSequence
    <3>3. i = [k \in 1..0 |-> i[k]]
      BY <1>3, <3>2 DEF InputTokens
    <3>4. IsSequence(i) /\ Len(i) = 0
      BY <3>3, Mapped, 0 \in Nat
    <3> QED BY <3>4, SequenceIs
  <2> QED BY <2>1
<1>14. s.kind # "decision" => c = <<>>
  BY <1>5 DEF ChoicesTokens
<1>15. s.kind # "terminate" => m = <<>>
  <2>1. s.kind # "terminate" => s.message = <<>>
    BY DEF ExactStep, EndIs
  <2> QED BY <1>6, <2>1 DEF MessageTokens
<1>16. s.kind \in {"human_gate", "terminate"} => o = <<>>
  <2>1. s.kind \in {"human_gate", "terminate"} => s.output = ""
    BY DEF ExactStep, OutputIs
  <2> QED BY <1>4, <2>1 DEF OutputElement
<1>17. CASE s.kind = "agent"
  <2>1. i = <<>> /\ c = <<>> /\ m = <<>>
    BY <1>13, <1>14, <1>15, <1>17
  <2>2. p \o (i \o (o \o (c \o m))) = p \o o
    BY <1>7, <1>9, <1>11, <2>1
  <2>3. p = TextElement("prompt", s.prompt)
    BY <1>2, <1>17 DEF PromptTokens, Prompted
  <2>4. StepInner(s) = p \o o
    BY <1>4, <1>17, <2>3 DEF StepInner
  <2> QED BY <1>8, <2>2, <2>4
<1>18. CASE s.kind = "decision"
  <2>1. i = <<>> /\ m = <<>>
    BY <1>13, <1>15, <1>18
  <2>2. p \o (i \o (o \o (c \o m))) = p \o (o \o c)
    BY <1>7, <1>9, <1>11, <1>12, <2>1
  <2>3. p = TextElement("prompt", s.prompt)
    BY <1>2, <1>18 DEF PromptTokens, Prompted
  <2>4. c = Wrap("choices", <<>>, [k \in DOMAIN s.choices |-> ChoiceElement(s.choices[k])])
    <3>1. IsSequence(s.choices)
      BY <1>18 DEF ExactStep, DecisionIs, ChoicesAre
    <3>2. DOMAIN s.choices = 1..Len(s.choices)
      BY <3>1, SequenceIs
    <3> QED BY <1>5, <1>18, <3>2 DEF ChoicesTokens, ChoiceTokens
  <2>5. StepInner(s) = (p \o o) \o c
    BY <1>4, <1>18, <2>3, <2>4 DEF StepInner
  <2>6. (p \o o) \o c = p \o (o \o c)
    BY <1>7, ConcatThree
  <2> QED BY <1>8, <2>2, <2>5, <2>6
<1>19. CASE s.kind = "human_gate"
  <2>1. i = <<>> /\ c = <<>> /\ m = <<>> /\ o = <<>>
    BY <1>13, <1>14, <1>15, <1>16, <1>19
  <2>2. p \o (i \o (o \o (c \o m))) = p
    BY <1>7, <1>9, <1>11, <2>1
  <2>3. p = TextElement("prompt", s.prompt)
    BY <1>2, <1>19 DEF PromptTokens, Prompted
  <2>4. StepInner(s) = p
    BY <1>19, <2>3 DEF StepInner
  <2> QED BY <1>8, <2>2, <2>4
<1>20. CASE s.kind = "merge"
  <2>1. p = <<>> /\ c = <<>> /\ m = <<>>
    BY <1>2, <1>14, <1>15, <1>20 DEF PromptTokens, Prompted
  <2>2. p \o (i \o (o \o (c \o m))) = i \o o
    BY <1>7, <1>9, <1>11, <1>12, <2>1
  <2>3. i = [k \in DOMAIN s.inputs |-> Empty("input", [name |-> s.inputs[k]])]
    <3>1. IsSequence(s.inputs)
      BY DEF ExactStep, MergeIs
    <3>2. DOMAIN s.inputs = 1..Len(s.inputs)
      BY <3>1, SequenceIs
    <3> QED BY <1>3, <3>2 DEF InputTokens
  <2>4. StepInner(s) = i \o o
    BY <1>4, <1>20, <2>3 DEF StepInner
  <2> QED BY <1>8, <2>2, <2>4
<1>21. CASE s.kind = "terminate"
  <2>1. p = <<>> /\ i = <<>> /\ c = <<>> /\ o = <<>>
    BY <1>2, <1>13, <1>14, <1>16, <1>21 DEF PromptTokens, Prompted
  <2>2. p \o (i \o (o \o (c \o m))) = m
    BY <1>7, <1>9, <1>11, <2>1
  <2>3. StepInner(s) = m
    BY <1>6, <1>21 DEF StepInner, MessageTokens
  <2> QED BY <1>8, <2>2, <2>3
<1> QED BY <1>10, <1>17, <1>18, <1>19, <1>20, <1>21 DEF Kinds

\* A step is written as its node.
LEMMA PutsStep ==
    ASSUME NEW s, ExactStep(s)
    PROVE  Puts(StepElement(s), <<StepNode(s)>>, 3)
<1>1. PICK x : x = StepTokens(s)
  OBVIOUS
<1>2. PICK a : a = StepKids(s)
  OBVIOUS
<1>3. Puts(x, a, 2)
  BY <1>1, <1>2, StepPuts
<1>4. PICK has : has = StepAttrs(s)
  OBVIOUS
<1>5. "step" # TextTag
  BY DEF TextTag
<1>6. Puts(Wrap("step", has, x), <<Element("step", has, a)>>, 2 + 1)
  BY ONLY <1>3, <1>5, PutsWrap, 2 \in Nat
<1>7. 2 + 1 = 3
  OBVIOUS
<1>8. StepInner(s) = x
  BY <1>1, StepInnerIs
<1> QED BY <1>2, <1>4, <1>6, <1>7, <1>8 DEF StepElement, StepNode

\* The attributes of a step, and what stands for one that is not written.
LEMMA StepAttrsAre ==
    ASSUME NEW s, ExactStep(s), NEW e, e.attrs = StepAttrs(s)
    PROVE  /\ Attr(e, "id") = s.id /\ Attr(e, "type") = s.kind
           /\ s.kind \in Asking => Attr(e, "agent") = s.agent
           /\ s.kind = "decision" => AttrOr(e, "onInvalid", "pause") = s.onInvalid
           /\ s.kind = "human_gate" => AttrOr(e, "allow", {"approve", "stop"}) = s.allow
           /\ s.kind = "merge" /\ s.separator # "" => AttrOr(e, "separator", "blank line") = s.separator
           /\ s.kind = "terminate" => AttrOr(e, "status", "success") = s.status
<1>1. PICK id : id = [id |-> s.id, type |-> s.kind]
  OBVIOUS
<1>2. DOMAIN id = {"id", "type"} /\ id["id"] = s.id /\ id["type"] = s.kind
  BY <1>1
<1>3. PICK r : r = StepAttrs(s)
  OBVIOUS
<1>4. ASSUME NEW more, r = Joint(id, more), DOMAIN more \cap {"id", "type"} = {}
      PROVE  /\ DOMAIN r = {"id", "type"} \cup DOMAIN more /\ r["id"] = s.id /\ r["type"] = s.kind
             /\ \A x \in DOMAIN more : r[x] = more[x]
  <2>1. /\ DOMAIN r = DOMAIN id \cup DOMAIN more
        /\ \A x \in DOMAIN id : r[x] = id[x]
        /\ \A x \in DOMAIN more \ DOMAIN id : r[x] = more[x]
    BY <1>4 DEF Joint
  <2> QED BY <1>2, <1>4, <2>1
<1>6. CASE s.kind = "agent"
  <2>1. PICK more : more = [agent |-> s.agent]
    OBVIOUS
  <2>2. r = Joint(id, more)
    BY <1>1, <1>3, <1>6, <2>1 DEF StepAttrs
  <2>3. DOMAIN more = {"agent"} /\ more["agent"] = s.agent
    BY <2>1
  <2>4. DOMAIN r = {"id", "type"} \cup {"agent"} /\ r["id"] = s.id /\ r["type"] = s.kind /\ r["agent"] = s.agent
    BY <1>4, <2>2, <2>3
  <2> QED BY <1>3, <1>6, <2>4 DEF Attr, Asking
<1>7. CASE s.kind = "decision"
  <2>1. PICK one : one = [agent |-> s.agent]
    OBVIOUS
  <2>2. PICK a : a = [onInvalid |-> s.onInvalid]
    OBVIOUS
  <2>3. PICK u : u = [onInvalid |-> {"pause"}]
    OBVIOUS
  <2>4. PICK two : two = Written(a, u)
    OBVIOUS
  <2>5. /\ DOMAIN two = {b \in DOMAIN a : a[b] \notin u[b]}
        /\ \A x \in DOMAIN two : two[x] = a[x]
    BY <2>4 DEF Written
  <2>6. DOMAIN a = {"onInvalid"} /\ a["onInvalid"] = s.onInvalid /\ u["onInvalid"] = {"pause"}
    BY <2>2, <2>3
  <2>7. /\ DOMAIN two \subseteq {"onInvalid"}
        /\ "onInvalid" \in DOMAIN two => two["onInvalid"] = s.onInvalid
        /\ "onInvalid" \notin DOMAIN two => s.onInvalid = "pause"
    BY <2>5, <2>6
  <2>8. PICK more : more = Joint(one, two)
    OBVIOUS
  <2>9. DOMAIN one = {"agent"} /\ one["agent"] = s.agent
    BY <2>1
  <2>10. /\ DOMAIN more = DOMAIN one \cup DOMAIN two
         /\ \A x \in DOMAIN one : more[x] = one[x]
         /\ \A x \in DOMAIN two \ DOMAIN one : more[x] = two[x]
    BY <2>8 DEF Joint
  <2>11. r = Joint(id, more)
    BY <1>1, <1>3, <1>7, <2>1, <2>2, <2>3, <2>4, <2>8 DEF StepAttrs
  <2>12. DOMAIN more \cap {"id", "type"} = {}
    BY <2>7, <2>9, <2>10
  <2>13. /\ DOMAIN r = {"id", "type"} \cup DOMAIN more /\ r["id"] = s.id /\ r["type"] = s.kind
         /\ \A x \in DOMAIN more : r[x] = more[x]
    BY <1>4, <2>11, <2>12
  <2>14. "agent" \in DOMAIN r /\ r["agent"] = s.agent
    BY <2>9, <2>10, <2>13
  <2>15. IF "onInvalid" \in DOMAIN r THEN r["onInvalid"] = s.onInvalid ELSE s.onInvalid = "pause"
    BY <2>7, <2>9, <2>10, <2>13
  <2> QED BY <1>3, <1>7, <2>13, <2>14, <2>15 DEF Attr, AttrOr, Asking
<1>8. CASE s.kind = "human_gate"
  <2>1. PICK more : more = [allow |-> s.allow]
    OBVIOUS
  <2>2. r = Joint(id, more)
    BY <1>1, <1>3, <1>8, <2>1 DEF StepAttrs
  <2>3. DOMAIN more = {"allow"} /\ more["allow"] = s.allow
    BY <2>1
  <2>4. DOMAIN r = {"id", "type"} \cup {"allow"} /\ r["id"] = s.id /\ r["type"] = s.kind /\ r["allow"] = s.allow
    BY <1>4, <2>2, <2>3
  <2> QED BY <1>3, <1>8, <2>4 DEF Attr, AttrOr, Asking
<1>9. CASE s.kind = "merge"
  <2>1. PICK a : a = [separator |-> s.separator]
    OBVIOUS
  <2>2. PICK u : u = [separator |-> {"", "blank line"}]
    OBVIOUS
  <2>3. PICK more : more = Written(a, u)
    OBVIOUS
  <2>4. /\ DOMAIN more = {b \in DOMAIN a : a[b] \notin u[b]}
        /\ \A x \in DOMAIN more : more[x] = a[x]
    BY <2>3 DEF Written
  <2>5. DOMAIN a = {"separator"} /\ a["separator"] = s.separator /\ u["separator"] = {"", "blank line"}
    BY <2>1, <2>2
  <2>6. /\ DOMAIN more \subseteq {"separator"}
        /\ "separator" \in DOMAIN more => more["separator"] = s.separator
        /\ "separator" \notin DOMAIN more => s.separator \in {"", "blank line"}
    BY <2>4, <2>5
  <2>7. r = Joint(id, more)
    BY <1>1, <1>3, <1>9, <2>1, <2>2, <2>3 DEF StepAttrs
  <2>8. DOMAIN more \cap {"id", "type"} = {}
    BY <2>6
  <2>9. /\ DOMAIN r = {"id", "type"} \cup DOMAIN more /\ r["id"] = s.id /\ r["type"] = s.kind
        /\ \A x \in DOMAIN more : r[x] = more[x]
    BY <1>4, <2>7, <2>8
  <2>10. IF "separator" \in DOMAIN r THEN r["separator"] = s.separator ELSE s.separator \in {"", "blank line"}
    BY <2>6, <2>9
  <2> QED BY <1>3, <1>9, <2>9, <2>10 DEF Attr, AttrOr, Asking
<1>10. CASE s.kind = "terminate"
  <2>1. PICK more : more = [status |-> s.status]
    OBVIOUS
  <2>2. r = Joint(id, more)
    BY <1>1, <1>3, <1>10, <2>1 DEF StepAttrs
  <2>3. DOMAIN more = {"status"} /\ more["status"] = s.status
    BY <2>1
  <2>4. DOMAIN r = {"id", "type"} \cup {"status"} /\ r["id"] = s.id /\ r["type"] = s.kind /\ r["status"] = s.status
    BY <1>4, <2>2, <2>3
  <2> QED BY <1>3, <1>10, <2>4 DEF Attr, AttrOr, Asking
<1>11. s.kind \in Kinds
  BY DEF ExactStep
<1> QED BY <1>6, <1>7, <1>8, <1>9, <1>10, <1>11 DEF Kinds

\* A part of which all have one tag.
OnePart(a, tag) == IsSequence(a) /\ \A i \in 1..Len(a) : a[i].tag = tag

\* Each part of a step has the nodes of one tag.
LEMMA PartsAre ==
    ASSUME NEW s, ExactStep(s)
    PROVE  /\ OnePart(PromptPart(s), "prompt") /\ OnePart(InputPart(s), "input")
           /\ OnePart(OutputPart(s), "output") /\ OnePart(ChoicePart(s), "choices")
           /\ OnePart(MessagePart(s), "message")
<1>1. ASSUME NEW node PROVE OnePart(<<node>>, node.tag)
  <2>1. PICK a : a = <<node>>
    OBVIOUS
  <2>2. IsSequence(a) /\ Len(a) = 1 /\ a[1] = node
    BY <2>1, Tuples
  <2>3. \A i \in 1..Len(a) : a[i].tag = node.tag
    BY <2>2
  <2> QED BY <2>1, <2>2, <2>3 DEF OnePart
<1>2. \A tag, attrs, kids : OnePart(<<Element(tag, attrs, kids)>>, tag)
  <2>1. ASSUME NEW tag, NEW attrs, NEW kids PROVE OnePart(<<Element(tag, attrs, kids)>>, tag)
    <3>1. PICK node : node = Element(tag, attrs, kids)
      OBVIOUS
    <3>2. node.tag = tag
      BY <3>1 DEF Element
    <3>3. OnePart(<<node>>, node.tag)
      BY <1>1
    <3> QED BY <3>1, <3>2, <3>3, Zenon
  <2> QED BY <2>1
<1>3. \A tag : OnePart(<<>>, tag)
  BY NoSequence DEF OnePart
<1>4. OnePart(PromptPart(s), "prompt")
  BY <1>2, <1>3, Zenon DEF PromptPart, TextIn
<1>5. OnePart(OutputPart(s), "output")
  BY <1>2, <1>3, Zenon DEF OutputPart
<1>6. OnePart(ChoicePart(s), "choices")
  BY <1>2, <1>3, Zenon DEF ChoicePart
<1>7. OnePart(MessagePart(s), "message")
  BY <1>2, <1>3, Zenon DEF MessagePart, TextIn
<1>8. OnePart(InputPart(s), "input")
  <2>1. PICK n \in Nat : n = Len(s.inputs)
    BY SequenceIs DEF ExactStep, MergeIs
  <2>2. PICK a : a = InputPart(s)
    OBVIOUS
  <2>3. a = [i \in 1..n |-> a[i]] /\ \A i \in 1..n : a[i].tag = "input"
    BY <2>1, <2>2 DEF InputPart, Element
  <2>4. IsSequence(a) /\ Len(a) = n
    BY <2>3, Mapped
  <2> QED BY <2>2, <2>3, <2>4 DEF OnePart
<1> QED BY <1>4, <1>5, <1>6, <1>7, <1>8

\* Of such a part, all are taken or none.
LEMMA OnlyPart ==
    ASSUME NEW a, NEW own, OnePart(a, own), NEW tags
    PROVE  Only(a, tags) = IF own \in tags THEN a ELSE <<>>
<1>1. CASE own \in tags
  BY <1>1, OnlyAll DEF OnePart
<1>2. CASE own \notin tags
  BY <1>2, OnlyNone DEF OnePart
<1> QED BY <1>1, <1>2

\* The children of a step, by their tag.
LEMMA StepKidsAre ==
    ASSUME NEW s, ExactStep(s), NEW e, e.kids = StepKids(s)
    PROVE  /\ IsSequence(e.kids)
           /\ ChildrenOf(e, "prompt") = PromptPart(s) /\ ChildrenOf(e, "input") = InputPart(s)
           /\ ChildrenOf(e, "output") = OutputPart(s) /\ ChildrenOf(e, "choices") = ChoicePart(s)
           /\ ChildrenOf(e, "message") = MessagePart(s)
<1>1. PICK p : p = PromptPart(s)
  OBVIOUS
<1>2. PICK i : i = InputPart(s)
  OBVIOUS
<1>3. PICK o : o = OutputPart(s)
  OBVIOUS
<1>4. PICK c : c = ChoicePart(s)
  OBVIOUS
<1>5. PICK m : m = MessagePart(s)
  OBVIOUS
<1>6. OnePart(p, "prompt") /\ OnePart(i, "input") /\ OnePart(o, "output") /\ OnePart(c, "choices") /\ OnePart(m, "message")
  BY <1>1, <1>2, <1>3, <1>4, <1>5, PartsAre
<1>7. IsSequence(p) /\ IsSequence(i) /\ IsSequence(o) /\ IsSequence(c) /\ IsSequence(m) /\ IsSequence(<<>>)
  BY <1>6, NoSequence DEF OnePart
<1>8. PICK k1 : k1 = c \o m
  OBVIOUS
<1>9. PICK k2 : k2 = o \o k1
  OBVIOUS
<1>10. PICK k3 : k3 = i \o k2
  OBVIOUS
<1>11. PICK k4 : k4 = p \o k3
  OBVIOUS
<1>12. e.kids = k4
  BY <1>1, <1>2, <1>3, <1>4, <1>5, <1>8, <1>9, <1>10, <1>11 DEF StepKids
<1>13. IsSequence(k1) /\ IsSequence(k2) /\ IsSequence(k3) /\ IsSequence(k4)
  <2>1. IsSequence(k1)
    BY <1>7, <1>8, Concatenated
  <2>2. IsSequence(k2)
    BY <1>7, <1>9, <2>1, Concatenated
  <2>3. IsSequence(k3)
    BY <1>7, <1>10, <2>2, Concatenated
  <2>4. IsSequence(k4)
    BY <1>7, <1>11, <2>3, Concatenated
  <2> QED BY <2>1, <2>2, <2>3, <2>4
<1>14. ASSUME NEW tag
       PROVE  ChildrenOf(e, tag) = Only(p, {tag}) \o (Only(i, {tag}) \o (Only(o, {tag}) \o (Only(c, {tag}) \o Only(m, {tag}))))
  <2>1. PICK tags : tags = {tag}
    OBVIOUS
  <2>2. ChildrenOf(e, tag) = Only(k4, tags)
    BY <1>12, <1>13, <2>1, TaggedOnly DEF ChildrenOf
  <2>3. ASSUME NEW x, IsSequence(x), NEW y, IsSequence(y)
        PROVE  Only(x \o y, tags) = Only(x, tags) \o Only(y, tags)
    <3>1. IsSequence(x) /\ IsSequence(y)
      BY <2>3
    <3> QED BY ONLY <3>1, OnlyThen
  <2>4. Only(k4, tags) = Only(p, tags) \o Only(k3, tags)
    BY <1>7, <1>11, <1>13, <2>3
  <2>5. Only(k3, tags) = Only(i, tags) \o Only(k2, tags)
    BY <1>7, <1>10, <1>13, <2>3
  <2>6. Only(k2, tags) = Only(o, tags) \o Only(k1, tags)
    BY <1>7, <1>9, <1>13, <2>3
  <2>7. Only(k1, tags) = Only(c, tags) \o Only(m, tags)
    BY <1>7, <1>8, <2>3
  <2> QED BY <2>1, <2>2, <2>4, <2>5, <2>6, <2>7
<1>15. ASSUME NEW tag
       PROVE  /\ Only(p, {tag}) = IF tag = "prompt" THEN p ELSE <<>>
              /\ Only(i, {tag}) = IF tag = "input" THEN i ELSE <<>>
              /\ Only(o, {tag}) = IF tag = "output" THEN o ELSE <<>>
              /\ Only(c, {tag}) = IF tag = "choices" THEN c ELSE <<>>
              /\ Only(m, {tag}) = IF tag = "message" THEN m ELSE <<>>
  <2>1. PICK tags : tags = {tag}
    OBVIOUS
  <2>2. /\ Only(p, tags) = IF "prompt" \in tags THEN p ELSE <<>>
        /\ Only(i, tags) = IF "input" \in tags THEN i ELSE <<>>
        /\ Only(o, tags) = IF "output" \in tags THEN o ELSE <<>>
        /\ Only(c, tags) = IF "choices" \in tags THEN c ELSE <<>>
        /\ Only(m, tags) = IF "message" \in tags THEN m ELSE <<>>
    BY <1>6, OnlyPart
  <2> QED BY <2>1, <2>2
<1>16. \A x : IsSequence(x) => x \o <<>> = x /\ <<>> \o x = x
  BY ConcatNone
<1>17. ChildrenOf(e, "prompt") = p
  <2>1. Only(p, {"prompt"}) = p /\ Only(i, {"prompt"}) = <<>> /\ Only(o, {"prompt"}) = <<>> /\ Only(c, {"prompt"}) = <<>> /\ Only(m, {"prompt"}) = <<>>
    BY <1>15
  <2>2. ChildrenOf(e, "prompt") = p \o (<<>> \o (<<>> \o (<<>> \o (<<>>))))
    BY <1>14, <2>1
  <2> QED BY <1>7, <1>16, <2>2
<1>18. ChildrenOf(e, "input") = i
  <2>1. Only(p, {"input"}) = <<>> /\ Only(i, {"input"}) = i /\ Only(o, {"input"}) = <<>> /\ Only(c, {"input"}) = <<>> /\ Only(m, {"input"}) = <<>>
    BY <1>15
  <2>2. ChildrenOf(e, "input") = <<>> \o (i \o (<<>> \o (<<>> \o (<<>>))))
    BY <1>14, <2>1
  <2> QED BY <1>7, <1>16, <2>2
<1>19. ChildrenOf(e, "output") = o
  <2>1. Only(p, {"output"}) = <<>> /\ Only(i, {"output"}) = <<>> /\ Only(o, {"output"}) = o /\ Only(c, {"output"}) = <<>> /\ Only(m, {"output"}) = <<>>
    BY <1>15
  <2>2. ChildrenOf(e, "output") = <<>> \o (<<>> \o (o \o (<<>> \o (<<>>))))
    BY <1>14, <2>1
  <2> QED BY <1>7, <1>16, <2>2
<1>20. ChildrenOf(e, "choices") = c
  <2>1. Only(p, {"choices"}) = <<>> /\ Only(i, {"choices"}) = <<>> /\ Only(o, {"choices"}) = <<>> /\ Only(c, {"choices"}) = c /\ Only(m, {"choices"}) = <<>>
    BY <1>15
  <2>2. ChildrenOf(e, "choices") = <<>> \o (<<>> \o (<<>> \o (c \o (<<>>))))
    BY <1>14, <2>1
  <2> QED BY <1>7, <1>16, <2>2
<1>21. ChildrenOf(e, "message") = m
  <2>1. Only(p, {"message"}) = <<>> /\ Only(i, {"message"}) = <<>> /\ Only(o, {"message"}) = <<>> /\ Only(c, {"message"}) = <<>> /\ Only(m, {"message"}) = m
    BY <1>15
  <2>2. ChildrenOf(e, "message") = <<>> \o (<<>> \o (<<>> \o (<<>> \o (m))))
    BY <1>14, <2>1
  <2> QED BY <1>7, <1>16, <2>2
<1> QED BY <1>1, <1>2, <1>3, <1>4, <1>5, <1>12, <1>13, <1>17, <1>18, <1>19, <1>20, <1>21

-----------------------------------------------------------------------------
(***************************************************************************)
(* The parser on what it can read: texts, choices and steps (parser.ts).   *)
(***************************************************************************)

\* The set of two sequences.
LEMMA ConcatSet ==
    ASSUME NEW s, IsSequence(s), NEW t, IsSequence(t)
    PROVE  ToSet(s \o t) = ToSet(s) \cup ToSet(t)
<1>1. PICK z : z = s \o t
  OBVIOUS
<1>2. PICK n \in Nat : n = Len(s)
  BY SequenceIs
<1>3. PICK m \in Nat : m = Len(t)
  BY SequenceIs
<1>4. /\ IsSequence(z) /\ Len(z) = n + m
      /\ \A i \in 1..n : z[i] = s[i]
      /\ \A j \in 1..m : z[n + j] = t[j]
      /\ \A i \in 1..(n + m) : i \in 1..n \/ \E j \in 1..m : i = n + j
  BY <1>1, <1>2, <1>3, ConcatIs
<1>5. ToSet(z) = {z[i] : i \in 1..(n + m)} /\ ToSet(s) = {s[i] : i \in 1..n} /\ ToSet(t) = {t[i] : i \in 1..m}
  BY <1>2, <1>3, <1>4, SequenceIs
<1>6. ASSUME NEW i \in 1..(n + m) PROVE z[i] \in ToSet(s) \cup ToSet(t)
  <2>1. i \in 1..n \/ \E j \in 1..m : i = n + j
    BY <1>4
  <2> QED BY <1>4, <1>5, <2>1
<1>7. ASSUME NEW i \in 1..n PROVE s[i] \in ToSet(z)
  <2>1. i \in 1..(n + m)
    OBVIOUS
  <2> QED BY <1>4, <1>5, <2>1
<1>8. ASSUME NEW j \in 1..m PROVE t[j] \in ToSet(z)
  <2>1. n + j \in 1..(n + m)
    OBVIOUS
  <2> QED BY <1>4, <1>5, <2>1
<1>9. ToSet(z) \subseteq ToSet(s) \cup ToSet(t)
  BY <1>5, <1>6
<1>10. ToSet(s) \subseteq ToSet(z) /\ ToSet(t) \subseteq ToSet(z)
  BY <1>5, <1>7, <1>8
<1> QED BY <1>1, <1>9, <1>10

\* The children of an element all of whose kids are elements, or none.
LEMMA AllElements ==
    ASSUME NEW e, IsSequence(e.kids), \A i \in 1..Len(e.kids) : e.kids[i].tag # TextTag
    PROVE  Children(e) = e.kids
<1>1. PICK tags : tags = {k.tag : k \in ToSet(e.kids)} \ {TextTag}
  OBVIOUS
<1>2. ToSet(e.kids) = {e.kids[i] : i \in 1..Len(e.kids)}
  BY SequenceIs
<1>3. \A i \in 1..Len(e.kids) : e.kids[i].tag \in tags
  BY <1>1, <1>2
<1>4. PICK kids : kids = e.kids
  OBVIOUS
<1>5. IsSequence(kids) /\ \A i \in 1..Len(kids) : kids[i].tag \in tags
  BY <1>3, <1>4
<1>6. Only(kids, tags) = kids
  BY ONLY <1>5, OnlyAll
<1>7. Tagged(e, tags) = Only(kids, tags)
  BY <1>4, TaggedOnly
<1> QED BY <1>1, <1>4, <1>6, <1>7 DEF Children

\* An element with texts alone has no children.
LEMMA NoElements ==
    ASSUME NEW e, IsSequence(e.kids), \A i \in 1..Len(e.kids) : e.kids[i].tag = TextTag
    PROVE  Children(e) = <<>>
<1>1. PICK tags : tags = {k.tag : k \in ToSet(e.kids)} \ {TextTag}
  OBVIOUS
<1>3. \A i \in 1..Len(e.kids) : e.kids[i].tag \notin tags
  BY <1>1
<1>4. PICK kids : kids = e.kids
  OBVIOUS
<1>5. IsSequence(kids) /\ \A i \in 1..Len(kids) : kids[i].tag \notin tags
  BY <1>3, <1>4
<1>6. Only(kids, tags) = <<>>
  BY ONLY <1>5, OnlyNone
<1>7. Tagged(e, tags) = Only(kids, tags)
  BY <1>4, TaggedOnly
<1> QED BY <1>1, <1>6, <1>7 DEF Children

\* An element with one text.
LEMMA TextInIs ==
    ASSUME NEW tag, NEW words, IsSequence(words), NEW found, found = TextIn(tag, words)
    PROVE  found # <<>> /\ HasTextOnly(found[1]) /\ TextOf(found[1]) = words
<1>1. PICK node : node = TextNode(words)
  OBVIOUS
<1>2. PICK kids : kids = <<node>>
  OBVIOUS
<1>3. PICK e : e = Element(tag, <<>>, kids)
  OBVIOUS
<1>4. found = <<e>>
  BY <1>1, <1>2, <1>3 DEF TextIn
<1>5. found # <<>> /\ found[1] = e
  BY <1>4
<1>6. e.kids = kids /\ IsSequence(kids) /\ Len(kids) = 1 /\ kids[1] = node
  BY <1>2, <1>3, Tuples DEF Element
<1>7. node.tag = TextTag /\ node.attrs.words = words
  BY <1>1 DEF TextNode, Element
<1>8. Children(e) = <<>>
  <2>1. \A i \in 1..Len(e.kids) : e.kids[i].tag = TextTag
    BY <1>6, <1>7
  <2>2. IsSequence(e.kids)
    BY <1>6
  <2> QED BY ONLY <2>1, <2>2, NoElements
<1>9. TextOf(e) = words
  <2>1. DOMAIN kids = 1..1
    BY <1>6, SequenceIs
  <2>2. PICK seqs : seqs = [i \in DOMAIN e.kids |-> e.kids[i].attrs.words]
    OBVIOUS
  <2>3. seqs = [i \in 1..1 |-> words]
    BY <1>6, <1>7, <2>1, <2>2
  <2>4. seqs = <<words>>
    BY <2>3
  <2>5. Joined(seqs) = words
    BY <2>4, JoinedOne
  <2> QED BY <2>2, <2>5 DEF TextOf
<1> QED BY <1>5, <1>8, <1>9 DEF HasTextOnly

\* The tags of a step's children are those of its kind.
LEMMA StepKidsAllowed ==
    ASSUME NEW s, ExactStep(s), NEW e, e.kids = StepKids(s)
    PROVE  \A k \in ToSet(Children(e)) : k.tag \in Allowed(s.kind)
<1>1. PICK p : p = PromptPart(s)
  OBVIOUS
<1>2. PICK i : i = InputPart(s)
  OBVIOUS
<1>3. PICK o : o = OutputPart(s)
  OBVIOUS
<1>4. PICK c : c = ChoicePart(s)
  OBVIOUS
<1>5. PICK m : m = MessagePart(s)
  OBVIOUS
<1>6. OnePart(p, "prompt") /\ OnePart(i, "input") /\ OnePart(o, "output") /\ OnePart(c, "choices") /\ OnePart(m, "message")
  BY <1>1, <1>2, <1>3, <1>4, <1>5, PartsAre
<1>7. IsSequence(p) /\ IsSequence(i) /\ IsSequence(o) /\ IsSequence(c) /\ IsSequence(m)
  BY <1>6 DEF OnePart
<1>8. PICK k1 : k1 = c \o m
  OBVIOUS
<1>9. PICK k2 : k2 = o \o k1
  OBVIOUS
<1>10. PICK k3 : k3 = i \o k2
  OBVIOUS
<1>11. PICK k4 : k4 = p \o k3
  OBVIOUS
<1>12. e.kids = k4
  BY <1>1, <1>2, <1>3, <1>4, <1>5, <1>8, <1>9, <1>10, <1>11 DEF StepKids
<1>13. IsSequence(k1) /\ IsSequence(k2) /\ IsSequence(k3) /\ IsSequence(k4)
  <2>1. IsSequence(k1)
    BY <1>7, <1>8, Concatenated
  <2>2. IsSequence(k2)
    BY <1>7, <1>9, <2>1, Concatenated
  <2>3. IsSequence(k3)
    BY <1>7, <1>10, <2>2, Concatenated
  <2>4. IsSequence(k4)
    BY <1>7, <1>11, <2>3, Concatenated
  <2> QED BY <2>1, <2>2, <2>3, <2>4
<1>14. ToSet(e.kids) = ToSet(p) \cup (ToSet(i) \cup (ToSet(o) \cup (ToSet(c) \cup ToSet(m))))
  <2>1. ToSet(k1) = ToSet(c) \cup ToSet(m)
    BY <1>7, <1>8, ConcatSet
  <2>2. ToSet(k2) = ToSet(o) \cup ToSet(k1)
    BY <1>7, <1>9, <1>13, ConcatSet
  <2>3. ToSet(k3) = ToSet(i) \cup ToSet(k2)
    BY <1>7, <1>10, <1>13, ConcatSet
  <2>4. ToSet(k4) = ToSet(p) \cup ToSet(k3)
    BY <1>7, <1>11, <1>13, ConcatSet
  <2> QED BY <1>12, <2>1, <2>2, <2>3, <2>4
<1>15. ASSUME NEW a, NEW tag, OnePart(a, tag), NEW k \in ToSet(a) PROVE k.tag = tag /\ a # <<>>
  <2>1. ToSet(a) = {a[j] : j \in 1..Len(a)} /\ (a = <<>> => Len(a) = 0)
    BY <1>15, SequenceIs DEF OnePart
  <2>2. PICK j \in 1..Len(a) : k = a[j]
    BY <2>1
  <2> QED BY <1>15, <2>1, <2>2 DEF OnePart
<1>16. s.kind \in Kinds
  BY DEF ExactStep
<1>17. ASSUME NEW k \in ToSet(p) PROVE k.tag \in Allowed(s.kind)
  <2>1. k.tag = "prompt" /\ p # <<>>
    BY <1>6, <1>15
  <2>2. s.kind \in Prompted
    BY <1>1, <2>1 DEF PromptPart
  <2> QED BY <2>1, <2>2 DEF Prompted, Allowed
<1>18. ASSUME NEW k \in ToSet(i) PROVE k.tag \in Allowed(s.kind)
  <2>1. k.tag = "input" /\ i # <<>>
    BY <1>6, <1>15
  <2>2. s.kind = "merge"
    <3>1. ASSUME s.kind # "merge" PROVE FALSE
      <4>1. s.inputs = <<>>
        BY <3>1 DEF ExactStep, MergeIs
      <4>2. Len(s.inputs) = 0
        BY <4>1, NoSequence
      <4>3. i = [j \in 1..0 |-> i[j]]
        BY <1>2, <4>2 DEF InputPart
      <4>4. IsSequence(i) /\ Len(i) = 0
        BY <4>3, Mapped, 0 \in Nat
      <4> QED BY <2>1, <4>4, SequenceIs
    <3> QED BY <3>1
  <2> QED BY <2>1, <2>2 DEF Allowed
<1>19. ASSUME NEW k \in ToSet(o) PROVE k.tag \in Allowed(s.kind)
  <2>1. k.tag = "output" /\ o # <<>>
    BY <1>6, <1>15
  <2>2. s.output # ""
    BY <1>3, <2>1 DEF OutputPart
  <2>3. s.kind \in {"agent", "decision", "merge"}
    BY <1>16, <2>2 DEF ExactStep, OutputIs, Kinds
  <2> QED BY <2>1, <2>3 DEF Allowed
<1>20. ASSUME NEW k \in ToSet(c) PROVE k.tag \in Allowed(s.kind)
  <2>1. k.tag = "choices" /\ c # <<>>
    BY <1>6, <1>15
  <2>2. s.kind = "decision"
    BY <1>4, <2>1 DEF ChoicePart
  <2> QED BY <2>1, <2>2 DEF Allowed
<1>21. ASSUME NEW k \in ToSet(m) PROVE k.tag \in Allowed(s.kind)
  <2>1. k.tag = "message" /\ m # <<>>
    BY <1>6, <1>15
  <2>2. s.message # <<>>
    BY <1>5, <2>1 DEF MessagePart
  <2>3. s.kind = "terminate"
    BY <2>2 DEF ExactStep, EndIs
  <2> QED BY <2>1, <2>3 DEF Allowed
<1>22. \A k \in ToSet(e.kids) : k.tag \in Allowed(s.kind)
  BY <1>14, <1>17, <1>18, <1>19, <1>20, <1>21
<1>23. ToSet(Children(e)) \subseteq ToSet(e.kids)
  <2>1. IsSequence(e.kids)
    BY <1>12, <1>13
  <2> QED BY <2>1, TaggedIs DEF Children
<1> QED BY <1>22, <1>23

\* A choice is read as it was written.
LEMMA ChoiceAttrsAre ==
    ASSUME NEW c, ChoiceIs(c), NEW e, e = Element("choice", ChoiceAttrs(c), <<>>)
    PROVE  /\ \A a \in {"name", "next", "terminate", "gate"} : Attr(e, a) = c[a]
           /\ ChoiceFits(e)
<1>1. PICK u : u = [Always(c) EXCEPT !["next"] = {""}, !["terminate"] = {""}, !["gate"] = {""}]
  OBVIOUS
<1>2. DOMAIN c = {"name", "next", "terminate", "gate"}
  <2>1. c = [a \in {"name", "next", "terminate", "gate"} |-> c[a]]
    BY DEF ChoiceIs
  <2> QED BY <2>1
<1>3. /\ u["name"] = {} /\ u["next"] = {""} /\ u["terminate"] = {""} /\ u["gate"] = {""}
  BY <1>1, <1>2 DEF Always
<1>4. PICK w : w = ChoiceAttrs(c)
  OBVIOUS
<1>5. /\ DOMAIN w = {b \in DOMAIN c : c[b] \notin u[b]}
      /\ \A x \in DOMAIN w : w[x] = c[x]
  BY <1>1, <1>4 DEF ChoiceAttrs, Written
<1>6. e.tag = "choice" /\ e.attrs = w
  BY <1>4 DEF Element
<1>7. ASSUME NEW a \in {"name", "next", "terminate", "gate"} PROVE Attr(e, a) = c[a]
  <2>1. CASE a \in DOMAIN w
    BY <1>5, <1>6, <2>1 DEF Attr
  <2>2. CASE a \notin DOMAIN w
    <3>1. c[a] \in u[a] /\ u[a] \subseteq {""}
      BY <1>2, <1>3, <1>5, <2>2
    <3> QED BY <1>6, <2>2, <3>1 DEF Attr
  <2> QED BY <2>1, <2>2
<1>8. {a \in {"next", "terminate", "gate"} : Attr(e, a) # ""} = {a \in {"next", "terminate", "gate"} : c[a] # ""}
  BY <1>7
<1>9. ChoiceFits(e)
  <2>1. /\ Attr(e, "name") = c["name"] /\ Attr(e, "terminate") = c["terminate"] /\ Attr(e, "gate") = c["gate"]
    BY <1>7
  <2>2. Cardinality({a \in {"next", "terminate", "gate"} : Attr(e, a) # ""}) = 1
    BY <1>8, Zenon DEF ChoiceIs
  <2> QED BY <1>6, <2>1, <2>2 DEF ChoiceFits, ChoiceIs
<1> QED BY <1>7, <1>9

\* The choices of a step that decides, as its node has them.
LEMMA ChoiceListIs ==
    ASSUME NEW s, ExactStep(s), s.kind = "decision", NEW e, ChildrenOf(e, "choices") = ChoicePart(s)
    PROVE  /\ ChoicesFit(e)
           /\ [i \in DOMAIN ChoiceList(e) |->
                 [a \in {"name", "next", "terminate", "gate"} |-> Attr(ChoiceList(e)[i], a)]] = s.choices
<1>1. PICK cs : cs = s.choices
  OBVIOUS
<1>2. ChoicesAre(cs)
  BY <1>1 DEF ExactStep, DecisionIs
<1>3. PICK n \in Nat : n = Len(cs) /\ DOMAIN cs = 1..n /\ cs = [i \in 1..n |-> cs[i]] /\ n # 0
  BY <1>2, SequenceIs DEF ChoicesAre
<1>4. PICK nodes : nodes = ChoiceNodes(s)
  OBVIOUS
<1>5. nodes = [i \in 1..n |-> nodes[i]] /\ \A i \in 1..n : nodes[i] = Element("choice", ChoiceAttrs(cs[i]), <<>>)
  BY <1>1, <1>3, <1>4 DEF ChoiceNodes
<1>6. IsSequence(nodes) /\ Len(nodes) = n
  BY <1>5, Mapped
<1>7. PICK c : c = Element("choices", <<>>, nodes)
  OBVIOUS
<1>8. ChoicePart(s) = <<c>>
  BY <1>4, <1>7 DEF ChoicePart
<1>9. ChoiceList(e) = Children(c)
  <2>1. PICK found : found = <<c>>
    OBVIOUS
  <2>2. found # <<>> /\ found[1] = c
    BY <2>1
  <2>3. ChildrenOf(e, "choices") = found
    BY <1>8, <2>1
  <2> QED BY <2>2, <2>3 DEF ChoiceList
<1>10. Children(c) = nodes
  <2>1. c.kids = nodes
    BY <1>7 DEF Element
  <2>2. \A i \in 1..n : nodes[i].tag = "choice"
    BY <1>5 DEF Element
  <2>3. \A i \in 1..Len(c.kids) : c.kids[i].tag # TextTag
    BY <1>6, <2>1, <2>2 DEF TextTag
  <2>4. IsSequence(c.kids)
    BY <1>6, <2>1
  <2>5. Children(c) = c.kids
    BY ONLY <2>3, <2>4, AllElements
  <2> QED BY <2>1, <2>5
<1>11. PICK list : list = ChoiceList(e)
  OBVIOUS
<1>12. list = nodes /\ DOMAIN list = 1..n /\ ToSet(list) = {nodes[i] : i \in 1..n} /\ list # <<>>
  BY <1>3, <1>6, <1>9, <1>10, <1>11, SequenceIs
<1>13. ASSUME NEW i \in 1..n
       PROVE  /\ \A a \in {"name", "next", "terminate", "gate"} : Attr(nodes[i], a) = cs[i][a]
              /\ ChoiceFits(nodes[i])
              /\ cs[i] = [a \in {"name", "next", "terminate", "gate"} |-> cs[i][a]]
  <2>1. PICK d : d = cs[i]
    OBVIOUS
  <2>2. PICK x : x = nodes[i]
    OBVIOUS
  <2>3. ChoiceIs(d) /\ x = Element("choice", ChoiceAttrs(d), <<>>)
    BY <1>2, <1>3, <1>5, <2>1, <2>2 DEF ChoicesAre
  <2>4. /\ \A a \in {"name", "next", "terminate", "gate"} : Attr(x, a) = d[a]
        /\ ChoiceFits(x)
    BY ONLY <2>3, ChoiceAttrsAre
  <2>5. d = [a \in {"name", "next", "terminate", "gate"} |-> d[a]]
    BY <2>3 DEF ChoiceIs
  <2> QED BY <2>1, <2>2, <2>4, <2>5
<1>14. ASSUME NEW i \in 1..n
       PROVE  [a \in {"name", "next", "terminate", "gate"} |-> Attr(nodes[i], a)] = cs[i]
  <2>1. [a \in {"name", "next", "terminate", "gate"} |-> Attr(nodes[i], a)]
          = [a \in {"name", "next", "terminate", "gate"} |-> cs[i][a]]
    BY <1>13
  <2> QED BY <1>13, <2>1
<1>15. ChoicesFit(e)
  <2>1. \A x \in ToSet(list) : ChoiceFits(x)
    BY <1>12, <1>13
  <2>2. ASSUME NEW i \in 1..n, NEW j \in 1..n, Attr(nodes[i], "name") = Attr(nodes[j], "name") PROVE i = j
    <3>1. cs[i]["name"] = cs[j]["name"]
      BY <1>13, <2>2
    <3> QED BY <1>2, <1>3, <3>1 DEF ChoicesAre
  <2>3. Distinct(list, LAMBDA x : Attr(x, "name"))
    BY <1>12, <2>2 DEF Distinct
  <2> QED BY <1>11, <1>12, <2>1, <2>3 DEF ChoicesFit
<1>16. [i \in DOMAIN list |-> [a \in {"name", "next", "terminate", "gate"} |-> Attr(list[i], a)]] = cs
  <2>1. PICK r : r = [i \in DOMAIN list |-> [a \in {"name", "next", "terminate", "gate"} |-> Attr(list[i], a)]]
    OBVIOUS
  <2>2. r = [i \in 1..n |-> cs[i]]
    BY <1>12, <1>14, <2>1
  <2> QED BY <1>3, <2>1, <2>2
<1> QED BY <1>1, <1>11, <1>15, <1>16

\* What the node of a step says in its children.
LEMMA StepSays ==
    ASSUME NEW s, ExactStep(s), NEW e, e.kids = StepKids(s)
    PROVE  /\ ChildTextFits(e, "prompt") /\ ChildTextFits(e, "message")
           /\ ChildText(e, "prompt") = s.prompt /\ ChildText(e, "message") = s.message
           /\ OutputName(e) = s.output /\ (ChildrenOf(e, "output") = <<>> <=> s.output = "")
           /\ InputNames(e) = s.inputs
<1>1. /\ ChildrenOf(e, "prompt") = PromptPart(s) /\ ChildrenOf(e, "input") = InputPart(s)
      /\ ChildrenOf(e, "output") = OutputPart(s)
      /\ ChildrenOf(e, "message") = MessagePart(s)
  BY StepKidsAre
<1>2. ChildTextFits(e, "prompt") /\ ChildText(e, "prompt") = s.prompt
  <2>1. PICK found : found = ChildrenOf(e, "prompt")
    OBVIOUS
  <2>2. CASE s.kind \in Prompted
    <3>1. found = TextIn("prompt", s.prompt)
      BY <1>1, <2>1, <2>2 DEF PromptPart
    <3>2. IsSequence(s.prompt)
      BY <2>2 DEF ExactStep, PromptIs, Plain
    <3>3. found # <<>> /\ HasTextOnly(found[1]) /\ TextOf(found[1]) = s.prompt
      BY <3>1, <3>2, TextInIs
    <3> QED BY <2>1, <3>3 DEF ChildTextFits, ChildText
  <2>3. CASE s.kind \notin Prompted
    <3>1. found = <<>> /\ s.prompt = <<>>
      BY <1>1, <2>1, <2>3 DEF PromptPart, ExactStep, PromptIs
    <3> QED BY <2>1, <3>1 DEF ChildTextFits, ChildText
  <2> QED BY <2>2, <2>3
<1>3. ChildTextFits(e, "message") /\ ChildText(e, "message") = s.message
  <2>1. PICK found : found = ChildrenOf(e, "message")
    OBVIOUS
  <2>2. CASE s.message # <<>>
    <3>1. found = TextIn("message", s.message)
      BY <1>1, <2>1, <2>2 DEF MessagePart
    <3>2. IsSequence(s.message)
      BY <2>2 DEF ExactStep, EndIs, Plain
    <3>3. found # <<>> /\ HasTextOnly(found[1]) /\ TextOf(found[1]) = s.message
      BY <3>1, <3>2, TextInIs
    <3> QED BY <2>1, <3>3 DEF ChildTextFits, ChildText
  <2>3. CASE s.message = <<>>
    <3>1. found = <<>>
      BY <1>1, <2>1, <2>3 DEF MessagePart
    <3> QED BY <2>1, <2>3, <3>1 DEF ChildTextFits, ChildText
  <2> QED BY <2>2, <2>3
<1>4. OutputName(e) = s.output /\ (ChildrenOf(e, "output") = <<>> <=> s.output = "")
  <2>1. PICK found : found = ChildrenOf(e, "output")
    OBVIOUS
  <2>2. CASE s.output = ""
    <3>1. found = <<>>
      BY <1>1, <2>1, <2>2 DEF OutputPart
    <3> QED BY <2>1, <2>2, <3>1 DEF OutputName
  <2>3. CASE s.output # ""
    <3>1. PICK has : has = [name |-> s.output]
      OBVIOUS
    <3>2. PICK node : node = Element("output", has, <<>>)
      OBVIOUS
    <3>3. found = <<node>>
      BY <1>1, <2>1, <2>3, <3>1, <3>2 DEF OutputPart
    <3>4. found # <<>> /\ found[1] = node
      BY <3>3
    <3>5. Attr(node, "name") = s.output
      BY <3>1, <3>2 DEF Attr, Element
    <3> QED BY <2>1, <2>3, <3>4, <3>5 DEF OutputName
  <2> QED BY <2>2, <2>3
<1>5. InputNames(e) = s.inputs
  <2>1. PICK n \in Nat : n = Len(s.inputs) /\ s.inputs = [i \in 1..n |-> s.inputs[i]]
    BY SequenceIs DEF ExactStep, MergeIs
  <2>2. PICK found : found = InputPart(s)
    OBVIOUS
  <2>3. found = [i \in 1..n |-> found[i]] /\ \A i \in 1..n : found[i] = Element("input", [name |-> s.inputs[i]], <<>>)
    BY <2>1, <2>2 DEF InputPart
  <2>4. DOMAIN found = 1..n
    BY <2>3
  <2>5. ASSUME NEW i \in 1..n PROVE Attr(found[i], "name") = s.inputs[i]
    <3>1. PICK has : has = [name |-> s.inputs[i]]
      OBVIOUS
    <3>2. PICK node : node = Element("input", has, <<>>)
      OBVIOUS
    <3>3. Attr(node, "name") = s.inputs[i]
      BY <3>1, <3>2 DEF Attr, Element
    <3> QED BY <2>3, <3>1, <3>2, <3>3
  <2>6. InputNames(e) = [i \in DOMAIN found |-> Attr(found[i], "name")]
    BY <1>1, <2>2 DEF InputNames
  <2>7. InputNames(e) = [i \in 1..n |-> s.inputs[i]]
    BY <2>4, <2>5, <2>6
  <2> QED BY <2>1, <2>7
<1> QED BY <1>2, <1>3, <1>4, <1>5

\* The node of a step is accepted, and read as the step.
LEMMA StepReadBack ==
    ASSUME NEW s, ExactStep(s), s.kind = "merge" => s.separator # "", NEW e, e = StepNode(s)
    PROVE  e.tag = "step" /\ StepFits(e) /\ StepOf(e, s.loop) = s
<1>1. e.tag = "step" /\ e.attrs = StepAttrs(s) /\ e.kids = StepKids(s)
  BY DEF StepNode, Element
<1>2. /\ Attr(e, "id") = s.id /\ Attr(e, "type") = s.kind
      /\ s.kind \in Asking => Attr(e, "agent") = s.agent
      /\ s.kind = "decision" => AttrOr(e, "onInvalid", "pause") = s.onInvalid
      /\ s.kind = "human_gate" => AttrOr(e, "allow", {"approve", "stop"}) = s.allow
      /\ s.kind = "merge" /\ s.separator # "" => AttrOr(e, "separator", "blank line") = s.separator
      /\ s.kind = "terminate" => AttrOr(e, "status", "success") = s.status
  BY <1>1, StepAttrsAre
<1>3. /\ ChildTextFits(e, "prompt") /\ ChildTextFits(e, "message")
      /\ ChildText(e, "prompt") = s.prompt /\ ChildText(e, "message") = s.message
      /\ OutputName(e) = s.output /\ (ChildrenOf(e, "output") = <<>> <=> s.output = "")
      /\ InputNames(e) = s.inputs
  BY <1>1, StepSays
<1>4. s.kind = "decision" =>
        /\ ChoicesFit(e)
        /\ [i \in DOMAIN ChoiceList(e) |->
                 [a \in {"name", "next", "terminate", "gate"} |-> Attr(ChoiceList(e)[i], a)]] = s.choices
  <2>1. ChildrenOf(e, "choices") = ChoicePart(s)
    BY <1>1, StepKidsAre
  <2> QED BY <2>1, ChoiceListIs
<1>5. \A k \in ToSet(Children(e)) : k.tag \in Allowed(s.kind)
  BY <1>1, StepKidsAllowed
<1>6. OutputFits(e)
  <2>1. s.output # "" => s.output \in Names
    BY DEF ExactStep, OutputIs
  <2> QED BY <1>3, <2>1 DEF OutputFits
<1>7. AsksAgent(e) => AgentStepFits(e)
  <2>1. ASSUME s.kind \in Asking PROVE AgentStepFits(e)
    <3>1. s.agent \in Names /\ s.prompt # <<>> /\ "${}" \notin ToSet(s.prompt)
      BY <2>1 DEF ExactStep, AgentIs, PromptIs, Asking, Prompted
    <3> QED BY <1>2, <1>3, <1>6, <2>1, <3>1 DEF AgentStepFits
  <2> QED BY <1>2, <2>1 DEF AsksAgent, Asking
<1>8. s.kind = "decision" => ChoicesFit(e) /\ AttrOr(e, "onInvalid", "pause") \in {"pause", "fail"}
  <2>1. s.kind = "decision" => s.onInvalid \in {"pause", "fail"}
    BY DEF ExactStep, DecisionIs
  <2> QED BY <1>2, <1>4, <2>1
<1>9. s.kind = "human_gate" => HumanGateFits(e)
  <2>1. s.kind = "human_gate" => s.allow # {} /\ s.allow \subseteq Actions /\ s.prompt # <<>>
    BY DEF ExactStep, GateIs, PromptIs, Prompted
  <2> QED BY <1>2, <1>3, <2>1 DEF HumanGateFits
<1>10. s.kind = "merge" => MergeFits(e)
  <2>1. ASSUME s.kind = "merge" PROVE MergeFits(e)
    <3>1. s.inputs # <<>> /\ (\A i \in 1..Len(s.inputs) : s.inputs[i] # "") /\ IsSequence(s.inputs) /\ s.output # ""
      BY <2>1 DEF ExactStep, MergeIs, OutputIs
    <3>2. DOMAIN s.inputs = 1..Len(s.inputs)
      BY <3>1, SequenceIs
    <3> QED BY <1>3, <1>6, <3>1, <3>2 DEF MergeFits
  <2> QED BY <2>1
<1>11. s.kind = "terminate" => AttrOr(e, "status", "success") \in Ends
  <2>1. s.kind = "terminate" => s.status \in Ends
    BY DEF ExactStep, EndIs
  <2> QED BY <1>2, <2>1
<1>12. s.id \in Names /\ s.kind \in Kinds
  BY DEF ExactStep
<1>13. StepFits(e)
  BY <1>2, <1>3, <1>5, <1>7, <1>8, <1>9, <1>10, <1>11, <1>12, Zenon DEF StepFits
<1>14. PICK r : r = StepOf(e, s.loop)
  OBVIOUS
<1>15. PICK choices : choices = [i \in DOMAIN ChoiceList(e) |->
                      [a \in {"name", "next", "terminate", "gate"} |-> Attr(ChoiceList(e)[i], a)]]
  OBVIOUS
<1>16. r = [id |-> s.id, kind |-> s.kind, loop |-> s.loop,
            agent |-> IF s.kind \in {"agent", "decision"} THEN Attr(e, "agent") ELSE "",
            prompt |-> IF s.kind \in {"agent", "decision", "human_gate"} THEN s.prompt ELSE <<>>,
            output |-> IF s.kind \in {"agent", "decision", "merge"} THEN s.output ELSE "",
            choices |-> IF s.kind \in {"decision"} THEN choices ELSE <<>>,
            onInvalid |-> IF s.kind \in {"decision"} THEN AttrOr(e, "onInvalid", "pause") ELSE "",
            allow |-> IF s.kind \in {"human_gate"} THEN AttrOr(e, "allow", {"approve", "stop"}) ELSE {},
            inputs |-> IF s.kind \in {"merge"} THEN s.inputs ELSE <<>>,
            separator |-> IF s.kind \in {"merge"} THEN AttrOr(e, "separator", "blank line") ELSE "",
            status |-> IF s.kind \in {"terminate"} THEN AttrOr(e, "status", "success") ELSE "",
            message |-> IF s.kind \in {"terminate"} THEN s.message ELSE <<>>]
  BY <1>2, <1>3, <1>14, <1>15, Zenon DEF StepOf
<1>17. (IF s.kind \in {"agent", "decision"} THEN Attr(e, "agent") ELSE "") = s.agent
  BY <1>2 DEF ExactStep, AgentIs, Asking
<1>18. (IF s.kind \in {"agent", "decision", "human_gate"} THEN s.prompt ELSE <<>>) = s.prompt
  BY DEF ExactStep, PromptIs, Prompted
<1>19. (IF s.kind \in {"agent", "decision", "merge"} THEN s.output ELSE "") = s.output
  BY <1>12 DEF ExactStep, OutputIs, Kinds
<1>20. (IF s.kind \in {"decision"} THEN choices ELSE <<>>) = s.choices
  BY <1>4, <1>15 DEF ExactStep, DecisionIs
<1>21. (IF s.kind \in {"decision"} THEN AttrOr(e, "onInvalid", "pause") ELSE "") = s.onInvalid
  BY <1>2 DEF ExactStep, DecisionIs
<1>22. (IF s.kind \in {"human_gate"} THEN AttrOr(e, "allow", {"approve", "stop"}) ELSE {}) = s.allow
  BY <1>2 DEF ExactStep, GateIs
<1>23. (IF s.kind \in {"merge"} THEN s.inputs ELSE <<>>) = s.inputs
  BY DEF ExactStep, MergeIs
<1>24. (IF s.kind \in {"merge"} THEN AttrOr(e, "separator", "blank line") ELSE "") = s.separator
  BY <1>2 DEF ExactStep, MergeIs
<1>25. (IF s.kind \in {"terminate"} THEN AttrOr(e, "status", "success") ELSE "") = s.status
  BY <1>2 DEF ExactStep, EndIs
<1>26. (IF s.kind \in {"terminate"} THEN s.message ELSE <<>>) = s.message
  BY DEF ExactStep, EndIs
<1>27. r = [id |-> s.id, kind |-> s.kind, loop |-> s.loop, agent |-> s.agent, prompt |-> s.prompt,
         output |-> s.output, choices |-> s.choices, onInvalid |-> s.onInvalid, allow |-> s.allow,
         inputs |-> s.inputs, separator |-> s.separator, status |-> s.status, message |-> s.message]
  BY <1>16, <1>17, <1>18, <1>19, <1>20, <1>21, <1>22, <1>23, <1>24, <1>25, <1>26, Zenon
<1>28. r = s
  BY <1>27, Zenon DEF ExactStep, FieldsAre
<1> QED BY <1>1, <1>13, <1>14, <1>28

\* The text of an element that has only text.
LEMMA TextOfIs ==
    ASSUME NEW e, Tree(e), HasTextOnly(e)
    PROVE  Plain(TextOf(e))
<1>1. PICK kids : kids = e.kids
  OBVIOUS
<1>2. IsSequence(kids) /\ \A i \in 1..Len(kids) : Tree(kids[i])
  BY <1>1, TreeIs
<1>3. PICK n \in Nat : n = Len(kids) /\ DOMAIN kids = 1..n /\ ToSet(kids) = {kids[i] : i \in 1..n}
  BY <1>2, SequenceIs
<1>4. PICK tags : tags = {k.tag : k \in ToSet(kids)} \ {TextTag}
  OBVIOUS
<1>5. Only(kids, tags) = <<>>
  <2>1. Children(e) = <<>>
    BY DEF HasTextOnly
  <2>2. Tagged(e, tags) = Only(kids, tags)
    BY <1>1, <1>2, TaggedOnly
  <2> QED BY <1>1, <1>4, <2>1, <2>2 DEF Children
<1>6. ASSUME NEW i \in 1..n PROVE Plain(kids[i].attrs.words)
  <2>1. kids[i].tag \notin tags
    <3>1. ASSUME kids[i].tag \in tags PROVE FALSE
      <4>1. i \in 1..Len(kids)
        BY <1>3
      <4>2. Only(kids, tags) # <<>>
        BY ONLY <1>2, <3>1, <4>1, OnlyHas
      <4> QED BY <1>5, <4>2
    <3> QED BY <3>1
  <2>2. kids[i].tag = TextTag
    BY <1>3, <1>4, <2>1
  <2>3. PICK k : k = kids[i]
    OBVIOUS
  <2>4. Tree(k) /\ k.tag = TextTag
    BY <1>2, <1>3, <2>2, <2>3
  <2>5. Plain(k.attrs.words)
    BY <2>4, TreeIs
  <2> QED BY <2>3, <2>5
<1>7. PICK seqs : seqs = [i \in DOMAIN e.kids |-> e.kids[i].attrs.words]
  OBVIOUS
<1>8. seqs = [i \in 1..n |-> seqs[i]] /\ \A i \in 1..n : seqs[i] = kids[i].attrs.words
  BY <1>1, <1>3, <1>7
<1>9. IsSequence(seqs) /\ Len(seqs) = n
  BY <1>8, Mapped
<1>10. \A i \in 1..Len(seqs) : Plain(seqs[i])
  BY <1>6, <1>8, <1>9
<1>11. Plain(Joined(seqs))
  BY <1>9, <1>10, JoinedPlain
<1> QED BY <1>7, <1>11 DEF TextOf

\* The text of the first child with a tag.
LEMMA ChildTextIs ==
    ASSUME NEW e, Tree(e), NEW tag, ChildTextFits(e, tag)
    PROVE  Plain(ChildText(e, tag))
<1>1. PICK found : found = ChildrenOf(e, tag)
  OBVIOUS
<1>2. IsSequence(found) /\ \A i \in 1..Len(found) : Tree(found[i])
  BY <1>1, KidsAreTrees
<1>3. CASE found = <<>>
  <2>1. Plain(<<>>)
    BY NoSequence DEF Plain
  <2> QED BY <1>1, <1>3, <2>1 DEF ChildText
<1>4. CASE found # <<>>
  <2>1. 1 \in 1..Len(found)
    BY <1>2, <1>4, SequenceIs
  <2>2. PICK f : f = found[1]
    OBVIOUS
  <2>3. Tree(f) /\ HasTextOnly(f)
    BY <1>1, <1>2, <1>4, <2>1, <2>2 DEF ChildTextFits
  <2>4. Plain(TextOf(f))
    BY <2>3, TextOfIs
  <2> QED BY <1>1, <1>4, <2>2, <2>4 DEF ChildText
<1> QED BY <1>3, <1>4

\* The choices that the parser accepts, as the definition has them.
LEMMA ChoicesOfAre ==
    ASSUME NEW e, Tree(e), ChoicesFit(e), NEW choices,
           choices = [i \in DOMAIN ChoiceList(e) |->
                        [a \in {"name", "next", "terminate", "gate"} |-> Attr(ChoiceList(e)[i], a)]]
    PROVE  ChoicesAre(choices)
<1>1. PICK list : list = ChoiceList(e)
  OBVIOUS
<1>2. IsSequence(list)
  <2>1. PICK found : found = ChildrenOf(e, "choices")
    OBVIOUS
  <2>2. IsSequence(found) /\ \A i \in 1..Len(found) : Tree(found[i])
    BY <2>1, KidsAreTrees
  <2>3. CASE found = <<>>
    BY <1>1, <2>1, <2>3, NoSequence DEF ChoiceList
  <2>4. CASE found # <<>>
    <3>1. 1 \in 1..Len(found)
      BY <2>2, <2>4, SequenceIs
    <3>2. IsSequence(Children(found[1]))
      BY <2>2, <3>1, KidsAreTrees
    <3> QED BY <1>1, <2>1, <2>4, <3>2 DEF ChoiceList
  <2> QED BY <2>3, <2>4
<1>3. PICK n \in Nat : n = Len(list) /\ DOMAIN list = 1..n /\ ToSet(list) = {list[i] : i \in 1..n} /\ n # 0
  <2>1. list # <<>>
    BY <1>1 DEF ChoicesFit
  <2> QED BY <1>2, <2>1, SequenceIs
<1>4. \A i \in 1..n : choices[i] = [a \in {"name", "next", "terminate", "gate"} |-> Attr(list[i], a)]
  BY <1>1, <1>3
<1>5. choices = [i \in 1..n |-> choices[i]]
  BY <1>1, <1>3
<1>6. IsSequence(choices) /\ Len(choices) = n
  BY <1>5, Mapped
<1>7. choices # <<>>
  BY <1>3, <1>6, SequenceIs
<1>8. ASSUME NEW i \in 1..n PROVE ChoiceIs(choices[i])
  <2>1. PICK c : c = choices[i]
    OBVIOUS
  <2>2. PICK x : x = list[i]
    OBVIOUS
  <2>3. c = [a \in {"name", "next", "terminate", "gate"} |-> Attr(x, a)]
    BY <1>4, <2>1, <2>2
  <2>4. ChoiceFits(x)
    BY <1>1, <1>3, <2>2 DEF ChoicesFit
  <2>5. /\ c["name"] = Attr(x, "name") /\ c["terminate"] = Attr(x, "terminate") /\ c["gate"] = Attr(x, "gate")
        /\ c["next"] = Attr(x, "next")
        /\ c = [a \in {"name", "next", "terminate", "gate"} |-> c[a]]
    BY <2>3
  <2>6. {a \in {"next", "terminate", "gate"} : c[a] # ""} = {a \in {"next", "terminate", "gate"} : Attr(x, a) # ""}
    BY <2>5
  <2>7. Cardinality({a \in {"next", "terminate", "gate"} : c[a] # ""}) = 1
    BY <2>4, <2>6, Zenon DEF ChoiceFits
  <2>8. c["name"] # "" /\ c["terminate"] \in Ends \cup {""} /\ c["gate"] \in {"human", ""}
    BY <2>4, <2>5 DEF ChoiceFits
  <2>9. c = [a \in {"name", "next", "terminate", "gate"} |-> c[a]]
    BY <2>5
  <2>10. ChoiceIs(c)
    BY <2>7, <2>8, <2>9, Zenon DEF ChoiceIs
  <2> QED BY <2>1, <2>10
<1>9. ASSUME NEW i \in 1..n, NEW j \in 1..n, choices[i]["name"] = choices[j]["name"] PROVE i = j
  <2>1. \A k \in 1..n : choices[k]["name"] = Attr(list[k], "name")
    <3>1. ASSUME NEW k \in 1..n PROVE choices[k]["name"] = Attr(list[k], "name")
      <4>1. PICK x : x = list[k]
        OBVIOUS
      <4>2. choices[k] = [a \in {"name", "next", "terminate", "gate"} |-> Attr(x, a)]
        BY <1>4, <4>1
      <4> QED BY <4>1, <4>2
    <3> QED BY <3>1
  <2>2. Distinct(list, LAMBDA c : Attr(c, "name"))
    BY <1>1 DEF ChoicesFit
  <2>3. \A k \in DOMAIN list, m \in DOMAIN list : Attr(list[k], "name") = Attr(list[m], "name") => k = m
    BY <2>2 DEF Distinct
  <2>4. Attr(list[i], "name") = Attr(list[j], "name")
    <3>1. choices[i]["name"] = Attr(list[i], "name") /\ choices[j]["name"] = Attr(list[j], "name")
      BY <2>1
    <3> QED BY <1>9, <3>1, Zenon
  <2>5. i \in DOMAIN list /\ j \in DOMAIN list
    BY <1>3
  <2> QED BY <2>3, <2>4, <2>5, Zenon
<1>10. \A i, j \in 1..n : choices[i]["name"] = choices[j]["name"] => i = j
  BY <1>9
<1> QED BY <1>6, <1>7, <1>8, <1>10 DEF ChoicesAre

\* The step that is made of an element has the fields of its kind.
LEMMA StepOfExact ==
    ASSUME NEW e, Tree(e), StepFits(e), NEW loop, NEW s, s = StepOf(e, loop)
    PROVE  ExactStep(s)
<1>1. PICK choices : choices = [i \in DOMAIN ChoiceList(e) |->
                      [a \in {"name", "next", "terminate", "gate"} |-> Attr(ChoiceList(e)[i], a)]]
  OBVIOUS
<1>2. PICK kind : kind = Attr(e, "type")
  OBVIOUS
<1>30. PICK vagent : vagent = IF kind \in {"agent", "decision"} THEN Attr(e, "agent") ELSE ""
  OBVIOUS
<1>31. PICK vprompt : vprompt = IF kind \in {"agent", "decision", "human_gate"} THEN ChildText(e, "prompt") ELSE <<>>
  OBVIOUS
<1>32. PICK voutput : voutput = IF kind \in {"agent", "decision", "merge"} THEN OutputName(e) ELSE ""
  OBVIOUS
<1>33. PICK vchoices : vchoices = IF kind \in {"decision"} THEN choices ELSE <<>>
  OBVIOUS
<1>34. PICK vonInvalid : vonInvalid = IF kind \in {"decision"} THEN AttrOr(e, "onInvalid", "pause") ELSE ""
  OBVIOUS
<1>35. PICK vallow : vallow = IF kind \in {"human_gate"} THEN AttrOr(e, "allow", {"approve", "stop"}) ELSE {}
  OBVIOUS
<1>36. PICK vinputs : vinputs = IF kind \in {"merge"} THEN InputNames(e) ELSE <<>>
  OBVIOUS
<1>37. PICK vseparator : vseparator = IF kind \in {"merge"} THEN AttrOr(e, "separator", "blank line") ELSE ""
  OBVIOUS
<1>38. PICK vstatus : vstatus = IF kind \in {"terminate"} THEN AttrOr(e, "status", "success") ELSE ""
  OBVIOUS
<1>39. PICK vmessage : vmessage = IF kind \in {"terminate"} THEN ChildText(e, "message") ELSE <<>>
  OBVIOUS
<1>3. s = [id |-> Attr(e, "id"), kind |-> kind, loop |-> loop,
            agent |-> vagent, prompt |-> vprompt, output |-> voutput, choices |-> vchoices, onInvalid |-> vonInvalid, allow |-> vallow, inputs |-> vinputs, separator |-> vseparator, status |-> vstatus, message |-> vmessage]
  BY <1>1, <1>2, <1>30, <1>31, <1>32, <1>33, <1>34, <1>35, <1>36, <1>37, <1>38, <1>39, Zenon DEF StepOf
<1>4. /\ s.id = Attr(e, "id") /\ s.kind = kind /\ s.loop = loop
      /\ s.agent = IF kind \in {"agent", "decision"} THEN Attr(e, "agent") ELSE ""
      /\ s.prompt = IF kind \in {"agent", "decision", "human_gate"} THEN ChildText(e, "prompt") ELSE <<>>
      /\ s.output = IF kind \in {"agent", "decision", "merge"} THEN OutputName(e) ELSE ""
      /\ s.choices = IF kind \in {"decision"} THEN choices ELSE <<>>
      /\ s.onInvalid = IF kind \in {"decision"} THEN AttrOr(e, "onInvalid", "pause") ELSE ""
      /\ s.allow = IF kind \in {"human_gate"} THEN AttrOr(e, "allow", {"approve", "stop"}) ELSE {}
      /\ s.inputs = IF kind \in {"merge"} THEN InputNames(e) ELSE <<>>
      /\ s.separator = IF kind \in {"merge"} THEN AttrOr(e, "separator", "blank line") ELSE ""
      /\ s.status = IF kind \in {"terminate"} THEN AttrOr(e, "status", "success") ELSE ""
      /\ s.message = IF kind \in {"terminate"} THEN ChildText(e, "message") ELSE <<>>
  <2>1. s.id = Attr(e, "id") /\ s.kind = kind /\ s.loop = loop /\ s.agent = vagent /\ s.prompt = vprompt /\ s.output = voutput /\ s.choices = vchoices /\ s.onInvalid = vonInvalid /\ s.allow = vallow /\ s.inputs = vinputs /\ s.separator = vseparator /\ s.status = vstatus /\ s.message = vmessage
    BY <1>3
  <2> QED BY <2>1, <1>30, <1>31, <1>32, <1>33, <1>34, <1>35, <1>36, <1>37, <1>38, <1>39
<1>5. FieldsAre(s)
  BY <1>3 DEF FieldsAre
<1>6. /\ Attr(e, "id") \in Names /\ kind \in Kinds
      /\ ChildTextFits(e, "prompt") /\ ChildTextFits(e, "message")
      /\ kind \in {"agent", "decision"} => AgentStepFits(e)
      /\ kind = "decision" => ChoicesFit(e) /\ AttrOr(e, "onInvalid", "pause") \in {"pause", "fail"}
      /\ kind = "human_gate" => HumanGateFits(e)
      /\ kind = "merge" => MergeFits(e)
      /\ kind = "terminate" => AttrOr(e, "status", "success") \in Ends
  BY <1>2, Zenon DEF StepFits, AsksAgent
<1>7. Plain(ChildText(e, "prompt")) /\ Plain(ChildText(e, "message"))
  BY <1>6, ChildTextIs
<1>8. PromptIs(s)
  <2>1. kind \in {"agent", "decision"} => ChildText(e, "prompt") # <<>> /\ "${}" \notin ToSet(ChildText(e, "prompt"))
    BY <1>6 DEF AgentStepFits
  <2>2. kind = "human_gate" => ChildText(e, "prompt") # <<>>
    BY <1>6 DEF HumanGateFits
  <2> QED BY <1>4, <1>7, <2>1, <2>2 DEF PromptIs, Prompted, Asking
<1>9. AgentIs(s)
  <2>1. kind \in {"agent", "decision"} => Attr(e, "agent") \in Names
    BY <1>6 DEF AgentStepFits
  <2> QED BY <1>4, <2>1 DEF AgentIs, Asking
<1>10. OutputIs(s)
  <2>1. kind \in {"agent", "decision", "merge"} => OutputFits(e)
    BY <1>6 DEF AgentStepFits, MergeFits
  <2>2. OutputFits(e) => OutputName(e) \in Names \cup {""}
    BY DEF OutputFits, OutputName
  <2>3. kind = "merge" => OutputName(e) \in Names
    BY <1>6 DEF MergeFits, OutputFits
  <2> QED BY <1>4, <2>1, <2>2, <2>3, NamesAssumption DEF OutputIs
<1>11. DecisionIs(s)
  <2>1. kind = "decision" => ChoicesAre(choices)
    BY <1>1, <1>6, ChoicesOfAre
  <2> QED BY <1>4, <1>6, <2>1 DEF DecisionIs
<1>12. GateIs(s)
  <2>1. kind = "human_gate" => AttrOr(e, "allow", {"approve", "stop"}) # {} /\ AttrOr(e, "allow", {"approve", "stop"}) \subseteq Actions
    BY <1>6 DEF HumanGateFits
  <2> QED BY <1>4, <2>1 DEF GateIs
<1>13. MergeIs(s)
  <2>1. PICK names : names = InputNames(e)
    OBVIOUS
  <2>2. IsSequence(names)
    <3>1. PICK found : found = ChildrenOf(e, "input")
      OBVIOUS
    <3>2. names = [i \in DOMAIN found |-> names[i]]
      BY <2>1, <3>1 DEF InputNames
    <3>3. IsSequence(found)
      BY <3>1, KidsAreTrees
    <3> QED BY <3>2, <3>3, MappedOver
  <2>3. DOMAIN names = 1..Len(names)
    BY <2>2, SequenceIs
  <2>4. kind = "merge" => names # <<>> /\ \A i \in 1..Len(names) : names[i] # ""
    BY <1>6, <2>1, <2>3 DEF MergeFits
  <2> QED BY <1>4, <2>1, <2>2, <2>4, NoSequence DEF MergeIs
<1>14. EndIs(s)
  BY <1>4, <1>6, <1>7 DEF EndIs
<1>15. s.id \in Names /\ s.kind \in Kinds
  BY <1>4, <1>6
<1> QED BY <1>5, <1>8, <1>9, <1>10, <1>11, <1>12, <1>13, <1>14, <1>15 DEF ExactStep

-----------------------------------------------------------------------------
(***************************************************************************)
(* The parser's steps (parser.ts).                                         *)
(***************************************************************************)

\* The fields of a definition under construction.
Shape(def) ==
    /\ def = [fits |-> def.fits, id |-> def.id, version |-> def.version,
              described |-> def.described, description |-> def.description,
              inputs |-> def.inputs, steps |-> def.steps, loops |-> def.loops]
    /\ def.fits \in BOOLEAN

\* All but the steps and the loops is as in another.
Rest(r, d) ==
    /\ r.id = d.id /\ r.version = d.version
    /\ r.described = d.described /\ r.description = d.description /\ r.inputs = d.inputs

\* A step with an id and an output of its own.
NewTo(steps, s) ==
    \A i \in DOMAIN steps : steps[i].id # s.id /\ (s.output # "" => steps[i].output # s.output)

\* The id and the loop of a step that is made.
LEMMA StepOfIs ==
    ASSUME NEW e, NEW loop
    PROVE  StepOf(e, loop).id = Attr(e, "id") /\ StepOf(e, loop).loop = loop
<1>1. PICK s : s = StepOf(e, loop)
  OBVIOUS
<1>2. s.id = Attr(e, "id") /\ s.loop = loop
  BY <1>1 DEF StepOf
<1> QED BY <1>1, <1>2

\* What AddStep does to a definition that fits.
LEMMA AddStepIs ==
    ASSUME NEW def, Shape(def), NEW e, Tree(e), NEW loop, NEW r, r = AddStep(def, e, loop)
    PROVE  /\ Shape(r)
           /\ r.fits => /\ def.fits /\ r.loops = def.loops /\ Rest(r, def)
                        /\ \E s : /\ r.steps = Append(def.steps, s) /\ ExactStep(s)
                                  /\ s.id = Attr(e, "id") /\ s.loop = loop /\ NewTo(def.steps, s)
<1>1. CASE e.tag = "step" /\ StepFits(e)
  <2>1. PICK s : s = StepOf(e, loop)
    OBVIOUS
  <2>2. ExactStep(s) /\ s.id = Attr(e, "id") /\ s.loop = loop
    <3>1. ExactStep(s)
      BY <1>1, <2>1, StepOfExact
    <3> QED BY <2>1, <3>1, StepOfIs
  <2>3. r = Register(def, s)
    BY <1>1, <2>1 DEF AddStep
  <2>4. PICK fits \in BOOLEAN : /\ fits = (def.fits /\ \A i \in DOMAIN def.steps :
                                 /\ def.steps[i].id # s.id
                                 /\ s.output # "" => def.steps[i].output # s.output)
    BY Zenon
  <2>5. r = [def EXCEPT !.fits = fits, !.steps = Append(@, s)]
    BY <2>3, <2>4, Zenon DEF Register
  <2>6. /\ Shape(r) /\ r.fits = fits /\ r.loops = def.loops /\ Rest(r, def)
        /\ r.steps = Append(def.steps, s)
    BY <2>4, <2>5 DEF Shape, Rest
  <2>7. fits => def.fits /\ NewTo(def.steps, s)
    BY <2>4, Zenon DEF NewTo
  <2> QED BY <2>2, <2>6, <2>7, Zenon
<1>2. CASE ~(e.tag = "step" /\ StepFits(e))
  <2>1. r = [def EXCEPT !.fits = FALSE]
    BY <1>2 DEF AddStep
  <2>2. Shape(r) /\ r.fits = FALSE
    BY <2>1 DEF Shape
  <2> QED BY <2>2
<1> QED BY <1>1, <1>2

\* Each step has an id of its own, and an output of its own if any.
StepsDiffer(steps) ==
    /\ IsSequence(steps) /\ \A i \in 1..Len(steps) : ExactStep(steps[i])
    /\ \A i, j \in 1..Len(steps) : steps[i].id = steps[j].id => i = j
    /\ \A i, j \in 1..Len(steps) : steps[i].output = steps[j].output /\ steps[i].output # "" => i = j

\* A step with a new id comes after the others.
LEMMA OneMoreStep ==
    ASSUME NEW steps, StepsDiffer(steps), NEW s, ExactStep(s), NewTo(steps, s)
    PROVE  StepsDiffer(Append(steps, s))
<1>1. IsSequence(steps)
  BY DEF StepsDiffer
<1>2. PICK n \in Nat : n = Len(steps) /\ DOMAIN steps = 1..n
  BY <1>1, SequenceIs
<1>3. PICK more : more = Append(steps, s)
  OBVIOUS
<1>4. IsSequence(more) /\ Len(more) = n + 1 /\ more[n + 1] = s /\ \A i \in 1..n : more[i] = steps[i]
  BY <1>1, <1>2, <1>3, Appended
<1>5. \A i \in 1..(n + 1) : i = n + 1 \/ i \in 1..n
  OBVIOUS
<1>6. \A i \in 1..n : ExactStep(steps[i])
  BY <1>2 DEF StepsDiffer
<1>7. \A i \in 1..(n + 1) : ExactStep(more[i])
  BY <1>4, <1>5, <1>6, Zenon
<1>8. \A i \in 1..n : steps[i].id # s.id /\ (s.output # "" => steps[i].output # s.output)
  BY <1>2 DEF NewTo
<1>9. \A i, j \in 1..n : steps[i].id = steps[j].id => i = j
  BY <1>2 DEF StepsDiffer
<1>10. \A i, j \in 1..n : steps[i].output = steps[j].output /\ steps[i].output # "" => i = j
  BY <1>2 DEF StepsDiffer
<1>11. \A i, j \in 1..(n + 1) : more[i].id = more[j].id => i = j
  BY ONLY <1>4, <1>5, <1>8, <1>9, Zenon
<1>12. \A i, j \in 1..(n + 1) : more[i].output = more[j].output /\ more[i].output # "" => i = j
  BY ONLY <1>4, <1>5, <1>8, <1>10, Zenon
<1> QED BY <1>3, <1>4, <1>7, <1>11, <1>12 DEF StepsDiffer

\* What stands in d after the steps of base: m steps of a loop with the ids of seq.
Extended(d, base, seq, m, id) ==
    /\ base.fits /\ d.loops = base.loops /\ Rest(d, base)
    /\ StepsDiffer(base.steps) =>
         /\ StepsDiffer(d.steps) /\ Len(d.steps) = Len(base.steps) + m
         /\ \A i \in 1..Len(base.steps) : d.steps[i] = base.steps[i]
         /\ \A j \in 1..m : /\ d.steps[Len(base.steps) + j].id = Attr(seq[j], "id")
                            /\ d.steps[Len(base.steps) + j].loop = id

\* One more step of the loop is read.
LEMMA ExtendedMore ==
    ASSUME NEW base, NEW d, Shape(d), NEW seq, NEW m \in Nat, NEW id, d.fits => Extended(d, base, seq, m, id),
           Tree(seq[m + 1]), NEW r, r = AddStep(d, seq[m + 1], id)
    PROVE  Shape(r) /\ (r.fits => Extended(r, base, seq, m + 1, id))
<1>1. PICK e : e = seq[m + 1]
  OBVIOUS
<1>2. /\ Shape(r)
      /\ r.fits => /\ d.fits /\ r.loops = d.loops /\ Rest(r, d)
                   /\ \E s : /\ r.steps = Append(d.steps, s) /\ ExactStep(s)
                             /\ s.id = Attr(e, "id") /\ s.loop = id /\ NewTo(d.steps, s)
  BY <1>1, AddStepIs
<1>3. ASSUME r.fits PROVE Extended(r, base, seq, m + 1, id)
  <2>1. /\ base.fits /\ r.loops = base.loops /\ Rest(r, base) /\ d.fits
    BY <1>2, <1>3 DEF Extended, Rest
  <2>2. ASSUME StepsDiffer(base.steps)
        PROVE  /\ StepsDiffer(r.steps) /\ Len(r.steps) = Len(base.steps) + (m + 1)
               /\ \A i \in 1..Len(base.steps) : r.steps[i] = base.steps[i]
               /\ \A j \in 1..(m + 1) : /\ r.steps[Len(base.steps) + j].id = Attr(seq[j], "id")
                                        /\ r.steps[Len(base.steps) + j].loop = id
    <3>1. PICK k \in Nat : k = Len(base.steps)
      BY <2>2, SequenceIs DEF StepsDiffer
    <3>2. /\ StepsDiffer(d.steps) /\ Len(d.steps) = k + m
          /\ \A i \in 1..k : d.steps[i] = base.steps[i]
          /\ \A j \in 1..m : d.steps[k + j].id = Attr(seq[j], "id") /\ d.steps[k + j].loop = id
      BY <1>2, <1>3, <2>2, <3>1 DEF Extended
    <3>3. PICK s : /\ r.steps = Append(d.steps, s) /\ ExactStep(s)
                   /\ s.id = Attr(e, "id") /\ s.loop = id /\ NewTo(d.steps, s)
      BY <1>2, <1>3
    <3>4. StepsDiffer(r.steps)
      BY <3>2, <3>3, OneMoreStep
    <3>5. Len(r.steps) = k + m + 1 /\ r.steps[k + m + 1] = s /\ \A i \in 1..(k + m) : r.steps[i] = d.steps[i]
      <4>1. PICK steps : steps = d.steps
        OBVIOUS
      <4>2. IsSequence(steps)
        BY <3>2, <4>1 DEF StepsDiffer
      <4>3. Len(steps) = k + m /\ r.steps = Append(steps, s)
        BY <3>2, <3>3, <4>1
      <4> HIDE <3>2, <3>3
      <4> QED BY ONLY <4>1, <4>2, <4>3, Appended
    <3>6. \A i \in 1..k : r.steps[i] = base.steps[i]
      <4>1. \A i \in 1..k : i \in 1..(k + m)
        OBVIOUS
      <4> QED BY <3>2, <3>5, <4>1, Zenon
    <3>7. ASSUME NEW j \in 1..(m + 1)
          PROVE  r.steps[k + j].id = Attr(seq[j], "id") /\ r.steps[k + j].loop = id
      <4>1. CASE j = m + 1
        <5>1. r.steps[k + j] = s /\ e = seq[j]
          BY <1>1, <3>5, <4>1
        <5> QED BY <3>3, <5>1
      <4>2. CASE j \in 1..m
        <5>1. k + j \in 1..(k + m)
          BY <4>2
        <5> QED BY <3>2, <3>5, <4>2, <5>1, Zenon
      <4> QED BY <4>1, <4>2
    <3>8. Len(r.steps) = k + (m + 1)
      BY <3>5
    <3> QED BY <3>1, <3>4, <3>6, <3>7, <3>8, Zenon
  <2> QED BY <2>1, <2>2 DEF Extended
<1> QED BY <1>2, <1>3

\* A loop's steps are read like the others.
LEMMA InnerPass ==
    ASSUME NEW base, Shape(base), NEW seq, IsSequence(seq), \A i \in 1..Len(seq) : Tree(seq[i]),
           NEW id
    PROVE  \E r : /\ r = AddSteps(base, seq, id)
                  /\ Shape(r) /\ (r.fits => Extended(r, base, seq, Len(seq), id))
<1>1. PICK n \in Nat : n = Len(seq)
  BY SequenceIs
<1>2. PICK f : /\ f[0] = base /\ AddSteps(base, seq, id) = f[Len(seq)]
               /\ \A i \in 1..Len(seq) : f[i] = AddStep(f[i - 1], seq[i], id)
  <2>1. Len(seq) \in Nat
    BY <1>1
  <2> QED BY <2>1, StepsPass
<1>7. f[0] = base /\ \A i \in 1..n : f[i] = AddStep(f[i - 1], seq[i], id)
  BY <1>1, <1>2, Zenon
<1>8. AddSteps(base, seq, id) = f[n]
  BY <1>1, <1>2, Zenon
<1> DEFINE Good(i) == Shape(f[i]) /\ (f[i].fits => Extended(f[i], base, seq, i, id))
<1>3. Good(0)
  <2>1. base.fits => Extended(base, base, seq, 0, id)
    <3>1. StepsDiffer(base.steps) => Len(base.steps) \in Nat
      BY SequenceIs DEF StepsDiffer
    <3> QED BY <3>1 DEF Extended, Rest
  <2> QED BY <1>7, <2>1
<1>4. ASSUME NEW i \in 1..n, Good(i - 1) PROVE Good(i)
  <2>1. PICK m \in Nat : m = i - 1
    OBVIOUS
  <2>2. i = m + 1 /\ f[m + 1] = AddStep(f[m], seq[m + 1], id) /\ Tree(seq[m + 1])
    BY <1>1, <1>7, <2>1
  <2>3. Good(m)
    BY <1>4, <2>1
  <2>4. Good(m + 1)
    BY <2>2, <2>3, ExtendedMore
  <2> QED BY <2>2, <2>4
<1>5. PICK S : S = {i \in 0..n : Good(i)}
  OBVIOUS
<1> HIDE DEF Good
<1>6. n \in S
  <2>1. 0 \in S /\ \A i \in 1..n : i - 1 \in S => i \in S
    BY <1>3, <1>4, <1>5
  <2> QED BY ONLY <2>1, Onward, n \in Nat
<1>9. Shape(f[n]) /\ (f[n].fits => Extended(f[n], base, seq, Len(seq), id))
  BY <1>1, <1>5, <1>6 DEF Good
<1> QED BY <1>8, <1>9, Zenon

-----------------------------------------------------------------------------
(***************************************************************************)
(* The parser's loops and documents. A definition under construction that  *)
(* fits has steps with ids of their own, and each loop's steps stand       *)
(* together.                                                               *)
(***************************************************************************)

\* The steps of loop l stand together from lo on, in the loop's order.
StandsAt(def, l, lo) ==
    /\ IsSequence(l.steps) /\ Len(l.steps) >= 1 /\ lo + Len(l.steps) <= Len(def.steps)
    /\ \A j \in 1..Len(l.steps) : l.steps[j] = def.steps[lo + j].id
    /\ \A i \in 1..Len(def.steps) : def.steps[i].loop = l.id <=> lo < i /\ i <= lo + Len(l.steps)

\* The bounds of a loop: those it has are positive, and it has one.
BoundsAre(bounds) ==
    /\ bounds = [b \in Bounds |-> bounds[b]] /\ \A b \in Bounds : bounds[b] = 0 \/ bounds[b] > 0
    /\ \E b \in Bounds : bounds[b] > 0

\* A loop of a definition that fits.
LoopIs(def, l) ==
    /\ l = [id |-> l.id, steps |-> l.steps, bounds |-> l.bounds]
    /\ l.id \in Names /\ BoundsAre(l.bounds)
    /\ \E lo \in Nat : StandsAt(def, l, lo)

\* Each loop has an id of its own, and the steps of one come before those of the next.
LoopsDiffer(loops) == \A k, m \in 1..Len(loops) : loops[k].id = loops[m].id => k = m
LoopsFollow(steps, loops) ==
    \A k, m \in 1..Len(loops) : k < m =>
        \A i, j \in 1..Len(steps) : steps[i].loop = loops[k].id /\ steps[j].loop = loops[m].id => i < j

\* What the steps and the loops of a definition that fits are.
Ordered(def) ==
    /\ StepsDiffer(def.steps)
    /\ IsSequence(def.loops) /\ \A k \in 1..Len(def.loops) : LoopIs(def, def.loops[k])
    /\ \A i \in 1..Len(def.steps) : def.steps[i].loop # "" =>
          \E k \in 1..Len(def.loops) : def.loops[k].id = def.steps[i].loop
    /\ LoopsDiffer(def.loops) /\ LoopsFollow(def.steps, def.loops)

\* The inputs, of which each has a name of its own.
InputIs(x) == x = [name |-> x.name, optional |-> x.optional] /\ x.name \in Names /\ x.optional \in BOOLEAN
InputsDiffer(inputs) ==
    /\ IsSequence(inputs) /\ \A i \in 1..Len(inputs) : InputIs(inputs[i])
    /\ \A i, j \in 1..Len(inputs) : inputs[i].name = inputs[j].name => i = j

\* All that is neither a step nor a loop.
HeadIs(def) ==
    /\ def.id \in Names /\ Plain(def.description) /\ def.described \in BOOLEAN
    /\ (~def.described => def.description = <<>>) /\ InputsDiffer(def.inputs)

\* It does not depend on the steps and the loops.
LEMMA SameHead ==
    ASSUME NEW def, HeadIs(def), NEW r, Rest(r, def)
    PROVE  HeadIs(r)
  BY DEF HeadIs, Rest

\* A definition under construction as the parser has it.
Built(def) == Shape(def) /\ (def.fits => HeadIs(def) /\ Ordered(def))

\* The order depends on the steps and the loops alone.
LEMMA SameOrder ==
    ASSUME NEW def, Ordered(def), NEW more, more.steps = def.steps, more.loops = def.loops
    PROVE  Ordered(more)
<1>1. ASSUME NEW l, LoopIs(def, l) PROVE LoopIs(more, l)
  <2>1. PICK lo \in Nat : StandsAt(def, l, lo)
    BY <1>1 DEF LoopIs
  <2>2. StandsAt(more, l, lo)
    BY <2>1 DEF StandsAt
  <2> QED BY <1>1, <2>2 DEF LoopIs
<1> QED BY <1>1 DEF Ordered

\* Later steps of other loops leave a loop where it stands.
LEMMA StandsStill ==
    ASSUME NEW def, StepsDiffer(def.steps), NEW l, LoopIs(def, l), NEW more, IsSequence(more.steps), NEW m \in Nat,
           Len(more.steps) = Len(def.steps) + m,
           \A i \in 1..Len(def.steps) : more.steps[i] = def.steps[i],
           \A j \in 1..m : more.steps[Len(def.steps) + j].loop # l.id
    PROVE  LoopIs(more, l)
<1>1. PICK k \in Nat : k = Len(def.steps)
  BY SequenceIs DEF StepsDiffer
<1>2. PICK lo \in Nat : StandsAt(def, l, lo)
  BY DEF LoopIs
<1>3. PICK n \in Nat : n = Len(l.steps)
  BY <1>2, SequenceIs DEF StandsAt
<1>4. lo + n <= k /\ lo + n <= k + m
  BY <1>1, <1>2, <1>3 DEF StandsAt
<1>5. \A j \in 1..n : l.steps[j] = more.steps[lo + j].id
  <2> SUFFICES ASSUME NEW j \in 1..n PROVE l.steps[j] = more.steps[lo + j].id
    OBVIOUS
  <2>1. lo + j \in 1..k
    BY <1>4
  <2>2. l.steps[j] = def.steps[lo + j].id
    BY <1>2, <1>3 DEF StandsAt
  <2>3. more.steps[lo + j] = def.steps[lo + j]
    BY <1>1, <2>1
  <2> QED BY <2>2, <2>3
<1>6. ASSUME NEW i \in 1..(k + m) PROVE more.steps[i].loop = l.id <=> lo < i /\ i <= lo + n
  <2>1. CASE i \in 1..k
    <3>1. more.steps[i] = def.steps[i]
      BY <1>1, <2>1
    <3>2. def.steps[i].loop = l.id <=> lo < i /\ i <= lo + n
      BY <1>1, <1>2, <1>3, <2>1 DEF StandsAt
    <3> QED BY <3>1, <3>2
  <2>2. CASE i \notin 1..k
    <3>1. PICK j \in 1..m : i = k + j
      <4>1. i - k \in 1..m /\ i = k + (i - k)
        BY <2>2
      <4> QED BY <4>1
    <3>2. more.steps[i].loop # l.id
      BY <1>1, <3>1
    <3>3. ~(i <= lo + n)
      BY <1>4, <2>2
    <3> QED BY <3>2, <3>3
  <2> QED BY <2>1, <2>2
<1>7. StandsAt(more, l, lo)
  BY <1>1, <1>2, <1>3, <1>4, <1>5, <1>6 DEF StandsAt
<1> QED BY <1>7 DEF LoopIs

\* A step outside of loops is read.
LEMMA AddStepKeeps ==
    ASSUME NEW def, Built(def), NEW e, Tree(e)
    PROVE  Built(AddStep(def, e, ""))
<1>1. PICK r : r = AddStep(def, e, "")
  OBVIOUS
<1>2. /\ Shape(r)
      /\ r.fits => /\ def.fits /\ r.loops = def.loops /\ Rest(r, def)
                   /\ \E s : /\ r.steps = Append(def.steps, s) /\ ExactStep(s)
                             /\ s.id = Attr(e, "id") /\ s.loop = ""
                             /\ NewTo(def.steps, s)
  <2>1. PICK none : none = ""
    OBVIOUS
  <2>2. Shape(def) /\ r = AddStep(def, e, none)
    BY <1>1, <2>1 DEF Built
  <2>3. /\ Shape(r)
        /\ r.fits => /\ def.fits /\ r.loops = def.loops /\ Rest(r, def)
                     /\ \E s : /\ r.steps = Append(def.steps, s) /\ ExactStep(s)
                               /\ s.id = Attr(e, "id") /\ s.loop = none
                               /\ NewTo(def.steps, s)
    BY <2>2, AddStepIs
  <2> QED BY <2>1, <2>3
<1>3. ASSUME r.fits PROVE HeadIs(r) /\ Ordered(r)
  <2>1. HeadIs(def) /\ Ordered(def)
    BY <1>2, <1>3 DEF Built
  <2>2. PICK s : /\ r.steps = Append(def.steps, s) /\ ExactStep(s) /\ s.loop = ""
                 /\ NewTo(def.steps, s)
    BY <1>2, <1>3
  <2>3. r.loops = def.loops /\ Rest(r, def)
    BY <1>2, <1>3
  <2>4. PICK k \in Nat : k = Len(def.steps)
    BY <2>1, SequenceIs DEF Ordered, StepsDiffer
  <2>5. StepsDiffer(r.steps)
    <3>1. PICK steps : steps = def.steps
      OBVIOUS
    <3>2. StepsDiffer(steps) /\ ExactStep(s) /\ NewTo(steps, s) /\ r.steps = Append(steps, s)
      BY <2>1, <2>2, <3>1 DEF Ordered
    <3> QED BY ONLY <3>2, OneMoreStep
  <2>6. /\ IsSequence(r.steps) /\ Len(r.steps) = k + 1 /\ r.steps[k + 1] = s
        /\ \A i \in 1..k : r.steps[i] = def.steps[i]
    <3>1. PICK steps : steps = def.steps
      OBVIOUS
    <3>2. IsSequence(steps) /\ r.steps = Append(steps, s) /\ k = Len(steps)
      BY <2>1, <2>2, <2>4, <3>1 DEF Ordered, StepsDiffer
    <3>3. /\ IsSequence(Append(steps, s)) /\ Len(Append(steps, s)) = Len(steps) + 1
          /\ \A i \in 1..Len(steps) : Append(steps, s)[i] = steps[i]
          /\ Append(steps, s)[Len(steps) + 1] = s
      BY <3>2, Appended
    <3> QED BY <3>1, <3>2, <3>3
  <2>7. r.steps[k + 1].loop = ""
    BY <2>2, <2>6
  <2>8. ASSUME NEW n \in 1..Len(def.loops) PROVE LoopIs(r, def.loops[n])
    <3>1. PICK l : l = def.loops[n]
      OBVIOUS
    <3>2. LoopIs(def, l)
      BY <2>1, <3>1 DEF Ordered
    <3>3. l.id # ""
      BY <3>2, NamesAssumption DEF LoopIs
    <3>4. \A j \in 1..1 : r.steps[k + j].loop # l.id
      <4>1. r.steps[k + 1].loop # l.id
        BY <2>7, <3>3
      <4>2. \A j \in 1..1 : j = 1
        OBVIOUS
      <4> QED BY <4>1, <4>2
    <3>6. StepsDiffer(def.steps) /\ Len(r.steps) = Len(def.steps) + 1
      BY <2>1, <2>4, <2>6 DEF Ordered
    <3>7. \A i \in 1..Len(def.steps) : r.steps[i] = def.steps[i]
      BY <2>4, <2>6
    <3>8. \A j \in 1..1 : r.steps[Len(def.steps) + j].loop # l.id
      BY <2>4, <3>4
    <3>5. LoopIs(r, l)
      BY ONLY <2>6, <3>2, <3>6, <3>7, <3>8, StandsStill, 1 \in Nat
    <3> QED BY <3>1, <3>5
  <2>9. ASSUME NEW i \in 1..(k + 1), r.steps[i].loop # ""
        PROVE  \E n \in 1..Len(def.loops) : def.loops[n].id = r.steps[i].loop
    <3>1. i \in 1..k
      <4>1. i # k + 1
        BY <2>7, <2>9
      <4> QED BY <4>1
    <3>2. r.steps[i] = def.steps[i]
      BY <2>6, <3>1
    <3> QED BY <2>1, <2>4, <2>9, <3>1, <3>2 DEF Ordered
  <2>10. ASSUME NEW a \in 1..Len(def.loops), NEW b \in 1..Len(def.loops), a < b,
                NEW i \in 1..(k + 1), NEW j \in 1..(k + 1),
                r.steps[i].loop = def.loops[a].id, r.steps[j].loop = def.loops[b].id
         PROVE  i < j
    <3>1. def.loops[a].id # "" /\ def.loops[b].id # "" /\ LoopsFollow(def.steps, def.loops)
      BY <2>1, NamesAssumption DEF Ordered, LoopIs
    <3>2. i # k + 1 /\ j # k + 1
      BY <2>7, <2>10, <3>1
    <3>3. i \in 1..k /\ j \in 1..k
      BY <3>2
    <3>4. r.steps[i] = def.steps[i] /\ r.steps[j] = def.steps[j]
      BY <2>6, <3>3
    <3>5. def.steps[i].loop = def.loops[a].id /\ def.steps[j].loop = def.loops[b].id
      BY <2>10, <3>4
    <3> QED BY ONLY <2>4, <2>10, <3>1, <3>3, <3>5 DEF LoopsFollow
  <2>11. HeadIs(r)
    BY <2>1, <2>3, SameHead
  <2>12. LoopsFollow(r.steps, r.loops)
    BY <2>3, <2>6, <2>10 DEF LoopsFollow
  <2>13. IsSequence(def.loops) /\ LoopsDiffer(def.loops)
    BY <2>1 DEF Ordered
  <2>14. Ordered(r)
    BY ONLY <2>3, <2>5, <2>6, <2>8, <2>9, <2>12, <2>13 DEF Ordered
  <2> QED BY <2>11, <2>14
<1> QED BY <1>1, <1>2, <1>3 DEF Built

\* One input more, with a name of its own.
LEMMA OneMoreInput ==
    ASSUME NEW inputs, InputsDiffer(inputs), NEW x, InputIs(x), \A i \in DOMAIN inputs : inputs[i].name # x.name
    PROVE  InputsDiffer(Append(inputs, x))
<1>1. PICK n \in Nat : n = Len(inputs) /\ DOMAIN inputs = 1..n
  BY SequenceIs DEF InputsDiffer
<1>2. PICK more : more = Append(inputs, x)
  OBVIOUS
<1>3. IsSequence(more) /\ Len(more) = n + 1 /\ more[n + 1] = x /\ \A i \in 1..n : more[i] = inputs[i]
  BY <1>1, <1>2, Appended DEF InputsDiffer
<1>4. \A i \in 1..(n + 1) : i = n + 1 \/ i \in 1..n
  OBVIOUS
<1>5. \A i \in 1..(n + 1) : InputIs(more[i])
  BY <1>1, <1>3, <1>4 DEF InputsDiffer
<1>6. \A i, j \in 1..(n + 1) : more[i].name = more[j].name => i = j
  BY <1>1, <1>3, <1>4 DEF InputsDiffer
<1> QED BY <1>2, <1>3, <1>5, <1>6 DEF InputsDiffer

\* An input is read.
LEMMA AddInputKeeps ==
    ASSUME NEW def, Built(def), NEW e
    PROVE  Built(AddInput(def, e))
<1>1. PICK r, name : r = AddInput(def, e) /\ name = Attr(e, "name")
  OBVIOUS
<1>2. PICK optional \in BOOLEAN : optional = (Attr(e, "optional") = "true")
  BY Zenon
<1>3. PICK input : input = [name |-> name, optional |-> optional]
  OBVIOUS
<1>4. PICK fits \in BOOLEAN : fits = (def.fits /\ name \in Names
                           /\ \A i \in DOMAIN def.inputs : def.inputs[i].name # name)
  BY Zenon
<1>5. r = [def EXCEPT !.fits = fits, !.inputs = Append(@, input)]
  BY <1>1, <1>2, <1>3, <1>4, Zenon DEF AddInput
<1>6. fits => def.fits /\ name \in Names /\ \A i \in DOMAIN def.inputs : def.inputs[i].name # name
  BY <1>4, Zenon
<1>7. /\ Shape(r) /\ r.loops = def.loops /\ r.steps = def.steps /\ r.inputs = Append(def.inputs, input)
      /\ r.id = def.id /\ r.described = def.described /\ r.description = def.description
      /\ r.fits = fits
  BY <1>5 DEF Built, Shape
<1>8. ASSUME r.fits PROVE HeadIs(r) /\ Ordered(r)
  <2>1. HeadIs(def) /\ Ordered(def) /\ name \in Names /\ \A i \in DOMAIN def.inputs : def.inputs[i].name # name
    BY <1>6, <1>7, <1>8 DEF Built
  <2>2. input.name = name /\ InputIs(input)
    BY <1>3, <2>1 DEF InputIs
  <2>3. InputsDiffer(r.inputs)
    BY <1>7, <2>1, <2>2, OneMoreInput DEF HeadIs
  <2>4. HeadIs(r)
    BY <1>7, <2>1, <2>3 DEF HeadIs
  <2>5. Ordered(r)
    BY <1>7, <2>1, SameOrder
  <2> QED BY <2>4, <2>5
<1> QED BY <1>1, <1>7, <1>8 DEF Built

\* A loop is read: its steps come last, so it stands together, and loops before it stay.
LEMMA AddLoopKeeps ==
    ASSUME NEW def, Built(def), NEW e, Tree(e)
    PROVE  Built(AddLoop(def, e))
<1>1. PICK r, id, kids, inner : /\ r = AddLoop(def, e) /\ id = Attr(e, "id") /\ kids = Children(e)
                                /\ inner = AddSteps(def, kids, id)
  OBVIOUS
<1>2. IsSequence(kids) /\ \A i \in 1..Len(kids) : Tree(kids[i])
  BY <1>1, KidsAreTrees
<1>3. Shape(inner) /\ (inner.fits => Extended(inner, def, kids, Len(kids), id))
  BY <1>1, <1>2, InnerPass DEF Built
<1>4. PICK ids : ids = [i \in DOMAIN kids |-> Attr(kids[i], "id")]
  OBVIOUS
<1>5. PICK l : l = [id |-> id, steps |-> ids, bounds |-> [b \in Bounds |-> AttrOr(e, b, 0)]]
  OBVIOUS
<1>6. CASE ~(id \in Names \ LoopIds(def) /\ BoundsFit(e) /\ ids # <<>>)
  <2>1. r = [def EXCEPT !.fits = FALSE]
    BY <1>1, <1>4, <1>6 DEF AddLoop
  <2>2. Shape(r) /\ r.fits = FALSE
    BY <2>1 DEF Built, Shape
  <2> QED BY <1>1, <2>2 DEF Built
<1>7. CASE id \in Names \ LoopIds(def) /\ BoundsFit(e) /\ ids # <<>>
  <2>1. r = [inner EXCEPT !.loops = Append(@, l)]
    BY <1>1, <1>4, <1>5, <1>7 DEF AddLoop
  <2>2. /\ Shape(r) /\ r.fits = inner.fits /\ r.steps = inner.steps /\ Rest(r, inner)
        /\ r.loops = Append(inner.loops, l)
    BY <1>3, <2>1 DEF Shape, Rest
  <2>3. ASSUME r.fits PROVE HeadIs(r) /\ Ordered(r)
    <3>1. Extended(r, def, kids, Len(kids), id) \/ inner.fits
      BY <2>2, <2>3
    <3>2. PICK k, n : k = Len(def.steps) /\ n = Len(kids)
      OBVIOUS
    <3>3. /\ def.fits /\ inner.loops = def.loops /\ Rest(inner, def)
          /\ StepsDiffer(def.steps) =>
               /\ StepsDiffer(inner.steps) /\ Len(inner.steps) = k + n
               /\ \A i \in 1..k : inner.steps[i] = def.steps[i]
               /\ \A j \in 1..n : inner.steps[k + j].id = Attr(kids[j], "id") /\ inner.steps[k + j].loop = id
      BY <1>3, <2>2, <2>3, <3>2 DEF Extended
    <3>4. HeadIs(def) /\ Ordered(def)
      BY <3>3 DEF Built
    <3>5. StepsDiffer(def.steps) /\ IsSequence(def.steps) /\ IsSequence(def.loops)
      BY <3>4 DEF Ordered, StepsDiffer
    <3>6. /\ StepsDiffer(r.steps) /\ Len(r.steps) = k + n
          /\ \A i \in 1..k : r.steps[i] = def.steps[i]
          /\ \A j \in 1..n : r.steps[k + j].id = Attr(kids[j], "id") /\ r.steps[k + j].loop = id
      BY <2>2, <3>3, <3>5
    <3>7. k \in Nat /\ n \in Nat /\ DOMAIN kids = 1..n
      BY <1>2, <3>2, <3>5, SequenceIs
    <3>8. IsSequence(ids) /\ Len(ids) = n /\ \A j \in 1..n : ids[j] = Attr(kids[j], "id")
      BY <1>2, <1>4, <3>2, <3>7, MappedOver
    <3>9. n >= 1
      BY <1>7, <3>7, <3>8, SequenceIs
    <3>10. PICK m \in Nat : m = Len(def.loops) /\ DOMAIN def.loops = 1..m
      BY <3>5, SequenceIs
    <3>11. /\ IsSequence(r.loops) /\ Len(r.loops) = m + 1 /\ r.loops[m + 1] = l
           /\ \A i \in 1..m : r.loops[i] = def.loops[i]
      <4>1. PICK loops : loops = def.loops
        OBVIOUS
      <4>2. IsSequence(loops) /\ r.loops = Append(loops, l) /\ m = Len(loops)
        BY <2>2, <3>3, <3>5, <3>10, <4>1
      <4>3. /\ IsSequence(Append(loops, l)) /\ Len(Append(loops, l)) = Len(loops) + 1
            /\ \A i \in 1..Len(loops) : Append(loops, l)[i] = loops[i]
            /\ Append(loops, l)[Len(loops) + 1] = l
        BY <4>2, Appended
      <4> QED BY <4>1, <4>2, <4>3
    <3>12. \A i \in 1..m : def.loops[i].id # id
      BY <1>7, <3>10 DEF LoopIds
    <3>13. \A i \in 1..k : def.steps[i].loop # id
      <4>1. id # ""
        BY <1>7, NamesAssumption
      <4> QED BY <3>2, <3>4, <3>10, <3>12, <4>1 DEF Ordered
    <3>14. LoopIs(r, l)
      <4>1. /\ l.id = id /\ l.steps = ids /\ l.bounds = [b \in Bounds |-> AttrOr(e, b, 0)]
            /\ l = [id |-> l.id, steps |-> l.steps, bounds |-> l.bounds]
        BY <1>5
      <4>2. BoundsAre(l.bounds)
        <5>1. PICK b : b \in DOMAIN e.attrs /\ b \in Bounds
          BY <1>7 DEF BoundsFit
        <5>2. \A c \in Bounds : c \in DOMAIN e.attrs => e.attrs[c] > 0
          BY <1>7 DEF BoundsFit
        <5>3. PICK bounds : bounds = l.bounds
          OBVIOUS
        <5>4. \A c \in Bounds : bounds[c] = IF c \in DOMAIN e.attrs THEN e.attrs[c] ELSE 0
          BY <4>1, <5>3 DEF AttrOr
        <5>5. bounds = [c \in Bounds |-> bounds[c]]
          BY <4>1, <5>3
        <5>6. \A c \in Bounds : bounds[c] = 0 \/ bounds[c] > 0
          BY <5>2, <5>4
        <5>7. bounds[b] > 0
          BY <5>1, <5>2, <5>4
        <5> QED BY <5>1, <5>3, <5>5, <5>6, <5>7 DEF BoundsAre
      <4>3. \A j \in 1..n : ids[j] = r.steps[k + j].id
        BY <3>6, <3>8
      <4>4. ASSUME NEW i \in 1..(k + n) PROVE r.steps[i].loop = id <=> k < i /\ i <= k + n
        <5>1. CASE i \in 1..k
          <6>1. r.steps[i] = def.steps[i] /\ ~(k < i)
            <7>1. ~(k < i)
              BY <3>7, <5>1
            <7> QED BY <3>6, <5>1, <7>1, Zenon
          <6> QED BY <3>13, <5>1, <6>1
        <5>2. CASE i \notin 1..k
          <6>1. i - k \in 1..n /\ k + (i - k) = i /\ k < i /\ i <= k + n
            BY <3>7, <5>2
          <6> QED BY <3>6, <6>1
        <5> QED BY <5>1, <5>2
      <4>5. StandsAt(r, l, k)
        <5>1. /\ IsSequence(l.steps) /\ Len(l.steps) = n /\ Len(r.steps) = k + n /\ l.id = id
              /\ \A j \in 1..n : l.steps[j] = r.steps[k + j].id
          BY <3>6, <3>8, <4>1, <4>3
        <5> QED BY <3>7, <3>9, <4>4, <5>1 DEF StandsAt
      <4> QED BY <1>7, <3>7, <4>1, <4>2, <4>5 DEF LoopIs
    <3>15. ASSUME NEW i \in 1..m PROVE LoopIs(r, def.loops[i])
      <4>1. PICK o : o = def.loops[i]
        OBVIOUS
      <4>2. LoopIs(def, o) /\ o.id # id
        BY <3>4, <3>10, <3>12, <4>1 DEF Ordered
      <4>3. IsSequence(r.steps) /\ Len(r.steps) = Len(def.steps) + n
        BY <3>2, <3>6 DEF StepsDiffer
      <4>4. \A j \in 1..Len(def.steps) : r.steps[j] = def.steps[j]
        BY <3>2, <3>6
      <4>5. \A j \in 1..n : r.steps[Len(def.steps) + j].loop # o.id
        BY <3>2, <3>6, <4>2
      <4>6. LoopIs(r, o)
        BY ONLY <3>5, <3>7, <4>2, <4>3, <4>4, <4>5, StandsStill
      <4> QED BY <4>1, <4>6
    <3>16. \A i \in 1..(m + 1) : LoopIs(r, r.loops[i])
      <4>1. \A i \in 1..(m + 1) : i = m + 1 \/ i \in 1..m
        OBVIOUS
      <4> QED BY <3>11, <3>14, <3>15, <4>1
    <3>17. ASSUME NEW i \in 1..(k + n), r.steps[i].loop # ""
           PROVE  \E j \in 1..(m + 1) : r.loops[j].id = r.steps[i].loop
      <4>1. CASE i \in 1..k
        <5>1. r.steps[i] = def.steps[i]
          BY <3>6, <4>1
        <5>2. PICK j \in 1..m : def.loops[j].id = def.steps[i].loop
          BY <3>2, <3>4, <3>10, <3>17, <4>1, <5>1 DEF Ordered
        <5>3. j \in 1..(m + 1) /\ r.loops[j] = def.loops[j]
          BY <3>11
        <5> QED BY <5>1, <5>2, <5>3
      <4>2. CASE i \notin 1..k
        <5>1. i - k \in 1..n /\ k + (i - k) = i
          BY <3>7, <4>2
        <5>2. r.steps[i].loop = id /\ l.id = id
          BY <1>5, <3>6, <5>1
        <5>3. m + 1 \in 1..(m + 1)
          OBVIOUS
        <5> QED BY <3>11, <5>2, <5>3
      <4> QED BY <4>1, <4>2
    <3>18. l.id = id
      BY <1>5
    <3>19. \A a, b \in 1..(m + 1) : r.loops[a].id = r.loops[b].id => a = b
      <4>1. \A i \in 1..(m + 1) : i = m + 1 \/ i \in 1..m
        OBVIOUS
      <4>2. \A a, b \in 1..m : def.loops[a].id = def.loops[b].id => a = b
        BY <3>4, <3>10 DEF Ordered, LoopsDiffer
      <4> QED BY <3>11, <3>12, <3>18, <4>1, <4>2
    <3>20. ASSUME NEW a \in 1..(m + 1), NEW b \in 1..(m + 1), a < b,
                  NEW i \in 1..(k + n), NEW j \in 1..(k + n),
                  r.steps[i].loop = r.loops[a].id, r.steps[j].loop = r.loops[b].id
           PROVE  i < j
      <4>1. a \in 1..m /\ r.loops[a] = def.loops[a] /\ r.loops[a].id # id
        BY <3>11, <3>12, <3>20
      <4>2. i \in 1..k
        <5>1. CASE i \notin 1..k
          <6>1. i - k \in 1..n /\ k + (i - k) = i
            BY <3>7, <5>1
          <6>2. r.steps[i].loop = id
            BY <3>6, <6>1
          <6> QED BY <3>20, <4>1, <6>2
        <5> QED BY <5>1
      <4>3. CASE j \in 1..k
        <5>1. r.steps[i] = def.steps[i] /\ r.steps[j] = def.steps[j]
          BY <3>6, <4>2, <4>3
        <5>2. b # m + 1
          <6>1. r.steps[j].loop # id
            BY <3>13, <4>3, <5>1
          <6> QED BY <3>11, <3>18, <3>20, <6>1
        <5>3. b \in 1..m /\ r.loops[b] = def.loops[b]
          BY <3>11, <5>2
        <5>4. LoopsFollow(def.steps, def.loops)
          BY <3>4 DEF Ordered
        <5>5. def.steps[i].loop = def.loops[a].id /\ def.steps[j].loop = def.loops[b].id
          BY <3>20, <4>1, <5>1, <5>3
        <5> QED BY ONLY <3>2, <3>10, <3>20, <4>1, <4>2, <4>3, <5>3, <5>4, <5>5 DEF LoopsFollow
      <4>4. CASE j \notin 1..k
        BY <3>7, <4>2, <4>4
      <4> QED BY <4>3, <4>4
    <3>21. Ordered(r)
      <4>1. LoopsDiffer(r.loops) /\ LoopsFollow(r.steps, r.loops)
        BY <3>6, <3>11, <3>19, <3>20 DEF LoopsDiffer, LoopsFollow
      <4> QED BY ONLY <3>6, <3>11, <3>16, <3>17, <4>1 DEF Ordered
    <3>22. Rest(r, def)
      BY <2>2, <3>3 DEF Rest
    <3> QED BY <3>4, <3>21, <3>22, SameHead
  <2> QED BY <1>1, <2>2, <2>3 DEF Built
<1> QED BY <1>6, <1>7

\* Any child of the root is read.
LEMMA AddChildKeeps ==
    ASSUME NEW def, Built(def), NEW e, Tree(e)
    PROVE  Built(AddChild(def, e))
<1>1. PICK r : r = AddChild(def, e)
  OBVIOUS
<1>2. CASE e.tag = "description"
  <2>1. CASE def.described
    <3>1. r = def
      BY <1>1, <1>2, <2>1 DEF AddChild
    <3> QED BY <1>1, <3>1
  <2>2. CASE ~def.described
    <3>1. PICK text : text = TextOf(e)
      OBVIOUS
    <3>2. PICK fits \in BOOLEAN : fits = (def.fits /\ HasTextOnly(e))
      BY Zenon
    <3>3. r = [def EXCEPT !.described = TRUE, !.description = TextOf(e), !.fits = def.fits /\ HasTextOnly(e)]
      BY <1>1, <1>2, <2>2 DEF AddChild
    <3>4. r = [def EXCEPT !.described = TRUE, !.description = text, !.fits = fits]
      BY <3>1, <3>2, <3>3, Zenon
    <3>5. /\ Shape(r) /\ r.fits = fits /\ r.described = TRUE /\ r.description = text /\ r.id = def.id
          /\ r.inputs = def.inputs /\ r.steps = def.steps /\ r.loops = def.loops
      BY <3>4 DEF Built, Shape
    <3>6. fits => def.fits /\ HasTextOnly(e)
      BY <3>2, Zenon
    <3>7. ASSUME r.fits PROVE HeadIs(r) /\ Ordered(r)
      <4>1. HeadIs(def) /\ Ordered(def) /\ HasTextOnly(e)
        BY <3>5, <3>6, <3>7 DEF Built
      <4>2. Plain(text)
        BY <3>1, <4>1, TextOfIs
      <4>3. HeadIs(r)
        BY <3>5, <4>1, <4>2 DEF HeadIs
      <4> QED BY <3>5, <4>1, <4>3, SameOrder
    <3> QED BY <1>1, <3>5, <3>7 DEF Built
  <2> QED BY <2>1, <2>2
<1>3. CASE e.tag = "input"
  <2>1. r = AddInput(def, e)
    BY <1>1, <1>3 DEF AddChild
  <2> QED BY <1>1, <2>1, AddInputKeeps
<1>4. CASE e.tag = "step"
  <2>1. r = AddStep(def, e, "")
    BY <1>1, <1>4 DEF AddChild
  <2> QED BY <1>1, <2>1, AddStepKeeps
<1>5. CASE e.tag = "loop"
  <2>1. r = AddLoop(def, e)
    BY <1>1, <1>5 DEF AddChild
  <2> QED BY <1>1, <2>1, AddLoopKeeps
<1>6. CASE e.tag \notin {"description", "input", "step", "loop"}
  <2>1. r = [def EXCEPT !.fits = FALSE]
    BY <1>1, <1>6 DEF AddChild
  <2>2. Shape(r) /\ r.fits = FALSE
    BY <2>1 DEF Built, Shape
  <2> QED BY <1>1, <2>2 DEF Built
<1> QED BY <1>2, <1>3, <1>4, <1>5, <1>6

\* All children of the root are read.
LEMMA AddChildrenKeeps ==
    ASSUME NEW def, Built(def), NEW kids, IsSequence(kids), \A i \in 1..Len(kids) : Tree(kids[i])
    PROVE  Built(AddChildren(def, kids))
<1>1. PICK n \in Nat : n = Len(kids)
  BY SequenceIs
<1>2. PICK f : /\ f[0] = def /\ AddChildren(def, kids) = f[n]
               /\ \A i \in 1..n : f[i] = AddChild(f[i - 1], kids[i])
  BY <1>1, ChildrenPass
<1>3. ASSUME NEW i \in 1..n, Built(f[i - 1]) PROVE Built(f[i])
  <2>1. f[i] = AddChild(f[i - 1], kids[i]) /\ Tree(kids[i])
    BY <1>1, <1>2
  <2> QED BY <1>3, <2>1, AddChildKeeps
<1>4. PICK S : S = {i \in 0..n : Built(f[i])}
  OBVIOUS
<1>5. n \in S
  <2>1. 0 \in S /\ \A i \in 1..n : i - 1 \in S => i \in S
    BY <1>2, <1>3, <1>4
  <2> QED BY ONLY <2>1, Onward, n \in Nat
<1> QED BY <1>2, <1>4, <1>5

\* What the parser guarantees of a definition it accepts.
Accepted(def) ==
    /\ Shape(def) /\ def.fits /\ HeadIs(def) /\ def.described = (def.description # <<>>)
    /\ Ordered(def) /\ def.steps # <<>> /\ TargetsKnown(def)

\* parseAndValidateWorkflow accepts nothing else, whatever the file.
LEMMA ParseIs ==
    ASSUME NEW xml, IsDocument(xml), Parse(xml).fits
    PROVE  Accepted(Parse(xml))
<1>1. PICK r : r = Parse(xml)
  OBVIOUS
<1>2. PICK root : root = Root(xml)
  OBVIOUS
<1>3. PICK blank : blank = [fits |-> TRUE, id |-> Attr(root, "id"),
                            version |-> AttrOr(root, "version", "1"),
                            described |-> FALSE, description |-> <<>>,
                            inputs |-> <<>>, steps |-> <<>>, loops |-> <<>>]
  OBVIOUS
<1>4. PICK d : d = AddChildren(blank, Children(root))
  OBVIOUS
<1>5. CASE ~WellFormed(xml) \/ root.tag # "workflow" \/ Attr(root, "id") \notin Names
  <2>1. r = [fits |-> FALSE]
    BY <1>1, <1>2, <1>5 DEF Parse, NoDefinition
  <2> QED BY <1>1, <2>1
<1>6. CASE ~(~WellFormed(xml) \/ root.tag # "workflow" \/ Attr(root, "id") \notin Names)
  <2>1. r = IF d.fits /\ d.steps # <<>> /\ TargetsKnown(d)
            THEN [d EXCEPT !.described = d.description # <<>>] ELSE NoDefinition
    BY <1>1, <1>2, <1>3, <1>4, <1>6 DEF Parse
  <2>2. d.fits /\ d.steps # <<>> /\ TargetsKnown(d)
    BY <1>1, <2>1 DEF NoDefinition
  <2>3. Built(blank)
    <3>1. /\ Shape(blank) /\ blank.inputs = <<>> /\ blank.steps = <<>> /\ blank.loops = <<>>
          /\ blank.id = Attr(root, "id") /\ blank.described = FALSE /\ blank.description = <<>>
      BY <1>3 DEF Shape
    <3>2. StepsDiffer(<<>>) /\ InputsDiffer(<<>>) /\ Plain(<<>>)
      BY NoSequence DEF StepsDiffer, InputsDiffer, Plain
    <3>3. HeadIs(blank)
      BY <1>6, <3>1, <3>2 DEF HeadIs
    <3>4. Ordered(blank)
      BY <3>1, <3>2, NoSequence DEF Ordered, LoopsDiffer, LoopsFollow
    <3> QED BY <3>1, <3>3, <3>4 DEF Built
  <2>4. Built(d)
    <3>1. Tree(root)
      BY <1>2, <1>6, RootIsTree
    <3> QED BY <1>4, <2>3, <3>1, KidsAreTrees, AddChildrenKeeps
  <2>5. PICK described \in BOOLEAN : described = (d.description # <<>>)
    BY Zenon
  <2>6. r = [d EXCEPT !.described = described]
    BY <2>1, <2>2, <2>5
  <2>7. /\ Shape(r) /\ r.fits = d.fits /\ r.id = d.id /\ r.described = described /\ r.description = d.description
        /\ r.inputs = d.inputs /\ r.steps = d.steps /\ r.loops = d.loops
    BY <2>4, <2>6 DEF Built, Shape
  <2>8. Ordered(r) /\ HeadIs(d)
    BY <2>2, <2>4, <2>7, SameOrder DEF Built
  <2>9. HeadIs(r)
    BY <2>5, <2>7, <2>8 DEF HeadIs
  <2>10. r.described = (r.description # <<>>)
    BY <2>5, <2>7, Zenon
  <2>11. TargetsKnown(r)
    BY <2>2, <2>7 DEF TargetsKnown, Ids
  <2> QED BY <1>1, <2>2, <2>7, <2>8, <2>9, <2>10, <2>11 DEF Accepted
<1> QED BY <1>5, <1>6

-----------------------------------------------------------------------------
(***************************************************************************)
(* What the runner takes for granted (runner.ts, as WorkflowDefinition     *)
(* has it).                                                                *)
(***************************************************************************)

\* A step is found by its id.
LEMMA NamedIs ==
    ASSUME NEW def, StepsDiffer(def.steps), NEW i \in 1..Len(def.steps)
    PROVE  /\ StepNamed(def, def.steps[i].id) = def.steps[i]
           /\ IndexIn(def, def.steps[i].id) = i
           /\ Model(def)!IndexOf(def.steps[i].id) = i
<1>1. PICK n \in Nat : n = Len(def.steps) /\ DOMAIN def.steps = 1..n
  BY SequenceIs DEF StepsDiffer
<1>2. PICK steps : steps = def.steps
  OBVIOUS
<1>3. \A j \in 1..n : steps[j].id = steps[i].id => j = i
  BY <1>1, <1>2 DEF StepsDiffer
<1>4. ToSet(steps) = {steps[j] : j \in 1..n}
  BY <1>1, <1>2 DEF ToSet
<1>5. steps[i] \in ToSet(steps) /\ \A s \in ToSet(steps) : s.id = steps[i].id => s = steps[i]
  BY <1>1, <1>2, <1>3, <1>4
<1>6. StepNamed(def, steps[i].id) = steps[i]
  BY <1>2, <1>5 DEF StepNamed
<1>7. IndexIn(def, steps[i].id) = i
  BY <1>1, <1>2, <1>3 DEF IndexIn
<1>8. Model(def)!IndexOf(steps[i].id) = i
  <2>1. PICK order : order = [j \in DOMAIN def.steps |-> def.steps[j].id]
    OBVIOUS
  <2>2. Len(order) = n /\ \A j \in 1..n : order[j] = steps[j].id
    <3>1. order = [j \in 1..n |-> order[j]]
      BY <1>1, <2>1
    <3>2. Len(order) = n
      BY <3>1, Mapped
    <3> QED BY <1>1, <1>2, <2>1, <3>2
  <2>3. Model(def)!IndexOf(steps[i].id) = CHOOSE j \in 1..Len(order) : order[j] = steps[i].id
    BY <2>1 DEF Model!IndexOf
  <2> QED BY <1>1, <1>2, <1>3, <2>2, <2>3
<1> QED BY <1>2, <1>6, <1>7, <1>8

\* The steps of a loop, as the runner finds them.
LEMMA ChildrenIs ==
    ASSUME NEW def, StepsDiffer(def.steps), NEW l
    PROVE  /\ Model(def)!Steps = Ids(def)
           /\ Model(def)!Children(l) = {def.steps[i].id : i \in {j \in 1..Len(def.steps) : def.steps[j].loop = l}}
<1>1. PICK n \in Nat : n = Len(def.steps) /\ DOMAIN def.steps = 1..n
  BY SequenceIs DEF StepsDiffer
<1>2. Model(def)!Steps = Ids(def)
  <2>1. PICK order : order = [j \in DOMAIN def.steps |-> def.steps[j].id]
    OBVIOUS
  <2>2. order = [j \in 1..n |-> order[j]] /\ \A j \in 1..n : order[j] = def.steps[j].id
    BY <1>1, <2>1
  <2>3. Len(order) = n
    BY <2>2, Mapped
  <2>4. Model(def)!Steps = {order[j] : j \in 1..Len(order)}
    BY <2>1 DEF Model!Steps
  <2> QED BY <1>1, <2>2, <2>3, <2>4 DEF Ids
<1>3. Model(def)!Children(l) = {s \in Ids(def) : StepNamed(def, s).loop = l}
  BY <1>2 DEF Model!Children
<1>4. \A i \in 1..n : StepNamed(def, def.steps[i].id) = def.steps[i]
  BY <1>1, NamedIs
<1>5. Ids(def) = {def.steps[i].id : i \in 1..n}
  BY <1>1 DEF Ids
<1>6. {s \in Ids(def) : StepNamed(def, s).loop = l}
        = {def.steps[i].id : i \in {j \in 1..n : def.steps[j].loop = l}}
  BY <1>4, <1>5
<1> QED BY <1>1, <1>2, <1>3, <1>6

\* The runner goes through a loop from its first step to its last, as the file has them.
LEMMA LoopRuns ==
    ASSUME NEW def, StepsDiffer(def.steps), NEW l, LoopIs(def, l)
    PROVE  /\ l.steps[1] = Model(def)!LoopStart(l.id) /\ Last(l.steps) = Model(def)!LoopEnd(l.id)
           /\ ToSet(l.steps) = Model(def)!Children(l.id)
           /\ l.steps # <<>>
<1>1. PICK n \in Nat : n = Len(def.steps) /\ DOMAIN def.steps = 1..n
  BY SequenceIs DEF StepsDiffer
<1>2. PICK lo \in Nat : StandsAt(def, l, lo)
  BY DEF LoopIs
<1>3. PICK m \in Nat : m = Len(l.steps) /\ DOMAIN l.steps = 1..m /\ ToSet(l.steps) = {l.steps[j] : j \in 1..m}
  BY <1>2, SequenceIs DEF StandsAt
<1>4. PICK id, children : id = l.id /\ children = Model(def)!Children(l.id)
  OBVIOUS
<1>5. m >= 1 /\ lo + m <= n /\ \A j \in 1..m : l.steps[j] = def.steps[lo + j].id
  BY <1>1, <1>2, <1>3 DEF StandsAt
<1>6. \A i \in 1..n : def.steps[i].loop = id <=> lo < i /\ i <= lo + m
  BY <1>1, <1>2, <1>3, <1>4 DEF StandsAt
<1>7. children = {def.steps[i].id : i \in {j \in 1..n : def.steps[j].loop = id}}
  BY <1>1, <1>4, ChildrenIs
<1>8. ToSet(l.steps) = children
  <2>1. ASSUME NEW x \in children PROVE x \in ToSet(l.steps)
    <3>1. PICK i \in 1..n : def.steps[i].loop = id /\ x = def.steps[i].id
      BY <1>7, <2>1
    <3>2. i - lo \in 1..m /\ lo + (i - lo) = i
      BY <1>6, <3>1
    <3> QED BY <1>3, <1>5, <3>1, <3>2
  <2>2. ASSUME NEW j \in 1..m PROVE l.steps[j] \in children
    <3>1. lo + j \in 1..n /\ lo < lo + j /\ lo + j <= lo + m
      BY <1>5
    <3> QED BY <1>5, <1>6, <1>7, <3>1
  <2> QED BY <1>3, <2>1, <2>2
<1>9. \A i \in 1..n : Model(def)!IndexOf(def.steps[i].id) = i
  BY <1>1, NamedIs
<1>10. PICK at : at = [s \in Ids(def) |-> Model(def)!IndexOf(s)]
  OBVIOUS
<1>11. children \subseteq Ids(def) /\ \A i \in 1..n : at[def.steps[i].id] = i
  <2>1. Ids(def) = {def.steps[i].id : i \in 1..n}
    BY <1>1 DEF Ids
  <2> QED BY <1>7, <1>9, <1>10, <2>1
<1>12. \A s \in children : Model(def)!IndexOf(s) = at[s]
  BY <1>10, <1>11
<1>13. \A s \in children : at[s] \in 1..n /\ s = def.steps[at[s]].id /\ lo + 1 <= at[s] /\ at[s] <= lo + m
  <2> SUFFICES ASSUME NEW s \in children
               PROVE  at[s] \in 1..n /\ s = def.steps[at[s]].id /\ lo + 1 <= at[s] /\ at[s] <= lo + m
    OBVIOUS
  <2>1. PICK i \in 1..n : def.steps[i].loop = id /\ s = def.steps[i].id
    BY <1>7
  <2>2. at[s] = i /\ lo < i /\ i <= lo + m
    BY <1>6, <1>11, <2>1
  <2> QED BY <2>1, <2>2
<1>14. PICK first, last : first = def.steps[lo + 1].id /\ last = def.steps[lo + m].id
  OBVIOUS
<1>15. first = l.steps[1] /\ last = l.steps[m] /\ first \in children /\ last \in children
       /\ at[first] = lo + 1 /\ at[last] = lo + m
  <2>1. 1 \in 1..m /\ m \in 1..m /\ lo + 1 \in 1..n /\ lo + m \in 1..n
    BY <1>5
  <2> QED BY <1>3, <1>5, <1>8, <1>11, <1>14, <2>1
<1>16. first = CHOOSE s \in children : \A t \in children : at[s] <= at[t]
  <2>1. \A t \in children : at[first] <= at[t]
    BY <1>13, <1>15
  <2>2. ASSUME NEW s \in children, \A t \in children : at[s] <= at[t] PROVE s = first
    <3>1. at[s] <= at[first]
      BY <1>15, <2>2
    <3>2. at[s] = at[first]
      BY <1>13, <1>15, <3>1
    <3> QED BY <1>13, <1>15, <3>2
  <2> QED BY <1>15, <2>1, <2>2
<1>17. last = CHOOSE s \in children : \A t \in children : at[s] >= at[t]
  <2>1. \A t \in children : at[last] >= at[t]
    BY <1>13, <1>15
  <2>2. ASSUME NEW s \in children, \A t \in children : at[s] >= at[t] PROVE s = last
    <3>1. at[s] >= at[last]
      BY <1>15, <2>2
    <3>2. at[s] = at[last]
      BY <1>13, <1>15, <3>1
    <3> QED BY <1>13, <1>15, <3>2
  <2> QED BY <1>15, <2>1, <2>2
<1>18. Model(def)!LoopStart(l.id) = CHOOSE s \in children : \A t \in children : at[s] <= at[t]
  <2>1. Model(def)!LoopStart(l.id) = CHOOSE s \in children : \A t \in children :
                                       Model(def)!IndexOf(s) <= Model(def)!IndexOf(t)
    BY <1>4 DEF Model!LoopStart
  <2> QED BY <1>12, <2>1
<1>19. Model(def)!LoopEnd(l.id) = CHOOSE s \in children : \A t \in children : at[s] >= at[t]
  <2>1. Model(def)!LoopEnd(l.id) = CHOOSE s \in children : \A t \in children :
                                     Model(def)!IndexOf(s) >= Model(def)!IndexOf(t)
    BY <1>4 DEF Model!LoopEnd
  <2> QED BY <1>12, <2>1
<1>20. Last(l.steps) = l.steps[m]
  BY <1>3 DEF Last
<1>21. l.steps # <<>>
  BY <1>2, <1>3, <1>5, SequenceIs DEF StandsAt
<1> QED BY <1>4, <1>8, <1>15, <1>16, <1>17, <1>18, <1>19, <1>20, <1>21

\* What the parser accepts can be run.
LEMMA AcceptedIsSound ==
    ASSUME NEW def, Accepted(def)
    PROVE  Sound(def)
<1>1. StepsDiffer(def.steps) /\ IsSequence(def.loops) /\ def.steps # <<>> /\ TargetsKnown(def)
  BY DEF Accepted, Ordered
<1>2. PICK n \in Nat : n = Len(def.steps) /\ DOMAIN def.steps = 1..n
  BY <1>1, SequenceIs DEF StepsDiffer
<1>3. PICK k \in Nat : /\ k = Len(def.loops) /\ DOMAIN def.loops = 1..k
                       /\ ToSet(def.loops) = {def.loops[i] : i \in 1..k}
  BY <1>1, SequenceIs
<1>4. \A i, j \in 1..n : def.steps[i].id = def.steps[j].id => i = j
  BY <1>1, <1>2 DEF StepsDiffer
<1>5. Distinct(def.steps, LAMBDA s : s.id)
  <2>1. \A i \in DOMAIN def.steps, j \in DOMAIN def.steps : def.steps[i].id = def.steps[j].id => i = j
    BY <1>2, <1>4, Zenon
  <2> QED BY <2>1, Zenon DEF Distinct
<1>6. \A s \in ToSet(def.steps) : s.loop # "" => s.loop \in LoopIds(def)
  <2>1. ToSet(def.steps) = {def.steps[i] : i \in 1..n}
    BY <1>1, <1>2, SequenceIs DEF StepsDiffer
  <2>2. \A i \in 1..n : def.steps[i].loop # "" => \E j \in 1..k : def.loops[j].id = def.steps[i].loop
    BY <1>2, <1>3 DEF Accepted, Ordered
  <2>3. LoopIds(def) = {def.loops[i].id : i \in 1..k}
    BY <1>3 DEF LoopIds
  <2> QED BY <2>1, <2>2, <2>3
<1>7. ASSUME NEW l \in ToSet(def.loops)
      PROVE  /\ \E b \in Bounds : l.bounds[b] > 0
             /\ l.steps[1] = Model(def)!LoopStart(l.id) /\ Last(l.steps) = Model(def)!LoopEnd(l.id)
             /\ ToSet(l.steps) = Model(def)!Children(l.id)
  <2>1. LoopIs(def, l)
    BY <1>3 DEF Accepted, Ordered
  <2>2. \E b \in Bounds : l.bounds[b] > 0
    BY <2>1 DEF LoopIs, BoundsAre
  <2>3. /\ l.steps[1] = Model(def)!LoopStart(l.id) /\ Last(l.steps) = Model(def)!LoopEnd(l.id)
        /\ ToSet(l.steps) = Model(def)!Children(l.id)
    BY <1>1, <2>1, LoopRuns
  <2> QED BY <2>2, <2>3
<1> QED BY <1>1, <1>5, <1>6, <1>7, Zenon DEF Sound

-----------------------------------------------------------------------------
(***************************************************************************)
(* The document of a definition (serializer.ts).                           *)
(***************************************************************************)

\* The nodes a definition is written as.
LoopAttrs(l) == Joint([id |-> l.id], Written(l.bounds, [b \in Bounds |-> {0}]))
LoopKids(def, l) == [i \in 1..Len(l.steps) |-> StepNode(StepNamed(def, l.steps[i]))]
LoopNode(def, l) == Element("loop", LoopAttrs(l), LoopKids(def, l))
GroupNodes(def, i) ==
    IF def.steps[i].loop = "" THEN <<StepNode(def.steps[i])>>
    ELSE IF IsFirst(def, i) THEN <<LoopNode(def, LoopNamed(def, def.steps[i].loop))>>
    ELSE <<>>
Grouped(def) == [i \in 1..Len(def.steps) |-> GroupNodes(def, i)]
InputAttrs(x) == Joint([name |-> x.name], IF x.optional THEN [optional |-> "true"] ELSE <<>>)
InputNodes(def) == [i \in 1..Len(def.inputs) |-> Element("input", InputAttrs(def.inputs[i]), <<>>)]
DescriptionNodes(def) == IF def.described THEN TextIn("description", def.description) ELSE <<>>
BodyNodes(def) == (DescriptionNodes(def) \o InputNodes(def)) \o Joined(Grouped(def))
RootNode(def) == Element("workflow", [id |-> def.id, version |-> def.version], BodyNodes(def))

\* The steps of a loop are those of the definition, from where it stands.
LEMMA LoopSteps ==
    ASSUME NEW def, Ordered(def), NEW l, NEW lo \in Nat, StandsAt(def, l, lo), NEW i \in 1..Len(l.steps)
    PROVE  /\ lo + i \in 1..Len(def.steps) /\ l.steps[i] = def.steps[lo + i].id
           /\ StepNamed(def, l.steps[i]) = def.steps[lo + i] /\ ExactStep(def.steps[lo + i])
<1>1. StepsDiffer(def.steps)
  BY DEF Ordered
<1>2. PICK m \in Nat : m = Len(l.steps)
  BY SequenceIs DEF StandsAt
<1>3. PICK n \in Nat : n = Len(def.steps)
  BY <1>1, SequenceIs DEF StepsDiffer
<1>4. lo + m <= n /\ l.steps[i] = def.steps[lo + i].id
  BY <1>2, <1>3 DEF StandsAt
<1>5. lo + i \in 1..n
  BY <1>2, <1>4
<1>6. StepNamed(def, def.steps[lo + i].id) = def.steps[lo + i]
  <2>1. lo + i \in 1..Len(def.steps)
    BY <1>3, <1>5
  <2> QED BY ONLY <1>1, <2>1, NamedIs
<1>7. ExactStep(def.steps[lo + i])
  BY <1>1, <1>3, <1>5 DEF StepsDiffer
<1> QED BY <1>3, <1>4, <1>5, <1>6, <1>7

\* A loop is written as its node.
LEMMA PutsLoop ==
    ASSUME NEW def, Ordered(def), NEW l, LoopIs(def, l)
    PROVE  Puts(LoopElement(def, l), <<LoopNode(def, l)>>, 4)
<1>1. PICK lo \in Nat : StandsAt(def, l, lo)
  BY DEF LoopIs
<1>2. PICK m \in Nat : m = Len(l.steps) /\ DOMAIN l.steps = 1..m
  BY <1>1, SequenceIs DEF StandsAt
<1>3. PICK x : x = [i \in DOMAIN l.steps |-> StepElement(StepNamed(def, l.steps[i]))]
  OBVIOUS
<1>4. PICK kids : kids = LoopKids(def, l)
  OBVIOUS
<1>5. IsSequence(kids) /\ Len(kids) = m /\ \A i \in 1..m : kids[i] = StepNode(StepNamed(def, l.steps[i]))
  <2>1. kids = [i \in 1..m |-> kids[i]] /\ \A i \in 1..m : kids[i] = StepNode(StepNamed(def, l.steps[i]))
    BY <1>2, <1>4 DEF LoopKids
  <2> QED BY <2>1, Mapped
<1>6. IsSequence(x) /\ Len(x) = m /\ \A i \in 1..m : x[i] = StepElement(StepNamed(def, l.steps[i]))
  <2>1. x = [i \in 1..m |-> x[i]] /\ \A i \in 1..m : x[i] = StepElement(StepNamed(def, l.steps[i]))
    BY <1>2, <1>3
  <2> QED BY <2>1, Mapped
<1>7. PICK a : a = [i \in 1..Len(kids) |-> <<kids[i]>>]
  OBVIOUS
<1>8. IsSequence(a) /\ Len(a) = Len(kids) /\ Joined(a) = kids
  BY <1>5, <1>7, JoinedSingles
<1>9. ASSUME NEW i \in 1..m PROVE Puts(x[i], a[i], 3)
  <2>1. PICK s : s = StepNamed(def, l.steps[i])
    OBVIOUS
  <2>2. ExactStep(s)
    <3>1. i \in 1..Len(l.steps)
      BY <1>2
    <3>2. StepNamed(def, l.steps[i]) = def.steps[lo + i] /\ ExactStep(def.steps[lo + i])
      BY ONLY <1>1, <3>1, Ordered(def), lo \in Nat, LoopSteps
    <3> QED BY <2>1, <3>2
  <2>3. Puts(StepElement(s), <<StepNode(s)>>, 3)
    BY <2>2, PutsStep
  <2>4. x[i] = StepElement(s) /\ a[i] = <<StepNode(s)>>
    BY <1>5, <1>6, <1>7, <2>1
  <2> QED BY <2>3, <2>4
<1>10. PICK inner : inner = Joined(x)
  OBVIOUS
<1>11. Puts(inner, kids, 3)
  <2>1. Len(a) = Len(x) /\ \A i \in 1..Len(x) : Puts(x[i], a[i], 3)
    BY <1>5, <1>6, <1>8, <1>9
  <2>2. Puts(Joined(x), Joined(a), 3)
    BY ONLY <1>6, <1>8, <2>1, PutsJoined, 3 \in Nat
  <2> QED BY <1>8, <1>10, <2>2
<1>12. PICK attrs : attrs = LoopAttrs(l)
  OBVIOUS
<1>13. PICK tag : tag = "loop"
  OBVIOUS
<1>14. Puts(Wrap(tag, attrs, inner), <<Element(tag, attrs, kids)>>, 4)
  <2>1. tag # TextTag /\ 3 \in Nat /\ 3 + 1 = 4
    BY <1>13 DEF TextTag
  <2>2. Puts(Wrap(tag, attrs, inner), <<Element(tag, attrs, kids)>>, 3 + 1)
    BY ONLY <1>11, <2>1, PutsWrap
  <2> QED BY <2>1, <2>2
<1>15. LoopElement(def, l) = Wrap(tag, attrs, inner)
  BY <1>3, <1>10, <1>12, <1>13 DEF LoopElement, LoopAttrs
<1>16. LoopNode(def, l) = Element(tag, attrs, kids)
  BY <1>4, <1>12, <1>13 DEF LoopNode
<1> QED BY <1>14, <1>15, <1>16

\* A loop is found by its id.
LEMMA LoopNamedIs ==
    ASSUME NEW def, Ordered(def), NEW k \in 1..Len(def.loops)
    PROVE  LoopNamed(def, def.loops[k].id) = def.loops[k]
<1>1. PICK l : l = def.loops[k]
  OBVIOUS
<1>2. IsSequence(def.loops) /\ LoopsDiffer(def.loops)
  BY DEF Ordered
<1>3. ToSet(def.loops) = {def.loops[i] : i \in 1..Len(def.loops)}
  BY <1>2, SequenceIs
<1>4. l \in ToSet(def.loops)
  BY <1>1, <1>3
<1>5. ASSUME NEW o \in ToSet(def.loops), o.id = l.id PROVE o = l
  <2>1. PICK i \in 1..Len(def.loops) : o = def.loops[i]
    BY <1>3
  <2>2. i = k
    BY <1>1, <1>2, <1>5, <2>1 DEF LoopsDiffer
  <2> QED BY <1>1, <2>1, <2>2
<1>6. (CHOOSE o \in ToSet(def.loops) : o.id = l.id) = l
  BY <1>4, <1>5
<1> QED BY <1>1, <1>6 DEF LoopNamed

\* The loop of a step in one is a loop of the definition.
LEMMA LoopOfIs ==
    ASSUME NEW def, Ordered(def), NEW i \in 1..Len(def.steps), def.steps[i].loop # ""
    PROVE  \E k \in 1..Len(def.loops) : /\ def.loops[k].id = def.steps[i].loop
                                        /\ LoopNamed(def, def.steps[i].loop) = def.loops[k]
                                        /\ LoopIs(def, def.loops[k])
<1>1. PICK k \in 1..Len(def.loops) : def.loops[k].id = def.steps[i].loop
  BY DEF Ordered
<1>2. LoopIs(def, def.loops[k])
  BY DEF Ordered
<1>3. LoopNamed(def, def.loops[k].id) = def.loops[k]
  BY LoopNamedIs
<1> QED BY <1>1, <1>2, <1>3

\* What stands at a step is written as its nodes.
LEMMA PutsGroup ==
    ASSUME NEW def, Ordered(def), NEW i \in 1..Len(def.steps)
    PROVE  Puts(GroupAt(def, i), GroupNodes(def, i), 4)
<1>1. PICK s : s = def.steps[i]
  OBVIOUS
<1>2. CASE s.loop = ""
  <2>1. ExactStep(s)
    BY <1>1 DEF Ordered, StepsDiffer
  <2>2. Puts(StepElement(s), <<StepNode(s)>>, 3)
    BY <2>1, PutsStep
  <2>3. Puts(StepElement(s), <<StepNode(s)>>, 4)
    <3>1. PICK x : x = StepElement(s)
      OBVIOUS
    <3>2. PICK a : a = <<StepNode(s)>>
      OBVIOUS
    <3>3. Puts(x, a, 3) /\ 3 \in Nat /\ 4 \in Nat /\ 3 <= 4
      BY <2>2, <3>1, <3>2
    <3>4. Puts(x, a, 4)
      BY ONLY <3>3, PutsMore
    <3> QED BY <3>1, <3>2, <3>4
  <2>4. GroupAt(def, i) = StepElement(s) /\ GroupNodes(def, i) = <<StepNode(s)>>
    BY <1>1, <1>2 DEF GroupAt, GroupNodes
  <2> QED BY <2>3, <2>4
<1>3. CASE s.loop # "" /\ IsFirst(def, i)
  <2>1. PICK l : l = LoopNamed(def, s.loop)
    OBVIOUS
  <2>2. LoopIs(def, l)
    BY <1>1, <1>3, <2>1, LoopOfIs
  <2>3. Puts(LoopElement(def, l), <<LoopNode(def, l)>>, 4)
    BY <2>2, PutsLoop
  <2>4. GroupAt(def, i) = LoopElement(def, l) /\ GroupNodes(def, i) = <<LoopNode(def, l)>>
    BY <1>1, <1>3, <2>1 DEF GroupAt, GroupNodes
  <2> QED BY <2>3, <2>4
<1>4. CASE s.loop # "" /\ ~IsFirst(def, i)
  <2>1. GroupAt(def, i) = <<>> /\ GroupNodes(def, i) = <<>>
    BY <1>1, <1>4 DEF GroupAt, GroupNodes
  <2>2. Puts(<<>>, <<>>, 4)
    BY PutsNothing, 4 \in Nat
  <2> QED BY <2>1, <2>2
<1> QED BY <1>2, <1>3, <1>4

\* The steps and the loops of a definition are written as theirs.
LEMMA PutsGroups ==
    ASSUME NEW def, Ordered(def)
    PROVE  /\ Puts(Groups(def), Joined(Grouped(def)), 4)
           /\ IsSequence(Grouped(def)) /\ Len(Grouped(def)) = Len(def.steps)
<1>1. PICK n \in Nat : n = Len(def.steps) /\ DOMAIN def.steps = 1..n
  BY SequenceIs DEF Ordered, StepsDiffer
<1>2. PICK x : x = [i \in DOMAIN def.steps |-> GroupAt(def, i)]
  OBVIOUS
<1>3. PICK a : a = Grouped(def)
  OBVIOUS
<1>4. IsSequence(x) /\ Len(x) = n /\ \A i \in 1..n : x[i] = GroupAt(def, i)
  <2>1. x = [i \in 1..n |-> x[i]] /\ \A i \in 1..n : x[i] = GroupAt(def, i)
    BY <1>1, <1>2
  <2> QED BY <2>1, Mapped
<1>5. IsSequence(a) /\ Len(a) = n /\ \A i \in 1..n : a[i] = GroupNodes(def, i)
  <2>1. a = [i \in 1..n |-> a[i]] /\ \A i \in 1..n : a[i] = GroupNodes(def, i)
    BY <1>1, <1>3 DEF Grouped
  <2> QED BY <2>1, Mapped
<1>6. \A i \in 1..Len(x) : Puts(x[i], a[i], 4)
  BY <1>1, <1>4, <1>5, PutsGroup
<1>7. Puts(Joined(x), Joined(a), 4)
  <2>1. Len(a) = Len(x)
    BY <1>4, <1>5
  <2> QED BY ONLY <1>4, <1>5, <1>6, <2>1, PutsJoined, 4 \in Nat
<1>8. Groups(def) = Joined(x)
  BY <1>2 DEF Groups
<1> QED BY <1>1, <1>3, <1>5, <1>7, <1>8

\* So are the inputs.
LEMMA PutsInputElements ==
    ASSUME NEW def, IsSequence(def.inputs)
    PROVE  /\ Puts([i \in DOMAIN def.inputs |-> InputElement(def.inputs[i])], InputNodes(def), 4)
           /\ IsSequence(InputNodes(def)) /\ Len(InputNodes(def)) = Len(def.inputs)
<1>1. PICK n \in Nat : n = Len(def.inputs) /\ DOMAIN def.inputs = 1..n
  BY SequenceIs
<1>2. PICK x : x = [i \in DOMAIN def.inputs |-> InputElement(def.inputs[i])]
  OBVIOUS
<1>3. PICK a : a = InputNodes(def)
  OBVIOUS
<1>4. IsSequence(x) /\ Len(x) = n /\ \A i \in 1..n : x[i] = InputElement(def.inputs[i])
  <2>1. x = [i \in 1..n |-> x[i]] /\ \A i \in 1..n : x[i] = InputElement(def.inputs[i])
    BY <1>1, <1>2
  <2> QED BY <2>1, Mapped
<1>5. IsSequence(a) /\ Len(a) = n /\ \A i \in 1..n : a[i] = Element("input", InputAttrs(def.inputs[i]), <<>>)
  <2>1. a = [i \in 1..n |-> a[i]] /\ \A i \in 1..n : a[i] = Element("input", InputAttrs(def.inputs[i]), <<>>)
    BY <1>1, <1>3 DEF InputNodes
  <2> QED BY <2>1, Mapped
<1>6. ASSUME NEW i \in 1..n PROVE Puts(<<x[i]>>, <<a[i]>>, 1)
  <2>1. PICK attrs : attrs = InputAttrs(def.inputs[i])
    OBVIOUS
  <2>2. PICK own : own = "input"
    OBVIOUS
  <2>3. own # TextTag
    BY <2>2 DEF TextTag
  <2>4. Puts(<<Empty(own, attrs)>>, <<Element(own, attrs, <<>>)>>, 1)
    BY ONLY <2>3, PutsEmpty
  <2>5. x[i] = Empty(own, attrs) /\ a[i] = Element(own, attrs, <<>>)
    BY <1>4, <1>5, <2>1, <2>2 DEF InputElement, InputAttrs
  <2> QED BY <2>4, <2>5
<1>7. Puts(x, a, 1)
  <2>1. Len(a) = Len(x) /\ \A i \in 1..Len(x) : Puts(<<x[i]>>, <<a[i]>>, 1)
    BY <1>4, <1>5, <1>6
  <2> QED BY ONLY <1>4, <1>5, <2>1, PutsEach, 1 \in Nat
<1>8. Puts(x, a, 4)
  <2>1. 1 \in Nat /\ 4 \in Nat /\ 1 <= 4
    OBVIOUS
  <2> QED BY ONLY <1>7, <2>1, PutsMore
<1> QED BY <1>1, <1>2, <1>3, <1>5, <1>8

\* The tokens of the body of a definition.
BodyTokens(def) ==
    ((IF def.described THEN TextElement("description", def.description) ELSE <<>>)
       \o [i \in DOMAIN def.inputs |-> InputElement(def.inputs[i])])
      \o Groups(def)

\* The description is written as its text.
LEMMA PutsDescription ==
    ASSUME NEW def, def.described => Plain(def.description)
    PROVE  Puts(IF def.described THEN TextElement("description", def.description) ELSE <<>>,
                DescriptionNodes(def), 4)
<1>1. CASE def.described
  <2>1. PICK tag : tag = "description"
    OBVIOUS
  <2>2. PICK words : words = def.description
    OBVIOUS
  <2>3. tag # TextTag /\ Plain(words)
    BY <1>1, <2>1, <2>2 DEF TextTag
  <2>4. PICK x : x = TextElement(tag, words)
    OBVIOUS
  <2>5. PICK a : a = TextIn(tag, words)
    OBVIOUS
  <2>6. Puts(x, a, 1)
    BY ONLY <2>3, <2>4, <2>5, PutsTextIn
  <2>7. 1 \in Nat /\ 4 \in Nat /\ 1 <= 4
    OBVIOUS
  <2>8. Puts(x, a, 4)
    BY ONLY <2>6, <2>7, PutsMore
  <2> QED BY <1>1, <2>1, <2>2, <2>4, <2>5, <2>8 DEF DescriptionNodes
<1>2. CASE ~def.described
  <2>1. Puts(<<>>, <<>>, 4)
    BY PutsNothing, 4 \in Nat
  <2> QED BY <1>2, <2>1 DEF DescriptionNodes
<1> QED BY <1>1, <1>2

\* The body is written as its nodes.
LEMMA PutsBody ==
    ASSUME NEW def, Ordered(def), IsSequence(def.inputs), def.described => Plain(def.description)
    PROVE  Puts(BodyTokens(def), BodyNodes(def), 4)
<1>1. PICK x : x = IF def.described THEN TextElement("description", def.description) ELSE <<>>
  OBVIOUS
<1>2. PICK a : a = DescriptionNodes(def)
  OBVIOUS
<1>3. Puts(x, a, 4)
  BY <1>1, <1>2, PutsDescription
<1>4. PICK y : y = [i \in DOMAIN def.inputs |-> InputElement(def.inputs[i])]
  OBVIOUS
<1>5. PICK b : b = InputNodes(def)
  OBVIOUS
<1>6. Puts(y, b, 4)
  BY <1>4, <1>5, PutsInputElements
<1>7. PICK z : z = Groups(def)
  OBVIOUS
<1>8. PICK c : c = Joined(Grouped(def))
  OBVIOUS
<1>9. Puts(z, c, 4)
  BY <1>7, <1>8, PutsGroups
<1>10. Puts(x \o y, a \o b, 4)
  BY ONLY <1>3, <1>6, PutsThen, 4 \in Nat
<1>11. PICK u : u = x \o y
  OBVIOUS
<1>12. PICK d : d = a \o b
  OBVIOUS
<1>13. Puts(u \o z, d \o c, 4)
  <2>1. Puts(u, d, 4)
    BY <1>10, <1>11, <1>12
  <2> QED BY ONLY <1>9, <2>1, PutsThen, 4 \in Nat
<1>14. BodyTokens(def) = u \o z
  BY <1>1, <1>4, <1>7, <1>11 DEF BodyTokens
<1>15. BodyNodes(def) = d \o c
  BY <1>2, <1>5, <1>8, <1>12 DEF BodyNodes
<1> QED BY <1>13, <1>14, <1>15

\* A document within an element.
LEMMA WrapDocument ==
    ASSUME NEW tag, tag # TextTag, NEW attrs, NEW inner, IsDocument(inner)
    PROVE  IsDocument(Wrap(tag, attrs, inner))
<1>1. PICK t : t = Start(tag, attrs)
  OBVIOUS
<1>2. PICK u : u = End(tag)
  OBVIOUS
<1>3. Legible(t) /\ Legible(u)
  BY <1>1, <1>2 DEF Start, End, Legible
<1>4. PICK first : first = <<t>>
  OBVIOUS
<1>5. PICK last : last = <<u>>
  OBVIOUS
<1>6. IsDocument(first) /\ IsDocument(last)
  BY <1>3, <1>4, <1>5, OneToken
<1>7. IsDocument(first \o inner)
  BY <1>6, DocumentThen
<1>8. IsDocument((first \o inner) \o last)
  BY ONLY <1>6, <1>7, DocumentThen
<1>9. Wrap(tag, attrs, inner) = (first \o inner) \o last
  BY <1>1, <1>2, <1>4, <1>5 DEF Wrap
<1> QED BY <1>8, <1>9

\* The file of a definition is well formed, with its nodes below the root.
LEMMA SerializeReads ==
    ASSUME NEW def, Ordered(def), IsSequence(def.inputs), def.described => Plain(def.description)
    PROVE  /\ IsDocument(Serialize(def)) /\ WellFormed(Serialize(def))
           /\ Root(Serialize(def)) = RootNode(def) /\ IsSequence(BodyNodes(def))
<1>1. PICK x : x = BodyTokens(def)
  OBVIOUS
<1>2. PICK a : a = BodyNodes(def)
  OBVIOUS
<1>3. Puts(x, a, 4)
  BY <1>1, <1>2, PutsBody
<1>4. IsDocument(x) /\ IsSequence(a) /\ IsSequence(x)
  BY <1>3 DEF Puts, IsDocument
<1>5. PICK tag : tag = "workflow"
  OBVIOUS
<1>6. PICK attrs : attrs = [id |-> def.id, version |-> def.version]
  OBVIOUS
<1>7. Serialize(def) = Wrap(tag, attrs, x)
  BY <1>1, <1>5, <1>6 DEF Serialize, BodyTokens
<1>8. tag # TextTag
  BY <1>5 DEF TextTag
<1>9. IsDocument(Wrap(tag, attrs, x))
  BY <1>4, <1>8, WrapDocument
<1>10. PICK t : t = Start(tag, attrs)
  OBVIOUS
<1>11. PICK u : u = End(tag)
  OBVIOUS
<1>12. /\ t.is = "start" /\ t.tag = tag /\ t.attrs = attrs
       /\ u.is = "end" /\ u.tag = tag
  BY <1>10, <1>11 DEF Start, End
<1>13. PICK first : first = <<t>>
  OBVIOUS
<1>14. PICK last : last = <<u>>
  OBVIOUS
<1>15. IsSequence(first) /\ IsSequence(last)
  BY <1>13, <1>14, Tuples
<1>16. Wrap(tag, attrs, x) = (first \o x) \o last
  BY <1>10, <1>11, <1>13, <1>14 DEF Wrap
<1>17. PICK none : none = <<>>
  OBVIOUS
<1>18. PICK s : s = [open |-> none, root |-> none, bad |-> FALSE]
  OBVIOUS
<1>19. IsSequence(none) /\ Len(none) = 0 /\ none \o a = a
  BY <1>4, <1>17, NoSequence, ConcatNone
<1>20. PICK s1 : s1 = State(none, tag, attrs, none, none)
  OBVIOUS
<1>21. ReadToken(s, t) = s1
  <2>1. ~Full(s) /\ ~s.bad
    BY <1>17, <1>18, <1>19, DepthAssumption DEF Full
  <2>2. ReadToken(s, t) = [s EXCEPT !.open = Append(@, Element(tag, attrs, none))]
    BY <1>12, <1>17, <2>1 DEF ReadToken
  <2>3. PICK r : r = [s EXCEPT !.open = Append(@, Element(tag, attrs, none))]
    OBVIOUS
  <2>4. r = [open |-> Append(none, Element(tag, attrs, none)), root |-> none, bad |-> FALSE]
    BY <1>18, <2>3
  <2> QED BY <1>20, <2>2, <2>3, <2>4 DEF State
<1>22. PICK s2 : s2 = State(none, tag, attrs, a, none)
  OBVIOUS
<1>23. Reads(s1, x) = s2
  <2>1. Len(none) + 4 <= MaxDepth
    BY <1>19, DepthAssumption
  <2>2. PICK k : k = none
    OBVIOUS
  <2>3. PICK r : r = none
    OBVIOUS
  <2>4. IsSequence(none) /\ IsSequence(k) /\ k \o a = a
    BY <1>19, <2>2
  <2>5. Reads(State(none, tag, attrs, k, r), x) = State(none, tag, attrs, k \o a, r)
    <3>1. PICK b : b = none
      OBVIOUS
    <3>2. IsSequence(b) /\ Len(b) + 4 <= MaxDepth /\ IsSequence(k)
      BY <2>1, <2>4, <3>1
    <3>3. Reads(State(b, tag, attrs, k, r), x) = State(b, tag, attrs, k \o a, r)
      BY ONLY <1>3, <3>2, PutsReads
    <3> QED BY <3>1, <3>3
  <2> QED BY <1>20, <1>22, <2>2, <2>3, <2>4, <2>5
<1>24. PICK node : node = Element(tag, attrs, a)
  OBVIOUS
<1>25. PICK s3 : s3 = [open |-> none, root |-> <<node>>, bad |-> FALSE]
  OBVIOUS
<1>26. ReadToken(s2, u) = s3
  <2>1. PICK open : open = Append(none, node)
    OBVIOUS
  <2>2. s2 = [open |-> open, root |-> none, bad |-> FALSE]
    BY <1>22, <1>24, <2>1 DEF State
  <2>3. open # <<>> /\ Last(open) = node /\ Front(open) = none
    BY ONLY <1>19, <2>1, LastIs
  <2>4. ~s2.bad
    BY <2>2
  <2>5. ReadToken(s2, u) = Close(s2, tag)
    BY <1>12, <2>4 DEF ReadToken
  <2>6. node.tag = tag
    BY <1>24 DEF Element
  <2>7. Close(s2, tag) = Attach([s2 EXCEPT !.open = Front(@)], node)
    <3>1. s2.open = open
      BY <2>2
    <3> QED BY <2>3, <2>6, <3>1 DEF Close
  <2>8. PICK r : r = [s2 EXCEPT !.open = Front(@)]
    OBVIOUS
  <2>9. r = [open |-> none, root |-> none, bad |-> FALSE]
    BY <2>2, <2>3, <2>8
  <2>10. Attach(r, node) = [r EXCEPT !.root = <<node>>]
    BY <1>8, <1>17, <2>6, <2>9 DEF Attach, IsElement
  <2>13. PICK root : root = <<node>>
    OBVIOUS
  <2>11. PICK q : q = [r EXCEPT !.root = root]
    OBVIOUS
  <2>12. q = s3
    <3>1. DOMAIN r = {"open", "root", "bad"} /\ r.open = none /\ r.bad = FALSE
      BY <2>9
    <3>2. q = [open |-> none, root |-> root, bad |-> FALSE]
      BY ONLY <2>11, <3>1
    <3> QED BY <1>25, <2>13, <3>2
  <2> QED BY <2>5, <2>7, <2>8, <2>10, <2>11, <2>12, <2>13
<1>27. Reads(s, (first \o x) \o last) = s3
  <2>1. IsSequence(first \o x)
    BY <1>4, <1>15, ConcatIs
  <2>2. Reads(s, (first \o x) \o last) = Reads(Reads(s, first \o x), last)
    BY ONLY <1>15, <2>1, ReadsThen
  <2>3. Reads(s, first \o x) = Reads(Reads(s, first), x)
    BY ONLY <1>4, <1>15, ReadsThen
  <2>4. Reads(s, first) = s1
    BY <1>13, <1>21, ReadsOne
  <2>5. Reads(s2, last) = s3
    BY <1>14, <1>26, ReadsOne
  <2> QED BY <1>23, <2>2, <2>3, <2>4, <2>5, Zenon
<1>28. PICK xml : xml = Serialize(def)
  OBVIOUS
<1>29. ReadXml(xml) = s3
  <2>1. s = [open |-> <<>>, root |-> <<>>, bad |-> FALSE]
    BY <1>17, <1>18
  <2>2. xml = (first \o x) \o last
    BY <1>7, <1>16, <1>28
  <2>3. ReadXml(xml) = Reads(s, xml)
    BY ONLY <2>1, ReadXmlIs
  <2> QED BY <1>27, <2>2, <2>3
<1>30. s3.open = <<>> /\ s3.root = <<node>> /\ s3.bad = FALSE /\ s3.root # <<>> /\ s3.root[1] = node
  BY <1>17, <1>25
<1>31. WellFormed(xml) /\ Root(xml) = node
  BY <1>29, <1>30 DEF WellFormed, Root
<1>32. node = RootNode(def)
  BY <1>2, <1>5, <1>6, <1>24 DEF RootNode
<1> QED BY <1>2, <1>4, <1>7, <1>9, <1>28, <1>31, <1>32

\* Whatever the description and the inputs, it is a document.
LEMMA SerializeIs ==
    ASSUME NEW def, Ordered(def), IsSequence(def.inputs), def.described => IsSequence(def.description)
    PROVE  IsDocument(Serialize(def))
<1>1. PICK x : x = IF def.described THEN TextElement("description", def.description) ELSE <<>>
  OBVIOUS
<1>2. PICK y : y = [i \in DOMAIN def.inputs |-> InputElement(def.inputs[i])]
  OBVIOUS
<1>3. PICK z : z = Groups(def)
  OBVIOUS
<1>4. IsDocument(y) /\ IsDocument(z)
  BY <1>2, <1>3, PutsInputElements, PutsGroups DEF Puts
<1>5. IsDocument(x)
  <2>1. CASE def.described
    <3>1. PICK words : words = Escape(def.description)
      OBVIOUS
    <3>2. IsSequence(words)
      <4>1. IsSequence(def.description)
        BY <2>1
      <4>2. words = [i \in DOMAIN def.description |-> words[i]]
        BY <3>1 DEF Escape
      <4> QED BY <4>1, <4>2, MappedOver
    <3>3. PICK t : t = Text(words)
      OBVIOUS
    <3>4. Legible(t)
      BY <3>2, <3>3 DEF Legible, Text, IsSequence, TextTag
    <3>5. PICK one : one = <<t>>
      OBVIOUS
    <3>6. IsDocument(one)
      BY <3>4, <3>5, OneToken
    <3>7. PICK tag : tag = "description"
      OBVIOUS
    <3>8. PICK none : none = <<>>
      OBVIOUS
    <3>9. tag # TextTag
      BY <3>7 DEF TextTag
    <3>10. IsDocument(Wrap(tag, none, one))
      BY ONLY <3>6, <3>9, WrapDocument
    <3> QED BY <1>1, <2>1, <3>1, <3>3, <3>5, <3>7, <3>8, <3>10 DEF TextElement
  <2>2. CASE ~def.described
    <3>1. x = <<>>
      BY <1>1, <2>2
    <3> QED BY <3>1, NoSequence DEF IsDocument
  <2> QED BY <2>1, <2>2
<1>6. PICK u : u = x \o y
  OBVIOUS
<1>7. IsDocument(u)
  BY <1>4, <1>5, <1>6, DocumentThen
<1>8. PICK v : v = u \o z
  OBVIOUS
<1>9. IsDocument(v)
  BY <1>4, <1>7, <1>8, DocumentThen
<1>10. PICK tag : tag = "workflow"
  OBVIOUS
<1>11. PICK attrs : attrs = [id |-> def.id, version |-> def.version]
  OBVIOUS
<1>12. tag # TextTag
  BY <1>10 DEF TextTag
<1>13. IsDocument(Wrap(tag, attrs, v))
  BY ONLY <1>9, <1>12, WrapDocument
<1> QED BY <1>1, <1>2, <1>3, <1>6, <1>8, <1>10, <1>11, <1>13 DEF Serialize

-----------------------------------------------------------------------------
(***************************************************************************)
(* Reading back what was written (parser.ts for serializer.ts).            *)
(***************************************************************************)

\* The first k elements of a sequence.
First(s, k) == [i \in 1..k |-> s[i]]

\* They are a sequence.
LEMMA FirstIs ==
    ASSUME NEW s, IsSequence(s), NEW k \in Nat, k <= Len(s)
    PROVE  /\ IsSequence(First(s, k)) /\ Len(First(s, k)) = k /\ DOMAIN First(s, k) = 1..k
           /\ \A i \in 1..k : First(s, k)[i] = s[i]
<1>1. PICK f : f = First(s, k)
  OBVIOUS
<1>2. f = [i \in 1..k |-> f[i]] /\ DOMAIN f = 1..k /\ \A i \in 1..k : f[i] = s[i]
  BY <1>1 DEF First
<1>3. IsSequence(f) /\ Len(f) = k
  BY <1>2, Mapped
<1> QED BY <1>1, <1>2, <1>3

\* None of them and all of them.
LEMMA FirstEnds ==
    ASSUME NEW s, IsSequence(s)
    PROVE  First(s, 0) = <<>> /\ First(s, Len(s)) = s
<1>1. Len(s) \in Nat /\ s = [i \in 1..Len(s) |-> s[i]]
  BY SequenceIs
<1>2. First(s, Len(s)) = s
  BY <1>1 DEF First
<1>3. PICK f : f = First(s, 0)
  OBVIOUS
<1>4. IsSequence(f) /\ Len(f) = 0
  BY <1>1, <1>3, FirstIs
<1>5. f = <<>>
  BY <1>4, SequenceIs
<1> QED BY <1>2, <1>3, <1>5

\* One more.
LEMMA FirstMore ==
    ASSUME NEW s, IsSequence(s), NEW k \in Nat, k + 1 <= Len(s)
    PROVE  Append(First(s, k), s[k + 1]) = First(s, k + 1)
<1>1. PICK f : f = First(s, k)
  OBVIOUS
<1>2. k <= Len(s) /\ Len(s) \in Nat /\ k + 1 \in Nat
  BY SequenceIs
<1>3. IsSequence(f) /\ Len(f) = k /\ \A i \in 1..k : f[i] = s[i]
  BY <1>1, <1>2, FirstIs
<1>4. PICK x : x = s[k + 1]
  OBVIOUS
<1>5. PICK g : g = Append(f, x)
  OBVIOUS
<1>6. IsSequence(g) /\ Len(g) = k + 1 /\ g[k + 1] = x /\ \A i \in 1..k : g[i] = f[i]
  BY <1>3, <1>5, Appended
<1>7. PICK h : h = First(s, k + 1)
  OBVIOUS
<1>8. IsSequence(h) /\ Len(h) = k + 1 /\ \A i \in 1..(k + 1) : h[i] = s[i]
  BY <1>2, <1>7, FirstIs
<1>9. \A i \in 1..(k + 1) : g[i] = h[i]
  <2>1. \A i \in 1..(k + 1) : i = k + 1 \/ i \in 1..k
    OBVIOUS
  <2> QED BY <1>3, <1>4, <1>6, <1>8, <2>1
<1>10. g = h
  BY ONLY <1>6, <1>8, <1>9, SameSequence
<1> QED BY <1>1, <1>4, <1>5, <1>7, <1>10

\* A definition read as far as its first n inputs, h steps and m loops.
Part(def, n, h, m) ==
    [fits |-> TRUE, id |-> def.id, version |-> def.version,
     described |-> def.described, description |-> def.description,
     inputs |-> First(def.inputs, n), steps |-> First(def.steps, h), loops |-> First(def.loops, m)]

\* No merge has the empty separator, which is not written.
Spaced(def) == \A i \in 1..Len(def.steps) : def.steps[i].kind = "merge" => def.steps[i].separator # ""

\* The next step is read.
LEMMA NextStepBack ==
    ASSUME NEW def, Ordered(def), Spaced(def), NEW n, NEW h \in Nat, h + 1 <= Len(def.steps), NEW m,
           NEW loop, loop = def.steps[h + 1].loop
    PROVE  AddStep(Part(def, n, h, m), StepNode(def.steps[h + 1]), loop) = Part(def, n, h + 1, m)
<1>1. PICK s : s = def.steps[h + 1]
  OBVIOUS
<1>2. StepsDiffer(def.steps) /\ IsSequence(def.steps)
  BY DEF Ordered, StepsDiffer
<1>3. Len(def.steps) \in Nat /\ h + 1 \in 1..Len(def.steps) /\ h <= Len(def.steps)
  BY <1>2, SequenceIs
<1>4. ExactStep(s) /\ (s.kind = "merge" => s.separator # "")
  BY <1>1, <1>2, <1>3 DEF StepsDiffer, Spaced
<1>5. PICK e : e = StepNode(s)
  OBVIOUS
<1>6. e.tag = "step" /\ StepFits(e) /\ StepOf(e, s.loop) = s
  BY <1>4, <1>5, StepReadBack
<1>7. PICK d : d = Part(def, n, h, m)
  OBVIOUS
<1>8. AddStep(d, e, loop) = Register(d, s)
  BY <1>1, <1>6 DEF AddStep
<1>9. PICK steps : steps = First(def.steps, h)
  OBVIOUS
<1>10. DOMAIN steps = 1..h /\ \A i \in 1..h : steps[i] = def.steps[i]
  BY <1>2, <1>3, <1>9, FirstIs
<1>11. ASSUME NEW i \in 1..h
       PROVE  steps[i].id # s.id /\ (s.output # "" => steps[i].output # s.output)
  <2>1. i \in 1..Len(def.steps) /\ i # h + 1 /\ steps[i] = def.steps[i]
    BY <1>3, <1>10
  <2>2. def.steps[i].id # def.steps[h + 1].id
    BY <1>2, <1>3, <2>1 DEF StepsDiffer
  <2>3. def.steps[h + 1].output # "" => def.steps[i].output # def.steps[h + 1].output
    BY <1>2, <1>3, <2>1 DEF StepsDiffer
  <2> QED BY <1>1, <2>1, <2>2, <2>3
<1>12. PICK inputs, loops : inputs = First(def.inputs, n) /\ loops = First(def.loops, m)
  OBVIOUS
<1>13. d = [fits |-> TRUE, id |-> def.id, version |-> def.version,
            described |-> def.described, description |-> def.description,
            inputs |-> inputs, steps |-> steps, loops |-> loops]
  BY <1>7, <1>9, <1>12 DEF Part
<1>14. d.steps = steps /\ d.fits = TRUE
  BY <1>13
<1>15. PICK fits \in BOOLEAN : fits = (d.fits /\ \A i \in DOMAIN d.steps :
                                 /\ d.steps[i].id # s.id
                                 /\ s.output # "" => d.steps[i].output # s.output)
  BY Zenon
<1>16. fits = TRUE
  <2>1. \A i \in DOMAIN d.steps : d.steps[i].id # s.id /\ (s.output # "" => d.steps[i].output # s.output)
    BY <1>10, <1>11, <1>14
  <2>2. d.fits
    BY <1>14
  <2> QED BY <1>15, <2>1, <2>2, Zenon
<1>17. PICK r : r = [d EXCEPT !.fits = fits, !.steps = Append(@, s)]
  OBVIOUS
<1>18. Register(d, s) = r
  BY <1>15, <1>17, Zenon DEF Register
<1>19. PICK more : more = Append(steps, s)
  OBVIOUS
<1>20. r = [fits |-> TRUE, id |-> def.id, version |-> def.version,
            described |-> def.described, description |-> def.description,
            inputs |-> inputs, steps |-> more, loops |-> loops]
  BY <1>13, <1>16, <1>17, <1>19
<1>21. more = First(def.steps, h + 1)
  BY <1>1, <1>2, <1>9, <1>19, FirstMore
<1>22. r = Part(def, n, h + 1, m)
  BY <1>12, <1>20, <1>21 DEF Part
<1> QED BY <1>1, <1>5, <1>7, <1>8, <1>18, <1>22

\* The steps of a loop are read, one after the other.
LEMMA StepsBack ==
    ASSUME NEW def, Ordered(def), Spaced(def), NEW n, NEW m, NEW h \in Nat, NEW id,
           NEW kids, IsSequence(kids), h + Len(kids) <= Len(def.steps),
           \A j \in 1..Len(kids) : kids[j] = StepNode(def.steps[h + j]) /\ def.steps[h + j].loop = id
    PROVE  AddSteps(Part(def, n, h, m), kids, id) = Part(def, n, h + Len(kids), m)
<1>1. PICK k \in Nat : k = Len(kids)
  BY SequenceIs
<1>2. PICK d : d = Part(def, n, h, m)
  OBVIOUS
<1>3. PICK f : /\ f[0] = d /\ AddSteps(d, kids, id) = f[k]
               /\ \A i \in 1..k : f[i] = AddStep(f[i - 1], kids[i], id)
  <2>1. Len(kids) \in Nat
    BY <1>1
  <2>2. \E f : /\ f[0] = d /\ AddSteps(d, kids, id) = f[Len(kids)]
               /\ \A i \in 1..Len(kids) : f[i] = AddStep(f[i - 1], kids[i], id)
    BY ONLY <2>1, StepsPass
  <2> QED BY <1>1, <2>2, Zenon
<1>4. PICK S : S = {i \in 0..k : f[i] = Part(def, n, h + i, m)}
  OBVIOUS
<1>5. 0 \in S
  <2>1. h + 0 = h
    OBVIOUS
  <2> QED BY <1>2, <1>3, <1>4, <2>1
<1>6. ASSUME NEW i \in 1..k, i - 1 \in S PROVE i \in S
  <2>1. PICK g \in Nat : g = h + (i - 1)
    OBVIOUS
  <2>2. g + 1 = h + i /\ g + 1 <= Len(def.steps)
    <3>1. Len(def.steps) \in Nat
      BY SequenceIs DEF Ordered, StepsDiffer
    <3>2. h + k <= Len(def.steps)
      BY <1>1
    <3> QED BY <2>1, <3>1, <3>2
  <2>3. f[i - 1] = Part(def, n, g, m)
    BY <1>4, <1>6, <2>1
  <2>4. kids[i] = StepNode(def.steps[g + 1]) /\ id = def.steps[g + 1].loop
    BY <1>1, <2>2
  <2>5. AddStep(Part(def, n, g, m), StepNode(def.steps[g + 1]), id) = Part(def, n, g + 1, m)
    BY ONLY Ordered(def), Spaced(def), g \in Nat, <2>2, <2>4, NextStepBack
  <2>6. f[i] = AddStep(f[i - 1], kids[i], id)
    BY <1>3
  <2>7. f[i] = Part(def, n, h + i, m)
    BY <2>2, <2>3, <2>4, <2>5, <2>6
  <2> QED BY <1>4, <2>7
<1>7. k \in S
  BY ONLY <1>5, <1>6, Onward, k \in Nat
<1> QED BY <1>1, <1>2, <1>3, <1>4, <1>7

\* The attributes of a loop.
LEMMA LoopAttrsAre ==
    ASSUME NEW l, BoundsAre(l.bounds), NEW e, e.attrs = LoopAttrs(l)
    PROVE  Attr(e, "id") = l.id /\ BoundsFit(e) /\ [b \in Bounds |-> AttrOr(e, b, 0)] = l.bounds
<1>1. PICK bounds : bounds = l.bounds
  OBVIOUS
<1>2. /\ bounds = [b \in Bounds |-> bounds[b]] /\ \A b \in Bounds : bounds[b] = 0 \/ bounds[b] > 0
      /\ \E b \in Bounds : bounds[b] > 0
  BY <1>1 DEF BoundsAre
<1>3. PICK own : own = [id |-> l.id]
  OBVIOUS
<1>4. PICK W : W = {b \in Bounds : bounds[b] # 0}
  OBVIOUS
<1>5. PICK more : more = [a \in W |-> bounds[a]]
  OBVIOUS
<1>6. Written(bounds, [b \in Bounds |-> {0}]) = more
  <2>1. DOMAIN bounds = Bounds
    BY <1>2
  <2>2. {b \in DOMAIN bounds : bounds[b] \notin [c \in Bounds |-> {0}][b]} = W
    BY <1>4, <2>1
  <2> QED BY <1>5, <2>2, Zenon DEF Written
<1>7. e.attrs = Joint(own, more)
  BY <1>1, <1>3, <1>6 DEF LoopAttrs
<1>8. DOMAIN own = {"id"} /\ own["id"] = l.id /\ DOMAIN more = W /\ \A a \in W : more[a] = bounds[a]
  BY <1>3, <1>5
<1>9. "id" \notin W
  BY <1>4 DEF Bounds
<1>10. PICK attrs : attrs = e.attrs
  OBVIOUS
<1>11. DOMAIN attrs = {"id"} \cup W /\ attrs["id"] = l.id /\ \A a \in W : attrs[a] = bounds[a]
  <2>1. attrs = [a \in {"id"} \cup W |-> IF a \in {"id"} THEN own[a] ELSE more[a]]
    BY <1>7, <1>8, <1>10 DEF Joint
  <2>2. DOMAIN attrs = {"id"} \cup W
    BY <2>1
  <2>3. attrs["id"] = l.id
    BY <1>8, <2>1
  <2>4. ASSUME NEW a \in W PROVE attrs[a] = bounds[a]
    <3>1. a \notin {"id"} /\ a \in {"id"} \cup W
      BY <1>9
    <3> QED BY <1>8, <2>1, <3>1
  <2> QED BY <2>2, <2>3, <2>4
<1>12. Attr(e, "id") = l.id
  BY <1>10, <1>11 DEF Attr
<1>13. DOMAIN attrs \cap Bounds = W
  BY <1>4, <1>11 DEF Bounds
<1>14. BoundsFit(e)
  <2>1. W # {}
    <3>1. PICK b \in Bounds : bounds[b] > 0
      BY <1>2
    <3>2. bounds[b] # 0
      BY <3>1
    <3> QED BY <1>4, <3>2
  <2>2. \A b \in W : attrs[b] > 0
    BY <1>2, <1>4, <1>11
  <2> QED BY <1>10, <1>13, <2>1, <2>2 DEF BoundsFit
<1>15. \A b \in Bounds : AttrOr(e, b, 0) = bounds[b]
  <2> SUFFICES ASSUME NEW b \in Bounds PROVE AttrOr(e, b, 0) = bounds[b]
    OBVIOUS
  <2>1. CASE b \in W
    <3>1. b \in DOMAIN attrs
      BY <1>11, <2>1
    <3> QED BY <1>10, <1>11, <2>1, <3>1 DEF AttrOr
  <2>2. CASE b \notin W
    <3>1. b \notin DOMAIN attrs /\ bounds[b] = 0
      BY <1>4, <1>13, <2>2
    <3> QED BY <1>10, <3>1 DEF AttrOr
  <2> QED BY <2>1, <2>2
<1>16. [b \in Bounds |-> AttrOr(e, b, 0)] = bounds
  BY <1>2, <1>15
<1> QED BY <1>1, <1>12, <1>14, <1>16

\* The next loop is read, when its steps are the next.
LEMMA NextLoopBack ==
    ASSUME NEW def, Ordered(def), Spaced(def), NEW n, NEW h \in Nat, NEW m \in Nat, m + 1 <= Len(def.loops),
           StandsAt(def, def.loops[m + 1], h)
    PROVE  AddLoop(Part(def, n, h, m), LoopNode(def, def.loops[m + 1]))
             = Part(def, n, h + Len(def.loops[m + 1].steps), m + 1)
<1>1. PICK l : l = def.loops[m + 1]
  OBVIOUS
<1>2. IsSequence(def.loops) /\ Len(def.loops) \in Nat /\ m + 1 \in 1..Len(def.loops) /\ m <= Len(def.loops)
  <2>1. IsSequence(def.loops)
    BY DEF Ordered
  <2>2. Len(def.loops) \in Nat
    BY ONLY <2>1, SequenceIs
  <2> QED BY <2>1, <2>2
<1>3. LoopIs(def, l) /\ StandsAt(def, l, h)
  BY <1>1, <1>2 DEF Ordered
<1>4. PICK k \in Nat : k = Len(l.steps)
  BY <1>3, SequenceIs DEF StandsAt
<1>5. PICK kids : kids = LoopKids(def, l)
  OBVIOUS
<1>6. IsSequence(kids) /\ Len(kids) = k /\ \A i \in 1..k : kids[i] = StepNode(StepNamed(def, l.steps[i]))
  <2>1. kids = [i \in 1..k |-> kids[i]] /\ \A i \in 1..k : kids[i] = StepNode(StepNamed(def, l.steps[i]))
    BY <1>4, <1>5 DEF LoopKids
  <2> QED BY <2>1, Mapped
<1>7. ASSUME NEW i \in 1..k
      PROVE  /\ kids[i] = StepNode(def.steps[h + i]) /\ ExactStep(def.steps[h + i])
             /\ l.steps[i] = def.steps[h + i].id /\ def.steps[h + i].loop = l.id
  <2>1. i \in 1..Len(l.steps)
    BY <1>4
  <2>2. /\ h + i \in 1..Len(def.steps) /\ l.steps[i] = def.steps[h + i].id
        /\ StepNamed(def, l.steps[i]) = def.steps[h + i] /\ ExactStep(def.steps[h + i])
    BY ONLY <1>3, <2>1, Ordered(def), h \in Nat, LoopSteps
  <2>3. h < h + i /\ h + i <= h + Len(l.steps)
    BY <1>4
  <2>4. def.steps[h + i].loop = l.id
    BY <1>3, <2>2, <2>3 DEF StandsAt
  <2> QED BY <1>6, <2>2, <2>4
<1>8. PICK d : d = Part(def, n, h, m)
  OBVIOUS
<1>9. PICK e : e = LoopNode(def, l)
  OBVIOUS
<1>10. e.tag = "loop" /\ e.attrs = LoopAttrs(l) /\ e.kids = kids
  BY <1>5, <1>9 DEF LoopNode, Element
<1>11. Attr(e, "id") = l.id /\ BoundsFit(e) /\ [b \in Bounds |-> AttrOr(e, b, 0)] = l.bounds
  BY <1>3, <1>10, LoopAttrsAre DEF LoopIs
<1>12. Children(e) = kids
  <2>1. \A i \in 1..Len(e.kids) : e.kids[i].tag # TextTag
    <3>1. \A i \in 1..k : kids[i].tag = "step"
      <4> SUFFICES ASSUME NEW i \in 1..k PROVE kids[i].tag = "step"
        OBVIOUS
      <4>1. PICK s : s = def.steps[h + i]
        OBVIOUS
      <4>2. kids[i] = StepNode(s)
        BY <1>7, <4>1
      <4>3. StepNode(s).tag = "step"
        BY DEF StepNode, Element
      <4> QED BY <4>2, <4>3
    <3> QED BY <1>6, <1>10, <3>1 DEF TextTag
  <2> QED BY <1>6, <1>10, <2>1, AllElements
<1>13. PICK inner : inner = AddSteps(d, kids, l.id)
  OBVIOUS
<1>14. inner = Part(def, n, h + k, m)
  <2>1. h + Len(kids) <= Len(def.steps)
    BY <1>3, <1>4, <1>6 DEF StandsAt
  <2>2. \A j \in 1..Len(kids) : kids[j] = StepNode(def.steps[h + j]) /\ def.steps[h + j].loop = l.id
    BY <1>6, <1>7
  <2>3. PICK id : id = l.id
    OBVIOUS
  <2>4. AddSteps(Part(def, n, h, m), kids, id) = Part(def, n, h + Len(kids), m)
    <3>1. \A j \in 1..Len(kids) : kids[j] = StepNode(def.steps[h + j]) /\ def.steps[h + j].loop = id
      BY <2>2, <2>3
    <3>2. IsSequence(kids)
      BY <1>6
    <3> QED BY ONLY Ordered(def), Spaced(def), h \in Nat, <2>1, <3>1, <3>2, StepsBack
  <2> QED BY <1>6, <1>8, <1>13, <2>3, <2>4
<1>15. PICK ids : ids = [i \in DOMAIN kids |-> Attr(kids[i], "id")]
  OBVIOUS
<1>16. ids = l.steps /\ ids # <<>>
  <2>1. DOMAIN kids = 1..k
    BY <1>6, SequenceIs
  <2>2. ids = [i \in 1..k |-> ids[i]]
    BY <1>15, <2>1
  <2>3. IsSequence(ids) /\ Len(ids) = k
    BY <2>2, Mapped
  <2>4. ASSUME NEW i \in 1..k PROVE ids[i] = l.steps[i]
    <3>1. PICK s : s = def.steps[h + i]
      OBVIOUS
    <3>2. PICK c : c = kids[i]
      OBVIOUS
    <3>5. ExactStep(s) /\ c = StepNode(s)
      BY <1>7, <3>1, <3>2
    <3>6. StepNode(s).attrs = StepAttrs(s)
      BY DEF StepNode, Element
    <3>3. ExactStep(s) /\ c.attrs = StepAttrs(s)
      BY <3>5, <3>6
    <3>4. Attr(c, "id") = s.id
      BY ONLY <3>3, StepAttrsAre
    <3> QED BY <1>7, <1>15, <2>1, <3>1, <3>2, <3>4
  <2>5. IsSequence(l.steps) /\ Len(l.steps) = k /\ k >= 1
    BY <1>3, <1>4 DEF StandsAt
  <2>6. ids = l.steps
    BY ONLY <2>3, <2>4, <2>5, SameSequence
  <2>7. ids # <<>>
    BY <2>3, <2>5, SequenceIs
  <2> QED BY <2>6, <2>7
<1>17. PICK inputs, steps, loops : /\ inputs = First(def.inputs, n) /\ steps = First(def.steps, h + k)
                                   /\ loops = First(def.loops, m)
  OBVIOUS
<1>18. inner = [fits |-> TRUE, id |-> def.id, version |-> def.version,
                described |-> def.described, description |-> def.description,
                inputs |-> inputs, steps |-> steps, loops |-> loops]
  BY <1>14, <1>17 DEF Part
<1>19. d.loops = loops
  BY <1>8, <1>17 DEF Part
<1>20. IsSequence(loops) /\ DOMAIN loops = 1..m /\ \A i \in 1..m : loops[i] = def.loops[i]
  BY <1>2, <1>17, FirstIs
<1>21. l.id \in Names \ LoopIds(d)
  <2>1. l.id \in Names
    BY <1>3 DEF LoopIs
  <2>2. ASSUME NEW i \in 1..m PROVE loops[i].id # l.id
    <3>1. i \in 1..Len(def.loops) /\ i # m + 1 /\ loops[i] = def.loops[i]
      BY <1>2, <1>20
    <3>2. LoopsDiffer(def.loops)
      BY DEF Ordered
    <3>3. def.loops[i].id # def.loops[m + 1].id
      BY <1>2, <3>1, <3>2 DEF LoopsDiffer
    <3> QED BY <1>1, <3>1, <3>3
  <2> QED BY <1>19, <1>20, <2>1, <2>2 DEF LoopIds
<1>22. PICK new : new = [id |-> l.id, steps |-> ids, bounds |-> [b \in Bounds |-> AttrOr(e, b, 0)]]
  OBVIOUS
<1>23. new = l
  BY <1>3, <1>11, <1>16, <1>22 DEF LoopIs
<1>24. PICK r : r = [inner EXCEPT !.loops = Append(@, new)]
  OBVIOUS
<1>25. AddLoop(d, e) = r
  BY <1>11, <1>12, <1>13, <1>15, <1>16, <1>21, <1>22, <1>24 DEF AddLoop
<1>26. PICK longer : longer = Append(loops, l)
  OBVIOUS
<1>27. r = [fits |-> TRUE, id |-> def.id, version |-> def.version,
            described |-> def.described, description |-> def.description,
            inputs |-> inputs, steps |-> steps, loops |-> longer]
  BY <1>18, <1>23, <1>24, <1>26
<1>28. longer = First(def.loops, m + 1)
  BY <1>1, <1>2, <1>17, <1>26, FirstMore
<1>29. r = Part(def, n, h + k, m + 1)
  BY <1>17, <1>27, <1>28 DEF Part
<1> QED BY <1>1, <1>4, <1>8, <1>9, <1>25, <1>29

\* The steps from i + 1 to h stand in a loop that began before.
Within(def, i, h) == \A j \in 1..Len(def.steps) : i < j /\ j <= h => def.steps[j].loop # "" /\ ~IsFirst(def, j)

\* The first h steps are in no loop, or in one of the first m; the others are in none of those.
Behind(def, h, m) ==
    \A j \in 1..Len(def.steps) : j <= h /\ def.steps[j].loop # "" =>
        \E k \in 1..m : def.loops[k].id = def.steps[j].loop
Ahead(def, h, m) ==
    \A j \in 1..Len(def.steps), k \in 1..m : h < j => def.steps[j].loop # def.loops[k].id

\* How far the groups before step i + 1 go: h steps and m loops. A loop is read as a whole,
\* where its first step stands.
GoneTo(def, i, h, m) ==
    /\ i <= h /\ h <= Len(def.steps) /\ m <= Len(def.loops)
    /\ Within(def, i, h) /\ Behind(def, h, m) /\ Ahead(def, h, m)

\* What the reading of one group gives.
LEMMA OneGroupBack ==
    ASSUME NEW def, Ordered(def), Spaced(def), NEW n, NEW i \in Nat, i + 1 <= Len(def.steps), NEW h \in Nat, NEW m \in Nat,
           GoneTo(def, i, h, m)
    PROVE  \E g \in Nat, l \in Nat : /\ GoneTo(def, i + 1, g, l)
                     /\ AddChildren(Part(def, n, h, m), GroupNodes(def, i + 1)) = Part(def, n, g, l)
<1>1. PICK N \in Nat : N = Len(def.steps)
  BY SequenceIs DEF Ordered, StepsDiffer
<1>2. PICK M \in Nat : M = Len(def.loops)
  BY SequenceIs DEF Ordered
<1>3. i <= h /\ h <= N /\ m <= M
  BY <1>1, <1>2 DEF GoneTo
<1>10. \A j \in 1..N : i < j /\ j <= h => def.steps[j].loop # "" /\ ~IsFirst(def, j)
  BY <1>1 DEF GoneTo, Within
<1>12. \A j \in 1..N, k \in 1..m : h < j => def.steps[j].loop # def.loops[k].id
  BY <1>1 DEF GoneTo, Ahead
<1>11. \A j \in 1..N : j <= h /\ def.steps[j].loop # "" => \E k \in 1..m : def.loops[k].id = def.steps[j].loop
  BY <1>1 DEF GoneTo, Behind
<1>4. i + 1 \in 1..N
  BY <1>1
<1>5. PICK d : d = Part(def, n, h, m)
  OBVIOUS
<1>6. CASE i + 1 <= h
  <2>1. def.steps[i + 1].loop # "" /\ ~IsFirst(def, i + 1)
    <3>1. i < i + 1
      OBVIOUS
    <3> QED BY <1>10, <1>4, <1>6, <3>1, Zenon
  <2>2. GroupNodes(def, i + 1) = <<>>
    BY <2>1 DEF GroupNodes
  <2>3. AddChildren(d, <<>>) = d
    BY KidsNone
  <2>4. GoneTo(def, i + 1, h, m)
    <3>1. Within(def, i + 1, h)
      <4> SUFFICES ASSUME NEW j \in 1..N, i + 1 < j, j <= h
                   PROVE  def.steps[j].loop # "" /\ ~IsFirst(def, j)
        BY <1>1 DEF Within
      <4>1. i < j
        OBVIOUS
      <4> QED BY <1>10, <4>1, Zenon
    <3> QED BY <1>1, <1>2, <1>3, <1>6, <3>1 DEF GoneTo
  <2> QED BY <1>5, <2>2, <2>3, <2>4
<1>7. CASE h = i /\ def.steps[i + 1].loop = ""
  <2>1. PICK s : s = def.steps[i + 1]
    OBVIOUS
  <2>2. PICK e : e = StepNode(s)
    OBVIOUS
  <2>3. GroupNodes(def, i + 1) = <<e>>
    BY <1>7, <2>1, <2>2 DEF GroupNodes
  <2>4. AddChildren(d, <<e>>) = AddChild(d, e)
    BY KidsOne
  <2>5. PICK none : none = ""
    OBVIOUS
  <2>6. AddChild(d, e) = AddStep(d, e, none)
    <3>1. e.tag = "step"
      BY <2>2 DEF StepNode, Element
    <3> QED BY <2>5, <3>1 DEF AddChild
  <2>7. AddStep(Part(def, n, i, m), StepNode(def.steps[i + 1]), none) = Part(def, n, i + 1, m)
    <3>1. none = def.steps[i + 1].loop
      BY <1>7, <2>5
    <3> QED BY ONLY Ordered(def), Spaced(def), i \in Nat, i + 1 <= Len(def.steps), <3>1, NextStepBack
  <2>8. GoneTo(def, i + 1, i + 1, m)
    <3>1. \A j \in 1..N : j <= i + 1 => j <= i \/ j = i + 1
      OBVIOUS
    <3>2. Behind(def, i + 1, m)
      <4> SUFFICES ASSUME NEW j \in 1..N, j <= i + 1, def.steps[j].loop # ""
                   PROVE  \E k \in 1..m : def.loops[k].id = def.steps[j].loop
        BY <1>1 DEF Behind
      <4>1. j <= i
        BY <1>7, <3>1
      <4> QED BY <1>7, <1>11, <4>1
    <3>3. Ahead(def, i + 1, m)
      <4> SUFFICES ASSUME NEW j \in 1..N, NEW k \in 1..m, i + 1 < j
                   PROVE  def.steps[j].loop # def.loops[k].id
        BY <1>1 DEF Ahead
      <4>1. h < j
        <5>1. h = i
          BY <1>7
        <5> QED BY ONLY <5>1, i \in Nat, j \in 1..N, N \in Nat, i + 1 < j
      <4> QED BY <1>12, <4>1, Zenon
    <3>4. Within(def, i + 1, i + 1)
      <4> SUFFICES ASSUME NEW j \in 1..N, i + 1 < j, j <= i + 1 PROVE FALSE
        BY <1>1 DEF Within
      <4> QED OBVIOUS
    <3> QED BY <1>1, <1>2, <1>3, <1>4, <3>2, <3>3, <3>4 DEF GoneTo
  <2>9. AddChildren(d, GroupNodes(def, i + 1)) = Part(def, n, i + 1, m)
    BY <1>5, <1>7, <2>1, <2>2, <2>3, <2>4, <2>6, <2>7
  <2>10. i + 1 \in Nat
    OBVIOUS
  <2> QED BY <1>5, <2>8, <2>9, <2>10, Zenon
<1>8. CASE h = i /\ def.steps[i + 1].loop # ""
  <2>1. PICK q \in 1..M : /\ def.loops[q].id = def.steps[i + 1].loop
                          /\ LoopNamed(def, def.steps[i + 1].loop) = def.loops[q]
                          /\ LoopIs(def, def.loops[q])
    BY <1>1, <1>2, <1>4, <1>8, LoopOfIs
  <2>2. q > m
    <3>1. CASE q <= m
      <4>1. q \in 1..m /\ h < i + 1
        <5>1. h = i
          BY <1>8
        <5> QED BY ONLY <5>1, <3>1, q \in 1..M, M \in Nat, m \in Nat, i \in Nat
      <4> QED BY <1>12, <1>4, <2>1, <4>1, Zenon
    <3> QED BY <1>3, <3>1
  <2>3. m + 1 \in 1..M
    BY <1>3, <2>2
  <2>4. PICK l : l = def.loops[m + 1]
    OBVIOUS
  <2>5. LoopIs(def, l) /\ LoopsDiffer(def.loops) /\ LoopsFollow(def.steps, def.loops)
    BY <1>2, <2>3, <2>4 DEF Ordered
  <2>6. PICK lo \in Nat : StandsAt(def, l, lo)
    BY <2>5 DEF LoopIs
  <2>7. PICK k \in Nat : k = Len(l.steps)
    BY <2>6, SequenceIs DEF StandsAt
  <2>8. /\ k >= 1 /\ lo + k <= N
        /\ \A j \in 1..N : def.steps[j].loop = l.id <=> lo < j /\ j <= lo + k
    BY <1>1, <2>6, <2>7 DEF StandsAt
  <2>9. lo + 1 \in 1..N /\ def.steps[lo + 1].loop = l.id
    BY <2>8
  <2>10. l.id # ""
    BY <2>5, NamesAssumption DEF LoopIs
  <2>11. \A c \in 1..m : def.loops[c].id # l.id
    <3> SUFFICES ASSUME NEW c \in 1..m, def.loops[c].id = l.id PROVE FALSE
      OBVIOUS
    <3>1. c \in 1..M /\ c # m + 1
      BY <1>3
    <3> QED BY <1>2, <2>3, <2>4, <2>5, <3>1 DEF LoopsDiffer
  <2>12. lo >= i
    <3>1. CASE lo + 1 <= i
      <4>1. \E c \in 1..m : def.loops[c].id = def.steps[lo + 1].loop
        BY <1>11, <1>8, <2>9, <2>10, <3>1
      <4> QED BY <2>9, <2>11, <4>1
    <3> QED BY <3>1
  <2>13. q = m + 1
    <3>1. CASE q > m + 1
      <4>1. lo + 1 < i + 1
        <5>1. def.steps[lo + 1].loop = def.loops[m + 1].id /\ def.steps[i + 1].loop = def.loops[q].id
          BY <2>1, <2>4, <2>9
        <5>2. m + 1 < q
          BY <3>1
        <5> QED BY ONLY <1>1, <1>2, <1>4, <2>3, <2>5, <2>9, <5>1, <5>2, q \in 1..M DEF LoopsFollow
      <4> QED BY <2>12, <4>1
    <3> QED BY <2>2, <3>1
  <2>14. lo = i
    <3>1. lo < i + 1
      BY <1>4, <2>1, <2>4, <2>8, <2>13
    <3> QED BY <2>12, <3>1
  <2>15. IsFirst(def, i + 1)
    <3> SUFFICES ASSUME NEW j \in 1..i PROVE def.steps[j].loop # def.steps[i + 1].loop
      BY DEF IsFirst
    <3>1. j \in 1..N /\ ~(lo < j)
      BY <1>4, <2>14
    <3> QED BY <2>1, <2>4, <2>8, <2>13, <3>1
  <2>16. PICK e : e = LoopNode(def, l)
    OBVIOUS
  <2>17. GroupNodes(def, i + 1) = <<e>>
    BY <1>8, <2>1, <2>4, <2>13, <2>15, <2>16 DEF GroupNodes
  <2>18. AddChildren(d, <<e>>) = AddChild(d, e)
    BY KidsOne
  <2>19. AddChild(d, e) = AddLoop(d, e)
    <3>1. e.tag = "loop"
      BY <2>16 DEF LoopNode, Element
    <3> QED BY <3>1 DEF AddChild
  <2>20. AddLoop(d, e) = Part(def, n, i + k, m + 1)
    <3>1. m + 1 <= Len(def.loops) /\ StandsAt(def, def.loops[m + 1], i) /\ m \in Nat
      BY <1>2, <1>3, <2>3, <2>4, <2>6, <2>14
    <3>2. AddLoop(Part(def, n, i, m), LoopNode(def, def.loops[m + 1]))
            = Part(def, n, i + Len(def.loops[m + 1].steps), m + 1)
      BY ONLY Ordered(def), Spaced(def), i \in Nat, <3>1, NextLoopBack
    <3> QED BY <1>5, <1>8, <2>4, <2>7, <2>16, <3>2
  <2>21. GoneTo(def, i + 1, i + k, m + 1)
    <3>1. i + k \in Nat /\ m + 1 \in Nat /\ i + 1 <= i + k /\ i + k <= N /\ m + 1 <= M
      BY <2>3, <2>8, <2>14
    <3>2. ASSUME NEW j \in 1..N, i + 1 < j, j <= i + k
          PROVE  def.steps[j].loop # "" /\ ~IsFirst(def, j)
      <4>1. def.steps[j].loop = l.id /\ def.steps[i + 1].loop = l.id
        BY <1>4, <2>8, <2>14, <3>1, <3>2
      <4>2. i + 1 \in 1..(j - 1)
        BY <3>2
      <4> QED BY <2>10, <4>1, <4>2 DEF IsFirst
    <3>3. ASSUME NEW j \in 1..N, j <= i + k, def.steps[j].loop # ""
          PROVE  \E c \in 1..(m + 1) : def.loops[c].id = def.steps[j].loop
      <4>1. CASE j <= i
        <5>1. PICK c \in 1..m : def.loops[c].id = def.steps[j].loop
          BY <1>11, <1>8, <3>3, <4>1
        <5>2. c \in 1..(m + 1)
          BY <1>3
        <5> QED BY <5>1, <5>2
      <4>2. CASE ~(j <= i)
        <5>1. def.steps[j].loop = l.id
          <6>0. j <= i + k
            BY <3>3, Zenon
          <6>1. lo < j /\ j <= lo + k
            BY ONLY <2>14, <6>0, <4>2, lo \in Nat, i \in Nat, j \in 1..N, N \in Nat
          <6> QED BY <2>8, <6>1, Zenon
        <5>2. m + 1 \in 1..(m + 1)
          BY <1>3
        <5> QED BY <2>4, <5>1, <5>2
      <4> QED BY <4>1, <4>2
    <3>4. ASSUME NEW j \in 1..N, NEW c \in 1..(m + 1), i + k < j
          PROVE  def.steps[j].loop # def.loops[c].id
      <4>1. CASE c = m + 1
        BY <2>4, <2>8, <2>14, <3>4, <4>1
      <4>2. CASE c # m + 1
        <5>1. c \in 1..m /\ h < j
          <6>1. h = i
            BY <1>8
          <6> QED BY ONLY <6>1, <2>7, <3>4, <4>2, c \in 1..(m + 1), m \in Nat, i \in Nat, N \in Nat, j \in 1..N, k \in Nat
        <5> QED BY <1>12, <5>1, Zenon
      <4> QED BY <4>1, <4>2
    <3>5. Within(def, i + 1, i + k)
      BY <1>1, <3>2 DEF Within
    <3>6. Behind(def, i + k, m + 1)
      BY <1>1, <3>3 DEF Behind
    <3>7. Ahead(def, i + k, m + 1)
      BY <1>1, <3>4 DEF Ahead
    <3> QED BY ONLY <1>1, <1>2, <3>1, <3>5, <3>6, <3>7 DEF GoneTo
  <2>22. AddChildren(d, GroupNodes(def, i + 1)) = Part(def, n, i + k, m + 1)
    BY <2>17, <2>18, <2>19, <2>20
  <2>23. i + k \in Nat /\ m + 1 \in Nat
    OBVIOUS
  <2> QED BY <1>5, <2>21, <2>22, <2>23, Zenon
<1>9. i + 1 <= h \/ h = i
  BY <1>3
<1> QED BY <1>6, <1>7, <1>8, <1>9

\* A sequence of elements, without texts.
Elements(s) == IsSequence(s) /\ \A i \in 1..Len(s) : s[i].tag # TextTag

\* So are two of them, one after the other.
LEMMA ElementsThen ==
    ASSUME NEW s, Elements(s), NEW t, Elements(t)
    PROVE  Elements(s \o t)
<1>1. IsSequence(s) /\ IsSequence(t)
  BY DEF Elements
<1>2. PICK u : u = s \o t
  OBVIOUS
<1>3. /\ IsSequence(u)
      /\ \A i \in 1..Len(s) : u[i] = s[i]
      /\ \A j \in 1..Len(t) : u[Len(s) + j] = t[j]
      /\ \A i \in 1..Len(u) : i \in 1..Len(s) \/ \E j \in 1..Len(t) : i = Len(s) + j
  BY <1>1, <1>2, ConcatIs
<1>4. ASSUME NEW i \in 1..Len(u) PROVE u[i].tag # TextTag
  <2>1. CASE i \in 1..Len(s)
    BY <1>3, <2>1 DEF Elements
  <2>2. CASE \E j \in 1..Len(t) : i = Len(s) + j
    <3>1. PICK j \in 1..Len(t) : i = Len(s) + j
      BY <2>2
    <3>2. u[i] = t[j]
      BY <1>3, <3>1
    <3> QED BY <3>2 DEF Elements
  <2> QED BY <1>3, <2>1, <2>2
<1> QED BY <1>2, <1>3, <1>4 DEF Elements

\* The shortest of them.
LEMMA ElementsShort ==
    ASSUME NEW e, e.tag # TextTag
    PROVE  Elements(<<>>) /\ Elements(<<e>>)
<1>1. PICK none : none = <<>>
  OBVIOUS
<1>2. PICK one : one = <<e>>
  OBVIOUS
<1>3. IsSequence(none) /\ Len(none) = 0 /\ IsSequence(one) /\ Len(one) = 1 /\ one[1] = e
  BY <1>1, <1>2, Tuples
<1>4. Elements(none)
  BY <1>3 DEF Elements
<1>5. Elements(one)
  BY <1>3 DEF Elements
<1> QED BY <1>1, <1>2, <1>4, <1>5

\* What stands at a step are elements.
LEMMA GroupElements ==
    ASSUME NEW def, NEW i
    PROVE  Elements(GroupNodes(def, i))
<1>1. PICK e : e = StepNode(def.steps[i])
  OBVIOUS
<1>2. PICK l : l = LoopNode(def, LoopNamed(def, def.steps[i].loop))
  OBVIOUS
<1>3. e.tag # TextTag /\ l.tag # TextTag
  BY <1>1, <1>2 DEF StepNode, LoopNode, Element, TextTag
<1>4. Elements(<<>>) /\ Elements(<<e>>) /\ Elements(<<l>>)
  BY <1>3, ElementsShort
<1> QED BY <1>1, <1>2, <1>4 DEF GroupNodes

\* The groups after step i are read: so far go the steps and the loops.
Reached(def, n, i, nodes) ==
    /\ Elements(nodes)
    /\ \E h, m \in Nat : /\ GoneTo(def, i, h, m)
                         /\ AddChildren(Part(def, n, 0, 0), nodes) = Part(def, n, h, m)

\* At first, none.
LEMMA ReachedNone ==
    ASSUME NEW def, Ordered(def), NEW n
    PROVE  Reached(def, n, 0, <<>>)
<1>1. PICK N \in Nat : N = Len(def.steps)
  BY SequenceIs DEF Ordered, StepsDiffer
<1>2. PICK M \in Nat : M = Len(def.loops)
  BY SequenceIs DEF Ordered
<1>3. Within(def, 0, 0)
  <2> SUFFICES ASSUME NEW j \in 1..N, 0 < j, j <= 0 PROVE FALSE
    BY <1>1 DEF Within
  <2> QED OBVIOUS
<1>4. Behind(def, 0, 0)
  <2> SUFFICES ASSUME NEW j \in 1..N, j <= 0 PROVE FALSE
    BY <1>1 DEF Behind
  <2> QED OBVIOUS
<1>5. Ahead(def, 0, 0)
  <2> SUFFICES ASSUME NEW j \in 1..N, NEW k \in 1..0 PROVE FALSE
    BY <1>1 DEF Ahead
  <2> QED OBVIOUS
<1>6. GoneTo(def, 0, 0, 0)
  BY <1>1, <1>2, <1>3, <1>4, <1>5 DEF GoneTo
<1>7. PICK d : d = Part(def, n, 0, 0)
  OBVIOUS
<1>8. AddChildren(d, <<>>) = d
  BY KidsNone
<1>9. Elements(<<>>)
  BY NoSequence DEF Elements
<1>10. 0 \in Nat
  OBVIOUS
<1>11. AddChildren(Part(def, n, 0, 0), <<>>) = Part(def, n, 0, 0)
  BY <1>7, <1>8
<1> QED BY <1>6, <1>9, <1>10, <1>11, Zenon DEF Reached

\* One group more.
LEMMA ReachedMore ==
    ASSUME NEW def, Ordered(def), Spaced(def), NEW n, NEW i \in Nat, i + 1 <= Len(def.steps),
           NEW nodes, Reached(def, n, i, nodes)
    PROVE  Reached(def, n, i + 1, nodes \o GroupNodes(def, i + 1))
<1>1. PICK more : more = GroupNodes(def, i + 1)
  OBVIOUS
<1>2. Elements(more)
  BY <1>1, GroupElements
<1>3. Elements(nodes)
  BY DEF Reached
<1>4. PICK h \in Nat, m \in Nat : /\ GoneTo(def, i, h, m)
                                  /\ AddChildren(Part(def, n, 0, 0), nodes) = Part(def, n, h, m)
  BY DEF Reached
<1>5. PICK g \in Nat, l \in Nat : /\ GoneTo(def, i + 1, g, l)
                                  /\ AddChildren(Part(def, n, h, m), GroupNodes(def, i + 1)) = Part(def, n, g, l)
  BY <1>4, OneGroupBack
<1>6. PICK d : d = Part(def, n, 0, 0)
  OBVIOUS
<1>7. AddChildren(d, nodes \o more) = AddChildren(AddChildren(d, nodes), more)
  BY <1>2, <1>3, KidsThen DEF Elements
<1>8. AddChildren(Part(def, n, 0, 0), nodes \o more) = Part(def, n, g, l)
  BY <1>1, <1>4, <1>5, <1>6, <1>7
<1>9. Elements(nodes \o more)
  BY <1>2, <1>3, ElementsThen
<1>10. Reached(def, n, i + 1, nodes \o more)
  BY <1>5, <1>8, <1>9, Zenon DEF Reached
<1> QED BY <1>1, <1>10

\* The steps and the loops are read back.
LEMMA GroupsBack ==
    ASSUME NEW def, Ordered(def), Spaced(def), NEW n
    PROVE  /\ Elements(Joined(Grouped(def)))
           /\ AddChildren(Part(def, n, 0, 0), Joined(Grouped(def)))
                = Part(def, n, Len(def.steps), Len(def.loops))
<1>1. PICK N \in Nat : N = Len(def.steps)
  BY SequenceIs DEF Ordered, StepsDiffer
<1>2. PICK M \in Nat : M = Len(def.loops)
  BY SequenceIs DEF Ordered
<1>3. PICK a : a = Grouped(def)
  OBVIOUS
<1>4. Len(a) = N /\ \A i \in 1..N : a[i] = GroupNodes(def, i)
  <2>1. a = [i \in 1..N |-> a[i]] /\ \A i \in 1..N : a[i] = GroupNodes(def, i)
    BY <1>1, <1>3 DEF Grouped
  <2> QED BY <2>1, Mapped
<1>5. PICK f : /\ f[0] = <<>> /\ Joined(a) = f[N]
               /\ \A i \in 1..N : f[i] = f[i - 1] \o a[i]
  <2>1. Len(a) \in Nat
    BY <1>4
  <2>2. \E f : /\ f[0] = <<>> /\ Joined(a) = f[Len(a)]
               /\ \A i \in 1..Len(a) : f[i] = f[i - 1] \o a[i]
    BY ONLY <2>1, JoinedPass
  <2> QED BY <1>4, <2>2, Zenon
<1>6. PICK S : S = {i \in 0..N : Reached(def, n, i, f[i])}
  OBVIOUS
<1>7. 0 \in S
  <2>1. Reached(def, n, 0, f[0])
    BY <1>5, ReachedNone
  <2>2. 0 \in 0..N
    OBVIOUS
  <2> QED BY <1>6, <2>1, <2>2, Zenon
<1>8. ASSUME NEW i \in 1..N, i - 1 \in S PROVE i \in S
  <2>1. PICK j \in Nat : j = i - 1
    OBVIOUS
  <2>2. j + 1 = i /\ j + 1 <= Len(def.steps) /\ i \in 0..N
    BY <1>1, <2>1
  <2>3. PICK nodes : nodes = f[j]
    OBVIOUS
  <2>4. Reached(def, n, j, nodes)
    BY <1>6, <1>8, <2>1, <2>3
  <2>5. Reached(def, n, j + 1, nodes \o GroupNodes(def, j + 1))
    BY ONLY Ordered(def), Spaced(def), j \in Nat, <2>2, <2>4, ReachedMore
  <2>6. f[i] = nodes \o GroupNodes(def, i)
    BY <1>4, <1>5, <2>1, <2>3
  <2>7. Reached(def, n, i, f[i])
    BY <2>2, <2>5, <2>6
  <2> QED BY <1>6, <2>2, <2>7, Zenon
<1>9. N \in S
  BY ONLY <1>7, <1>8, Onward, N \in Nat
<1>10. Reached(def, n, N, Joined(a))
  BY <1>5, <1>6, <1>9, Zenon
<1>11. PICK h \in Nat, m \in Nat : /\ GoneTo(def, N, h, m)
                                   /\ AddChildren(Part(def, n, 0, 0), Joined(a)) = Part(def, n, h, m)
  BY <1>10 DEF Reached
<1>12. N <= h /\ h <= N /\ m <= M /\ Behind(def, h, m)
  BY <1>1, <1>2, <1>11 DEF GoneTo
<1>13. h = N
  BY ONLY <1>12, h \in Nat, N \in Nat
<1>14. m = M
  <2>0. m <= M
    BY <1>12
  <2> SUFFICES ASSUME m + 1 <= M PROVE FALSE
    BY <2>0
  <2>1. m + 1 \in 1..M
    OBVIOUS
  <2>2. PICK l : l = def.loops[m + 1]
    OBVIOUS
  <2>3. LoopIs(def, l) /\ LoopsDiffer(def.loops)
    BY <1>2, <2>1, <2>2 DEF Ordered
  <2>4. PICK lo \in Nat : StandsAt(def, l, lo)
    BY <2>3 DEF LoopIs
  <2>5. PICK k \in Nat : k = Len(l.steps)
    BY <2>4, SequenceIs DEF StandsAt
  <2>6. /\ k >= 1 /\ lo + k <= N
        /\ \A j \in 1..N : def.steps[j].loop = l.id <=> lo < j /\ j <= lo + k
    BY <1>1, <2>4, <2>5 DEF StandsAt
  <2>7. lo + 1 \in 1..N /\ def.steps[lo + 1].loop = l.id
    BY <2>6
  <2>8. l.id # ""
    BY <2>3, NamesAssumption DEF LoopIs
  <2>9. \A j \in 1..N : j <= h /\ def.steps[j].loop # "" => \E c \in 1..m : def.loops[c].id = def.steps[j].loop
    BY <1>1, <1>12 DEF Behind
  <2>10. lo + 1 <= h
    BY ONLY <1>13, <2>7, lo \in Nat, N \in Nat
  <2>11. PICK c \in 1..m : def.loops[c].id = l.id
    BY <2>7, <2>8, <2>9, <2>10, Zenon
  <2>12. c \in 1..M /\ c # m + 1
    BY ONLY <2>1, m \in Nat, M \in Nat, c \in 1..m
  <2> QED BY <1>2, <2>1, <2>2, <2>3, <2>11, <2>12 DEF LoopsDiffer
<1> QED BY <1>1, <1>2, <1>3, <1>10, <1>11, <1>13, <1>14 DEF Reached

\* The attributes of an input.
LEMMA InputAttrsAre ==
    ASSUME NEW x, InputIs(x), NEW e, e.attrs = InputAttrs(x)
    PROVE  Attr(e, "name") = x.name /\ (Attr(e, "optional") = "true") = x.optional
<1>1. x.optional \in BOOLEAN
  BY DEF InputIs
<1>2. PICK base : base = [name |-> x.name]
  OBVIOUS
<1>3. PICK more : more = IF x.optional THEN [optional |-> "true"] ELSE <<>>
  OBVIOUS
<1>4. PICK attrs : attrs = e.attrs
  OBVIOUS
<1>5. attrs = [a \in DOMAIN base \cup DOMAIN more |-> IF a \in DOMAIN base THEN base[a] ELSE more[a]]
  BY <1>2, <1>3, <1>4 DEF InputAttrs, Joint
<1>6. DOMAIN base = {"name"} /\ base["name"] = x.name
  BY <1>2
<1>7. "name" \in DOMAIN attrs /\ attrs["name"] = x.name
  BY <1>5, <1>6
<1>8. CASE x.optional
  <2>1. DOMAIN more = {"optional"} /\ more["optional"] = "true"
    BY <1>3, <1>8
  <2>2. "optional" \in DOMAIN attrs /\ attrs["optional"] = "true"
    BY <1>5, <1>6, <2>1
  <2>3. Attr(e, "optional") = "true" /\ Attr(e, "name") = x.name
    BY <1>4, <1>7, <2>2 DEF Attr
  <2> QED BY <1>1, <1>8, <2>3
<1>9. CASE ~x.optional
  <2>1. "optional" \notin DOMAIN more
    <3>1. more = <<>>
      BY <1>3, <1>9
    <3> QED BY <3>1
  <2>2. "optional" \notin DOMAIN attrs
    BY <1>5, <1>6, <2>1
  <2>3. Attr(e, "optional") = "" /\ Attr(e, "name") = x.name
    BY <1>4, <1>7, <2>2 DEF Attr
  <2> QED BY <1>1, <1>9, <2>3
<1> QED BY <1>1, <1>8, <1>9

\* The next input is read.
LEMMA NextInputBack ==
    ASSUME NEW def, InputsDiffer(def.inputs), NEW n \in Nat, n + 1 <= Len(def.inputs),
           NEW e, e = Element("input", InputAttrs(def.inputs[n + 1]), <<>>)
    PROVE  AddChild(Part(def, n, 0, 0), e) = Part(def, n + 1, 0, 0)
<1>1. PICK x : x = def.inputs[n + 1]
  OBVIOUS
<1>2. PICK N \in Nat : N = Len(def.inputs)
  BY SequenceIs DEF InputsDiffer
<1>3. n + 1 \in 1..N
  BY <1>2
<1>4. InputIs(x) /\ x = [name |-> x.name, optional |-> x.optional] /\ x.name \in Names
  BY <1>1, <1>2, <1>3 DEF InputsDiffer, InputIs
<1>5. e.tag = "input" /\ e.attrs = InputAttrs(x)
  BY <1>1 DEF Element
<1>6. Attr(e, "name") = x.name /\ (Attr(e, "optional") = "true") = x.optional
  BY <1>4, <1>5, InputAttrsAre
<1>7. PICK d : d = Part(def, n, 0, 0)
  OBVIOUS
<1>8. PICK front : front = First(def.inputs, n)
  OBVIOUS
<1>9. IsSequence(def.inputs)
  BY DEF InputsDiffer
<1>10. DOMAIN front = 1..n /\ \A i \in 1..n : front[i] = def.inputs[i]
  BY <1>8, <1>9, FirstIs
<1>11. \A i \in DOMAIN front : front[i].name # x.name
  <2> SUFFICES ASSUME NEW i \in 1..n, front[i].name = x.name PROVE FALSE
    BY <1>10
  <2>1. i \in 1..N /\ i # n + 1
    BY <1>3
  <2>2. def.inputs[i].name = def.inputs[n + 1].name
    BY <1>1, <1>10
  <2> QED BY <1>2, <1>3, <2>1, <2>2 DEF InputsDiffer
<1>12. PICK more : more = Append(front, [name |-> x.name, optional |-> x.optional])
  OBVIOUS
<1>13. more = First(def.inputs, n + 1)
  BY <1>1, <1>4, <1>8, <1>9, <1>12, FirstMore
<1>14. PICK r : r = AddInput(d, e)
  OBVIOUS
<1>15. d.inputs = front /\ d.fits = TRUE
  BY <1>7, <1>8 DEF Part
<1>16. r = [d EXCEPT !.fits = TRUE, !.inputs = more]
  <2>1. x.optional \in BOOLEAN
    BY <1>4 DEF InputIs
  <2>2. PICK o : o = (Attr(e, "optional") = "true")
    OBVIOUS
  <2>3. o = x.optional
    BY <1>6, <2>2, Zenon
  <2>4. r = [d EXCEPT !.fits = @ /\ Attr(e, "name") \in Names
                                 /\ \A i \in DOMAIN d.inputs : d.inputs[i].name # Attr(e, "name"),
                      !.inputs = Append(@, [name |-> Attr(e, "name"), optional |-> o])]
    BY <1>14, <2>2, Zenon DEF AddInput
  <2>5. PICK b \in BOOLEAN : b = (d.fits /\ Attr(e, "name") \in Names
                                 /\ \A i \in DOMAIN d.inputs : d.inputs[i].name # Attr(e, "name"))
    BY Zenon
  <2>6. b = TRUE
    BY <1>4, <1>6, <1>11, <1>15, <2>5
  <2>7. r = [d EXCEPT !.fits = b, !.inputs = Append(@, [name |-> x.name, optional |-> x.optional])]
    BY <1>6, <2>3, <2>4, <2>5, Zenon
  <2> QED BY <1>12, <1>15, <2>6, <2>7
<1>17. r = Part(def, n + 1, 0, 0)
  BY <1>7, <1>13, <1>16 DEF Part
<1>18. AddChild(d, e) = r
  BY <1>5, <1>14 DEF AddChild
<1> QED BY <1>7, <1>17, <1>18

\* The inputs are read back.
LEMMA InputsBack ==
    ASSUME NEW def, InputsDiffer(def.inputs)
    PROVE  /\ Elements(InputNodes(def))
           /\ AddChildren(Part(def, 0, 0, 0), InputNodes(def)) = Part(def, Len(def.inputs), 0, 0)
<1>1. PICK N : N = Len(def.inputs) /\ N \in Nat
  BY SequenceIs DEF InputsDiffer
<1>2. PICK a : a = InputNodes(def)
  OBVIOUS
<1>3. /\ IsSequence(a) /\ Len(a) = N
      /\ \A i \in 1..N : a[i] = Element("input", InputAttrs(def.inputs[i]), <<>>)
  <2>1. a = [i \in 1..N |-> a[i]]
        /\ \A i \in 1..N : a[i] = Element("input", InputAttrs(def.inputs[i]), <<>>)
    BY <1>1, <1>2 DEF InputNodes
  <2> QED BY <1>1, <2>1, Mapped
<1>4. Elements(a)
  BY <1>3 DEF Elements, Element, TextTag
<1>5. PICK d : d = Part(def, 0, 0, 0)
  OBVIOUS
<1>6. PICK f : /\ f[0] = d /\ AddChildren(d, a) = f[N]
               /\ \A i \in 1..N : f[i] = AddChild(f[i - 1], a[i])
  <2>1. Len(a) \in Nat
    BY <1>1, <1>3
  <2>2. \E f : /\ f[0] = d /\ AddChildren(d, a) = f[Len(a)]
               /\ \A i \in 1..Len(a) : f[i] = AddChild(f[i - 1], a[i])
    BY ONLY <2>1, ChildrenPass
  <2> QED BY <1>3, <2>2, Zenon
<1>7. PICK S : S = {i \in 0..N : f[i] = Part(def, i, 0, 0)}
  OBVIOUS
<1>8. 0 \in S
  BY <1>1, <1>5, <1>6, <1>7
<1>9. ASSUME NEW i \in 1..N, i - 1 \in S PROVE i \in S
  <2>1. PICK j \in Nat : j = i - 1
    BY <1>1
  <2>2. j + 1 = i /\ j + 1 <= Len(def.inputs) /\ i \in 0..N
    BY <1>1, <2>1
  <2>3. PICK e : e = a[i]
    OBVIOUS
  <2>4. e = Element("input", InputAttrs(def.inputs[j + 1]), <<>>)
    BY <1>3, <2>2, <2>3
  <2>5. AddChild(Part(def, j, 0, 0), e) = Part(def, j + 1, 0, 0)
    BY ONLY InputsDiffer(def.inputs), j \in Nat, <2>2, <2>4, NextInputBack
  <2>6. f[i] = AddChild(f[j], e) /\ f[j] = Part(def, j, 0, 0)
    BY <1>6, <1>7, <1>9, <2>1, <2>3
  <2>7. f[i] = Part(def, i, 0, 0)
    BY <2>2, <2>5, <2>6
  <2> QED BY <1>7, <2>2, <2>7, Zenon
<1>10. N \in S
  BY ONLY <1>8, <1>9, Onward, <1>1
<1>11. f[N] = Part(def, N, 0, 0)
  BY <1>7, <1>10, Zenon
<1> QED BY <1>1, <1>2, <1>4, <1>5, <1>6, <1>11

\* The definition that the parser starts from.
Blank(def) ==
    [fits |-> TRUE, id |-> def.id, version |-> def.version, described |-> FALSE, description |-> <<>>,
     inputs |-> <<>>, steps |-> <<>>, loops |-> <<>>]

\* The description is read back.
LEMMA DescriptionBack ==
    ASSUME NEW def, HeadIs(def), Ordered(def)
    PROVE  /\ Elements(DescriptionNodes(def))
           /\ AddChildren(Blank(def), DescriptionNodes(def)) = Part(def, 0, 0, 0)
<1>1. First(def.inputs, 0) = <<>> /\ First(def.steps, 0) = <<>> /\ First(def.loops, 0) = <<>>
  <2>1. IsSequence(def.inputs)
    BY DEF HeadIs, InputsDiffer
  <2>2. IsSequence(def.steps)
    BY DEF Ordered, StepsDiffer
  <2>3. IsSequence(def.loops)
    BY DEF Ordered
  <2> QED BY <2>1, <2>2, <2>3, FirstEnds
<1>2. def.described \in BOOLEAN /\ IsSequence(def.description)
  BY DEF HeadIs, Plain
<1>3. PICK d : d = Blank(def)
  OBVIOUS
<1>4. CASE def.described
  <2>1. PICK words : words = def.description
    OBVIOUS
  <2>2. PICK found : found = TextIn("description", words)
    OBVIOUS
  <2>3. PICK e : e = Element("description", <<>>, <<TextNode(words)>>)
    OBVIOUS
  <2>4. found = <<e>>
    BY <2>2, <2>3 DEF TextIn
  <2>5. HasTextOnly(found[1]) /\ TextOf(found[1]) = words
    <3>1. PICK tag : tag = "description"
      OBVIOUS
    <3>2. IsSequence(words) /\ found = TextIn(tag, words)
      BY <1>2, <2>1, <2>2, <3>1
    <3> QED BY ONLY <3>2, TextInIs
  <2>6. HasTextOnly(e) /\ TextOf(e) = words
    BY <2>4, <2>5
  <2>7. e.tag = "description" /\ e.tag # TextTag
    BY <2>3 DEF Element, TextTag
  <2>8. Elements(found)
    BY <2>4, <2>7, ElementsShort
  <2>9. AddChildren(d, found) = AddChild(d, e)
    BY <2>4, KidsOne
  <2>10. PICK r : r = AddChild(d, e)
    OBVIOUS
  <2>11. r = Part(def, 0, 0, 0)
    <3>1. d.described = FALSE /\ d.fits = TRUE
      BY <1>3 DEF Blank
    <3>2. r = [d EXCEPT !.described = TRUE, !.description = TextOf(e), !.fits = @ /\ HasTextOnly(e)]
      BY <2>7, <2>10, <3>1 DEF AddChild
    <3>3. PICK b \in BOOLEAN : b = (d.fits /\ HasTextOnly(e))
      BY Zenon
    <3>4. b = TRUE
      BY <2>6, <3>1, <3>3
    <3>5. r = [d EXCEPT !.described = TRUE, !.description = words, !.fits = b]
      BY <2>6, <3>2, <3>3, Zenon
    <3> QED BY <1>1, <1>2, <1>3, <1>4, <2>1, <3>4, <3>5 DEF Part, Blank
  <2>12. DescriptionNodes(def) = found
    BY <1>4, <2>1, <2>2 DEF DescriptionNodes
  <2> QED BY <1>3, <2>8, <2>9, <2>10, <2>11, <2>12
<1>5. CASE ~def.described
  <2>1. DescriptionNodes(def) = <<>>
    BY <1>5 DEF DescriptionNodes
  <2>2. def.description = <<>> /\ def.described = FALSE
    BY <1>2, <1>5 DEF HeadIs
  <2>3. AddChildren(d, <<>>) = d
    BY KidsNone
  <2>4. d = Part(def, 0, 0, 0)
    BY <1>1, <1>3, <2>2 DEF Part, Blank
  <2>5. Elements(<<>>)
    BY NoSequence DEF Elements
  <2> QED BY <1>3, <2>1, <2>3, <2>4, <2>5
<1> QED BY <1>2, <1>4, <1>5

\* Writing a definition that the parser accepts and reading it back changes nothing.
LEMMA ParseBack ==
    ASSUME NEW def, Accepted(def), Spaced(def)
    PROVE  Parse(Serialize(def)) = def
<1>1. Shape(def) /\ def.fits /\ HeadIs(def) /\ Ordered(def) /\ def.steps # <<>> /\ TargetsKnown(def)
  BY DEF Accepted
<1>2. Plain(def.description) /\ InputsDiffer(def.inputs) /\ def.id \in Names
  BY <1>1 DEF HeadIs
<1>3. IsSequence(def.inputs) /\ IsSequence(def.steps) /\ IsSequence(def.loops)
  <2>1. IsSequence(def.inputs)
    BY <1>2 DEF InputsDiffer
  <2>2. IsSequence(def.steps)
    BY <1>1 DEF Ordered, StepsDiffer
  <2>3. IsSequence(def.loops)
    BY <1>1 DEF Ordered
  <2> QED BY <2>1, <2>2, <2>3
<1>4. PICK xml : xml = Serialize(def)
  OBVIOUS
<1>5. PICK root : root = RootNode(def)
  OBVIOUS
<1>6. WellFormed(xml) /\ Root(xml) = root
  BY <1>1, <1>2, <1>3, <1>4, <1>5, SerializeReads
<1>7. PICK all : all = BodyNodes(def)
  OBVIOUS
<1>8. PICK texts : texts = DescriptionNodes(def)
  OBVIOUS
<1>9. PICK inputs : inputs = InputNodes(def)
  OBVIOUS
<1>10. PICK groups : groups = Joined(Grouped(def))
  OBVIOUS
<1>11. all = (texts \o inputs) \o groups
  BY <1>7, <1>8, <1>9, <1>10 DEF BodyNodes
<1>12. Elements(texts) /\ AddChildren(Blank(def), texts) = Part(def, 0, 0, 0)
  BY <1>1, <1>8, DescriptionBack
<1>13. Elements(inputs) /\ AddChildren(Part(def, 0, 0, 0), inputs) = Part(def, Len(def.inputs), 0, 0)
  BY <1>2, <1>9, InputsBack
<1>14. PICK n : n = Len(def.inputs)
  OBVIOUS
<1>15. Elements(groups) /\ AddChildren(Part(def, n, 0, 0), groups) = Part(def, n, Len(def.steps), Len(def.loops))
  BY ONLY <1>1, <1>10, Spaced(def), GroupsBack
<1>16. Elements(texts \o inputs)
  BY <1>12, <1>13, ElementsThen
<1>17. Elements(all)
  BY <1>11, <1>15, <1>16, ElementsThen
<1>18. PICK blank : blank = Blank(def)
  OBVIOUS
<1>19. AddChildren(blank, all) = def
  <2>1. PICK front : front = texts \o inputs
    OBVIOUS
  <2>2. IsSequence(front) /\ IsSequence(groups) /\ IsSequence(texts) /\ IsSequence(inputs)
    BY <1>12, <1>13, <1>15, <1>16, <2>1 DEF Elements
  <2>3. AddChildren(blank, front \o groups) = AddChildren(AddChildren(blank, front), groups)
    BY ONLY <2>2, KidsThen
  <2>4. AddChildren(blank, texts \o inputs) = AddChildren(AddChildren(blank, texts), inputs)
    BY ONLY <2>2, KidsThen
  <2>5. AddChildren(blank, all) = Part(def, n, Len(def.steps), Len(def.loops))
    BY <1>11, <1>12, <1>13, <1>14, <1>15, <1>18, <2>1, <2>3, <2>4, Zenon
  <2>6. Part(def, n, Len(def.steps), Len(def.loops)) = def
    <3>1. First(def.inputs, n) = def.inputs
      BY <1>3, <1>14, FirstEnds
    <3>2. First(def.steps, Len(def.steps)) = def.steps
      BY <1>3, FirstEnds
    <3>3. First(def.loops, Len(def.loops)) = def.loops
      BY <1>3, FirstEnds
    <3>4. def.fits = TRUE
      BY <1>1 DEF Shape
    <3> QED BY <1>1, <3>1, <3>2, <3>3, <3>4 DEF Part, Shape
  <2> QED BY <2>5, <2>6
<1>20. root.tag = "workflow" /\ root.attrs = [id |-> def.id, version |-> def.version] /\ root.kids = all
  BY <1>5, <1>7 DEF RootNode, Element
<1>21. Children(root) = all
  BY <1>17, <1>20, AllElements DEF Elements
<1>22. Attr(root, "id") = def.id /\ AttrOr(root, "version", "1") = def.version
  BY <1>20 DEF Attr, AttrOr
<1>23. AddChildren([fits |-> TRUE, id |-> Attr(root, "id"), version |-> AttrOr(root, "version", "1"),
                    described |-> FALSE, description |-> <<>>,
                    inputs |-> <<>>, steps |-> <<>>, loops |-> <<>>], Children(root)) = def
  BY <1>18, <1>19, <1>21, <1>22, Zenon DEF Blank
<1>24. Parse(xml) = [def EXCEPT !.described = (def.description # <<>>)]
  BY <1>1, <1>2, <1>6, <1>20, <1>22, <1>23, Zenon DEF Parse
<1>25. def.described = (def.description # <<>>)
  BY DEF Accepted
<1>26. PICK b : b = (def.description # <<>>)
  OBVIOUS
<1>27. [def EXCEPT !.described = b] = def
  <2>1. b = def.described
    BY <1>25, <1>26, Zenon
  <2>2. PICK r : r = [def EXCEPT !.described = b]
    OBVIOUS
  <2>3. r = def
    BY <1>1, <2>1, <2>2 DEF Shape
  <2> QED BY <2>2, <2>3
<1> QED BY <1>4, <1>24, <1>26, <1>27, Zenon

-----------------------------------------------------------------------------
(***************************************************************************)
(* The definitions of the library.                                         *)
(***************************************************************************)

\* Each workflow.xml is a document.
Documents == DOMAIN file = Workflows /\ \A w \in Workflows : IsDocument(file[w])

\* An empty one is.
LEMMA NoDocument == IsDocument(<<>>)
<1>1. IsSequence(<<>>) /\ Len(<<>>) = 0
  BY NoSequence
<1> QED BY <1>1 DEF IsDocument

\* At first there is none.
LEMMA DocumentsInit == Init => Documents
  BY NoDocument DEF Init, Documents, NoFile

\* A document is written.
LEMMA SavesDocument ==
    ASSUME Documents, NEW by, NEW w \in Workflows, NEW content, IsDocument(content), Saves(by, w, content)
    PROVE  Documents'
<1>1. file' = [file EXCEPT ![w] = content]
  BY DEF Saves
<1> QED BY <1>1 DEF Documents

\* A document comes under a name.
LEMMA CreateDocument ==
    ASSUME Documents, NEW p, NEW w \in Workflows, NEW content, IsDocument(content), CreateWorkflow(p, w, content)
    PROVE  Documents'
<1>1. PICK renamed : renamed = Rename(content, w)
  OBVIOUS
<1>2. IsSequence(content) /\ \A i \in 1..Len(content) : Legible(content[i])
  BY DEF IsDocument
<1>3. IsSequence(renamed) /\ Len(renamed) = Len(content)
  <2>1. renamed = [i \in DOMAIN content |-> renamed[i]]
    BY <1>1 DEF Rename
  <2> QED BY <1>2, <2>1, MappedOver
<1>4. ASSUME NEW i \in 1..Len(renamed) PROVE Legible(renamed[i])
  <2>1. i \in DOMAIN content /\ Legible(content[i])
    BY <1>2, <1>3, SequenceIs
  <2>2. PICK t : t = Start("workflow", [content[i].attrs EXCEPT !["id"] = w])
    OBVIOUS
  <2>3. Legible(t)
    BY <2>2 DEF Legible, Start, TextTag
  <2>4. renamed[i] = t \/ renamed[i] = content[i]
    BY <1>1, <2>1, <2>2 DEF Rename
  <2> QED BY <2>1, <2>3, <2>4
<1>5. IsDocument(renamed)
  BY <1>3, <1>4 DEF IsDocument
<1>6. PICK by : Saves(by, w, renamed)
  BY <1>1 DEF CreateWorkflow
<1> QED BY <1>5, <1>6, SavesDocument

\* A definition with the changes of the metadata form is written as a document.
LEMMA PatchedIs ==
    ASSUME NEW def, Accepted(def), NEW patch \in Patches
    PROVE  IsDocument(Serialize(Patched(def, patch)))
<1>1. PICK r : r = Patched(def, patch)
  OBVIOUS
<1>2. DOMAIN def = {"fits", "id", "version", "described", "description", "inputs", "steps", "loops"}
  BY DEF Accepted, Shape
<1>3. /\ DOMAIN patch \subseteq {"version", "described", "description", "inputs"}
      /\ ("inputs" \in DOMAIN patch => patch.inputs \in Seq(ToSet(patch.inputs)))
      /\ ("description" \in DOMAIN patch => patch.description \in Seq(ToSet(patch.description)))
  BY PatchesAssumption
<1>4. r = [f \in DOMAIN def |-> IF f \in DOMAIN patch THEN patch[f] ELSE def[f]]
  BY <1>1 DEF Patched
<1>5. r.steps = def.steps /\ r.loops = def.loops
  <2>1. "steps" \in DOMAIN def /\ "loops" \in DOMAIN def /\ "steps" \notin DOMAIN patch /\ "loops" \notin DOMAIN patch
    BY <1>2, <1>3
  <2> QED BY <1>4, <2>1
<1>6. IsSequence(r.inputs)
  <2>1. r.inputs = def.inputs \/ ("inputs" \in DOMAIN patch /\ r.inputs = patch.inputs)
    BY <1>2, <1>4
  <2>2. IsSequence(def.inputs)
    BY DEF Accepted, HeadIs, InputsDiffer
  <2> QED BY <1>3, <2>1, <2>2 DEF IsSequence
<1>7. IsSequence(r.description)
  <2>1. r.description = def.description \/ ("description" \in DOMAIN patch /\ r.description = patch.description)
    BY <1>2, <1>4
  <2>2. IsSequence(def.description)
    BY DEF Accepted, HeadIs, Plain
  <2> QED BY <1>3, <2>1, <2>2 DEF IsSequence
<1>8. Ordered(r)
  BY <1>5, SameOrder DEF Accepted
<1> QED BY <1>1, <1>6, <1>7, <1>8, SerializeIs

\* The metadata form writes a definition it has read.
LEMMA PatchDocument ==
    ASSUME Documents, NEW p, NEW w \in Workflows, NEW patch \in Patches, PatchMetadata(p, w, patch)
    PROVE  Documents'
<1>1. PICK def : def = Definition(w)
  OBVIOUS
<1>2. PICK content : content = Serialize(Patched(def, patch))
  OBVIOUS
<1>3. def.fits /\ Saves({p}, w, content)
  BY <1>1, <1>2 DEF PatchMetadata
<1>4. Accepted(def)
  BY <1>1, <1>3, ParseIs DEF Definition, Documents
<1>5. IsDocument(content)
  BY <1>2, <1>4, PatchedIs
<1> QED BY <1>3, <1>5, SavesDocument

\* Every step keeps documents.
LEMMA DocumentsNext ==
    ASSUME Documents, [Next]_vars
    PROVE  Documents'
<1>1. ASSUME NEW w \in Workflows, NEW c \in Offered[w] PROVE IsDocument(c)
  <2>1. IsSequence(c) /\ \A t \in ToSet(c) : Legible(t)
    BY OfferedAssumption DEF IsSequence
  <2>2. ToSet(c) = {c[i] : i \in 1..Len(c)}
    BY <2>1, SequenceIs
  <2> QED BY <2>1, <2>2 DEF IsDocument
<1>2. ASSUME NEW p \in Processes, NEW w \in Workflows, Edit(p, w) PROVE Documents'
  <2>1. ASSUME NEW c \in Offered[w], CreateWorkflow(p, w, c) PROVE Documents'
    BY <1>1, <2>1, CreateDocument
  <2>2. ASSUME NEW c \in Offered[w], UpdateXml(p, w, c) PROVE Documents'
    BY <1>1, <2>2, SavesDocument DEF UpdateXml
  <2>3. ASSUME NEW v \in Workflows, DuplicateWorkflow(p, v, w) PROVE Documents'
    <3>1. IsDocument(file[v]) /\ CreateWorkflow(p, w, file[v])
      BY <2>3 DEF DuplicateWorkflow, Documents
    <3> QED BY <3>1, CreateDocument
  <2>4. ASSUME NEW patch \in Patches, PatchMetadata(p, w, patch) PROVE Documents'
    BY <2>4, PatchDocument
  <2>5. ASSUME NEW cascade \in BOOLEAN, DeleteWorkflow(p, w, cascade) PROVE Documents'
    <3>1. Saves({p}, w, NoFile) /\ IsDocument(NoFile)
      BY <2>5, NoDocument DEF DeleteWorkflow, NoFile
    <3> QED BY <3>1, SavesDocument
  <2> QED BY <1>2, <2>1, <2>2, <2>3, <2>4, <2>5 DEF Edit
<1>3. ASSUME NEW w \in Workflows, NEW c \in Offered[w], EditByHand(w, c) PROVE Documents'
  BY <1>1, <1>3, SavesDocument DEF EditByHand
<1>4. ASSUME UNCHANGED file PROVE Documents'
  BY <1>4 DEF Documents
<1>5. ASSUME NEW p \in Processes, NEW w \in Workflows, NEW r \in Runs, StartRun(p, r, w) PROVE Documents'
  BY <1>4, <1>5 DEF StartRun, Begins
<1>6. ASSUME NEW p \in Processes, NEW r \in Runs, ResumeRun(p, r) \/ RunWrites(p, r) \/ RunEnds(p, r) PROVE Documents'
  BY <1>4, <1>6 DEF ResumeRun, Begins, RunWrites, RunEnds
<1>7. ASSUME NEW p \in Processes, ProcessEnds(p) PROVE Documents'
  BY <1>4, <1>7 DEF ProcessEnds
<1>8. ASSUME UNCHANGED vars PROVE Documents'
  BY <1>4, <1>8 DEF vars
<1> QED BY <1>2, <1>3, <1>5, <1>6, <1>7, <1>8 DEF Next

\* So workflow.xml is a document at all times, or is not there.
LEMMA DocumentsAlways == Spec => []Documents
  BY DocumentsInit, DocumentsNext, PTL DEF Spec

\* A definition of the library is one the parser has accepted.
LEMMA StoredAccepted ==
    ASSUME Documents, NEW def \in Stored
    PROVE  Accepted(def)
  BY ParseIs DEF Documents, Stored, Definition

\* Whoever wrote workflow.xml, the parser only lets a definition pass that can be run: steps
\* with ids of their own, known targets, loops that are bounded, stand together and have the
\* start, the end and the steps that the runner finds (parser.ts for runner.ts).
THEOREM StoredDefinitionsAreSound == Spec => []StoredAreSound
<1>1. Documents => StoredAreSound
  BY StoredAccepted, AcceptedIsSound DEF StoredAreSound
<1> QED BY <1>1, DocumentsAlways, PTL

\* Whatever definition the parser accepts, writing it and reading it back gives the same
\* definition, but for a merge with an empty separator, so that a change of the metadata form
\* leaves every step, loop and text as it is (serializer.ts and xml.ts for parser.ts).
THEOREM SavedDefinitionsKeepTheirMeaning == Spec => []SaveKeepsMeaning
<1>1. ASSUME Documents PROVE SaveKeepsMeaning
  <2> SUFFICES ASSUME NEW def \in Stored, \A s \in ToSet(def.steps) : s.kind = "merge" => s.separator # ""
               PROVE  Parse(Serialize(def)) = def
    BY DEF SaveKeepsMeaning
  <2>1. Accepted(def)
    BY <1>1, StoredAccepted
  <2>2. IsSequence(def.steps)
    BY <2>1 DEF Accepted, Ordered, StepsDiffer
  <2>3. Spaced(def)
    BY <2>2, SequenceIs DEF Spaced
  <2> QED BY <2>1, <2>3, ParseBack
<1> QED BY <1>1, DocumentsAlways, PTL

-----------------------------------------------------------------------------
(***************************************************************************)
(* The graph (graph.ts).                                                   *)
(***************************************************************************)

\* The way from a step to the next in the document has an edge.
LEMMA NextIsDrawn ==
    ASSUME NEW def, Accepted(def), NEW i \in 1..Len(def.steps), def.steps[i].kind \notin OwnFlow,
           NEW t \in Ids(def), t = Model(def)!NextStepInOrder(def.steps[i].id)
    PROVE  \E e \in Graph(def) : e.source = def.steps[i].id /\ e.target = t
<1>1. StepsDiffer(def.steps)
  BY DEF Accepted, Ordered
<1>2. PICK n \in Nat : n = Len(def.steps) /\ DOMAIN def.steps = 1..n
  BY <1>1, SequenceIs DEF StepsDiffer
<1>3. PICK order : order = [j \in DOMAIN def.steps |-> def.steps[j].id]
  OBVIOUS
<1>4. Len(order) = n /\ \A j \in 1..n : order[j] = def.steps[j].id
  <2>1. order = [j \in 1..n |-> order[j]] /\ \A j \in 1..n : order[j] = def.steps[j].id
    BY <1>2, <1>3
  <2> QED BY <2>1, Mapped
<1>5. Model(def)!IndexOf(def.steps[i].id) = i
  BY <1>1, NamedIs
<1>6. t = IF i = n THEN "" ELSE order[i + 1]
  <2>1. PICK s : s = def.steps[i].id
    OBVIOUS
  <2>2. Model(def)!NextStepInOrder(s) = IF Model(def)!IndexOf(s) = Len(order) THEN ""
                                        ELSE order[Model(def)!IndexOf(s) + 1]
    <3>1. Model(def)!NextStepInOrder(s) =
            IF Model(def)!IndexOf(s) = Len([j \in DOMAIN def.steps |-> def.steps[j].id]) THEN ""
            ELSE [j \in DOMAIN def.steps |-> def.steps[j].id][Model(def)!IndexOf(s) + 1]
      BY Zenon DEF Model!NextStepInOrder
    <3> QED BY <1>3, <3>1
  <2>3. Model(def)!IndexOf(s) = i /\ t = Model(def)!NextStepInOrder(s)
    BY <1>5, <2>1
  <2> QED BY <1>4, <2>2, <2>3
<1>7. t # ""
  <2>1. \A j \in 1..n : def.steps[j].id # ""
    <3>1. \A j \in 1..n : ExactStep(def.steps[j])
      BY <1>1, <1>2 DEF StepsDiffer
    <3>2. \A j \in 1..n : def.steps[j].id \in Names
      BY ONLY <3>1 DEF ExactStep
    <3> QED BY <3>2, NamesAssumption
  <2> QED BY <1>2, <2>1 DEF Ids
<1>8. i \in 1..(n - 1) /\ i + 1 \in 1..n /\ t = def.steps[i + 1].id
  <2>1. i # n /\ i \in 1..n /\ t = order[i + 1]
    BY <1>2, <1>6, <1>7
  <2>2. i + 1 \in 1..n /\ i \in 1..(n - 1)
    BY <2>1
  <2> QED BY <1>4, <2>1, <2>2
<1>9. PICK e : e = Edge(def.steps[i].id, def.steps[i + 1].id, "sequence")
  OBVIOUS
<1>10. e \in SequenceEdges(def)
  BY <1>2, <1>8, <1>9 DEF SequenceEdges
<1>11. e.source = def.steps[i].id /\ e.target = t
  BY <1>8, <1>9 DEF Edge
<1> QED BY <1>10, <1>11 DEF Graph

\* The way from the end of a loop to its start has an edge.
LEMMA ReturnIsDrawn ==
    ASSUME NEW def, Accepted(def), NEW i \in 1..Len(def.steps), def.steps[i].kind \notin OwnFlow,
           def.steps[i].loop # "", def.steps[i].id = Model(def)!LoopEnd(def.steps[i].loop)
    PROVE  \E e \in Graph(def) : /\ e.source = def.steps[i].id
                                 /\ e.target = Model(def)!LoopStart(def.steps[i].loop)
<1> DEFINE id == def.steps[i].loop
           t == Model(def)!LoopStart(id)
<1>1. StepsDiffer(def.steps) /\ IsSequence(def.loops)
  BY DEF Accepted, Ordered
<1>2. PICK k \in 1..Len(def.loops) : def.loops[k].id = id
  BY DEF Accepted, Ordered
<1>3. PICK l : l = def.loops[k]
  OBVIOUS
<1>4. LoopIs(def, l) /\ l \in ToSet(def.loops) /\ l.id = id
  <2>1. LoopIs(def, def.loops[k])
    BY DEF Accepted, Ordered
  <2>2. def.loops[k] \in ToSet(def.loops)
    BY <1>1, SequenceIs
  <2> QED BY <1>2, <1>3, <2>1, <2>2
<1>5. l.steps[1] = t /\ Last(l.steps) = def.steps[i].id
  BY <1>1, <1>4, LoopRuns
<1>6. StepNamed(def, Last(l.steps)).kind \notin OwnFlow
  BY <1>1, <1>5, NamedIs
<1>7. PICK e : e = Edge(Last(l.steps), l.steps[1], "loop")
  OBVIOUS
<1>8. e \in LoopEdges(def)
  BY <1>4, <1>6, <1>7 DEF LoopEdges
<1>9. e.source = def.steps[i].id /\ e.target = t
  BY <1>5, <1>7 DEF Edge
<1> QED BY <1>8, <1>9 DEF Graph

\* Every move has an edge.
LEMMA MovesAreDrawn ==
    ASSUME NEW def, Accepted(def), NEW m \in Moves(def)
    PROVE  \E e \in Graph(def) : e.source = m[1] /\ e.target = m[2]
<1>1. StepsDiffer(def.steps)
  BY DEF Accepted, Ordered
<1>2. PICK n \in Nat : n = Len(def.steps) /\ DOMAIN def.steps = 1..n
  BY <1>1, SequenceIs DEF StepsDiffer
<1>3. PICK from, to : from = m[1] /\ to = m[2]
  OBVIOUS
<1>4. from \in Ids(def) /\ to \in Ids(def)
  BY <1>3 DEF Moves
<1>5. PICK i \in 1..n : from = def.steps[i].id
  BY <1>2, <1>4 DEF Ids
<1>6. PICK s : s = def.steps[i]
  OBVIOUS
<1>7. StepNamed(def, from) = s
  BY <1>1, <1>2, <1>5, <1>6, NamedIs
<1>8. /\ s.kind \in {"agent", "merge"} => to = Model(def)!AdvanceAfter(from)
      /\ s.kind = "human_gate" => to = Model(def)!NextStepInOrder(from)
      /\ s.kind = "decision" => to \in NextIds(s)
      /\ s.kind \in {"agent", "merge", "human_gate", "decision"}
  BY <1>3, <1>7 DEF Moves
<1>9. CASE s.kind = "human_gate"
  <2>1. def.steps[i].kind \notin OwnFlow /\ to = Model(def)!NextStepInOrder(def.steps[i].id)
    BY <1>5, <1>6, <1>8, <1>9 DEF OwnFlow
  <2> QED BY <1>2, <1>3, <1>4, <1>5, <2>1, NextIsDrawn
<1>10. CASE s.kind \in {"agent", "merge"}
  <2>1. def.steps[i].kind \notin OwnFlow
    BY <1>6, <1>10 DEF OwnFlow
  <2>2. PICK id : id = s.loop
    OBVIOUS
  <2>3. Model(def)!Steps = Ids(def)
    BY <1>1, ChildrenIs
  <2>4. to = IF (from \in Ids(def) /\ id # "") /\ from = Model(def)!LoopEnd(id)
             THEN Model(def)!LoopStart(id) ELSE Model(def)!NextStepInOrder(from)
    <3>1. PICK loops : loops = [x \in Ids(def) |-> StepNamed(def, x).loop]
      OBVIOUS
    <3>2. loops[from] = id
      BY <1>4, <1>7, <2>2, <3>1
    <3>3. Model(def)!InLoop(from) <=> from \in Ids(def) /\ loops[from] # ""
      BY <2>3, <3>1 DEF Model!InLoop
    <3>4. Model(def)!AdvanceAfter(from) =
            IF Model(def)!InLoop(from) /\ from = Model(def)!LoopEnd(loops[from])
            THEN Model(def)!LoopStart(loops[from]) ELSE Model(def)!NextStepInOrder(from)
      BY <3>1 DEF Model!AdvanceAfter
    <3> QED BY <1>8, <1>10, <3>2, <3>3, <3>4
  <2>5. CASE id # "" /\ from = Model(def)!LoopEnd(id)
    <3>1. to = Model(def)!LoopStart(id)
      BY <1>4, <2>4, <2>5
    <3>2. id = def.steps[i].loop /\ def.steps[i].id = Model(def)!LoopEnd(id)
      BY <1>5, <1>6, <2>2, <2>5
    <3>3. \E e \in Graph(def) : e.source = def.steps[i].id /\ e.target = to
      <4>1. def.steps[i].loop # "" /\ def.steps[i].id = Model(def)!LoopEnd(def.steps[i].loop)
        BY <2>5, <3>2
      <4>2. i \in 1..Len(def.steps)
        BY <1>2
      <4>3. \E e \in Graph(def) : /\ e.source = def.steps[i].id
                                  /\ e.target = Model(def)!LoopStart(def.steps[i].loop)
        BY <2>1, <4>1, <4>2, ReturnIsDrawn
      <4> QED BY <3>1, <3>2, <4>3
    <3> QED BY <1>3, <1>5, <3>3
  <2>6. CASE ~(id # "" /\ from = Model(def)!LoopEnd(id))
    <3>1. to = Model(def)!NextStepInOrder(def.steps[i].id)
      BY <1>5, <2>4, <2>6
    <3> QED BY <1>2, <1>3, <1>4, <1>5, <2>1, <3>1, NextIsDrawn
  <2> QED BY <2>5, <2>6
<1>11. CASE s.kind = "decision"
  <2>1. PICK kind : kind = (IF /\ s.loop # "" /\ StepNamed(def, to).loop = s.loop
                               /\ IndexIn(def, to) <= IndexIn(def, s.id) THEN "loop" ELSE "choice")
    OBVIOUS
  <2>2. s \in ToSet(def.steps) /\ to \in NextIds(s)
    <3>1. IsSequence(def.steps)
      BY <1>1 DEF StepsDiffer
    <3>2. s \in ToSet(def.steps)
      BY <1>2, <1>6, <3>1, SequenceIs
    <3> QED BY <1>8, <1>11, <3>2
  <2>3. PICK e : e = Edge(s.id, to, kind)
    OBVIOUS
  <2>4. e \in ChoiceEdges(def)
    <3>1. e \in {Edge(s.id, t, IF /\ s.loop # "" /\ StepNamed(def, t).loop = s.loop
                             /\ IndexIn(def, t) <= IndexIn(def, s.id) THEN "loop" ELSE "choice") :
              t \in NextIds(s)}
      BY <2>1, <2>2, <2>3, Zenon
    <3> QED BY <2>2, <3>1, Zenon DEF ChoiceEdges
  <2>5. e.source = from /\ e.target = to
    BY <1>5, <1>6, <2>3 DEF Edge
  <2> QED BY <1>3, <2>4, <2>5 DEF Graph
<1> QED BY <1>8, <1>9, <1>10, <1>11

\* The graph of a workflow in the library has an edge for each move that a run of it can make
\* by itself or on an approval (graph.ts for runner.ts).
THEOREM GraphShowsMoves == Spec => []GraphShowsEveryMove
<1>1. Documents => GraphShowsEveryMove
  BY StoredAccepted, MovesAreDrawn DEF GraphShowsEveryMove
<1> QED BY <1>1, DocumentsAlways, PTL
=============================================================================
