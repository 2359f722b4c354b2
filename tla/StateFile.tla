----------------------------- MODULE StateFile -----------------------------
(***************************************************************************)
(* opencolab.json (src/project-config.ts) and the processes that change it *)
(* (src/runtime.ts, src/gateway.ts): the gateway and the commands of the   *)
(* CLI.  Each works on a copy; a change is saved by reading the file       *)
(* again, merging the differences to the copy last read into it, and       *)
(* replacing it.  No lock is held between the reading and the replacing.   *)
(* Bots are numbered in the order of their ids.                            *)
(***************************************************************************)
EXTENDS Naturals

CONSTANTS
    Processes, Projects, Chats,
    Identities,   \* who a token belongs to, as getMe tells
    Fields,       \* keys of a project
    MaxBots,
    MaxChanges,   \* bound on the changes made in a behaviour
    None          \* null, or a key that is absent

Bots == 1..MaxBots
Default == 1                    \* the bot of a legacy install
First == CHOOSE x \in Projects : TRUE   \* the project of the install
NoField == [f \in Fields |-> 0]

\* code: the chat a pairing code was sent to; paired: the chat that confirmed
\* the pairing (paired, pairedAt); noted: the keys that only record something.
Profile == [enabled: BOOLEAN, scope: {"pinned", "floating"},
            project: Projects \cup {None}, who: Identities \cup {None},
            chat: Chats \cup {None}, code: Chats \cup {None},
            paired: Chats \cup {None}, noted: 0..1]
NewProfile == [enabled |-> TRUE, scope |-> "pinned", project |-> None, who |-> None,
               chat |-> None, code |-> None, paired |-> None, noted |-> 0]

Document == [active: Projects,
             projects: [Projects -> [Fields -> 0..1] \cup {None}],
             bots: [Bots -> Profile \cup {None}]]

ASSUME StateFileAssumption ==
    /\ Projects # {} /\ Chats # {}
    /\ None \notin Profile \cup [Fields -> 0..1]
    /\ MaxBots \in Nat

VARIABLES
    disk,      \* the file
    base,      \* a process: what it last read (lastDiskState)
    mem,       \* a process: its copy (state)
    seen,      \* a process: what it read in order to merge
    step,      \* a process: "idle", "changed" or "merging"
    changes,   \* how many changes were made
    said,      \* history: the value of each project key in the last change saved
    raced,     \* history: a file was replaced that had changed since it was read
    mixed      \* history: bots merged from the changes of two processes

vars == <<disk, base, mem, seen, step, changes, said, raced, mixed>>
history == <<said, raced, mixed>>

Known(doc, x) == doc.projects[x] # None
HasBot(doc, b) == doc.bots[b] # None

-----------------------------------------------------------------------------
(***************************************************************************)
(* normalizeTelegramBots: bots are looked at in the order of their ids,    *)
(* and one whose project is gone, or whose place or identity another holds *)
(* is disabled.  The active project becomes the first when it is gone.     *)
(***************************************************************************)
Orphan(doc, b) ==
    doc.bots[b].scope = "pinned"
      /\ (doc.bots[b].project = None \/ ~Known(doc, doc.bots[b].project))

SamePlace(r, s) ==
    r.scope = s.scope /\ (r.scope = "pinned" => r.project = s.project)

SameIdentity(r, s) == r.who # None /\ r.who = s.who

Eligible(doc, b) == HasBot(doc, b) /\ doc.bots[b].enabled /\ ~Orphan(doc, b)

Placed(doc, b) ==
    /\ Eligible(doc, b)
    /\ \A a \in 1..b-1 : Eligible(doc, a) => ~SamePlace(doc.bots[a], doc.bots[b])

Kept(doc, b) ==
    /\ Placed(doc, b)
    /\ \A a \in 1..b-1 : Placed(doc, a) => ~SameIdentity(doc.bots[a], doc.bots[b])

ActiveOf(doc) == IF Known(doc, doc.active) THEN doc.active ELSE First

Normal(doc) ==
    [active |-> ActiveOf(doc),
     projects |-> doc.projects,
     bots |-> [b \in Bots |->
       IF HasBot(doc, b) THEN [doc.bots[b] EXCEPT !.enabled = Kept(doc, b)] ELSE None]]

-----------------------------------------------------------------------------
(***************************************************************************)
(* mergeProjectStateChanges, for what was read last (b), what the file     *)
(* holds now (c) and what the process wants (n).                           *)
(***************************************************************************)
MergeLeaf(b, c, n) == IF b = n THEN c ELSE n

MergeRecord(b, c, n) ==
    IF b = None \/ c = None THEN n
    ELSE [f \in DOMAIN n |-> MergeLeaf(b[f], c[f], n[f])]

MergeKey(b, c, n, absent) ==
    IF n = None THEN IF b = None THEN c ELSE None
    ELSE IF b = n THEN IF c = None THEN absent ELSE c
    ELSE MergeRecord(b, c, n)

\* Mutant: the process writes its copy.
MergeNothing(b, c, n) == Normal(n)

\* Mutant: what comes of two changes is not looked at again.
MergeAsIs(b, c, n) ==
    [active |-> MergeLeaf(b.active, c.active, n.active),
     projects |-> [x \in Projects |-> MergeKey(b.projects[x], c.projects[x], n.projects[x], None)],
     bots |-> [i \in Bots |-> MergeKey(b.bots[i], c.bots[i], n.bots[i], None)]]

\* A bot that is gone from the file and unchanged in the copy keeps its key
\* with no value, which the normalisation fills.
Merge(b, c, n) ==
    Normal([active |-> MergeLeaf(b.active, c.active, n.active),
            projects |-> [x \in Projects |->
                            MergeKey(b.projects[x], c.projects[x], n.projects[x], None)],
            bots |-> [i \in Bots |->
                        MergeKey(b.bots[i], c.bots[i], n.bots[i], NewProfile)]])

TypeOK ==
    /\ disk \in Document
    /\ base \in [Processes -> Document] /\ mem \in [Processes -> Document]
    /\ seen \in [Processes -> Document]
    /\ step \in [Processes -> {"idle", "changed", "merging"}]
    /\ \A p \in Processes : step[p] = "idle" => mem[p] = base[p] /\ seen[p] = base[p]
    /\ Known(disk, disk.active)

-----------------------------------------------------------------------------
Load(p, doc) ==
    /\ base' = [base EXCEPT ![p] = doc]
    /\ mem' = [mem EXCEPT ![p] = doc]
    /\ seen' = [seen EXCEPT ![p] = doc]

\* The process reads the file: it starts, perhaps after a crash, or refreshes.
Read(p) ==
    /\ step' = [step EXCEPT ![p] = "idle"]
    /\ Load(p, disk)
    /\ UNCHANGED <<disk, changes, history>>

\* An operation on a copy that was read from doc.
ChangeOf(p, doc, next) ==
    /\ step[p] = "idle" /\ changes < MaxChanges
    /\ changes' = changes + 1
    /\ step' = [step EXCEPT ![p] = "changed"]
    /\ base' = [base EXCEPT ![p] = doc]
    /\ mem' = [mem EXCEPT ![p] = Normal(next)]
    /\ UNCHANGED <<disk, seen, history>>

Change(p, next) == ChangeOf(p, mem[p], next)       \* on the copy the process has
ChangeFresh(p, next) == ChangeOf(p, disk, next)    \* getState was called first

ReadAgain(p) ==
    /\ step[p] = "changed"
    /\ step' = [step EXCEPT ![p] = "merging"]
    /\ seen' = [seen EXCEPT ![p] = disk]
    /\ UNCHANGED <<disk, base, mem, changes, history>>

\* The keys of projects p has changed.
Touched(p) == {k \in Projects \X Fields :
                 /\ Known(mem[p], k[1])
                 /\ Known(base[p], k[1]) =>
                      mem[p].projects[k[1]][k[2]] # base[p].projects[k[1]][k[2]]}

Note(p) ==
    /\ said' = [k \in Projects \X Fields |->
                  IF k \in Touched(p) THEN mem[p].projects[k[1]][k[2]] ELSE said[k]]
    /\ raced' = (raced \/ seen[p] # disk)
    /\ mixed' = mixed \cup {b \in Bots : /\ base[p].bots[b] # seen[p].bots[b]
                                         /\ base[p].bots[b] # mem[p].bots[b]}

\* The file is replaced, and read once more.
Replace(p) ==
    LET merged == Merge(base[p], seen[p], mem[p])
    IN /\ step[p] = "merging"
       /\ step' = [step EXCEPT ![p] = "idle"]
       /\ disk' = merged
       /\ Load(p, merged)
       /\ Note(p)
       /\ UNCHANGED changes

-----------------------------------------------------------------------------
(***************************************************************************)
(* Projects.  A key of a project holds one of two values, and a change     *)
(* gives it the other.                                                     *)
(***************************************************************************)
CreateProject(p, x) ==
    /\ ~Known(mem[p], x)
    /\ Change(p, [mem[p] EXCEPT !.active = x, !.projects[x] = NoField])

UseProject(p, x) ==
    /\ Known(mem[p], x) /\ x # mem[p].active
    /\ Change(p, [mem[p] EXCEPT !.active = x])

SetField(p, x, f) ==
    f \in Fields /\ Change(p, [mem[p] EXCEPT !.projects[x][f] = 1 - @])

Has(p, f) == f \in Fields /\ mem[p].projects[mem[p].active][f] = 1

SetupModel(p) == SetField(p, mem[p].active, "provider")
UseAgent(p) == SetField(p, mem[p].active, "agent")
SetupTarget(p) == ~Has(p, "target") /\ SetField(p, mem[p].active, "target")
RemoveTarget(p) == Has(p, "target") /\ SetField(p, mem[p].active, "target")
SaveSshProfile(p) == ~Has(p, "profile") /\ SetField(p, mem[p].active, "profile")

\* An id that is given is not looked up.
SetSshDefault(p) == ~Has(p, "default") /\ SetField(p, mem[p].active, "default")

\* The defaults that name the profile go with it.
RemoveSshProfile(p) ==
    /\ Has(p, "profile")
    /\ LET x == mem[p].active
       IN Change(p, [mem[p] EXCEPT !.projects[x] =
                       [f \in Fields |-> IF f \in {"profile", "default"} THEN 0 ELSE @[f]]])

UpdateHeartbeat(p, x) == Known(mem[p], x) /\ SetField(p, x, "wake")

-----------------------------------------------------------------------------
(***************************************************************************)
(* The registry of bots.                                                   *)
(***************************************************************************)
\* assertProjectUnclaimed, on the copy.
Unclaimed(doc, x, b) ==
    \A a \in Bots \ {b} :
      HasBot(doc, a) => ~(doc.bots[a].enabled /\ doc.bots[a].scope = "pinned"
                            /\ doc.bots[a].project = x)

WithBot(doc, b, profile) == [doc EXCEPT !.bots[b] = profile]

\* The token is checked with Telegram between the reading of the copy and this.
AddBot(p, b, i) ==
    /\ ~HasBot(mem[p], b)
    /\ \A a \in Bots : HasBot(mem[p], a) => mem[p].bots[a].who # i
    /\ \/ Change(p, WithBot(mem[p], b, [NewProfile EXCEPT !.who = i, !.scope = "floating"]))
       \/ \E x \in Projects :
            /\ Known(mem[p], x) /\ Unclaimed(mem[p], x, b)
            /\ Change(p, WithBot(mem[p], b, [NewProfile EXCEPT !.who = i, !.project = x]))

BindBot(p, b, x) ==
    /\ HasBot(mem[p], b) /\ Known(mem[p], x) /\ Unclaimed(mem[p], x, b)
    /\ Change(p, [mem[p] EXCEPT !.bots[b].scope = "pinned", !.bots[b].project = x,
                                !.bots[b].enabled = TRUE])

UnbindBot(p, b) ==
    /\ HasBot(mem[p], b)
    /\ Change(p, [mem[p] EXCEPT !.bots[b].scope = "floating"])

SetEnabled(p, b) ==
    /\ HasBot(mem[p], b)
    /\ LET bot == mem[p].bots[b]
       IN /\ ~bot.enabled /\ bot.scope = "pinned" => Unclaimed(mem[p], bot.project, b)
          /\ Change(p, WithBot(mem[p], b, [bot EXCEPT !.enabled = ~@]))

RemoveBot(p, b) ==
    /\ HasBot(mem[p], b)
    /\ Change(p, WithBot(mem[p], b, None))

\* After getMe, and the keys that nothing here depends on.
RecordIdentity(p, b, i) ==
    /\ HasBot(mem[p], b)
    /\ Change(p, [mem[p] EXCEPT !.bots[b].who = i, !.bots[b].noted = 1 - @])

RememberTarget(p, b) ==
    /\ HasBot(disk, b) /\ disk.bots[b].enabled /\ disk.bots[b].paired # None
    /\ ChangeFresh(p, [disk EXCEPT !.bots[b].noted = 1 - @])

\* The picker of a floating bot.
SelectProject(p, x) ==
    /\ \E b \in Bots : /\ HasBot(disk, b) /\ disk.bots[b].enabled
                       /\ disk.bots[b].paired # None /\ disk.bots[b].scope = "floating"
    /\ Known(disk, x) /\ x # disk.active
    /\ ChangeFresh(p, [disk EXCEPT !.active = x])

\* Mutant: a code that was sent to the chat before stays good.
SetupTelegramKeepsCode(p, b, c) ==
    /\ HasBot(mem[p], b)
    /\ LET bot == mem[p].bots[b]
       IN Change(p, WithBot(mem[p], b,
                   [bot EXCEPT !.chat = c, !.paired = IF bot.chat = c THEN @ ELSE None]))

SetupTelegram(p, b, c) ==
    LET bot == mem[p].bots[b]
    IN Change(p, WithBot(mem[p], b,
         IF HasBot(mem[p], b)
         THEN [bot EXCEPT !.chat = c, !.code = None,
                          !.paired = IF bot.chat = c THEN @ ELSE None]
         ELSE [NewProfile EXCEPT !.scope = IF b = Default THEN "floating" ELSE "pinned",
                                 !.project = mem[p].active, !.chat = c]))

\* The handshake of ignite: a message came from the chat.
MarkPaired(p, b, c) ==
    /\ HasBot(mem[p], b)
    /\ Change(p, [mem[p] EXCEPT !.bots[b].chat = c, !.bots[b].paired = c,
                                !.bots[b].code = None])

StartPairing(p, b) ==
    /\ HasBot(disk, b) /\ disk.bots[b].chat # None
    /\ ChangeFresh(p, [disk EXCEPT !.bots[b].paired = None,
                                   !.bots[b].code = disk.bots[b].chat])

CompletePairing(p, b) ==
    /\ HasBot(disk, b) /\ disk.bots[b].code # None
    /\ ChangeFresh(p, [disk EXCEPT !.bots[b].paired = disk.bots[b].code,
                                   !.bots[b].code = None])

-----------------------------------------------------------------------------
Legacy == [NewProfile EXCEPT !.scope = "floating", !.chat = CHOOSE c \in Chats : TRUE,
                             !.paired = CHOOSE c \in Chats : TRUE]

\* A legacy install with one bot, or one without: migrateTelegramBots.
Init ==
    /\ \E first \in {None, Legacy}, more \in BOOLEAN :
         disk = [active |-> First,
                 projects |-> [x \in Projects |-> IF x = First \/ more THEN NoField ELSE None],
                 bots |-> [b \in Bots |-> IF b = Default THEN first ELSE None]]
    /\ base = [p \in Processes |-> disk] /\ mem = base /\ seen = base
    /\ step = [p \in Processes |-> "idle"]
    /\ changes = 0
    /\ said = [k \in Projects \X Fields |-> 0] /\ raced = FALSE /\ mixed = {}

\* The groups of commands, and what the gateway changes by itself.
ProjectCommand(p) ==
    UseAgent(p) \/ \E x \in Projects : CreateProject(p, x) \/ UseProject(p, x)
SetupCommand(p) ==
    SetupModel(p) \/ \E b \in Bots, c \in Chats : SetupTelegram(p, b, c)
TargetCommand(p) == SetupTarget(p) \/ RemoveTarget(p)
SshCommand(p) == SaveSshProfile(p) \/ SetSshDefault(p) \/ RemoveSshProfile(p)
PairCommand(p) == \E b \in Bots : StartPairing(p, b) \/ CompletePairing(p, b)
Handshake(p) == \E b \in Bots, c \in Chats : MarkPaired(p, b, c)
BotCommand(p) == \E b \in Bots :
    \/ UnbindBot(p, b) \/ SetEnabled(p, b) \/ RemoveBot(p, b)
    \/ \E x \in Projects : BindBot(p, b, x)
    \/ \E i \in Identities : AddBot(p, b, i) \/ RecordIdentity(p, b, i)
GatewayChange(p) ==
    \/ \E b \in Bots : RememberTarget(p, b)
    \/ \E x \in Projects : UpdateHeartbeat(p, x) \/ SelectProject(p, x)

Next == \E p \in Processes :
    \/ Read(p) \/ ReadAgain(p) \/ Replace(p)
    \/ ProjectCommand(p) \/ SetupCommand(p) \/ TargetCommand(p) \/ SshCommand(p)
    \/ PairCommand(p) \/ Handshake(p) \/ BotCommand(p) \/ GatewayChange(p)

Spec == Init /\ [][Next]_vars

-----------------------------------------------------------------------------
(***************************************************************************)
(* Properties.                                                             *)
(***************************************************************************)
\* However the changes of two processes are merged, no two enabled bots in the
\* file serve one project or stand for one Telegram bot, and none is without
\* its project: two commands may each have found the project unclaimed.
OneOwner ==
    \A a, b \in Bots :
      /\ HasBot(disk, a) /\ disk.bots[a].enabled => ~Orphan(disk, a)
      /\ a # b /\ Eligible(disk, a) /\ Eligible(disk, b) =>
           /\ ~SamePlace(disk.bots[a], disk.bots[b])
           /\ ~SameIdentity(disk.bots[a], disk.bots[b])

\* The last change saved for a key of a project is in force whatever other
\* processes save, with copies however old, unless a file was replaced that
\* had changed since it was read in order to merge.
InForce ==
    ~raced => \A x \in Projects, f \in Fields :
                Known(disk, x) => disk.projects[x][f] = said[<<x, f>>]

\* A bot that is paired is paired with the chat that confirmed it, through any
\* order of setups, pairings and restarts, unless two processes' changes of
\* that bot were merged key by key.
PairedWithItsChat ==
    \A b \in Bots \ mixed :
      HasBot(disk, b) /\ disk.bots[b].paired # None => disk.bots[b].paired = disk.bots[b].chat

\* What docs/multi_bot_project_routing_spec.md says of the merge: the removal of
\* a bot stays, unless a process that saw it gone adds it again, or the file had
\* changed since it was read in order to merge.
RemovedStaysRemoved ==
    [][\A b \in Bots : ~HasBot(disk, b) /\ HasBot(disk', b) /\ ~raced' =>
         \E p \in Processes : ~HasBot(base[p], b) /\ HasBot(mem[p], b)]_vars
=============================================================================
