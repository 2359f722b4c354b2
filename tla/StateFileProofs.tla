-------------------------- MODULE StateFileProofs --------------------------
(***************************************************************************)
(* Theorems about StateFile, for any processes, projects, chats, number of *)
(* bots and of changes.                                                    *)
(***************************************************************************)
EXTENDS StateFile, TLAPS

Bot == Profile \cup {None}
ProjectValue == [Fields -> 0..1] \cup {None}

-----------------------------------------------------------------------------
(* Documents.                                                               *)

\* A document is made of its three parts.
LEMMA DocumentParts ==
    ASSUME NEW d \in Document
    PROVE  /\ d.active \in Projects
           /\ d.projects \in [Projects -> ProjectValue]
           /\ d.bots \in [Bots -> Bot]
           /\ d = [active |-> d.active, projects |-> d.projects, bots |-> d.bots]
  BY DEF Document, Bot, ProjectValue

\* There is a first project.
LEMMA FirstIsProject == First \in Projects
  BY StateFileAssumption DEF First

\* Normalising changes nothing but the active project and which bots are enabled.
LEMMA NormalKeeps ==
    ASSUME NEW d \in Document
    PROVE  /\ Normal(d) \in Document
           /\ Normal(d).active = ActiveOf(d) /\ Normal(d).projects = d.projects
           /\ \A b \in Bots :
                /\ HasBot(Normal(d), b) <=> HasBot(d, b)
                /\ HasBot(d, b) => Normal(d).bots[b] = [d.bots[b] EXCEPT !.enabled = Kept(d, b)]
  <1> DEFINE bots == [b \in Bots |->
                        IF HasBot(d, b) THEN [d.bots[b] EXCEPT !.enabled = Kept(d, b)] ELSE None]
  <1>1. ASSUME NEW b \in Bots, HasBot(d, b)
        PROVE  [d.bots[b] EXCEPT !.enabled = Kept(d, b)] \in Profile
    <2>1. d.bots[b] \in Profile
      BY <1>1, DocumentParts DEF HasBot, Bot
    <2>2. Kept(d, b) \in BOOLEAN
      BY DEF Kept, Placed, Eligible, HasBot
    <2> QED
      BY <2>1, <2>2 DEF Profile
  <1>2. bots \in [Bots -> Bot]
    BY <1>1 DEF Bot
  <1>3. Normal(d) = [active |-> ActiveOf(d), projects |-> d.projects, bots |-> bots]
    BY DEF Normal
  <1>4. Normal(d) \in Document
    <2>1. ActiveOf(d) \in Projects
      BY FirstIsProject, DocumentParts DEF ActiveOf
    <2> QED
      BY <1>2, <1>3, <2>1, DocumentParts DEF Document, Bot, ProjectValue
  <1>5. ASSUME NEW b \in Bots
        PROVE  /\ HasBot(Normal(d), b) <=> HasBot(d, b)
               /\ HasBot(d, b) => Normal(d).bots[b] = [d.bots[b] EXCEPT !.enabled = Kept(d, b)]
    <2>1. Normal(d).bots[b] = IF HasBot(d, b) THEN [d.bots[b] EXCEPT !.enabled = Kept(d, b)] ELSE None
      BY <1>3
    <2>2. HasBot(d, b) => Normal(d).bots[b] # None
      BY <1>1, <2>1, StateFileAssumption
    <2> QED
      BY <2>1, <2>2 DEF HasBot
  <1> QED
    BY <1>3, <1>4, <1>5

\* In a normalised document no two enabled bots share a place or an identity,
\* and none is without its project.
Sole(doc) ==
    \A a, b \in Bots :
      /\ HasBot(doc, a) /\ doc.bots[a].enabled => ~Orphan(doc, a)
      /\ a # b /\ Eligible(doc, a) /\ Eligible(doc, b) =>
           /\ ~SamePlace(doc.bots[a], doc.bots[b])
           /\ ~SameIdentity(doc.bots[a], doc.bots[b])

LEMMA NormalIsSole ==
    ASSUME NEW d \in Document
    PROVE  Sole(Normal(d))
  <1> DEFINE e == Normal(d)
  <1>1. ASSUME NEW b \in Bots, HasBot(e, b)
        PROVE  /\ e.bots[b].enabled = Kept(d, b)
               /\ e.bots[b].scope = d.bots[b].scope
               /\ e.bots[b].project = d.bots[b].project
               /\ e.bots[b].who = d.bots[b].who
               /\ Orphan(e, b) <=> Orphan(d, b)
    <2>1. HasBot(d, b) /\ e.bots[b] = [d.bots[b] EXCEPT !.enabled = Kept(d, b)]
      BY <1>1, NormalKeeps
    <2>2. d.bots[b] \in Profile
      BY <2>1, DocumentParts DEF HasBot, Bot
    <2>3. /\ e.bots[b].enabled = Kept(d, b)
          /\ e.bots[b].scope = d.bots[b].scope
          /\ e.bots[b].project = d.bots[b].project
          /\ e.bots[b].who = d.bots[b].who
      BY <2>1, <2>2 DEF Profile
    <2>4. e.projects = d.projects
      BY NormalKeeps
    <2> QED
      BY <2>3, <2>4 DEF Orphan, Known
  <1>2. ASSUME NEW b \in Bots, HasBot(e, b), e.bots[b].enabled
        PROVE  Kept(d, b) /\ Placed(d, b) /\ Eligible(d, b) /\ ~Orphan(e, b)
    BY <1>1, <1>2 DEF Kept, Placed, Eligible
  <1>3. ASSUME NEW a \in Bots, NEW b \in Bots, a < b, Eligible(e, a), Eligible(e, b)
        PROVE  /\ ~SamePlace(e.bots[a], e.bots[b])
               /\ ~SameIdentity(e.bots[a], e.bots[b])
    <2>1. HasBot(e, a) /\ e.bots[a].enabled /\ HasBot(e, b) /\ e.bots[b].enabled
      BY <1>3 DEF Eligible
    <2>2. a \in 1..b-1
      BY <1>3, StateFileAssumption DEF Bots
    <2>3. ~SamePlace(d.bots[a], d.bots[b]) /\ ~SameIdentity(d.bots[a], d.bots[b])
      BY <1>2, <2>1, <2>2 DEF Kept, Placed
    <2> QED
      BY <1>1, <2>1, <2>3 DEF SamePlace, SameIdentity
  <1>4. ASSUME NEW a \in Bots, NEW b \in Bots, a # b, Eligible(e, a), Eligible(e, b)
        PROVE  /\ ~SamePlace(e.bots[a], e.bots[b])
               /\ ~SameIdentity(e.bots[a], e.bots[b])
    <2>1. CASE a < b
      BY <1>3, <1>4, <2>1
    <2>2. CASE b < a
      BY <1>3, <1>4, <2>2 DEF SamePlace, SameIdentity
    <2> QED
      BY <1>4, <2>1, <2>2, StateFileAssumption DEF Bots
  <1> QED
    BY <1>2, <1>4 DEF Sole

-----------------------------------------------------------------------------
(* The merge.                                                               *)

\* Merging a bot's key gives a bot, or none.
LEMMA MergedBot ==
    ASSUME NEW b \in Bot, NEW c \in Bot, NEW n \in Bot, NEW absent \in Bot
    PROVE  MergeKey(b, c, n, absent) \in Bot
  <1>1. ASSUME b # None, c # None, n # None
        PROVE  [f \in DOMAIN n |-> MergeLeaf(b[f], c[f], n[f])] \in Profile
    <2>1. b \in Profile /\ c \in Profile /\ n \in Profile
      BY <1>1 DEF Bot
    <2>2. DOMAIN n = {"enabled", "scope", "project", "who", "chat", "code", "paired", "noted"}
      BY <2>1 DEF Profile
    <2> QED
      BY <2>1, <2>2 DEF Profile, MergeLeaf
  <1> QED
    BY <1>1 DEF MergeKey, MergeRecord, Bot

\* Merging a project's key gives a project, or none.
LEMMA MergedProject ==
    ASSUME NEW b \in ProjectValue, NEW c \in ProjectValue, NEW n \in ProjectValue
    PROVE  MergeKey(b, c, n, None) \in ProjectValue
  BY DEF MergeKey, MergeRecord, MergeLeaf, ProjectValue

\* What mergeJsonChanges makes of three documents, before it is normalised.
Raw(b, c, n) ==
    [active |-> MergeLeaf(b.active, c.active, n.active),
     projects |-> [x \in Projects |->
                     MergeKey(b.projects[x], c.projects[x], n.projects[x], None)],
     bots |-> [i \in Bots |->
                 MergeKey(b.bots[i], c.bots[i], n.bots[i], NewProfile)]]

LEMMA RawIsDocument ==
    ASSUME NEW b \in Document, NEW c \in Document, NEW n \in Document
    PROVE  /\ Raw(b, c, n) \in Document
           /\ Merge(b, c, n) = Normal(Raw(b, c, n))
  <1>1. NewProfile \in Bot
    BY DEF NewProfile, Profile, Bot
  <1>2. [i \in Bots |-> MergeKey(b.bots[i], c.bots[i], n.bots[i], NewProfile)] \in [Bots -> Bot]
    BY <1>1, MergedBot, DocumentParts
  <1>3. [x \in Projects |-> MergeKey(b.projects[x], c.projects[x], n.projects[x], None)]
          \in [Projects -> ProjectValue]
    BY MergedProject, DocumentParts
  <1>4. MergeLeaf(b.active, c.active, n.active) \in Projects
    BY DocumentParts DEF MergeLeaf
  <1> QED
    BY <1>2, <1>3, <1>4 DEF Raw, Merge, Document, Bot, ProjectValue

-----------------------------------------------------------------------------
(* Well formed documents, and what a command does to one.                   *)

\* The first project is never lost, the active one is there.
Good == {d \in Document : Known(d, First) /\ Known(d, d.active)}

Grown(d, e) == \A x \in Projects : Known(d, x) => Known(e, x)

\* A bot that is paired is paired with its chat, and its pairing code was sent there.
Match(r) == (r.paired # None => r.paired = r.chat) /\ (r.code # None => r.code = r.chat)
Coherent(d, b) == HasBot(d, b) => Match(d.bots[b])

\* e comes of one command on d.
Edit(d, e) ==
    /\ e \in Good /\ Grown(d, e)
    /\ \A b \in Bots : Coherent(d, b) => Coherent(e, b)

\* Normalising keeps a well formed document well formed.
LEMMA NormalIsGood ==
    ASSUME NEW d \in Document, Known(d, First)
    PROVE  /\ Normal(d) \in Good
           /\ \A x \in Projects : Known(Normal(d), x) <=> Known(d, x)
           /\ \A b \in Bots : Coherent(Normal(d), b) <=> Coherent(d, b)
  <1>1. \A x : Known(Normal(d), x) <=> Known(d, x)
    BY NormalKeeps DEF Known
  <1>2. Known(d, ActiveOf(d))
    BY DEF ActiveOf
  <1>3. Normal(d) \in Good
    BY <1>1, <1>2, NormalKeeps DEF Good
  <1>4. ASSUME NEW b \in Bots
        PROVE  Coherent(Normal(d), b) <=> Coherent(d, b)
    <2>1. CASE HasBot(d, b)
      <3>1. d.bots[b] \in Profile
        BY <2>1, DocumentParts DEF HasBot, Bot
      <3>2. HasBot(Normal(d), b) /\ Normal(d).bots[b] = [d.bots[b] EXCEPT !.enabled = Kept(d, b)]
        BY <2>1, NormalKeeps
      <3> QED
        BY <2>1, <3>1, <3>2 DEF Coherent, Match, Profile
    <2>2. CASE ~HasBot(d, b)
      BY <2>2, NormalKeeps DEF Coherent
    <2> QED
      BY <2>1, <2>2
  <1> QED
    BY <1>1, <1>3, <1>4

\* A command that gives one bot another profile, or removes it.
LEMMA BotEdit ==
    ASSUME NEW d \in Good, NEW b \in Bots, NEW r \in Bot,
           Coherent(d, b) /\ r # None => Match(r)
    PROVE  Edit(d, WithBot(d, b, r))
  <1> DEFINE e == WithBot(d, b, r)
  <1>1. d \in Document
    BY DEF Good
  <1>2. /\ e \in Document /\ e.projects = d.projects /\ e.active = d.active
        /\ e.bots = [d.bots EXCEPT ![b] = r]
    BY <1>1, DocumentParts DEF WithBot, Document, Bot
  <1>3. e \in Good /\ Grown(d, e)
    BY <1>2 DEF Good, Grown, Known
  <1>4. \A a \in Bots : Coherent(d, a) => Coherent(e, a)
    BY <1>1, <1>2, DocumentParts DEF Coherent, HasBot
  <1> QED
    BY <1>3, <1>4 DEF Edit

\* A command that gives one project another value, or makes it.
LEMMA ProjectEdit ==
    ASSUME NEW d \in Good, NEW x \in Projects, NEW v \in [Fields -> 0..1]
    PROVE  Edit(d, [d EXCEPT !.projects[x] = v])
  <1> DEFINE e == [d EXCEPT !.projects[x] = v]
  <1>1. d \in Document /\ v # None /\ v \in ProjectValue
    BY StateFileAssumption DEF Good, ProjectValue
  <1>2. /\ e \in Document /\ e.bots = d.bots /\ e.active = d.active
        /\ e.projects = [d.projects EXCEPT ![x] = v]
    BY <1>1, DocumentParts DEF Document, ProjectValue
  <1>3. Grown(d, e)
    BY <1>1, <1>2, DocumentParts DEF Grown, Known
  <1>4. e \in Good
    BY <1>2, <1>3, DocumentParts, FirstIsProject DEF Good, Grown
  <1>5. \A a \in Bots : Coherent(d, a) => Coherent(e, a)
    BY <1>2 DEF Coherent, HasBot
  <1> QED
    BY <1>3, <1>4, <1>5 DEF Edit

\* A command that makes another project the active one.
LEMMA ActiveEdit ==
    ASSUME NEW d \in Good, NEW x \in Projects, Known(d, x)
    PROVE  Edit(d, [d EXCEPT !.active = x])
  <1> DEFINE e == [d EXCEPT !.active = x]
  <1>1. e \in Document /\ e.bots = d.bots /\ e.active = x /\ e.projects = d.projects
    BY DocumentParts DEF Document, Good
  <1> QED
    BY <1>1 DEF Edit, Good, Grown, Known, Coherent, HasBot

-----------------------------------------------------------------------------
(* The commands.                                                            *)

TypeInv ==
    /\ disk \in Good
    /\ base \in [Processes -> Good] /\ mem \in [Processes -> Good]
    /\ seen \in [Processes -> Good]
    /\ step \in [Processes -> {"idle", "changed", "merging"}]
    /\ \A p \in Processes : step[p] = "idle" => mem[p] = base[p] /\ seen[p] = base[p]

Command(p) ==
    \/ ProjectCommand(p) \/ SetupCommand(p) \/ TargetCommand(p) \/ SshCommand(p)
    \/ PairCommand(p) \/ Handshake(p) \/ BotCommand(p) \/ GatewayChange(p)

\* One edit of the copy, or of the file just read.
Edits(p) == \E doc \in {mem[p], disk}, next \in Good : Edit(doc, next) /\ ChangeOf(p, doc, next)

LEMMA FieldCommand ==
    ASSUME TypeInv, NEW p \in Processes, NEW x \in Projects, NEW f \in Fields,
           Known(mem[p], x), Change(p, [mem[p] EXCEPT !.projects[x][f] = 1 - @])
    PROVE  Edits(p)
  <1> DEFINE v == [mem[p].projects[x] EXCEPT ![f] = 1 - @]
  <1>1. mem[p] \in Good /\ mem[p] \in Document
    BY DEF TypeInv, Good
  <1>2. mem[p].projects[x] \in [Fields -> 0..1]
    BY <1>1, DocumentParts DEF Known, ProjectValue
  <1>3. v \in [Fields -> 0..1]
    BY <1>2
  <1>4. [mem[p] EXCEPT !.projects[x][f] = 1 - @] = [mem[p] EXCEPT !.projects[x] = v]
    OBVIOUS
  <1>5. Edit(mem[p], [mem[p] EXCEPT !.projects[x] = v])
    BY <1>1, <1>3, ProjectEdit
  <1> QED
    BY <1>4, <1>5 DEF Edits, Edit, Change

LEMMA SetFieldEdits ==
    ASSUME TypeInv, NEW p \in Processes, NEW x \in Projects, NEW f,
           Known(mem[p], x), SetField(p, x, f)
    PROVE  Edits(p)
  BY FieldCommand DEF SetField

LEMMA NewIsUnpaired ==
    NewProfile \in Profile /\ NewProfile.paired = None /\ NewProfile.code = None
  BY DEF NewProfile, Profile

\* A command on one bot's profile.
LEMMA BotCommandEdits ==
    ASSUME TypeInv, NEW p \in Processes, NEW doc \in {mem[p], disk},
           NEW b \in Bots, NEW r \in Bot, Coherent(doc, b) /\ r # None => Match(r),
           ChangeOf(p, doc, WithBot(doc, b, r))
    PROVE  Edits(p)
  <1>1. doc \in Good
    BY DEF TypeInv
  <1> QED
    BY <1>1, BotEdit DEF Edits, Edit

LEMMA ProjectCommandEdits ==
    ASSUME TypeInv, NEW p \in Processes,
           ProjectCommand(p) \/ TargetCommand(p) \/ SshCommand(p) \/ SetupModel(p)
    PROVE  Edits(p)
  <1>1. mem[p] \in Good /\ mem[p] \in Document /\ Known(mem[p], mem[p].active) /\ mem[p].active \in Projects
    BY DocumentParts DEF TypeInv, Good
  <1>2. ASSUME NEW f, SetField(p, mem[p].active, f)
        PROVE  Edits(p)
    BY <1>1, <1>2, SetFieldEdits
  <1>3. ASSUME NEW x \in Projects, CreateProject(p, x)
        PROVE  Edits(p)
    <2> DEFINE made == [mem[p] EXCEPT !.projects[x] = NoField]
    <2>1. NoField \in [Fields -> 0..1] /\ NoField # None
      BY StateFileAssumption DEF NoField
    <2>2. Edit(mem[p], made)
      BY <1>1, <2>1, ProjectEdit
    <2>3. Known(made, x) /\ made \in Good
      BY <1>1, <2>1, <2>2, DocumentParts DEF Known, Edit
    <2>4. Edit(made, [made EXCEPT !.active = x])
      BY <2>3, ActiveEdit
    <2>5. [mem[p] EXCEPT !.active = x, !.projects[x] = NoField] = [made EXCEPT !.active = x]
      BY <1>1 DEF Document
    <2>6. Edit(mem[p], [made EXCEPT !.active = x])
      BY <2>2, <2>4 DEF Edit, Grown
    <2> QED
      BY <1>3, <2>5, <2>6 DEF Edits, Edit, CreateProject, Change
  <1>4. ASSUME NEW x \in Projects, UseProject(p, x)
        PROVE  Edits(p)
    BY <1>1, <1>4, ActiveEdit DEF UseProject, Edits, Edit, Change
  <1>5. ASSUME RemoveSshProfile(p)
        PROVE  Edits(p)
    <2> DEFINE x == mem[p].active
               v == [f \in Fields |-> IF f \in {"profile", "default"} THEN 0
                                      ELSE mem[p].projects[x][f]]
    <2>1. mem[p].projects[x] \in [Fields -> 0..1]
      BY <1>1, DocumentParts DEF Known, ProjectValue
    <2>2. v \in [Fields -> 0..1]
      BY <2>1
    <2>3. Edit(mem[p], [mem[p] EXCEPT !.projects[x] = v])
      BY <1>1, <2>2, ProjectEdit
    <2> QED
      BY <1>5, <2>3 DEF Edits, Edit, RemoveSshProfile, Change
  <1> QED
    BY <1>2, <1>3, <1>4, <1>5
    DEF ProjectCommand, TargetCommand, SshCommand, SetupModel, UseAgent, SetupTarget,
        RemoveTarget, SaveSshProfile, SetSshDefault

\* A document's bot, when it has one, is a profile.
LEMMA BotIsProfile ==
    ASSUME NEW d \in Good, NEW b \in Bots, HasBot(d, b)
    PROVE  d.bots[b] \in Profile /\ (Coherent(d, b) <=> Match(d.bots[b]))
  BY DocumentParts DEF Good, HasBot, Bot, Coherent

LEMMA BotCommandsEdit ==
    ASSUME TypeInv, NEW p \in Processes,
           BotCommand(p) \/ PairCommand(p) \/ Handshake(p)
             \/ \E b \in Bots : RememberTarget(p, b) \/ \E c \in Chats : SetupTelegram(p, b, c)
    PROVE  Edits(p)
  <1> USE DEF Change, ChangeFresh
  <1>1. mem[p] \in Good /\ disk \in Good
    BY DEF TypeInv
  <1>2. mem[p].active \in Projects
    BY <1>1, DocumentParts DEF Good
  <1>3. ASSUME NEW doc \in {mem[p], disk}, NEW b \in Bots, HasBot(doc, b), NEW r \in Profile,
               Match(doc.bots[b]) => Match(r),
               \/ ChangeOf(p, doc, WithBot(doc, b, r))
               \/ ChangeOf(p, doc, [doc EXCEPT !.bots[b] = r])
        PROVE  Edits(p)
    BY <1>1, <1>3, BotIsProfile, BotCommandEdits DEF WithBot, Bot
  <1>4. ASSUME NEW b \in Bots, NEW i \in Identities, AddBot(p, b, i)
        PROVE  Edits(p)
    <2> DEFINE floating == [NewProfile EXCEPT !.who = i, !.scope = "floating"]
               pinned(x) == [NewProfile EXCEPT !.who = i, !.project = x]
    <2>1. floating \in Bot /\ Match(floating)
      BY NewIsUnpaired DEF Profile, Bot, Match
    <2>2. ASSUME NEW x \in Projects
          PROVE  pinned(x) \in Bot /\ Match(pinned(x))
      BY NewIsUnpaired DEF Profile, Bot, Match
    <2> QED
      BY <1>4, <2>1, <2>2, BotCommandEdits DEF AddBot
  <1>5. ASSUME NEW b \in Bots, NEW x \in Projects, BindBot(p, b, x)
        PROVE  Edits(p)
    <2> DEFINE r == [mem[p].bots[b] EXCEPT !.scope = "pinned", !.project = x, !.enabled = TRUE]
    <2>1. HasBot(mem[p], b) /\ mem[p].bots[b] \in Profile
      BY <1>1, <1>5, BotIsProfile DEF BindBot
    <2>2. r \in Profile /\ (Match(mem[p].bots[b]) => Match(r))
      BY <2>1 DEF Profile, Match
    <2>3. ChangeOf(p, mem[p], WithBot(mem[p], b, r))
      BY <1>5 DEF BindBot, WithBot
    <2> QED
      BY <1>3, <2>1, <2>2, <2>3
  <1>6. ASSUME NEW b \in Bots, UnbindBot(p, b)
        PROVE  Edits(p)
    <2> DEFINE r == [mem[p].bots[b] EXCEPT !.scope = "floating"]
    <2>1. HasBot(mem[p], b) /\ mem[p].bots[b] \in Profile
      BY <1>1, <1>6, BotIsProfile DEF UnbindBot
    <2>2. r \in Profile /\ (Match(mem[p].bots[b]) => Match(r))
      BY <2>1 DEF Profile, Match
    <2>3. ChangeOf(p, mem[p], WithBot(mem[p], b, r))
      BY <1>6 DEF UnbindBot, WithBot
    <2> QED
      BY <1>3, <2>1, <2>2, <2>3
  <1>7. ASSUME NEW b \in Bots, SetEnabled(p, b)
        PROVE  Edits(p)
    <2> DEFINE r == [mem[p].bots[b] EXCEPT !.enabled = ~@]
    <2>1. HasBot(mem[p], b) /\ mem[p].bots[b] \in Profile
      BY <1>1, <1>7, BotIsProfile DEF SetEnabled
    <2>2. r \in Profile /\ (Match(mem[p].bots[b]) => Match(r))
      BY <2>1 DEF Profile, Match
    <2> QED
      BY <1>3, <1>7, <2>1, <2>2 DEF SetEnabled
  <1>8. ASSUME NEW b \in Bots, RemoveBot(p, b)
        PROVE  Edits(p)
    BY <1>8, BotCommandEdits DEF RemoveBot, Bot
  <1>9. ASSUME NEW b \in Bots, NEW i \in Identities, RecordIdentity(p, b, i)
        PROVE  Edits(p)
    <2> DEFINE r == [mem[p].bots[b] EXCEPT !.who = i, !.noted = 1 - @]
    <2>1. HasBot(mem[p], b) /\ mem[p].bots[b] \in Profile
      BY <1>1, <1>9, BotIsProfile DEF RecordIdentity
    <2>2. r \in Profile /\ (Match(mem[p].bots[b]) => Match(r))
      <3>1. 1 - mem[p].bots[b].noted \in 0..1
        BY <2>1 DEF Profile
      <3> QED
        BY <2>1, <3>1 DEF Profile, Match
    <2>3. ChangeOf(p, mem[p], WithBot(mem[p], b, r))
      BY <1>9 DEF RecordIdentity, WithBot
    <2> QED
      BY <1>3, <2>1, <2>2, <2>3
  <1>10. ASSUME NEW b \in Bots, RememberTarget(p, b)
         PROVE  Edits(p)
    <2> DEFINE r == [disk.bots[b] EXCEPT !.noted = 1 - @]
    <2>1. HasBot(disk, b) /\ disk.bots[b] \in Profile
      BY <1>1, <1>10, BotIsProfile DEF RememberTarget
    <2>2. r \in Profile /\ (Match(disk.bots[b]) => Match(r))
      BY <2>1 DEF Profile, Match
    <2>3. ChangeOf(p, disk, WithBot(disk, b, r))
      BY <1>10 DEF RememberTarget, WithBot
    <2> QED
      BY <1>3, <2>1, <2>2, <2>3
  <1>11. ASSUME NEW b \in Bots, NEW c \in Chats, SetupTelegram(p, b, c)
         PROVE  Edits(p)
    <2> DEFINE bot == mem[p].bots[b]
               r == [bot EXCEPT !.chat = c, !.code = None, !.paired = IF bot.chat = c THEN @ ELSE None]
               made == [NewProfile EXCEPT !.scope = IF b = Default THEN "floating" ELSE "pinned",
                                          !.project = mem[p].active, !.chat = c]
    <2>1. made \in Bot /\ Match(made)
      <3>1. (IF b = Default THEN "floating" ELSE "pinned") \in {"pinned", "floating"}
        OBVIOUS
      <3> QED
        BY <1>2, <3>1, NewIsUnpaired DEF Profile, Bot, Match
    <2>2. CASE HasBot(mem[p], b)
      <3>1. bot \in Profile
        BY <1>1, <2>2, BotIsProfile
      <3>2. r \in Profile /\ (Match(bot) => Match(r))
        BY <3>1 DEF Profile, Match
      <3> QED
        BY <1>3, <1>11, <2>2, <3>2 DEF SetupTelegram
    <2>3. CASE ~HasBot(mem[p], b)
      BY <1>11, <2>1, <2>3, BotCommandEdits DEF SetupTelegram
    <2> QED
      BY <2>2, <2>3
  <1>12. ASSUME NEW b \in Bots, NEW c \in Chats, MarkPaired(p, b, c)
         PROVE  Edits(p)
    <2> DEFINE r == [mem[p].bots[b] EXCEPT !.chat = c, !.paired = c, !.code = None]
    <2>1. HasBot(mem[p], b) /\ mem[p].bots[b] \in Profile
      BY <1>1, <1>12, BotIsProfile DEF MarkPaired
    <2>2. r \in Profile /\ Match(r)
      BY <2>1 DEF Profile, Match
    <2>3. ChangeOf(p, mem[p], WithBot(mem[p], b, r))
      BY <1>12 DEF MarkPaired, WithBot
    <2> QED
      BY <1>3, <2>1, <2>2, <2>3
  <1>13. ASSUME NEW b \in Bots, StartPairing(p, b)
         PROVE  Edits(p)
    <2> DEFINE r == [disk.bots[b] EXCEPT !.paired = None, !.code = disk.bots[b].chat]
    <2>1. HasBot(disk, b) /\ disk.bots[b] \in Profile
      BY <1>1, <1>13, BotIsProfile DEF StartPairing
    <2>2. r \in Profile /\ Match(r)
      BY <2>1 DEF Profile, Match
    <2>3. ChangeOf(p, disk, WithBot(disk, b, r))
      BY <1>13 DEF StartPairing, WithBot
    <2> QED
      BY <1>3, <2>1, <2>2, <2>3
  <1>14. ASSUME NEW b \in Bots, CompletePairing(p, b)
         PROVE  Edits(p)
    <2> DEFINE r == [disk.bots[b] EXCEPT !.paired = disk.bots[b].code, !.code = None]
    <2>1. HasBot(disk, b) /\ disk.bots[b] \in Profile
      BY <1>1, <1>14, BotIsProfile DEF CompletePairing
    <2>2. r \in Profile /\ (Match(disk.bots[b]) => Match(r))
      BY <2>1 DEF Profile, Match
    <2>3. ChangeOf(p, disk, WithBot(disk, b, r))
      BY <1>14 DEF CompletePairing, WithBot
    <2> QED
      BY <1>3, <2>1, <2>2, <2>3
  <1> QED
    BY <1>4, <1>5, <1>6, <1>7, <1>8, <1>9, <1>10, <1>11, <1>12, <1>13, <1>14
    DEF BotCommand, PairCommand, Handshake

\* Every command is one edit.
LEMMA CommandEdits ==
    ASSUME TypeInv, NEW p \in Processes, Command(p)
    PROVE  Edits(p)
  <1>1. mem[p] \in Good /\ mem[p].active \in Projects /\ Known(mem[p], mem[p].active)
    BY DocumentParts DEF TypeInv, Good
  <1>2. ASSUME NEW x \in Projects, UpdateHeartbeat(p, x)
        PROVE  Edits(p)
    BY <1>2, SetFieldEdits DEF UpdateHeartbeat
  <1>3. ASSUME NEW x \in Projects, SelectProject(p, x)
        PROVE  Edits(p)
    <2>1. disk \in Good /\ Known(disk, x)
      BY <1>3 DEF TypeInv, SelectProject
    <2> QED
      BY <1>3, <2>1, ActiveEdit DEF SelectProject, Edits, Edit, ChangeFresh
  <1> QED
    BY <1>2, <1>3, ProjectCommandEdits, BotCommandsEdit
    DEF Command, GatewayChange, SetupCommand

-----------------------------------------------------------------------------
(***************************************************************************)
(* Types.  That the copy of a process knows every project its base knows   *)
(* makes the merge keep what the file knows, the first project included.   *)
(***************************************************************************)
Ahead == \A p \in Processes : Grown(base[p], mem[p])

\* Merging keeps the projects that the file has.
LEMMA MergeGrows ==
    ASSUME NEW b \in Good, NEW c \in Good, NEW n \in Good, Grown(b, n)
    PROVE  /\ Merge(b, c, n) \in Good
           /\ Grown(c, Merge(b, c, n))
           /\ \A x \in Projects : Known(Merge(b, c, n), x) <=> Known(Raw(b, c, n), x)
           /\ \A a \in Bots : Coherent(Merge(b, c, n), a) <=> Coherent(Raw(b, c, n), a)
           /\ Sole(Merge(b, c, n))
           /\ Merge(b, c, n).projects = Raw(b, c, n).projects
  <1> DEFINE raw == Raw(b, c, n)
  <1>1. b \in Document /\ c \in Document /\ n \in Document
    BY DEF Good
  <1>2. raw \in Document /\ Merge(b, c, n) = Normal(raw)
    BY <1>1, RawIsDocument
  <1>3. ASSUME NEW x \in Projects, Known(c, x)
        PROVE  Known(raw, x)
    <2>1. raw.projects[x] = MergeKey(b.projects[x], c.projects[x], n.projects[x], None)
      BY DEF Raw
    <2>2. n.projects[x] \in ProjectValue
      BY <1>1, DocumentParts
    <2>3. [f \in DOMAIN n.projects[x] |->
             MergeLeaf(b.projects[x][f], c.projects[x][f], n.projects[x][f])] # None
            \/ n.projects[x] = None \/ b.projects[x] = None
      <3>1. CASE n.projects[x] # None /\ b.projects[x] # None
        <4>1. /\ b.projects[x] \in [Fields -> 0..1] /\ c.projects[x] \in [Fields -> 0..1]
              /\ n.projects[x] \in [Fields -> 0..1]
          BY <1>1, <1>3, <3>1, DocumentParts DEF ProjectValue, Known
        <4>2. [f \in DOMAIN n.projects[x] |->
                 MergeLeaf(b.projects[x][f], c.projects[x][f], n.projects[x][f])] \in [Fields -> 0..1]
          BY <4>1 DEF MergeLeaf
        <4> QED
          BY <4>2, StateFileAssumption
      <3> QED
        BY <3>1
    <2> QED
      BY <1>3, <2>1, <2>3 DEF Known, Grown, MergeKey, MergeRecord
  <1>4. Known(raw, First)
    BY <1>3, FirstIsProject DEF Good
  <1> QED
    BY <1>2, <1>3, <1>4, NormalIsGood, NormalIsSole, NormalKeeps DEF Grown

LEMMA LegacyIsPaired ==
    Legacy \in Profile /\ Legacy.scope = "floating" /\ Match(Legacy)
  <1>1. PICK c \in Chats : c = CHOOSE d \in Chats : TRUE
    BY StateFileAssumption
  <1>2. Legacy = [NewProfile EXCEPT !.scope = "floating", !.chat = c, !.paired = c]
    BY <1>1 DEF Legacy
  <1> QED
    BY <1>2, NewIsUnpaired DEF Profile, Match

LEMMA TypeInit == Init => TypeInv /\ Ahead /\ Sole(disk)
  <1> SUFFICES ASSUME Init PROVE TypeInv /\ Ahead /\ Sole(disk)
    OBVIOUS
  <1>1. Legacy \in Profile /\ Legacy.scope = "floating" /\ NoField \in [Fields -> 0..1] /\ NoField # None
    BY LegacyIsPaired, StateFileAssumption DEF NoField
  <1>2. PICK first \in {None, Legacy}, more \in BOOLEAN :
          disk = [active |-> First,
                  projects |-> [x \in Projects |-> IF x = First \/ more THEN NoField ELSE None],
                  bots |-> [b \in Bots |-> IF b = Default THEN first ELSE None]]
    BY DEF Init
  <1>3. disk \in Good
    BY <1>1, <1>2, FirstIsProject DEF Good, Document, Known
  <1>4. Sole(disk)
    BY <1>1, <1>2 DEF Sole, HasBot, Orphan, Eligible
  <1> QED
    BY <1>3, <1>4 DEF Init, TypeInv, Ahead, Grown

LEMMA TypeStep == TypeInv /\ Ahead /\ [Next]_vars => TypeInv' /\ Ahead'
  <1> SUFFICES ASSUME TypeInv, Ahead, [Next]_vars PROVE TypeInv' /\ Ahead'
    OBVIOUS
  <1> USE DEF TypeInv, Ahead
  <1>1. ASSUME NEW p \in Processes, Command(p)
        PROVE  TypeInv' /\ Ahead'
    <2>1. PICK doc \in {mem[p], disk}, next \in Good : Edit(doc, next) /\ ChangeOf(p, doc, next)
      BY <1>1, CommandEdits DEF Edits
    <2>2. Normal(next) \in Good /\ Grown(doc, Normal(next)) /\ doc \in Good
      BY <2>1, NormalIsGood DEF Good, Edit, Grown
    <2> QED
      BY <2>1, <2>2 DEF ChangeOf, history
  <1>2. ASSUME NEW p \in Processes, Read(p)
        PROVE  TypeInv' /\ Ahead'
    BY <1>2 DEF Read, Load, Grown
  <1>3. ASSUME NEW p \in Processes, ReadAgain(p)
        PROVE  TypeInv' /\ Ahead'
    BY <1>3 DEF ReadAgain
  <1>4. ASSUME NEW p \in Processes, Replace(p)
        PROVE  TypeInv' /\ Ahead'
    <2>1. Merge(base[p], seen[p], mem[p]) \in Good
      BY MergeGrows
    <2> QED
      BY <1>4, <2>1 DEF Replace, Load, Grown
  <1>5. ASSUME UNCHANGED vars
        PROVE  TypeInv' /\ Ahead'
    BY <1>5 DEF vars, Grown, Known
  <1> QED
    BY <1>1, <1>2, <1>3, <1>4, <1>5 DEF Next, Command

\* StateFile, TypeOK: the file and every copy are documents whose active project
\* is there, although a race may lose a project that was just made.
THEOREM StateTypes == Spec => []TypeOK
  <1>1. TypeInv => TypeOK
    BY DEF TypeInv, TypeOK, Good
  <1> QED
    BY <1>1, TypeInit, TypeStep, PTL DEF Spec

-----------------------------------------------------------------------------
(***************************************************************************)
(* One owner: whatever replaces the file was normalised.                   *)
(***************************************************************************)
LEMMA SoleStep == TypeInv /\ Ahead /\ Sole(disk) /\ [Next]_vars => Sole(disk)'
  <1> SUFFICES ASSUME TypeInv, Ahead, Sole(disk), [Next]_vars
               PROVE  Sole(disk')
    OBVIOUS
  <1>1. ASSUME NEW p \in Processes, Replace(p)
        PROVE  Sole(disk')
    BY <1>1, MergeGrows DEF Replace, TypeInv, Ahead
  <1>2. ASSUME NEW p \in Processes, Command(p)
        PROVE  disk' = disk
    BY <1>2, CommandEdits DEF Edits, ChangeOf
  <1>3. CASE disk' = disk
    BY <1>3
  <1> QED
    BY <1>1, <1>2, <1>3 DEF Next, Command, Read, ReadAgain, vars

\* StateFile, OneOwner: in the file no two enabled bots share a project, the
\* floating place or an identity, whatever processes made of it at one time.
THEOREM OneBotPerProject == Spec => []OneOwner
  <1>1. Sole(disk) => OneOwner
    BY DEF Sole, OneOwner
  <1> QED
    BY <1>1, TypeInit, TypeStep, SoleStep, PTL DEF Spec

-----------------------------------------------------------------------------
(***************************************************************************)
(* Changes in force.  As long as no file was replaced that had changed     *)
(* since it was read, the file knows the projects that any copy came from, *)
(* and a key that its process did not touch is taken from the file.        *)
(***************************************************************************)
Current ==
    ~raced => /\ \A p \in Processes : Grown(base[p], disk)
              /\ \A x \in Projects, f \in Fields :
                   Known(disk, x) => disk.projects[x][f] = said[<<x, f>>]

LEMMA CurrentInit == Init => Current
  <1> SUFFICES ASSUME Init PROVE Current
    OBVIOUS
  <1>1. disk.projects \in [Projects -> {NoField, None}]
    BY DEF Init
  <1>2. \A p \in Processes : Grown(base[p], disk)
    BY DEF Init, Grown
  <1>3. ASSUME NEW x \in Projects, NEW f \in Fields, Known(disk, x)
        PROVE  disk.projects[x][f] = said[<<x, f>>]
    BY <1>1, <1>3 DEF Init, Known, NoField
  <1> QED
    BY <1>2, <1>3 DEF Current

\* What a merge makes of a key is what was said of it.
LEMMA MergedKey ==
    ASSUME TypeInv, Ahead, Current, NEW p \in Processes, Replace(p), ~raced',
           NEW x \in Projects, NEW f \in Fields, Known(disk', x)
    PROVE  disk'.projects[x][f] = said'[<<x, f>>]
  <1> DEFINE b == base[p].projects[x]
             c == disk.projects[x]
             n == mem[p].projects[x]
             k == <<x, f>>
  <1>1. ~raced /\ seen[p] = disk
    BY DEF Replace, Note
  <1>2. base[p] \in Good /\ disk \in Good /\ mem[p] \in Good /\ Grown(base[p], mem[p])
    BY DEF TypeInv, Ahead
  <1>3. b \in ProjectValue /\ c \in ProjectValue /\ n \in ProjectValue
    BY <1>2, DocumentParts DEF Good
  <1>4. disk'.projects[x] = MergeKey(b, c, n, None) /\ MergeKey(b, c, n, None) # None
    <2>1. disk' = Merge(base[p], disk, mem[p])
      BY <1>1 DEF Replace
    <2>2. disk'.projects = Raw(base[p], disk, mem[p]).projects
      BY <1>2, <2>1, MergeGrows
    <2>3. disk'.projects[x] = MergeKey(b, c, n, None)
      BY <2>2 DEF Raw
    <2> QED
      BY <2>3 DEF Known
  <1>5. /\ b # None => n # None /\ c # None
        /\ c # None => c[f] = said[k]
    BY <1>1, <1>2 DEF Current, Grown, Known
  <1>6. said'[k] = IF k \in Touched(p) THEN n[f] ELSE said[k]
    BY DEF Replace, Note
  <1>7. k \in Touched(p) <=> n # None /\ (b # None => n[f] # b[f])
    BY DEF Touched, Known
  <1>8. CASE n = None
    BY <1>4, <1>5, <1>6, <1>7, <1>8 DEF MergeKey
  <1>9. CASE n # None /\ b = n
    BY <1>4, <1>5, <1>6, <1>7, <1>9 DEF MergeKey
  <1>10. CASE n # None /\ b # n /\ b = None
    BY <1>4, <1>6, <1>7, <1>10 DEF MergeKey, MergeRecord
  <1>11. CASE n # None /\ b # n /\ b # None
    <2>1. n \in [Fields -> 0..1]
      BY <1>3, <1>11 DEF ProjectValue
    <2>2. disk'.projects[x] = [g \in DOMAIN n |-> MergeLeaf(b[g], c[g], n[g])]
      BY <1>4, <1>5, <1>11 DEF MergeKey, MergeRecord
    <2>3. disk'.projects[x][f] = IF b[f] = n[f] THEN c[f] ELSE n[f]
      BY <2>1, <2>2 DEF MergeLeaf
    <2> QED
      BY <1>5, <1>6, <1>7, <1>11, <2>3
  <1> QED
    BY <1>8, <1>9, <1>10, <1>11

LEMMA CurrentStep == TypeInv /\ Ahead /\ Current /\ [Next]_vars => Current'
  <1> SUFFICES ASSUME TypeInv, Ahead, Current, [Next]_vars, ~raced'
               PROVE  Current'
    BY DEF Current
  <1>1. ASSUME NEW p \in Processes, Command(p)
        PROVE  Current'
    <2>1. PICK doc \in {mem[p], disk}, next \in Good : Edit(doc, next) /\ ChangeOf(p, doc, next)
      BY <1>1, CommandEdits DEF Edits
    <2>2. Grown(doc, disk)
      BY <2>1 DEF ChangeOf, TypeInv, Current, history, Grown
    <2> QED
      BY <2>1, <2>2 DEF ChangeOf, TypeInv, Current, history, Grown, Known
  <1>2. ASSUME NEW p \in Processes, Read(p)
        PROVE  Current'
    BY <1>2 DEF Read, Load, TypeInv, Current, history, Grown, Known
  <1>3. ASSUME NEW p \in Processes, ReadAgain(p)
        PROVE  Current'
    BY <1>3 DEF ReadAgain, Current, history, Grown, Known
  <1>4. ASSUME NEW p \in Processes, Replace(p)
        PROVE  Current'
    <2>1. ~raced /\ seen[p] = disk
      BY <1>4 DEF Replace, Note
    <2>2. Grown(disk, disk')
      BY <1>4, <2>1, MergeGrows DEF Replace, TypeInv, Ahead
    <2>3. ASSUME NEW q \in Processes
          PROVE  Grown(base'[q], disk')
      <3>1. Grown(base[q], disk)
        BY <2>1 DEF Current
      <3>2. base'[q] = base[q] \/ base'[q] = disk'
        BY <1>4 DEF Replace, Load, TypeInv
      <3> QED
        BY <2>2, <3>1, <3>2 DEF Grown
    <2>4. \A x \in Projects, f \in Fields :
            Known(disk', x) => disk'.projects[x][f] = said'[<<x, f>>]
      BY <1>4, MergedKey
    <2> QED
      BY <2>3, <2>4 DEF Current, Grown, Known
  <1>5. ASSUME UNCHANGED vars
        PROVE  Current'
    BY <1>5 DEF vars, Current, Grown, Known
  <1> QED
    BY <1>1, <1>2, <1>3, <1>4, <1>5 DEF Next, Command

\* StateFile, InForce: the last change saved for a key of a project is in force,
\* however old the copies are that other processes save.
THEOREM ChangesStayInForce == Spec => []InForce
  <1>1. Current => InForce
    BY DEF Current, InForce
  <1> QED
    BY <1>1, TypeInit, TypeStep, CurrentInit, CurrentStep, PTL DEF Spec

-----------------------------------------------------------------------------
(***************************************************************************)
(* Pairing.  A bot that was never merged from two processes' changes is,   *)
(* in the file and in every copy, one that a command made or kept.         *)
(***************************************************************************)
Paired ==
    \A b \in Bots \ mixed :
      /\ Coherent(disk, b)
      /\ \A p \in Processes : Coherent(base[p], b) /\ Coherent(mem[p], b) /\ Coherent(seen[p], b)

LEMMA PairedInit == Init => Paired
  <1> SUFFICES ASSUME Init PROVE Paired
    OBVIOUS
  <1>1. disk.bots \in [Bots -> {None, Legacy}]
    BY DEF Init
  <1>2. \A b \in Bots : Coherent(disk, b)
    BY <1>1, LegacyIsPaired DEF Coherent, HasBot
  <1> QED
    BY <1>2 DEF Init, Paired

\* What a merge makes of a bot that only one of the two has changed.
LEMMA MergedPairing ==
    ASSUME NEW d \in Good, NEW e \in Good, NEW g \in Good, NEW i \in Bots,
           Coherent(d, i), Coherent(e, i), Coherent(g, i),
           d.bots[i] = e.bots[i] \/ d.bots[i] = g.bots[i]
    PROVE  Coherent(Raw(d, e, g), i)
  <1> DEFINE b == d.bots[i]
             c == e.bots[i]
             n == g.bots[i]
             m == MergeKey(b, c, n, NewProfile)
  <1>1. b \in Bot /\ c \in Bot /\ n \in Bot
    BY DocumentParts DEF Good
  <1>2. Raw(d, e, g).bots[i] = m
    BY DEF Raw
  <1>3. /\ b # None => Match(b)
        /\ c # None => Match(c)
        /\ n # None => Match(n)
        /\ Match(NewProfile)
    BY NewIsUnpaired DEF Coherent, HasBot, Match
  <1>4. CASE n = None \/ b = n
    BY <1>1, <1>2, <1>3, <1>4 DEF MergeKey, Coherent, HasBot
  <1>5. CASE n # None /\ b # n
    <2>1. b = c
      BY <1>5
    <2>2. CASE b = None
      BY <1>2, <1>3, <1>5, <2>1, <2>2 DEF MergeKey, MergeRecord, Coherent, HasBot
    <2>3. CASE b # None
      <3>1. b \in Profile /\ n \in Profile
        BY <1>1, <1>5, <2>3 DEF Bot
      <3>2. m = [f \in DOMAIN n |-> MergeLeaf(b[f], c[f], n[f])]
        BY <1>5, <2>1, <2>3 DEF MergeKey, MergeRecord
      <3>3. DOMAIN n = {"enabled", "scope", "project", "who", "chat", "code", "paired", "noted"}
        BY <3>1 DEF Profile
      <3>4. m.paired = n.paired /\ m.chat = n.chat /\ m.code = n.code
        BY <2>1, <3>2, <3>3 DEF MergeLeaf
      <3> QED
        BY <1>2, <1>3, <1>5, <3>4 DEF Match, Coherent
    <2> QED
      BY <2>2, <2>3
  <1> QED
    BY <1>4, <1>5

LEMMA PairedStep == TypeInv /\ Ahead /\ Paired /\ [Next]_vars => Paired'
  <1> SUFFICES ASSUME TypeInv, Ahead, Paired, [Next]_vars PROVE Paired'
    OBVIOUS
  <1>1. ASSUME NEW p \in Processes, Command(p)
        PROVE  Paired'
    <2>1. PICK doc \in {mem[p], disk}, next \in Good : Edit(doc, next) /\ ChangeOf(p, doc, next)
      BY <1>1, CommandEdits DEF Edits
    <2>2. ASSUME NEW b \in Bots \ mixed
          PROVE  Coherent(doc, b) /\ Coherent(Normal(next), b)
      BY <2>1, NormalIsGood DEF Paired, Edit, Good
    <2> QED
      BY <2>1, <2>2 DEF ChangeOf, TypeInv, Paired, history, Coherent, HasBot
  <1>2. ASSUME NEW p \in Processes, Read(p)
        PROVE  Paired'
    BY <1>2 DEF Read, Load, TypeInv, Paired, history, Coherent, HasBot
  <1>3. ASSUME NEW p \in Processes, ReadAgain(p)
        PROVE  Paired'
    BY <1>3 DEF ReadAgain, TypeInv, Paired, history, Coherent, HasBot
  <1>4. ASSUME NEW p \in Processes, Replace(p)
        PROVE  Paired'
    <2> DEFINE merged == Merge(base[p], seen[p], mem[p])
    <2>1. ASSUME NEW b \in Bots \ mixed'
          PROVE  b \notin mixed /\ Coherent(merged, b)
      <3>1. /\ b \in Bots \ mixed
            /\ base[p].bots[b] = seen[p].bots[b] \/ base[p].bots[b] = mem[p].bots[b]
        BY <1>4, <2>1 DEF Replace, Note
      <3>2. Coherent(Raw(base[p], seen[p], mem[p]), b)
        BY <3>1, MergedPairing DEF TypeInv, Paired
      <3> QED
        BY <3>1, <3>2, MergeGrows DEF TypeInv, Ahead
    <2>2. disk' = merged
      BY <1>4 DEF Replace
    <2>3. ASSUME NEW q \in Processes
          PROVE  /\ base'[q] \in {base[q], merged} /\ mem'[q] \in {mem[q], merged}
                 /\ seen'[q] \in {seen[q], merged}
      BY <1>4 DEF Replace, Load, TypeInv
    <2> HIDE DEF merged
    <2> QED
      BY <2>1, <2>2, <2>3 DEF Paired, Coherent, HasBot
  <1>5. ASSUME UNCHANGED vars
        PROVE  Paired'
    BY <1>5 DEF vars, Paired, Coherent, HasBot
  <1> QED
    BY <1>1, <1>2, <1>3, <1>4, <1>5 DEF Next, Command

\* StateFile, PairedWithItsChat: a paired bot is paired with the chat that
\* confirmed it, unless two processes changed that bot at one time.
THEOREM PairingsHold == Spec => []PairedWithItsChat
  <1>1. Paired => PairedWithItsChat
    BY DEF Paired, PairedWithItsChat, Coherent, Match
  <1> QED
    BY <1>1, TypeInit, TypeStep, PairedInit, PairedStep, PTL DEF Spec
=============================================================================
