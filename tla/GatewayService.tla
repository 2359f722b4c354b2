--------------------------- MODULE GatewayService ---------------------------
(***************************************************************************)
(* The gateway as a background service of the user                         *)
(* (src/gateway-service.ts), the commands that start, stop, restart and    *)
(* upgrade it (src/cli.ts, src/upgrade.ts), and the supervisor they call:  *)
(* launchd, systemd or the Windows task scheduler.  A command is a series  *)
(* of steps, each of which may fail, and may be killed between two.        *)
(***************************************************************************)
EXTENDS Naturals, Sequences

CONSTANTS
    Ports,        \* the port numbers a user may ask for
    MaxRevision   \* bound: revisions published

NotANumber == 0               \* Number("--port" of no number)
None == [port |-> 0, polling |-> FALSE, is |-> FALSE]
Settings == [port: Ports \cup {NotANumber}, polling: BOOLEAN, is: {TRUE}]
Revisions == 1..MaxRevision

VARIABLES
    platform,
    saved,       \* .opencolab/gateway-service.json
    unit,        \* the plist, the unit or the script
    loaded,      \* what the supervisor goes by, None for nothing; on Windows: the task
    enabled,     \* begun at each login
    service,     \* the gateway the supervisor runs, and its settings and build
    foreground,  \* the port of a gateway in a terminal, or 0
    published,   \* origin/main, or the package's latest version
    install,     \* the checkout or package: its kind, its source and what it was built of
    command,     \* the command at work, its settings and the steps left to it
    outcome      \* history: what the last command was and how it ended

vars == <<platform, saved, unit, loaded, enabled, service, foreground, published, install, command, outcome>>

Service == [is: {"down", "waiting", "up"}, with: Settings \cup {None}, build: Revisions \cup {0}]
Down == [is |-> "down", with |-> None, build |-> 0]
StepNames == {"save", "write", "reload", "enable", "restart", "stop", "unload", "load",
              "end", "create", "run", "check", "pull", "build", "package", "smoke", "resume"}
NoCommand == [op |-> "none", settings |-> None, steps |-> <<>>, ignored |-> FALSE]

TypeOK ==
    /\ platform \in {"darwin", "linux", "win32"}
    /\ {saved, unit, loaded} \subseteq Settings \cup {None}
    /\ service \in Service /\ enabled \in BOOLEAN
    /\ foreground \in Ports \cup {0} /\ published \in Revisions
    /\ install \in [kind: {"clone", "package", "other"}, source: Revisions, built: Revisions, clean: BOOLEAN]
    /\ command.settings \in Settings \cup {None} /\ command.steps \in Seq(StepNames)
    /\ outcome \in {"none", "done"}

-----------------------------------------------------------------------------
(* What the commands are made of.                                           *)

StartSteps ==
    [darwin |-> <<"save", "write", "unload", "load">>,
     linux  |-> <<"save", "write", "reload", "enable">>,
     win32  |-> <<"save", "write", "end", "create", "run">>]
StopSteps == [darwin |-> <<"unload">>, linux |-> <<"stop">>, win32 |-> <<"end">>]

\* Mutant of RestartSteps: a unit that is enabled now needs no restart.
RestartStepsEnabled ==
    [darwin |-> StartSteps.darwin, linux |-> StartSteps.linux, win32 |-> StopSteps.win32 \o StartSteps.win32]

RestartSteps ==
    [darwin |-> <<"save">> \o StartSteps.darwin,
     linux  |-> StartSteps.linux \o <<"restart">>,
     win32  |-> <<"save">> \o StopSteps.win32 \o StartSteps.win32]

\* upgradeOpenColab: of a checkout, of a package the installer put there, and of
\* another, where the command only tells the user what to type.
UpgradeSteps ==
    [clone   |-> <<"check", "pull", "build", "smoke", "resume">>,
     package |-> <<"package", "smoke", "resume">>,
     other   |-> <<>>]

\* allowFailure.
MayFail == {"unload", "end", "stop"}

Readable(s) == s.is /\ s.port # NotANumber   \* normalizeGatewayServiceRuntimeConfig
\* readGatewayServiceRuntimeConfig: what was saved, or else the service's own unit.
RuntimeConfig ==
    CASE Readable(saved) -> saved
      [] ~Readable(saved) /\ Readable(unit) -> unit
      [] OTHER -> None

Starts(s) == [is |-> "waiting", with |-> s, build |-> 0]

-----------------------------------------------------------------------------
(* The steps.                                                               *)

Writes(step) ==
    CASE step = "save"  -> saved' = command.settings /\ UNCHANGED unit
      [] step = "write" -> unit' = command.settings /\ UNCHANGED saved
      [] OTHER          -> UNCHANGED <<saved, unit>>

\* External: what the supervisor does when it is called.  "enable --now" and
\* "load" leave a service alone that is there.
Supervisor(step) ==
    /\ loaded' = CASE step \in {"reload", "create"} -> unit
                   [] step = "load" /\ ~loaded.is   -> unit
                   [] step = "unload"               -> None
                   [] OTHER                         -> loaded
    /\ enabled' = (enabled \/ step \in {"enable", "load", "create"})
    /\ service' = CASE step \in {"unload", "end", "stop"}               -> Down
                    [] step = "enable" /\ service.is = "down"           -> Starts(loaded)
                    [] step = "load" /\ ~loaded.is                      -> Starts(unit)
                    [] step = "run" /\ service.is = "down"              -> Starts(unit)
                    [] step = "restart"                                 -> Starts(loaded)
                    [] OTHER                                            -> service

\* git fetch, checkout and pull, then pnpm install and build; or npm install.
Install(step) ==
    /\ step = "check" => install.clean
    /\ install' = CASE step = "pull"    -> [install EXCEPT !.source = published]
                    [] step = "build"   -> [install EXCEPT !.built = install.source]
                    [] step = "package" -> [install EXCEPT !.source = published, !.built = published]
                    [] OTHER            -> install

Step ==
    /\ command.steps # <<>> /\ Head(command.steps) # "resume"
    /\ LET step == Head(command.steps)
       IN  Writes(step) /\ Supervisor(step) /\ Install(step)
    /\ command' = [command EXCEPT !.steps = Tail(@)]
    /\ UNCHANGED <<platform, foreground, published, outcome>>

\* getGatewayBackgroundServiceStatus: between two tries it may be seen as not running.
SeenRunning == [down |-> {FALSE}, waiting |-> BOOLEAN, up |-> {TRUE}][service.is]

\* printUpgradeGatewayRestartSummary: a service that is not running, or whose
\* settings cannot be told, is left alone.
Resume ==
    /\ command.steps # <<>> /\ Head(command.steps) = "resume"
    /\ \E running \in SeenRunning : command' =
         IF running /\ RuntimeConfig.is
         THEN [command EXCEPT !.settings = RuntimeConfig, !.steps = RestartSteps[platform]]
         ELSE NoCommand
    /\ UNCHANGED <<platform, saved, unit, loaded, enabled, service, foreground, published, install, outcome>>

\* A step fails: the exception ends the command, or the failure is ignored.
StepFails ==
    /\ command.steps # <<>>
    /\ command' = IF Head(command.steps) \in MayFail
                  THEN [command EXCEPT !.steps = Tail(@), !.ignored = TRUE]
                  ELSE NoCommand
    /\ UNCHANGED <<platform, saved, unit, loaded, enabled, service, foreground, published, install, outcome>>

Finished ==
    /\ command.op # "none" /\ command.steps = <<>>
    /\ outcome' = IF /\ command.op \in {"restart", "upgrade"} /\ command.settings.is
                     /\ ~command.ignored
                  THEN "done" ELSE "none"
    /\ command' = NoCommand
    /\ UNCHANGED <<platform, saved, unit, loaded, enabled, service, foreground, published, install>>

-----------------------------------------------------------------------------
(* The commands.                                                            *)

Begins(op, settings, steps) ==
    /\ command = NoCommand
    /\ command' = [op |-> op, settings |-> settings, steps |-> steps, ignored |-> FALSE]
    /\ outcome' = "none"
    /\ UNCHANGED <<platform, saved, unit, loaded, enabled, service, foreground, published, install>>

StartCommand(s)   == Begins("start", s, StartSteps[platform])
StopCommand       == Begins("stop", None, StopSteps[platform])
RestartCommand(s) == Begins("restart", s, RestartSteps[platform])
UpgradeCommand    == Begins("upgrade", None, UpgradeSteps[install.kind])

\* gateway start --foreground.
Foreground(port) ==
    /\ foreground = 0 /\ ~(service.is = "up" /\ service.with.port = port)
    /\ foreground' = port
    /\ UNCHANGED <<platform, saved, unit, loaded, enabled, service, published, install, command, outcome>>

ForegroundEnds ==
    /\ foreground # 0 /\ foreground' = 0
    /\ UNCHANGED <<platform, saved, unit, loaded, enabled, service, published, install, command, outcome>>

\* startHttpServer of the service: a port that is taken or no number ends it,
\* and the supervisor tries again.
ServiceListens ==
    /\ service.is = "waiting"
    /\ service.with.port \in Ports /\ service.with.port # foreground
    /\ service' = [service EXCEPT !.is = "up", !.build = install.built]
    /\ UNCHANGED <<platform, saved, unit, loaded, enabled, foreground, published, install, command, outcome>>

ServiceDies ==
    /\ service.is = "up"
    /\ service' = Starts(IF platform = "win32" THEN service.with ELSE loaded)
    /\ UNCHANGED <<platform, saved, unit, loaded, enabled, foreground, published, install, command, outcome>>

Publish ==
    /\ published < MaxRevision /\ published' = published + 1
    /\ UNCHANGED <<platform, saved, unit, loaded, enabled, service, foreground, install, command, outcome>>

\* Somebody edits the tracked files of the checkout, or takes that back.
Edit ==
    /\ install.kind = "clone" /\ install' = [install EXCEPT !.clean = ~@]
    /\ UNCHANGED <<platform, saved, unit, loaded, enabled, service, foreground, published, command, outcome>>

\* External: the user logs in anew; what is enabled is read from its unit and
\* begun, one that was stopped too.
Login ==
    /\ foreground' = 0 /\ command' = NoCommand
    /\ IF enabled THEN loaded' = unit /\ service' = Starts(unit)
                  ELSE service' = Down /\ UNCHANGED loaded
    /\ UNCHANGED <<platform, saved, unit, enabled, published, install, outcome>>

Init ==
    /\ platform \in {"darwin", "linux", "win32"}
    /\ saved = None /\ unit = None /\ loaded = None /\ enabled = FALSE
    /\ service = Down /\ foreground = 0
    /\ published = 1
    /\ \E kind \in DOMAIN UpgradeSteps : install = [kind |-> kind, source |-> 1, built |-> 1, clean |-> TRUE]
    /\ command = NoCommand /\ outcome = "none"

Next ==
    \/ \E s \in Settings : StartCommand(s) \/ RestartCommand(s)
    \/ StopCommand \/ UpgradeCommand
    \/ Step \/ Resume \/ StepFails \/ Finished
    \/ \E port \in Ports : Foreground(port)
    \/ ForegroundEnds \/ ServiceListens \/ ServiceDies
    \/ Publish \/ Edit \/ Login

Spec == Init /\ [][Next]_vars
-----------------------------------------------------------------------------
\* After a restart, or an upgrade that restarted it, and until the next
\* command, the service runs with the settings that are saved and, but for
\* crashes and logins that read it anew, what was built last: systemd would go
\* on with the old unit, and the old process with the old code.
RestartTakesEffect ==
    outcome = "done" /\ service.is # "down" =>
        /\ service.with = saved
        /\ service.is = "up" => service.build = install.built
=============================================================================
