------------------------------ MODULE Launcher ------------------------------
(***************************************************************************)
(* Preparing the game launcher: the launcher and settings handlers of      *)
(* src/src/app.rs over src/src/launch.rs, process_env.rs and config.rs.    *)
(*                                                                         *)
(* The game writes its TLS secrets to the file that SSLKEYLOGFILE names in *)
(* its environment, which it has from its launcher.  So the app restarts   *)
(* Steam or the Epic launcher with that variable set to a key file, which  *)
(* is the user's own when there is one and the app's otherwise, and its    *)
(* capture reads that file.  What the hub shows says how far this got, and *)
(* its buttons are the way on.                                             *)
(*                                                                         *)
(* Launchers are started and closed by the user as well, key files come    *)
(* and go, the registry changes, and the app itself ends at any moment,    *)
(* also between two steps of saving its configuration.                     *)
(* The app is assumed to be elevated, with a network adapter; the account  *)
(* session and the capture itself are other modules, and this one has only *)
(* what the hub shows of the first and which file the second reads.        *)
(***************************************************************************)
EXTENDS Naturals, FiniteSets

CONSTANTS
    Installed,    \* stores that have the game
    Launchers,    \* stores whose launcher is on this machine
    Offered,      \* platforms the user picks from
    UserFiles,    \* key files of the user's own
    Sessions,     \* what the account session may be seen in
    MaxProcs,     \* bound on the processes of a launcher
    SaveMayFail   \* whether config::save may report an error

Stores == {"Steam", "Epic"}

\* The parts of the session that hub_state tells apart: "playing" is the game
\* running or its token captured, before anything was submitted.
AllSessions == {"signed_out", "signing_in", "attention", "updating", "synced",
                "playing", "waiting"}

None == "none"
Platforms == {"Auto", "Steam", "Epic", "Direct"}

ASSUME LauncherAssumption ==
    /\ Installed \subseteq Stores
    /\ Launchers \subseteq Stores
    /\ Offered \subseteq Platforms
    /\ UserFiles \cap {"app", "unset", "error", None} = {}
    /\ Sessions \subseteq AllSessions
    /\ "waiting" \in Sessions
    /\ MaxProcs \in Nat \ {0}
    /\ SaveMayFail \in BOOLEAN

\* A game path is known by the store whose library it is in.
Configs == [platform : Platforms, game : Stores \cup {None}]
DefaultConfig == [platform |-> "Auto", game |-> None]
NoFile == [platform |-> None, game |-> None]
HalfWritten == [platform |-> "?", game |-> None]

\* A source of keys, by its kind and its file.
Source(kind, path) == [kind |-> kind, path |-> path]
OwnSource == Source("AppOwned", "app")
Sources == [kind : {"ProcessEnv", "Registry"}, path : UserFiles] \cup {OwnSource}
NoSource == Source(None, None)

Statuses == {"NotRunning", "Ready", "NeedsRestart", "Unknown"}

\* resolve_platform
Resolve(c) ==
    IF c.platform # "Auto" THEN c.platform
    ELSE IF c.game = "Epic" THEN "Epic" ELSE "Steam"

VARIABLES
    procs,        \* SSLKEYLOGFILE of each running process of a launcher
    registry,     \* SSLKEYLOGFILE in the user's environment
    files,        \* the key files
    disk,         \* config.json, and the file it is written to first
    saved,        \* the configuration whose save last came to its end
    alive,        \* there is a process of the app
    opened,       \* its new() has returned
    ownEnv,       \* SSLKEYLOGFILE in the environment it was started with
    config,       \* in its memory
    source,       \* sync_key_source
    status,       \* launcher_readiness
    wasReady,     \* launcher_was_ready
    forceClose,   \* force_close_available
    pc,           \* where a call that takes several steps is
    capture,      \* the key file of the capture, if there is one
    session       \* of AllSessions

osVars == <<procs, registry, files>>
diskVars == <<disk, saved>>
appVars == <<alive, opened, ownEnv>>
hubVars == <<status, wasReady, forceClose>>
vars == <<osVars, diskVars, appVars, config, source, hubVars, pc, capture,
          session>>

Paths == UserFiles \cup {"app"}
UserValues == UserFiles \cup {"unset"}
EnvValues == Paths \cup {"unset"}

\* Where the call is: in config::save or in launch::prepare_launcher.
SavePcs == {"writing", "renaming"}
PreparePcs == {"closing", "killing", "starting"}
Pcs == {"idle"} \cup SavePcs \cup PreparePcs

TypeOK ==
    /\ procs \in [Stores -> SUBSET EnvValues]
    /\ registry \in UserValues
    /\ files \in [Paths -> {"absent", "empty", "keys"}]
    /\ disk \in [{"config.json", "config.json.tmp"} ->
                     Configs \cup {NoFile, HalfWritten}]
    /\ saved \in Configs \cup {NoFile}
    /\ alive \in BOOLEAN
    /\ opened \in BOOLEAN
    /\ ownEnv \in UserValues
    /\ config \in Configs
    /\ source \in Sources \cup {NoSource}
    /\ status \in Statuses
    /\ wasReady \in BOOLEAN
    /\ forceClose \in IF Resolve(config) \in Stores THEN BOOLEAN ELSE {FALSE}
    /\ pc \in Pcs
    /\ capture \in Paths \cup {None}
    /\ session \in Sessions

-----------------------------------------------------------------------------
(* Operators of launch.rs and config.rs.                                   *)

\* validate_game_executable
ValidGame(c) == c.game \in Installed

\* game_ready_for_platform
GameReady(c) == Resolve(c) = "Steam" \/ ValidGame(c)

\* resolve_sync_key_source: an override counts only when its file is there.
Usable(value) == value \in UserFiles /\ files[value] # "absent"

Resolved(env) ==
    IF Usable(env) THEN Source("ProcessEnv", env)
    ELSE IF Usable(registry) THEN Source("Registry", registry) ELSE OwnSource

\* (Faulty variant.)  A child environment that is set for the app's own file only.
ChildEnvOwnedOnly(src) == IF src = OwnSource THEN "app" ELSE ownEnv

\* The environment a launcher gets from the app: its own one, with the
\* variable set when needs_explicit_child_env.
ChildEnv(src) ==
    IF src.kind \in {"Registry", "AppOwned"} THEN src.path ELSE ownEnv

\* find_processes, for the launcher of the configuration c.
Running(ps, c) == ps[Resolve(c)]

\* process_environment_value: the block of another process may be out of reach,
\* which is an error on Windows and no such variable on Linux, or cut short.
Readings(env) == {env, "unset", "error"}

\* launcher_readiness, with what was read of all processes.
StatusOf(readings, path) ==
    IF path \in readings THEN "Ready"
    ELSE IF "error" \in readings THEN "Unknown" ELSE "NeedsRestart"

\* What launcher_readiness may return; finding the processes may fail.
ReadinessSeen(ps, c, src) ==
    IF src = NoSource THEN {"Unknown"}
    ELSE IF Resolve(c) = "Direct" THEN {"Ready"}
    ELSE IF Running(ps, c) = {} THEN {"NotRunning", "Unknown"}
    ELSE {"Unknown"} \cup
         {StatusOf({read[env] : env \in Running(ps, c)}, src.path) :
             read \in {f \in [Running(ps, c) -> EnvValues \cup {"error"}] :
                          \A env \in Running(ps, c) : f[env] \in Readings(env)}}

\* config::load
Load(d) == IF d \in Configs THEN d ELSE DefaultConfig

\* The choice new() makes for a first run.
FirstRun(c) ==
    IF c # DefaultConfig THEN c
    ELSE IF "Steam" \in Installed THEN [c EXCEPT !.platform = "Steam"]
    ELSE IF "Epic" \in Installed THEN [platform |-> "Epic", game |-> "Epic"]
    ELSE c

\* launcher_ready
LauncherReady == status = "Ready" \/ Resolve(config) = "Direct"

\* hub_state, from the account's part of it on.
LauncherState ==
    IF ~GameReady(config) THEN "SelectGame"
    ELSE IF forceClose THEN "CloseLauncher"
    ELSE IF pc \in PreparePcs THEN "PreparingLauncher"
    ELSE IF LauncherReady
         THEN IF session = "playing" THEN "Connecting" ELSE "LauncherReady"
    ELSE IF wasReady THEN "NeedsLauncher" ELSE "PrepareLauncher"

HubState ==
    CASE session = "signing_in" -> "SigningIn"
      [] session = "signed_out" -> "SignedOut"
      [] session = "attention" -> "NeedsAttention"
      [] session = "synced" -> "Synced"
      [] session = "updating" -> "Updating"
      [] OTHER -> LauncherState

Init ==
    /\ procs \in [Stores -> {{}, {"unset"}}]
    /\ \A s \in Stores \ Launchers : procs[s] = {}
    /\ registry \in UserValues
    /\ files \in [Paths -> {"absent", "keys"}]
    /\ files["app"] = "absent"
    /\ saved \in {NoFile} \cup [platform : Launchers \cup Offered, game : {None}]
    /\ disk = [file \in {"config.json", "config.json.tmp"} |->
                  IF file = "config.json" THEN saved ELSE NoFile]
    /\ alive = FALSE
    /\ opened = FALSE
    /\ ownEnv = "unset"
    /\ config = DefaultConfig
    /\ source = NoSource
    /\ status = "Unknown"
    /\ wasReady = FALSE
    /\ forceClose = FALSE
    /\ pc = "idle"
    /\ capture = None
    /\ session = "waiting"

-----------------------------------------------------------------------------
(* Faulty variants of definitions below.                                   *)

\* Every key file is emptied before a launch.
TruncatedAny(src) == [files EXCEPT ![src.path] = "empty"]

\* The file that is written first is the one to be replaced.
TmpPathSame == "config.json"

\* A source that changes under a capture that goes on.
SettingsKeepCapture == UNCHANGED <<capture, session>>

\* A readiness that is only looked at until it is there.
CheckUntilReady ==
    /\ alive /\ pc = "idle"
    /\ status # "Ready"
    /\ status' \in ReadinessSeen(procs, config, source)
    /\ wasReady' = (wasReady \/ status' = "Ready" \/ Resolve(config) = "Direct")
    /\ UNCHANGED <<osVars, diskVars, appVars, config, source, forceClose, pc,
                   capture, session>>

\* Another launcher is picked, and it is still asked to close.
SetLauncherKeepsForceClose(p) ==
    /\ alive /\ pc = "idle"
    /\ p # config.platform
    /\ config' = IF p = "Epic" /\ config.game = None /\ "Epic" \in Installed
                 THEN [platform |-> p, game |-> "Epic"]
                 ELSE [config EXCEPT !.platform = p]
    /\ pc' = "writing"
    /\ disk' = [disk EXCEPT !["config.json.tmp"] = HalfWritten]
    /\ UNCHANGED <<osVars, saved, appVars, source, hubVars, capture, session>>

\* A launcher that was prepared at last and is still asked to close.
ReadyKeepsForceClose ==
    /\ pc' = "idle"
    /\ wasReady' = TRUE
    /\ UNCHANGED forceClose

-----------------------------------------------------------------------------
(* The user, the launchers and the game.                                   *)

\* The user starts it, with the environment the registry gives.
UserStartsLauncher(s) ==
    /\ Cardinality(procs[s]) < MaxProcs
    /\ procs' = [procs EXCEPT ![s] = @ \cup {registry}]
    /\ UNCHANGED <<registry, files, diskVars, appVars, config, source, hubVars,
                   pc, capture, session>>

\* It ends: on its own, by the user, or because the app asked or killed it.
LauncherExits(s) ==
    /\ \E env \in procs[s] : procs' = [procs EXCEPT ![s] = @ \ {env}]
    /\ UNCHANGED <<registry, files, diskVars, appVars, config, source, hubVars,
                   pc, capture, session>>

\* A game of that launcher creates the file it was told, or appends to it.
GameWrites(s) ==
    /\ \E path \in procs[s] \cap Paths : files' = [files EXCEPT ![path] = "keys"]
    /\ UNCHANGED <<procs, registry, diskVars, appVars, config, source, hubVars,
                   pc, capture, session>>

\* The user sets or removes the variable, or makes or deletes a file of his.
UserChangesOverride ==
    /\ \/ /\ registry' \in UserValues \ {registry}
          /\ UNCHANGED files
       \/ /\ \E file \in UserFiles :
                files' = [files EXCEPT ![file] =
                             IF @ = "absent" THEN "keys" ELSE "absent"]
          /\ UNCHANGED registry
    /\ UNCHANGED <<procs, diskVars, appVars, config, source, hubVars, pc,
                   capture, session>>

\* What the account session does meanwhile.
SessionMoves ==
    /\ alive /\ pc = "idle"
    /\ session' \in Sessions \ {session}
    /\ UNCHANGED <<osVars, diskVars, appVars, config, source, hubVars, pc,
                   capture>>

-----------------------------------------------------------------------------
(* Parts of the handlers.                                                  *)

\* The file config::save writes before it renames it to config.json.
TmpPath == "config.json.tmp"

\* config::save begins: fs::write creates that file, or empties what an earlier
\* save left of it.
SaveBegins ==
    /\ pc' = "writing"
    /\ disk' = [disk EXCEPT ![TmpPath] = HalfWritten]

\* refresh_launcher_readiness
RefreshReadiness(ps, c, src) ==
    /\ status' \in ReadinessSeen(ps, c, src)
    /\ wasReady' = (wasReady \/ status' = "Ready" \/ Resolve(c) = "Direct")

\* maybe_start_background_capture.  It is not up to this module whether sync is
\* paused, capture blocked or an adapter there.
Started(cap, src, fs) ==
    {cap} \cup {path \in Paths :
                   cap = None /\ path = src.path /\ fs[path] # "absent"}

\* capture_settings_changed
SettingsChanged ==
    /\ capture' = None
    /\ session' = IF session \in {"synced", "attention"} THEN "waiting" ELSE session

\* set_launcher's new configuration.
WithPlatform(p) ==
    IF p = "Epic" /\ config.game = None /\ "Epic" \in Installed
    THEN [platform |-> p, game |-> "Epic"]
    ELSE [config EXCEPT !.platform = p]

\* browse_game_executable's.
WithGame(g) == [platform |-> Resolve([config EXCEPT !.game = g]), game |-> g]

\* prepare_sync_key_for_launch
Truncated(src) ==
    IF src.kind = "AppOwned" THEN [files EXCEPT ![src.path] = "empty"] ELSE files

-----------------------------------------------------------------------------
(* The process of the app.                                                 *)

\* The part of new() behind its configuration.
Opens(env, c) ==
    /\ pc' = "idle"
    /\ opened' = TRUE
    /\ source' \in {Resolved(env), NoSource}
    /\ status' \in ReadinessSeen(procs, c, source')
    /\ wasReady' = (status' = "Ready")

\* new() loads the configuration and saves what a first run chose.  What is in
\* the environment is the user's, or that of the process an update replaced.
Start ==
    /\ ~alive
    /\ alive' = TRUE
    /\ ownEnv' \in UserValues
    /\ config' = FirstRun(Load(disk["config.json"]))
    /\ IF config' = Load(disk["config.json"])
       THEN Opens(ownEnv', config') /\ UNCHANGED disk
       ELSE SaveBegins /\ UNCHANGED <<opened, source, status, wasReady>>
    /\ session' \in Sessions \cap {"waiting", "signed_out"}
    /\ UNCHANGED <<osVars, saved, forceClose, capture>>

\* Nothing of the process is left.
Gone ==
    /\ alive' = FALSE
    /\ opened' = FALSE
    /\ ownEnv' = "unset"
    /\ config' = DefaultConfig
    /\ source' = NoSource
    /\ status' = "Unknown"
    /\ wasReady' = FALSE
    /\ forceClose' = FALSE
    /\ pc' = "idle"
    /\ capture' = None
    /\ session' = "waiting"

\* shutdown_cleanup: clear_app_owned_sync_key may fail, and nobody looks.
Quit ==
    /\ alive /\ pc = "idle"
    /\ files' \in {files, [files EXCEPT !["app"] = "absent"]}
    /\ Gone
    /\ UNCHANGED <<procs, registry, diskVars>>

\* The process ends in the middle of whatever it is doing.
Crash ==
    /\ alive
    /\ Gone
    /\ UNCHANGED <<osVars, diskVars>>

-----------------------------------------------------------------------------
(* config::save, within new() or a handler that has the app's lock: nothing *)
(* else of the app happens until it returns.                               *)

\* The file has all of it.
SaveWrites ==
    /\ pc = "writing"
    /\ disk' = [disk EXCEPT ![TmpPath] = config]
    /\ pc' = "renaming"
    /\ UNCHANGED <<osVars, saved, appVars, config, source, hubVars, capture, session>>

\* The rest of new(), or refresh_launcher_readiness that ends the handlers.
SaveReturns ==
    /\ IF opened
       THEN /\ RefreshReadiness(procs, config, source)
            /\ pc' = "idle"
            /\ UNCHANGED <<opened, source>>
       ELSE Opens(ownEnv, config)
    /\ UNCHANGED <<osVars, alive, ownEnv, config, forceClose, capture, session>>

\* The rename puts it in the place of config.json, in one step.
SaveRenames ==
    /\ pc = "renaming"
    /\ disk' = [disk EXCEPT ![TmpPath] = NoFile, !["config.json"] = disk[TmpPath]]
    /\ saved' = config
    /\ SaveReturns

\* The write or the rename fails, which leaves at most a message.  The file is
\* removed, if it can be.
SaveFails ==
    /\ SaveMayFail
    /\ pc \in SavePcs
    /\ disk' \in {disk, [disk EXCEPT ![TmpPath] = NoFile]}
    /\ SaveReturns
    /\ UNCHANGED saved

-----------------------------------------------------------------------------
(* In the background.                                                      *)

\* The two-second check of run_background_work.
CheckReadiness ==
    /\ alive /\ pc = "idle"
    /\ RefreshReadiness(procs, config, source)
    /\ UNCHANGED <<osVars, diskVars, appVars, config, source, forceClose, pc,
                   capture, session>>

\* The last line of run_background_work finds the key file there.
StartCapture ==
    /\ alive /\ pc = "idle"
    /\ capture = None
    /\ capture' \in Started(capture, source, files) \ {None}
    /\ UNCHANGED <<osVars, diskVars, appVars, config, source, hubVars, pc,
                   session>>

\* It is paused, fails, or is dropped by a change of adapter or method.
CaptureEnds ==
    /\ alive /\ pc = "idle"
    /\ capture # None
    /\ capture' = None
    /\ UNCHANGED <<osVars, diskVars, appVars, config, source, hubVars, pc,
                   session>>

-----------------------------------------------------------------------------
(* The hub and the settings.                                               *)

\* set_launcher, from the settings or from the hub's toggle, into save_config.
SetLauncher(p) ==
    /\ alive /\ pc = "idle"
    /\ p # config.platform
    /\ config' = WithPlatform(p)
    /\ forceClose' = FALSE
    /\ SaveBegins
    /\ UNCHANGED <<osVars, saved, appVars, source, status, wasReady, capture, session>>

\* browse_game_executable, from the settings or from the SelectGame button, into
\* save_config.
BrowseGame(g) ==
    /\ alive /\ pc = "idle"
    /\ config' = WithGame(g)
    /\ SaveBegins
    /\ UNCHANGED <<osVars, saved, appVars, source, hubVars, capture, session>>

\* refresh_sync_key_source that resolves to another source, of the same file or
\* not, or to none: the capture starts anew.
SourceChanges(src) ==
    /\ src # source \/ src = NoSource
    /\ source' = src
    /\ SettingsChanged
    /\ RefreshReadiness(procs, config, src)

\* The Refresh button of the settings.
RefreshSource ==
    /\ alive /\ pc = "idle"
    /\ \E src \in {Resolved(ownEnv), NoSource} : SourceChanges(src)
    /\ UNCHANGED <<osVars, diskVars, appVars, config, forceClose, pc>>

\* Try again, of NeedsAttention.
TryAgain ==
    /\ alive /\ pc = "idle"
    /\ session = "attention"
    /\ \/ \E src \in {Resolved(ownEnv), NoSource} : SourceChanges(src)
       \/ /\ source = Resolved(ownEnv)
          /\ capture' \in Started(capture, source, files)
          /\ session' \in Sessions \cap {"waiting", "updating"}
          /\ UNCHANGED <<source, status, wasReady>>
    /\ UNCHANGED <<osVars, diskVars, appVars, config, forceClose, pc>>

-----------------------------------------------------------------------------
(* prepare_launcher.  It runs on the UI thread with the app's lock, too.    *)

\* The button: PrepareLauncher and NeedsLauncher ask the launcher to close,
\* CloseLauncher kills it.  Without a source or the launcher's executable there
\* is only a message.
Prepare(force) ==
    /\ alive /\ pc = "idle"
    /\ HubState \in IF force THEN {"CloseLauncher"}
                    ELSE {"PrepareLauncher", "NeedsLauncher"}
    /\ source # NoSource
    /\ Resolve(config) \in Launchers
    /\ pc' = IF Running(procs, config) = {} THEN "starting"
             ELSE IF force THEN "killing" ELSE "closing"
    /\ UNCHANGED <<osVars, diskVars, appVars, config, source, hubVars, capture,
                   session>>

\* wait_until_process_exits: it is gone,
ExitSeen ==
    /\ pc \in {"closing", "killing"}
    /\ Running(procs, config) = {}
    /\ pc' = "starting"
    /\ UNCHANGED <<osVars, diskVars, appVars, config, source, hubVars, capture,
                   session>>

\* or it is not, after twenty seconds.
TimesOut ==
    /\ pc \in {"closing", "killing"}
    /\ Running(procs, config) # {}
    /\ pc' = "idle"
    /\ forceClose' = TRUE
    /\ RefreshReadiness(procs, config, source)
    /\ UNCHANGED <<osVars, diskVars, appVars, config, source, capture, session>>

\* A step of it fails: it may have closed the launcher, and emptied the file.
PrepareFails ==
    /\ pc \in PreparePcs
    /\ pc' = "idle"
    /\ files' \in {files} \cup (IF pc = "starting" THEN {Truncated(source)} ELSE {})
    /\ RefreshReadiness(procs, config, source)
    /\ UNCHANGED <<procs, registry, diskVars, appVars, config, source,
                   forceClose, capture, session>>

\* What the app notes when launch::prepare_launcher returns Ready, whatever the
\* check right after it says.
NoteReady ==
    /\ pc' = "idle"
    /\ wasReady' = TRUE
    /\ forceClose' = FALSE

\* The key file is emptied and the launcher started.  When the user was faster,
\* the second instance hands over to the first.
StartLauncher ==
    /\ pc = "starting"
    /\ files' = Truncated(source)
    /\ procs' = IF Running(procs, config) = {}
                THEN [procs EXCEPT ![Resolve(config)] = {ChildEnv(source)}]
                ELSE procs
    /\ NoteReady
    /\ status' \in ReadinessSeen(procs', config, source)
    /\ capture' \in Started(capture, source, files')
    /\ UNCHANGED <<registry, diskVars, appVars, config, source, session>>

-----------------------------------------------------------------------------
Outside ==
    \/ \E s \in Launchers : UserStartsLauncher(s) \/ LauncherExits(s) \/ GameWrites(s)
    \/ UserChangesOverride
    \/ SessionMoves

Process == Start \/ Quit \/ Crash

Saving == SaveWrites \/ SaveRenames \/ SaveFails

Background == CheckReadiness \/ StartCapture \/ CaptureEnds

Settings ==
    \/ \E p \in Offered : SetLauncher(p)
    \/ \E g \in Installed : BrowseGame(g)
    \/ RefreshSource
    \/ TryAgain

Preparing == ExitSeen \/ TimesOut \/ PrepareFails \/ StartLauncher

Next ==
    \/ Outside \/ Process \/ Saving \/ Background \/ Settings \/ Preparing
    \/ \E force \in BOOLEAN : Prepare(force)

Spec == Init /\ [][Next]_vars

\* Calls return, and run_background_work keeps running between them.  A user
\* presses the button he is shown again and again; a launcher that is killed
\* again and again dies at last before the wait is over, and what fails then
\* does not fail for ever.
KilledDies == pc = "killing" /\ LauncherExits(Resolve(config))

Fairness ==
    /\ WF_vars(CheckReadiness)
    /\ WF_vars(Saving)
    /\ WF_vars(Preparing)
    /\ SF_vars(Prepare(TRUE))
    /\ SF_vars(KilledDies)
    /\ SF_vars(ExitSeen)
    /\ SF_vars(StartLauncher)

FairSpec == Spec /\ Fairness

-----------------------------------------------------------------------------
(* Properties.                                                             *)

\* The file a capture reads is that of the source in use, whichever of the
\* buttons, checks and restarts changed the source.
CaptureReadsTheSource == capture # None => capture = source.path

\* A key log of the user's own is never emptied: "User-set Process/Registry
\* SSLKEYLOGFILE sources are never touched".
UserKeyLogKept == \A file \in UserFiles : files[file] # "empty"

\* A launcher the app starts has its game write the file of the source, also
\* when the source is an override that came after the app was started.
StartedLauncherWritesTheSource ==
    [][\A s \in Stores :
           (pc = "starting" /\ procs'[s] # procs[s] /\ pc' = "idle")
               => procs'[s] = {source'.path}]_vars

\* Wherever in a save the app ends, fails to write or is left with what an
\* earlier save left behind, the next start has the choice of the last save
\* that came to its end, and never the defaults a half-written file gives.
StartsFromSavedChoice ==
    [][(~alive /\ alive' /\ saved # NoFile) => config' = FirstRun(saved)]_vars

\* A launcher that lost its key file, since the user restarted it, is no longer
\* called ready after a while.
SaysReady == alive /\ HubState = "LauncherReady" /\ Resolve(config) # "Direct"
IsReady == source.path \in Running(procs, config)

LostReadinessIsNoticed == (SaysReady /\ ~IsReady) ~> (~SaysReady \/ IsReady)

\* The hub does not stay at "Close Steam to continue" under a user who presses
\* its only button.
CloseLauncherIsLeft ==
    (alive /\ source # NoSource /\ HubState = "CloseLauncher")
        ~> (~alive \/ source = NoSource \/ HubState # "CloseLauncher")

=============================================================================
