--------------------------- MODULE LauncherProofs ---------------------------
(* Theorems about Launcher, for any stores with the game, any launchers,    *)
(* any key files of the user's, any number of launcher processes, and saves *)
(* of the configuration that fail.                                          *)
EXTENDS Launcher, TLAPS

-----------------------------------------------------------------------------
(* The operators return what they are meant to.                            *)

LEMMA ReadinessType ==
    ASSUME NEW ps, NEW c, NEW src
    PROVE  ReadinessSeen(ps, c, src) \subseteq Statuses
<1>1. CASE src = NoSource BY <1>1 DEF ReadinessSeen, Statuses
<1>2. CASE src # NoSource /\ Resolve(c) = "Direct"
  BY <1>2 DEF ReadinessSeen, Statuses
<1>3. CASE src # NoSource /\ Resolve(c) # "Direct" /\ Running(ps, c) = {}
  BY <1>3 DEF ReadinessSeen, Statuses
<1>4. CASE src # NoSource /\ Resolve(c) # "Direct" /\ Running(ps, c) # {}
  <2>1. \A readings, path : StatusOf(readings, path) \in Statuses
    BY DEF StatusOf, Statuses
  <2> QED BY <1>4, <2>1 DEF ReadinessSeen, Statuses
<1> QED BY <1>1, <1>2, <1>3, <1>4

LEMMA ResolveType ==
    ASSUME NEW c \in Configs PROVE Resolve(c) \in Platforms \ {"Auto"}
BY DEF Configs, Resolve, Platforms

LEMMA LoadType == ASSUME NEW d PROVE Load(d) \in Configs
BY DEF Load, DefaultConfig, Configs, Platforms, Stores, None

LEMMA FirstRunType == ASSUME NEW c \in Configs PROVE FirstRun(c) \in Configs
BY DEF FirstRun, Configs, Platforms, Stores

LEMMA WithPlatformType ==
    ASSUME config \in Configs, NEW p \in Platforms
    PROVE  WithPlatform(p) \in Configs
BY DEF WithPlatform, Configs, Stores

LEMMA WithGameType ==
    ASSUME config \in Configs, NEW g \in Installed PROVE WithGame(g) \in Configs
<1>1. g \in Stores BY LauncherAssumption DEF LauncherAssumption
<1>2. [config EXCEPT !.game = g] \in Configs BY <1>1 DEF Configs
<1>3. Resolve([config EXCEPT !.game = g]) \in Platforms BY <1>2, ResolveType
<1> QED BY <1>1, <1>3 DEF WithGame, Configs

\* A game that is picked does not take a launcher away.
LEMMA WithGameKeepsStore ==
    ASSUME config \in Configs, NEW g \in Installed, Resolve(config) \in Stores
    PROVE  Resolve(WithGame(g)) \in Stores
<1>1. g \in Stores BY LauncherAssumption DEF LauncherAssumption
<1>2. WithGame(g).game = g /\ WithGame(g).platform \in Stores
  BY <1>1 DEF WithGame, Resolve, Configs, Stores
<1> QED BY <1>2 DEF Resolve, Stores

-----------------------------------------------------------------------------
(* The inductive invariant.                                                *)

\* The source is the variable of the process only if the process has it.
SourceIsInherited == source.kind = "ProcessEnv" => source.path = ownEnv

\* Without a process there is no call, and until new() returns nothing to show.
DeadHasNothing == ~alive => ~opened /\ pc = "idle"
NothingUntilOpened ==
    ~opened => source = NoSource /\ capture = None /\ forceClose = FALSE
IdleIsOpened == alive /\ pc = "idle" => opened

\* A call of prepare_launcher has a plan for one of the launchers.
CallHasPlan == pc \in PreparePcs => source # NoSource /\ Resolve(config) \in Stores

\* What config.json has is what the last save that came to its end put there,
\* and what is about to replace it is the configuration, all of it.
SavedIsOnDisk == disk["config.json"] = saved
RenamesTheConfig == pc = "renaming" => disk["config.json.tmp"] = config

LauncherInv ==
    /\ TypeOK
    /\ CaptureReadsTheSource
    /\ UserKeyLogKept
    /\ SourceIsInherited
    /\ DeadHasNothing
    /\ NothingUntilOpened
    /\ IdleIsOpened
    /\ CallHasPlan
    /\ SavedIsOnDisk
    /\ RenamesTheConfig

\* What refresh_launcher_readiness leaves is a status and a flag.
LEMMA RefreshType ==
    ASSUME NEW ps, NEW c, NEW src, wasReady \in BOOLEAN,
           RefreshReadiness(ps, c, src)
    PROVE  status' \in Statuses /\ wasReady' \in BOOLEAN
<1>1. status' \in Statuses BY ReadinessType DEF RefreshReadiness
<1>2. wasReady' \in BOOLEAN BY Zenon DEF RefreshReadiness
<1> QED BY <1>1, <1>2

\* The file of a new capture is that of the source.
LEMMA StartedType ==
    ASSUME NEW cap \in Paths \cup {None}, NEW src, NEW fs,
           NEW c \in Started(cap, src, fs)
    PROVE  /\ c \in Paths \cup {None}
           /\ c = cap \/ c = src.path
BY DEF Started

\* A source that is resolved has a file, and the process's own variable only if
\* that names it.
LEMMA ResolvedType ==
    ASSUME NEW env
    PROVE  /\ Resolved(env) \in Sources
           /\ Resolved(env).kind = "ProcessEnv" => Resolved(env).path = env
<1>1. CASE Usable(env)
  BY <1>1 DEF Resolved, Usable, Sources, Source
<1>2. CASE ~Usable(env) /\ Usable(registry)
  BY <1>2 DEF Resolved, Usable, Sources, Source
<1>3. CASE ~Usable(env) /\ ~Usable(registry)
  BY <1>3 DEF Resolved, Sources, OwnSource, Source
<1> QED BY <1>1, <1>2, <1>3

LEMMA NoSourceType == NoSource.kind # "ProcessEnv"
BY DEF NoSource, Source, None

\* Emptying the key file of a source leaves the user's files alone.
LEMMA TruncatedType ==
    ASSUME TypeOK, UserKeyLogKept, source \in Sources
    PROVE  /\ Truncated(source) \in [Paths -> {"absent", "empty", "keys"}]
           /\ \A file \in UserFiles : Truncated(source)[file] # "empty"
<1>1. files \in [Paths -> {"absent", "empty", "keys"}] BY DEF TypeOK
<1>2. CASE source.kind # "AppOwned"
  BY <1>1, <1>2 DEF Truncated, UserKeyLogKept
<1>3. CASE source.kind = "AppOwned"
  <2>1. source.path = "app" BY <1>3 DEF Sources, OwnSource, Source
  <2>2. "app" \notin UserFiles BY LauncherAssumption DEF LauncherAssumption
  <2> QED BY <1>1, <1>3, <2>1, <2>2 DEF Truncated, UserKeyLogKept, Paths
<1> QED BY <1>2, <1>3

LEMMA LauncherInvInit == Init => LauncherInv
<1> SUFFICES ASSUME Init PROVE LauncherInv
  OBVIOUS
<1> USE DEF Init
<1>1. procs \in [Stores -> SUBSET EnvValues]
  BY DEF EnvValues
<1>2. /\ files \in [Paths -> {"absent", "empty", "keys"}]
      /\ UserKeyLogKept
      /\ registry \in UserValues /\ ownEnv \in UserValues
  BY DEF UserKeyLogKept, Paths, UserValues
<1>3. saved \in Configs \cup {NoFile}
  BY LauncherAssumption DEF Configs, Platforms, Stores, LauncherAssumption
<1>4. /\ disk \in [{"config.json", "config.json.tmp"} ->
                     Configs \cup {NoFile, HalfWritten}]
      /\ SavedIsOnDisk
  BY <1>3 DEF SavedIsOnDisk
<1>5. config \in Configs
  BY DEF Configs, DefaultConfig, Platforms
<1>6. status \in Statuses /\ session \in Sessions
  BY LauncherAssumption DEF Statuses, LauncherAssumption
<1>7. TypeOK
  BY <1>1, <1>2, <1>3, <1>4, <1>5, <1>6 DEF TypeOK, Pcs
<1> QED
  BY <1>2, <1>4, <1>7, NoSourceType
  DEF LauncherInv, CaptureReadsTheSource, SourceIsInherited, DeadHasNothing,
      NothingUntilOpened, IdleIsOpened, CallHasPlan, PreparePcs, RenamesTheConfig

\* A process that ends leaves nothing to be wrong about.
LEMMA GoneIsFine ==
    ASSUME Gone
    PROVE  /\ config' \in Configs /\ alive' \in BOOLEAN /\ opened' \in BOOLEAN
           /\ ownEnv' \in UserValues
           /\ source' \in Sources \cup {NoSource} /\ status' \in Statuses
           /\ wasReady' \in BOOLEAN
           /\ forceClose' \in IF Resolve(config)' \in Stores THEN BOOLEAN ELSE {FALSE}
           /\ pc' \in Pcs
           /\ capture' \in Paths \cup {None} /\ session' \in Sessions
           /\ CaptureReadsTheSource' /\ SourceIsInherited' /\ DeadHasNothing'
           /\ NothingUntilOpened' /\ IdleIsOpened' /\ CallHasPlan'
           /\ RenamesTheConfig'
<1>1. config' \in Configs
  BY DEF Gone, DefaultConfig, Configs, Platforms, None
<1>2. session' \in Sessions
  BY LauncherAssumption DEF Gone, LauncherAssumption
<1> QED
  BY <1>1, <1>2, NoSourceType
  DEF Gone, Statuses, Pcs, PreparePcs, UserValues, CaptureReadsTheSource,
      SourceIsInherited, DeadHasNothing, NothingUntilOpened, IdleIsOpened,
      CallHasPlan, RenamesTheConfig

\* The rest of new() leaves a source that is the process's own, or none.
LEMMA OpensFine ==
    ASSUME NEW env, NEW c, Opens(env, c)
    PROVE  /\ pc' = "idle" /\ opened' = TRUE
           /\ source' \in Sources \cup {NoSource}
           /\ source'.kind = "ProcessEnv" => source'.path = env
           /\ status' \in Statuses /\ wasReady' \in BOOLEAN
<1>1. status' \in Statuses BY ReadinessType DEF Opens
<1>2. wasReady' \in BOOLEAN BY Zenon DEF Opens
<1>3. /\ source' \in Sources \cup {NoSource}
      /\ source'.kind = "ProcessEnv" => source'.path = env
  BY ResolvedType, NoSourceType DEF Opens
<1> QED BY <1>1, <1>2, <1>3 DEF Opens

\* The file that is written first is not config.json.
LEMMA SaveBeginsFine ==
    ASSUME TypeOK, SavedIsOnDisk, SaveBegins, UNCHANGED saved
    PROVE  /\ pc' = "writing"
           /\ disk' \in [{"config.json", "config.json.tmp"} ->
                            Configs \cup {NoFile, HalfWritten}]
           /\ SavedIsOnDisk'
BY DEF TypeOK, SavedIsOnDisk, SaveBegins, TmpPath

\* What a save returns to: the source, the capture and the flags fit together.
LEMMA SaveReturnsFine ==
    ASSUME LauncherInv, SaveReturns, alive,
           disk' \in [{"config.json", "config.json.tmp"} ->
                         Configs \cup {NoFile, HalfWritten}],
           saved' \in Configs \cup {NoFile}, SavedIsOnDisk'
    PROVE  LauncherInv'
<1> USE DEF LauncherInv, TypeOK
<1>1. UNCHANGED <<procs, registry, files, alive, ownEnv, config, forceClose, capture,
                  session>>
  BY DEF SaveReturns, osVars
<1> DEFINE Fine == /\ pc' = "idle" /\ opened' = TRUE
                   /\ source' \in Sources \cup {NoSource}
                   /\ status' \in Statuses /\ wasReady' \in BOOLEAN
                   /\ SourceIsInherited' /\ CaptureReadsTheSource'
<1>2. ASSUME opened PROVE Fine
  <2>1. RefreshReadiness(procs, config, source) /\ pc' = "idle"
        /\ UNCHANGED <<opened, source>>
    BY <1>2 DEF SaveReturns
  <2>2. status' \in Statuses /\ wasReady' \in BOOLEAN BY <2>1, RefreshType
  <2>3. /\ pc' = "idle" /\ opened' = TRUE
        /\ source' \in Sources \cup {NoSource}
        /\ SourceIsInherited' /\ CaptureReadsTheSource'
    BY <1>1, <1>2, <2>1 DEF SourceIsInherited, CaptureReadsTheSource
  <2> QED BY <2>2, <2>3
<1>3. ASSUME ~opened PROVE Fine
  <2>1. Opens(ownEnv, config) BY <1>3 DEF SaveReturns
  <2>2. /\ pc' = "idle" /\ opened' = TRUE
        /\ source' \in Sources \cup {NoSource}
        /\ source'.kind = "ProcessEnv" => source'.path = ownEnv
        /\ status' \in Statuses /\ wasReady' \in BOOLEAN
    BY <2>1, OpensFine
  <2>3. SourceIsInherited' /\ CaptureReadsTheSource'
    BY <1>1, <1>3, <2>2
    DEF SourceIsInherited, CaptureReadsTheSource, NothingUntilOpened
  <2> QED BY <2>2, <2>3
<1>4. Fine BY <1>2, <1>3
<1>5. TypeOK' BY <1>1, <1>4 DEF Pcs
<1> QED
  BY <1>1, <1>4, <1>5
  DEF UserKeyLogKept, DeadHasNothing, NothingUntilOpened, IdleIsOpened,
      CallHasPlan, PreparePcs, RenamesTheConfig

LEMMA LauncherStep == LauncherInv /\ [Next]_vars => LauncherInv'
<1> SUFFICES ASSUME LauncherInv, [Next]_vars PROVE LauncherInv'
  OBVIOUS
<1>0. /\ TypeOK /\ CaptureReadsTheSource /\ UserKeyLogKept
      /\ SourceIsInherited /\ DeadHasNothing /\ CallHasPlan
      /\ NothingUntilOpened /\ IdleIsOpened /\ SavedIsOnDisk /\ RenamesTheConfig
  BY DEF LauncherInv
<1> USE <1>0 DEF LauncherInv, TypeOK, CaptureReadsTheSource, UserKeyLogKept,
                 SourceIsInherited, DeadHasNothing, CallHasPlan, NothingUntilOpened,
                 IdleIsOpened, SavedIsOnDisk, RenamesTheConfig, appVars, diskVars,
                 Pcs, SavePcs, PreparePcs
\* The user, the launchers and the game.
<1>a. Launchers \subseteq Stores BY LauncherAssumption DEF LauncherAssumption
<1>1. ASSUME NEW s \in Launchers, UserStartsLauncher(s) PROVE LauncherInv'
  <2>1. procs' \in [Stores -> SUBSET EnvValues]
    BY <1>a, <1>1 DEF UserStartsLauncher, EnvValues, Paths, UserValues
  <2> QED BY <1>1, <2>1 DEF UserStartsLauncher, hubVars
<1>2. ASSUME NEW s \in Launchers, LauncherExits(s) PROVE LauncherInv'
  <2>1. procs' \in [Stores -> SUBSET EnvValues]
    BY <1>a, <1>2 DEF LauncherExits
  <2> QED BY <1>2, <2>1 DEF LauncherExits, hubVars
<1>3. ASSUME NEW s \in Launchers, GameWrites(s) PROVE LauncherInv'
  <2>1. /\ files' \in [Paths -> {"absent", "empty", "keys"}]
        /\ \A file \in UserFiles : files'[file] # "empty"
    BY <1>a, <1>3 DEF GameWrites, Paths
  <2> QED BY <1>3, <2>1 DEF GameWrites, hubVars
<1>4. CASE UserChangesOverride
  <2>1. /\ files' \in [Paths -> {"absent", "empty", "keys"}]
        /\ \A file \in UserFiles : files'[file] # "empty"
    BY <1>4 DEF UserChangesOverride, Paths
  <2>2. registry' \in UserValues BY <1>4 DEF UserChangesOverride
  <2> QED BY <1>4, <2>1, <2>2 DEF UserChangesOverride, hubVars
<1>5. CASE SessionMoves
  BY <1>5 DEF SessionMoves, osVars, hubVars
\* The process.
<1>6. CASE Start
  <2>1. config' \in Configs BY <1>6, LoadType, FirstRunType DEF Start
  <2>2. /\ alive' \in BOOLEAN /\ ownEnv' \in UserValues /\ session' \in Sessions
        /\ UNCHANGED <<procs, registry, files, saved, forceClose, capture>>
        /\ alive' = TRUE /\ capture = None /\ forceClose = FALSE /\ ~opened
        /\ source = NoSource
    BY <1>6 DEF Start, osVars
  <2>3. capture' = None /\ forceClose' = FALSE BY <2>2
  <2>4. /\ forceClose' \in IF Resolve(config') \in Stores THEN BOOLEAN ELSE {FALSE}
        /\ UserKeyLogKept' /\ CaptureReadsTheSource' /\ DeadHasNothing'
    BY <2>2, <2>3
  <2>5. CASE config' = Load(disk["config.json"])
    <3>1. Opens(ownEnv', config') /\ UNCHANGED disk BY <1>6, <2>5 DEF Start
    <3>2. /\ pc' = "idle" /\ opened' = TRUE
          /\ source' \in Sources \cup {NoSource}
          /\ source'.kind = "ProcessEnv" => source'.path = ownEnv'
          /\ status' \in Statuses /\ wasReady' \in BOOLEAN
      BY <3>1, OpensFine
    <3>3. TypeOK' BY <2>1, <2>2, <2>3, <2>4, <3>1, <3>2
    <3> QED BY <2>2, <2>3, <2>4, <3>1, <3>2, <3>3
  <2>6. CASE config' # Load(disk["config.json"])
    <3>1. SaveBegins /\ UNCHANGED <<opened, source, status, wasReady>>
      BY <1>6, <2>6 DEF Start
    <3>2. /\ pc' = "writing"
          /\ disk' \in [{"config.json", "config.json.tmp"} ->
                           Configs \cup {NoFile, HalfWritten}]
          /\ SavedIsOnDisk'
      BY <2>2, <3>1, SaveBeginsFine
    <3>3. TypeOK' BY <2>1, <2>2, <2>3, <2>4, <3>1, <3>2
    <3>4. SourceIsInherited' BY <2>2, <3>1, NoSourceType
    <3> QED BY <2>2, <2>3, <2>4, <3>1, <3>2, <3>3, <3>4
  <2> QED BY <2>5, <2>6
<1>7. CASE Quit
  <2>1. /\ files' \in [Paths -> {"absent", "empty", "keys"}]
        /\ \A file \in UserFiles : files'[file] # "empty"
    BY <1>7 DEF Quit, Paths
  <2>2. UNCHANGED <<procs, registry, disk, saved>> /\ Gone BY <1>7 DEF Quit
  <2> QED BY <2>1, <2>2, GoneIsFine
<1>8. CASE Crash
  <2>1. Gone /\ UNCHANGED <<procs, registry, files, disk, saved>>
    BY <1>8 DEF Crash, osVars
  <2> QED BY <2>1, GoneIsFine
\* A save.
<1>23. CASE SaveWrites
  <2>1. /\ disk' \in [{"config.json", "config.json.tmp"} ->
                         Configs \cup {NoFile, HalfWritten}]
        /\ disk'["config.json"] = disk["config.json"]
        /\ disk'["config.json.tmp"] = config
    BY <1>23 DEF SaveWrites, TmpPath
  <2> QED BY <1>23, <2>1 DEF SaveWrites, osVars, hubVars
<1>24. CASE SaveRenames
  <2>1. /\ disk' \in [{"config.json", "config.json.tmp"} ->
                         Configs \cup {NoFile, HalfWritten}]
        /\ disk'["config.json"] = config
    BY <1>24 DEF SaveRenames, TmpPath
  <2> QED BY <1>24, <2>1, SaveReturnsFine DEF SaveRenames
<1>25. CASE SaveFails
  <2>1. /\ disk' \in [{"config.json", "config.json.tmp"} ->
                         Configs \cup {NoFile, HalfWritten}]
        /\ disk'["config.json"] = disk["config.json"]
    BY <1>25 DEF SaveFails, TmpPath
  <2> QED BY <1>25, <2>1, SaveReturnsFine DEF SaveFails
\* In the background.
<1>9. CASE CheckReadiness
  <2>1. status' \in Statuses /\ wasReady' \in BOOLEAN
    BY <1>9, RefreshType DEF CheckReadiness
  <2> QED BY <1>9, <2>1 DEF CheckReadiness, osVars
<1>10. CASE StartCapture
  <2>1. capture' \in Paths \cup {None} /\ capture' = source.path
    BY <1>10, StartedType DEF StartCapture
  <2> QED BY <1>10, <2>1 DEF StartCapture, osVars, hubVars
<1>11. CASE CaptureEnds
  BY <1>11 DEF CaptureEnds, osVars, hubVars
\* The hub and the settings.
<1>12. ASSUME NEW p \in Offered, SetLauncher(p) PROVE LauncherInv'
  <2>1. p \in Platforms BY LauncherAssumption DEF LauncherAssumption
  <2>2. config' \in Configs BY <1>12, <2>1, WithPlatformType DEF SetLauncher
  <2>3. /\ pc' = "writing"
        /\ disk' \in [{"config.json", "config.json.tmp"} ->
                         Configs \cup {NoFile, HalfWritten}]
        /\ SavedIsOnDisk'
    BY <1>12, SaveBeginsFine DEF SetLauncher
  <2> QED BY <1>12, <2>2, <2>3 DEF SetLauncher, osVars
<1>13. ASSUME NEW g \in Installed, BrowseGame(g) PROVE LauncherInv'
  <2>1. config' \in Configs BY <1>13, WithGameType DEF BrowseGame
  <2>2. Resolve(config) \in Stores => Resolve(config') \in Stores
    BY <1>13, WithGameKeepsStore DEF BrowseGame
  <2>3. /\ pc' = "writing"
        /\ disk' \in [{"config.json", "config.json.tmp"} ->
                         Configs \cup {NoFile, HalfWritten}]
        /\ SavedIsOnDisk'
    BY <1>13, SaveBeginsFine DEF BrowseGame
  <2> QED BY <1>13, <2>1, <2>2, <2>3 DEF BrowseGame, osVars, hubVars
<1>14. ASSUME NEW src \in {Resolved(ownEnv), NoSource}, SourceChanges(src)
       PROVE  /\ source' \in Sources \cup {NoSource}
              /\ source'.kind = "ProcessEnv" => source'.path = ownEnv
              /\ capture' = None
              /\ session' \in Sessions
              /\ status' \in Statuses /\ wasReady' \in BOOLEAN
  <2>1. status' \in Statuses /\ wasReady' \in BOOLEAN
    BY <1>14, RefreshType DEF SourceChanges
  <2>2. session' \in Sessions
    BY <1>14, LauncherAssumption
    DEF SourceChanges, SettingsChanged, LauncherAssumption
  <2> QED
    BY <1>14, <2>1, <2>2, ResolvedType, NoSourceType
    DEF SourceChanges, SettingsChanged
<1>15. CASE RefreshSource
  BY <1>14, <1>15 DEF RefreshSource, osVars
<1>16. CASE TryAgain
  <2>1. CASE \E src \in {Resolved(ownEnv), NoSource} : SourceChanges(src)
    BY <1>14, <1>16, <2>1 DEF TryAgain, osVars
  <2>2. CASE ~(\E src \in {Resolved(ownEnv), NoSource} : SourceChanges(src))
    <3>1. /\ capture' \in Started(capture, source, files)
          /\ session' \in Sessions
          /\ UNCHANGED <<source, status, wasReady>>
      BY <1>16, <2>2 DEF TryAgain
    <3>2. /\ capture' \in Paths \cup {None}
          /\ capture' # None => capture' = source.path
      BY <3>1, StartedType
    <3> QED BY <1>16, <3>1, <3>2 DEF TryAgain, osVars
  <2> QED BY <2>1, <2>2
\* prepare_launcher.
<1>17. ASSUME NEW force \in BOOLEAN, Prepare(force) PROVE LauncherInv'
  BY <1>a, <1>17 DEF Prepare, osVars, hubVars
<1>18. CASE ExitSeen
  BY <1>18 DEF ExitSeen, osVars, hubVars
<1>19. CASE TimesOut
  <2>1. status' \in Statuses /\ wasReady' \in BOOLEAN
    BY <1>19, RefreshType DEF TimesOut
  <2> QED BY <1>19, <2>1 DEF TimesOut, osVars
<1>20. CASE PrepareFails
  <2>0. source \in Sources BY <1>20 DEF PrepareFails
  <2>1. status' \in Statuses /\ wasReady' \in BOOLEAN
    BY <1>20, RefreshType DEF PrepareFails
  <2>2. /\ files' \in [Paths -> {"absent", "empty", "keys"}]
        /\ \A file \in UserFiles : files'[file] # "empty"
    BY <1>20, <2>0, TruncatedType DEF PrepareFails
  <2> QED BY <1>20, <2>1, <2>2 DEF PrepareFails
<1>21. CASE StartLauncher
  <2>1. source \in Sources BY <1>21 DEF StartLauncher
  <2>2. procs' \in [Stores -> SUBSET EnvValues]
    <3>1. ChildEnv(source) \in EnvValues
      BY <2>1 DEF ChildEnv, Sources, OwnSource, Source, EnvValues, Paths, UserValues
    <3> QED BY <1>21, <3>1 DEF StartLauncher
  <2>3. /\ files' \in [Paths -> {"absent", "empty", "keys"}]
        /\ \A file \in UserFiles : files'[file] # "empty"
    BY <1>21, <2>1, TruncatedType DEF StartLauncher
  <2>4. status' \in Statuses BY <1>21, ReadinessType DEF StartLauncher
  <2>5. /\ capture' \in Paths \cup {None}
        /\ capture' # None => capture' = source.path
    BY <1>21, StartedType DEF StartLauncher
  <2> QED BY <1>21, <2>2, <2>3, <2>4, <2>5 DEF StartLauncher, NoteReady
<1>22. CASE UNCHANGED vars
  BY <1>22 DEF vars, osVars, hubVars
<1> QED
  BY <1>1, <1>2, <1>3, <1>4, <1>5, <1>6, <1>7, <1>8, <1>9, <1>10, <1>11, <1>12,
     <1>13, <1>15, <1>16, <1>17, <1>18, <1>19, <1>20, <1>21, <1>22, <1>23, <1>24, <1>25
  DEF Next, Outside, Process, Saving, Background, Settings, Preparing

LEMMA LauncherInvHolds == Spec => []LauncherInv
BY LauncherInvInit, LauncherStep, PTL DEF Spec

-----------------------------------------------------------------------------
(* Theorems.                                                               *)

\* Every variable of the launcher's part of the app keeps to its values.
THEOREM LauncherTypes == Spec => []TypeOK
<1>1. LauncherInv => TypeOK BY DEF LauncherInv
<1> QED BY <1>1, LauncherInvHolds, PTL

\* The capture reads the key file of the source in use.
THEOREM CaptureReadsTheSourceHolds == Spec => []CaptureReadsTheSource
<1>1. LauncherInv => CaptureReadsTheSource BY DEF LauncherInv
<1> QED BY <1>1, LauncherInvHolds, PTL

\* A key log of the user's own is never emptied.
THEOREM UserKeyLogKeptHolds == Spec => []UserKeyLogKept
<1>1. LauncherInv => UserKeyLogKept BY DEF LauncherInv
<1> QED BY <1>1, LauncherInvHolds, PTL

\* A launcher the app starts has its game write the file of the source: the
\* variable is set for it unless the app has it to hand on.
THEOREM StartedLauncherWritesTheSourceHolds ==
    Spec => StartedLauncherWritesTheSource
<1>1. LauncherInv /\ [Next]_vars =>
        [\A s \in Stores :
           (pc = "starting" /\ procs'[s] # procs[s] /\ pc' = "idle")
               => procs'[s] = {source'.path}]_vars
  <2> SUFFICES ASSUME LauncherInv, Next, NEW s \in Stores, pc = "starting",
                      procs'[s] # procs[s], pc' = "idle"
               PROVE  procs'[s] = {source'.path}
    OBVIOUS
  <2>1. CASE StartLauncher
    <3>1. /\ source \in Sources
          /\ source.kind = "ProcessEnv" => source.path = ownEnv
      BY DEF LauncherInv, TypeOK, CallHasPlan, SourceIsInherited, PreparePcs
    <3>2. ChildEnv(source) = source.path
      BY <3>1 DEF ChildEnv, Sources, OwnSource, Source
    <3>3. procs \in [Stores -> SUBSET EnvValues] BY DEF LauncherInv, TypeOK
    <3> QED BY <2>1, <3>2, <3>3 DEF StartLauncher
  <2>2. CASE ~StartLauncher
    BY <2>2
    DEF Next, Outside, Process, Saving, Background, Settings, Preparing,
        UserStartsLauncher, LauncherExits, GameWrites, UserChangesOverride,
        SessionMoves, Start, Quit, Crash, SaveWrites, SaveRenames, SaveFails,
        SaveReturns, CheckReadiness, StartCapture, CaptureEnds, SetLauncher,
        BrowseGame, RefreshSource, TryAgain, Prepare, ExitSeen, TimesOut,
        PrepareFails, osVars, hubVars
  <2> QED BY <2>1, <2>2
<1> QED
  BY <1>1, LauncherInvHolds, PTL DEF Spec, StartedLauncherWritesTheSource

\* The app starts with the choice of the last save that came to its end,
\* wherever in a save it ended or failed before: config.json is always whole.
THEOREM StartsFromSavedChoiceHolds == Spec => StartsFromSavedChoice
<1>1. LauncherInv /\ [Next]_vars =>
        [(~alive /\ alive' /\ saved # NoFile) => config' = FirstRun(saved)]_vars
  <2> SUFFICES ASSUME LauncherInv, Next, ~alive, alive', saved # NoFile
               PROVE  config' = FirstRun(saved)
    OBVIOUS
  <2>1. Load(disk["config.json"]) = saved
    BY DEF Load, LauncherInv, TypeOK, SavedIsOnDisk
  <2>2. CASE Start BY <2>1, <2>2 DEF Start
  <2>3. CASE ~Start
    <3>1. pc = "idle" BY DEF LauncherInv, DeadHasNothing
    <3> QED
      BY <2>3, <3>1
      DEF Next, Outside, Process, Saving, Background, Settings, Preparing,
          UserStartsLauncher, LauncherExits, GameWrites, UserChangesOverride,
          SessionMoves, Quit, Crash, SaveWrites, SaveRenames, SaveFails,
          CheckReadiness, StartCapture, CaptureEnds, SetLauncher, BrowseGame,
          RefreshSource, TryAgain, Prepare, ExitSeen, TimesOut, PrepareFails,
          StartLauncher, appVars, SavePcs, PreparePcs
  <2> QED BY <2>2, <2>3
<1> QED BY <1>1, LauncherInvHolds, PTL DEF Spec, StartsFromSavedChoice

=============================================================================
