----------------------------- MODULE Instances -----------------------------
(***************************************************************************)
(* The processes of one desktop session: main and the single-instance      *)
(* guard (src/src/main.rs, src/src/single_instance.rs), the ways a process *)
(* ends (src/src/app.rs) and what they share outside any process: the      *)
(* named mutex and event, the firewall rule (src/src/firewall.rs) and the  *)
(* app-owned sync-key file (src/src/config.rs).                            *)
(*                                                                         *)
(* Within a process the handlers run one at a time under the app's mutex.  *)
(* A frame's is one step.  The worker's tick, the listener of the named    *)
(* event and the tray first upgrade a Weak to an Arc, which keeps the app  *)
(* alive, and then wait for the mutex: whoever drops the last Arc runs the *)
(* app's Drop.  Beside them runs the capture thread, which adds the        *)
(* firewall rule before it captures.                                       *)
(***************************************************************************)
EXTENDS Naturals, FiniteSets

CONSTANTS
    Procs,         \* the processes that are ever started
    UserKey,       \* TRUE: the keys are read from the user's SSLKEYLOGFILE
    MutexMayFail   \* TRUE: CreateMutexW and CreateEventW may fail

ASSUME InstancesAssumption ==
    /\ IsFiniteSet(Procs)
    /\ UserKey \in BOOLEAN
    /\ MutexMayFail \in BOOLEAN

VARIABLES
    phase,         \* of the main thread of each process, see Phases
    relaunched,    \* processes started with --relaunched
    unguarded,     \* history: processes that run without the mutex
    guard,         \* processes with an open handle to the named mutex
    listening,     \* processes with one to the event, and so a listener
    signaled,      \* the named event
    pending_quit,  \* processes whose next frame completes a graceful quit
    waker_stop,    \* processes whose worker and listener are to stop
    holding,       \* the threads of each process that hold an Arc of the app
    cleanup,       \* why shutdown_cleanup runs in each process, see Cleanups
    capture,       \* the capture thread of each process
    rule,          \* the firewall rule exists
    keyfile,       \* the app-owned sync-key file exists
    abandoned      \* history: the last process to end did not clean up

handleVars == <<unguarded, guard, listening, signaled>>
quitVars == <<pending_quit, waker_stop>>
appVars == <<holding, cleanup>>
sharedVars == <<rule, keyfile, abandoned>>
vars == <<phase, relaunched, handleVars, quitVars, appVars, capture, sharedVars>>

\* "duplicate": found the mutex taken; "handing_over": a frame of it has spawned
\* its successor; "dropping": eframe has dropped the last Arc of the app, and
\* its Drop runs; "closing": main is about to return.
Phases == {"unborn", "launched", "duplicate", "running", "handing_over",
           "dropping", "closing", "exited"}

Threads == {"worker", "listener", "tray"}

\* The thread that runs it has the app locked and exits the process then, or
\* it has dropped the app.
Cleanups == {"none", "exit", "drop"}

\* The system closes the handles of a process that is no more.
NoHandles == {"unborn", "launched", "exited"}
NoListener == NoHandles \cup {"duplicate"}

TypeOK ==
    /\ phase \in [Procs -> Phases]
    /\ relaunched \subseteq Procs
    /\ unguarded \subseteq Procs
    /\ guard \subseteq {p \in Procs : phase[p] \notin NoHandles}
    /\ listening \subseteq {p \in Procs : phase[p] \notin NoListener}
    /\ signaled \in BOOLEAN
    /\ pending_quit \subseteq Procs
    /\ waker_stop \subseteq Procs
    /\ holding \in [Procs -> SUBSET Threads]
    /\ cleanup \in [Procs -> Cleanups]
    /\ capture \in [Procs -> {"off", "adding_rule", "on"}]
    /\ rule \in BOOLEAN
    /\ keyfile \in BOOLEAN
    /\ abandoned \in BOOLEAN

Init ==
    /\ phase = [p \in Procs |-> "unborn"]
    /\ relaunched = {}
    /\ unguarded = {}
    /\ guard = {}
    /\ listening = {}
    /\ signaled = FALSE
    /\ pending_quit = {}
    /\ waker_stop = {}
    /\ holding = [p \in Procs |-> {}]
    /\ cleanup = [p \in Procs |-> "none"]
    /\ capture = [p \in Procs |-> "off"]
    /\ rule = FALSE
    /\ keyfile = FALSE
    /\ abandoned = FALSE

Running(p) == phase[p] = "running"

\* A frame can take the app's mutex: nobody keeps it until the process exits.
FrameRuns(p) == Running(p) /\ cleanup[p] # "exit"

\* p's handles are closed.  The event is there as long as anybody's handle to it.
CloseGuard(p) ==
    /\ guard' = guard \ {p}
    /\ listening' = listening \ {p}
    /\ signaled' = (signaled /\ listening' # {})
    /\ UNCHANGED unguarded

-----------------------------------------------------------------------------
(* Faulty variants of definitions below.                                   *)

\* A guard that has the flag the wrong way round.
AcquireInverted(p) ==
    /\ phase[p] = "launched"
    /\ guard' = guard \cup {p}
    /\ IF guard # {} /\ p \in relaunched
       THEN /\ phase' = [phase EXCEPT ![p] = "duplicate"]
            /\ UNCHANGED listening
       ELSE /\ phase' = [phase EXCEPT ![p] = "running"]
            /\ listening' = listening \cup {p}
    /\ UNCHANGED <<relaunched, unguarded, signaled, quitVars, appVars, capture,
                   sharedVars>>

\* A cleanup that does not wait for the capture thread.
ShutdownCleanupWithoutJoin(p) ==
    /\ UNCHANGED capture
    /\ rule' = FALSE
    /\ keyfile' = FALSE
    /\ abandoned' = FALSE

\* A duplicate that makes the event if there is none.
SignalExistingAlways(p) ==
    /\ phase[p] = "duplicate"
    /\ phase' = [phase EXCEPT ![p] = "exited"]
    /\ guard' = guard \ {p}
    /\ signaled' = TRUE
    /\ UNCHANGED <<relaunched, unguarded, listening, quitVars, appVars, capture,
                   sharedVars>>

\* A process that keeps its handles when it ends.
ExitKeepsGuard(p) ==
    /\ phase' = [phase EXCEPT ![p] = "exited"]
    /\ holding' = [holding EXCEPT ![p] = {}]
    /\ cleanup' = [cleanup EXCEPT ![p] = "none"]
    /\ UNCHANGED handleVars

-----------------------------------------------------------------------------
(* Launching.                                                              *)

Launch(p) ==
    /\ phase[p] = "unborn"
    /\ phase' = [phase EXCEPT ![p] = "launched"]
    /\ UNCHANGED <<relaunched, handleVars, quitVars, appVars, capture, sharedVars>>

\* acquire: CreateMutexW opens a handle either way.
PeerRunning(p) == guard \ {p} # {}

\* spawn_listener, when main has made the app: no listener without an event.
SpawnListener(p) ==
    \/ listening' = listening \cup {p}
    \/ MutexMayFail /\ UNCHANGED listening

Acquire(p) ==
    /\ phase[p] = "launched"
    /\ guard' = guard \cup {p}
    /\ IF PeerRunning(p) /\ p \notin relaunched
       THEN /\ phase' = [phase EXCEPT ![p] = "duplicate"]
            /\ UNCHANGED listening
       ELSE /\ phase' = [phase EXCEPT ![p] = "running"]
            /\ SpawnListener(p)
    /\ UNCHANGED <<relaunched, unguarded, signaled, quitVars, appVars, capture,
                   sharedVars>>

\* "A creation failure (null) falls through to Primary".
AcquireUnguarded(p) ==
    /\ MutexMayFail
    /\ phase[p] = "launched"
    /\ phase' = [phase EXCEPT ![p] = "running"]
    /\ unguarded' = unguarded \cup {p}
    /\ SpawnListener(p)
    /\ UNCHANGED <<relaunched, guard, signaled, quitVars, appVars, capture,
                   sharedVars>>

\* acquire drops the handle, signal_existing sets the event if there is one.
SignalExisting(p) ==
    /\ phase[p] = "duplicate"
    /\ phase' = [phase EXCEPT ![p] = "exited"]
    /\ guard' = guard \ {p}
    /\ signaled' = (listening # {})
    /\ UNCHANGED <<relaunched, unguarded, listening, quitVars, appVars, capture,
                   sharedVars>>

-----------------------------------------------------------------------------
(* Threads that use the app beside its frames.                             *)

\* The Weak can be upgraded: eframe has its Arc still, or a thread has one that
\* it is not about to drop.
AppAlive(p) ==
    \/ phase[p] \in {"running", "handing_over"}
    \/ phase[p] = "closing" /\ holding[p] # {} /\ cleanup[p] # "drop"

Takes(p, t) ==
    /\ AppAlive(p)
    /\ holding' = [holding EXCEPT ![p] = @ \cup {t}]

\* t has waited for the mutex, however long, and gets it.
Runs(p, t) ==
    /\ t \in holding[p]
    /\ phase[p] \in {"running", "closing"}
    /\ cleanup[p] = "none"

\* t is done and drops its Arc, which may be the last.
Releases(p, t) ==
    IF phase[p] = "closing" /\ holding[p] = {t}
    THEN cleanup' = [cleanup EXCEPT ![p] = "drop"] /\ UNCHANGED holding
    ELSE holding' = [holding EXCEPT ![p] = @ \ {t}] /\ UNCHANGED cleanup

\* start_background_worker: the stop check, then the upgrade.
WorkerWakes(p) ==
    /\ "worker" \notin holding[p]
    /\ p \notin waker_stop
    /\ Takes(p, "worker")
    /\ UNCHANGED <<phase, relaunched, handleVars, quitVars, cleanup, capture,
                   sharedVars>>

\* The user picks something of the tray's menu.
TrayCommand(p) ==
    /\ "tray" \notin holding[p]
    /\ Takes(p, "tray")
    /\ UNCHANGED <<phase, relaunched, handleVars, quitVars, cleanup, capture,
                   sharedVars>>

\* spawn_listener: a wait that ends with the event set; the app may be gone.
ListenerWakes(p) ==
    /\ p \in listening
    /\ signaled
    /\ "listener" \notin holding[p]
    /\ signaled' = FALSE
    /\ IF AppAlive(p) THEN Takes(p, "listener") ELSE UNCHANGED holding
    /\ UNCHANGED <<phase, relaunched, unguarded, guard, listening, quitVars,
                   cleanup, capture, sharedVars>>

\* The flag is looked at between waits.
ListenerStops(p) ==
    /\ p \in listening
    /\ "listener" \notin holding[p]
    /\ p \in waker_stop
    /\ CloseGuard(p)
    /\ UNCHANGED <<phase, relaunched, quitVars, appVars, capture, sharedVars>>

\* Open, or another command that is about none of this, and a tick that finds
\* nothing to do: the window is brought up, or the app signed out.
ThreadRuns(p, t) ==
    /\ Runs(p, t)
    /\ Releases(p, t)
    /\ UNCHANGED <<phase, relaunched, handleVars, quitVars, capture, sharedVars>>

\* maybe_start_background_capture, as far as the key file decides it.
MayCapture(p) == capture[p] = "off" /\ (UserKey \/ keyfile)

\* run_background_work on a tick, or TogglePause ends a pause.
ThreadStartsCapture(p, t) ==
    /\ Runs(p, t)
    /\ t = "tray" \/ (t = "worker" /\ p \notin pending_quit)
    /\ MayCapture(p)
    /\ capture' = [capture EXCEPT ![p] = "adding_rule"]
    /\ Releases(p, t)
    /\ UNCHANGED <<phase, relaunched, handleVars, quitVars, sharedVars>>

\* TogglePause, or a tick that finds an error or another source: the capture
\* thread has been joined.
ThreadEndsCapture(p, t) ==
    /\ Runs(p, t)
    /\ t = "tray" \/ (t = "worker" /\ p \notin pending_quit)
    /\ capture[p] = "on"
    /\ capture' = [capture EXCEPT ![p] = "off"]
    /\ Releases(p, t)
    /\ UNCHANGED <<phase, relaunched, handleVars, quitVars, sharedVars>>

\* quit_from_tray: what follows is done with the app locked.
QuitFromTray(p) ==
    /\ Runs(p, "tray")
    /\ cleanup' = [cleanup EXCEPT ![p] = "exit"]
    /\ UNCHANGED <<phase, relaunched, handleVars, quitVars, holding, capture,
                   sharedVars>>

-----------------------------------------------------------------------------
(* Frames, and the capture thread.                                         *)

\* run_background_work on a frame.
FrameStartsCapture(p) ==
    /\ FrameRuns(p)
    /\ p \notin pending_quit
    /\ MayCapture(p)
    /\ capture' = [capture EXCEPT ![p] = "adding_rule"]
    /\ UNCHANGED <<phase, relaunched, handleVars, quitVars, appVars, sharedVars>>

\* capture_loop of a raw-socket capture: ensure_capture_allowed (netsh does
\* what it is told), then the interface.
RuleAdded(p) ==
    /\ capture[p] = "adding_rule"
    /\ rule' = TRUE
    /\ capture' = [capture EXCEPT ![p] = "on"]
    /\ UNCHANGED <<phase, relaunched, handleVars, quitVars, appVars, keyfile,
                   abandoned>>

\* Changed settings or an error: the thread has been joined.
FrameEndsCapture(p) ==
    /\ FrameRuns(p)
    /\ capture[p] = "on"
    /\ capture' = [capture EXCEPT ![p] = "off"]
    /\ UNCHANGED <<phase, relaunched, handleVars, quitVars, appVars, sharedVars>>

\* prepare_launcher creates the app-owned file.
PrepareLauncher(p) ==
    /\ FrameRuns(p)
    /\ p \notin pending_quit
    /\ ~UserKey
    /\ keyfile' = TRUE
    /\ UNCHANGED <<phase, relaunched, handleVars, quitVars, appVars, capture,
                   rule, abandoned>>

-----------------------------------------------------------------------------
(* Ending.                                                                 *)

Exit(p) ==
    /\ phase' = [phase EXCEPT ![p] = "exited"]
    /\ holding' = [holding EXCEPT ![p] = {}]
    /\ cleanup' = [cleanup EXCEPT ![p] = "none"]
    /\ CloseGuard(p)

\* shutdown_cleanup first tells the worker and the listener to stop, ...
CleanupBegins(p) ==
    /\ cleanup[p] # "none"
    /\ p \notin waker_stop
    /\ waker_stop' = waker_stop \cup {p}
    /\ UNCHANGED <<phase, relaunched, handleVars, pending_quit, appVars, capture,
                   sharedVars>>

\* ... and then drops the CaptureHandle, whose Drop joins the capture thread: one
\* that is adding its rule is waited for.
ShutdownCleanup(p) ==
    /\ capture[p] # "adding_rule"
    /\ capture' = [capture EXCEPT ![p] = "off"]
    /\ rule' = FALSE
    /\ keyfile' = FALSE
    /\ abandoned' = FALSE

\* The end of quit_from_tray and of poll_update_install.
CleanupExits(p) ==
    /\ cleanup[p] = "exit"
    /\ p \in waker_stop
    /\ ShutdownCleanup(p)
    /\ Exit(p)
    /\ UNCHANGED <<relaunched, quitVars>>

\* The end of Drop, in main or in the thread that had the last Arc.
DropEnds(p) ==
    /\ cleanup[p] = "drop"
    /\ p \in waker_stop
    /\ ShutdownCleanup(p)
    /\ phase' = [phase EXCEPT ![p] = "closing"]
    /\ holding' = [holding EXCEPT ![p] = {}]
    /\ cleanup' = [cleanup EXCEPT ![p] = "none"]
    /\ UNCHANGED <<relaunched, handleVars, quitVars>>

\* begin_graceful_quit
BeginGracefulQuit(p) ==
    /\ FrameRuns(p)
    /\ p \notin pending_quit
    /\ pending_quit' = pending_quit \cup {p}
    /\ waker_stop' = waker_stop \cup {p}
    /\ UNCHANGED <<phase, relaunched, handleVars, appVars, capture, sharedVars>>

\* update_frame with pending_quit: clean up and send Close.
QuitFrame(p) ==
    /\ FrameRuns(p)
    /\ p \in pending_quit
    /\ ShutdownCleanup(p)
    /\ UNCHANGED <<phase, relaunched, handleVars, quitVars, appVars>>

\* The window closes and eframe drops its Arc, which may be the last.
WindowCloses(p) ==
    /\ Running(p)
    /\ IF holding[p] = {}
       THEN /\ phase' = [phase EXCEPT ![p] = "dropping"]
            /\ cleanup' = [cleanup EXCEPT ![p] = "drop"]
       ELSE phase' = [phase EXCEPT ![p] = "closing"] /\ UNCHANGED cleanup
    /\ UNCHANGED <<relaunched, handleVars, quitVars, holding, capture, sharedVars>>

\* main returns, which ends every thread there is.
MainReturns(p) ==
    /\ phase[p] = "closing"
    /\ Exit(p)
    /\ capture' = [capture EXCEPT ![p] = "off"]
    /\ abandoned' = (abandoned \/ holding[p] # {})
    /\ UNCHANGED <<relaunched, quitVars, rule, keyfile>>

\* poll_update_install, on a frame or on a tick: the new executable is started,
\* then this one cleans up and exits.
Relaunch(p, q) ==
    /\ p \notin pending_quit
    /\ phase[q] = "unborn"
    /\ \/ /\ FrameRuns(p)
          /\ phase' = [phase EXCEPT ![p] = "handing_over", ![q] = "launched"]
       \/ /\ Runs(p, "worker")
          /\ phase' = [phase EXCEPT ![q] = "launched"]
    /\ relaunched' = relaunched \cup {q}
    /\ cleanup' = [cleanup EXCEPT ![p] = "exit"]
    /\ UNCHANGED <<handleVars, quitVars, holding, capture, sharedVars>>

Alive(p) == phase[p] \in {"running", "handing_over", "dropping", "closing"}

\* The process is killed: no handler runs.
Crash(p) ==
    /\ Alive(p)
    /\ Exit(p)
    /\ capture' = [capture EXCEPT ![p] = "off"]
    /\ abandoned' = TRUE
    /\ UNCHANGED <<relaunched, quitVars, rule, keyfile>>

-----------------------------------------------------------------------------
Starting(p) == Launch(p) \/ Acquire(p) \/ AcquireUnguarded(p) \/ SignalExisting(p)

Listener(p) == ListenerWakes(p) \/ ListenerStops(p)

Working(p, t) ==
    ThreadRuns(p, t) \/ ThreadStartsCapture(p, t) \/ ThreadEndsCapture(p, t)

Waking(p) == WorkerWakes(p) \/ TrayCommand(p) \/ Listener(p)

Capturing(p) ==
    \/ FrameStartsCapture(p) \/ RuleAdded(p) \/ FrameEndsCapture(p)
    \/ PrepareLauncher(p)

CleaningUp(p) == CleanupBegins(p) \/ CleanupExits(p) \/ DropEnds(p)

Ending(p) ==
    \/ QuitFromTray(p) \/ BeginGracefulQuit(p) \/ QuitFrame(p)
    \/ WindowCloses(p) \/ MainReturns(p) \/ Crash(p)

Next ==
    \E p \in Procs :
        \/ Starting(p) \/ Waking(p) \/ Capturing(p) \/ CleaningUp(p) \/ Ending(p)
        \/ \E t \in Threads : Working(p, t)
        \/ \E q \in Procs : Relaunch(p, q)

Spec == Init /\ [][Next]_vars

\* A listener waits for the event and for the app's mutex.  Whoever has that goes
\* on: a handler returns, and a cleanup waits for the capture thread at most.
FairSpec ==
    /\ Spec
    /\ \A p \in Procs :
          /\ WF_vars(Listener(p))
          /\ WF_vars(ThreadRuns(p, "listener"))
          /\ WF_vars(CleaningUp(p))
          /\ WF_vars(RuleAdded(p))

-----------------------------------------------------------------------------
(* Properties.                                                             *)

\* Processes with a window and no end in sight.
Staying == {p \in Procs : Running(p) /\ cleanup[p] = "none" /\ p \notin waker_stop}

\* p cleans up unless it is killed or its main returns too early.
Responsible(p) ==
    \/ phase[p] \in {"running", "handing_over", "dropping"}
    \/ phase[p] = "closing" /\ holding[p] # {}

\* The inductive invariant: nothing is left without a process to remove it,
\* and what stays holds the guard that a second copy would find.
InstancesInv ==
    /\ TypeOK
    /\ \A p \in Procs : capture[p] # "off" => Responsible(p)
    /\ rule \/ keyfile => abandoned \/ \E p \in Procs : Responsible(p)
    /\ Staying \subseteq guard \cup unguarded
    /\ \A p, q \in Staying \ (relaunched \cup unguarded) : p = q

\* "Launching the exe again must not open a second copy": it takes an update or
\* a mutex that cannot be had to get one, whatever quits, crashes and launches
\* run into each other.
OnlyUpdatesOpenASecondCopy ==
    Cardinality(Staying) <= 1 + Cardinality(relaunched \cup unguarded)

\* After the last process neither the firewall rule nor the keys are left,
\* although processes that overlap share both, and any of four threads may be
\* the one that has to remove them: an orderly end cleans up after those that
\* crashed before it, and what started beside it cleans up in turn.
\* (Left out: a crash, or a main that returns while a thread keeps Drop from
\* running, with no orderly end after it.)
NothingOutlives ==
    (\A p \in Procs : ~Alive(p)) /\ ~abandoned => ~rule /\ ~keyfile

\* A duplicate's signal brings up a window or ends with the primary; it is not
\* left behind to wake a process that nobody launched again.
SignalIsTaken == signaled ~> ~signaled

\* firewall.rs: without the rule "decryption never starts", "so we add an
\* inbound allow rule"; capture.rs adds it before every raw-socket capture.
RuleWhileCapturing == \A p \in Staying : capture[p] = "on" => rule

=============================================================================
