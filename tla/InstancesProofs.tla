-------------------------- MODULE InstancesProofs --------------------------
(* Theorems about Instances, for any number of processes.                  *)
EXTENDS Instances, FiniteSetTheorems, TLAPS

FlagsOK ==
    /\ signaled \in BOOLEAN
    /\ rule \in BOOLEAN
    /\ keyfile \in BOOLEAN
    /\ abandoned \in BOOLEAN

\* An equation's truth value is a boolean; the SMT solver needs to be told.
LEMMA FlagsStep == FlagsOK /\ [Next]_vars => FlagsOK'
<1> SUFFICES ASSUME FlagsOK, [Next]_vars PROVE FlagsOK'
  OBVIOUS
<1> USE DEF FlagsOK, sharedVars, handleVars
<1>1. ASSUME NEW p \in Procs, Starting(p) PROVE FlagsOK'
  BY <1>1, Zenon DEF Starting, Launch, Acquire, AcquireUnguarded,
                     SignalExisting
<1>2. ASSUME NEW p \in Procs, Waking(p) PROVE FlagsOK'
  BY <1>2, Zenon DEF Waking, WorkerWakes, TrayCommand, ListenerWakes,
                     ListenerStops, Listener, CloseGuard
<1>3. ASSUME NEW p \in Procs, Capturing(p) PROVE FlagsOK'
  BY <1>3, Zenon DEF Capturing, FrameStartsCapture, RuleAdded,
                     FrameEndsCapture, PrepareLauncher
<1>4. ASSUME NEW p \in Procs, CleaningUp(p) PROVE FlagsOK'
  BY <1>4, Zenon DEF CleaningUp, CleanupBegins, CleanupExits, DropEnds,
                     ShutdownCleanup, Exit, CloseGuard
<1>5. ASSUME NEW p \in Procs, Ending(p) PROVE FlagsOK'
  BY <1>5, Zenon DEF Ending, QuitFromTray, BeginGracefulQuit, QuitFrame,
                     WindowCloses, MainReturns, Crash, ShutdownCleanup, Exit,
                     CloseGuard
<1>6. ASSUME NEW p \in Procs, NEW t \in Threads, Working(p, t) PROVE FlagsOK'
  BY <1>6, Zenon DEF Working, ThreadRuns, ThreadStartsCapture, ThreadEndsCapture
<1>7. ASSUME NEW p \in Procs, NEW q \in Procs, Relaunch(p, q) PROVE FlagsOK'
  BY <1>7, Zenon DEF Relaunch
<1>8. CASE UNCHANGED vars BY <1>8, Zenon DEF vars
<1> QED BY <1>1, <1>2, <1>3, <1>4, <1>5, <1>6, <1>7, <1>8 DEF Next

LEMMA InstancesStep == InstancesInv /\ [Next]_vars => InstancesInv'
<1> SUFFICES ASSUME InstancesInv, [Next]_vars PROVE InstancesInv'
  OBVIOUS
<1>0. FlagsOK'
  BY FlagsStep DEF InstancesInv, TypeOK, FlagsOK
<1> USE <1>0
    DEF FlagsOK, InstancesInv, TypeOK, Phases, NoHandles, NoListener, Threads,
        Cleanups, Responsible, Staying, Running, handleVars, quitVars, appVars,
        sharedVars
<1>1. ASSUME NEW p \in Procs, Starting(p) PROVE InstancesInv'
  <2>1. CASE Launch(p) BY <2>1 DEF Launch
  <2>2. CASE Acquire(p) BY <2>2 DEF Acquire, PeerRunning, SpawnListener
  <2>3. CASE AcquireUnguarded(p) BY <2>3 DEF AcquireUnguarded, SpawnListener
  <2>4. CASE SignalExisting(p) BY <2>4 DEF SignalExisting
  <2> QED BY <1>1, <2>1, <2>2, <2>3, <2>4 DEF Starting
<1>2. ASSUME NEW p \in Procs, Waking(p) PROVE InstancesInv'
  <2>1. CASE WorkerWakes(p) BY <2>1 DEF WorkerWakes, Takes, AppAlive
  <2>2. CASE TrayCommand(p) BY <2>2 DEF TrayCommand, Takes, AppAlive
  <2>3. CASE ListenerWakes(p) BY <2>3 DEF ListenerWakes, Takes, AppAlive
  <2>4. CASE ListenerStops(p) BY <2>4 DEF ListenerStops, CloseGuard
  <2> QED BY <1>2, <2>1, <2>2, <2>3, <2>4 DEF Waking, Listener
<1>3. ASSUME NEW p \in Procs, Capturing(p) PROVE InstancesInv'
  <2>1. CASE FrameStartsCapture(p) BY <2>1 DEF FrameStartsCapture, FrameRuns
  <2>2. CASE RuleAdded(p) BY <2>2 DEF RuleAdded
  <2>3. CASE FrameEndsCapture(p) BY <2>3 DEF FrameEndsCapture, FrameRuns
  <2>4. CASE PrepareLauncher(p) BY <2>4 DEF PrepareLauncher, FrameRuns
  <2> QED BY <1>3, <2>1, <2>2, <2>3, <2>4 DEF Capturing
<1>4. ASSUME NEW p \in Procs, CleaningUp(p) PROVE InstancesInv'
  <2>1. CASE CleanupBegins(p) BY <2>1 DEF CleanupBegins
  <2>2. CASE CleanupExits(p)
    BY <2>2 DEF CleanupExits, ShutdownCleanup, Exit, CloseGuard
  <2>3. CASE DropEnds(p) BY <2>3 DEF DropEnds, ShutdownCleanup
  <2> QED BY <1>4, <2>1, <2>2, <2>3 DEF CleaningUp
<1>5. ASSUME NEW p \in Procs, Ending(p) PROVE InstancesInv'
  <2>1. CASE QuitFromTray(p) BY <2>1 DEF QuitFromTray, Runs
  <2>2. CASE BeginGracefulQuit(p) BY <2>2 DEF BeginGracefulQuit, FrameRuns
  <2>3. CASE QuitFrame(p) BY <2>3 DEF QuitFrame, ShutdownCleanup, FrameRuns
  <2>4. CASE WindowCloses(p) BY <2>4 DEF WindowCloses
  <2>5. CASE MainReturns(p) BY <2>5 DEF MainReturns, Exit, CloseGuard
  <2>6. CASE Crash(p) BY <2>6 DEF Crash, Exit, CloseGuard, Alive
  <2> QED BY <1>5, <2>1, <2>2, <2>3, <2>4, <2>5, <2>6 DEF Ending
<1>6. ASSUME NEW p \in Procs, NEW t \in Threads, Working(p, t)
      PROVE InstancesInv'
  <2>1. CASE ThreadRuns(p, t) BY <2>1 DEF ThreadRuns, Runs, Releases
  <2>2. CASE ThreadStartsCapture(p, t)
    BY <2>2 DEF ThreadStartsCapture, Runs, Releases
  <2>3. CASE ThreadEndsCapture(p, t)
    BY <2>3 DEF ThreadEndsCapture, Runs, Releases
  <2> QED BY <1>6, <2>1, <2>2, <2>3 DEF Working
<1>7. ASSUME NEW p \in Procs, NEW q \in Procs, Relaunch(p, q)
      PROVE InstancesInv'
  BY <1>7 DEF Relaunch, FrameRuns, Runs
<1>8. CASE UNCHANGED vars BY <1>8 DEF vars
<1> QED BY <1>1, <1>2, <1>3, <1>4, <1>5, <1>6, <1>7, <1>8 DEF Next

LEMMA InstancesInvHolds == Spec => []InstancesInv
<1>1. Init => InstancesInv
  <2> SUFFICES ASSUME Init PROVE InstancesInv
    OBVIOUS
  <2>1. FlagsOK
    BY Zenon DEF Init, FlagsOK
  <2> QED
    BY <2>1
    DEF Init, FlagsOK, InstancesInv, TypeOK, Phases, NoHandles, NoListener, Cleanups,
        Threads, Staying, Running
<1> QED BY <1>1, InstancesStep, PTL DEF Spec

\* Every field keeps its type, and only a process that is there has handles to
\* the mutex and the event of single_instance.rs.
THEOREM InstancesTypes == Spec => []TypeOK
<1>1. InstancesInv => TypeOK BY DEF InstancesInv
<1> QED BY <1>1, InstancesInvHolds, PTL

\* Once the last process has ended, neither the firewall rule nor the session
\* keys are left, unless that process had no chance to clean up.
THEOREM NothingOutlivesHolds == Spec => []NothingOutlives
<1>1. InstancesInv => NothingOutlives
  BY DEF InstancesInv, NothingOutlives, Alive, Responsible
<1> QED BY <1>1, InstancesInvHolds, PTL

\* Quits, crashes and launches can run into each other in any way: every
\* window beyond the first is there because an update opened it, or because the
\* mutex could not be had.
THEOREM OnlyUpdatesOpenASecondCopyHolds == Spec => []OnlyUpdatesOpenASecondCopy
<1>1. InstancesInv => OnlyUpdatesOpenASecondCopy
  <2> SUFFICES ASSUME InstancesInv PROVE OnlyUpdatesOpenASecondCopy
    OBVIOUS
  <2> DEFINE Extra == relaunched \cup unguarded
  <2> DEFINE Launched == Staying \ Extra
  <2>1. IsFiniteSet(Extra) /\ Cardinality(Extra) \in Nat
    BY InstancesAssumption, FS_Subset, FS_CardinalityType
    DEF InstancesAssumption, InstancesInv, TypeOK
  <2>2. CASE Launched = {}
    <3>1. Staying \subseteq Extra
      BY <2>2
    <3>2. Cardinality(Staying) <= Cardinality(Extra) /\ IsFiniteSet(Staying)
      BY <2>1, <3>1, FS_Subset
    <3> QED
      BY <2>1, <3>2, FS_CardinalityType DEF OnlyUpdatesOpenASecondCopy
  <2>3. ASSUME NEW p \in Launched PROVE OnlyUpdatesOpenASecondCopy
    <3> DEFINE All == Extra \cup {p}
    <3>1. Staying \subseteq All
      BY <2>3 DEF InstancesInv
    <3>2. p \notin Extra
      BY <2>3
    <3>3. IsFiniteSet(All) /\ Cardinality(All) = Cardinality(Extra) + 1
      BY <2>1, <3>2, FS_AddElement
    <3> HIDE DEF All
    <3>4. Cardinality(Staying) <= Cardinality(All) /\ IsFiniteSet(Staying)
      BY <3>1, <3>3, FS_Subset
    <3> QED
      BY <2>1, <3>3, <3>4, FS_CardinalityType DEF OnlyUpdatesOpenASecondCopy
  <2> QED BY <2>2, <2>3
<1> QED BY <1>1, InstancesInvHolds, PTL

=============================================================================
