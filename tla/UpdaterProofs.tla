---------------------------- MODULE UpdaterProofs ----------------------------
(* Theorems about Updater, for any number of releases.                     *)
EXTENDS Updater, TLAPS

FlagsOK == show_update_modal \in BOOLEAN /\ unread \in BOOLEAN

LEMMA FlagsStep == FlagsOK /\ [Next]_vars => FlagsOK'
<1> SUFFICES ASSUME FlagsOK, [Next]_vars PROVE FlagsOK'
  OBVIOUS
<1>1. CASE Publish BY <1>1, Zenon DEF Publish, installVars, FlagsOK
<1>2. CASE Check
  BY <1>2, Zenon
  DEF Check, CheckForUpdate, CheckAnswered, PollCheckRelease, PollCheckFailed,
      installVars, FlagsOK
<1>3. CASE Dialog
  BY <1>3, Zenon DEF Dialog, OpenModal, CloseModal, InstallClicked, installVars,
                     FlagsOK
<1>4. CASE InstallThread
  BY <1>4, Zenon
  DEF InstallThread, InstallProgresses, InstallSucceeds, InstallFails, FlagsOK
<1>5. CASE PollInstall
  BY <1>5, Zenon
  DEF PollInstall, PollProgress, Relaunched, InstallFailed, FreshProcess, FlagsOK
<1>6. CASE Restart BY <1>6, Zenon DEF Restart, FreshProcess, FlagsOK
<1>7. CASE UNCHANGED vars BY <1>7, Zenon DEF vars, installVars, FlagsOK
<1> QED BY <1>1, <1>2, <1>3, <1>4, <1>5, <1>6, <1>7 DEF Next

\* Each step to a new process, which starts from what is on disk.
LEMMA FreshProcessKeeps ==
    UpdaterInv /\ FreshProcess(disk) /\ UNCHANGED <<published, disk>> /\ FlagsOK'
        => UpdaterInv'
  BY UpdaterAssumption
  DEF UpdaterAssumption, UpdaterInv, TypeOK, BusyHasInstall, OfferedIsNewer,
      InstallGoesForward, InProgress, FreshProcess, Versions, Busy, Idleish,
      Ended, FlagsOK

\* InstallGoesForward is what UpdatesGoForward needs: a step between versions
\* starts from the disk, and what reaches the disk was offered as newer.
LEMMA UpdaterStep == UpdaterInv /\ [Next]_vars => UpdaterInv'
<1> SUFFICES ASSUME UpdaterInv, [Next]_vars PROVE UpdaterInv'
  OBVIOUS
<1>0. FlagsOK'
  BY FlagsStep DEF UpdaterInv, TypeOK, FlagsOK
<1> USE UpdaterAssumption, <1>0
    DEF FlagsOK, UpdaterAssumption, UpdaterInv, TypeOK, BusyHasInstall,
        OfferedIsNewer, InstallGoesForward, InProgress, Versions, Busy, Idleish, Ended
<1>1. CASE Publish BY <1>1 DEF Publish, checkVars, installVars
<1>2. CASE Check
  <2>1. CASE CheckForUpdate
    BY <2>1 DEF CheckForUpdate, MayCheck, installVars
  <2>2. CASE CheckAnswered
    BY <2>2 DEF CheckAnswered, installVars
  <2>3. CASE PollCheckRelease
    BY <2>3 DEF PollCheckRelease, IsNewer, installVars
  <2>4. CASE PollCheckFailed
    BY <2>4 DEF PollCheckFailed, installVars
  <2> QED BY <1>2, <2>1, <2>2, <2>3, <2>4 DEF Check
<1>3. CASE Dialog
  <2>1. CASE OpenModal BY <2>1 DEF OpenModal, checkVars, installVars
  <2>2. CASE CloseModal BY <2>2 DEF CloseModal, checkVars, installVars
  <2>3. CASE InstallClicked BY <2>3 DEF InstallClicked, checkVars
  <2> QED BY <1>3, <2>1, <2>2, <2>3 DEF Dialog
<1>4. CASE InstallThread
  <2>1. CASE InstallProgresses BY <2>1 DEF InstallProgresses, checkVars
  <2>2. CASE InstallSucceeds BY <2>2 DEF InstallSucceeds, checkVars
  <2>3. CASE InstallFails BY <2>3 DEF InstallFails, checkVars
  <2> QED BY <1>4, <2>1, <2>2, <2>3 DEF InstallThread
<1>5. CASE PollInstall
  <2>1. CASE PollProgress BY <2>1 DEF PollProgress, checkVars
  <2>2. CASE Relaunched BY <2>2, FreshProcessKeeps DEF Relaunched
  <2>3. CASE InstallFailed BY <2>3 DEF InstallFailed, checkVars
  <2> QED BY <1>5, <2>1, <2>2, <2>3 DEF PollInstall
<1>6. CASE Restart BY <1>6, FreshProcessKeeps DEF Restart
<1>7. CASE UNCHANGED vars BY <1>7 DEF vars, checkVars, installVars
<1> QED BY <1>1, <1>2, <1>3, <1>4, <1>5, <1>6, <1>7 DEF Next

LEMMA UpdaterInvHolds == Spec => []UpdaterInv
<1>1. Init => UpdaterInv
  <2> SUFFICES ASSUME Init PROVE UpdaterInv
    OBVIOUS
  <2>1. show_update_modal \in BOOLEAN /\ unread \in BOOLEAN
    BY Zenon DEF Init
  <2> QED
    BY <2>1, UpdaterAssumption
    DEF UpdaterAssumption, Init, UpdaterInv, TypeOK, BusyHasInstall,
        OfferedIsNewer, InstallGoesForward, InProgress, Versions, Busy,
        Idleish, Ended
<1> QED BY <1>1, UpdaterStep, PTL DEF Spec

\* Every field of the updater keeps its type: a progress that is polled late
\* never brings the dialog into a state that poll_update_install does not know.
THEOREM UpdaterTypes == Spec => []TypeOK
<1>1. UpdaterInv => TypeOK BY DEF UpdaterInv
<1> QED BY <1>1, UpdaterInvHolds, PTL

\* A dialog that shows a stage of an install always has an install whose end
\* poll_update_install will see, whatever check lands in between.
THEOREM BusyHasInstallHolds == Spec => []BusyHasInstall
<1>1. UpdaterInv => BusyHasInstall BY DEF UpdaterInv
<1> QED BY <1>1, UpdaterInvHolds, PTL

\* start_update_install never gets a release that is not newer than the
\* running version, a retry after a failed relaunch included.
THEOREM OfferedIsNewerHolds == Spec => []OfferedIsNewer
<1>1. UpdaterInv => OfferedIsNewer BY DEF UpdaterInv
<1> QED BY <1>1, UpdaterInvHolds, PTL

\* No relaunch and no restart runs an older version than the process before.
THEOREM UpdatesGoForwardHolds == Spec => UpdatesGoForward
<1>1. UpdaterInv /\ [Next]_vars => [running' >= running]_vars
  <2> SUFFICES ASSUME UpdaterInv, Next PROVE running' >= running
    OBVIOUS
  <2>1. running \in Nat /\ disk >= running
    BY UpdaterAssumption
    DEF UpdaterAssumption, UpdaterInv, TypeOK, Versions, InstallGoesForward
  <2>2. running' \in {running, disk}
    BY DEF Next, Publish, Check, CheckForUpdate, CheckAnswered,
           PollCheckRelease, PollCheckFailed, Dialog, OpenModal, CloseModal,
           InstallClicked, InstallThread, InstallProgresses, InstallSucceeds,
           InstallFails, PollInstall, PollProgress, Relaunched, InstallFailed,
           Restart, FreshProcess
  <2> QED BY <2>1, <2>2
<1> QED BY <1>1, UpdaterInvHolds, PTL DEF Spec, UpdatesGoForward

=============================================================================
