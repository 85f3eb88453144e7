------------------------------ MODULE Updater ------------------------------
(***************************************************************************)
(* The self-updater as the app drives it (the "self-update" handlers and   *)
(* the update dialog of src/src/app.rs, with src/src/updater.rs as the two *)
(* threads they start): a periodic check for a newer release, a dialog     *)
(* that offers it, and an install thread that downloads, verifies and      *)
(* swaps the executable before the app relaunches itself.                  *)
(*                                                                         *)
(* Handlers run one at a time under the app's mutex; the two threads only  *)
(* send on their channels.  A release is its version; version 0 is the one *)
(* this machine starts with.                                               *)
(***************************************************************************)
EXTENDS Naturals

CONSTANT MaxVersion   \* bound on the versions that get published

ASSUME UpdaterAssumption == MaxVersion \in Nat

VARIABLES
    published,        \* the release GitHub calls the latest
    disk,             \* version of the executable on disk
    running,          \* version of this process
    update_state,
    current_release,  \* release in the dialog; 0 is None
    show_update_modal,
    check_rx,         \* "none", "sent", "release" or "failed"
    checked,          \* the release that check returned
    thread,           \* the install thread; "none" when there is none
    installing,       \* the release that thread installs
    unread            \* it sent progress that has not been polled

checkVars == <<check_rx, checked>>
installVars == <<thread, installing, unread>>
vars == <<published, disk, running, update_state, current_release,
          show_update_modal, checkVars, installVars>>

Versions == 0..MaxVersion
Busy == {"Downloading", "Verifying", "Installing"}
Idleish == {"Available", "Failed"}
Ended == {"ok", "error"}

\* update_progress_rx.is_some(): from the click to the poll of its result.
InProgress == thread # "none"

TypeOK ==
    /\ published \in Versions
    /\ disk \in Versions
    /\ running \in Versions
    /\ update_state \in {"Idle"} \cup Idleish \cup Busy
    /\ current_release \in Versions
    /\ show_update_modal \in BOOLEAN
    /\ check_rx \in {"none", "sent", "release", "failed"}
    /\ checked \in Versions
    /\ thread \in {"none"} \cup Busy \cup Ended
    /\ installing \in Versions
    /\ unread \in BOOLEAN

\* ArcTrackerSyncApp::new of a process started from the executable on disk.
FreshProcess(version) ==
    /\ running' = version
    /\ update_state' = "Idle"
    /\ current_release' = 0
    /\ show_update_modal' = FALSE
    /\ check_rx' = "none"
    /\ checked' = 0
    /\ thread' = "none"
    /\ installing' = 0
    /\ unread' = FALSE

Init ==
    /\ published \in Versions
    /\ disk = 0
    /\ running = 0
    /\ update_state = "Idle"
    /\ current_release = 0
    /\ show_update_modal = FALSE
    /\ check_rx = "none"
    /\ checked = 0
    /\ thread = "none"
    /\ installing = 0
    /\ unread = FALSE

-----------------------------------------------------------------------------
(* Faulty variants of definitions below.                                   *)

\* A comparison that takes any other version for a newer one.
IsOther(version) == version # running

\* A failed install that leaves the dialog as it is.
InstallFailedSilently ==
    /\ thread \in Ended
    /\ thread' = "none"
    /\ installing' = 0
    /\ unread' = FALSE
    /\ UNCHANGED <<published, disk, running, update_state, current_release,
                   show_update_modal, checkVars>>

\* A poll that shows the thread's last word, whatever it is.
PollProgressOfAll ==
    /\ unread
    /\ unread' = FALSE
    /\ update_state' = thread
    /\ UNCHANGED <<published, disk, running, current_release,
                   show_update_modal, checkVars, thread, installing>>

\* A poll that shows a release it does not keep.
PollCheckReleaseForgets ==
    /\ check_rx = "release"
    /\ check_rx' = "none"
    /\ checked' = 0
    /\ update_state' = "Available"
    /\ UNCHANGED <<published, disk, running, current_release,
                   show_update_modal, installVars>>

-----------------------------------------------------------------------------
(* Checking.                                                               *)

\* A release is published, or withdrawn so that an older one is the latest.
Publish ==
    /\ published' \in Versions \ {published}
    /\ UNCHANGED <<disk, running, update_state, current_release,
                   show_update_modal, checkVars, installVars>>

MayCheck ==
    /\ check_rx = "none"
    /\ ~InProgress
    /\ update_state \in {"Idle", "Failed"}

\* maybe_check_for_update once UPDATE_CHECK_INTERVAL has passed.
CheckForUpdate ==
    /\ MayCheck
    /\ check_rx' = "sent"
    /\ UNCHANGED <<published, disk, running, update_state, current_release,
                   show_update_modal, checked, installVars>>

\* fetch_latest: the latest release, or any error on the way to it.
CheckAnswered ==
    /\ check_rx = "sent"
    /\ \/ check_rx' = "release" /\ checked' = published
       \/ check_rx' = "failed" /\ checked' = 0
    /\ UNCHANGED <<published, disk, running, update_state, current_release,
                   show_update_modal, installVars>>

IsNewer(version) == version > running

\* poll_update_check: whatever the state has become since the check began.
PollCheckRelease ==
    /\ check_rx = "release"
    /\ check_rx' = "none"
    /\ checked' = 0
    /\ IF IsNewer(checked)
       THEN current_release' = checked /\ update_state' = "Available"
       ELSE UNCHANGED <<current_release, update_state>>
    /\ UNCHANGED <<published, disk, running, show_update_modal, installVars>>

PollCheckFailed ==
    /\ check_rx = "failed"
    /\ check_rx' = "none"
    /\ UNCHANGED <<published, disk, running, update_state, current_release,
                   show_update_modal, checked, installVars>>

-----------------------------------------------------------------------------
(* The dialog.                                                             *)

\* The pill in the title bar is there unless the state is Idle.
OpenModal ==
    /\ update_state # "Idle"
    /\ show_update_modal' = TRUE
    /\ UNCHANGED <<published, disk, running, update_state, current_release,
                   checkVars, installVars>>

\* "Later", the backdrop or Esc; Idle closes the dialog by itself, and so does
\* a missing release.
CloseModal ==
    /\ show_update_modal
    /\ update_state \notin Busy
    /\ show_update_modal' = FALSE
    /\ UNCHANGED <<published, disk, running, update_state, current_release,
                   checkVars, installVars>>

\* The install or retry button: start_update_install, which returns at once
\* while an install is under way.
InstallClicked ==
    /\ show_update_modal
    /\ update_state \in Idleish
    /\ current_release # 0
    /\ ~InProgress
    /\ update_state' = "Downloading"
    /\ thread' = "Downloading"
    /\ installing' = current_release
    /\ unread' = FALSE
    /\ UNCHANGED <<published, disk, running, current_release,
                   show_update_modal, checkVars>>

-----------------------------------------------------------------------------
(* The install thread: download_and_install.                               *)

\* It sends its progress: a chunk of the download, or the next stage.
InstallProgresses ==
    /\ \/ thread = "Downloading" /\ thread' \in {"Downloading", "Verifying"}
       \/ thread = "Verifying" /\ thread' = "Installing"
    /\ unread' = TRUE
    /\ UNCHANGED <<published, disk, running, update_state, current_release,
                   show_update_modal, checkVars, installing>>

\* self_replace puts the new executable in place.
InstallSucceeds ==
    /\ thread = "Installing"
    /\ thread' = "ok"
    /\ disk' = installing
    /\ UNCHANGED <<published, running, update_state, current_release,
                   show_update_modal, checkVars, installing, unread>>

\* An error at any stage, or a panic.
InstallFails ==
    /\ thread \in Busy
    /\ thread' = "error"
    /\ UNCHANGED <<published, disk, running, update_state, current_release,
                   show_update_modal, checkVars, installing, unread>>

\* poll_update_install while the thread runs: only the latest progress counts.
PollProgress ==
    /\ unread
    /\ thread \in Busy
    /\ unread' = FALSE
    /\ update_state' = thread
    /\ UNCHANGED <<published, disk, running, current_release,
                   show_update_modal, checkVars, thread, installing>>

\* poll_update_install, Ok: the new process starts and this one exits.
Relaunched ==
    /\ thread = "ok"
    /\ FreshProcess(disk)
    /\ UNCHANGED <<published, disk>>

\* poll_update_install, Err or Disconnected; or Ok, but the relaunch failed.
InstallFailed ==
    /\ thread \in Ended
    /\ thread' = "none"
    /\ installing' = 0
    /\ unread' = FALSE
    /\ update_state' = "Failed"
    /\ UNCHANGED <<published, disk, running, current_release,
                   show_update_modal, checkVars>>

\* The process ends and is started again, at any moment.
Restart ==
    /\ FreshProcess(disk)
    /\ UNCHANGED <<published, disk>>

-----------------------------------------------------------------------------
Check == CheckForUpdate \/ CheckAnswered \/ PollCheckRelease \/ PollCheckFailed
Dialog == OpenModal \/ CloseModal \/ InstallClicked
InstallThread == InstallProgresses \/ InstallSucceeds \/ InstallFails
PollInstall == PollProgress \/ Relaunched \/ InstallFailed

Next == Publish \/ Check \/ Dialog \/ InstallThread \/ PollInstall \/ Restart

Spec == Init /\ [][Next]_vars

\* The worker polls for ever.  The install thread leaves every stage: a read
\* has a 60 s timeout, and an archive has an end.
Fairness ==
    /\ WF_vars(Relaunched \/ InstallFailed)
    /\ WF_vars(InstallSucceeds \/ InstallFails \/
               (InstallProgresses /\ thread' # thread))

FairSpec == Spec /\ Fairness

-----------------------------------------------------------------------------
(* Properties.                                                             *)

\* While the dialog shows a stage of an install, which it does not let the
\* user leave, there is an install whose end will be polled.
BusyHasInstall == update_state \in Busy => InProgress

\* What the dialog offers to install, or to retry, exists and is newer than
\* what runs: no update offers itself again after the relaunch.
OfferedIsNewer ==
    update_state # "Idle" => current_release > running

\* An install is always of a release newer than this process, and so is what
\* is on disk once it ends; the dialog has a release to fall back to.
InstallGoesForward ==
    /\ disk >= running
    /\ InProgress => installing > running /\ update_state # "Idle"

\* The inductive invariant behind the safety properties.
UpdaterInv == TypeOK /\ BusyHasInstall /\ OfferedIsNewer /\ InstallGoesForward

\* A process that takes over from another is never older than it, whichever
\* releases came, went, failed to install or were found by a late check.
UpdatesGoForward == [][running' >= running]_vars

\* An install always ends: in a relaunch, or in a dialog that can be closed.
ModalUnlocks == update_state \in Busy ~> update_state \notin Busy

=============================================================================
