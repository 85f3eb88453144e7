---------------------------- MODULE SyncSession ----------------------------
(***************************************************************************)
(* The account session of ARCTracker Sync (src/src/app.rs): the signed-in  *)
(* ARCTracker account, the game token the capture thread last saw, and the *)
(* submissions, retries and refreshes that tie the two together.           *)
(*                                                                         *)
(* Everything here runs under the mutex around ArcTrackerSyncApp, one      *)
(* handler at a time: the 750 ms worker tick, a frame of the UI, a tray    *)
(* command.  HTTP requests run on threads of their own and come back       *)
(* through channels (submit_rx, refresh_rx, auth_rx).  A tick polls every  *)
(* channel, but a poll of an empty channel does nothing and an answer may  *)
(* take any time, so the order of the polls inside a tick gives no         *)
(* behaviour that one action per poll does not give.                       *)
(*                                                                         *)
(* Auth tokens are abstracted to the account they belong to, game tokens   *)
(* to their fingerprint, and an Instant to the fact that it is set.        *)
(***************************************************************************)
EXTENDS Integers, FiniteSets

CONSTANTS
    Accounts,     \* ARCTracker accounts a browser sign-in can return
    Tokens,       \* game tokens the capture can observe, by fingerprint
    None,         \* the Option::None of every optional field
    Retries,      \* entries of the submit_backoff schedule (5 in the code)
    SeenLimit,    \* MAX_SEEN_FINGERPRINTS of the capture thread
    StoreMayFail  \* TRUE: a credential-store call may return an error

ASSUME SessionAssumption ==
    /\ None \notin Accounts
    /\ None \notin Tokens
    /\ Retries \in Nat
    /\ SeenLimit \in Nat
    /\ StoreMayFail \in BOOLEAN

VARIABLES
    auth_token,                    \* account signed in, or None
    stored_token,                  \* account in the credential store, or None
    auth_rx,                       \* a browser sign-in is awaited
    refresh_rx,                    \* "none", "sent" or the queued answer
    refreshing,                    \* account whose token is being refreshed
    refresh_after_unauthorized,
    submit_rx,                     \* "none", "sent" or the queued answer
    submitting,                    \* account and token of that submission
    latest_token,
    token_submitted,
    submitted_token_fingerprint,
    account_name,                  \* account named in the last accepted answer
    consecutive_submit_failures,   \* saturates at GiveUpAt
    refreshed_for_current_failure,
    submit_gave_up,
    submit_failed_at,              \* TRUE when the Instant is set
    capture,                       \* a capture thread is running
    emitted,                       \* seen_fingerprints as far as polled
    capture_blocked,
    sync_paused,
    attempts,                      \* history: submissions begun this episode
    refused,                       \* history: tokens declined this episode
    signed_out                     \* history: how the user last signed out

authVars == <<auth_token, stored_token, auth_rx, signed_out>>
refreshVars == <<refresh_rx, refreshing, refresh_after_unauthorized>>
submitVars == <<submit_rx, submitting, attempts>>
syncedVars == <<token_submitted, submitted_token_fingerprint, account_name>>
retryVars == <<consecutive_submit_failures, refreshed_for_current_failure,
               submit_gave_up, submit_failed_at, refused>>
captureVars == <<capture, emitted, capture_blocked, sync_paused>>
vars == <<authVars, refreshVars, submitVars, latest_token, syncedVars,
          retryVars, captureVars>>

\* The first failure count for which submit_backoff has no delay.  Every
\* larger count behaves like it, so the counter saturates here.
GiveUpAt == Retries + 1

SubmitReplies == {"linked", "declined", "unauthorized", "failed"}
RefreshReplies == {"renewed", "rejected", "failed"}

MaybeAccount == Accounts \cup {None}
MaybeToken == Tokens \cup {None}
NoJob == [auth |-> None, token |-> None]
Jobs == [auth : Accounts, token : Tokens]

FlagsOK ==
    /\ auth_rx \in BOOLEAN
    /\ refresh_after_unauthorized \in BOOLEAN
    /\ token_submitted \in BOOLEAN
    /\ refreshed_for_current_failure \in BOOLEAN
    /\ submit_gave_up \in BOOLEAN
    /\ submit_failed_at \in BOOLEAN
    /\ capture \in BOOLEAN
    /\ capture_blocked \in BOOLEAN
    /\ sync_paused \in BOOLEAN

FieldsOK ==
    /\ auth_token \in MaybeAccount
    /\ stored_token \in MaybeAccount
    /\ refresh_rx \in {"none", "sent"} \cup RefreshReplies
    /\ refreshing \in IF refresh_rx = "none" THEN {None} ELSE Accounts
    /\ submit_rx \in {"none", "sent"} \cup SubmitReplies
    /\ submitting \in IF submit_rx = "none" THEN {NoJob} ELSE Jobs
    /\ latest_token \in MaybeToken
    /\ submitted_token_fingerprint \in MaybeToken
    /\ account_name \in MaybeAccount
    /\ consecutive_submit_failures \in 0..GiveUpAt
    /\ emitted \subseteq Tokens
    /\ attempts \in Nat
    /\ refused \subseteq Tokens
    /\ signed_out \in {"no", "clean", "stale"}

TypeOK == FlagsOK /\ FieldsOK

-----------------------------------------------------------------------------
(* Helpers shared by the handlers.                                         *)

\* Faulty: one delay too many.
HasBackoffOffByOne(f) == f \in 1..GiveUpAt

\* submit_backoff(f).is_some()
HasBackoff(f) == f \in 1..Retries

\* The outcomes of a credential-store call that should leave v behind.
Stored(v) == IF StoreMayFail THEN {v, stored_token} ELSE {v}

\* submit_latest_token_if_ready with an idle channel: auth, token and fp are
\* the values the handler has written by the time it makes the call, n the
\* submissions already begun in the episode.
BeginSubmit(auth, token, fp, n) ==
    IF auth # None /\ token # None /\ token # fp
    THEN /\ submit_rx' = "sent"
         /\ submitting' = [auth |-> auth, token |-> token]
         /\ attempts' = n + 1
    ELSE /\ submit_rx' = "none"
         /\ submitting' = NoJob
         /\ attempts' = n

\* submit_latest_token_if_ready: nothing happens while one is in flight.
SubmitLatest(auth, token, fp, n) ==
    IF submit_rx = "none"
    THEN BeginSubmit(auth, token, fp, n)
    ELSE UNCHANGED <<submit_rx, submitting>> /\ attempts' = n

ResetSubmitRetryState ==
    /\ consecutive_submit_failures' = 0
    /\ refreshed_for_current_failure' = FALSE
    /\ submit_gave_up' = FALSE
    /\ submit_failed_at' = FALSE
    /\ refused' = {}

\* Faulty: the count is not kept where the schedule ends.
NoteSubmitFailureUnbounded ==
    LET f == consecutive_submit_failures + 1
    IN  /\ consecutive_submit_failures' = f
        /\ submit_failed_at' = HasBackoff(f)
        /\ submit_gave_up' = (submit_gave_up \/ ~HasBackoff(f))

\* Faulty: a failure counts, but the clock is left as it was.
NoteSubmitFailureKeepsClock ==
    LET f == IF consecutive_submit_failures < GiveUpAt
             THEN consecutive_submit_failures + 1 ELSE GiveUpAt
    IN  /\ consecutive_submit_failures' = f
        /\ submit_gave_up' = (submit_gave_up \/ ~HasBackoff(f))
        /\ UNCHANGED submit_failed_at

NoteSubmitFailure ==
    LET f == IF consecutive_submit_failures < GiveUpAt
             THEN consecutive_submit_failures + 1 ELSE GiveUpAt
    IN  /\ consecutive_submit_failures' = f
        /\ submit_failed_at' = HasBackoff(f)
        /\ submit_gave_up' = (submit_gave_up \/ ~HasBackoff(f))

\* start_refresh: a refresh already in flight is not replaced.
StartRefresh(account) ==
    IF refresh_rx = "none"
    THEN refresh_rx' = "sent" /\ refreshing' = account
    ELSE UNCHANGED <<refresh_rx, refreshing>>

\* process_segment of the capture thread, for a token it found.
ReportToken(t) ==
    IF Cardinality(emitted) >= SeenLimit
    THEN emitted' = {t}
    ELSE t \notin emitted /\ emitted' = emitted \cup {t}

ForgetSynced ==
    /\ token_submitted' = FALSE
    /\ submitted_token_fingerprint' = None

ClearAuthSession ==
    /\ auth_token' = None
    /\ stored_token' \in Stored(None)
    /\ ForgetSynced
    /\ account_name' = None

-----------------------------------------------------------------------------
(* Faulty variants of handlers below: the slips the properties must catch. *)

\* A sign-in that leaves a token captured before it to the next capture.
PollAuthOkWithoutSubmit(account) ==
    /\ auth_rx
    /\ auth_rx' = FALSE
    /\ stored_token' \in Stored(account)
    /\ auth_token' = account
    /\ signed_out' = "no"
    /\ UNCHANGED <<refreshVars, submitVars, latest_token, syncedVars,
                   retryVars, captureVars>>

\* A sign-out that forgets the sign-in still open in the browser.
SignOutKeepsAuthRx ==
    /\ ClearAuthSession
    /\ latest_token' = None
    /\ signed_out' = IF refresh_rx = "none" /\ stored_token' = None
                     THEN "clean" ELSE "stale"
    /\ UNCHANGED <<auth_rx, refreshVars, submitVars, retryVars, captureVars>>

\* A failed refresh that leaves its flag for the next one.
PollRefreshErrKeepsFlag ==
    /\ refresh_rx \in {"rejected", "failed"}
    /\ refresh_rx' = "none"
    /\ refreshing' = None
    /\ IF refresh_after_unauthorized
       THEN ClearAuthSession
       ELSE UNCHANGED <<auth_token, stored_token, syncedVars>>
    /\ UNCHANGED <<auth_rx, signed_out, refresh_after_unauthorized,
                   submitVars, latest_token, retryVars, captureVars>>

\* A refresh for every 401, without the one-per-episode guard.
PollSubmitUnauthorizedAlways ==
    /\ submit_rx = "unauthorized"
    /\ submit_rx' = "none"
    /\ submitting' = NoJob
    /\ NoteSubmitFailure
    /\ IF auth_token # None
       THEN /\ refreshed_for_current_failure' = TRUE
            /\ refresh_after_unauthorized' = TRUE
            /\ StartRefresh(auth_token)
            /\ UNCHANGED <<auth_token, stored_token, syncedVars>>
       ELSE /\ ClearAuthSession
            /\ UNCHANGED <<refreshed_for_current_failure, refreshVars>>
    /\ UNCHANGED <<auth_rx, signed_out, attempts, latest_token, refused,
                   captureVars>>

\* New capture settings that forget the token but not that it was accepted.
CaptureSettingsChangedKeepsFlag ==
    /\ capture' = FALSE
    /\ emitted' = {}
    /\ capture_blocked' = FALSE
    /\ latest_token' = None
    /\ submitted_token_fingerprint' = None
    /\ ResetSubmitRetryState
    /\ attempts' = 0
    /\ UNCHANGED <<authVars, refreshVars, submit_rx, submitting,
                   token_submitted, account_name, sync_paused>>

-----------------------------------------------------------------------------
(* A launch of the program.                                                *)

\* Every field of a fresh process that does not come from the store.
FreshProcess ==
    /\ auth_rx' = FALSE
    /\ refresh_after_unauthorized' = FALSE
    /\ submit_rx' = "none"
    /\ submitting' = NoJob
    /\ attempts' = 0
    /\ latest_token' = None
    /\ ForgetSynced
    /\ account_name' = None
    /\ ResetSubmitRetryState
    /\ capture' = FALSE
    /\ emitted' = {}
    /\ capture_blocked' \in BOOLEAN   \* the first refresh_interfaces
    /\ sync_paused' = FALSE

\* maybe_refresh_auth_on_launch: the saved token may be close to its expiry.
LaunchRefresh(account) ==
    \/ refresh_rx' = "none" /\ refreshing' = None
    \/ account # None /\ refresh_rx' = "sent" /\ refreshing' = account

\* The process ends, by Quit or by force, and is started again.  What was in
\* memory is gone; a saved token is taken over if it is still current.
Restart ==
    /\ FreshProcess
    /\ \/ /\ auth_token' = stored_token
          /\ UNCHANGED stored_token
       \/ /\ stored_token # None       \* expired or unreadable
          /\ auth_token' = None
          /\ stored_token' \in Stored(None)
    /\ LaunchRefresh(auth_token')
    /\ UNCHANGED signed_out

Init ==
    /\ auth_token \in MaybeAccount
    /\ stored_token = auth_token
    /\ auth_rx = FALSE
    /\ \/ refresh_rx = "none" /\ refreshing = None
       \/ auth_token # None /\ refresh_rx = "sent" /\ refreshing = auth_token
    /\ refresh_after_unauthorized = FALSE
    /\ submit_rx = "none"
    /\ submitting = NoJob
    /\ latest_token = None
    /\ token_submitted = FALSE
    /\ submitted_token_fingerprint = None
    /\ account_name = None
    /\ consecutive_submit_failures = 0
    /\ refreshed_for_current_failure = FALSE
    /\ submit_gave_up = FALSE
    /\ submit_failed_at = FALSE
    /\ capture = FALSE
    /\ emitted = {}
    /\ capture_blocked \in BOOLEAN
    /\ sync_paused = FALSE
    /\ attempts = 0
    /\ refused = {}
    /\ signed_out = "no"

-----------------------------------------------------------------------------
(* Signing in and out.                                                     *)

\* The sign-in button is there only in HubState::SignedOut.
StartSignIn ==
    /\ auth_token = None
    /\ ~auth_rx
    /\ auth_rx' = TRUE
    /\ signed_out' = IF signed_out = "clean" THEN "no" ELSE signed_out
    /\ UNCHANGED <<auth_token, stored_token, refreshVars, submitVars,
                   latest_token, syncedVars, retryVars, captureVars>>

\* cancel_sign_in, and poll_auth when the callback failed or its thread died.
EndSignIn ==
    /\ auth_rx
    /\ auth_rx' = FALSE
    /\ UNCHANGED <<auth_token, stored_token, signed_out, refreshVars,
                   submitVars, latest_token, syncedVars, retryVars,
                   captureVars>>

\* poll_auth, Ok: the browser came back with a token for account.
PollAuthOk(account) ==
    /\ auth_rx
    /\ auth_rx' = FALSE
    /\ stored_token' \in Stored(account)
    /\ auth_token' = account
    /\ signed_out' = IF signed_out = "stale" THEN "no" ELSE signed_out
    /\ SubmitLatest(account, latest_token, submitted_token_fingerprint, 0)
    /\ UNCHANGED <<refreshVars, latest_token, syncedVars, retryVars,
                   captureVars>>

\* sign_out, from the tray menu (always enabled) or the settings screen.
SignOut ==
    /\ auth_rx' = FALSE
    /\ ClearAuthSession
    /\ latest_token' = None
    /\ signed_out' = IF refresh_rx = "none" /\ stored_token' = None
                     THEN "clean" ELSE "stale"
    /\ UNCHANGED <<refreshVars, submitVars, retryVars, captureVars>>

-----------------------------------------------------------------------------
(* Refreshing the sign-in.                                                 *)

TimerRefresh ==
    /\ refresh_rx = "none"
    /\ auth_token # None
    /\ StartRefresh(auth_token)
    /\ UNCHANGED <<authVars, refresh_after_unauthorized, submitVars,
                   latest_token, syncedVars, retryVars, captureVars>>

\* The refresh thread has its answer: a new token, a 401, or anything else
\* that keeps submit_refresh from returning one (another status, no network,
\* a timeout, a panic).
RefreshAnswered(reply) ==
    /\ refresh_rx = "sent"
    /\ refresh_rx' = reply
    /\ UNCHANGED <<authVars, refreshing, refresh_after_unauthorized,
                   submitVars, latest_token, syncedVars, retryVars,
                   captureVars>>

PollRefreshOk ==
    /\ refresh_rx = "renewed"
    /\ refresh_rx' = "none"
    /\ refreshing' = None
    /\ stored_token' \in Stored(refreshing)
    /\ auth_token' = refreshing
    /\ refresh_after_unauthorized' = FALSE
    /\ IF refresh_after_unauthorized
       THEN SubmitLatest(refreshing, latest_token,
                         submitted_token_fingerprint, attempts)
       ELSE UNCHANGED submitVars
    /\ UNCHANGED <<auth_rx, signed_out, latest_token, syncedVars, retryVars,
                   captureVars>>

\* Err and Disconnected sign the user out when a 401 asked for the refresh,
\* and are otherwise only logged.
PollRefreshErr ==
    /\ refresh_rx \in {"rejected", "failed"}
    /\ refresh_rx' = "none"
    /\ refreshing' = None
    /\ refresh_after_unauthorized' = FALSE
    /\ IF refresh_after_unauthorized
       THEN ClearAuthSession
       ELSE UNCHANGED <<auth_token, stored_token, syncedVars>>
    /\ UNCHANGED <<auth_rx, signed_out, submitVars, latest_token, retryVars,
                   captureVars>>

-----------------------------------------------------------------------------
(* Submitting the game token.                                              *)

\* The submission thread has its answer: success=true, success=false, a 401,
\* or any other error, a panic of the thread included.
SubmitAnswered(reply) ==
    /\ submit_rx = "sent"
    /\ submit_rx' = reply
    /\ UNCHANGED <<authVars, refreshVars, submitting, attempts, latest_token,
                   syncedVars, retryVars, captureVars>>

PollSubmitLinked ==
    /\ submit_rx = "linked"
    /\ token_submitted' = TRUE
    /\ submitted_token_fingerprint' = submitting.token
    /\ account_name' = submitting.auth
    /\ ResetSubmitRetryState
    /\ BeginSubmit(auth_token, latest_token, submitting.token, 0)
    /\ UNCHANGED <<authVars, refreshVars, latest_token, captureVars>>

PollSubmitDeclined ==
    /\ submit_rx = "declined"
    /\ submit_rx' = "none"
    /\ submitting' = NoJob
    /\ IF token_submitted
       THEN UNCHANGED <<submit_failed_at, refused>>
       ELSE /\ submit_failed_at' = FALSE
            /\ refused' = refused \cup {submitting.token}
    /\ UNCHANGED <<authVars, refreshVars, attempts, latest_token, syncedVars,
                   consecutive_submit_failures, refreshed_for_current_failure,
                   submit_gave_up, captureVars>>

PollSubmitFailed ==
    /\ submit_rx = "failed"
    /\ submit_rx' = "none"
    /\ submitting' = NoJob
    /\ NoteSubmitFailure
    /\ UNCHANGED <<authVars, refreshVars, attempts, latest_token, syncedVars,
                   refreshed_for_current_failure, refused, captureVars>>

\* A 401 asks for one refresh per failure episode; without a sign-in to
\* refresh, the session is cleared.
PollSubmitUnauthorized ==
    /\ submit_rx = "unauthorized"
    /\ submit_rx' = "none"
    /\ submitting' = NoJob
    /\ NoteSubmitFailure
    /\ \/ /\ refreshed_for_current_failure
          /\ UNCHANGED <<refreshed_for_current_failure, refreshVars,
                         auth_token, stored_token, syncedVars>>
       \/ /\ ~refreshed_for_current_failure
          /\ auth_token # None
          /\ refreshed_for_current_failure' = TRUE
          /\ refresh_after_unauthorized' = TRUE
          /\ StartRefresh(auth_token)
          /\ UNCHANGED <<auth_token, stored_token, syncedVars>>
       \/ /\ ~refreshed_for_current_failure
          /\ auth_token = None
          /\ ClearAuthSession
          /\ UNCHANGED <<refreshed_for_current_failure, refreshVars>>
    /\ UNCHANGED <<auth_rx, signed_out, attempts, latest_token, refused,
                   captureVars>>

\* maybe_retry_token_submission once the backoff has elapsed: the Instant is
\* renewed whether or not there is something to submit.
RetrySubmission ==
    /\ ~token_submitted
    /\ submit_rx = "none"
    /\ submit_failed_at
    /\ IF HasBackoff(consecutive_submit_failures)
       THEN /\ BeginSubmit(auth_token, latest_token,
                           submitted_token_fingerprint, attempts)
            /\ UNCHANGED <<submit_failed_at, submit_gave_up>>
       ELSE /\ submit_failed_at' = FALSE
            /\ submit_gave_up' = TRUE
            /\ UNCHANGED submitVars
    /\ UNCHANGED <<authVars, refreshVars, latest_token, syncedVars,
                   consecutive_submit_failures, refreshed_for_current_failure,
                   refused, captureVars>>

-----------------------------------------------------------------------------
(* The capture thread and the user's controls over it.                     *)

\* The guards of maybe_start_background_capture.  That the app is elevated
\* and has an interface and a key file is the environment's choice.
MayStartCapture == ~capture /\ ~capture_blocked /\ ~sync_paused

StartCapture ==
    /\ MayStartCapture
    /\ capture' = TRUE
    /\ emitted' = {}
    /\ latest_token' = None
    /\ UNCHANGED <<authVars, refreshVars, submitVars, syncedVars, retryVars,
                   capture_blocked, sync_paused>>

\* poll_capture, Token: the thread reports each token once, until its set of
\* fingerprints is full and cleared.
PollCaptureToken(t) ==
    /\ capture
    /\ ReportToken(t)
    /\ latest_token' = t
    /\ IF t = submitted_token_fingerprint
       THEN UNCHANGED <<retryVars, submitVars>>
       ELSE /\ ResetSubmitRetryState
            /\ SubmitLatest(auth_token, t, submitted_token_fingerprint, 0)
    \* token_submitted := FALSE only when it already was.
    /\ UNCHANGED <<authVars, refreshVars, syncedVars, capture,
                   capture_blocked, sync_paused>>

\* poll_capture, Error: the thread ends and capture stays off until asked.
PollCaptureError ==
    /\ capture
    /\ capture' = FALSE
    /\ emitted' = {}
    /\ capture_blocked' = TRUE
    /\ UNCHANGED <<authVars, refreshVars, submitVars, latest_token,
                   syncedVars, retryVars, sync_paused>>

\* toggle_sync_paused; a resume starts the capture at once when it can.
TogglePause ==
    /\ sync_paused' = ~sync_paused
    /\ \/ /\ ~sync_paused
          /\ capture' = FALSE
          /\ emitted' = {}
          /\ UNCHANGED latest_token
       \/ /\ sync_paused
          /\ UNCHANGED <<capture, emitted, latest_token>>
       \/ /\ sync_paused /\ ~capture /\ ~capture_blocked
          /\ capture' = TRUE
          /\ emitted' = {}
          /\ latest_token' = None
    /\ UNCHANGED <<authVars, refreshVars, submitVars, syncedVars, retryVars,
                   capture_blocked>>

\* capture_settings_changed, after a new adapter, capture method or key file.
CaptureSettingsChanged ==
    /\ capture' = FALSE
    /\ emitted' = {}
    /\ capture_blocked' = FALSE
    /\ latest_token' = None
    /\ ForgetSynced
    /\ ResetSubmitRetryState
    /\ attempts' = 0
    /\ UNCHANGED <<authVars, refreshVars, submit_rx, submitting,
                   account_name, sync_paused>>

\* refresh_interfaces from the settings screen when the scan fails.
InterfaceScanFailed ==
    /\ capture' = FALSE
    /\ emitted' = {}
    /\ capture_blocked' = TRUE
    /\ UNCHANGED <<authVars, refreshVars, submitVars, latest_token,
                   syncedVars, retryVars, sync_paused>>

\* "Try again" in HubState::NeedsAttention: it unblocks, resets the retry
\* state, scans the interfaces, resolves the key file, starts the capture if
\* it can, and submits what is left of latest_token.  scan and keys say how
\* the scan and the key file turned out, ready whether a capture may start.
TryAgain(scan, keys, ready) ==
    LET changed == "changed" \in {scan, keys}
        kept == capture /\ scan # "failed" /\ ~changed
        blocked == scan = "failed" /\ keys = "same"
        starts == ready /\ scan # "failed" /\ ~kept /\ ~sync_paused
        token == IF changed \/ starts THEN None ELSE latest_token
        fp == IF changed THEN None ELSE submitted_token_fingerprint
    IN  /\ capture_blocked \/ submit_gave_up
        /\ auth_token # None /\ ~auth_rx
        /\ capture_blocked' = blocked
        /\ capture' = (kept \/ starts)
        /\ emitted' = IF kept THEN emitted ELSE {}
        /\ latest_token' = token
        /\ submitted_token_fingerprint' = fp
        /\ token_submitted' = (token_submitted /\ ~changed)
        /\ ResetSubmitRetryState
        /\ SubmitLatest(auth_token, token, fp, 0)
        /\ UNCHANGED <<authVars, refreshVars, account_name, sync_paused>>

-----------------------------------------------------------------------------
Session ==
    \/ StartSignIn \/ EndSignIn \/ SignOut
    \/ \E account \in Accounts : PollAuthOk(account)

Refresh ==
    \/ TimerRefresh \/ PollRefreshOk \/ PollRefreshErr
    \/ \E reply \in RefreshReplies : RefreshAnswered(reply)

PollSubmit ==
    PollSubmitLinked \/ PollSubmitDeclined \/ PollSubmitFailed
        \/ PollSubmitUnauthorized

Submit ==
    \/ PollSubmit \/ RetrySubmission
    \/ \E reply \in SubmitReplies : SubmitAnswered(reply)

Capture ==
    \/ StartCapture \/ PollCaptureError \/ TogglePause
    \/ CaptureSettingsChanged \/ InterfaceScanFailed
    \/ \E t \in Tokens : PollCaptureToken(t)
    \/ \E scan \in {"same", "changed", "failed"},
          keys \in {"same", "changed"}, ready \in BOOLEAN :
            TryAgain(scan, keys, ready)

Next == Session \/ Refresh \/ Submit \/ Capture \/ Restart

Spec == Init /\ [][Next]_vars

\* The worker thread ticks for ever and every HTTP request ends: the agent
\* has a 30 s timeout and a dead thread disconnects its channel.  Nothing is
\* asked of the user, the game or the capture.
Fairness ==
    /\ WF_vars(\E reply \in SubmitReplies : SubmitAnswered(reply))
    /\ WF_vars(\E reply \in RefreshReplies : RefreshAnswered(reply))
    /\ WF_vars(PollSubmit)
    /\ WF_vars(PollRefreshOk \/ PollRefreshErr)
    /\ WF_vars(RetrySubmission)

FairSpec == Spec /\ Fairness

-----------------------------------------------------------------------------
(* What the session promises.                                              *)

\* A token is waiting to be linked: someone is signed in, and the token last
\* captured is not the one last accepted.
Pending ==
    /\ auth_token # None
    /\ latest_token # None
    /\ latest_token # submitted_token_fingerprint

\* The retry clock runs exactly while there is a delay to wait for, and the
\* session gives up exactly when the schedule is exhausted, so the give-up
\* branch inside maybe_retry_token_submission is never the one that decides.
RetrySchedule ==
    /\ submit_failed_at =>
          HasBackoff(consecutive_submit_failures) /\ ~submit_gave_up
    /\ submit_gave_up <=> consecutive_submit_failures = GiveUpAt

\* An outage cannot make the app hammer the backend (the comment on
\* submit_backoff): between two of a new token, a "Try again", a settings
\* change and a completed sign-in it begins the first submission, one per
\* delay of the schedule, and at most two more that a refresh brings about:
\* its own episode's, and one asked for in the episode before.
AttemptBudget == attempts <= Retries + 3

\* The first token of a session is never dropped silently: while it waits,
\* a submission, a retry or a refresh that resubmits is under way, unless
\* the session gave up or the server declined a token of this episode.  Two
\* cases are left out: a refresh that outlived a sign-out, and a token that
\* follows an accepted one (see RotatedTokenIsAttempted).
NoStrandedToken ==
    Pending /\ ~token_submitted /\ submit_rx = "none" =>
        \/ submit_failed_at
        \/ refresh_after_unauthorized
        \/ submit_gave_up
        \/ refused # {}
        \/ signed_out = "stale"

\* Whenever an answer to a refresh is to sign the user out or resubmit, that
\* refresh is under way: a flag left behind would let the next routine
\* refresh that fails end a healthy session.
FlagHasRefresh == refresh_after_unauthorized => refresh_rx # "none"

\* Once the user has signed out with no refresh in flight and the store
\* cleared, nobody is signed in again before StartSignIn is asked for it:
\* neither a sign-in that was pending, nor a late submission, nor a restart.
SignOutSticks == signed_out = "clean" => auth_token = None

\* poll_capture, poll_submit and the four places that clear them keep the
\* two records of a successful sync in step.
SyncedIffFingerprint ==
    token_submitted <=> submitted_token_fingerprint # None

\* No capture thread outlives a pause or an error that blocked it.
CaptureGate == capture => ~capture_blocked /\ ~sync_paused

\* A rotated token is posted without resetting the synced state the user
\* sees (the comment on submitted_token_fingerprint): only a sign-out, a
\* change of capture settings or a restart takes it away, never an answer
\* that goes wrong for a later token.
SyncedIsKept ==
    [][token_submitted /\ ~token_submitted' =>
          auth_token' = None \/ latest_token' = None]_vars

\* While a token waits and nothing is in flight, a submission of it begins in
\* the end, or the wait is over for a reason the user can see.
PendingTokenIsAttempted ==
    \A t \in Tokens :
        Pending /\ latest_token = t /\ ~token_submitted
            ~> \/ submitting.token = t \/ token_submitted
               \/ ~Pending \/ latest_token # t
               \/ submit_gave_up \/ refused # {} \/ signed_out = "stale"

-----------------------------------------------------------------------------
(* The inductive invariant behind the safety properties.                   *)

\* Submissions the retry clock may still begin in this episode: one for each
\* failure the schedule has left, and one for a clock already set.  The
\* answer to a submission in flight overwrites that clock, except the
\* success=false that a synced session ignores.
TimerAhead ==
    (IF consecutive_submit_failures < Retries
     THEN Retries - consecutive_submit_failures ELSE 0)
        + (IF submit_failed_at /\ (submit_rx = "none" \/ token_submitted)
           THEN 1 ELSE 0)

\* Submissions a refresh may still begin: one that is pending, one still allowed.
RefreshAhead ==
    (IF refresh_after_unauthorized THEN 1 ELSE 0)
        + (IF refreshed_for_current_failure THEN 0 ELSE 1)

Budget == attempts + TimerAhead + RefreshAhead <= Retries + 3

\* A refresh outlives its session only across a sign-out.
RefreshHasSession ==
    refresh_rx # "none" /\ auth_token = None => signed_out = "stale"

CleanSignOut ==
    signed_out = "clean" =>
        auth_token = None /\ stored_token = None /\ ~auth_rx
            /\ refresh_rx = "none"

-----------------------------------------------------------------------------
(* The capture thread, as the session sees it.                             *)

\* Every answer of the channel is one a capture thread gives (TokenSource), in
\* whatever order the user stops and starts threads meanwhile.
Source == INSTANCE TokenSource WITH
    running <- capture,
    known <- IF capture THEN emitted ELSE {}

ReadsSource == Source!Spec

-----------------------------------------------------------------------------
(* What comments in the source say, and the code does not do.              *)

\* "Capture emits each distinct token only once, so without this a transient
\* blip would lose sync for the whole session": a rotated token too is
\* submitted again after a failure.
RotatedTokenIsAttempted ==
    \A t \in Tokens :
        Pending /\ latest_token = t /\ submit_failed_at
            ~> \/ submitting.token = t \/ ~Pending \/ latest_token # t
               \/ ~submit_failed_at

\* "True after at least one successful game-account sync this session."
SyncedForThisAccount ==
    token_submitted /\ auth_token # None => account_name = auth_token

=============================================================================
