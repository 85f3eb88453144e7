------------------------- MODULE SyncSessionProofs -------------------------
(* Theorems about SyncSession, for every set of accounts and tokens and    *)
(* every length of the backoff schedule.                                   *)
EXTENDS SyncSession, TLAPS

\* Every flag keeps being a flag.
LEMMA FlagsStep == FlagsOK /\ [Next]_vars => FlagsOK'
<1> SUFFICES ASSUME FlagsOK, [Next]_vars PROVE FlagsOK'
  OBVIOUS
<1>0. FlagsOK OBVIOUS
<1> USE <1>0 DEF FlagsOK, authVars, refreshVars, submitVars, syncedVars,
                 retryVars, captureVars
<1>1. CASE Session
  <2>1. CASE StartSignIn BY <2>1, Zenon DEF StartSignIn
  <2>2. CASE EndSignIn BY <2>2, Zenon DEF EndSignIn
  <2>3. CASE SignOut
    BY <2>3, Zenon DEF SignOut, ClearAuthSession, ForgetSynced
  <2>4. ASSUME NEW account \in Accounts, PollAuthOk(account) PROVE FlagsOK'
    BY <2>4, Zenon DEF PollAuthOk
  <2> QED BY <1>1, <2>1, <2>2, <2>3, <2>4 DEF Session
<1>2. CASE Refresh
  <2>1. CASE TimerRefresh BY <2>1, Zenon DEF TimerRefresh
  <2>2. CASE PollRefreshOk BY <2>2, Zenon DEF PollRefreshOk
  <2>3. CASE PollRefreshErr
    BY <2>3, Zenon DEF PollRefreshErr, ClearAuthSession, ForgetSynced
  <2>4. ASSUME NEW reply \in RefreshReplies, RefreshAnswered(reply)
        PROVE  FlagsOK'
    BY <2>4, Zenon DEF RefreshAnswered
  <2> QED BY <1>2, <2>1, <2>2, <2>3, <2>4 DEF Refresh
<1>3. CASE Submit
  <2>1. CASE PollSubmitLinked
    BY <2>1, Zenon DEF PollSubmitLinked, ResetSubmitRetryState
  <2>2. CASE PollSubmitDeclined BY <2>2, Zenon DEF PollSubmitDeclined
  <2>3. CASE PollSubmitFailed
    BY <2>3 DEF PollSubmitFailed, NoteSubmitFailure, HasBackoff
  <2>4. CASE PollSubmitUnauthorized
    <3>1. (submit_failed_at \in BOOLEAN)' /\ (submit_gave_up \in BOOLEAN)'
      BY <2>4 DEF PollSubmitUnauthorized, NoteSubmitFailure, HasBackoff
    <3> QED BY <2>4, <3>1, Zenon
            DEF PollSubmitUnauthorized, ClearAuthSession, ForgetSynced
  <2>5. CASE RetrySubmission BY <2>5, Zenon DEF RetrySubmission
  <2>6. ASSUME NEW reply \in SubmitReplies, SubmitAnswered(reply)
        PROVE  FlagsOK'
    BY <2>6, Zenon DEF SubmitAnswered
  <2> QED BY <1>3, <2>1, <2>2, <2>3, <2>4, <2>5, <2>6 DEF Submit, PollSubmit
<1>4. CASE Capture
  <2>1. CASE StartCapture BY <2>1, Zenon DEF StartCapture
  <2>2. CASE PollCaptureError BY <2>2, Zenon DEF PollCaptureError
  <2>3. CASE TogglePause
    <3>1. (sync_paused \in BOOLEAN)' BY <2>3 DEF TogglePause
    <3> QED BY <2>3, <3>1, Zenon DEF TogglePause
  <2>4. CASE CaptureSettingsChanged
    BY <2>4, Zenon DEF CaptureSettingsChanged, ForgetSynced,
                       ResetSubmitRetryState
  <2>5. CASE InterfaceScanFailed BY <2>5, Zenon DEF InterfaceScanFailed
  <2>6. ASSUME NEW t \in Tokens, PollCaptureToken(t) PROVE FlagsOK'
    BY <2>6, Zenon DEF PollCaptureToken, ResetSubmitRetryState
  <2>7. ASSUME NEW scan \in {"same", "changed", "failed"},
               NEW keys \in {"same", "changed"}, NEW ready \in BOOLEAN,
               TryAgain(scan, keys, ready)
        PROVE  FlagsOK'
    <3>1. /\ (capture \in BOOLEAN)' /\ (capture_blocked \in BOOLEAN)'
          /\ (token_submitted \in BOOLEAN)'
      BY <2>7 DEF TryAgain
    <3> QED BY <2>7, <3>1, Zenon DEF TryAgain, ResetSubmitRetryState
  <2> QED BY <1>4, <2>1, <2>2, <2>3, <2>4, <2>5, <2>6, <2>7 DEF Capture
<1>5. CASE Restart
  BY <1>5, Zenon DEF Restart, FreshProcess, ForgetSynced, ResetSubmitRetryState
<1>6. CASE UNCHANGED vars BY <1>6 DEF vars
<1> QED BY <1>1, <1>2, <1>3, <1>4, <1>5, <1>6 DEF Next

\* Every other field keeps its type.
LEMMA FieldsStep == TypeOK /\ [Next]_vars => FieldsOK'
<1> SUFFICES ASSUME TypeOK, [Next]_vars PROVE FieldsOK'
  OBVIOUS
<1>0. FieldsOK BY DEF TypeOK
<1> USE SessionAssumption, <1>0
    DEF SessionAssumption, FieldsOK, MaybeAccount, MaybeToken, NoJob, Jobs,
        GiveUpAt, SubmitReplies, RefreshReplies, authVars, refreshVars,
        submitVars, syncedVars, retryVars, captureVars
<1>1. CASE Session
  <2>1. CASE StartSignIn BY <2>1 DEF StartSignIn
  <2>2. CASE EndSignIn BY <2>2 DEF EndSignIn
  <2>3. CASE SignOut
    BY <2>3 DEF SignOut, ClearAuthSession, ForgetSynced, Stored
  <2>4. ASSUME NEW account \in Accounts, PollAuthOk(account) PROVE FieldsOK'
    BY <2>4 DEF PollAuthOk, Stored, SubmitLatest, BeginSubmit
  <2> QED BY <1>1, <2>1, <2>2, <2>3, <2>4 DEF Session
<1>2. CASE Refresh
  <2>1. CASE TimerRefresh BY <2>1 DEF TimerRefresh, StartRefresh
  <2>2. CASE PollRefreshOk
    BY <2>2 DEF PollRefreshOk, Stored, SubmitLatest, BeginSubmit
  <2>3. CASE PollRefreshErr
    BY <2>3 DEF PollRefreshErr, ClearAuthSession, ForgetSynced, Stored
  <2>4. ASSUME NEW reply \in RefreshReplies, RefreshAnswered(reply)
        PROVE  FieldsOK'
    BY <2>4 DEF RefreshAnswered
  <2> QED BY <1>2, <2>1, <2>2, <2>3, <2>4 DEF Refresh
<1>3. CASE Submit
  <2>1. CASE PollSubmitLinked
    BY <2>1 DEF PollSubmitLinked, ResetSubmitRetryState, BeginSubmit
  <2>2. CASE PollSubmitDeclined BY <2>2 DEF PollSubmitDeclined
  <2>3. CASE PollSubmitFailed
    BY <2>3 DEF PollSubmitFailed, NoteSubmitFailure
  <2>4. CASE PollSubmitUnauthorized
    BY <2>4 DEF PollSubmitUnauthorized, NoteSubmitFailure, StartRefresh,
                ClearAuthSession, ForgetSynced, Stored
  <2>5. CASE RetrySubmission
    <3>1. CASE HasBackoff(consecutive_submit_failures)
      BY <2>5, <3>1 DEF RetrySubmission, BeginSubmit
    <3>2. CASE ~HasBackoff(consecutive_submit_failures)
      BY <2>5, <3>2 DEF RetrySubmission
    <3> QED BY <3>1, <3>2
  <2>6. ASSUME NEW reply \in SubmitReplies, SubmitAnswered(reply)
        PROVE  FieldsOK'
    BY <2>6 DEF SubmitAnswered
  <2> QED BY <1>3, <2>1, <2>2, <2>3, <2>4, <2>5, <2>6 DEF Submit, PollSubmit
<1>4. CASE Capture
  <2>1. CASE StartCapture BY <2>1 DEF StartCapture
  <2>2. CASE PollCaptureError BY <2>2 DEF PollCaptureError
  <2>3. CASE TogglePause BY <2>3 DEF TogglePause
  <2>4. CASE CaptureSettingsChanged
    BY <2>4 DEF CaptureSettingsChanged, ForgetSynced, ResetSubmitRetryState
  <2>5. CASE InterfaceScanFailed BY <2>5 DEF InterfaceScanFailed
  <2>6. ASSUME NEW t \in Tokens, PollCaptureToken(t) PROVE FieldsOK'
    <3>1. (emitted \subseteq Tokens)' BY <2>6 DEF PollCaptureToken, ReportToken
    <3> QED BY <2>6, <3>1
            DEF PollCaptureToken, ResetSubmitRetryState, SubmitLatest,
                BeginSubmit
  <2>7. ASSUME NEW scan \in {"same", "changed", "failed"},
               NEW keys \in {"same", "changed"}, NEW ready \in BOOLEAN,
               TryAgain(scan, keys, ready)
        PROVE  FieldsOK'
    BY <2>7 DEF TryAgain, ResetSubmitRetryState, SubmitLatest, BeginSubmit
  <2> QED BY <1>4, <2>1, <2>2, <2>3, <2>4, <2>5, <2>6, <2>7 DEF Capture
<1>5. CASE Restart
  BY <1>5 DEF Restart, FreshProcess, LaunchRefresh, Stored, ForgetSynced,
              ResetSubmitRetryState
<1>6. CASE UNCHANGED vars BY <1>6 DEF vars
<1> QED BY <1>1, <1>2, <1>3, <1>4, <1>5, <1>6 DEF Next

\* Every field of the session keeps its type.
THEOREM TypeCorrect == Spec => []TypeOK
<1>1. Init => TypeOK
  <2>1. Init => FlagsOK BY Zenon DEF Init, FlagsOK
  <2>2. Init => FieldsOK
    BY SessionAssumption
    DEF SessionAssumption, Init, FieldsOK, MaybeAccount, MaybeToken, NoJob, Jobs,
        GiveUpAt
  <2> QED BY <2>1, <2>2 DEF TypeOK
<1>2. TypeOK /\ [Next]_vars => TypeOK'
  BY FlagsStep, FieldsStep DEF TypeOK
<1> QED BY <1>1, <1>2, PTL DEF Spec

-----------------------------------------------------------------------------
(* The retry schedule.                                                     *)

\* Only four actions write the retry fields other than by resetting them.
LEMMA RetryFootprint ==
    [Next]_vars =>
        \/ UNCHANGED retryVars
        \/ ResetSubmitRetryState
        \/ PollSubmitDeclined
        \/ PollSubmitFailed
        \/ PollSubmitUnauthorized
        \/ RetrySubmission
<1> USE DEF retryVars
<1>1. Session => UNCHANGED retryVars
  BY DEF Session, StartSignIn, EndSignIn, SignOut, PollAuthOk
<1>2. Refresh => UNCHANGED retryVars
  BY DEF Refresh, TimerRefresh, PollRefreshOk, PollRefreshErr, RefreshAnswered
<1>3. Submit => \/ UNCHANGED retryVars
                \/ ResetSubmitRetryState
                \/ PollSubmitDeclined
                \/ PollSubmitFailed
                \/ PollSubmitUnauthorized
                \/ RetrySubmission
  BY DEF Submit, PollSubmit, PollSubmitLinked, SubmitAnswered
<1>4. Capture => UNCHANGED retryVars \/ ResetSubmitRetryState
  BY DEF Capture, StartCapture, PollCaptureError, TogglePause,
         CaptureSettingsChanged, InterfaceScanFailed, PollCaptureToken,
         TryAgain
<1>5. Restart => ResetSubmitRetryState
  BY DEF Restart, FreshProcess
<1>6. UNCHANGED vars => UNCHANGED retryVars
  BY DEF vars
<1> QED BY <1>1, <1>2, <1>3, <1>4, <1>5, <1>6 DEF Next

\* note_submit_failure: the count grows, and says alone what follows.
LEMMA NoteSubmitFailureEffect ==
    ASSUME TypeOK, NoteSubmitFailure
    PROVE  /\ consecutive_submit_failures' \in 1..GiveUpAt
           /\ consecutive_submit_failures' =
                 IF consecutive_submit_failures < GiveUpAt
                 THEN consecutive_submit_failures + 1 ELSE GiveUpAt
           /\ submit_failed_at' <=> consecutive_submit_failures' <= Retries
           /\ submit_gave_up' <=>
                 submit_gave_up \/ consecutive_submit_failures' = GiveUpAt
<1>1. /\ consecutive_submit_failures \in 0..GiveUpAt
      /\ submit_gave_up \in BOOLEAN
  BY DEF TypeOK, FieldsOK, FlagsOK
<1>2. /\ consecutive_submit_failures' =
            IF consecutive_submit_failures < GiveUpAt
            THEN consecutive_submit_failures + 1 ELSE GiveUpAt
      /\ submit_failed_at' = HasBackoff(consecutive_submit_failures')
      /\ submit_gave_up' =
            (submit_gave_up \/ ~HasBackoff(consecutive_submit_failures'))
  BY Zenon DEF NoteSubmitFailure
<1>3. consecutive_submit_failures' \in 1..GiveUpAt
  BY SessionAssumption, <1>1, <1>2 DEF SessionAssumption, GiveUpAt
<1>4. HasBackoff(consecutive_submit_failures')
        <=> consecutive_submit_failures' <= Retries
  BY SessionAssumption, <1>3 DEF SessionAssumption, GiveUpAt, HasBackoff
<1>5. consecutive_submit_failures' <= Retries
        <=> consecutive_submit_failures' # GiveUpAt
  BY SessionAssumption, <1>3 DEF SessionAssumption, GiveUpAt
<1> QED BY <1>2, <1>3, <1>4, <1>5, Zenon

LEMMA RetryStep ==
    TypeOK /\ RetrySchedule /\ [Next]_vars => RetrySchedule'
<1> SUFFICES ASSUME TypeOK, RetrySchedule, [Next]_vars
             PROVE  RetrySchedule'
  OBVIOUS
<1>0. consecutive_submit_failures \in 0..GiveUpAt
  BY DEF TypeOK, FieldsOK
<1> USE SessionAssumption, <1>0
    DEF SessionAssumption, RetrySchedule, HasBackoff, GiveUpAt
<1>1. CASE UNCHANGED retryVars BY <1>1 DEF retryVars
<1>2. CASE ResetSubmitRetryState BY <1>2 DEF ResetSubmitRetryState
<1>3. CASE PollSubmitDeclined BY <1>3 DEF PollSubmitDeclined
<1>4. CASE PollSubmitFailed
  BY <1>4, NoteSubmitFailureEffect DEF PollSubmitFailed
<1>5. CASE PollSubmitUnauthorized
  BY <1>5, NoteSubmitFailureEffect DEF PollSubmitUnauthorized
<1>6. CASE RetrySubmission BY <1>6 DEF RetrySubmission
<1> QED BY RetryFootprint, <1>1, <1>2, <1>3, <1>4, <1>5, <1>6

\* The retry clock runs exactly while a delay is left, for every schedule.
THEOREM RetryScheduleHolds == Spec => []RetrySchedule
<1>1. Init => RetrySchedule
  BY SessionAssumption
  DEF SessionAssumption, Init, RetrySchedule, GiveUpAt
<1>2. TypeOK /\ RetrySchedule /\ [Next]_vars => RetrySchedule'
  BY RetryStep
<1> QED BY <1>1, <1>2, TypeCorrect, PTL DEF Spec

-----------------------------------------------------------------------------
(* The bound on automatic submissions.                                     *)

\* What SubmitLatest may do to the channel and to the count.
LEMMA SubmitLatestEffect ==
    ASSUME NEW auth, NEW token, NEW fp, NEW n \in Nat,
           SubmitLatest(auth, token, fp, n)
    PROVE  \/ submit_rx' = submit_rx /\ attempts' = n
           \/ submit_rx = "none" /\ submit_rx' = "sent" /\ attempts' = n + 1
  BY DEF SubmitLatest, BeginSubmit

LEMMA BudgetStep ==
    TypeOK /\ RetrySchedule /\ FlagHasRefresh /\ Budget /\ [Next]_vars
        => Budget'
<1> SUFFICES ASSUME TypeOK, RetrySchedule, FlagHasRefresh, Budget, [Next]_vars
             PROVE  Budget'
  OBVIOUS
<1>0. /\ consecutive_submit_failures \in 0..GiveUpAt
      /\ attempts \in Nat
  BY DEF TypeOK, FieldsOK
<1> USE SessionAssumption, <1>0
    DEF SessionAssumption, Budget, TimerAhead, RefreshAhead, GiveUpAt,
        RetrySchedule, HasBackoff, authVars, refreshVars, submitVars,
        syncedVars, retryVars
<1>1. CASE Session
  <2>1. CASE StartSignIn BY <2>1 DEF StartSignIn
  <2>2. CASE EndSignIn BY <2>2 DEF EndSignIn
  <2>3. CASE SignOut
    BY <2>3 DEF SignOut, ClearAuthSession, ForgetSynced
  <2>4. ASSUME NEW account \in Accounts, PollAuthOk(account) PROVE Budget'
    <3>1. \/ submit_rx' = submit_rx /\ attempts' = 0
          \/ submit_rx = "none" /\ submit_rx' = "sent" /\ attempts' = 1
      BY <2>4, SubmitLatestEffect DEF PollAuthOk
    <3> QED BY <2>4, <3>1 DEF PollAuthOk
  <2> QED BY <1>1, <2>1, <2>2, <2>3, <2>4 DEF Session
<1>2. CASE Refresh
  <2>1. CASE TimerRefresh BY <2>1 DEF TimerRefresh
  <2>2. CASE PollRefreshOk
    <3>1. CASE refresh_after_unauthorized
      <4>1. \/ submit_rx' = submit_rx /\ attempts' = attempts
            \/ /\ submit_rx = "none" /\ submit_rx' = "sent"
               /\ attempts' = attempts + 1
        BY <2>2, <3>1, SubmitLatestEffect DEF PollRefreshOk
      <4> QED BY <2>2, <3>1, <4>1 DEF PollRefreshOk
    <3>2. CASE ~refresh_after_unauthorized
      BY <2>2, <3>2 DEF PollRefreshOk
    <3> QED BY <3>1, <3>2
  <2>3. CASE PollRefreshErr
    BY <2>3 DEF PollRefreshErr, ClearAuthSession, ForgetSynced
  <2>4. ASSUME NEW reply \in RefreshReplies, RefreshAnswered(reply)
        PROVE  Budget'
    BY <2>4 DEF RefreshAnswered
  <2> QED BY <1>2, <2>1, <2>2, <2>3, <2>4 DEF Refresh
<1>3. CASE Submit
  <2>1. CASE PollSubmitLinked
    BY <2>1 DEF PollSubmitLinked, ResetSubmitRetryState, BeginSubmit
  <2>2. CASE PollSubmitDeclined
    <3>1. CASE token_submitted BY <2>2, <3>1 DEF PollSubmitDeclined
    <3>2. CASE ~token_submitted BY <2>2, <3>2 DEF PollSubmitDeclined
    <3> QED BY <3>1, <3>2
  <2>3. CASE PollSubmitFailed
    BY <2>3, NoteSubmitFailureEffect DEF PollSubmitFailed
  <2>4. CASE PollSubmitUnauthorized
    BY <2>4, NoteSubmitFailureEffect
    DEF PollSubmitUnauthorized, ClearAuthSession, ForgetSynced
  <2>5. CASE RetrySubmission BY <2>5 DEF RetrySubmission, BeginSubmit
  <2>6. ASSUME NEW reply \in SubmitReplies, SubmitAnswered(reply)
        PROVE  Budget'
    BY <2>6 DEF SubmitAnswered, SubmitReplies
  <2> QED BY <1>3, <2>1, <2>2, <2>3, <2>4, <2>5, <2>6 DEF Submit, PollSubmit
<1>4. CASE Capture
  <2>1. CASE StartCapture BY <2>1 DEF StartCapture
  <2>2. CASE PollCaptureError BY <2>2 DEF PollCaptureError
  <2>3. CASE TogglePause BY <2>3 DEF TogglePause
  <2>4. CASE CaptureSettingsChanged
    BY <2>4 DEF CaptureSettingsChanged, ForgetSynced, ResetSubmitRetryState
  <2>5. CASE InterfaceScanFailed BY <2>5 DEF InterfaceScanFailed
  <2>6. ASSUME NEW t \in Tokens, PollCaptureToken(t) PROVE Budget'
    <3>1. CASE t = submitted_token_fingerprint
      BY <2>6, <3>1 DEF PollCaptureToken
    <3>2. CASE t # submitted_token_fingerprint
      <4>1. \/ submit_rx' = submit_rx /\ attempts' = 0
            \/ submit_rx = "none" /\ submit_rx' = "sent" /\ attempts' = 1
        BY <2>6, <3>2, SubmitLatestEffect DEF PollCaptureToken
      <4> QED BY <2>6, <3>2, <4>1 DEF PollCaptureToken, ResetSubmitRetryState
    <3> QED BY <3>1, <3>2
  <2>7. ASSUME NEW scan \in {"same", "changed", "failed"},
               NEW keys \in {"same", "changed"}, NEW ready \in BOOLEAN,
               TryAgain(scan, keys, ready)
        PROVE  Budget'
    <3>1. \/ submit_rx' = submit_rx /\ attempts' = 0
          \/ submit_rx = "none" /\ submit_rx' = "sent" /\ attempts' = 1
      BY <2>7 DEF TryAgain, SubmitLatest, BeginSubmit
    <3> QED BY <2>7, <3>1 DEF TryAgain, ResetSubmitRetryState
  <2> QED BY <1>4, <2>1, <2>2, <2>3, <2>4, <2>5, <2>6, <2>7 DEF Capture
<1>5. CASE Restart
  BY <1>5 DEF Restart, FreshProcess, ResetSubmitRetryState
<1>6. CASE UNCHANGED vars BY <1>6 DEF vars
<1> QED BY <1>1, <1>2, <1>3, <1>4, <1>5, <1>6 DEF Next

-----------------------------------------------------------------------------
(* Refreshes, sign-outs, and the two records of a sync.                    *)

\* The invariants that speak of the refresh channel and the sign-in.
RefreshInv == FlagHasRefresh /\ RefreshHasSession /\ CleanSignOut

LEMMA RefreshStep == TypeOK /\ RefreshInv /\ [Next]_vars => RefreshInv'
<1> SUFFICES ASSUME TypeOK, RefreshInv, [Next]_vars PROVE RefreshInv'
  OBVIOUS
<1>0. /\ None \notin Accounts
      /\ refreshing \in IF refresh_rx = "none" THEN {None} ELSE Accounts
      /\ refresh_rx \in {"none", "sent"} \cup RefreshReplies
  BY SessionAssumption DEF SessionAssumption, TypeOK, FieldsOK
<1> USE <1>0
    DEF RefreshInv, FlagHasRefresh, RefreshHasSession, CleanSignOut,
        RefreshReplies, Stored, authVars, refreshVars
<1>1. CASE Session
  <2>1. CASE StartSignIn BY <2>1 DEF StartSignIn
  <2>2. CASE EndSignIn BY <2>2 DEF EndSignIn
  <2>3. CASE SignOut BY <2>3 DEF SignOut, ClearAuthSession
  <2>4. ASSUME NEW account \in Accounts, PollAuthOk(account)
        PROVE  RefreshInv'
    BY <2>4 DEF PollAuthOk
  <2> QED BY <1>1, <2>1, <2>2, <2>3, <2>4 DEF Session
<1>2. CASE Refresh
  <2>1. CASE TimerRefresh BY <2>1 DEF TimerRefresh, StartRefresh
  <2>2. CASE PollRefreshOk BY <2>2 DEF PollRefreshOk
  <2>3. CASE PollRefreshErr BY <2>3 DEF PollRefreshErr, ClearAuthSession
  <2>4. ASSUME NEW reply \in RefreshReplies, RefreshAnswered(reply)
        PROVE  RefreshInv'
    BY <2>4 DEF RefreshAnswered
  <2> QED BY <1>2, <2>1, <2>2, <2>3, <2>4 DEF Refresh
<1>3. CASE Submit
  <2>1. CASE PollSubmitLinked BY <2>1 DEF PollSubmitLinked
  <2>2. CASE PollSubmitDeclined BY <2>2 DEF PollSubmitDeclined
  <2>3. CASE PollSubmitFailed BY <2>3 DEF PollSubmitFailed
  <2>4. CASE PollSubmitUnauthorized
    BY <2>4 DEF PollSubmitUnauthorized, StartRefresh, ClearAuthSession
  <2>5. CASE RetrySubmission BY <2>5 DEF RetrySubmission
  <2>6. ASSUME NEW reply \in SubmitReplies, SubmitAnswered(reply)
        PROVE  RefreshInv'
    BY <2>6 DEF SubmitAnswered
  <2> QED BY <1>3, <2>1, <2>2, <2>3, <2>4, <2>5, <2>6 DEF Submit, PollSubmit
<1>4. CASE Capture
  BY <1>4 DEF Capture, StartCapture, PollCaptureError, TogglePause,
              CaptureSettingsChanged, InterfaceScanFailed, PollCaptureToken,
              TryAgain
<1>5. CASE Restart
  BY <1>5 DEF Restart, FreshProcess, LaunchRefresh
<1>6. CASE UNCHANGED vars BY <1>6 DEF vars
<1> QED BY <1>1, <1>2, <1>3, <1>4, <1>5, <1>6 DEF Next

LEMMA RefreshInvHolds == Spec => []RefreshInv
<1>1. Init => RefreshInv
  BY DEF Init, RefreshInv, FlagHasRefresh, RefreshHasSession, CleanSignOut
<1>2. TypeOK /\ RefreshInv /\ [Next]_vars => RefreshInv'
  BY RefreshStep
<1> QED BY <1>1, <1>2, TypeCorrect, PTL DEF Spec

\* No flag waits for a refresh that is not under way.
THEOREM FlagHasRefreshHolds == Spec => []FlagHasRefresh
<1>1. RefreshInv => FlagHasRefresh BY DEF RefreshInv
<1> QED BY <1>1, RefreshInvHolds, PTL

\* A sign-out that met no refresh and cleared the store is final.
THEOREM SignOutSticksHolds == Spec => []SignOutSticks
<1>1. RefreshInv => SignOutSticks
  BY DEF RefreshInv, CleanSignOut, SignOutSticks
<1> QED BY <1>1, RefreshInvHolds, PTL

\* Automatic submissions are bounded in every episode, for every schedule.
THEOREM AttemptBudgetHolds == Spec => []AttemptBudget
<1>1. Init => Budget
  BY SessionAssumption
  DEF SessionAssumption, Init, Budget, TimerAhead, RefreshAhead
<1>2. TypeOK /\ RetrySchedule /\ FlagHasRefresh /\ Budget /\ [Next]_vars
        => Budget'
  BY BudgetStep
<1>3. TypeOK /\ Budget => AttemptBudget
  BY SessionAssumption
  DEF SessionAssumption, TypeOK, FieldsOK, Budget, TimerAhead, RefreshAhead,
      AttemptBudget, GiveUpAt
<1> QED BY <1>1, <1>2, <1>3, TypeCorrect, RetryScheduleHolds,
           FlagHasRefreshHolds, PTL DEF Spec

-----------------------------------------------------------------------------
(* No token is stranded.                                                   *)

\* A noted failure leaves a retry behind, or a session that gave up.
LEMMA FailureIsAnswered ==
    ASSUME TypeOK, NoteSubmitFailure
    PROVE  (submit_failed_at \/ submit_gave_up)'
<1>1. /\ consecutive_submit_failures' \in 1..GiveUpAt
      /\ submit_failed_at' <=> consecutive_submit_failures' <= Retries
      /\ submit_gave_up' <=>
            submit_gave_up \/ consecutive_submit_failures' = GiveUpAt
  BY NoteSubmitFailureEffect
<1>2. \/ consecutive_submit_failures' <= Retries
      \/ consecutive_submit_failures' = GiveUpAt
  BY <1>1, SessionAssumption DEF SessionAssumption, GiveUpAt
<1> QED BY <1>1, <1>2

LEMMA StrandedStep ==
    TypeOK /\ SyncedIffFingerprint /\ RefreshInv /\ NoStrandedToken
        /\ [Next]_vars => NoStrandedToken'
<1> SUFFICES ASSUME TypeOK, SyncedIffFingerprint, RefreshInv,
                    NoStrandedToken, [Next]_vars
             PROVE  NoStrandedToken'
  OBVIOUS
<1>0. /\ None \notin Accounts
      /\ refreshing \in IF refresh_rx = "none" THEN {None} ELSE Accounts
      /\ RefreshHasSession
      /\ FlagHasRefresh
  BY SessionAssumption DEF SessionAssumption, TypeOK, FieldsOK, RefreshInv
<1> USE <1>0
    DEF NoStrandedToken, Pending, RefreshHasSession, FlagHasRefresh,
        authVars, refreshVars, submitVars, syncedVars, retryVars
<1>1. CASE Session
  <2>1. CASE StartSignIn BY <2>1 DEF StartSignIn
  <2>2. CASE EndSignIn BY <2>2 DEF EndSignIn
  <2>3. CASE SignOut BY <2>3 DEF SignOut, ClearAuthSession
  <2>4. ASSUME NEW account \in Accounts, PollAuthOk(account)
        PROVE  NoStrandedToken'
    BY <2>4 DEF PollAuthOk, SubmitLatest, BeginSubmit
  <2> QED BY <1>1, <2>1, <2>2, <2>3, <2>4 DEF Session
<1>2. CASE Refresh
  <2>1. CASE TimerRefresh BY <2>1 DEF TimerRefresh
  <2>2. CASE PollRefreshOk
    BY <2>2 DEF PollRefreshOk, SubmitLatest, BeginSubmit
  <2>3. CASE PollRefreshErr BY <2>3 DEF PollRefreshErr, ClearAuthSession
  <2>4. ASSUME NEW reply \in RefreshReplies, RefreshAnswered(reply)
        PROVE  NoStrandedToken'
    BY <2>4 DEF RefreshAnswered
  <2> QED BY <1>2, <2>1, <2>2, <2>3, <2>4 DEF Refresh
<1>3. CASE Submit
  <2>1. CASE PollSubmitLinked BY <2>1 DEF PollSubmitLinked
  <2>2. CASE PollSubmitDeclined BY <2>2 DEF PollSubmitDeclined
  <2>3. CASE PollSubmitFailed
    <3>1. (submit_failed_at \/ submit_gave_up)'
      BY <2>3, FailureIsAnswered DEF PollSubmitFailed
    <3> QED BY <3>1
  <2>4. CASE PollSubmitUnauthorized
    <3>1. (submit_failed_at \/ submit_gave_up)'
      BY <2>4, FailureIsAnswered DEF PollSubmitUnauthorized
    <3> QED BY <3>1
  <2>5. CASE RetrySubmission BY <2>5 DEF RetrySubmission, BeginSubmit
  <2>6. ASSUME NEW reply \in SubmitReplies, SubmitAnswered(reply)
        PROVE  NoStrandedToken'
    BY <2>6 DEF SubmitAnswered, SubmitReplies
  <2> QED BY <1>3, <2>1, <2>2, <2>3, <2>4, <2>5, <2>6 DEF Submit, PollSubmit
<1>4. CASE Capture
  <2>1. CASE StartCapture BY <2>1 DEF StartCapture
  <2>2. CASE PollCaptureError BY <2>2 DEF PollCaptureError
  <2>3. CASE TogglePause BY <2>3 DEF TogglePause
  <2>4. CASE CaptureSettingsChanged BY <2>4 DEF CaptureSettingsChanged
  <2>5. CASE InterfaceScanFailed BY <2>5 DEF InterfaceScanFailed
  <2>6. ASSUME NEW t \in Tokens, PollCaptureToken(t) PROVE NoStrandedToken'
    BY <2>6 DEF PollCaptureToken, SubmitLatest, BeginSubmit
  <2>7. ASSUME NEW scan \in {"same", "changed", "failed"},
               NEW keys \in {"same", "changed"}, NEW ready \in BOOLEAN,
               TryAgain(scan, keys, ready)
        PROVE  NoStrandedToken'
    BY <2>7 DEF TryAgain, SubmitLatest, BeginSubmit
  <2> QED BY <1>4, <2>1, <2>2, <2>3, <2>4, <2>5, <2>6, <2>7 DEF Capture
<1>5. CASE Restart BY <1>5 DEF Restart, FreshProcess
<1>6. CASE UNCHANGED vars BY <1>6 DEF vars
<1> QED BY <1>1, <1>2, <1>3, <1>4, <1>5, <1>6 DEF Next

\* The two records of a successful sync agree, whatever the session does.
LEMMA SyncedStep ==
    TypeOK /\ SyncedIffFingerprint /\ [Next]_vars => SyncedIffFingerprint'
<1> SUFFICES ASSUME TypeOK, SyncedIffFingerprint, [Next]_vars
             PROVE  SyncedIffFingerprint'
  OBVIOUS
<1>0. /\ None \notin Tokens
      /\ submitting \in IF submit_rx = "none" THEN {NoJob} ELSE Jobs
  BY SessionAssumption DEF SessionAssumption, TypeOK, FieldsOK
<1> USE DEF SyncedIffFingerprint, ForgetSynced, syncedVars
<1>1. CASE Session
  BY <1>1 DEF Session, StartSignIn, EndSignIn, SignOut, PollAuthOk,
              ClearAuthSession
<1>2. CASE Refresh
  BY <1>2 DEF Refresh, TimerRefresh, PollRefreshOk, PollRefreshErr,
              RefreshAnswered, ClearAuthSession
<1>3. CASE Submit
  <2>1. CASE PollSubmitLinked
    <3>1. submitting.token \in Tokens
      BY <1>0, <2>1 DEF PollSubmitLinked, Jobs
    <3> QED BY <1>0, <2>1, <3>1 DEF PollSubmitLinked
  <2>2. CASE ~PollSubmitLinked
    BY <1>3, <2>2 DEF Submit, PollSubmit, PollSubmitDeclined, PollSubmitFailed,
                      PollSubmitUnauthorized, RetrySubmission, SubmitAnswered,
                      ClearAuthSession
  <2> QED BY <2>1, <2>2
<1>4. CASE Capture
  <2>1. ASSUME NEW scan \in {"same", "changed", "failed"},
               NEW keys \in {"same", "changed"}, NEW ready \in BOOLEAN,
               TryAgain(scan, keys, ready)
        PROVE  SyncedIffFingerprint'
    BY <2>1 DEF TryAgain
  <2>2. ASSUME NEW t \in Tokens, PollCaptureToken(t)
        PROVE  SyncedIffFingerprint'
    BY <2>2 DEF PollCaptureToken
  <2>3. CASE \/ StartCapture \/ PollCaptureError \/ TogglePause
             \/ CaptureSettingsChanged \/ InterfaceScanFailed
    BY <2>3 DEF StartCapture, PollCaptureError, TogglePause,
                CaptureSettingsChanged, InterfaceScanFailed
  <2> QED BY <1>4, <2>1, <2>2, <2>3 DEF Capture
<1>5. CASE Restart BY <1>5 DEF Restart, FreshProcess
<1>6. CASE UNCHANGED vars BY <1>6 DEF vars
<1> QED BY <1>1, <1>2, <1>3, <1>4, <1>5, <1>6 DEF Next

THEOREM SyncedIffFingerprintHolds == Spec => []SyncedIffFingerprint
<1>1. Init => SyncedIffFingerprint BY DEF Init, SyncedIffFingerprint
<1>2. TypeOK /\ SyncedIffFingerprint /\ [Next]_vars => SyncedIffFingerprint'
  BY SyncedStep
<1> QED BY <1>1, <1>2, TypeCorrect, PTL DEF Spec

\* The first token of a session is never dropped silently: the theorem that
\* the backoff schedule, the refresh flag and the in-flight guard, each of
\* which can swallow a submission, together lose none.
THEOREM NoStrandedTokenHolds == Spec => []NoStrandedToken
<1>1. Init => NoStrandedToken BY DEF Init, NoStrandedToken, Pending
<1>2. TypeOK /\ SyncedIffFingerprint /\ RefreshInv /\ NoStrandedToken
        /\ [Next]_vars => NoStrandedToken'
  BY StrandedStep
<1> QED BY <1>1, <1>2, TypeCorrect, SyncedIffFingerprintHolds,
           RefreshInvHolds, PTL DEF Spec

\* A later token that fails never takes back the sync of an earlier one.
THEOREM SyncedIsKeptHolds == Spec => SyncedIsKept
<1>1. [Next]_vars =>
        [token_submitted /\ ~token_submitted' =>
            auth_token' = None \/ latest_token' = None]_vars
  <2> SUFFICES ASSUME [Next]_vars, token_submitted, ~token_submitted',
                      vars' # vars
               PROVE  auth_token' = None \/ latest_token' = None
    OBVIOUS
  <2> USE DEF syncedVars
  <2>1. CASE Session
    BY <2>1 DEF Session, StartSignIn, EndSignIn, SignOut, PollAuthOk,
                ClearAuthSession
  <2>2. CASE Refresh
    BY <2>2 DEF Refresh, TimerRefresh, PollRefreshOk, PollRefreshErr,
                RefreshAnswered, ClearAuthSession
  <2>3. CASE Submit
    BY <2>3 DEF Submit, PollSubmit, PollSubmitLinked, PollSubmitDeclined,
                PollSubmitFailed, PollSubmitUnauthorized, RetrySubmission,
                SubmitAnswered, ClearAuthSession
  <2>4. CASE Capture
    BY <2>4 DEF Capture, StartCapture, PollCaptureError, TogglePause,
                CaptureSettingsChanged, InterfaceScanFailed,
                PollCaptureToken, TryAgain
  <2>5. CASE Restart BY <2>5 DEF Restart, FreshProcess
  <2> QED BY <2>1, <2>2, <2>3, <2>4, <2>5 DEF Next
<1> QED BY <1>1, PTL DEF Spec, SyncedIsKept

\* A capture thread runs only while nothing forbids it.
LEMMA CaptureGateStep == CaptureGate /\ [Next]_vars => CaptureGate'
<1> SUFFICES ASSUME CaptureGate, [Next]_vars PROVE CaptureGate'
  OBVIOUS
<1> USE DEF CaptureGate, captureVars
<1>1. CASE Session
  BY <1>1 DEF Session, StartSignIn, EndSignIn, SignOut, PollAuthOk
<1>2. CASE Refresh
  BY <1>2 DEF Refresh, TimerRefresh, PollRefreshOk, PollRefreshErr,
              RefreshAnswered
<1>3. CASE Submit
  BY <1>3 DEF Submit, PollSubmit, PollSubmitLinked, PollSubmitDeclined,
              PollSubmitFailed, PollSubmitUnauthorized, RetrySubmission,
              SubmitAnswered
<1>4. CASE Capture
  BY <1>4 DEF Capture, StartCapture, MayStartCapture, PollCaptureError,
              TogglePause, CaptureSettingsChanged, InterfaceScanFailed,
              PollCaptureToken, TryAgain
<1>5. CASE Restart BY <1>5 DEF Restart, FreshProcess
<1>6. CASE UNCHANGED vars BY <1>6 DEF vars
<1> QED BY <1>1, <1>2, <1>3, <1>4, <1>5, <1>6 DEF Next

THEOREM CaptureGateHolds == Spec => []CaptureGate
<1>1. Init => CaptureGate BY DEF Init, CaptureGate
<1>2. CaptureGate /\ [Next]_vars => CaptureGate'
  BY CaptureGateStep
<1> QED BY <1>1, <1>2, PTL DEF Spec


-----------------------------------------------------------------------------
(* The capture thread, as the session sees it.                             *)

\* The instance counts as the session does.
LEMMA SourceCounts == \A S : Source!Cardinality(S) = Cardinality(S)
BY DEF Source!Cardinality, Cardinality

\* What every handler does to the capture.
CaptureStep ==
    \/ UNCHANGED <<capture, emitted>>
    \/ capture' \in BOOLEAN /\ emitted' = {}
    \/ /\ capture /\ capture'
       /\ \E t \in Tokens : ReportToken(t)

\* Whatever the user, the server and the thread do, a step is one of these.
LEMMA StepOnCapture == TypeOK /\ [Next]_vars => CaptureStep
<1> SUFFICES ASSUME TypeOK, [Next]_vars PROVE CaptureStep
  OBVIOUS
<1> USE DEF CaptureStep, captureVars
<1>0. capture \in BOOLEAN /\ capture_blocked \in BOOLEAN
  BY DEF TypeOK, FlagsOK
<1>1. CASE Session
  BY <1>1 DEF Session, StartSignIn, EndSignIn, SignOut, PollAuthOk
<1>2. CASE Refresh
  BY <1>2 DEF Refresh, TimerRefresh, PollRefreshOk, PollRefreshErr,
              RefreshAnswered
<1>3. CASE Submit
  BY <1>3 DEF Submit, PollSubmit, PollSubmitLinked, PollSubmitDeclined,
              PollSubmitFailed, PollSubmitUnauthorized, RetrySubmission,
              SubmitAnswered
<1>4. CASE Capture
  <2>1. CASE StartCapture \/ PollCaptureError \/ CaptureSettingsChanged
                \/ InterfaceScanFailed
    BY <2>1 DEF StartCapture, PollCaptureError, CaptureSettingsChanged,
                InterfaceScanFailed
  <2>2. CASE TogglePause
    BY <2>2 DEF TogglePause
  <2>3. ASSUME NEW t \in Tokens, PollCaptureToken(t) PROVE CaptureStep
    BY <2>3 DEF PollCaptureToken
  <2>4. ASSUME NEW scan \in {"same", "changed", "failed"},
               NEW keys \in {"same", "changed"}, NEW ready \in BOOLEAN,
               TryAgain(scan, keys, ready)
        PROVE  CaptureStep
    <3> DEFINE changed == "changed" \in {scan, keys}
               kept == capture /\ scan # "failed" /\ ~changed
               starts == ready /\ scan # "failed" /\ ~kept /\ ~sync_paused
    <3>1. /\ capture' = (kept \/ starts)
          /\ emitted' = IF kept THEN emitted ELSE {}
      BY <2>4, Zenon DEF TryAgain
    <3>2. CASE kept
      BY <3>1, <3>2, <1>0
    <3>3. CASE ~kept
      BY <3>1, <3>3
    <3> QED
      BY <3>2, <3>3
  <2> QED
    BY <1>4, <2>1, <2>2, <2>3, <2>4 DEF Capture
<1>5. CASE Restart BY <1>5 DEF Restart, FreshProcess
<1>6. CASE UNCHANGED vars BY <1>6 DEF vars
<1> QED BY <1>1, <1>2, <1>3, <1>4, <1>5, <1>6 DEF Next

\* The session takes no more of a capture than a thread gives, through every
\* pause, change of settings, "Try again" and restart.
THEOREM ReadsSourceHolds == Spec => ReadsSource
<1>1. Init => Source!Init
  BY DEF Init, Source!Init
<1>2. TypeOK /\ CaptureStep
        => [Source!ThreadNext \/ Source!Replaced]_Source!vars
  <2>1. CASE UNCHANGED <<capture, emitted>>
    BY <2>1 DEF Source!vars
  <2>2. CASE capture' \in BOOLEAN /\ emitted' = {}
    <3>1. CASE ~capture /\ ~capture'
      <4>1. ASSUME TypeOK PROVE UNCHANGED Source!vars
        BY <2>2, <3>1, <4>1 DEF Source!vars, TypeOK, FlagsOK
      <4> QED BY <4>1
    <3>2. CASE capture \/ capture'
      BY <2>2, <3>2 DEF Source!ThreadNext, Source!Starts, Source!Ends,
                        Source!Replaced
    <3> QED BY <3>1, <3>2
  <2>3. ASSUME capture, capture', NEW t \in Tokens, ReportToken(t)
        PROVE  Source!ThreadNext
    BY <2>3, SourceCounts DEF Source!ThreadNext, Source!Report, ReportToken
  <2> QED
    BY <2>1, <2>2, <2>3 DEF CaptureStep
<1>3. TypeOK /\ [Next]_vars
        => [Source!ThreadNext \/ Source!Replaced]_Source!vars
  BY <1>2, StepOnCapture
<1> QED
  BY <1>1, <1>3, TypeCorrect, PTL DEF Spec, ReadsSource, Source!Spec

=============================================================================
