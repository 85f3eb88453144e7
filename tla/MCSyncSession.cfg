\* Two accounts, two tokens: rotation, retries, refreshes, restarts.
SPECIFICATION Spec
CONSTANTS
    Accounts = {a1, a2}
    Tokens = {t1, t2}
    None = None
    Retries = 1
    SeenLimit = 2
    StoreMayFail = TRUE
SYMMETRY SessionSymmetry
INVARIANTS
    TypeOK
    RetrySchedule
    AttemptBudget
    NoStrandedToken
    FlagHasRefresh
    SignOutSticks
    SyncedIffFingerprint
