\* One store with the game, a user with his own key log, crashes and restarts.
SPECIFICATION FairSpec
CONSTANTS
    Installed = {"Epic"}
    Launchers = {"Epic"}
    Offered = {"Direct"}
    UserFiles = {"log"}
    Sessions = {"waiting", "attention"}
    MaxProcs = 1
    SaveMayFail = TRUE
INVARIANTS
    TypeOK
    CaptureReadsTheSource
    UserKeyLogKept
PROPERTIES
    StartedLauncherWritesTheSource
    StartsFromSavedChoice
    LostReadinessIsNoticed
    CloseLauncherIsLeft
