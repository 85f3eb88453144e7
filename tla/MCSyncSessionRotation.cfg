\* A rotated token whose submission fails.
SPECIFICATION FairSpec
CONSTANTS
    Accounts = {a1}
    Tokens = {t1, t2}
    None = None
    Retries = 1
    SeenLimit = 2
    StoreMayFail = FALSE
PROPERTIES
    RotatedTokenIsAttempted
