\* A submission in flight across a change of account.
SPECIFICATION Spec
CONSTANTS
    Accounts = {a1, a2}
    Tokens = {t1}
    None = None
    Retries = 1
    SeenLimit = 2
    StoreMayFail = FALSE
INVARIANTS
    SyncedForThisAccount
