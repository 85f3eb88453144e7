\* The old process of an update removes the rule of the new one.
SPECIFICATION Spec
CONSTANTS
    p1 = p1
    p2 = p2
    Procs = {p1, p2}
    UserKey = TRUE
    MutexMayFail = FALSE
INVARIANTS
    RuleWhileCapturing
\* Every process of Procs ends at last.
CHECK_DEADLOCK FALSE
