\* Three attempts: a cancelled one, a late tab, a retry.
SPECIFICATION FairSpec
CONSTANTS
    Attempts = {s1, s2, s3}
    None = None
    Stranger = Stranger
INVARIANTS
    TypeOK
    AwaitedCanAnswer
PROPERTIES
    SignedInByItsOwnTab
    ErrorPageCanRetry
