\* Two connections compete for the ring and for the tail of the file.
SPECIFICATION FairSpec
CONSTANTS
    Conns = {c1, c2}
    Tokens = {t1}
    NoToken = NoToken
    LastPos = 1
    RingSize = 2
    TailSize = 1
    SeenLimit = 1
INVARIANTS
    TypeOK
    RingIsDecrypted
PROPERTIES
    LateSecretsAreUsed
    StopEnds
