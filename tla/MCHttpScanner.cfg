\* One connection, requests of each kind, and a buffer for three of them.
SPECIFICATION Spec
CONSTANTS
    Conns = {c1}
    Requests <- MCRequests
    Responses = {"plain", "method"}
    MaxRequests = 3
    MaxBuffer = 28
INVARIANTS
    TypeOK
    UnreportedIsBuffered
PROPERTIES
    ImplementsFeed
