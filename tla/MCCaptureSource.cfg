\* A wired, a wireless and a virtual adapter on Linux, the first two on Windows.
SPECIFICATION FairSpec
CONSTANTS
    Adapters = {"eth", "wlan", "docker"}
    Nobody = "none"
    Bonus <- MCBonus
    Platforms = {"windows", "linux"}
    Fitted <- MCFitted
    MaxPayload = 2
INVARIANTS
    TypeOK
    CaptureIsTheShownOne
    BlockedIsAboutTheSelection
    PayloadIsWhatWasSent
PROPERTIES
    CaptureComesBack
    MissingNpcapIsNoticed
