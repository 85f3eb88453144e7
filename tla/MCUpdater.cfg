\* Versions 0..3: an update, a failed one, a withdrawn one, a second one.
SPECIFICATION FairSpec
CONSTANTS
    MaxVersion = 3
INVARIANTS
    TypeOK
    OfferedIsNewer
PROPERTIES
    UpdatesGoForward
    ModalUnlocks
