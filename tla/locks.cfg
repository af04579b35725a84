\* One torrent, which the user may remove: nothing is left to do then.
SPECIFICATION FairSpec
CONSTANTS
    Pieces = 3
    PollMayFail = TRUE
CHECK_DEADLOCK FALSE
INVARIANTS
    RowTruthful
PROPERTIES
    ImplementsSession
    VerificationEnds
    CallsReturn
