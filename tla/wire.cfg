\* One connection, with short bitfields and blocks.  A dead connection is the end.
SPECIFICATION FairSpec
CONSTANTS
    BitfieldLength = 1
    BlockLength = 2
    MaxQueue = 3
CHECK_DEADLOCK FALSE
INVARIANTS
    InStep
    StallsOnlyIfChoked
    NoUnchokeLost
PROPERTIES
    TurnEnds
