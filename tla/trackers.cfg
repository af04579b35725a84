\* Up to three trackers of any kind.  When the search is over, the system stops.
SPECIFICATION FairSpec
CONSTANTS
    MaxJobs = 3
    BufferLen = 1
    LastSecond = 1
CHECK_DEADLOCK FALSE
INVARIANTS
    TypeOK
    WorkersEnded
    FirstAnswerWins
    NeverFromConnect
PROPERTIES
    SearchEnds
