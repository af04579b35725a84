\* One torrent, whose thread runs.
SPECIFICATION FairSpec
CONSTANTS
    MaxTorrents = 1
    MaxAdded = 1
    PieceCounts <- TinyTorrents
    PollMayFail = FALSE
CHECK_DEADLOCK FALSE
PROPERTIES
    RemovalReturns
