\* The user removes any torrent.
SPECIFICATION Spec
CONSTANTS
    MaxTorrents = 2
    MaxAdded = 2
    PieceCounts <- TinyTorrents
    PollMayFail = FALSE
CHECK_DEADLOCK FALSE
INVARIANTS
    OwnEntry
