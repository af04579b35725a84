\* The user removes any torrent behind which no thread runs.  A window that waits
\* for a thread in the swarm stops the system.
SPECIFICATION Spec
CONSTANTS
    MaxTorrents = 3
    MaxAdded = 3
    PieceCounts <- TinyTorrents
    PollMayFail = TRUE
CHECK_DEADLOCK FALSE
INVARIANTS
    ListedInOrder
    OwnUntilMoved
    StatusAgrees
PROPERTIES
    PauseKept
    ImplementsList
