\* Two slots that share a piece of two blocks and a last, shorter one.
SPECIFICATION Spec
CONSTANTS
    MaxPeers = 2
    TotalPieces = 2
    PieceLength = 3
    BlockSize = 2
    SizeBytes = 4
    PeersCount = 1
    Inventories <- SomeInventories
    WritesMayFail = TRUE
    PollMayFail = TRUE
INVARIANTS
    PendingHasOneOwner
    SlotCoherent
    RemotesKnowDone
    ShownIsTrue
    RequestInRange
    DoneIsStored
    UploadsAreChecked
PROPERTIES
    DoneIsForever
    ImplementsClaims
