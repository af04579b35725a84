\* Two slots with seeds that answer, under the fairness of ResponsiveSpec.
SPECIFICATION ResponsiveSpec
CONSTANTS
    MaxPeers = 2
    TotalPieces = 2
    PieceLength = 2
    BlockSize = 1
    SizeBytes = 3
    PeersCount = 1
    Inventories <- FullInventories
    WritesMayFail = FALSE
    PollMayFail = FALSE
PROPERTIES
    SeedDelivers
    PauseTakesEffect
