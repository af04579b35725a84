\* Torrents of three files, with or without bytes and paths, in pieces of three
\* bytes, over files of any size that were there before; and every directory of
\* up to three files of which a torrent is made, in pieces of up to four bytes,
\* while each file may be cut or gain a byte.
\* A torrent that could not be made or added ends the behaviour.
SPECIFICATION CreateSpec
CONSTANTS
    NumFiles = 3
    MaxLength = 3
    PieceLength = 3
    WritesMayFail = TRUE
    MaxGrowth = 1
    MaxPiece = 4
CHECK_DEADLOCK FALSE
INVARIANTS
    InPlace
    VerifiedExactly
    DoneIsOnDisk
    SameAsDownload
    CreatedIsSeeded
