----------------------------- MODULE CreateAndSeed -----------------------------
(***************************************************************************)
(* A torrent on disk, from either of its two origins: another client has   *)
(* made it, or the user makes it of a directory (module TorrentCreator)    *)
(* and then adds it with that directory as the place to save to.  What     *)
(* happens to it from then on is module FileSaver.  The two parts of the   *)
(* code cut the same bytes into pieces, each with arithmetic of its own;   *)
(* the torrent file is all that passes from one to the other.              *)
(***************************************************************************)
EXTENDS FileSaver, Sequences, FiniteSets

CONSTANTS
    MaxGrowth, \* bound: how many bytes a file may have grown by when it is read
    MaxPiece   \* bound: the longest piece length the user may choose

ASSUME CreateAssumption ==
    /\ MaxGrowth \in Nat
    /\ MaxPiece \in Nat \ {0}

VARIABLES
    stage,        \* where ts_create_torrent is, "added" after it, "foreign" without it
    given,        \* how many bytes reading each file of the directory gives
    piece_length, \* the one the user chose
    file,         \* i of the loop over the files
    position,     \* where in the file the next byte is read
    block,        \* piece_buffer
    hashes,       \* the hashes so far
    rc,           \* what ts_create_torrent returns
    made          \* the hashes in the torrent file

creation == <<stage, given, piece_length, file, position, block, hashes, rc, made>>

\* The files that the directory has come first; what follows has no path.
Directory == [f \in 1 .. Cardinality({f \in Files : has_path[f]}) |-> length[f]]

Creator == INSTANCE TorrentCreator WITH
    MaxFiles <- NumFiles, MaxSize <- MaxLength,
    size <- Directory, pc <- stage, i <- file, buffer <- block

Foreign ==
    /\ Init
    /\ stage = "foreign"
    /\ given = <<>> /\ hashes = <<>> /\ block = <<>>
    /\ piece_length = PieceLength
    /\ file = 1 /\ position = 0 /\ rc = 0 /\ made = <<>>

\* The directory holds the bytes that the torrent will be of.
Made ==
    /\ \E n \in 0 .. NumFiles : has_path = [f \in Files |-> f <= n]
    /\ length \in {l \in [Files -> 0 .. MaxLength] : \A f \in Files : ~has_path[f] => l[f] = 0}
    /\ content = [f \in Files |-> [o \in Offsets |->
                     IF o < length[f] THEN Creator!Start[f] + o ELSE Other]]
    /\ size = [f \in Files |-> IF has_path[f] THEN length[f] ELSE Absent]
    /\ Unread
    /\ Creator!Init

ReadToItsEnd == given = Directory

\* The user adds the torrent.  One without pieces ends in an error.
Add ==
    /\ stage = "returned"
    /\ rc = 0
    /\ piece_length = PieceLength
    /\ ReadToItsEnd
    /\ Creator!num_pieces > 0
    /\ stage' = "added"
    /\ UNCHANGED <<vars, given, piece_length, file, position, block, hashes, rc, made>>

CreateNext ==
    \/ stage \notin {"foreign", "added"} /\ UNCHANGED vars /\ Creator!Next
    \/ Add
    \/ stage \in {"foreign", "added"} /\ Next /\ UNCHANGED creation

CreateSpec == (Foreign \/ Made) /\ [][CreateNext]_<<vars, creation>>

------------------------------------------------------------------------------
(* Properties *)

\* The hashes in a torrent file are those of the pieces as a download counts
\* them, up to the first byte that a file of the directory has lost or gained
\* since it was scanned; and they fit into the memory allocated for them as long
\* as no file has grown.
SameAsDownload == Creator!SameAsDownload

\* A torrent that was made of a directory and added over it is complete at
\* once, with nothing to download: the download counts as many pieces as were
\* hashed, each of the bytes that were hashed, and the verification recovers
\* all of them; also with short, empty and last files, and after a restart.
CreatedIsSeeded ==
    (stage = "added" /\ pc = "swarm") =>
        /\ Len(made) = TotalPieces
        /\ \A p \in 0 .. TotalPieces - 1 :
              /\ made[p + 1] = [k \in 1 .. CurrentPieceSize(p) |-> PieceStart(p) + k - 1]
              /\ p \in done

==============================================================================
