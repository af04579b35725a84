---------------------------- MODULE TorrentCreator ----------------------------
(***************************************************************************)
(* How a torrent is made of the files of a directory: ts_create_torrent of *)
(* rgTorrent-c/creation/torrent_creator.c.                                 *)
(*                                                                         *)
(* The sizes are taken when the directory is scanned and the bytes later:  *)
(* a file may give fewer than its size, or not be opened at all, or more,  *)
(* for it is read to its end.  A byte is modelled by its offset in the     *)
(* sequence of all files, as in FileSaver, and a hash by the bytes hashed. *)
(* There is room for num_pieces hashes; what a write behind the room does  *)
(* to other memory is left out, except that it may end the program.        *)
(***************************************************************************)
EXTENDS Integers, Sequences

CONSTANTS
    MaxFiles,  \* bound: the most files in a directory
    MaxSize,   \* bound: the size of the largest
    MaxGrowth, \* bound: how many bytes a file may have grown by when it is read
    MaxPiece   \* bound: the longest piece_length

Unopened == -1     \* given[f] of a file that cannot be opened
Surplus  == -2     \* a byte behind the size that a file had
Unset    == <<-1>> \* what malloc left in a place of hashes
Nothing  == <<-1>> \* no torrent file was written

VARIABLES
    size,         \* files[].size, in the order of the paths, counted from 1
    given,        \* how many bytes reading each file gives
    piece_length,
    pc,           \* "open", "read", "write", "returned" or "killed"
    i,            \* i of the loop over the files
    position,     \* where in the file the next byte is read
    buffer,       \* the first buffer_offset bytes of piece_buffer
    hashes,       \* the hashes so far; their number is current_piece
    rc,           \* what is returned
    made          \* the hashes in the torrent file

source == <<size, given, piece_length>>
vars   == <<source, pc, i, position, buffer, hashes, rc, made>>

file_count == Len(size)

\* Where each file starts in the sequence of all of them; the last is the end.
Start[f \in 1 .. MaxFiles + 1] == IF f = 1 THEN 0 ELSE Start[f - 1] + size[f - 1]

total_size == Start[file_count + 1]

\* Mutant: the last, shorter piece is not counted.
num_pieces_whole == total_size \div piece_length

num_pieces == (total_size + piece_length - 1) \div piece_length

------------------------------------------------------------------------------
\* Any directory, sorted, and any of the piece lengths.
Init ==
    /\ size \in UNION {[1 .. n -> 0 .. MaxSize] : n \in 0 .. MaxFiles}
    /\ given \in [1 .. Len(size) -> {Unopened} \cup 0 .. MaxSize + MaxGrowth]
    /\ \A f \in 1 .. Len(size) : given[f] <= size[f] + MaxGrowth
    /\ piece_length \in 1 .. MaxPiece
    /\ pc = "open"
    /\ i = 1
    /\ position = 0
    /\ buffer = <<>>
    /\ hashes = <<>>
    /\ rc = 0
    /\ made = Nothing

Return(code) == pc' = "returned" /\ rc' = code

NoFiles ==
    /\ pc = "open"
    /\ file_count = 0
    /\ Return(-1)
    /\ UNCHANGED <<source, i, position, buffer, hashes, made>>

\* A file that cannot be opened is passed over.
OpenFile ==
    /\ pc = "open"
    /\ i <= file_count
    /\ IF given[i] = Unopened THEN i' = i + 1 /\ UNCHANGED <<pc, position>>
       ELSE pc' = "read" /\ position' = 0 /\ UNCHANGED i
    /\ UNCHANGED <<source, buffer, hashes, rc, made>>

BytesToRead == piece_length - Len(buffer)
ReadBytes   == IF given[i] - position < BytesToRead THEN given[i] - position ELSE BytesToRead

Byte(f, o) == IF o < size[f] THEN Start[f] + o ELSE Surplus

\* One read: it fills the buffer, whose hash is taken then, or the file is at
\* its end.
ReadBlock ==
    LET filled == buffer \o [k \in 1 .. ReadBytes |-> Byte(i, position + k - 1)]
    IN  /\ pc = "read"
        /\ position' = position + ReadBytes
        /\ IF Len(filled) = piece_length
           THEN hashes' = Append(hashes, filled) /\ buffer' = <<>>
           ELSE buffer' = filled /\ UNCHANGED hashes
        /\ IF ReadBytes < BytesToRead
           THEN pc' = "open" /\ i' = i + 1
           ELSE UNCHANGED <<pc, i>>
        /\ UNCHANGED <<source, rc, made>>

\* Mutant: only a whole piece is hashed.
HasTailOfAPiece == Len(buffer) = piece_length

HasTail == Len(buffer) > 0

\* What is left is the last piece.
HashTail ==
    /\ pc = "open"
    /\ i = file_count + 1
    /\ file_count > 0
    /\ hashes' = IF HasTail THEN Append(hashes, buffer) ELSE hashes
    /\ pc' = "write"
    /\ UNCHANGED <<source, i, position, buffer, rc, made>>

\* The torrent file gets as many hashes as the sizes call for, or cannot be
\* opened.
WriteTorrent ==
    /\ pc = "write"
    /\ \/ Return(-1) /\ UNCHANGED made
       \/ /\ Return(0)
          /\ made' = [p \in 1 .. num_pieces |-> IF p <= Len(hashes) THEN hashes[p] ELSE Unset]
    /\ UNCHANGED <<source, i, position, buffer, hashes>>

\* A hash was written behind the end of the room for them.
Overrun ==
    /\ pc \in {"open", "read", "write"}
    /\ Len(hashes) > num_pieces
    /\ pc' = "killed"
    /\ UNCHANGED <<source, i, position, buffer, hashes, rc, made>>

Next == NoFiles \/ OpenFile \/ ReadBlock \/ HashTail \/ WriteTorrent \/ Overrun

Spec == Init /\ [][Next]_vars

------------------------------------------------------------------------------
(* Properties *)

\* The offset up to which reading gives what the sizes call for.
Gap ==
    LET cut == {f \in 1 .. file_count : given[f] # size[f]}
        f   == CHOOSE f \in cut : \A g \in cut : f <= g
    IN  IF cut = {} THEN total_size
        ELSE Start[f] + (IF given[f] > size[f] THEN size[f]
                         ELSE IF given[f] = Unopened THEN 0 ELSE given[f])

Grown == \E f \in 1 .. file_count : given[f] > size[f]

\* A torrent file says of each piece, up to the place where a file gives fewer or
\* more bytes than it was counted with, what a download by FileSaver's layout
\* would compare it with: the bytes from piece_length times its index, over the
\* ends of files and past empty ones, the last one shorter.  With files that
\* have not changed that is every piece.  And no hash is written behind the end
\* of the room for num_pieces, unless a file has grown.
SameAsDownload ==
    /\ Len(hashes) > num_pieces => Grown
    /\ (pc = "returned" /\ rc = 0) =>
           \A p \in 0 .. (total_size + piece_length - 1) \div piece_length - 1 :
              LET first == p * piece_length
                  end   == IF first + piece_length < total_size THEN first + piece_length ELSE total_size
              IN  (first + piece_length <= Gap \/ (end <= Gap /\ ~Grown))
                     => made[p + 1] = [k \in 1 .. end - first |-> first + k - 1]

==============================================================================
