------------------------------ MODULE FileSaver ------------------------------
(***************************************************************************)
(* The pieces of one torrent on disk: fill_target_files,                   *)
(* write_piece_to_disk and read_piece_from_disk of                         *)
(* rgTorrent-c/downloader/file_saver.c, with the verification loop of      *)
(* torrent_session.c that reads every piece after a start and the swarm    *)
(* that writes one whenever its hash matched.                              *)
(*                                                                         *)
(* The files of a torrent are laid end to end, and a piece is a range of   *)
(* that sequence of bytes.  A byte of the torrent is modelled by its       *)
(* offset there, so the genuine piece p is the sequence of numbers from    *)
(* PieceStart(p), and any other byte is Other.  One iteration of a loop    *)
(* over the files is one action; the program may be killed between two,    *)
(* and what it wrote so far is there at the next start.                    *)
(***************************************************************************)
EXTENDS Integers

CONSTANTS
    NumFiles,     \* *num_files
    MaxLength,    \* bound: the length of the longest file
    PieceLength,  \* e->piece_length
    WritesMayFail \* whether fopen and fwrite may fail on a file that has a path

ASSUME FileSaverAssumption ==
    /\ NumFiles \in Nat \ {0}
    /\ MaxLength \in Nat
    /\ PieceLength \in Nat \ {0}
    /\ WritesMayFail \in BOOLEAN

Files   == 1 .. NumFiles
Offsets == 0 .. MaxLength - 1
Places  == 0 .. PieceLength - 1
Other   == -1    \* a byte that is not the torrent's
Absent  == -1    \* the size of a file that does not exist

VARIABLES
    has_path,     \* has_path[i]: entry i of the torrent file has a path and a length
    length,       \* target_files[i].length, 0 without a path
    global_start, \* target_files[i].global_start
    global_end,   \* target_files[i].global_end
    offset,       \* current_global_offset of fill_target_files
    content,      \* content[i]: the bytes of file i
    size,         \* size[i]: how many of them there are, or Absent
    done,         \* the pieces p with e->piece_states[p] = PIECE_DONE
    pc,           \* the loop that runs, or "swarm" between two writes
    i,            \* i of that loop, counted from 1
    piece,        \* piece_index
    bytes,        \* bytes_written_from_buffer, or bytes_read
    buffer,       \* verify_buffer
    faulty        \* whether a write has failed since the start

torrent == <<has_path, length>>
layout  == <<global_start, global_end, offset>>
disk    == <<content, size>>
vars    == <<torrent, layout, disk, done, pc, i, piece, bytes, buffer, faulty>>

Smaller(a, b) == IF a < b THEN a ELSE b
Greater(a, b) == IF a < b THEN b ELSE a

\* size_bytes, which ts_add_torrent sums over the same entries, and the number
\* of hashes of a torrent of that size.  (An entry with a length but no path,
\* which size_bytes counts and the layout does not, is left out.)
SizeBytes   == offset
TotalPieces == (SizeBytes + PieceLength - 1) \div PieceLength

CurrentPieceSize(p) ==
    IF p = TotalPieces - 1 /\ SizeBytes % PieceLength # 0
    THEN SizeBytes % PieceLength ELSE PieceLength

PieceStart(p) == p * PieceLength

------------------------------------------------------------------------------
\* Nothing of the torrent file has been looked at.
Unread ==
    /\ global_start = [f \in Files |-> 0]
    /\ global_end = [f \in Files |-> 0]
    /\ offset = 0
    /\ done = {}
    /\ pc = "fill"
    /\ i = 1
    /\ piece = 0
    /\ bytes = 0
    /\ buffer = [k \in Places |-> Other]
    /\ faulty = FALSE

\* Any torrent, and files of any size that were there before it.
Init ==
    /\ has_path \in [Files -> BOOLEAN]
    /\ length \in {l \in [Files -> 0 .. MaxLength] : \A f \in Files : ~has_path[f] => l[f] = 0}
    /\ content = [f \in Files |-> [o \in Offsets |-> Other]]
    /\ size \in {s \in [Files -> {Absent} \cup 0 .. MaxLength] :
                   \A f \in Files : s[f] <= length[f] /\ (~has_path[f] => s[f] = Absent)}
    /\ Unread

\* The program is killed, or ends, and a new start finds what the disk holds.
Restart ==
    /\ pc # "fill"
    /\ global_start' = [f \in Files |-> 0]
    /\ global_end' = [f \in Files |-> 0]
    /\ offset' = 0
    /\ done' = {}
    /\ pc' = "fill"
    /\ i' = 1
    /\ piece' = 0
    /\ bytes' = 0
    /\ buffer' = [k \in Places |-> Other]
    /\ faulty' = FALSE
    /\ UNCHANGED <<torrent, disk>>

------------------------------------------------------------------------------
(* fill_target_files *)

\* Entry i gets its range, after those before it.  An entry without a path or
\* a length gets an empty one, and the empty name.
FillEntry ==
    /\ pc = "fill" /\ i <= NumFiles
    /\ global_start' = [global_start EXCEPT ![i] = offset]
    /\ global_end' = [global_end EXCEPT ![i] = offset + length[i]]
    /\ offset' = offset + length[i]
    /\ i' = i + 1
    /\ UNCHANGED <<torrent, disk, done, pc, piece, bytes, buffer, faulty>>

Filled ==
    /\ pc = "fill" /\ i = NumFiles + 1
    /\ pc' = "verify"
    /\ i' = 1
    /\ UNCHANGED <<torrent, layout, disk, done, piece, bytes, buffer, faulty>>

------------------------------------------------------------------------------
(* What the two loops over the files share.  A piece of the given length is *)
(* compared with the range of file i.                                       *)

PieceEnd(len) == PieceStart(piece) + len

\* An empty file inside the piece is not skipped.
Skipped(len) ==
    PieceEnd(len) <= global_start[i] \/ PieceStart(piece) >= global_end[i]

OverlapEnd(len)    == Smaller(PieceEnd(len), global_end[i])
OverlapStart       == Greater(PieceStart(piece), global_start[i])
OverlapLength(len) == OverlapEnd(len) - OverlapStart

LocalOffset == OverlapStart - global_start[i]

------------------------------------------------------------------------------
(* write_piece_to_disk *)

StartWrite(p) ==
    /\ pc = "swarm"
    /\ p \notin done
    /\ pc' = "write"
    /\ piece' = p
    /\ i' = 1
    /\ bytes' = 0
    /\ UNCHANGED <<torrent, layout, disk, done, buffer, faulty>>

\* Mutant: one file is enough.
WriteEndsEarly(written) == written > 0

\* The caller counts the piece as done, whatever became of the writes.
WriteEnds(written) == written >= PieceLength

Advance(written) ==
    /\ bytes' = written
    /\ IF WriteEnds(written) \/ i = NumFiles
       THEN /\ done' = done \cup {piece}
            /\ pc' = "swarm"
            /\ i' = 1
       ELSE /\ i' = i + 1
            /\ UNCHANGED <<done, pc>>
    /\ UNCHANGED <<torrent, layout, piece, buffer>>

WriteSkipped ==
    /\ pc = "write"
    /\ Skipped(PieceLength)
    /\ Advance(bytes)
    /\ UNCHANGED <<disk, faulty>>

\* fwrite puts n bytes of the piece at LocalOffset into what fopen left: the
\* file as it was, or an empty one.
Put(n, old) ==
    /\ content' = [content EXCEPT ![i] =
          [o \in Offsets |-> IF LocalOffset <= o /\ o < LocalOffset + n
                             THEN PieceStart(piece) + bytes + (o - LocalOffset)
                             ELSE IF o < old THEN content[i][o] ELSE Other]]
    /\ size' = [size EXCEPT ![i] = IF n = 0 THEN old ELSE Greater(old, LocalOffset + n)]

Written == bytes + OverlapLength(PieceLength)

\* The file is opened, or created if it does not exist, and all is written.
WriteFile ==
    /\ pc = "write"
    /\ ~Skipped(PieceLength)
    /\ has_path[i]
    /\ Put(OverlapLength(PieceLength), Greater(size[i], 0))
    /\ Advance(Written)
    /\ UNCHANGED faulty

\* Less is written, or the file cannot be opened for update and is emptied, or
\* both.
WriteFileBadly ==
    /\ WritesMayFail
    /\ pc = "write"
    /\ ~Skipped(PieceLength)
    /\ has_path[i]
    /\ \E n \in 0 .. OverlapLength(PieceLength), old \in {0, Greater(size[i], 0)} :
          /\ n < OverlapLength(PieceLength) \/ old < size[i]
          /\ Put(n, old)
    /\ Advance(Written)
    /\ faulty' = TRUE

\* Mutant: only what was written counts.
CannotOpenStays ==
    /\ pc = "write"
    /\ ~Skipped(PieceLength)
    /\ WritesMayFail \/ ~has_path[i]
    /\ Advance(bytes)
    /\ faulty' = (faulty \/ has_path[i])
    /\ UNCHANGED disk

\* Neither fopen succeeds: a message is written, and the loop goes on with the
\* bytes of the next file.  The empty name never opens.
CannotOpen ==
    /\ pc = "write"
    /\ ~Skipped(PieceLength)
    /\ WritesMayFail \/ ~has_path[i]
    /\ Advance(Written)
    /\ faulty' = (faulty \/ has_path[i])
    /\ UNCHANGED disk

------------------------------------------------------------------------------
(* read_piece_from_disk, for every piece after a start *)

\* Mutant: any bytes will do.
MatchesAny(read) == TRUE

\* The hash of what the buffer holds is the piece's.
Matches(read) ==
    \A k \in 0 .. CurrentPieceSize(piece) - 1 : read[k] = PieceStart(piece) + k

\* The read of one piece ends with result ok, and the next piece is read.
Return(ok, read) ==
    /\ done' = IF ok /\ Matches(read) THEN done \cup {piece} ELSE done
    /\ buffer' = read
    /\ piece' = piece + 1
    /\ i' = 1
    /\ bytes' = 0
    /\ UNCHANGED <<torrent, layout, disk, pc, faulty>>

Reading == pc = "verify" /\ piece < TotalPieces

\* The loop is through with the files, or skips one.
ReadSkipped ==
    /\ Reading
    /\ IF i > NumFiles
       THEN Return(bytes > 0, buffer)
       ELSE /\ Skipped(CurrentPieceSize(piece))
            /\ i' = i + 1
            /\ UNCHANGED <<torrent, layout, disk, done, pc, piece, bytes, buffer, faulty>>

\* fopen fails.
ReadMissing ==
    /\ Reading /\ i <= NumFiles
    /\ ~Skipped(CurrentPieceSize(piece))
    /\ size[i] = Absent
    /\ Return(FALSE, buffer)

ReadFile ==
    /\ Reading /\ i <= NumFiles
    /\ ~Skipped(CurrentPieceSize(piece))
    /\ size[i] # Absent
    /\ LET wanted == OverlapLength(CurrentPieceSize(piece))
           actual == Smaller(wanted, Greater(size[i] - LocalOffset, 0))
           read   == [k \in Places |-> IF bytes <= k /\ k < bytes + actual
                                       THEN content[i][LocalOffset + (k - bytes)]
                                       ELSE buffer[k]]
       IN  IF actual # wanted THEN Return(FALSE, read)
           ELSE IF bytes + wanted >= CurrentPieceSize(piece) THEN Return(TRUE, read)
           ELSE /\ bytes' = bytes + wanted
                /\ buffer' = read
                /\ i' = i + 1
                /\ UNCHANGED <<torrent, layout, disk, done, pc, piece, faulty>>

\* Every piece has been read, and the swarm begins.
VerificationDone ==
    /\ pc = "verify" /\ piece = TotalPieces
    /\ pc' = "swarm"
    /\ UNCHANGED <<torrent, layout, disk, done, i, piece, bytes, buffer, faulty>>

------------------------------------------------------------------------------
Next ==
    \/ FillEntry \/ Filled
    \/ ReadSkipped \/ ReadMissing \/ ReadFile \/ VerificationDone
    \/ \E p \in 0 .. TotalPieces - 1 : StartWrite(p)
    \/ WriteSkipped \/ WriteFile \/ WriteFileBadly \/ CannotOpen
    \/ Restart

Spec == Init /\ [][Next]_vars

------------------------------------------------------------------------------
(* Properties *)

\* The variables keep their types; no file grows beyond its length.
TypeOK ==
    /\ has_path \in [Files -> BOOLEAN]
    /\ length \in [Files -> 0 .. MaxLength]
    /\ global_start \in [Files -> Nat]
    /\ global_end \in [Files -> Nat]
    /\ offset \in Nat
    /\ content \in [Files -> [Offsets -> Nat \cup {Other}]]
    /\ size \in [Files -> {Absent} \cup 0 .. MaxLength]
    /\ \A f \in Files : size[f] <= length[f]
    /\ done \subseteq Nat
    /\ pc \in {"fill", "verify", "swarm", "write"}
    /\ i \in 1 .. NumFiles + 1
    /\ piece \in Nat
    /\ bytes \in Nat
    /\ buffer \in [Places -> Nat \cup {Other}]
    /\ faulty \in BOOLEAN

\* Whatever fails, and whenever the program was killed, a byte of the torrent
\* that is in a file is in its place: a piece that spans files, or that begins
\* in the middle of one, is cut where the files are.
InPlace ==
    pc # "fill" => \A f \in Files : \A o \in Offsets :
        content[f][o] # Other => content[f][o] = global_start[f] + o

\* The bytes from first to last, not included, are on disk.
OnDisk(first, last) ==
    \A g \in first .. last - 1 : \E f \in Files :
        /\ global_start[f] <= g /\ g < global_end[f]
        /\ g - global_start[f] < size[f]
        /\ content[f][g - global_start[f]] = g

PieceOnDisk(p) == OnDisk(PieceStart(p), PieceStart(p) + CurrentPieceSize(p))

\* No file that lies inside the piece is missing, not even an empty one.
FilesThere(p) ==
    \A f \in Files :
        (global_start[f] < PieceStart(p) + CurrentPieceSize(p) /\ PieceStart(p) < global_end[f])
            => size[f] # Absent

\* The verification recovers exactly the pieces that are whole on disk, after
\* any history of writes, failures and kills, as long as no file inside them is
\* missing; the hash lets nothing else pass.
VerifiedExactly ==
    pc = "verify" => \A p \in 0 .. piece - 1 :
        p \in done <=> PieceOnDisk(p) /\ FilesThere(p)

\* As long as no write has failed since the start, every byte of a piece that
\* is done is on disk, in its place: the loop of the write reaches every file
\* that the piece has a part of.
DoneIsOnDisk ==
    (pc # "fill" /\ ~faulty) => \A p \in done : PieceOnDisk(p)

==============================================================================
