------------------------------ MODULE FilesProofs ------------------------------
(***************************************************************************)
(* Proofs about FileSaver, for any number, length and layout of files and  *)
(* any piece length: that bytes are in their place, that the verification  *)
(* recovers exactly what is whole on disk, and that what is done is there. *)
(* Then proofs about CreateAndSeed, for any directory: that the hashes in  *)
(* a torrent file are those of the pieces as a download counts them, and   *)
(* that a torrent added over the directory it was made of is complete at   *)
(* once.  What is shown of a foreign torrent is carried over to one that   *)
(* was made here.                                                          *)
(***************************************************************************)
EXTENDS CreateAndSeed, FiniteSetTheorems, SequenceTheorems, WellFoundedInduction, TLAPS

------------------------------------------------------------------------------
(* The download: where a piece starts *)

\* Where a piece starts, in numbers that the provers need not multiply.
LEMMA PieceStartType == ASSUME NEW p \in Nat PROVE PieceStart(p) \in Nat
  BY FileSaverAssumption DEF PieceStart

LEMMA PieceSizeType ==
    ASSUME TypeOK, NEW p \in Nat
    PROVE  CurrentPieceSize(p) \in Nat /\ TotalPieces \in Int
<1>1. SizeBytes \in Nat /\ SizeBytes % PieceLength \in Nat
  BY FileSaverAssumption DEF TypeOK, SizeBytes
<1>2. TotalPieces \in Int
  BY <1>1, FileSaverAssumption DEF TotalPieces
<1>. QED
  BY <1>1, <1>2, FileSaverAssumption DEF CurrentPieceSize

------------------------------------------------------------------------------
(* The inductive invariant *)

\* The files that have their range.
Laid == IF pc = "fill" THEN i - 1 ELSE NumFiles

\* The ranges follow each other from 0, each as long as its file.
LayoutInv ==
    /\ \A f \in 1 .. Laid : global_end[f] = global_start[f] + length[f]
    /\ Laid > 0 => global_start[1] = 0
    /\ \A f \in 1 .. Laid - 1 : global_start[f + 1] = global_end[f]
    /\ pc = "fill" => offset = IF i = 1 THEN 0 ELSE global_end[i - 1]

\* How much of the piece lies before file i: what the loop of
\* write_piece_to_disk has counted when it comes to that file.
Before(f) ==
    Greater(Smaller(global_start[f], PieceEnd(PieceLength)) - PieceStart(piece), 0)

WriteInv == pc = "write" => i \in Files /\ bytes = Before(i)

\* origin lays the files end to end.
Chain(origin) ==
    /\ origin[1] = 0
    /\ \A f \in 1 .. NumFiles - 1 : origin[f + 1] = origin[f] + length[f]

\* What the disk holds from before the start lies where the layout that is
\* being made will have it: the lengths, which do not change, determine it.
KeptInv ==
    pc = "fill" =>
        \/ \A f \in Files : \A o \in Offsets : content[f][o] = Other
        \/ \E origin \in [Files -> Nat] :
              /\ Chain(origin)
              /\ \A f \in 1 .. Laid : global_start[f] = origin[f]
              /\ \A f \in Files : \A o \in Offsets :
                    content[f][o] # Other => content[f][o] = origin[f] + o

IInv == TypeOK /\ LayoutInv /\ WriteInv /\ KeptInv /\ InPlace

LEMMA InitIInv == Init => IInv
<1>. SUFFICES ASSUME Init PROVE IInv
  OBVIOUS
<1>. USE FileSaverAssumption
<1>1. TypeOK
  <2>1. \A f \in Files : size[f] <= length[f]
    BY DEF Init, Unread
  <2>2. size \in [Files -> {Absent} \cup 0 .. MaxLength]
    BY DEF Init, Unread
  <2>3. content \in [Files -> [Offsets -> Nat \cup {Other}]]
    BY DEF Init, Unread
  <2>4. buffer \in [Places -> Nat \cup {Other}]
    BY DEF Init, Unread
  <2>5. global_start \in [Files -> Nat] /\ global_end \in [Files -> Nat]
    BY DEF Init, Unread
  <2>6. has_path \in [Files -> BOOLEAN]
    BY DEF Init, Unread
  <2>7. length \in [Files -> 0 .. MaxLength]
    BY DEF Init, Unread
  <2>8. /\ offset \in Nat /\ done \subseteq Nat /\ pc = "fill" /\ i \in 1 .. NumFiles + 1
        /\ piece \in Nat /\ bytes \in Nat
    BY DEF Init, Unread
  <2>9. faulty \in BOOLEAN
    BY DEF Init, Unread
  <2>. QED
    BY <2>1, <2>2, <2>3, <2>4, <2>5, <2>6, <2>7, <2>8, <2>9 DEF TypeOK
<1>2. KeptInv
  BY DEF Init, Unread, KeptInv
<1>. QED
  BY <1>1, <1>2 DEF IInv, Init, Unread, LayoutInv, Laid, WriteInv, InPlace

LEMMA RestartIInv == ASSUME IInv, Restart PROVE IInv'
<1>. USE FileSaverAssumption DEF IInv, Restart, torrent, disk
<1>1. TypeOK'
  <2>1. /\ global_start' \in [Files -> Nat] /\ global_end' \in [Files -> Nat]
        /\ buffer' \in [Places -> Nat \cup {Other}]
    OBVIOUS
  <2>2. /\ offset' \in Nat /\ done' \subseteq Nat /\ pc' = "fill" /\ i' \in 1 .. NumFiles + 1
        /\ piece' \in Nat /\ bytes' \in Nat
    OBVIOUS
  <2>3. faulty' \in BOOLEAN
    OBVIOUS
  <2>. QED
    BY <2>1, <2>2, <2>3 DEF TypeOK
<1>2. KeptInv'
  <2>1. /\ global_start \in [Files -> Nat] /\ Laid = NumFiles /\ Laid' = 0
        /\ content' = content /\ length' = length
    BY DEF TypeOK, Laid
  <2>2. PICK origin \in [Files -> Nat] : origin = global_start
    BY <2>1
  <2>3. Chain(origin)'
    <3>1. global_start[1] = 0
      BY <2>1 DEF LayoutInv
    <3>2. ASSUME NEW f \in 1 .. NumFiles - 1
          PROVE  global_start[f + 1] = global_start[f] + length[f]
      BY <2>1, <3>2 DEF LayoutInv
    <3>. QED
      BY <2>1, <2>2, <3>1, <3>2 DEF Chain
  <2>. QED
    BY <2>1, <2>2, <2>3 DEF KeptInv, InPlace
<1>. QED
  BY <1>1, <1>2 DEF LayoutInv, Laid, WriteInv, InPlace

------------------------------------------------------------------------------
(* fill_target_files *)

LEMMA FillIInv == ASSUME IInv, FillEntry PROVE IInv'
<1>. USE FileSaverAssumption DEF IInv, FillEntry, torrent, disk
<1>1. i \in Files /\ length[i] \in Nat /\ offset \in Nat /\ i \in Nat \ {0}
  BY DEF TypeOK, Files
<1>2. TypeOK'
  <2>1. offset + length[i] \in Nat /\ i + 1 \in 1 .. NumFiles + 1
    BY <1>1 DEF Files
  <2>2. global_start' \in [Files -> Nat] /\ global_end' \in [Files -> Nat]
    BY <1>1, <2>1 DEF TypeOK
  <2>. QED
    BY <2>1, <2>2 DEF TypeOK
<1>3. LayoutInv'
  <2>1. /\ global_start'[i] = offset /\ global_end'[i] = offset + length[i]
        /\ \A f \in 1 .. i - 1 : /\ global_start'[f] = global_start[f]
                                 /\ global_end'[f] = global_end[f]
    <3>1. global_start \in [Files -> Nat] /\ global_end \in [Files -> Nat]
      BY DEF TypeOK
    <3>2. /\ global_start' = [global_start EXCEPT ![i] = offset]
          /\ global_end' = [global_end EXCEPT ![i] = offset + length[i]]
      OBVIOUS
    <3>3. \A f \in 1 .. i - 1 : f \in Files /\ f # i
      BY <1>1 DEF Files
    <3>. HIDE DEF IInv, FillEntry, torrent, disk
    <3>. QED
      BY <1>1, <3>1, <3>2, <3>3
  <2>2. Laid = i - 1 /\ Laid' = i /\ length' = length /\ pc' = "fill" /\ i' = i + 1
    BY <1>1 DEF Laid
  <2>3. \A f \in 1 .. i : global_end'[f] = global_start'[f] + length[f]
    <3>1. \A f \in 1 .. i - 1 : global_end'[f] = global_start'[f] + length[f]
      BY <2>1, <2>2 DEF LayoutInv
    <3>. QED
      BY <1>1, <2>1, <3>1
  <2>4. global_start'[1] = 0
    <3>1. CASE i = 1
      BY <2>1, <3>1 DEF LayoutInv
    <3>2. CASE i > 1
      BY <1>1, <2>1, <2>2, <3>2 DEF LayoutInv
    <3>. QED
      BY <1>1, <3>1, <3>2
  <2>5. \A f \in 1 .. i - 1 : global_start'[f + 1] = global_end'[f]
    <3>1. \A f \in 1 .. i - 2 : global_start'[f + 1] = global_end'[f]
      <4>1. \A f \in 1 .. i - 2 : f \in 1 .. i - 1 /\ f + 1 \in 1 .. i - 1
        BY <1>1
      <4>. QED
        BY <2>1, <2>2, <4>1 DEF LayoutInv
    <3>2. i > 1 => global_start'[i] = global_end'[i - 1]
      BY <1>1, <2>1 DEF LayoutInv
    <3>. QED
      BY <1>1, <3>1, <3>2
  <2>6. offset' = global_end'[i' - 1]
    BY <1>1, <2>1, <2>2
  <2>. QED
    BY <1>1, <2>2, <2>3, <2>4, <2>5, <2>6 DEF LayoutInv
<1>4. KeptInv'
  <2>1. CASE \A f \in Files : \A o \in Offsets : content[f][o] = Other
    BY <2>1 DEF KeptInv
  <2>2. CASE \E origin \in [Files -> Nat] :
              /\ Chain(origin)
              /\ \A f \in 1 .. Laid : global_start[f] = origin[f]
              /\ \A f \in Files : \A o \in Offsets :
                    content[f][o] # Other => content[f][o] = origin[f] + o
    <3>1. PICK origin \in [Files -> Nat] :
              /\ Chain(origin)
              /\ \A f \in 1 .. Laid : global_start[f] = origin[f]
              /\ \A f \in Files : \A o \in Offsets :
                    content[f][o] # Other => content[f][o] = origin[f] + o
      BY <2>2
    <3>2. Laid = i - 1 /\ Laid' = i /\ length' = length /\ content' = content
      BY <1>1 DEF Laid
    <3>3. offset = origin[i]
      <4>1. CASE i = 1
        BY <3>1, <4>1 DEF LayoutInv, Chain
      <4>2. CASE i > 1
        <5>1. i - 1 \in 1 .. NumFiles - 1 /\ i - 1 \in 1 .. Laid /\ (i - 1) + 1 = i
          BY <1>1, <3>2, <4>2 DEF Files
        <5>2. offset = global_start[i - 1] + length[i - 1]
          BY <4>2, <5>1 DEF LayoutInv
        <5>. QED
          BY <3>1, <5>1, <5>2 DEF Chain
      <4>. QED
        BY <1>1, <4>1, <4>2
    <3>4. \A f \in 1 .. i : global_start'[f] = origin[f]
      <4>1. \A f \in 1 .. i : f \in Files /\ (f = i \/ f \in 1 .. Laid)
        BY <1>1, <3>2 DEF Files
      <4>. QED
        BY <3>1, <3>3, <4>1 DEF TypeOK
    <3>5. Chain(origin)'
      BY <3>1, <3>2 DEF Chain
    <3>. QED
      BY <3>1, <3>2, <3>4, <3>5 DEF KeptInv
  <2>. QED
    BY <2>1, <2>2 DEF KeptInv
<1>. QED
  BY <1>2, <1>3, <1>4 DEF WriteInv, InPlace

LEMMA FilledIInv == ASSUME IInv, Filled PROVE IInv'
<1>. USE FileSaverAssumption DEF IInv, Filled, torrent, layout, disk
<1>1. TypeOK'
  BY DEF TypeOK
<1>2. Laid = NumFiles /\ Laid' = NumFiles
  BY DEF Laid
<1>3. LayoutInv'
  BY <1>2 DEF LayoutInv
<1>4. InPlace'
  BY <1>2 DEF KeptInv, InPlace, Files
<1>. QED
  BY <1>1, <1>3, <1>4 DEF WriteInv, KeptInv

------------------------------------------------------------------------------
(* write_piece_to_disk *)

\* The part of a piece that lies in file i.
LEMMA Overlap ==
    ASSUME TypeOK, LayoutInv, pc # "fill", i \in Files, NEW len \in Nat, ~Skipped(len)
    PROVE  /\ LocalOffset \in Nat /\ OverlapLength(len) \in Nat
           /\ LocalOffset + OverlapLength(len) <= length[i]
           /\ global_start[i] + LocalOffset = OverlapStart
<1>1. /\ global_start[i] \in Nat /\ global_end[i] \in Nat /\ length[i] \in Nat
      /\ PieceStart(piece) \in Nat
  BY PieceStartType, FileSaverAssumption DEF TypeOK
<1>2. global_end[i] = global_start[i] + length[i]
  BY DEF LayoutInv, Laid, Files
<1>. QED
  BY <1>1, <1>2 DEF LocalOffset, OverlapLength, OverlapStart, OverlapEnd, PieceEnd, Skipped,
                    Smaller, Greater

\* Before file i, the loop has counted what the piece has in the files before.
LEMMA Counted ==
    ASSUME IInv, pc = "write"
    PROVE  /\ i \in Files /\ bytes \in Nat
           /\ ~Skipped(PieceLength) => PieceStart(piece) + bytes = global_start[i] + LocalOffset
           /\ i # NumFiles => /\ Skipped(PieceLength) => bytes = Before(i + 1)
                              /\ ~Skipped(PieceLength) => Written = Before(i + 1)
<1>. USE FileSaverAssumption DEF IInv
<1>1. /\ i \in Files /\ bytes = Before(i) /\ bytes \in Nat
      /\ global_start[i] \in Nat /\ global_end[i] \in Nat /\ length[i] \in Nat
      /\ PieceStart(piece) \in Nat
  BY PieceStartType DEF TypeOK, WriteInv
<1>2. global_end[i] = global_start[i] + length[i]
  BY <1>1 DEF LayoutInv, Laid, Files
<1>3. ASSUME ~Skipped(PieceLength)
      PROVE  PieceStart(piece) + bytes = global_start[i] + LocalOffset
  BY <1>1, <1>2, <1>3 DEF Before, LocalOffset, OverlapStart, PieceEnd, Skipped, Smaller, Greater
<1>4. ASSUME i # NumFiles
      PROVE  /\ Skipped(PieceLength) => bytes = Before(i + 1)
             /\ ~Skipped(PieceLength) => Written = Before(i + 1)
  <2>1. i \in 1 .. NumFiles - 1
    BY <1>1, <1>4 DEF Files
  <2>2. global_start[i + 1] = global_end[i]
    BY <2>1 DEF LayoutInv, Laid
  <2>. QED
    BY <1>1, <1>2, <2>2
    DEF Before, Written, OverlapLength, OverlapStart, OverlapEnd, PieceEnd, Skipped, Smaller, Greater
<1>. QED
  BY <1>1, <1>3, <1>4

\* One iteration keeps what does not depend on the disk.
LEMMA Advanced ==
    ASSUME IInv, pc = "write", NEW w \in Nat, Advance(w), i # NumFiles => w = Before(i + 1)
    PROVE  /\ done' \subseteq Nat /\ pc' \in {"swarm", "write"} /\ i' \in 1 .. NumFiles + 1
           /\ bytes' \in Nat /\ LayoutInv' /\ WriteInv'
<1>. USE FileSaverAssumption DEF IInv, Advance, torrent, layout
<1>1. i \in Files /\ i \in Nat \ {0} /\ piece \in Nat
  BY Counted DEF TypeOK, Files
<1>2. /\ done' \subseteq Nat /\ pc' \in {"swarm", "write"} /\ i' \in 1 .. NumFiles + 1
      /\ bytes' \in Nat
  <2>1. bytes' = w /\ done \subseteq Nat
    BY DEF TypeOK
  <2>2. \/ done' = done \cup {piece} /\ pc' = "swarm" /\ i' = 1
        \/ done' = done /\ pc' = pc /\ i' = i + 1 /\ i # NumFiles
    OBVIOUS
  <2>. HIDE DEF Advance
  <2>3. done' \subseteq Nat
    BY <1>1, <2>1, <2>2
  <2>4. pc' \in {"swarm", "write"}
    BY <2>2
  <2>5. i' \in 1 .. NumFiles + 1
    BY <1>1, <2>2 DEF Files
  <2>. QED
    BY <2>1, <2>3, <2>4, <2>5
<1>3. LayoutInv'
  <2>1. Laid = NumFiles /\ Laid' = NumFiles
    BY <1>2 DEF Laid
  <2>. QED
    BY <1>2, <2>1 DEF LayoutInv
<1>4. WriteInv'
  <2>1. SUFFICES ASSUME pc' = "write" PROVE i' \in Files /\ bytes' = Before(i)'
    BY DEF WriteInv
  <2>2. i' = i + 1 /\ i # NumFiles /\ bytes' = w
    BY <2>1
  <2>3. Before(i)' = Before(i + 1)
    BY <2>2 DEF Before, PieceEnd
  <2>. QED
    BY <1>1, <2>2, <2>3 DEF Files
<1>. QED
  BY <1>2, <1>3, <1>4

\* What fwrite puts into a file is in its place and within its length.
LEMMA PutInPlace ==
    ASSUME IInv, pc = "write", ~Skipped(PieceLength),
           NEW n \in 0 .. OverlapLength(PieceLength), NEW old \in {0, Greater(size[i], 0)},
           Put(n, old)
    PROVE  /\ content' \in [Files -> [Offsets -> Nat \cup {Other}]]
           /\ size' \in [Files -> {Absent} \cup 0 .. MaxLength]
           /\ \A f \in Files : size'[f] <= length[f]
           /\ \A f \in Files : \A o \in Offsets :
                 content'[f][o] # Other => content'[f][o] = global_start[f] + o
<1>. USE FileSaverAssumption DEF IInv
<1>1. /\ i \in Files /\ bytes \in Nat /\ PieceStart(piece) \in Nat /\ length[i] \in 0 .. MaxLength
      /\ global_start[i] \in Nat
      /\ PieceStart(piece) + bytes = global_start[i] + LocalOffset
  BY Counted, PieceStartType DEF TypeOK
<1>2. /\ LocalOffset \in Nat /\ OverlapLength(PieceLength) \in Nat
      /\ LocalOffset + OverlapLength(PieceLength) <= length[i]
  BY <1>1, Overlap
<1>3. size[i] \in {Absent} \cup 0 .. MaxLength /\ size[i] <= length[i]
  BY <1>1 DEF TypeOK
<1>4. old \in Nat /\ old <= length[i]
  BY <1>1, <1>3 DEF Greater, Absent
<1>5. /\ size'[i] \in 0 .. MaxLength /\ size'[i] <= length[i]
      /\ \A f \in Files \ {i} : size'[f] = size[f]
  BY <1>1, <1>2, <1>4 DEF Put, Greater, TypeOK
<1>6. size' \in [Files -> {Absent} \cup 0 .. MaxLength]
  BY <1>1, <1>5 DEF Put, TypeOK
<1>7. \A f \in Files : size'[f] <= length[f]
  BY <1>5 DEF TypeOK
<1>. DEFINE Byte(o) == IF LocalOffset <= o /\ o < LocalOffset + n
                       THEN PieceStart(piece) + bytes + (o - LocalOffset)
                       ELSE IF o < old THEN content[i][o] ELSE Other
<1>8. /\ \A o \in Offsets : content'[i][o] = Byte(o)
      /\ \A f \in Files \ {i} : content'[f] = content[f]
      /\ content' = [content EXCEPT ![i] = [o \in Offsets |-> Byte(o)]]
  BY <1>1 DEF Put, TypeOK
<1>9. ASSUME NEW o \in Offsets
      PROVE  /\ Byte(o) \in Nat \cup {Other}
             /\ Byte(o) # Other => Byte(o) = global_start[i] + o
  <2>1. o \in Nat /\ n \in Nat /\ content[i] \in [Offsets -> Nat \cup {Other}]
    BY <1>1, <1>2, <1>9 DEF Offsets, TypeOK
  <2>2. content[i][o] \in Nat \cup {Other}
    BY <1>9, <2>1
  <2>3. content[i][o] # Other => content[i][o] = global_start[i] + o
    BY <1>1, <1>9 DEF InPlace
  <2>4. CASE LocalOffset <= o /\ o < LocalOffset + n
    BY <1>1, <1>2, <2>1, <2>4 DEF Other
  <2>. QED
    BY <2>2, <2>3, <2>4
<1>10. content' \in [Files -> [Offsets -> Nat \cup {Other}]]
  <2>1. [o \in Offsets |-> Byte(o)] \in [Offsets -> Nat \cup {Other}]
    BY <1>9
  <2>. HIDE DEF Byte
  <2>. QED
    BY <1>1, <1>8, <2>1 DEF TypeOK
<1>11. ASSUME NEW f \in Files, NEW o \in Offsets, content'[f][o] # Other
       PROVE  content'[f][o] = global_start[f] + o
  <2>1. CASE f = i
    <3>. HIDE DEF Byte
    <3>. QED
      BY <1>8, <1>9, <1>11, <2>1
  <2>2. CASE f # i
    BY <1>8, <1>11, <2>2 DEF InPlace
  <2>. QED
    BY <2>1, <2>2
<1>. QED
  BY <1>6, <1>7, <1>10, <1>11

LEMMA WriteIInv ==
    ASSUME IInv, WriteSkipped \/ WriteFile \/ WriteFileBadly \/ CannotOpen
    PROVE  IInv'
<1>. USE FileSaverAssumption DEF IInv
<1>1. PICK w \in Nat : /\ Advance(w)
                       /\ i # NumFiles => w = Before(i + 1)
  <2>1. pc = "write" /\ i \in Files /\ bytes \in Nat
    BY Counted DEF WriteSkipped, WriteFile, WriteFileBadly, CannotOpen
  <2>2. CASE WriteSkipped
    BY <2>1, <2>2, Counted DEF WriteSkipped
  <2>3. CASE WriteFile \/ WriteFileBadly \/ CannotOpen
    <3>1. ~Skipped(PieceLength) /\ Advance(Written)
      BY <2>3 DEF WriteFile, WriteFileBadly, CannotOpen
    <3>2. Written \in Nat
      BY <2>1, <3>1, Overlap DEF Written
    <3>. QED
      BY <2>1, <3>1, <3>2, Counted
  <2>. QED
    BY <2>2, <2>3
<1>2. /\ pc = "write" /\ pc' # "fill"
      /\ done' \subseteq Nat /\ pc' \in {"swarm", "write"} /\ i' \in 1 .. NumFiles + 1
      /\ bytes' \in Nat /\ LayoutInv' /\ WriteInv'
  BY <1>1, Advanced DEF WriteSkipped, WriteFile, WriteFileBadly, CannotOpen
<1>3. UNCHANGED <<has_path, length, global_start, global_end, offset, piece, buffer>>
  BY <1>1 DEF Advance, torrent, layout
<1>4. /\ content' \in [Files -> [Offsets -> Nat \cup {Other}]]
      /\ size' \in [Files -> {Absent} \cup 0 .. MaxLength]
      /\ \A f \in Files : size'[f] <= length[f]
      /\ \A f \in Files : \A o \in Offsets :
            content'[f][o] # Other => content'[f][o] = global_start[f] + o
  <2>1. CASE WriteSkipped \/ CannotOpen
    BY <1>2, <2>1 DEF WriteSkipped, CannotOpen, disk, TypeOK, InPlace
  <2>2. CASE WriteFile
    <3>1. OverlapLength(PieceLength) \in Nat
      BY <1>2, <2>2, Counted, Overlap DEF WriteFile
    <3>. QED
      BY <1>2, <2>2, <3>1, PutInPlace DEF WriteFile
  <2>3. CASE WriteFileBadly
    BY <1>2, <2>3, PutInPlace DEF WriteFileBadly
  <2>. QED
    BY <2>1, <2>2, <2>3
<1>5. faulty' \in BOOLEAN
  <2>1. has_path[i] \in BOOLEAN
    BY <1>2, Counted DEF TypeOK
  <2>. QED
    BY <2>1 DEF TypeOK, WriteSkipped, WriteFile, WriteFileBadly, CannotOpen
<1>6. TypeOK'
  BY <1>2, <1>3, <1>4, <1>5 DEF TypeOK
<1>. QED
  BY <1>2, <1>3, <1>4, <1>6 DEF KeptInv, InPlace

------------------------------------------------------------------------------
(* read_piece_from_disk *)

\* A read changes neither the disk nor the layout.
LEMMA ReadIInv ==
    ASSUME IInv, ReadSkipped \/ ReadMissing \/ ReadFile
    PROVE  IInv'
<1>. USE FileSaverAssumption DEF IInv
<1>1. /\ pc = "verify" /\ pc' = "verify" /\ i \in Nat \ {0}
      /\ UNCHANGED <<torrent, layout, disk, faulty>>
  BY DEF ReadSkipped, ReadMissing, ReadFile, Reading, Return, TypeOK
<1>2. CurrentPieceSize(piece) \in Nat
  BY PieceSizeType DEF TypeOK
<1>3. ASSUME NEW ok, NEW read \in [Places -> Nat \cup {Other}], Return(ok, read)
      PROVE  /\ done' \subseteq Nat /\ i' \in 1 .. NumFiles + 1 /\ piece' \in Nat
             /\ bytes' \in Nat /\ buffer' \in [Places -> Nat \cup {Other}]
  <2>1. done' \subseteq done \cup {piece} /\ i' = 1 /\ piece' = piece + 1 /\ bytes' = 0 /\ buffer' = read
    BY <1>3 DEF Return
  <2>. QED
    BY <1>3, <2>1 DEF TypeOK
<1>4. /\ done' \subseteq Nat /\ i' \in 1 .. NumFiles + 1 /\ piece' \in Nat
      /\ bytes' \in Nat /\ buffer' \in [Places -> Nat \cup {Other}]
  <2>1. CASE ReadSkipped
    <3>1. buffer \in [Places -> Nat \cup {Other}]
      BY DEF TypeOK
    <3>2. CASE i > NumFiles
      BY <1>3, <2>1, <3>1, <3>2 DEF ReadSkipped
    <3>3. CASE ~(i > NumFiles)
      <4>1. i' = i + 1 /\ UNCHANGED <<done, piece, bytes, buffer>>
        BY <2>1, <3>3 DEF ReadSkipped
      <4>2. i + 1 \in 1 .. NumFiles + 1
        BY <1>1, <3>3
      <4>. QED
        BY <4>1, <4>2 DEF TypeOK
    <3>. QED
      BY <3>2, <3>3
  <2>2. CASE ReadMissing
    <3>1. buffer \in [Places -> Nat \cup {Other}]
      BY DEF TypeOK
    <3>. QED
      BY <1>3, <2>2, <3>1 DEF ReadMissing
  <2>3. CASE ReadFile
    <3>. DEFINE wanted == OverlapLength(CurrentPieceSize(piece))
                actual == Smaller(wanted, Greater(size[i] - LocalOffset, 0))
                read   == [k \in Places |-> IF bytes <= k /\ k < bytes + actual
                                            THEN content[i][LocalOffset + (k - bytes)]
                                            ELSE buffer[k]]
    <3>1. i \in Files /\ size[i] \in 0 .. MaxLength /\ bytes \in Nat
      BY <1>1, <2>3 DEF ReadFile, TypeOK, Files
    <3>2. LocalOffset \in Nat /\ wanted \in Nat
      BY <1>1, <1>2, <2>3, <3>1, Overlap DEF ReadFile
    <3>3. read \in [Places -> Nat \cup {Other}]
      <4>1. ASSUME NEW k \in Places, bytes <= k, k < bytes + actual
            PROVE  content[i][LocalOffset + (k - bytes)] \in Nat \cup {Other}
        <5>1. LocalOffset + (k - bytes) \in Offsets
          BY <3>1, <3>2, <4>1 DEF Smaller, Greater, Places, Offsets
        <5>2. content[i] \in [Offsets -> Nat \cup {Other}]
          BY <3>1 DEF TypeOK
        <5>. QED
          BY <5>1, <5>2
      <4>2. ASSUME NEW k \in Places PROVE buffer[k] \in Nat \cup {Other}
        BY DEF TypeOK
      <4>. QED
        BY <4>1, <4>2
    <3>4. \/ \E ok \in BOOLEAN : Return(ok, read)
          \/ /\ bytes' = bytes + wanted /\ buffer' = read /\ i' = i + 1
             /\ UNCHANGED <<done, piece>>
      <4>. HIDE DEF read, actual, wanted
      <4>. QED
        BY <2>3 DEF ReadFile, read, actual, wanted
    <3>. HIDE DEF read, wanted
    <3>5. CASE \E ok \in BOOLEAN : Return(ok, read)
      BY <1>3, <3>3, <3>5
    <3>6. CASE /\ bytes' = bytes + wanted /\ buffer' = read /\ i' = i + 1
               /\ UNCHANGED <<done, piece>>
      BY <3>1, <3>2, <3>3, <3>6 DEF Files, TypeOK
    <3>. QED
      BY <3>4, <3>5, <3>6
  <2>. QED
    BY <2>1, <2>2, <2>3
<1>5. TypeOK'
  BY <1>1, <1>4 DEF TypeOK, torrent, layout, disk
<1>6. LayoutInv'
  <2>1. Laid = NumFiles /\ Laid' = NumFiles
    BY <1>1 DEF Laid
  <2>. QED
    BY <1>1, <2>1 DEF LayoutInv, torrent, layout
<1>. QED
  BY <1>1, <1>5, <1>6 DEF WriteInv, KeptInv, InPlace, disk, layout

------------------------------------------------------------------------------
(* Bytes in their place *)

LEMMA NextIInv == IInv /\ [Next]_vars => IInv'
<1>. SUFFICES ASSUME IInv, [Next]_vars PROVE IInv'
  OBVIOUS
<1>1. CASE VerificationDone
  BY <1>1 DEF VerificationDone, IInv, TypeOK, LayoutInv, Laid, WriteInv, KeptInv, InPlace,
              torrent, layout, disk
<1>2. ASSUME NEW p \in 0 .. TotalPieces - 1, StartWrite(p) PROVE IInv'
  <2>1. p \in Nat /\ 1 \in Files /\ 1 \in 1 .. NumFiles + 1
    BY PieceSizeType, FileSaverAssumption DEF IInv, TypeOK, Files
  <2>2. TypeOK'
    BY <1>2, <2>1 DEF StartWrite, IInv, TypeOK, torrent, layout, disk
  <2>3. LayoutInv'
    BY <1>2 DEF StartWrite, IInv, LayoutInv, Laid, torrent, layout
  <2>4. WriteInv'
    <3>1. /\ global_start'[1] = 0 /\ i' = 1 /\ bytes' = 0 /\ piece' = p
          /\ PieceStart(p) \in Nat
      BY <1>2, <2>1, PieceStartType, FileSaverAssumption
      DEF StartWrite, IInv, LayoutInv, Laid, layout
    <3>2. Before(1)' = 0
      BY <3>1, FileSaverAssumption DEF Before, PieceEnd, Smaller, Greater
    <3>. QED
      BY <2>1, <3>1, <3>2 DEF WriteInv
  <2>. QED
    BY <1>2, <2>2, <2>3, <2>4 DEF StartWrite, IInv, KeptInv, InPlace, layout, disk
<1>3. CASE UNCHANGED vars
  BY <1>3 DEF vars, IInv, TypeOK, LayoutInv, Laid, WriteInv, Before, PieceEnd, KeptInv, Chain,
              InPlace, torrent, layout, disk
<1>. QED
  BY <1>1, <1>2, <1>3, FillIInv, FilledIInv, ReadIInv, WriteIInv, RestartIInv DEF Next

\* What follows rests on IInv: ranges follow each other, the loop over the files
\* has counted what lies before, and the disk agrees with the layout.
THEOREM Inductive == Spec => []IInv
  BY InitIInv, NextIInv, PTL DEF Spec

\* The variables keep their types, and no file grows beyond its length.
THEOREM TypeCorrect == Spec => []TypeOK
<1>1. IInv => TypeOK
  BY DEF IInv
<1>. QED
  BY <1>1, Inductive, PTL

\* Whatever fails, a byte of the torrent that is in a file is in its place.
THEOREM BytesInPlace == Spec => []InPlace
<1>1. IInv => InPlace
  BY DEF IInv
<1>. QED
  BY <1>1, Inductive, PTL

------------------------------------------------------------------------------
(* What is on disk: the inductive invariant on top of IInv *)

\* The ranges of the files that have theirs do not overlap and end with the last.
SpreadInv ==
    /\ \A f \in 1 .. Laid : global_end[f] <= offset
    /\ \A f, h \in 1 .. Laid : f < h => global_end[f] <= global_start[h]
    /\ pc # "fill" => offset = global_end[NumFiles]

\* How much of a piece lies before file f, or before the end of the last one.
FileStart(f) == IF f = NumFiles + 1 THEN offset ELSE global_start[f]
Passed(f, len) == Greater(Smaller(FileStart(f), PieceEnd(len)) - PieceStart(piece), 0)

\* An entry without a path has no bytes.
PathInv == \A f \in Files : ~has_path[f] => length[f] = 0

PieceInv ==
    /\ done \subseteq 0 .. TotalPieces - 1
    /\ pc = "fill" => done = {} /\ piece = 0 /\ bytes = 0
    /\ pc = "write" => piece < TotalPieces
    /\ pc = "verify" => piece <= TotalPieces /\ done \subseteq 0 .. piece - 1

\* Byte g of the torrent is on disk, and is b.
Held(g, b) ==
    \E f \in Files : /\ global_start[f] <= g /\ g < global_end[f]
                     /\ g - global_start[f] < size[f]
                     /\ content[f][g - global_start[f]] = b

\* The loop of a write has written what it has counted.
WroteInv ==
    pc = "write" /\ ~faulty => \A k \in 0 .. bytes - 1 : Held(PieceStart(piece) + k, PieceStart(piece) + k)

Inside(f, len) == global_start[f] < PieceEnd(len) /\ PieceStart(piece) < global_end[f]

\* The loop of a read has in its buffer what it has counted, and the files it
\* has passed are there.
ReadInv ==
    Reading =>
        /\ bytes = Passed(i, CurrentPieceSize(piece))
        /\ \A k \in 0 .. bytes - 1 : Held(PieceStart(piece) + k, buffer[k])
        /\ \A f \in 1 .. i - 1 : Inside(f, CurrentPieceSize(piece)) => size[f] # Absent

DInv == SpreadInv /\ PathInv /\ PieceInv /\ WroteInv /\ ReadInv /\ VerifiedExactly /\ DoneIsOnDisk

------------------------------------------------------------------------------
(* Pieces and ranges *)

\* A piece ends inside the content, and the last one where the content does.
LEMMA PieceBounds ==
    ASSUME TypeOK, NEW p \in Nat, p < TotalPieces
    PROVE  /\ PieceStart(p) \in Nat
           /\ CurrentPieceSize(p) \in Nat \ {0} /\ CurrentPieceSize(p) <= PieceLength
           /\ PieceStart(p) + CurrentPieceSize(p) <= offset
<1>. DEFINE total == offset
            whole == (total + PieceLength - 1) \div PieceLength
            rest  == (total + PieceLength - 1) % PieceLength
            modulo == total % PieceLength
            quotient == total \div PieceLength
<1>1. total \in Nat /\ PieceLength \in Nat \ {0} /\ TotalPieces = whole /\ SizeBytes = total
  BY FileSaverAssumption DEF TypeOK, TotalPieces, SizeBytes
<1>2. /\ total + PieceLength - 1 = whole * PieceLength + rest
      /\ rest \in 0 .. PieceLength - 1 /\ whole \in Int
  BY <1>1
<1>3. /\ total = quotient * PieceLength + modulo
      /\ modulo \in 0 .. PieceLength - 1 /\ quotient \in Int
  BY <1>1
<1>. HIDE DEF total, whole, rest, modulo, quotient
<1>4. total <= whole * PieceLength /\ total > whole * PieceLength - PieceLength
  BY <1>1, <1>2
<1>5. PieceStart(p) = p * PieceLength /\ PieceStart(p) \in Nat
  BY PieceStartType DEF PieceStart
<1>6. CASE p = whole - 1
  <2>1. p * PieceLength = whole * PieceLength - PieceLength
    BY <1>1, <1>2, <1>6
  <2>2. CASE modulo = 0
    <3>1. CurrentPieceSize(p) = PieceLength
      BY <1>1, <2>2 DEF CurrentPieceSize, modulo, total
    <3>2. (quotient - whole) * PieceLength > 0 - PieceLength /\ (quotient - whole) * PieceLength <= 0
      BY <1>1, <1>2, <1>3, <1>4, <2>2
    <3>3. quotient - whole = 0
      BY <1>1, <1>2, <1>3, <3>2
    <3>. QED
      BY <1>1, <1>2, <1>3, <1>5, <2>1, <2>2, <3>1, <3>3 DEF total
  <2>3. CASE modulo # 0
    <3>1. CurrentPieceSize(p) = modulo
      BY <1>1, <1>6, <2>3 DEF CurrentPieceSize, modulo, total
    <3>2. /\ (quotient - (whole - 1)) * PieceLength + modulo > 0
          /\ (quotient - (whole - 1)) * PieceLength + modulo <= PieceLength
      BY <1>1, <1>2, <1>3, <1>4
    <3>3. quotient - (whole - 1) = 0
      BY <1>1, <1>2, <1>3, <2>3, <3>2
    <3>. QED
      BY <1>1, <1>2, <1>3, <1>5, <2>1, <2>3, <3>1, <3>3 DEF total
  <2>. QED
    BY <2>2, <2>3
<1>7. CASE p # whole - 1
  <2>1. CurrentPieceSize(p) = PieceLength
    BY <1>1, <1>7 DEF CurrentPieceSize
  <2>2. p + 2 <= whole
    BY <1>1, <1>2, <1>7
  <2>3. (p + 2) * PieceLength <= whole * PieceLength
    BY <1>1, <1>2, <2>2
  <2>4. (p + 2) * PieceLength = p * PieceLength + PieceLength + PieceLength
    BY <1>1
  <2>. QED
    BY <1>1, <1>2, <1>4, <1>5, <2>1, <2>3, <2>4 DEF total
<1>. QED
  BY <1>6, <1>7

\* A byte of the torrent is in one file.
LEMMA OneFile ==
    ASSUME IInv, SpreadInv, pc # "fill", NEW g \in Nat, NEW f \in Files, NEW h \in Files,
           global_start[f] <= g, g < global_end[f], global_start[h] <= g, g < global_end[h]
    PROVE  f = h
<1>1. /\ f \in 1 .. Laid /\ h \in 1 .. Laid /\ f \in Nat /\ h \in Nat
      /\ global_start[f] \in Nat /\ global_end[f] \in Nat
      /\ global_start[h] \in Nat /\ global_end[h] \in Nat
  BY FileSaverAssumption DEF Laid, Files, IInv, TypeOK
<1>2. ~(f < h) /\ ~(h < f)
  BY <1>1 DEF SpreadInv
<1>. QED
  BY <1>1, <1>2

\* From one file to the next the loops count what the piece has in it.
LEMMA PassedNext ==
    ASSUME IInv, SpreadInv, pc # "fill", i \in Files, NEW len \in Nat, bytes = Passed(i, len)
    PROVE  /\ bytes \in Nat /\ LocalOffset \in Int
           /\ Skipped(len) => Passed(i + 1, len) = bytes
           /\ ~Skipped(len) =>
                 /\ PieceStart(piece) + bytes = global_start[i] + LocalOffset
                 /\ LocalOffset \in Nat /\ OverlapLength(len) \in Nat
                 /\ LocalOffset + OverlapLength(len) <= length[i]
                 /\ Passed(i + 1, len) = bytes + OverlapLength(len)
                 /\ bytes + OverlapLength(len) <= len
                 /\ len > 0 /\ bytes + OverlapLength(len) = len => PieceEnd(len) <= global_end[i]
<1>1. /\ i \in Nat \ {0} /\ global_start[i] \in Nat /\ global_end[i] \in Nat /\ length[i] \in Nat
      /\ PieceStart(piece) \in Nat /\ offset \in Nat
  <2>1. TypeOK
    BY DEF IInv
  <2>2. i \in Nat \ {0}
    BY FileSaverAssumption DEF Files
  <2>3. global_start[i] \in Nat /\ global_end[i] \in Nat /\ offset \in Nat
    BY <2>1 DEF TypeOK
  <2>4. length[i] \in Nat
    BY <2>1, FileSaverAssumption DEF TypeOK
  <2>5. PieceStart(piece) \in Nat
    BY <2>1, PieceStartType DEF TypeOK
  <2>. QED
    BY <2>2, <2>3, <2>4, <2>5
<1>2. global_end[i] = global_start[i] + length[i]
  BY DEF IInv, LayoutInv, Laid, Files
<1>3. FileStart(i) = global_start[i]
  BY <1>1, FileSaverAssumption DEF FileStart, Files
<1>4. FileStart(i + 1) = global_end[i]
  <2>1. CASE i = NumFiles
    BY <2>1 DEF FileStart, SpreadInv
  <2>2. CASE i # NumFiles
    <3>1. i \in 1 .. NumFiles - 1
      BY <1>1, <2>2, FileSaverAssumption DEF Files
    <3>. QED
      BY <1>1, <2>2, <3>1, FileSaverAssumption DEF FileStart, IInv, LayoutInv, Laid
  <2>. QED
    BY <2>1, <2>2
<1>. DEFINE start == PieceStart(piece)
            first == global_start[i]
            last  == global_end[i]
<1>5. /\ bytes = Greater(Smaller(first, start + len) - start, 0)
      /\ Passed(i + 1, len) = Greater(Smaller(last, start + len) - start, 0)
      /\ LocalOffset = Greater(start, first) - first
      /\ OverlapLength(len) = Smaller(start + len, last) - Greater(start, first)
      /\ Skipped(len) <=> start + len <= first \/ start >= last
  BY <1>3, <1>4 DEF Passed, PieceEnd, LocalOffset, OverlapStart, OverlapLength, OverlapEnd, Skipped
<1>6. /\ first \in Nat /\ last \in Nat /\ start \in Nat /\ length[i] \in Nat
      /\ last = first + length[i]
  BY <1>1, <1>2
<1>. HIDE DEF start, first, last
<1>7. bytes \in Nat /\ LocalOffset \in Int
  BY <1>5, <1>6 DEF Smaller, Greater
<1>8. Skipped(len) => Passed(i + 1, len) = bytes
  BY <1>5, <1>6 DEF Smaller, Greater
<1>9. ASSUME ~Skipped(len)
      PROVE  /\ start + bytes = first + LocalOffset
             /\ LocalOffset \in Nat /\ OverlapLength(len) \in Nat
             /\ LocalOffset + OverlapLength(len) <= length[i]
  BY <1>5, <1>6, <1>9 DEF Smaller, Greater
<1>10. ASSUME ~Skipped(len)
       PROVE  /\ Passed(i + 1, len) = bytes + OverlapLength(len)
              /\ bytes + OverlapLength(len) <= len
              /\ len > 0 /\ bytes + OverlapLength(len) = len => start + len <= last
  BY <1>5, <1>6, <1>10 DEF Smaller, Greater
<1>. QED
  BY <1>7, <1>8, <1>9, <1>10 DEF start, first, last, PieceEnd

------------------------------------------------------------------------------
(* The ranges *)

\* The ranges stay apart: a new one begins where all the others have ended.
LEMMA FillSpread == ASSUME IInv, SpreadInv, FillEntry PROVE SpreadInv'
<1>1. /\ i \in Files /\ i \in Nat \ {0} /\ length[i] \in Nat /\ offset \in Nat
      /\ pc' = "fill" /\ Laid = i - 1 /\ Laid' = i /\ offset' = offset + length[i]
  BY FileSaverAssumption DEF FillEntry, IInv, TypeOK, Files, Laid
<1>2. /\ global_start'[i] = offset /\ global_end'[i] = offset'
      /\ \A f \in 1 .. i - 1 : /\ global_start'[f] = global_start[f]
                               /\ global_end'[f] = global_end[f]
                               /\ global_end[f] \in Nat /\ global_end[f] <= offset
  <2>1. global_start \in [Files -> Nat] /\ global_end \in [Files -> Nat]
    BY DEF IInv, TypeOK
  <2>2. \A f \in 1 .. i - 1 : f \in Files /\ f # i
    BY <1>1, FileSaverAssumption DEF Files
  <2>3. /\ global_start'[i] = offset /\ global_end'[i] = offset + length[i]
        /\ \A f \in Files \ {i} : /\ global_start'[f] = global_start[f]
                                 /\ global_end'[f] = global_end[f]
    BY <1>1, <2>1 DEF FillEntry
  <2>. QED
    BY <1>1, <2>1, <2>2, <2>3 DEF SpreadInv
<1>3. \A f \in 1 .. i : global_end'[f] <= offset'
  BY <1>1, <1>2
<1>4. ASSUME NEW f \in 1 .. i, NEW h \in 1 .. i, f < h PROVE global_end'[f] <= global_start'[h]
  <2>1. f \in 1 .. i - 1
    BY <1>1, <1>4
  <2>2. CASE h = i
    BY <1>2, <2>1, <2>2
  <2>3. CASE h # i
    <3>1. h \in 1 .. i - 1
      BY <1>1, <2>3
    <3>. QED
      BY <1>1, <1>2, <1>4, <2>1, <3>1 DEF SpreadInv
  <2>. QED
    BY <2>2, <2>3
<1>. QED
  BY <1>1, <1>3, <1>4 DEF SpreadInv

LEMMA SpreadKept == ASSUME IInv, SpreadInv, [Next]_vars PROVE SpreadInv'
<1>1. CASE FillEntry
  BY <1>1, FillSpread
<1>2. CASE Filled
  <2>1. Laid = NumFiles /\ Laid' = NumFiles /\ UNCHANGED <<global_start, global_end, offset>>
    BY <1>2, FileSaverAssumption DEF Filled, Laid, layout
  <2>2. offset = global_end[NumFiles]
    BY <1>2, FileSaverAssumption DEF Filled, IInv, LayoutInv
  <2>. QED
    BY <2>1, <2>2 DEF SpreadInv
<1>3. CASE Restart
  BY <1>3 DEF Restart, SpreadInv, Laid
<1>4. CASE /\ UNCHANGED <<global_start, global_end, offset>>
           /\ \/ pc # "fill" /\ pc' # "fill"
              \/ UNCHANGED <<pc, i>>
  <2>1. Laid' = Laid /\ (pc' # "fill" => pc # "fill")
    BY <1>4 DEF Laid
  <2>. QED
    BY <1>4, <2>1 DEF SpreadInv
<1>5. CASE UNCHANGED vars
  BY <1>4, <1>5 DEF vars, layout
<1>6. CASE VerificationDone \/ ReadSkipped \/ ReadMissing \/ ReadFile
  <2>1. pc = "verify" /\ pc' # "fill" /\ UNCHANGED layout
    BY <1>6 DEF VerificationDone, ReadSkipped, ReadMissing, ReadFile, Reading, Return
  <2>. QED
    BY <1>4, <2>1 DEF layout
<1>7. CASE \E p \in 0 .. TotalPieces - 1 : StartWrite(p)
  BY <1>4, <1>7 DEF StartWrite, layout
<1>8. CASE WriteSkipped \/ WriteFile \/ WriteFileBadly \/ CannotOpen
  <2>1. pc = "write" /\ pc' # "fill" /\ UNCHANGED layout
    BY <1>8 DEF WriteSkipped, WriteFile, WriteFileBadly, CannotOpen, Advance
  <2>. QED
    BY <1>4, <2>1 DEF layout
<1>. QED
  BY <1>1, <1>2, <1>3, <1>5, <1>6, <1>7, <1>8 DEF Next

------------------------------------------------------------------------------
(* Writes *)

\* What is on disk stays there when a file is written.
LEMMA HeldAfterWrite ==
    ASSUME IInv, SpreadInv, WriteFile, NEW g \in Nat, Held(g, g)
    PROVE  Held(g, g)'
<1>1. PICK f \in Files : /\ global_start[f] <= g /\ g < global_end[f]
                         /\ g - global_start[f] < size[f]
                         /\ content[f][g - global_start[f]] = g
  BY DEF Held
<1>2. /\ pc = "write" /\ i \in Files /\ ~Skipped(PieceLength) /\ UNCHANGED layout
      /\ Put(OverlapLength(PieceLength), Greater(size[i], 0))
      /\ PieceStart(piece) + bytes = global_start[i] + LocalOffset
      /\ LocalOffset \in Nat /\ OverlapLength(PieceLength) \in Nat
  BY Counted, Overlap, FileSaverAssumption DEF WriteFile, Advance, IInv
<1>3. /\ g - global_start[f] \in Offsets /\ global_start[f] \in Nat
      /\ content \in [Files -> [Offsets -> Nat \cup {Other}]]
      /\ size \in [Files -> {Absent} \cup 0 .. MaxLength]
  <2>1. global_start[f] \in Nat /\ size[f] \in {Absent} \cup 0 .. MaxLength
    BY DEF IInv, TypeOK
  <2>. QED
    BY <1>1, <2>1, FileSaverAssumption DEF IInv, TypeOK, Offsets, Absent
<1>4. CASE f # i
  <2>1. content'[f] = content[f] /\ size'[f] = size[f]
    BY <1>2, <1>3, <1>4 DEF Put
  <2>. QED
    BY <1>1, <1>2, <2>1 DEF Held, layout
<1>5. CASE f = i
  <2>. DEFINE o == g - global_start[i]
  <2>1. o \in Offsets /\ o \in Nat /\ o < size[i] /\ content[i][o] = g
    BY <1>1, <1>3, <1>5 DEF Offsets
  <2>2. size[i] \in Nat /\ o < Greater(size[i], 0)
    BY <1>2, <1>3, <2>1 DEF Greater, Absent
  <2>3. content'[i][o] = IF LocalOffset <= o /\ o < LocalOffset + OverlapLength(PieceLength)
                         THEN PieceStart(piece) + bytes + (o - LocalOffset)
                         ELSE IF o < Greater(size[i], 0) THEN content[i][o] ELSE Other
    BY <1>2, <1>3, <2>1 DEF Put
  <2>4. PieceStart(piece) + bytes + (o - LocalOffset) = g
    <3>1. PieceStart(piece) \in Nat /\ bytes \in Nat /\ global_start[i] \in Nat
      BY <1>2, PieceStartType DEF IInv, TypeOK
    <3>. QED
      BY <1>2, <3>1
  <2>5. content'[i][o] = g
    BY <2>1, <2>2, <2>3, <2>4
  <2>6. o < size'[i]
    <3>1. size'[i] = IF OverlapLength(PieceLength) = 0 THEN Greater(size[i], 0)
                     ELSE Greater(Greater(size[i], 0), LocalOffset + OverlapLength(PieceLength))
      BY <1>2, <1>3 DEF Put
    <3>. QED
      BY <1>2, <2>1, <2>2, <3>1 DEF Greater
  <2>. QED
    BY <1>1, <1>2, <1>5, <2>5, <2>6 DEF Held, layout
<1>. QED
  BY <1>4, <1>5

\* The part of the piece that lies in the file is there afterwards.
LEMMA HeldByWrite ==
    ASSUME IInv, SpreadInv, WriteFile, NEW k \in Nat, bytes <= k, k < Written
    PROVE  Held(PieceStart(piece) + k, PieceStart(piece) + k)'
<1>. DEFINE g == PieceStart(piece) + k
            o == g - global_start[i]
<1>1. /\ pc = "write" /\ i \in Files /\ ~Skipped(PieceLength) /\ UNCHANGED layout
      /\ piece' = piece
      /\ Put(OverlapLength(PieceLength), Greater(size[i], 0))
      /\ PieceStart(piece) + bytes = global_start[i] + LocalOffset
      /\ LocalOffset \in Nat /\ OverlapLength(PieceLength) \in Nat
      /\ LocalOffset + OverlapLength(PieceLength) <= length[i]
  BY Counted, Overlap, FileSaverAssumption DEF WriteFile, Advance, IInv
<1>2. /\ PieceStart(piece) \in Nat /\ bytes \in Nat /\ global_start[i] \in Nat
      /\ length[i] \in 0 .. MaxLength
      /\ global_end[i] = global_start[i] + length[i]
      /\ size[i] \in {Absent} \cup 0 .. MaxLength
  BY <1>1, PieceStartType DEF IInv, TypeOK, LayoutInv, Laid, Files
<1>3. k < bytes + OverlapLength(PieceLength)
  BY DEF Written
<1>4. /\ o = LocalOffset + (k - bytes) /\ o \in Nat
      /\ LocalOffset <= o /\ o < LocalOffset + OverlapLength(PieceLength)
      /\ g = global_start[i] + o /\ o < length[i]
  BY <1>1, <1>2, <1>3
<1>5. o \in Offsets
  BY <1>2, <1>4, FileSaverAssumption DEF Offsets
<1>6. PieceStart(piece) + bytes + (o - LocalOffset) = g
  BY <1>1, <1>2, <1>4
<1>. HIDE DEF o, g
<1>7. content'[i][o] = g
  <2>1. content'[i] = [x \in Offsets |-> IF LocalOffset <= x /\ x < LocalOffset + OverlapLength(PieceLength)
                         THEN PieceStart(piece) + bytes + (x - LocalOffset)
                         ELSE IF x < Greater(size[i], 0) THEN content[i][x] ELSE Other]
    BY <1>1 DEF Put, IInv, TypeOK
  <2>. QED
    BY <1>4, <1>5, <1>6, <2>1
<1>8. o < size'[i]
  <2>1. size'[i] = IF OverlapLength(PieceLength) = 0 THEN Greater(size[i], 0)
                   ELSE Greater(Greater(size[i], 0), LocalOffset + OverlapLength(PieceLength))
    BY <1>1 DEF Put, IInv, TypeOK
  <2>. QED
    BY <1>1, <1>2, <1>4, <2>1 DEF Greater, Absent
<1>9. /\ global_start'[i] <= g /\ g < global_end'[i] /\ g - global_start'[i] = o
  BY <1>1, <1>2, <1>4 DEF layout
<1>10. PICK byte : byte = g
  OBVIOUS
<1>11. Held(byte, byte)'
  BY <1>1, <1>7, <1>8, <1>9, <1>10 DEF Held
<1>. QED
  BY <1>1, <1>10, <1>11 DEF g, PieceStart

\* Nothing but a write without a fault changes the disk before the next start,
\* or there is a fault.
LEMMA HeldAfterLoop ==
    ASSUME IInv, SpreadInv, WriteSkipped \/ WriteFile \/ WriteFileBadly \/ CannotOpen, ~faulty',
           NEW g \in Nat, Held(g, g)
    PROVE  Held(g, g)'
<1>1. CASE WriteFile
  BY <1>1, HeldAfterWrite
<1>2. CASE WriteSkipped \/ CannotOpen
  BY <1>2 DEF WriteSkipped, CannotOpen, Advance, Held, disk, layout
<1>. QED
  BY <1>1, <1>2 DEF WriteFileBadly

\* The loop goes on with all that it has counted on disk.
LEMMA LoopHolds ==
    ASSUME IInv, SpreadInv, PathInv, WroteInv,
           WriteSkipped \/ WriteFile \/ WriteFileBadly \/ CannotOpen, ~faulty'
    PROVE  \E w \in Nat :
              /\ Advance(w) /\ w = Passed(i + 1, PieceLength)
              /\ \A k \in 0 .. w - 1 : Held(PieceStart(piece) + k, PieceStart(piece) + k)'
<1>1. /\ pc = "write" /\ i \in Files /\ bytes \in Nat /\ bytes = Passed(i, PieceLength)
      /\ PieceStart(piece) \in Nat /\ PieceLength \in Nat /\ piece' = piece
  <2>1. pc = "write" /\ piece' = piece
    BY DEF WriteSkipped, WriteFile, WriteFileBadly, CannotOpen, Advance
  <2>2. i \in Files /\ bytes \in Nat /\ bytes = Before(i)
    BY <2>1, Counted DEF IInv, WriteInv
  <2>3. Before(i) = Passed(i, PieceLength)
    BY <2>2, FileSaverAssumption DEF Before, Passed, FileStart, Files
  <2>. QED
    BY <2>1, <2>2, <2>3, PieceStartType, FileSaverAssumption DEF IInv, TypeOK
<1>2. ~faulty
  BY DEF WriteSkipped, WriteFile, WriteFileBadly, CannotOpen
<1>3. ASSUME NEW k \in 0 .. bytes - 1
      PROVE  Held(PieceStart(piece) + k, PieceStart(piece) + k)'
  <2>1. Held(PieceStart(piece) + k, PieceStart(piece) + k)
    BY <1>1, <1>2 DEF WroteInv
  <2>2. PICK g \in Nat : g = PieceStart(piece) + k
    BY <1>1
  <2>3. Held(g, g)'
    BY <2>1, <2>2, HeldAfterLoop
  <2>. QED
    BY <1>1, <2>2, <2>3 DEF PieceStart
<1>4. CASE WriteSkipped
  <2>1. Advance(bytes) /\ bytes = Passed(i + 1, PieceLength)
    BY <1>1, <1>4, PassedNext DEF WriteSkipped
  <2>. QED
    BY <1>1, <1>3, <2>1
<1>5. CASE WriteFile \/ CannotOpen
  <2>1. /\ ~Skipped(PieceLength) /\ Advance(Written)
        /\ Written = bytes + OverlapLength(PieceLength) /\ OverlapLength(PieceLength) \in Nat
        /\ Written = Passed(i + 1, PieceLength) /\ Written \in Nat
    BY <1>1, <1>5, PassedNext DEF WriteFile, CannotOpen, Written
  <2>2. CannotOpen => Written = bytes
    <3>1. ASSUME CannotOpen PROVE length[i] = 0
      <4>1. ~has_path[i]
        BY <1>1, <3>1 DEF CannotOpen, IInv, TypeOK
      <4>. QED
        BY <1>1, <4>1 DEF PathInv
    <3>2. OverlapLength(PieceLength) <= length[i] /\ LocalOffset \in Nat /\ length[i] \in Nat
      BY <1>1, <2>1, PassedNext DEF IInv, TypeOK
    <3>. QED
      BY <1>1, <2>1, <3>1, <3>2
  <2>3. ASSUME NEW k \in 0 .. Written - 1
        PROVE  Held(PieceStart(piece) + k, PieceStart(piece) + k)'
    <3>1. k \in Nat /\ k < Written
      BY <2>1
    <3>2. CASE k < bytes
      BY <1>1, <1>3, <3>1, <3>2
    <3>3. CASE bytes <= k
      BY <1>5, <2>2, <3>1, <3>3, HeldByWrite, <1>1, <2>1
    <3>. QED
      BY <1>1, <3>1, <3>2, <3>3
  <2>. QED
    BY <2>1, <2>3
<1>. QED
  BY <1>4, <1>5 DEF WriteFileBadly

\* OnDisk speaks of the bytes that Held does.
LEMMA OnDiskHeld ==
    ASSUME IInv, NEW p \in Nat, p < TotalPieces
    PROVE  PieceOnDisk(p) <=>
              \A k \in 0 .. CurrentPieceSize(p) - 1 : Held(PieceStart(p) + k, PieceStart(p) + k)
<1>1. PieceStart(p) \in Nat /\ CurrentPieceSize(p) \in Nat
  BY PieceBounds DEF IInv
<1>2. PieceOnDisk(p) <=>
         \A g \in PieceStart(p) .. PieceStart(p) + CurrentPieceSize(p) - 1 : Held(g, g)
  BY <1>1 DEF PieceOnDisk, OnDisk, Held
<1>3. ASSUME PieceOnDisk(p), NEW k \in 0 .. CurrentPieceSize(p) - 1
      PROVE  Held(PieceStart(p) + k, PieceStart(p) + k)
  <2>1. PieceStart(p) + k \in PieceStart(p) .. PieceStart(p) + CurrentPieceSize(p) - 1
    BY <1>1, <1>3
  <2>. QED
    BY <1>2, <1>3, <2>1
<1>4. ASSUME \A k \in 0 .. CurrentPieceSize(p) - 1 : Held(PieceStart(p) + k, PieceStart(p) + k),
             NEW g \in PieceStart(p) .. PieceStart(p) + CurrentPieceSize(p) - 1
      PROVE  Held(g, g)
  <2>1. g - PieceStart(p) \in 0 .. CurrentPieceSize(p) - 1 /\ PieceStart(p) + (g - PieceStart(p)) = g
    BY <1>1, <1>4
  <2>. QED
    BY <1>4, <2>1
<1>. QED
  BY <1>2, <1>3, <1>4

\* Where pieces are and how many there are does not change after the layout.
LEMMA SamePieces ==
    ASSUME UNCHANGED layout, NEW p
    PROVE  /\ TotalPieces' = TotalPieces
           /\ PieceStart(p)' = PieceStart(p)
           /\ CurrentPieceSize(p)' = CurrentPieceSize(p)
BY DEF layout, TotalPieces, SizeBytes, PieceStart, CurrentPieceSize

\* What brings a piece to the disk in the next state.
LEMMA OnDiskNext ==
    ASSUME IInv, UNCHANGED layout, NEW p \in Nat, p < TotalPieces,
           \A k \in 0 .. CurrentPieceSize(p) - 1 : Held(PieceStart(p) + k, PieceStart(p) + k)'
    PROVE  PieceOnDisk(p)'
<1>1. /\ PieceStart(p) \in Nat /\ CurrentPieceSize(p) \in Nat
      /\ PieceStart(p)' = PieceStart(p) /\ CurrentPieceSize(p)' = CurrentPieceSize(p)
  BY PieceBounds, SamePieces DEF IInv
<1>2. ASSUME NEW g \in PieceStart(p) .. PieceStart(p) + CurrentPieceSize(p) - 1
      PROVE  Held(g, g)'
  <2>1. PICK k \in 0 .. CurrentPieceSize(p) - 1 : PieceStart(p) + k = g
    <3>1. g - PieceStart(p) \in 0 .. CurrentPieceSize(p) - 1
          /\ PieceStart(p) + (g - PieceStart(p)) = g
      BY <1>1, <1>2
    <3>. QED
      BY <3>1
  <2>2. Held(PieceStart(p) + k, PieceStart(p) + k)'
    OBVIOUS
  <2>. QED
    BY <1>1, <2>1, <2>2 DEF Held
<1>3. PieceOnDisk(p)' <=>
         \A g \in PieceStart(p) .. PieceStart(p) + CurrentPieceSize(p) - 1 : Held(g, g)'
  BY <1>1 DEF PieceOnDisk, OnDisk, Held
<1>. QED
  BY <1>2, <1>3

\* A write adds its piece to the disk before it is done.
LEMMA WriteKeepsDisk ==
    ASSUME IInv, IInv', DInv, WriteSkipped \/ WriteFile \/ WriteFileBadly \/ CannotOpen
    PROVE  PieceInv' /\ WroteInv' /\ DoneIsOnDisk'
<1>1. /\ pc = "write" /\ piece' = piece /\ UNCHANGED layout
      /\ \/ done' = done \cup {piece} /\ pc' = "swarm"
         \/ done' = done /\ pc' = "write"
      /\ piece \in Nat /\ piece < TotalPieces /\ TotalPieces \in Int
      /\ done \subseteq 0 .. TotalPieces - 1
  <2>1. pc = "write" /\ \E w : Advance(w)
    BY DEF WriteSkipped, WriteFile, WriteFileBadly, CannotOpen
  <2>2. /\ piece' = piece /\ UNCHANGED layout
        /\ \/ done' = done \cup {piece} /\ pc' = "swarm"
           \/ done' = done /\ pc' = "write"
    BY <2>1 DEF Advance
  <2>3. piece \in Nat /\ TotalPieces \in Int
    BY PieceSizeType DEF IInv, TypeOK
  <2>. QED
    BY <2>1, <2>2, <2>3 DEF DInv, PieceInv
<1>2. PieceInv'
  <2>1. TotalPieces' = TotalPieces
    BY <1>1, SamePieces
  <2>2. piece \in 0 .. TotalPieces - 1
    BY <1>1
  <2>3. done' \subseteq 0 .. TotalPieces - 1
    BY <1>1, <2>2
  <2>. QED
    BY <1>1, <2>1, <2>3 DEF PieceInv
<1>3. CASE faulty'
  BY <1>2, <1>3 DEF WroteInv, DoneIsOnDisk
<1>4. CASE ~faulty'
  <2>1. PICK w \in Nat :
              /\ Advance(w) /\ w = Passed(i + 1, PieceLength)
              /\ \A k \in 0 .. w - 1 : Held(PieceStart(piece) + k, PieceStart(piece) + k)'
    BY <1>4, LoopHolds DEF DInv
  <2>2. /\ bytes' = w
        /\ pc' = "swarm" => w >= PieceLength \/ i = NumFiles
    BY <1>1, <2>1 DEF Advance, WriteEnds
  <2>3. WroteInv'
    BY <1>1, <2>1, <2>2 DEF WroteInv, PieceStart
  <2>4. ASSUME NEW p \in done, NEW k \in 0 .. CurrentPieceSize(p) - 1
        PROVE  Held(PieceStart(p) + k, PieceStart(p) + k)'
    <3>0. ~faulty
      BY <1>4 DEF WriteSkipped, WriteFile, WriteFileBadly, CannotOpen
    <3>1. p \in Nat /\ p < TotalPieces /\ ~faulty
      BY <1>1, <3>0
    <3>2. PieceOnDisk(p)
      BY <1>1, <3>1 DEF DInv, DoneIsOnDisk
    <3>3. PICK g \in Nat : g = PieceStart(p) + k
      BY <3>1, PieceStartType
    <3>4. Held(g, g)
      BY <3>1, <3>2, <3>3, OnDiskHeld
    <3>5. Held(g, g)'
      BY <1>4, <3>4, HeldAfterLoop DEF DInv
    <3>6. g = (PieceStart(p) + k)'
      BY <3>3 DEF PieceStart
    <3>. QED
      BY <3>5, <3>3, <3>6 DEF PieceStart
  <2>5. ASSUME pc' = "swarm", NEW k \in 0 .. CurrentPieceSize(piece) - 1
        PROVE  Held(PieceStart(piece) + k, PieceStart(piece) + k)'
    <3>1. /\ CurrentPieceSize(piece) \in Nat /\ CurrentPieceSize(piece) <= PieceLength
          /\ PieceStart(piece) \in Nat /\ PieceStart(piece) + CurrentPieceSize(piece) <= offset
          /\ offset \in Nat /\ PieceLength \in Nat
      BY <1>1, PieceBounds, FileSaverAssumption DEF IInv, TypeOK
    <3>2. CASE w >= PieceLength
      BY <2>1, <3>1, <3>2
    <3>3. CASE i = NumFiles
      <4>1. w = Greater(Smaller(offset, PieceStart(piece) + PieceLength) - PieceStart(piece), 0)
        BY <2>1, <3>3 DEF Passed, FileStart, PieceEnd
      <4>2. w >= CurrentPieceSize(piece)
        BY <3>1, <4>1 DEF Smaller, Greater
      <4>. QED
        BY <2>1, <3>1, <4>2
    <3>. QED
      BY <2>2, <2>5, <3>2, <3>3
  <2>6. ASSUME NEW p \in done' PROVE PieceOnDisk(p)'
    <3>1. p \in Nat /\ p < TotalPieces
      <4>1. TotalPieces' = TotalPieces
        BY <1>1, SamePieces
      <4>. QED
        BY <1>1, <1>2, <4>1 DEF PieceInv
    <3>2. CASE p \in done
      BY <1>1, <2>4, <3>1, <3>2, OnDiskNext
    <3>3. CASE p = piece /\ pc' = "swarm"
      BY <1>1, <2>5, <3>1, <3>3, OnDiskNext
    <3>. QED
      BY <1>1, <3>2, <3>3
  <2>. QED
    BY <1>2, <2>3, <2>6 DEF DoneIsOnDisk
<1>. QED
  BY <1>3, <1>4

------------------------------------------------------------------------------
(* Reads *)

\* A byte that is on disk is there once.
LEMMA HeldOnce ==
    ASSUME IInv, SpreadInv, pc # "fill", NEW g \in Nat, NEW a, NEW b, Held(g, a), Held(g, b)
    PROVE  a = b
<1>1. PICK f \in Files : /\ global_start[f] <= g /\ g < global_end[f]
                         /\ content[f][g - global_start[f]] = a
  BY DEF Held
<1>2. PICK h \in Files : /\ global_start[h] <= g /\ g < global_end[h]
                         /\ content[h][g - global_start[h]] = b
  BY DEF Held
<1>3. f = h
  BY <1>1, <1>2, OneFile
<1>. QED
  BY <1>1, <1>2, <1>3

LEMMA HeldSame ==
    ASSUME UNCHANGED <<layout, disk>>, NEW g, NEW b
    PROVE  Held(g, b)' <=> Held(g, b)
BY DEF Held, layout, disk

\* A loop that begins has passed nothing.
LEMMA PassedFirst ==
    ASSUME global_start'[1] = 0, offset' \in Nat, piece' \in Nat
    PROVE  Passed(1, CurrentPieceSize(piece))' = 0
<1>1. FileStart(1)' = 0
  BY FileSaverAssumption DEF FileStart
<1>2. PieceStart(piece)' \in Nat
  <2>1. PICK n \in Nat : n = piece'
    OBVIOUS
  <2>2. PieceStart(piece)' = PieceStart(n)
    BY <2>1 DEF PieceStart
  <2>. QED
    BY <2>1, <2>2, PieceStartType
<1>3. CurrentPieceSize(piece)' \in Int
  <2>1. ASSUME NEW n \in Nat PROVE n % PieceLength \in Int
    BY FileSaverAssumption
  <2>2. CurrentPieceSize(piece)' \in {SizeBytes' % PieceLength, PieceLength}
    BY DEF CurrentPieceSize
  <2>. QED
    BY <2>1, <2>2, FileSaverAssumption DEF SizeBytes
<1>. QED
  BY <1>1, <1>2, <1>3 DEF Passed, PieceEnd, Smaller, Greater

\* A piece that was read to its end is what the disk holds, and its hash tells.
LEMMA WholeRead ==
    ASSUME IInv, DInv, Reading, NEW read,
           \A k \in 0 .. CurrentPieceSize(piece) - 1 : Held(PieceStart(piece) + k, read[k]),
           \A f \in Files : Inside(f, CurrentPieceSize(piece)) => size[f] # Absent
    PROVE  Matches(read) <=> (PieceOnDisk(piece) /\ FilesThere(piece))
<1>1. /\ piece \in Nat /\ piece < TotalPieces /\ pc # "fill"
      /\ PieceStart(piece) \in Nat /\ CurrentPieceSize(piece) \in Nat
  <2>1. piece \in Nat /\ piece < TotalPieces /\ pc # "fill"
    BY DEF Reading, IInv, TypeOK
  <2>. QED
    BY <2>1, PieceBounds DEF IInv
<1>2. FilesThere(piece)
  BY DEF FilesThere, Inside, PieceEnd
<1>3. ASSUME Matches(read) PROVE PieceOnDisk(piece)
  <2>1. ASSUME NEW k \in 0 .. CurrentPieceSize(piece) - 1
        PROVE  Held(PieceStart(piece) + k, PieceStart(piece) + k)
    <3>1. read[k] = PieceStart(piece) + k
      BY <1>3 DEF Matches
    <3>. QED
      BY <3>1
  <2>. QED
    BY <1>1, <2>1, OnDiskHeld
<1>4. ASSUME PieceOnDisk(piece), NEW k \in 0 .. CurrentPieceSize(piece) - 1
      PROVE  read[k] = PieceStart(piece) + k
  <2>1. Held(PieceStart(piece) + k, PieceStart(piece) + k)
    BY <1>1, <1>4, OnDiskHeld
  <2>2. PieceStart(piece) + k \in Nat
    BY <1>1
  <2>. QED
    BY <1>1, <2>1, <2>2, HeldOnce DEF DInv
<1>. QED
  BY <1>2, <1>3, <1>4 DEF Matches

\* After the read of a piece, rightly judged, the next one begins.
LEMMA Returned ==
    ASSUME IInv, DInv, Reading, UNCHANGED <<layout, disk, pc>>,
           NEW ok \in BOOLEAN, NEW read, Return(ok, read),
           (ok /\ Matches(read)) <=> (PieceOnDisk(piece) /\ FilesThere(piece))
    PROVE  PieceInv' /\ ReadInv' /\ VerifiedExactly'
<1>1. /\ piece \in Nat /\ piece < TotalPieces /\ TotalPieces \in Int /\ pc = "verify" /\ pc' = "verify"
      /\ piece' = piece + 1 /\ i' = 1 /\ bytes' = 0
      /\ done' = IF ok /\ Matches(read) THEN done \cup {piece} ELSE done
      /\ done \subseteq 0 .. piece - 1
  <2>1. piece \in Nat /\ piece < TotalPieces /\ pc = "verify" /\ TotalPieces \in Int
    BY PieceSizeType DEF Reading, IInv, TypeOK
  <2>. QED
    BY <2>1 DEF Return, DInv, PieceInv
<1>2. TotalPieces' = TotalPieces
  BY SamePieces
<1>3. PieceInv'
  <2>1. done' \subseteq 0 .. piece
    BY <1>1
  <2>2. piece' - 1 = piece /\ piece' <= TotalPieces /\ 0 .. piece \subseteq 0 .. TotalPieces - 1
    BY <1>1
  <2>. QED
    BY <1>1, <1>2, <2>1, <2>2 DEF PieceInv
<1>4. ReadInv'
  <2>1. Passed(1, CurrentPieceSize(piece))' = 0
    <3>1. global_start'[1] = 0 /\ offset' \in Nat /\ piece' \in Nat
      BY <1>1, FileSaverAssumption DEF IInv, TypeOK, LayoutInv, Laid, layout
    <3>. QED
      BY <3>1, PassedFirst
  <2>. QED
    BY <1>1, <2>1 DEF ReadInv
<1>5. ASSUME NEW p \in 0 .. piece
      PROVE  p \in done' <=> PieceOnDisk(p)' /\ FilesThere(p)'
  <2>1. (PieceOnDisk(p)' <=> PieceOnDisk(p)) /\ (FilesThere(p)' <=> FilesThere(p))
    BY SamePieces DEF PieceOnDisk, OnDisk, FilesThere, layout, disk
  <2>2. CASE p = piece
    <3>1. p \notin done
      BY <1>1, <2>2
    <3>. QED
      BY <1>1, <2>1, <2>2, <3>1
  <2>3. CASE p # piece
    <3>1. p \in 0 .. piece - 1
      BY <1>1, <2>3
    <3>2. p \in done <=> PieceOnDisk(p) /\ FilesThere(p)
      BY <1>1, <3>1 DEF DInv, VerifiedExactly
    <3>3. p \in done' <=> p \in done
      BY <1>1, <2>3
    <3>. QED
      BY <2>1, <3>2, <3>3
  <2>. QED
    BY <2>2, <2>3
<1>. QED
  BY <1>1, <1>3, <1>4, <1>5 DEF VerifiedExactly

\* The loop goes on to the next file.
LEMMA ReadGoesOn ==
    ASSUME IInv, DInv, Reading, i \in Files, UNCHANGED <<layout, disk, pc, done, piece>>,
           i' = i + 1,
           bytes' = Passed(i + 1, CurrentPieceSize(piece)),
           \A k \in 0 .. bytes' - 1 : Held(PieceStart(piece) + k, buffer'[k]),
           Inside(i, CurrentPieceSize(piece)) => size[i] # Absent
    PROVE  PieceInv' /\ ReadInv' /\ VerifiedExactly'
<1>1. /\ TotalPieces' = TotalPieces /\ CurrentPieceSize(piece)' = CurrentPieceSize(piece)
      /\ PieceStart(piece)' = PieceStart(piece)
  <2>1. CurrentPieceSize(piece)' = CurrentPieceSize(piece) /\ PieceStart(piece)' = PieceStart(piece)
    BY DEF CurrentPieceSize, PieceStart, TotalPieces, SizeBytes, layout
  <2>. QED
    BY <2>1, SamePieces
<1>2. PieceInv'
  BY <1>1 DEF DInv, PieceInv, Reading
<1>3. ReadInv'
  <2>1. Passed(i, CurrentPieceSize(piece))' = Passed(i + 1, CurrentPieceSize(piece))
    BY <1>1 DEF Passed, FileStart, PieceEnd, layout
  <2>2. ASSUME NEW k \in 0 .. bytes' - 1
        PROVE  Held(PieceStart(piece) + k, buffer[k])'
    <3>1. Held(PieceStart(piece) + k, buffer'[k])
      OBVIOUS
    <3>. QED
      BY <1>1, <3>1 DEF Held, layout, disk
  <2>3. ASSUME NEW f \in 1 .. i, Inside(f, CurrentPieceSize(piece))' PROVE size'[f] # Absent
    <3>1. Inside(f, CurrentPieceSize(piece))
      BY <1>1, <2>3 DEF Inside, PieceEnd, layout
    <3>2. f = i \/ f \in 1 .. i - 1
      BY FileSaverAssumption DEF Files
    <3>. QED
      BY <3>1, <3>2 DEF DInv, ReadInv, disk
  <2>4. i' - 1 = i
    BY FileSaverAssumption DEF Files
  <2>. QED
    BY <2>1, <2>2, <2>3, <2>4 DEF ReadInv
<1>4. VerifiedExactly'
  <2>1. \A p : (PieceOnDisk(p)' <=> PieceOnDisk(p)) /\ (FilesThere(p)' <=> FilesThere(p))
    BY SamePieces DEF PieceOnDisk, OnDisk, FilesThere, layout, disk
  <2>. QED
    BY <2>1 DEF DInv, VerifiedExactly
<1>. QED
  BY <1>2, <1>3, <1>4

LEMMA SkippedKeepsDisk ==
    ASSUME IInv, DInv, ReadSkipped
    PROVE  PieceInv' /\ ReadInv' /\ VerifiedExactly'
<1>. DEFINE len == CurrentPieceSize(piece)
<1>1. /\ Reading /\ pc = "verify" /\ UNCHANGED <<layout, disk, pc>>
      /\ piece \in Nat /\ piece < TotalPieces /\ i \in 1 .. NumFiles + 1 /\ i \in Nat
      /\ bytes = Passed(i, len)
      /\ \A k \in 0 .. bytes - 1 : Held(PieceStart(piece) + k, buffer[k])
      /\ \A f \in 1 .. i - 1 : Inside(f, len) => size[f] # Absent
  BY FileSaverAssumption DEF ReadSkipped, Reading, Return, IInv, TypeOK, DInv, ReadInv
<1>2. /\ PieceStart(piece) \in Nat /\ len \in Nat \ {0} /\ offset \in Nat
      /\ PieceStart(piece) + len <= offset
  BY <1>1, PieceBounds DEF IInv, TypeOK
<1>3. CASE i > NumFiles
  <2>1. i = NumFiles + 1 /\ i - 1 = NumFiles /\ Return(bytes > 0, buffer)
    BY <1>1, <1>3, FileSaverAssumption DEF ReadSkipped
  <2>2. bytes = len
    BY <1>1, <1>2, <2>1 DEF Passed, FileStart, PieceEnd, Smaller, Greater
  <2>3. Matches(buffer) <=> (PieceOnDisk(piece) /\ FilesThere(piece))
    BY <1>1, <2>1, <2>2, WholeRead DEF Files
  <2>4. (bytes > 0) = TRUE
    BY <1>2, <2>2
  <2>. QED
    BY <1>1, <2>1, <2>3, <2>4, Returned
<1>4. CASE ~(i > NumFiles)
  <2>1. /\ i \in Files /\ Skipped(len) /\ i' = i + 1
        /\ UNCHANGED <<done, piece, bytes, buffer>>
    BY <1>1, <1>4, FileSaverAssumption DEF ReadSkipped, Files
  <2>2. bytes' = Passed(i + 1, len)
    BY <1>1, <1>2, <2>1, PassedNext DEF DInv
  <2>3. ~Inside(i, len)
    <3>1. global_start[i] \in Nat /\ global_end[i] \in Nat
      BY <2>1 DEF IInv, TypeOK
    <3>. QED
      BY <1>2, <2>1, <3>1 DEF Inside, Skipped, PieceEnd
  <2>. QED
    BY <1>1, <2>1, <2>2, <2>3, ReadGoesOn
<1>. QED
  BY <1>3, <1>4

LEMMA MissingKeepsDisk == ASSUME IInv, DInv, ReadMissing PROVE PieceInv' /\ ReadInv' /\ VerifiedExactly'
<1>. DEFINE len == CurrentPieceSize(piece)
<1>1. /\ Reading /\ UNCHANGED <<layout, disk, pc>> /\ i \in Files
      /\ ~Skipped(len) /\ size[i] = Absent /\ Return(FALSE, buffer)
  BY FileSaverAssumption DEF ReadMissing, Return, IInv, TypeOK, Files
<1>2. Inside(i, len)
  <2>1. /\ global_start[i] \in Nat /\ global_end[i] \in Nat /\ PieceStart(piece) \in Nat
        /\ len \in Nat
    BY <1>1, PieceStartType, PieceSizeType DEF IInv, TypeOK
  <2>. QED
    BY <1>1, <2>1 DEF Inside, Skipped, PieceEnd
<1>3. ~FilesThere(piece)
  BY <1>1, <1>2 DEF FilesThere, Inside, PieceEnd
<1>. QED
  BY <1>1, <1>3, Returned

LEMMA FileKeepsDisk == ASSUME IInv, DInv, ReadFile PROVE PieceInv' /\ ReadInv' /\ VerifiedExactly'
<1>. DEFINE len    == CurrentPieceSize(piece)
            wanted == OverlapLength(len)
            actual == Smaller(wanted, Greater(size[i] - LocalOffset, 0))
            read   == [k \in Places |-> IF bytes <= k /\ k < bytes + actual
                                        THEN content[i][LocalOffset + (k - bytes)]
                                        ELSE buffer[k]]
<1>1. /\ Reading /\ pc # "fill" /\ UNCHANGED <<layout, disk, pc>> /\ i \in Files /\ i \in Nat
      /\ ~Skipped(len) /\ size[i] \in Nat /\ size[i] # Absent
      /\ piece \in Nat /\ piece < TotalPieces
      /\ bytes = Passed(i, len)
      /\ \A k \in 0 .. bytes - 1 : Held(PieceStart(piece) + k, buffer[k])
      /\ \A f \in 1 .. i - 1 : Inside(f, len) => size[f] # Absent
  <2>1. /\ Reading /\ i \in Files /\ i \in Nat /\ ~Skipped(len) /\ size[i] # Absent
        /\ UNCHANGED <<layout, disk, pc>>
    BY FileSaverAssumption DEF ReadFile, Return, IInv, TypeOK, Files
  <2>2. size[i] \in Nat
    BY <2>1, FileSaverAssumption DEF IInv, TypeOK
  <2>3. pc # "fill" /\ piece \in Nat /\ piece < TotalPieces
    BY <2>1 DEF Reading, IInv, TypeOK
  <2>. QED
    BY <2>1, <2>2, <2>3 DEF DInv, ReadInv
<1>2. /\ PieceStart(piece) \in Nat /\ len \in Nat \ {0} /\ len <= PieceLength
      /\ PieceLength \in Nat
  BY <1>1, PieceBounds, FileSaverAssumption DEF IInv
<1>3. /\ bytes \in Nat
      /\ PieceStart(piece) + bytes = global_start[i] + LocalOffset
      /\ LocalOffset \in Nat /\ wanted \in Nat
      /\ LocalOffset + wanted <= length[i]
      /\ Passed(i + 1, len) = bytes + wanted
      /\ bytes + wanted <= len
      /\ bytes + wanted = len => PieceEnd(len) <= global_end[i]
  BY <1>1, <1>2, PassedNext DEF DInv
<1>4. /\ global_start[i] \in Nat /\ length[i] \in Nat
      /\ global_end[i] = global_start[i] + length[i]
  BY <1>1, FileSaverAssumption DEF IInv, TypeOK, LayoutInv, Laid, Files
<1>5. /\ actual \in Nat /\ actual <= wanted
      /\ actual # wanted => actual < wanted /\ actual >= size[i] - LocalOffset
      /\ actual > 0 => LocalOffset + actual <= size[i]
  <2>. HIDE DEF wanted
  <2>. QED
    BY <1>1, <1>3 DEF Smaller, Greater
<1>6. \/ actual # wanted /\ Return(FALSE, read)
      \/ actual = wanted /\ bytes + wanted >= len /\ Return(TRUE, read)
      \/ /\ actual = wanted /\ bytes' = bytes + wanted /\ buffer' = read /\ i' = i + 1
         /\ UNCHANGED <<done, piece>>
  <2>. HIDE DEF read, actual, wanted, len
  <2>. QED
    BY DEF ReadFile, read, actual, wanted, len
<1>7. ASSUME actual # wanted PROVE ~PieceOnDisk(piece)
  <2>. DEFINE k == bytes + actual
  <2>1. /\ k \in 0 .. len - 1 /\ PieceStart(piece) + k \in Nat
        /\ PieceStart(piece) + k = global_start[i] + LocalOffset + actual
        /\ LocalOffset + actual < length[i] /\ LocalOffset + actual >= size[i]
    <3>. HIDE DEF len, actual, wanted
    <3>. QED
      BY <1>1, <1>2, <1>3, <1>4, <1>5, <1>7
  <2>2. PICK g \in Nat : g = PieceStart(piece) + k
    BY <2>1
  <2>3. /\ global_start[i] <= g /\ g < global_end[i] /\ g - global_start[i] >= size[i]
    <3>. HIDE DEF len, actual, wanted, k
    <3>. QED
      BY <1>1, <1>3, <1>4, <1>5, <2>1, <2>2
  <2>4. ASSUME Held(g, g) PROVE FALSE
    <3>1. PICK f \in Files : /\ global_start[f] <= g /\ g < global_end[f]
                             /\ g - global_start[f] < size[f]
      BY <2>4 DEF Held
    <3>2. f = i
      BY <1>1, <2>3, <3>1, OneFile DEF DInv
    <3>. QED
      BY <1>1, <1>4, <2>3, <3>1, <3>2
  <2>. QED
    <3>. HIDE DEF k, actual, wanted
    <3>. QED
      BY <1>1, <2>1, <2>2, <2>4, OnDiskHeld
<1>8. ASSUME actual = wanted, NEW k \in 0 .. bytes + wanted - 1
      PROVE  Held(PieceStart(piece) + k, read[k])
  <2>1. k \in Places /\ k \in Nat /\ k < bytes + wanted
    <3>. HIDE DEF len, actual, wanted
    <3>. QED
      BY <1>2, <1>3, <1>8 DEF Places
  <2>2. CASE k < bytes
    <3>1. read[k] = buffer[k]
      <4>. HIDE DEF actual
      <4>. QED
        BY <1>3, <2>1, <2>2
    <3>. QED
      BY <1>1, <1>3, <2>1, <2>2, <3>1
  <2>3. CASE bytes <= k
    <3>. DEFINE o == LocalOffset + (k - bytes)
    <3>1. read[k] = content[i][o]
      <4>. HIDE DEF actual
      <4>. QED
        BY <1>8, <2>1, <2>3
    <3>2. /\ o \in Nat /\ o < LocalOffset + wanted /\ actual > 0
          /\ PieceStart(piece) + k = global_start[i] + o
      <4>. HIDE DEF actual, wanted
      <4>. QED
        BY <1>2, <1>3, <1>4, <1>8, <2>1, <2>3
    <3>3. o < size[i] /\ o < length[i]
      <4>. HIDE DEF actual, wanted, o
      <4>. QED
        BY <1>1, <1>3, <1>4, <1>5, <1>8, <3>2
    <3>4. PICK g \in Nat : g = PieceStart(piece) + k
      BY <1>2, <2>1
    <3>5. /\ global_start[i] <= g /\ g < global_end[i] /\ g - global_start[i] < size[i]
          /\ g - global_start[i] = o
      <4>. HIDE DEF o
      <4>. QED
        BY <1>1, <1>4, <3>2, <3>3, <3>4
    <3>. HIDE DEF o, read
    <3>. QED
      BY <1>1, <3>1, <3>4, <3>5 DEF Held
  <2>. QED
    BY <1>3, <2>1, <2>2, <2>3
<1>. HIDE DEF read, actual, wanted, len
<1>9. CASE actual # wanted /\ Return(FALSE, read)
  BY <1>1, <1>7, <1>9, Returned
<1>10. CASE actual = wanted /\ bytes + wanted >= len /\ Return(TRUE, read)
  <2>1. bytes + wanted = len
    BY <1>2, <1>3, <1>10
  <2>2. ASSUME NEW f \in Files, Inside(f, len) PROVE size[f] # Absent
    <3>1. CASE f \in 1 .. i - 1
      BY <1>1, <2>2, <3>1
    <3>2. CASE f = i
      BY <1>1, <3>2
    <3>3. CASE i < f
      <4>1. global_end[i] <= global_start[f]
        BY <1>1, <3>3, FileSaverAssumption DEF DInv, SpreadInv, Laid, Files
      <4>2. global_start[f] \in Nat /\ global_end[i] \in Nat /\ PieceEnd(len) \in Nat
        BY <1>1, <1>2 DEF IInv, TypeOK, PieceEnd
      <4>. QED
        BY <1>3, <2>1, <2>2, <4>1, <4>2 DEF Inside
    <3>. QED
      BY <1>1, <3>1, <3>2, <3>3, FileSaverAssumption DEF Files
  <2>3. ASSUME NEW k \in 0 .. len - 1 PROVE Held(PieceStart(piece) + k, read[k])
    <3>1. k \in 0 .. bytes + wanted - 1
      BY <1>2, <1>3, <2>1
    <3>. QED
      BY <1>8, <1>10, <3>1
  <2>4. Matches(read) <=> (PieceOnDisk(piece) /\ FilesThere(piece))
    BY <1>1, <2>2, <2>3, WholeRead DEF len
  <2>. QED
    BY <1>1, <1>10, <2>4, Returned
<1>11. CASE /\ actual = wanted /\ bytes' = bytes + wanted /\ buffer' = read /\ i' = i + 1
            /\ UNCHANGED <<done, piece>>
  <2>1. bytes' = Passed(i + 1, len) /\ \A k \in 0 .. bytes' - 1 : Held(PieceStart(piece) + k, buffer'[k])
    BY <1>3, <1>8, <1>11
  <2>. QED
    BY <1>1, <1>11, <2>1, ReadGoesOn DEF len
<1>. QED
  BY <1>6, <1>9, <1>10, <1>11

------------------------------------------------------------------------------
(* What is done is on disk *)

LEMMA TotalPiecesType == ASSUME IInv' PROVE TotalPieces' \in Nat
<1>1. offset' \in Nat /\ PieceLength \in Nat \ {0}
  BY FileSaverAssumption DEF IInv, TypeOK
<1>2. ASSUME NEW size_bytes \in Nat PROVE (size_bytes + PieceLength - 1) \div PieceLength \in Nat
  BY <1>1
<1>. QED
  BY <1>1, <1>2 DEF TotalPieces, SizeBytes

\* Nothing is undone where neither the disk nor the pieces change.
LEMMA DoneSame ==
    ASSUME DoneIsOnDisk, pc # "fill", UNCHANGED <<layout, disk, done, faulty>>
    PROVE  DoneIsOnDisk'
<1>1. \A p : PieceOnDisk(p)' <=> PieceOnDisk(p)
  BY SamePieces DEF PieceOnDisk, OnDisk, layout, disk
<1>. QED
  BY <1>1 DEF DoneIsOnDisk

LEMMA InitDInv == Init => DInv
<1>. SUFFICES ASSUME Init PROVE DInv
  OBVIOUS
<1>1. /\ pc = "fill" /\ i = 1 /\ done = {} /\ piece = 0 /\ bytes = 0 /\ Laid = 0
      /\ \A f \in Files : ~has_path[f] => length[f] = 0
  BY DEF Init, Unread, Laid
<1>. QED
  BY <1>1 DEF DInv, SpreadInv, PathInv, PieceInv, WroteInv, ReadInv, Reading, VerifiedExactly,
              DoneIsOnDisk

LEMMA NextDInv == IInv /\ IInv' /\ DInv /\ [Next]_vars => DInv'
<1>. SUFFICES ASSUME IInv, IInv', DInv, [Next]_vars PROVE DInv'
  OBVIOUS
<1>1. SpreadInv'
  BY SpreadKept DEF DInv
<1>2. PathInv'
  <2>1. UNCHANGED torrent
    BY DEF Next, vars, FillEntry, Filled, ReadSkipped, ReadMissing, ReadFile, Return,
           VerificationDone, StartWrite, WriteSkipped, WriteFile, WriteFileBadly, CannotOpen,
           Advance, Restart
  <2>. QED
    BY <2>1 DEF DInv, PathInv, torrent
<1>3. CASE FillEntry \/ Restart
  <2>1. pc' = "fill" /\ done' = {} /\ piece' = 0 /\ bytes' = 0
    BY <1>3 DEF FillEntry, Restart, DInv, PieceInv
  <2>. QED
    BY <1>1, <1>2, <2>1 DEF DInv, PieceInv, WroteInv, ReadInv, Reading, VerifiedExactly, DoneIsOnDisk
<1>4. CASE Filled
  <2>1. /\ pc' = "verify" /\ piece' = 0 /\ done' = {} /\ i' = 1 /\ bytes' = 0
    BY <1>4 DEF Filled, DInv, PieceInv
  <2>2. TotalPieces' \in Nat
    BY TotalPiecesType
  <2>3. Passed(1, CurrentPieceSize(piece))' = 0
    <3>1. global_start'[1] = 0 /\ offset' \in Nat /\ piece' \in Nat
      BY <2>1, FileSaverAssumption DEF IInv, TypeOK, LayoutInv, Laid
    <3>. QED
      BY <3>1, PassedFirst
  <2>4. PieceInv'
    BY <2>1, <2>2 DEF PieceInv
  <2>5. ReadInv'
    BY <2>1, <2>3 DEF ReadInv
  <2>. QED
    BY <1>1, <1>2, <2>1, <2>4, <2>5 DEF DInv, WroteInv, VerifiedExactly, DoneIsOnDisk
<1>5. CASE ReadSkipped \/ ReadMissing \/ ReadFile
  <2>1. PieceInv' /\ ReadInv' /\ VerifiedExactly' /\ pc' = "verify"
    BY <1>5, SkippedKeepsDisk, MissingKeepsDisk, FileKeepsDisk
    DEF ReadSkipped, ReadMissing, ReadFile, Reading, Return
  <2>2. DoneIsOnDisk'
    BY <2>1 DEF PieceInv, VerifiedExactly, DoneIsOnDisk
  <2>. QED
    BY <1>1, <1>2, <2>1, <2>2 DEF DInv, WroteInv
<1>6. CASE VerificationDone
  <2>1. pc' = "swarm" /\ pc = "verify" /\ UNCHANGED <<layout, disk, done, faulty>>
    BY <1>6 DEF VerificationDone
  <2>2. PieceInv'
    BY <2>1, SamePieces DEF DInv, PieceInv
  <2>3. DoneIsOnDisk'
    BY <2>1, DoneSame DEF DInv
  <2>. QED
    BY <1>1, <1>2, <2>1, <2>2, <2>3 DEF DInv, WroteInv, ReadInv, Reading, VerifiedExactly
<1>7. ASSUME NEW p \in 0 .. TotalPieces - 1, StartWrite(p) PROVE DInv'
  <2>1. /\ pc' = "write" /\ pc = "swarm" /\ piece' = p /\ bytes' = 0
        /\ UNCHANGED <<layout, disk, done, faulty>>
    BY <1>7 DEF StartWrite
  <2>2. p < TotalPieces
    BY <1>7, PieceSizeType DEF IInv, TypeOK
  <2>3. PieceInv'
    BY <2>1, <2>2, SamePieces DEF DInv, PieceInv
  <2>4. DoneIsOnDisk'
    BY <2>1, DoneSame DEF DInv
  <2>5. WroteInv'
    BY <2>1 DEF WroteInv
  <2>. QED
    BY <1>1, <1>2, <2>1, <2>3, <2>4, <2>5 DEF DInv, ReadInv, Reading, VerifiedExactly
<1>8. CASE WriteSkipped \/ WriteFile \/ WriteFileBadly \/ CannotOpen
  <2>1. PieceInv' /\ WroteInv' /\ DoneIsOnDisk'
    BY <1>8, WriteKeepsDisk
  <2>2. pc' # "verify"
    BY <1>8 DEF WriteSkipped, WriteFile, WriteFileBadly, CannotOpen, Advance
  <2>. QED
    BY <1>1, <1>2, <2>1, <2>2 DEF DInv, ReadInv, Reading, VerifiedExactly
<1>9. CASE UNCHANGED vars
  <2>1. UNCHANGED <<has_path, length, global_start, global_end, offset, content, size, done, pc, i,
                    piece, bytes, buffer, faulty>>
    BY <1>9 DEF vars, torrent, layout, disk
  <2>2. /\ UNCHANGED <<layout, disk>> /\ TotalPieces' = TotalPieces
        /\ CurrentPieceSize(piece)' = CurrentPieceSize(piece)
        /\ PieceStart(piece)' = PieceStart(piece)
    BY <2>1 DEF layout, disk, TotalPieces, SizeBytes, CurrentPieceSize, PieceStart
  <2>3. PieceInv' /\ WroteInv'
    BY <2>1, <2>2 DEF DInv, PieceInv, WroteInv, Held
  <2>4. ReadInv'
    BY <2>1, <2>2 DEF DInv, ReadInv, Reading, Passed, FileStart, PieceEnd, Held, Inside
  <2>5. VerifiedExactly'
    <3>1. \A p : (PieceOnDisk(p)' <=> PieceOnDisk(p)) /\ (FilesThere(p)' <=> FilesThere(p))
      BY <2>2, SamePieces DEF PieceOnDisk, OnDisk, FilesThere, layout, disk
    <3>. QED
      BY <2>1, <3>1 DEF DInv, VerifiedExactly
  <2>6. DoneIsOnDisk'
    <3>1. CASE pc = "fill"
      BY <2>1, <3>1 DEF DoneIsOnDisk
    <3>2. CASE pc # "fill"
      BY <2>1, <2>2, <3>2, DoneSame DEF DInv
    <3>. QED
      BY <3>1, <3>2
  <2>. QED
    BY <1>1, <1>2, <2>3, <2>4, <2>5, <2>6 DEF DInv
<1>. QED
  BY <1>3, <1>4, <1>5, <1>6, <1>7, <1>8, <1>9 DEF Next

\* IInv and DInv together are inductive: DInv relates the two loops, and the pieces
\* that are done, to the bytes on disk.
THEOREM DiskInductive == Spec => [](IInv /\ DInv)
<1>1. Init => IInv /\ DInv
  BY InitIInv, InitDInv
<1>2. (IInv /\ DInv) /\ [Next]_vars => (IInv /\ DInv)'
  BY NextIInv, NextDInv
<1>. QED
  BY <1>1, <1>2, PTL DEF Spec

\* After any history of writes, failures and kills, the verification recovers
\* exactly the pieces that are whole on disk and miss no file.
THEOREM Recovered == Spec => []VerifiedExactly
<1>1. DInv => VerifiedExactly
  BY DEF DInv
<1>. QED
  BY <1>1, DiskInductive, PTL

\* As long as no write fails, what is done is on disk.
THEOREM Stored == Spec => []DoneIsOnDisk
<1>1. DInv => DoneIsOnDisk
  BY DEF DInv
<1>. QED
  BY <1>1, DiskInductive, PTL

------------------------------------------------------------------------------
(* The creation: induction, in a form that takes a set instead of a predicate *)

Lower == {ss \in Nat \X Nat : ss[1] < ss[2]}

\* A set of naturals has a least element.
LEMMA Least ==
    ASSUME NEW T, T \subseteq Nat, T # {}
    PROVE  \E m \in T : \A n \in T : ~(n < m)
<1>1. IsWellFoundedOn(Lower, Nat)
  BY NatLessThanWellFounded DEF OpToRel, Lower
<1>2. PICK m \in T : \A n \in T : ~(<<n, m>> \in Lower)
  BY <1>1, WFMin
<1>3. ASSUME NEW n \in T, n < m PROVE FALSE
  <2>1. <<n, m>> \in Lower
    BY <1>3 DEF Lower
  <2>. QED
    BY <1>2, <2>1
<1>. QED
  BY <1>3

LEMMA SetInduction ==
    ASSUME NEW S, 0 \in S, \A n \in Nat : n \in S => n + 1 \in S
    PROVE  \A n \in Nat : n \in S
<1>. DEFINE Bad == Nat \ S
<1>1. SUFFICES ASSUME Bad # {} PROVE FALSE
  OBVIOUS
<1>. HIDE DEF Bad
<1>2. PICK m \in Bad : \A n \in Bad : ~(n < m)
  BY <1>1, Least DEF Bad
<1>3. m \in Nat /\ m # 0
  BY DEF Bad
<1>4. m - 1 \in Nat /\ m - 1 < m /\ (m - 1) + 1 = m
  BY <1>3
<1>5. m - 1 \in Bad
  BY <1>3, <1>4 DEF Bad
<1>. QED
  BY <1>2, <1>4, <1>5

------------------------------------------------------------------------------
(* Where the files start *)

\* The recursion that defines Start has a solution.
Solves(g, n) == g = [f \in 1 .. n + 1 |-> IF f = 1 THEN 0 ELSE g[f - 1] + Directory[f - 1]]

LEMMA StartSolves == Solves(Creator!Start, NumFiles)
<1>. DEFINE Solved == {n \in Nat : \E g : Solves(g, n)}
<1>1. 0 \in Solved
  <2>1. Solves([f \in 1 .. 1 |-> 0], 0)
    BY DEF Solves
  <2>. QED
    BY <2>1
<1>2. ASSUME NEW n \in Nat, n \in Solved PROVE n + 1 \in Solved
  <2>1. PICK g : Solves(g, n)
    BY <1>2
  <2>. DEFINE h == [f \in 1 .. n + 2 |-> IF f = n + 2 THEN g[n + 1] + Directory[n + 1] ELSE g[f]]
  <2>2. Solves(h, n + 1)
    <3>1. ASSUME NEW f \in 1 .. n + 2
          PROVE  h[f] = IF f = 1 THEN 0 ELSE h[f - 1] + Directory[f - 1]
      BY <2>1 DEF Solves
    <3>2. (n + 1) + 1 = n + 2
      OBVIOUS
    <3>. QED
      BY <3>1, <3>2 DEF Solves
  <2>. QED
    BY <2>2
<1>3. NumFiles \in Solved
  <2>. HIDE DEF Solved
  <2>. QED
    BY <1>1, <1>2, SetInduction, FileSaverAssumption
<1>4. \E g : Solves(g, NumFiles)
  BY <1>3
<1>. QED
  BY <1>4 DEF Creator!Start, Solves

LengthType == length \in [Files -> 0 .. MaxLength]

\* The directory is a sequence of lengths, of at most as many files as there are.
LEMMA DirectoryType ==
    ASSUME LengthType
    PROVE  /\ Creator!file_count \in 0 .. NumFiles
           /\ Directory \in [1 .. Creator!file_count -> 0 .. MaxLength]
           /\ \A f \in 1 .. Creator!file_count : f \in Files /\ Directory[f] = length[f]
<1>. DEFINE n == Cardinality({f \in Files : has_path[f]})
<1>1. n \in 0 .. NumFiles
  <2>1. IsFiniteSet(Files) /\ Cardinality(Files) = NumFiles
    BY FS_Interval, FileSaverAssumption DEF Files
  <2>2. {f \in Files : has_path[f]} \in SUBSET Files
    OBVIOUS
  <2>3. /\ IsFiniteSet({f \in Files : has_path[f]})
        /\ Cardinality({f \in Files : has_path[f]}) <= Cardinality(Files)
    BY <2>1, <2>2, FS_Subset
  <2>. QED
    BY <2>1, <2>3, FS_CardinalityType, FileSaverAssumption
<1>. HIDE DEF n
<1>2. \A f \in 1 .. n : f \in Files
  BY <1>1, FileSaverAssumption DEF Files
<1>3. Directory = [f \in 1 .. n |-> length[f]]
  BY DEF Directory, n
<1>4. Directory \in [1 .. n -> 0 .. MaxLength]
  BY <1>2, <1>3 DEF LengthType
<1>5. Len(Directory) = n
  BY <1>1, <1>3
<1>. QED
  BY <1>1, <1>2, <1>3, <1>4, <1>5 DEF Creator!file_count

\* Each file starts where the one before it ends.
LEMMA StartNext ==
    ASSUME LengthType
    PROVE  /\ Creator!Start[1] = 0
           /\ \A f \in 1 .. Creator!file_count :
                 Creator!Start[f + 1] = Creator!Start[f] + Directory[f]
<1>1. /\ Creator!file_count \in 0 .. NumFiles /\ NumFiles \in Nat
  BY DirectoryType, FileSaverAssumption
<1>2. Creator!Start = [f \in 1 .. NumFiles + 1 |->
                          IF f = 1 THEN 0 ELSE Creator!Start[f - 1] + Directory[f - 1]]
  BY StartSolves DEF Solves
<1>3. ASSUME NEW f \in 1 .. NumFiles + 1
      PROVE  Creator!Start[f] = IF f = 1 THEN 0 ELSE Creator!Start[f - 1] + Directory[f - 1]
  BY <1>2
<1>4. Creator!Start[1] = 0
  BY <1>1, <1>3
<1>5. ASSUME NEW f \in 1 .. Creator!file_count
      PROVE  Creator!Start[f + 1] = Creator!Start[f] + Directory[f]
  <2>1. f + 1 \in 1 .. NumFiles + 1 /\ f + 1 # 1 /\ (f + 1) - 1 = f
    BY <1>1
  <2>. QED
    BY <1>3, <2>1
<1>. QED
  BY <1>4, <1>5

\* The starts are naturals that do not decrease.
LEMMA StartGrows ==
    ASSUME LengthType
    PROVE  /\ \A f \in 1 .. Creator!file_count + 1 :
                 Creator!Start[f] \in Nat /\ Creator!Start[f] <= Creator!total_size
           /\ Creator!total_size \in Nat
<1>. DEFINE n == Creator!file_count
            S == Creator!Start
            Typed == {k \in Nat : k + 1 <= n + 1 => S[k + 1] \in Nat}
            Bounded == {k \in Nat : k <= n => S[n + 1 - k] <= S[n + 1]}
<1>1. n \in Nat /\ \A f \in 1 .. n : Directory[f] \in Nat /\ S[f + 1] = S[f] + Directory[f]
  BY DirectoryType, StartNext, FileSaverAssumption
<1>2. S[1] = 0
  BY StartNext
<1>. HIDE DEF n, S
<1>3. \A k \in Nat : k \in Typed
  <2>1. 0 \in Typed
    BY <1>2
  <2>2. ASSUME NEW k \in Nat, k \in Typed PROVE k + 1 \in Typed
    <3>1. SUFFICES ASSUME k + 2 <= n + 1 PROVE S[k + 2] \in Nat
      OBVIOUS
    <3>2. k + 1 \in 1 .. n /\ S[k + 1] \in Nat /\ (k + 1) + 1 = k + 2
      BY <1>1, <2>2, <3>1
    <3>. QED
      BY <1>1, <3>2
  <2>. HIDE DEF Typed
  <2>. QED
    BY <2>1, <2>2, SetInduction
<1>4. \A f \in 1 .. n + 1 : S[f] \in Nat
  <2>1. ASSUME NEW f \in 1 .. n + 1 PROVE S[f] \in Nat
    <3>1. f - 1 \in Nat /\ (f - 1) + 1 = f
      BY <1>1
    <3>2. f - 1 \in Typed
      BY <1>3, <3>1
    <3>. QED
      BY <1>1, <3>1, <3>2
  <2>. QED
    BY <2>1
<1>5. \A k \in Nat : k \in Bounded
  <2>1. 0 \in Bounded
    BY <1>1, <1>4
  <2>2. ASSUME NEW k \in Nat, k \in Bounded PROVE k + 1 \in Bounded
    <3>1. SUFFICES ASSUME k + 1 <= n PROVE S[n + 1 - (k + 1)] <= S[n + 1]
      OBVIOUS
    <3>2. n - k \in 1 .. n /\ n + 1 - (k + 1) = n - k /\ n + 1 - k = (n - k) + 1
      BY <1>1, <3>1
    <3>3. S[(n - k) + 1] = S[n - k] + Directory[n - k] /\ Directory[n - k] \in Nat
      BY <1>1, <3>2
    <3>4. S[(n - k) + 1] <= S[n + 1]
      BY <1>1, <2>2, <3>1, <3>2
    <3>5. S[n - k] \in Nat /\ S[n + 1] \in Nat
      BY <1>1, <1>4, <3>2
    <3>. QED
      BY <3>2, <3>3, <3>4, <3>5
  <2>. HIDE DEF Bounded
  <2>. QED
    BY <2>1, <2>2, SetInduction
<1>6. ASSUME NEW f \in 1 .. n + 1 PROVE S[f] <= S[n + 1]
  <2>1. n + 1 - f \in Nat /\ n + 1 - f <= n /\ n + 1 - (n + 1 - f) = f
    BY <1>1
  <2>2. n + 1 - f \in Bounded
    BY <1>5, <2>1
  <2>. QED
    BY <1>1, <2>1, <2>2
<1>7. Creator!total_size = S[n + 1] /\ n + 1 \in 1 .. n + 1
  BY <1>1 DEF Creator!total_size, S, n
<1>. QED
  BY <1>4, <1>6, <1>7 DEF S, n

\* Nothing of this changes with the directory and what it gives.
LEMMA SameDirectory ==
    ASSUME UNCHANGED <<has_path, length, given, piece_length>>
    PROVE  /\ Directory' = Directory /\ Creator!Start' = Creator!Start
           /\ Creator!file_count' = Creator!file_count
           /\ Creator!total_size' = Creator!total_size
           /\ Creator!num_pieces' = Creator!num_pieces
           /\ Creator!Gap' = Creator!Gap /\ (Creator!Grown' <=> Creator!Grown)
<1>1. Directory' = Directory
  BY DEF Directory
<1>2. Creator!Start' = Creator!Start
  BY <1>1 DEF Creator!Start
<1>3. Creator!file_count' = Creator!file_count
  BY <1>1 DEF Creator!file_count
<1>4. Creator!total_size' = Creator!total_size
  BY <1>2, <1>3 DEF Creator!total_size
<1>5. Creator!num_pieces' = Creator!num_pieces
  BY <1>4 DEF Creator!num_pieces
<1>6. Creator!Gap' = Creator!Gap
  BY <1>1, <1>2, <1>3, <1>4 DEF Creator!Gap
<1>7. Creator!Grown' <=> Creator!Grown
  BY <1>1, <1>3 DEF Creator!Grown
<1>. QED
  BY <1>1, <1>2, <1>3, <1>4, <1>5, <1>6, <1>7

\* Reading a file gives fewer or more bytes than it was counted with.
Changed(f) == given[f] # Directory[f]

\* How many of the bytes that it was counted with it gives.
Given(f) == IF given[f] > Directory[f] THEN Directory[f] ELSE IF given[f] = -1 THEN 0 ELSE given[f]

GivenType ==
    /\ given \in [1 .. Creator!file_count -> Int]
    /\ \A f \in 1 .. Creator!file_count : -1 <= given[f]

\* The gap is in the first file that has changed, and without one behind the last.
LEMMA GapIs ==
    ASSUME TypeOK, GivenType
    PROVE  /\ Creator!Gap \in Nat /\ Creator!Gap <= Creator!total_size
           /\ (\A f \in 1 .. Creator!file_count : ~Changed(f)) => Creator!Gap = Creator!total_size
           /\ \A f \in 1 .. Creator!file_count :
                 (Changed(f) /\ \A g \in 1 .. f - 1 : ~Changed(g))
                     => Creator!Gap = Creator!Start[f] + Given(f)
<1>. DEFINE n == Creator!file_count
            cut == {f \in 1 .. n : Changed(f)}
            first == CHOOSE f \in cut : \A g \in cut : f <= g
<1>1. /\ n \in Nat /\ Creator!total_size \in Nat
      /\ \A f \in 1 .. n : /\ Creator!Start[f] \in Nat /\ given[f] \in Int /\ -1 <= given[f]
                          /\ Directory[f] \in Nat
                          /\ Creator!Start[f] + Directory[f] <= Creator!total_size
  <2>1. LengthType /\ MaxLength \in Nat /\ NumFiles \in Nat
    BY FileSaverAssumption DEF LengthType, TypeOK
  <2>2. /\ n \in 0 .. NumFiles /\ Creator!total_size \in Nat
        /\ \A f \in 1 .. n + 1 : Creator!Start[f] \in Nat /\ Creator!Start[f] <= Creator!total_size
        /\ Directory \in [1 .. n -> 0 .. MaxLength]
        /\ \A f \in 1 .. n : Creator!Start[f + 1] = Creator!Start[f] + Directory[f]
    BY <2>1, DirectoryType, StartNext, StartGrows
  <2>3. \A f \in 1 .. n : given[f] \in Int /\ -1 <= given[f]
    BY DEF GivenType
  <2>. HIDE DEF n
  <2>4. ASSUME NEW f \in 1 .. n
        PROVE  /\ Creator!Start[f] \in Nat /\ Directory[f] \in Nat
               /\ Creator!Start[f] + Directory[f] <= Creator!total_size
    <3>1. f \in 1 .. n + 1 /\ f + 1 \in 1 .. n + 1
      BY <2>1, <2>2
    <3>2. Directory[f] \in 0 .. MaxLength
      BY <2>2
    <3>3. Directory[f] \in Nat
      BY <2>1, <3>2
    <3>4. /\ Creator!Start[f + 1] = Creator!Start[f] + Directory[f]
          /\ Creator!Start[f + 1] <= Creator!total_size /\ Creator!Start[f] \in Nat
      BY <2>2, <3>1
    <3>. QED
      BY <3>3, <3>4
  <2>5. n \in Nat
    BY <2>1, <2>2
  <2>. QED
    BY <2>2, <2>3, <2>4, <2>5
<1>2. Creator!Gap = IF cut = {} THEN Creator!total_size ELSE Creator!Start[first] + Given(first)
  BY DEF Creator!Gap, Creator!Unopened, Changed, Given
<1>3. ASSUME NEW f \in 1 .. n, Changed(f), \A g \in 1 .. f - 1 : ~Changed(g)
      PROVE  f = first /\ cut # {}
  <2>1. f \in cut
    BY <1>3
  <2>2. ASSUME NEW g \in cut PROVE f <= g
    BY <1>1, <1>3, <2>2
  <2>3. first \in cut /\ \A g \in cut : first <= g
    BY <2>1, <2>2
  <2>4. first <= f /\ f <= first /\ f \in Nat /\ first \in Nat
    BY <1>1, <2>1, <2>2, <2>3
  <2>. QED
    BY <2>1, <2>4
<1>4. cut # {} => first \in cut
  <2>1. SUFFICES ASSUME cut # {} PROVE \E f \in cut : \A g \in cut : f <= g
    OBVIOUS
  <2>2. cut \subseteq Nat
    BY <1>1
  <2>. HIDE DEF cut
  <2>3. PICK m \in cut : \A g \in cut : ~(g < m)
    BY <2>1, <2>2, Least
  <2>. QED
    BY <2>2, <2>3
<1>5. cut = {} <=> \A f \in 1 .. n : ~Changed(f)
  OBVIOUS
<1>6. cut # {} => /\ Creator!Start[first] + Given(first) \in Nat
                  /\ Creator!Start[first] + Given(first) <= Creator!total_size
  <2>1. \A f \in 1 .. n : Given(f) \in Nat /\ Given(f) <= Directory[f]
    BY <1>1 DEF Given
  <2>2. ASSUME NEW f \in 1 .. n
        PROVE  /\ Creator!Start[f] + Given(f) \in Nat
               /\ Creator!Start[f] + Given(f) <= Creator!total_size
    BY <1>1, <2>1
  <2>. QED
    BY <1>4, <2>2
<1>. HIDE DEF first, cut
<1>7. Creator!Gap \in Nat /\ Creator!Gap <= Creator!total_size
  BY <1>1, <1>2, <1>6
<1>8. ASSUME NEW f \in 1 .. n, Changed(f), \A g \in 1 .. f - 1 : ~Changed(g)
      PROVE  Creator!Gap = Creator!Start[f] + Given(f)
  BY <1>2, <1>3, <1>8
<1>. QED
  BY <1>2, <1>5, <1>7, <1>8

\* Counting the pieces rounds up: p is one if the content reaches beyond its start.
LEMMA PieceCount ==
    ASSUME NEW total \in Nat, NEW len \in Nat \ {0}
    PROVE  /\ (total + len - 1) \div len \in Nat
           /\ \A p \in Nat : p < (total + len - 1) \div len <=> p * len < total
<1>. DEFINE count == (total + len - 1) \div len
            rest  == (total + len - 1) % len
<1>1. /\ total + len - 1 = count * len + rest
      /\ rest \in 0 .. len - 1 /\ count \in Nat
  OBVIOUS
<1>. HIDE DEF count, rest
<1>2. ASSUME NEW p \in Nat, p < count PROVE p * len < total
  <2>1. (p + 1) * len <= count * len /\ (p + 1) * len = p * len + len
    BY <1>1, <1>2
  <2>. QED
    BY <1>1, <2>1
<1>3. ASSUME NEW p \in Nat, ~(p < count) PROVE ~(p * len < total)
  <2>1. count * len <= p * len /\ p * len \in Nat /\ count * len \in Nat
    BY <1>1, <1>3
  <2>. QED
    BY <1>1, <2>1
<1>. QED
  BY <1>1, <1>2, <1>3 DEF count

------------------------------------------------------------------------------
(* The inductive invariant of the creation *)

\* The bytes that were read, and the place that the loop has come to.
Fed  == Len(hashes) * piece_length + Len(block)
Here == Creator!Start[file] + (IF stage = "read" THEN position ELSE 0)

\* The n bytes from one offset on.
Run(from, n) == [k \in 1 .. n |-> from + k - 1]

\* The bytes of s are those of the piece that is counted as p from 1, before the gap.
Genuine(p, s) ==
    \A k \in 1 .. Len(s) :
        (p - 1) * piece_length + k <= Creator!Gap => s[k] = (p - 1) * piece_length + k - 1

\* Piece p, counted from 0, of the content.
EndOf(p) == Smaller(p * piece_length + piece_length, Creator!total_size)
Bytes(p) == Run(p * piece_length, EndOf(p) - p * piece_length)

CreatorTypes ==
    /\ stage \in {"foreign", "open", "read", "write", "returned", "added", "killed"}
    /\ piece_length \in Nat \ {0}
    /\ hashes \in Seq(Seq(Int)) /\ block \in Seq(Int)
    /\ stage = "foreign" => hashes = <<>>
    /\ stage # "foreign" => GivenType /\ file \in 1 .. Creator!file_count + 1
    /\ stage = "read" => /\ file <= Creator!file_count
                         /\ given[file] # -1 /\ position \in 0 .. given[file]

\* In the loop over the files: what was read is what the files hold, in their
\* order, unless a file has changed; and then it reaches the gap.
LoopInv ==
    stage \in {"open", "read"} =>
        /\ Len(block) < piece_length /\ Genuine(Len(hashes) + 1, block)
        /\ \A p \in 1 .. Len(hashes) : Len(hashes[p]) = piece_length /\ Genuine(p, hashes[p])
        /\ ~Creator!Grown => Fed <= Here
        /\ IF \E f \in 1 .. file - 1 : Changed(f) THEN Creator!Gap <= Fed ELSE Fed = Here

\* A piece that lies before the gap; the last one may be shorter, if nothing
\* more than it was given.
Sure(p) ==
    \/ p * piece_length + piece_length <= Creator!Gap
    \/ EndOf(p) <= Creator!Gap /\ ~Creator!Grown

\* The first places of s hold the pieces before the gap.
Holds(s, n) ==
    \A p \in 0 .. Creator!num_pieces - 1 : Sure(p) => p < n /\ s[p + 1] = Bytes(p)

\* There is room for the hashes, if no file has grown.
Room == ~Creator!Grown => Len(hashes) <= Creator!num_pieces

HashedInv == stage = "write" => Room /\ Holds(hashes, Len(hashes))

MadeInv ==
    /\ stage \in {"returned", "added", "killed"} => Room
    /\ (stage \in {"returned", "added"} /\ rc = 0) =>
          /\ made = [q \in 1 .. Creator!num_pieces |-> made[q]]
          /\ Holds(made, Creator!num_pieces)

AddedInv == stage = "added" => rc = 0 /\ piece_length = PieceLength /\ given = Directory

\* A torrent that is made here has its files in front, whole on disk and in the
\* order of the directory.
SeedDisk ==
    stage # "foreign" =>
        /\ \A f \in Files : has_path[f] <=> f <= Creator!file_count
        /\ \A f \in Files : size[f] = IF has_path[f] THEN length[f] ELSE Absent
        /\ \A f \in Files : \A o \in Offsets :
              o < length[f] => content[f][o] = Creator!Start[f] + o

\* Every piece of it is done when the swarm begins, so that none is written.
SeedInv ==
    /\ SeedDisk
    /\ stage # "foreign" => pc # "write" /\ (pc = "swarm" => 0 .. TotalPieces - 1 \subseteq done)

CInv == CreatorTypes /\ LoopInv /\ HashedInv /\ MadeInv /\ AddedInv

\* The bytes of a read behind those of a buffer.
LEMMA ReadBehind ==
    ASSUME NEW s \in Seq(Int), NEW u \in Seq(Int)
    PROVE  /\ s \o u \in Seq(Int) /\ Len(s \o u) = Len(s) + Len(u)
           /\ \A k \in 1 .. Len(s) : (s \o u)[k] = s[k]
           /\ \A k \in Len(s) + 1 .. Len(s) + Len(u) : (s \o u)[k] = u[k - Len(s)]
<1>1. /\ s \o u \in Seq(Int) /\ Len(s \o u) = Len(s) + Len(u)
      /\ \A k \in 1 .. Len(s) + Len(u) :
            (s \o u)[k] = IF k <= Len(s) THEN s[k] ELSE u[k - Len(s)]
  BY ConcatProperties
<1>2. Len(s) \in Nat /\ Len(u) \in Nat
  BY LenProperties
<1>3. ASSUME NEW k \in Len(s) + 1 .. Len(s) + Len(u) PROVE (s \o u)[k] = u[k - Len(s)]
  <2>1. k \in 1 .. Len(s) + Len(u) /\ ~(k <= Len(s))
    BY <1>2
  <2>. QED
    BY <1>1, <2>1
<1>4. ASSUME NEW k \in 1 .. Len(s) PROVE (s \o u)[k] = s[k]
  <2>1. k \in 1 .. Len(s) + Len(u) /\ k <= Len(s)
    BY <1>2
  <2>. QED
    BY <1>1, <2>1
<1>. QED
  BY <1>1, <1>3, <1>4

------------------------------------------------------------------------------
(* The steps of the creation *)

\* Arithmetic that the provers do better without the lengths.
LEMMA NextPiece == ASSUME NEW h \in Nat, NEW l \in Nat PROVE (h + 1) * l = h * l + l
  OBVIOUS

LEMMA NextPieces ==
    ASSUME NEW h \in Nat, NEW j \in Nat, NEW l \in Nat, h < j
    PROVE  h * l + l <= j * l
<1>1. (h + 1) * l <= j * l
  OBVIOUS
<1>. QED
  BY <1>1, NextPiece

LEMMA Sums ==
    ASSUME NEW w \in Int, NEW b \in Int, NEW n \in Int
    PROVE  w + (b + n) = (w + b) + n
  OBVIOUS

\* What a step of the creation leaves alone.
LEMMA CreationKeeps ==
    ASSUME UNCHANGED vars, Creator!Next \/ Add
    PROVE  UNCHANGED <<has_path, length, given, piece_length>>
  BY DEF vars, torrent, Add, Creator!Next, Creator!NoFiles, Creator!OpenFile, Creator!ReadBlock,
         Creator!HashTail, Creator!WriteTorrent, Creator!Overrun, Creator!source

\* The types of what the steps count with.
LEMMA Numbers ==
    ASSUME TypeOK, CreatorTypes
    PROVE  /\ Creator!file_count \in Nat /\ piece_length \in Nat \ {0}
           /\ Len(hashes) \in Nat /\ Len(block) \in Nat /\ Len(hashes) * piece_length \in Nat
           /\ Creator!total_size \in Nat /\ Creator!num_pieces \in Nat
           /\ stage # "foreign" => /\ Creator!Gap \in Nat /\ file \in Nat \ {0}
                                   /\ file <= Creator!file_count + 1
                                   /\ Creator!Start[file] \in Nat
                                   /\ Creator!Start[file] <= Creator!total_size
           /\ stage = "read" => position \in Nat
<1>1. /\ Creator!file_count \in Nat /\ piece_length \in Nat \ {0}
      /\ Len(hashes) \in Nat /\ Len(block) \in Nat
      /\ Creator!total_size \in Nat
  BY DirectoryType, StartGrows, LenProperties, FileSaverAssumption
  DEF CreatorTypes, LengthType, TypeOK
<1>2. Len(hashes) * piece_length \in Nat
  BY <1>1
<1>3. Creator!num_pieces \in Nat
  BY <1>1, PieceCount DEF Creator!num_pieces
<1>4. ASSUME stage # "foreign"
      PROVE  /\ Creator!Gap \in Nat /\ file \in Nat \ {0} /\ file <= Creator!file_count + 1
             /\ Creator!Start[file] \in Nat /\ Creator!Start[file] <= Creator!total_size
  <2>1. GivenType /\ file \in 1 .. Creator!file_count + 1
    BY <1>4 DEF CreatorTypes
  <2>. QED
    BY <1>1, <2>1, StartGrows, GapIs DEF LengthType, TypeOK
<1>5. stage = "read" => position \in Nat
  BY DEF CreatorTypes
<1>. QED
  BY <1>1, <1>2, <1>3, <1>4, <1>5

\* A piece is one of the torrent's if it starts inside the content.
LEMMA IsPiece ==
    ASSUME TypeOK, CreatorTypes, NEW p \in Nat
    PROVE  /\ p < Creator!num_pieces <=> p * piece_length < Creator!total_size
           /\ p * piece_length \in Nat
<1>1. piece_length \in Nat \ {0} /\ Creator!total_size \in Nat
  BY Numbers
<1>. QED
  BY <1>1, PieceCount DEF Creator!num_pieces

\* File number file, in the loop.
LEMMA AtFile ==
    ASSUME TypeOK, CreatorTypes, stage # "foreign", file <= Creator!file_count
    PROVE  /\ file \in 1 .. Creator!file_count /\ Directory[file] \in Nat
           /\ given[file] \in Int /\ -1 <= given[file]
           /\ ~Creator!Grown => given[file] <= Directory[file]
           /\ Creator!Start[file + 1] = Creator!Start[file] + Directory[file]
           /\ Creator!Start[file + 1] <= Creator!total_size
<1>1. file \in 1 .. Creator!file_count /\ Creator!file_count \in Nat
  BY Numbers DEF CreatorTypes
<1>2. file + 1 \in 1 .. Creator!file_count + 1
  BY <1>1
<1>3. GivenType /\ LengthType
  BY DEF CreatorTypes, LengthType, TypeOK
<1>4. /\ given[file] \in Int /\ -1 <= given[file] /\ Directory[file] \in Nat
      /\ given[file] > Directory[file] => Creator!Grown
  BY <1>1, <1>3, DirectoryType DEF GivenType, Creator!Grown
<1>. QED
  BY <1>1, <1>2, <1>3, <1>4, StartGrows, StartNext, DirectoryType DEF GivenType

\* The hashes of the loop fit into the memory that the sizes call for, if no
\* file has grown.
LEMMA HashesFit ==
    ASSUME TypeOK, CreatorTypes, LoopInv, stage \in {"open", "read"}, ~Creator!Grown
    PROVE  Len(hashes) <= Creator!num_pieces /\ Fed <= Creator!total_size
<1>1. Here <= Creator!total_size
  <2>1. CASE stage = "read"
    <3>1. file <= Creator!file_count /\ position <= given[file] /\ position \in Nat
      BY <2>1 DEF CreatorTypes
    <3>2. Here = Creator!Start[file] + position /\ Creator!Start[file] \in Nat
      BY <2>1, Numbers DEF Here
    <3>3. /\ Directory[file] \in Nat /\ given[file] \in Int /\ given[file] <= Directory[file]
          /\ Creator!Start[file + 1] = Creator!Start[file] + Directory[file]
          /\ Creator!Start[file + 1] <= Creator!total_size /\ Creator!total_size \in Nat
      BY <2>1, <3>1, AtFile, Numbers
    <3>. QED
      BY <3>1, <3>2, <3>3
  <2>2. CASE stage = "open"
    BY <2>2, Numbers DEF Here
  <2>. QED
    BY <2>1, <2>2
<1>2. Fed <= Here /\ Fed \in Nat /\ Here \in Nat
  <2>1. Fed <= Here
    BY DEF LoopInv
  <2>2. Fed \in Nat
    BY Numbers DEF Fed
  <2>3. Creator!Start[file] \in Nat /\ (stage = "read" => position \in Nat)
    BY Numbers
  <2>4. Here \in Nat
    BY <2>3 DEF Here
  <2>. QED
    BY <2>1, <2>2, <2>4
<1>3. Fed <= Creator!total_size
  BY <1>1, <1>2, Numbers
<1>4. Len(hashes) * piece_length <= Creator!total_size
  BY <1>3, Numbers DEF Fed
<1>5. ASSUME Creator!num_pieces < Len(hashes) PROVE FALSE
  <2>1. /\ ~(Creator!num_pieces * piece_length < Creator!total_size)
        /\ Creator!num_pieces * piece_length \in Nat
    BY Numbers, IsPiece
  <2>2. /\ Creator!num_pieces \in Nat /\ Len(hashes) \in Nat /\ piece_length \in Nat \ {0}
        /\ Creator!total_size \in Nat /\ Len(hashes) * piece_length \in Nat
    BY Numbers
  <2>3. Creator!num_pieces * piece_length + piece_length <= Len(hashes) * piece_length
    BY <1>5, <2>2, NextPieces
  <2>. QED
    BY <1>4, <2>1, <2>2, <2>3
<1>. QED
  BY <1>3, <1>5, Numbers

LEMMA OpenKeeps ==
    ASSUME TypeOK, CInv, UNCHANGED vars, Creator!OpenFile
    PROVE  CInv'
<1>1. /\ stage = "open" /\ file <= Creator!file_count
      /\ UNCHANGED <<has_path, length, given, piece_length, block, hashes, rc, made>>
  BY CreationKeeps DEF Creator!OpenFile, Creator!Next
<1>2. /\ Directory' = Directory /\ Creator!Start' = Creator!Start
      /\ Creator!file_count' = Creator!file_count /\ Creator!Gap' = Creator!Gap
      /\ (Creator!Grown' <=> Creator!Grown)
  BY <1>1, SameDirectory
<1>3. /\ file \in 1 .. Creator!file_count /\ Directory[file] \in Nat
      /\ Creator!Start[file + 1] = Creator!Start[file] + Directory[file]
      /\ GivenType /\ Creator!Start[file] \in Nat /\ Creator!Gap \in Nat
      /\ Creator!file_count \in Nat /\ given[file] \in Int /\ -1 <= given[file]
  BY <1>1, AtFile, Numbers DEF CInv, CreatorTypes
<1>4. GivenType'
  BY <1>1, <1>2, <1>3 DEF GivenType
<1>5. Fed' = Fed /\ Fed \in Nat /\ Here = Creator!Start[file] /\ (~Creator!Grown => Fed <= Here)
  <2>1. Len(hashes) * piece_length \in Nat /\ Len(block) \in Nat
    BY Numbers DEF CInv
  <2>2. Fed' = Fed /\ Fed \in Nat
    BY <1>1, <2>1 DEF Fed
  <2>3. Here = Creator!Start[file]
    BY <1>1, <1>3 DEF Here
  <2>4. ~Creator!Grown => Fed <= Here
    BY <1>1 DEF CInv, LoopInv
  <2>. QED
    BY <2>2, <2>3, <2>4
<1>6. CASE given[file] = -1
  <2>1. stage' = "open" /\ file' = file + 1
    BY <1>1, <1>6 DEF Creator!OpenFile, Creator!Unopened
  <2>2. Here' = Creator!Start[file + 1]
    BY <1>2, <1>3, <2>1 DEF Here
  <2>3. Changed(file) /\ Given(file) = 0
    BY <1>3, <1>6 DEF Changed, Given
  <2>4. Creator!Gap <= Fed
    <3>1. CASE \E f \in 1 .. file - 1 : Changed(f)
      BY <1>1, <3>1 DEF CInv, LoopInv
    <3>2. CASE ~ \E f \in 1 .. file - 1 : Changed(f)
      <4>1. Fed = Creator!Start[file]
        BY <1>1, <1>5, <3>2 DEF CInv, LoopInv
      <4>2. Creator!Gap = Creator!Start[file] + Given(file)
        BY <1>3, <2>3, <3>2, GapIs
      <4>. QED
        BY <1>3, <2>3, <4>1, <4>2
    <3>. QED
      BY <3>1, <3>2
  <2>5. \E f \in 1 .. file' - 1 : Changed(f)'
    <3>1. PICK g : g = file
      OBVIOUS
    <3>2. Changed(g)'
      BY <1>1, <1>2, <2>3, <3>1 DEF Changed
    <3>3. g \in 1 .. file' - 1
      BY <1>3, <2>1, <3>1
    <3>. QED
      BY <3>2, <3>3
  <2>6. LoopInv'
    <3>1. Len(block) < piece_length /\ Genuine(Len(hashes) + 1, block)
      BY <1>1 DEF CInv, LoopInv
    <3>2. \A p \in 1 .. Len(hashes) : Len(hashes[p]) = piece_length /\ Genuine(p, hashes[p])
      BY <1>1 DEF CInv, LoopInv
    <3>3. ~Creator!Grown => Fed' <= Here'
      BY <1>3, <1>5, <2>2
    <3>. QED
      BY <1>1, <1>2, <1>5, <2>4, <2>5, <3>1, <3>2, <3>3 DEF LoopInv, Genuine
  <2>7. CreatorTypes'
    <3>1. file' \in 1 .. Creator!file_count' + 1
      BY <1>2, <1>3, <2>1
    <3>. QED
      BY <1>1, <1>4, <2>1, <3>1 DEF CInv, CreatorTypes
  <2>. QED
    BY <2>1, <2>6, <2>7 DEF CInv, HashedInv, MadeInv, AddedInv
<1>7. CASE given[file] # -1
  <2>1. stage' = "read" /\ file' = file /\ position' = 0
    BY <1>1, <1>7 DEF Creator!OpenFile, Creator!Unopened
  <2>2. Here' = Here
    BY <1>2, <1>3, <1>5, <2>1 DEF Here
  <2>3. \A f \in 1 .. file - 1 : Changed(f)' <=> Changed(f)
    BY <1>1, <1>2 DEF Changed
  <2>4. LoopInv'
    <3>1. Len(block) < piece_length /\ Genuine(Len(hashes) + 1, block)
      BY <1>1 DEF CInv, LoopInv
    <3>2. \A p \in 1 .. Len(hashes) : Len(hashes[p]) = piece_length /\ Genuine(p, hashes[p])
      BY <1>1 DEF CInv, LoopInv
    <3>3. IF \E f \in 1 .. file - 1 : Changed(f) THEN Creator!Gap <= Fed ELSE Fed = Here
      BY <1>1 DEF CInv, LoopInv
    <3>. QED
      BY <1>1, <1>2, <1>5, <2>1, <2>2, <2>3, <3>1, <3>2, <3>3 DEF LoopInv, Genuine
  <2>5. CreatorTypes'
    <3>1. position' \in 0 .. given'[file']
      BY <1>1, <1>3, <1>7, <2>1
    <3>. QED
      BY <1>1, <1>2, <1>3, <1>4, <1>7, <2>1, <3>1 DEF CInv, CreatorTypes
  <2>. QED
    BY <2>1, <2>4, <2>5 DEF CInv, HashedInv, MadeInv, AddedInv
<1>. QED
  BY <1>6, <1>7

\* What a read gives, and what is in the buffer after it.
GivenNow(n) == [k \in 1 .. n |-> Creator!Byte(file, position + k - 1)]
ReadInto  == block \o GivenNow(Creator!ReadBytes)

\* One read: what it adds is behind what there was, and from where the file is.
LEMMA OneRead ==
    ASSUME TypeOK, CInv, stage = "read"
    PROVE  /\ Creator!ReadBytes \in Nat /\ Creator!BytesToRead \in Nat
           /\ Creator!ReadBytes <= Creator!BytesToRead
           /\ position + Creator!ReadBytes <= given[file]
           /\ Creator!ReadBytes < Creator!BytesToRead => position + Creator!ReadBytes = given[file]
           /\ ReadInto \in Seq(Int) /\ Len(ReadInto) = Len(block) + Creator!ReadBytes
           /\ Len(ReadInto) <= piece_length
           /\ Genuine(Len(hashes) + 1, ReadInto)
<1>. DEFINE n == Creator!ReadBytes
            from == Creator!Start[file] + position
            b == Len(block)
            whole == Len(hashes) * piece_length
<1>0. /\ TypeOK /\ CreatorTypes /\ GivenType /\ stage # "foreign"
      /\ file <= Creator!file_count /\ file \in 1 .. Creator!file_count
      /\ Directory[file] \in Nat /\ Creator!Start[file] \in Nat
  <2>1. TypeOK /\ CreatorTypes /\ GivenType /\ stage # "foreign" /\ file <= Creator!file_count
    BY DEF CInv, CreatorTypes
  <2>. QED
    BY <2>1, AtFile, Numbers
<1>1. /\ piece_length \in Nat \ {0} /\ b \in Nat /\ b < piece_length
      /\ position \in Nat /\ given[file] \in Int /\ position <= given[file]
      /\ from \in Int /\ whole \in Nat /\ Creator!Gap \in Nat
  <2>1. TypeOK /\ CreatorTypes /\ stage # "foreign" /\ file <= Creator!file_count
    BY DEF CInv, CreatorTypes
  <2>2. position \in Nat /\ position <= given[file] /\ given[file] \in Int
    BY <2>1, AtFile DEF CreatorTypes
  <2>3. Len(block) < piece_length
    BY <2>1 DEF CInv, LoopInv
  <2>. QED
    BY <2>1, <2>2, <2>3, Numbers
<1>2. /\ Creator!BytesToRead = piece_length - b
      /\ n = IF given[file] - position < Creator!BytesToRead
             THEN given[file] - position ELSE Creator!BytesToRead
  BY DEF Creator!ReadBytes, Creator!BytesToRead
<1>3. /\ ReadInto = block \o GivenNow(n) /\ block \in Seq(Int)
      /\ \A p : Genuine(Len(hashes) + 1, p)
            <=> \A k \in 1 .. Len(p) : whole + k <= Creator!Gap => p[k] = whole + k - 1
  <2>1. block \in Seq(Int) /\ Len(hashes) \in Nat
    BY Numbers DEF CInv, CreatorTypes
  <2>2. (Len(hashes) + 1) - 1 = Len(hashes)
    BY <2>1
  <2>. QED
    BY <2>1, <2>2 DEF Genuine, ReadInto
<1>4. Fed = whole + b /\ Here = from
  BY DEF Fed, Here
<1>5. /\ Genuine(Len(hashes) + 1, block)
      /\ ~(Creator!Gap <= Fed) => Fed = Here
  BY DEF CInv, LoopInv
<1>. HIDE DEF n, from, whole
<1>6. n \in Nat
  BY <1>1, <1>2
<1>7. /\ ReadInto \in Seq(Int) /\ Len(ReadInto) = b + n
      /\ \A k \in 1 .. b : ReadInto[k] = block[k]
      /\ \A k \in b + 1 .. b + n : ReadInto[k] = Creator!Byte(file, position + (k - b) - 1)
  <2>1. n \in Nat /\ block \in Seq(Int) /\ ReadInto = block \o GivenNow(n)
    BY <1>3, <1>6
  <2>2. /\ GivenNow(n) \in Seq(Int) /\ Len(GivenNow(n)) = n
        /\ \A k \in 1 .. n : GivenNow(n)[k] = Creator!Byte(file, position + k - 1)
    <3>1. Creator!Start[file] \in Nat /\ Creator!Surplus \in Int
      BY <1>0, Numbers DEF Creator!Surplus
    <3>2. \A k \in 1 .. n : Creator!Byte(file, position + k - 1) \in Int
      BY <1>1, <2>1, <3>1 DEF Creator!Byte
    <3>. QED
      BY <2>1, <3>2 DEF GivenNow
  <2>3. /\ block \o GivenNow(n) \in Seq(Int)
        /\ Len(block \o GivenNow(n)) = Len(block) + n
        /\ \A k \in 1 .. Len(block) : (block \o GivenNow(n))[k] = block[k]
        /\ \A k \in Len(block) + 1 .. Len(block) + n :
              (block \o GivenNow(n))[k] = GivenNow(n)[k - Len(block)]
    <3>. DEFINE u == GivenNow(n)
    <3>1. block \in Seq(Int) /\ u \in Seq(Int) /\ Len(u) = n
      BY <2>1, <2>2
    <3>. HIDE DEF u
    <3>2. /\ block \o u \in Seq(Int) /\ Len(block \o u) = Len(block) + Len(u)
          /\ \A k \in 1 .. Len(block) : (block \o u)[k] = block[k]
          /\ \A k \in Len(block) + 1 .. Len(block) + Len(u) :
                (block \o u)[k] = u[k - Len(block)]
      BY <3>1, ReadBehind
    <3>3. /\ block \o u \in Seq(Int) /\ Len(block \o u) = Len(block) + n
          /\ \A k \in 1 .. Len(block) : (block \o u)[k] = block[k]
          /\ \A k \in Len(block) + 1 .. Len(block) + n :
                (block \o u)[k] = u[k - Len(block)]
      BY <3>1, <3>2
    <3>. QED
      BY <3>3 DEF u
  <2>4. ASSUME NEW k \in b + 1 .. b + n
        PROVE  ReadInto[k] = Creator!Byte(file, position + (k - b) - 1)
    <3>1. k - b \in 1 .. n /\ b \in Nat
      BY <1>1, <2>1
    <3>. QED
      BY <2>1, <2>2, <2>3, <3>1
  <2>. QED
    BY <2>1, <2>3, <2>4
<1>. HIDE DEF b
<1>8. /\ Creator!BytesToRead \in Nat /\ n <= Creator!BytesToRead
      /\ position + n <= given[file]
      /\ n < Creator!BytesToRead => position + n = given[file]
      /\ b + n <= piece_length
  BY <1>1, <1>2
<1>9. ASSUME NEW k \in 1 .. b + n, whole + k <= Creator!Gap
      PROVE  ReadInto[k] = whole + k - 1
  <2>1. CASE k <= b
    <3>1. k \in 1 .. b
      BY <1>1, <1>6, <2>1
    <3>2. block[k] = whole + k - 1
      BY <1>3, <1>5, <1>9, <3>1 DEF b
    <3>. QED
      BY <1>7, <3>1, <3>2
  <2>2. CASE ~(k <= b)
    <3>1. k \in b + 1 .. b + n
      BY <1>1, <1>6, <2>2
    <3>2. ~(Creator!Gap <= whole + b)
      BY <1>1, <1>9, <2>2
    <3>3. whole + b = from
      BY <1>4, <1>5, <3>2
    <3>4. ReadInto[k] = Creator!Byte(file, position + (k - b) - 1)
      BY <1>7, <3>1
    <3>5. /\ k \in Nat /\ b \in Nat /\ whole \in Nat /\ from \in Int /\ n \in Nat
          /\ k <= b + n /\ position \in Nat /\ position + n <= given[file] /\ given[file] \in Int
      BY <1>1, <1>6, <1>8
    <3>6. from = Creator!Start[file] + position
      BY DEF from
    <3>7. position + (k - b) - 1 < Directory[file]
      <4>1. CASE given[file] <= Directory[file]
        BY <1>0, <3>5, <4>1
      <4>2. CASE ~(given[file] <= Directory[file])
        <5>1. Changed(file) /\ Given(file) = Directory[file]
          BY <1>0, <3>5, <4>2 DEF Changed, Given
        <5>2. ~ \E f \in 1 .. file - 1 : Changed(f)
          BY <1>4, <3>2 DEF CInv, LoopInv
        <5>3. Creator!Gap = Creator!Start[file] + Directory[file]
          BY <1>0, <5>1, <5>2, GapIs
        <5>. QED
          BY <1>0, <1>9, <3>3, <3>5, <3>6, <5>3
      <4>. QED
        BY <4>1, <4>2
    <3>8. ReadInto[k] = Creator!Start[file] + (position + (k - b) - 1)
      BY <3>4, <3>7 DEF Creator!Byte
    <3>. QED
      BY <1>0, <3>3, <3>5, <3>6, <3>8
  <2>. QED
    BY <2>1, <2>2
<1>10. Genuine(Len(hashes) + 1, ReadInto)
  BY <1>3, <1>7, <1>9
<1>. QED
  BY <1>6, <1>7, <1>8, <1>10 DEF n, b

LEMMA ReadKeeps ==
    ASSUME TypeOK, CInv, UNCHANGED vars, Creator!ReadBlock
    PROVE  CInv'
<1>. DEFINE n == Creator!ReadBytes
<1>1. PICK filled : filled = ReadInto
  OBVIOUS
<1>2. /\ stage = "read" /\ position' = position + n
      /\ IF Len(filled) = piece_length
         THEN hashes' = Append(hashes, filled) /\ block' = <<>>
         ELSE block' = filled /\ hashes' = hashes
      /\ IF n < Creator!BytesToRead
         THEN stage' = "open" /\ file' = file + 1
         ELSE stage' = stage /\ file' = file
      /\ UNCHANGED <<has_path, length, given, piece_length, rc, made>>
  BY <1>1, CreationKeeps DEF Creator!ReadBlock, Creator!Next, GivenNow, ReadInto
<1>3. /\ n \in Nat /\ Creator!BytesToRead \in Nat /\ n <= Creator!BytesToRead
      /\ position + n <= given[file]
      /\ n < Creator!BytesToRead => position + n = given[file]
      /\ filled \in Seq(Int) /\ Len(filled) = Len(block) + n /\ Len(filled) <= piece_length
      /\ Genuine(Len(hashes) + 1, filled)
  BY <1>1, <1>2, OneRead
<1>. HIDE DEF n
<1>4. /\ Directory' = Directory /\ Creator!Start' = Creator!Start
      /\ Creator!file_count' = Creator!file_count /\ Creator!Gap' = Creator!Gap
      /\ (Creator!Grown' <=> Creator!Grown)
  BY <1>2, SameDirectory
<1>5. /\ file \in 1 .. Creator!file_count /\ Directory[file] \in Nat /\ GivenType
      /\ given[file] \in Int /\ given[file] # -1 /\ -1 <= given[file]
      /\ (~Creator!Grown => given[file] <= Directory[file])
      /\ Creator!Start[file + 1] = Creator!Start[file] + Directory[file]
      /\ Creator!Start[file] \in Nat /\ Creator!Gap \in Nat /\ Creator!file_count \in Nat
      /\ position \in Nat
  <2>1. TypeOK /\ CreatorTypes /\ stage # "foreign" /\ file <= Creator!file_count
    BY <1>2 DEF CInv, CreatorTypes
  <2>2. GivenType /\ given[file] # -1
    BY <1>2, <2>1 DEF CreatorTypes
  <2>. QED
    BY <1>2, <2>1, <2>2, AtFile, Numbers
<1>6. /\ Len(block) \in Nat /\ Len(hashes) \in Nat /\ piece_length \in Nat \ {0}
      /\ Len(hashes) * piece_length \in Nat
  BY Numbers DEF CInv
<1>7. GivenType'
  BY <1>2, <1>4, <1>5 DEF GivenType
<1>8. /\ Fed \in Nat /\ Here = Creator!Start[file] + position
      /\ ~Creator!Grown => Fed <= Here
  <2>1. ~Creator!Grown => Fed <= Here
    BY <1>2 DEF CInv, LoopInv
  <2>2. Fed \in Nat
    BY <1>6 DEF Fed
  <2>. QED
    BY <1>2, <2>1, <2>2 DEF Here
<1>9. /\ hashes' \in Seq(Seq(Int)) /\ block' \in Seq(Int)
      /\ Len(block') < piece_length /\ Fed' = Fed + n
      /\ \A k \in 1 .. Len(block') :
            Len(hashes') * piece_length + k <= Creator!Gap
                => block'[k] = Len(hashes') * piece_length + k - 1
      /\ \A p \in 1 .. Len(hashes') : Len(hashes'[p]) = piece_length /\ Genuine(p, hashes'[p])
  <2>1. /\ hashes \in Seq(Seq(Int))
        /\ \A p \in 1 .. Len(hashes) : Len(hashes[p]) = piece_length /\ Genuine(p, hashes[p])
    BY <1>2 DEF CInv, CreatorTypes, LoopInv
  <2>2. CASE Len(filled) = piece_length
    <3>1. hashes' = Append(hashes, filled) /\ block' = <<>> /\ Len(block') = 0
      BY <1>2, <2>2
    <3>2. /\ hashes' \in Seq(Seq(Int)) /\ Len(hashes') = Len(hashes) + 1
          /\ hashes'[Len(hashes) + 1] = filled
          /\ \A p \in 1 .. Len(hashes) : hashes'[p] = hashes[p]
      BY <1>3, <2>1, <3>1, AppendProperties
    <3>3. Fed' = Fed + n
      <4>1. Fed' = (Len(hashes) + 1) * piece_length + 0 /\ (Len(hashes) + 1) * piece_length \in Nat
        BY <1>2, <1>6, <3>1, <3>2 DEF Fed
      <4>2. Len(block) + n = piece_length /\ n \in Nat
        BY <1>3, <2>2
      <4>3. Fed' = Len(hashes) * piece_length + (Len(block) + n)
        BY <1>6, <4>1, <4>2, NextPiece
      <4>4. Fed = Len(hashes) * piece_length + Len(block)
        BY DEF Fed
      <4>. QED
        BY <1>6, <4>2, <4>3, <4>4, Sums
    <3>4. ASSUME NEW p \in 1 .. Len(hashes')
          PROVE  Len(hashes'[p]) = piece_length /\ Genuine(p, hashes'[p])
      <4>1. p \in 1 .. Len(hashes) \/ p = Len(hashes) + 1
        BY <1>6, <3>2
      <4>. QED
        BY <1>3, <2>1, <2>2, <3>2, <4>1
    <3>. QED
      BY <1>6, <3>1, <3>2, <3>3, <3>4, EmptySeq
  <2>3. CASE Len(filled) # piece_length
    <3>1. hashes' = hashes /\ block' = filled
      BY <1>2, <2>3
    <3>2. Fed' = Fed + n
      <4>1. Fed' = Len(hashes) * piece_length + (Len(block) + n)
        BY <1>2, <1>3, <3>1 DEF Fed
      <4>2. Fed = Len(hashes) * piece_length + Len(block)
        BY DEF Fed
      <4>. QED
        BY <1>6, <1>3, <4>1, <4>2, Sums
    <3>3. \A k \in 1 .. Len(filled) :
             Len(hashes) * piece_length + k <= Creator!Gap
                 => filled[k] = Len(hashes) * piece_length + k - 1
      <4>1. (Len(hashes) + 1) - 1 = Len(hashes)
        BY <1>6
      <4>. QED
        BY <1>3, <4>1 DEF Genuine
    <3>4. Len(filled) < piece_length
      BY <1>3, <1>6, <2>3
    <3>. QED
      BY <1>3, <2>1, <3>1, <3>2, <3>3, <3>4
  <2>. QED
    BY <2>2, <2>3
<1>10. Fed' = Fed + n
  BY <1>9
<1>11. n \in Nat
  BY <1>3
<1>12. position + n <= given[file]
  BY <1>3
<1>13. Here \in Nat
  BY <1>5, <1>8
<1>14. /\ stage' \in {"open", "read"} /\ file' \in 1 .. Creator!file_count + 1
       /\ stage' = "read" => file' <= Creator!file_count /\ position' \in 0 .. given[file']
                             /\ given[file'] # -1
       /\ ~Creator!Grown => Fed' <= Here'
       /\ IF \E f \in 1 .. file' - 1 : Changed(f) THEN Creator!Gap <= Fed' ELSE Fed' = Here'
  <2>1. CASE n < Creator!BytesToRead
    <3>1. stage' = "open" /\ file' = file + 1 /\ position + n = given[file]
      BY <1>2, <1>3, <2>1
    <3>2. Here' = Creator!Start[file] + Directory[file]
      BY <1>4, <1>5, <3>1 DEF Here
    <3>3. ~Creator!Grown => Fed' <= Here'
      BY <1>5, <1>8, <1>10, <1>11, <1>12, <3>1, <3>2
    <3>4. CASE \E f \in 1 .. file - 1 : Changed(f)
      <4>1. Creator!Gap <= Fed
        BY <1>2, <3>4 DEF CInv, LoopInv
      <4>2. \E f \in 1 .. file' - 1 : Changed(f)
        BY <1>5, <3>1, <3>4
      <4>. QED
        BY <1>5, <1>8, <1>10, <1>11, <3>1, <3>3, <4>1, <4>2
    <3>5. CASE ~ \E f \in 1 .. file - 1 : Changed(f)
      <4>1. Fed = Creator!Start[file] + position
        BY <1>2, <1>8, <3>5 DEF CInv, LoopInv
      <4>2. CASE Changed(file)
        <5>1. Creator!Gap = Creator!Start[file] + Given(file)
          BY <1>5, <3>5, <4>2, GapIs
        <5>4. Given(file) \in Nat /\ Given(file) <= given[file]
          BY <1>5 DEF Given
        <5>2. Creator!Gap <= Fed'
          BY <1>5, <1>10, <1>11, <3>1, <4>1, <5>1, <5>4
        <5>3. file \in 1 .. file' - 1
          BY <1>5, <3>1
        <5>. QED
          BY <1>5, <3>1, <3>3, <4>2, <5>2, <5>3
      <4>3. CASE ~Changed(file)
        <5>1. given[file] = Directory[file]
          BY <1>5, <4>3 DEF Changed
        <5>2. Fed' = Here'
          BY <1>5, <1>10, <1>11, <3>1, <3>2, <4>1, <5>1
        <5>3. ~ \E f \in 1 .. file' - 1 : Changed(f)
          BY <1>5, <3>1, <3>5, <4>3
        <5>. QED
          BY <1>5, <3>1, <3>3, <5>2, <5>3
      <4>. QED
        BY <4>2, <4>3
    <3>. QED
      BY <3>4, <3>5
  <2>2. CASE ~(n < Creator!BytesToRead)
    <3>1. stage' = "read" /\ file' = file
      BY <1>2, <2>2
    <3>2. Here' = Here + n
      BY <1>2, <1>4, <1>5, <1>8, <1>11, <3>1 DEF Here
    <3>3. position' \in 0 .. given[file]
      BY <1>2, <1>5, <1>11, <1>12
    <3>4. IF \E f \in 1 .. file - 1 : Changed(f) THEN Creator!Gap <= Fed ELSE Fed = Here
      BY <1>2 DEF CInv, LoopInv
    <3>5. /\ ~Creator!Grown => Fed' <= Here'
          /\ Fed = Here => Fed' = Here'
          /\ Creator!Gap <= Fed => Creator!Gap <= Fed'
      <4>1. Fed \in Nat /\ (~Creator!Grown => Fed <= Here) /\ Creator!Gap \in Nat
        BY <1>5, <1>8
      <4>. QED
        BY <1>10, <1>11, <1>13, <3>2, <4>1
    <3>6. file' \in 1 .. Creator!file_count + 1 /\ file' <= Creator!file_count
      BY <1>5, <3>1
    <3>. QED
      BY <1>5, <3>1, <3>3, <3>4, <3>5, <3>6
  <2>. QED
    BY <2>1, <2>2
<1>15. \A f : Changed(f)' <=> Changed(f)
  BY <1>2, <1>4 DEF Changed
<1>16. LoopInv'
  <2>1. Genuine(Len(hashes) + 1, block)'
    BY <1>2, <1>4, <1>6, <1>9 DEF Genuine
  <2>2. \A p \in 1 .. Len(hashes') : Len(hashes'[p]) = piece_length' /\ Genuine(p, hashes[p])'
    BY <1>2, <1>4, <1>9 DEF Genuine
  <2>. QED
    BY <1>2, <1>4, <1>9, <1>14, <1>15, <2>1, <2>2 DEF LoopInv
<1>17. CreatorTypes'
  BY <1>2, <1>4, <1>7, <1>9, <1>14 DEF CInv, CreatorTypes
<1>. QED
  BY <1>14, <1>16, <1>17 DEF CInv, HashedInv, MadeInv, AddedInv

LEMMA NoFilesKeeps ==
    ASSUME TypeOK, CInv, UNCHANGED vars, Creator!NoFiles
    PROVE  CInv'
<1>1. /\ stage = "open" /\ stage' = "returned" /\ rc' = -1
      /\ UNCHANGED <<has_path, length, given, piece_length, file, block, hashes, made>>
  BY CreationKeeps DEF Creator!NoFiles, Creator!Return, Creator!Next
<1>2. /\ Directory' = Directory /\ Creator!file_count' = Creator!file_count
      /\ Creator!num_pieces' = Creator!num_pieces /\ (Creator!Grown' <=> Creator!Grown)
  BY <1>1, SameDirectory
<1>3. Room
  BY <1>1, HashesFit DEF CInv, Room
<1>4. MadeInv'
  BY <1>1, <1>2, <1>3 DEF MadeInv, Room
<1>5. GivenType /\ file \in 1 .. Creator!file_count + 1
  BY <1>1 DEF CInv, CreatorTypes
<1>6. CreatorTypes'
  BY <1>1, <1>2, <1>5 DEF CInv, CreatorTypes, GivenType
<1>. QED
  BY <1>1, <1>4, <1>6 DEF CInv, LoopInv, HashedInv, AddedInv

\* After the loop, the bytes that were read are all there are, or reach the gap.
LEMMA AllRead ==
    ASSUME TypeOK, CInv, stage = "open", file = Creator!file_count + 1
    PROVE  Creator!Gap <= Fed /\ (~Creator!Grown => Fed <= Creator!total_size)
<1>1. ~Creator!Grown => Fed <= Creator!total_size
  BY HashesFit DEF CInv
<1>2. Here = Creator!total_size
  <2>1. Creator!Start[file] \in Nat
    BY Numbers DEF CInv
  <2>. QED
    BY <2>1 DEF Here, Creator!total_size
<1>3. CASE \E f \in 1 .. file - 1 : Changed(f)
  BY <1>1, <1>3 DEF CInv, LoopInv
<1>4. CASE ~ \E f \in 1 .. file - 1 : Changed(f)
  <2>1. Fed = Creator!total_size
    BY <1>2, <1>4 DEF CInv, LoopInv
  <2>2. file - 1 = Creator!file_count
    BY Numbers DEF CInv
  <2>3. Creator!Gap = Creator!total_size
    BY <1>4, <2>2, GapIs DEF CInv, CreatorTypes
  <2>. QED
    BY <2>1, <2>3, Numbers DEF CInv
<1>. QED
  BY <1>3, <1>4

\* A sequence of the length of a piece with the bytes of the piece is the piece.
LEMMA IsRun ==
    ASSUME NEW s \in Seq(Int), NEW from \in Int, \A k \in 1 .. Len(s) : s[k] = from + k - 1
    PROVE  s = Run(from, Len(s))
<1>1. s = [k \in 1 .. Len(s) |-> s[k]]
  BY LenProperties
<1>. QED
  BY <1>1 DEF Run

LEMMA TailKeeps ==
    ASSUME TypeOK, CInv, UNCHANGED vars, Creator!HashTail
    PROVE  CInv'
<1>1. /\ stage = "open" /\ stage' = "write" /\ file = Creator!file_count + 1
      /\ hashes' = IF Len(block) > 0 THEN Append(hashes, block) ELSE hashes
      /\ UNCHANGED <<has_path, length, given, piece_length, file, block, rc, made>>
  BY CreationKeeps DEF Creator!HashTail, Creator!HasTail, Creator!Next
<1>2. /\ Directory' = Directory /\ Creator!file_count' = Creator!file_count
      /\ Creator!num_pieces' = Creator!num_pieces /\ Creator!Gap' = Creator!Gap
      /\ Creator!total_size' = Creator!total_size /\ (Creator!Grown' <=> Creator!Grown)
  BY <1>1, SameDirectory
<1>3. /\ hashes \in Seq(Seq(Int)) /\ block \in Seq(Int) /\ GivenType
      /\ Len(block) < piece_length /\ Genuine(Len(hashes) + 1, block)
      /\ \A p \in 1 .. Len(hashes) : Len(hashes[p]) = piece_length /\ Genuine(p, hashes[p])
  BY <1>1 DEF CInv, CreatorTypes, LoopInv
<1>4. /\ Len(hashes) \in Nat /\ Len(block) \in Nat /\ piece_length \in Nat \ {0}
      /\ Creator!total_size \in Nat /\ Creator!num_pieces \in Nat /\ Creator!Gap \in Nat
      /\ Len(hashes) * piece_length \in Nat
  BY <1>1, Numbers DEF CInv
<1>5. /\ hashes' \in Seq(Seq(Int))
      /\ \A p \in 1 .. Len(hashes) : hashes'[p] = hashes[p]
      /\ Len(block) > 0 => Len(hashes') = Len(hashes) + 1 /\ hashes'[Len(hashes) + 1] = block
      /\ ~(Len(block) > 0) => Len(hashes') = Len(hashes)
  BY <1>1, <1>3, AppendProperties
<1>6. /\ ~Creator!Grown => Len(hashes) * piece_length + Len(block) <= Creator!total_size
      /\ Creator!Gap <= Len(hashes) * piece_length + Len(block)
      /\ Creator!Gap <= Creator!total_size
  BY <1>1, <1>3, AllRead, GapIs DEF Fed
<1>7. ASSUME ~Creator!Grown PROVE Len(hashes') <= Creator!num_pieces
  <2>1. CASE Len(block) > 0
    <3>1. Len(hashes) * piece_length < Creator!total_size
      BY <1>4, <1>6, <1>7, <2>1
    <3>2. Len(hashes) < Creator!num_pieces
      BY <1>4, <3>1, IsPiece DEF CInv
    <3>. QED
      BY <1>4, <1>5, <2>1, <3>2
  <2>2. CASE ~(Len(block) > 0)
    <3>1. Len(hashes) <= Creator!num_pieces
      BY <1>1, <1>7, HashesFit DEF CInv
    <3>. QED
      BY <1>5, <2>2, <3>1
  <2>. QED
    BY <2>1, <2>2
<1>8. ASSUME NEW p \in 0 .. Creator!num_pieces - 1, Sure(p)
      PROVE  p < Len(hashes') /\ hashes'[p + 1] = Bytes(p)
  <2>1. p \in Nat /\ p * piece_length < Creator!total_size /\ p * piece_length \in Nat
    BY <1>4, IsPiece DEF CInv
  <2>2. /\ EndOf(p) \in Nat /\ EndOf(p) <= Creator!Gap
        /\ EndOf(p) <= Len(hashes) * piece_length + Len(block)
    BY <1>4, <1>6, <1>8, <2>1 DEF EndOf, Smaller, Sure
  <2>3. \/ p < Len(hashes) /\ EndOf(p) - p * piece_length = piece_length
        \/ p = Len(hashes) /\ Len(block) > 0 /\ EndOf(p) - p * piece_length = Len(block)
    <3>1. /\ EndOf(p) = IF p * piece_length + piece_length < Creator!total_size
                         THEN p * piece_length + piece_length ELSE Creator!total_size
          /\ Len(block) < piece_length
      BY <1>3 DEF EndOf, Smaller
    <3>2. CASE p * piece_length + piece_length <= Creator!Gap
      <4>1. p * piece_length + piece_length <= Creator!total_size
        BY <1>4, <1>6, <2>1, <3>2
      <4>2. EndOf(p) - p * piece_length = piece_length
        BY <1>4, <2>1, <3>1, <4>1
      <4>3. p < Len(hashes)
        <5>1. ASSUME ~(p < Len(hashes)) PROVE FALSE
          <6>1. Len(hashes) * piece_length <= p * piece_length
            BY <1>4, <2>1, <5>1
          <6>. QED
            BY <1>4, <1>6, <2>1, <3>1, <3>2, <6>1
        <5>. QED
          BY <5>1
      <4>. QED
        BY <4>2, <4>3
    <3>3. CASE ~(p * piece_length + piece_length <= Creator!Gap)
      <4>1. Len(hashes) * piece_length + Len(block) <= Creator!total_size
        BY <1>6, <1>8, <3>3 DEF Sure
      <4>2. CASE p < Len(hashes)
        <5>1. p * piece_length + piece_length <= Len(hashes) * piece_length
          BY <1>4, <2>1, <4>2, NextPieces
        <5>2. p * piece_length + piece_length <= Creator!total_size
          BY <1>4, <2>1, <4>1, <5>1
        <5>. QED
          BY <1>4, <2>1, <3>1, <4>2, <5>2
      <4>3. CASE p = Len(hashes)
        <5>1. p * piece_length = Len(hashes) * piece_length
          BY <4>3
        <5>. QED
          BY <1>4, <2>1, <2>2, <3>1, <4>1, <4>3, <5>1
      <4>4. CASE Len(hashes) < p
        <5>1. Len(hashes) * piece_length + piece_length <= p * piece_length
          BY <1>4, <2>1, <4>4, NextPieces
        <5>. QED
          BY <1>4, <2>1, <2>2, <3>1, <4>1, <5>1
      <4>. QED
        BY <1>4, <2>1, <4>2, <4>3, <4>4
    <3>. QED
      BY <3>2, <3>3
  <2>4. PICK s \in Seq(Int) : /\ s = hashes'[p + 1] /\ p < Len(hashes') /\ Genuine(p + 1, s)
                              /\ Len(s) = EndOf(p) - p * piece_length
    <3>1. CASE p < Len(hashes)
      <4>1. p + 1 \in 1 .. Len(hashes)
        BY <1>4, <2>1, <3>1
      <4>2. hashes[p + 1] \in Seq(Int)
        BY <1>3, <4>1, ElementOfSeq
      <4>3. p < Len(hashes')
        BY <1>4, <1>5, <3>1, <2>1
      <4>. QED
        BY <1>3, <1>5, <2>1, <2>3, <3>1, <4>1, <4>2, <4>3
    <3>2. CASE ~(p < Len(hashes))
      <4>1. p = Len(hashes) /\ Len(block) > 0 /\ EndOf(p) - p * piece_length = Len(block)
        BY <2>3, <3>2
      <4>2. Len(hashes') = Len(hashes) + 1 /\ hashes'[p + 1] = block /\ p < Len(hashes')
        BY <1>4, <1>5, <4>1
      <4>. QED
        BY <1>3, <4>1, <4>2
    <3>. QED
      BY <3>1, <3>2
  <2>5. ASSUME NEW k \in 1 .. Len(s) PROVE s[k] = p * piece_length + k - 1
    <3>1. p * piece_length + k <= EndOf(p)
      BY <2>1, <2>2, <2>4
    <3>2. (p + 1) - 1 = p /\ p * piece_length + k <= Creator!Gap
      BY <1>4, <1>8, <2>1, <2>2, <3>1
    <3>. QED
      BY <2>4, <3>2 DEF Genuine
  <2>6. s = Run(p * piece_length, Len(s))
    BY <2>1, <2>5, IsRun
  <2>. QED
    BY <2>4, <2>6 DEF Bytes
<1>9. HashedInv'
  <2>1. \A p : EndOf(p)' = EndOf(p) /\ Bytes(p)' = Bytes(p) /\ (Sure(p)' <=> Sure(p))
    BY <1>1, <1>2 DEF EndOf, Bytes, Sure
  <2>. QED
    BY <1>2, <1>7, <1>8, <2>1 DEF HashedInv, Holds, Room
<1>10. CreatorTypes'
  <2>1. file \in 1 .. Creator!file_count + 1
    BY <1>1 DEF CInv, CreatorTypes
  <2>2. GivenType'
    BY <1>1, <1>2, <1>3 DEF GivenType
  <2>. QED
    BY <1>1, <1>2, <1>3, <1>4, <1>5, <2>1, <2>2 DEF CreatorTypes
<1>. QED
  BY <1>1, <1>9, <1>10 DEF CInv, LoopInv, MadeInv, AddedInv

LEMMA WriteKeeps ==
    ASSUME TypeOK, CInv, UNCHANGED vars, Creator!WriteTorrent
    PROVE  CInv'
<1>1. /\ stage = "write" /\ stage' = "returned"
      /\ UNCHANGED <<has_path, length, given, piece_length, file, block, hashes>>
      /\ \/ rc' = -1
         \/ rc' = 0 /\ made' = [q \in 1 .. Creator!num_pieces |->
                                  IF q <= Len(hashes) THEN hashes[q] ELSE Creator!Unset]
  BY CreationKeeps DEF Creator!WriteTorrent, Creator!Return, Creator!Next
<1>2. /\ Directory' = Directory /\ Creator!file_count' = Creator!file_count
      /\ Creator!num_pieces' = Creator!num_pieces /\ Creator!Gap' = Creator!Gap
      /\ Creator!total_size' = Creator!total_size /\ (Creator!Grown' <=> Creator!Grown)
  BY <1>1, SameDirectory
<1>3. /\ Len(hashes) \in Nat /\ Creator!num_pieces \in Nat /\ GivenType
      /\ Room /\ Holds(hashes, Len(hashes))
  BY <1>1, Numbers DEF CInv, CreatorTypes, HashedInv
<1>4. ASSUME rc' = 0, NEW p \in 0 .. Creator!num_pieces - 1, Sure(p)
      PROVE  made'[p + 1] = Bytes(p)
  <2>1. made' = [q \in 1 .. Creator!num_pieces |->
                   IF q <= Len(hashes) THEN hashes[q] ELSE Creator!Unset]
    BY <1>1, <1>4
  <2>2. p < Len(hashes) /\ hashes[p + 1] = Bytes(p)
    BY <1>3, <1>4 DEF Holds
  <2>3. p + 1 \in 1 .. Creator!num_pieces /\ p + 1 <= Len(hashes)
    BY <1>3, <2>2
  <2>. QED
    BY <2>1, <2>2, <2>3
<1>5. MadeInv'
  <2>1. \A p : EndOf(p)' = EndOf(p) /\ Bytes(p)' = Bytes(p) /\ (Sure(p)' <=> Sure(p))
    BY <1>1, <1>2 DEF EndOf, Bytes, Sure
  <2>2. rc' = 0 => made' = [q \in 1 .. Creator!num_pieces |-> made'[q]]
    BY <1>1
  <2>3. rc' = 0 => \A p \in 0 .. Creator!num_pieces - 1 : Sure(p)
                      => p < Creator!num_pieces /\ made'[p + 1] = Bytes(p)
    BY <1>3, <1>4
  <2>. QED
    BY <1>1, <1>2, <1>3, <2>1, <2>2, <2>3 DEF MadeInv, Holds, Room
<1>6. CreatorTypes'
  <2>1. GivenType'
    BY <1>1, <1>2, <1>3 DEF GivenType
  <2>. QED
    BY <1>1, <1>2, <2>1 DEF CInv, CreatorTypes
<1>. QED
  BY <1>1, <1>5, <1>6 DEF CInv, LoopInv, HashedInv, AddedInv

\* Only files that have grown make a hash be written behind the room for them.
LEMMA OverrunKeeps ==
    ASSUME TypeOK, CInv, UNCHANGED vars, Creator!Overrun
    PROVE  CInv'
<1>1. /\ stage \in {"open", "read", "write"} /\ stage' = "killed"
      /\ UNCHANGED <<has_path, length, given, piece_length, file, block, hashes, rc, made>>
  BY CreationKeeps DEF Creator!Overrun, Creator!Next
<1>2. /\ Directory' = Directory /\ Creator!file_count' = Creator!file_count
      /\ Creator!num_pieces' = Creator!num_pieces /\ (Creator!Grown' <=> Creator!Grown)
  BY <1>1, SameDirectory
<1>3. Room
  BY <1>1, HashesFit DEF CInv, Room, HashedInv
<1>4. MadeInv'
  BY <1>1, <1>2, <1>3 DEF MadeInv, Room
<1>5. GivenType /\ file \in 1 .. Creator!file_count + 1
  BY <1>1 DEF CInv, CreatorTypes
<1>6. CreatorTypes'
  BY <1>1, <1>2, <1>5 DEF CInv, CreatorTypes, GivenType
<1>. QED
  BY <1>1, <1>4, <1>6 DEF CInv, LoopInv, HashedInv, AddedInv

\* Where nothing of the creation changes, the invariant holds on.
LEMMA SameCreation ==
    ASSUME CInv, UNCHANGED <<has_path, length, given, piece_length, file, position, block, hashes,
                             rc, made>>,
           stage' = stage \/ (stage = "returned" /\ stage' = "added" /\ AddedInv')
    PROVE  CInv'
<1>1. /\ Directory' = Directory /\ Creator!file_count' = Creator!file_count
      /\ Creator!Start' = Creator!Start
      /\ Creator!num_pieces' = Creator!num_pieces /\ Creator!Gap' = Creator!Gap
      /\ Creator!total_size' = Creator!total_size /\ (Creator!Grown' <=> Creator!Grown)
  BY SameDirectory
<1>2. CreatorTypes'
  BY <1>1 DEF CInv, CreatorTypes, GivenType
<1>3. LoopInv'
  <2>1. SUFFICES ASSUME stage' \in {"open", "read"} PROVE LoopInv'
    BY DEF LoopInv
  <2>2. stage' = stage /\ stage \in {"open", "read"}
    BY <2>1
  <2>3. Fed' = Fed /\ Here' = Here /\ \A f : Changed(f)' <=> Changed(f)
    BY <1>1, <2>2 DEF Fed, Here, Changed
  <2>4. Genuine(Len(hashes) + 1, block)' <=> Genuine(Len(hashes) + 1, block)
    BY <1>1 DEF Genuine
  <2>5. \A p : Genuine(p, hashes[p])' <=> Genuine(p, hashes[p])
    BY <1>1 DEF Genuine
  <2>. QED
    BY <1>1, <2>2, <2>3, <2>4, <2>5 DEF CInv, LoopInv
<1>4. HashedInv' /\ MadeInv'
  <2>1. \A p : EndOf(p)' = EndOf(p) /\ Bytes(p)' = Bytes(p) /\ (Sure(p)' <=> Sure(p))
    BY <1>1 DEF EndOf, Bytes, Sure
  <2>2. Room' <=> Room
    BY <1>1 DEF Room
  <2>. QED
    BY <1>1, <2>1, <2>2 DEF CInv, HashedInv, MadeInv, Holds
<1>5. AddedInv'
  BY <1>1 DEF CInv, AddedInv
<1>. QED
  BY <1>2, <1>3, <1>4, <1>5 DEF CInv

LEMMA AddKeeps == ASSUME CInv, Add PROVE CInv'
<1>1. /\ stage = "returned" /\ stage' = "added" /\ rc = 0 /\ piece_length = PieceLength
      /\ given = Directory
      /\ UNCHANGED <<has_path, length, given, piece_length, file, position, block, hashes, rc, made>>
  BY DEF Add, ReadToItsEnd, vars, torrent
<1>2. Directory' = Directory
  BY <1>1, SameDirectory
<1>3. AddedInv'
  BY <1>1, <1>2 DEF AddedInv
<1>. QED
  BY <1>1, <1>3, SameCreation

\* A step of FileSaver changes neither the lengths of the files nor their paths.
LEMMA TorrentKept == [Next]_vars => UNCHANGED <<has_path, length>>
  BY DEF Next, vars, FillEntry, Filled, ReadSkipped, ReadMissing, ReadFile, Return,
         VerificationDone, StartWrite, WriteSkipped, WriteFile, WriteFileBadly, CannotOpen,
         Advance, Restart, torrent

LEMMA NextCInv == TypeOK /\ CInv /\ [CreateNext]_<<vars, creation>> => CInv'
<1>. SUFFICES ASSUME TypeOK, CInv, [CreateNext]_<<vars, creation>> PROVE CInv'
  OBVIOUS
<1>1. CASE UNCHANGED vars /\ Creator!Next
  BY <1>1, NoFilesKeeps, OpenKeeps, ReadKeeps, TailKeeps, WriteKeeps, OverrunKeeps
  DEF Creator!Next
<1>2. CASE Add
  BY <1>2, AddKeeps
<1>3. CASE [Next]_vars /\ UNCHANGED creation
  <2>1. UNCHANGED <<has_path, length, given, piece_length, file, position, block, hashes, rc, made,
                    stage>>
    BY <1>3, TorrentKept DEF creation
  <2>. QED
    BY <2>1, SameCreation
<1>. QED
  BY <1>1, <1>2, <1>3 DEF CreateNext

\* The property, in the words of the invariant.
LEMMA CInvSame == TypeOK /\ CInv => SameAsDownload
<1>. SUFFICES ASSUME TypeOK, CInv PROVE SameAsDownload
  OBVIOUS
<1>1. /\ Creator!num_pieces \in Nat /\ Len(hashes) \in Nat
      /\ Creator!num_pieces = (Creator!total_size + piece_length - 1) \div piece_length
  BY Numbers DEF CInv, Creator!num_pieces
<1>2. Room
  <2>1. CASE stage = "foreign"
    <3>1. Len(hashes) = 0
      BY <2>1 DEF CInv, CreatorTypes
    <3>. QED
      BY <1>1, <3>1 DEF Room
  <2>2. CASE stage \in {"open", "read"}
    BY <2>2, HashesFit DEF CInv, Room
  <2>3. CASE stage \in {"write", "returned", "added", "killed"}
    BY <2>3 DEF CInv, HashedInv, MadeInv
  <2>. QED
    BY <2>1, <2>2, <2>3 DEF CInv, CreatorTypes
<1>3. ASSUME stage = "returned", rc = 0, NEW p \in 0 .. Creator!num_pieces - 1
      PROVE  LET first == p * piece_length
                 end   == IF first + piece_length < Creator!total_size
                          THEN first + piece_length ELSE Creator!total_size
             IN  (first + piece_length <= Creator!Gap \/ (end <= Creator!Gap /\ ~Creator!Grown))
                    => made[p + 1] = [k \in 1 .. end - first |-> first + k - 1]
  <2>1. Sure(p) => made[p + 1] = Bytes(p)
    BY <1>3 DEF CInv, MadeInv, Holds
  <2>. QED
    BY <2>1 DEF EndOf, Bytes, Run, Smaller, Sure
<1>. QED
  BY <1>1, <1>2, <1>3 DEF SameAsDownload, Creator!SameAsDownload, Room

------------------------------------------------------------------------------
(* The two origins of a torrent *)

\* The files of a directory that come first are all that have a path.
LEMMA InFront ==
    ASSUME NEW n \in 0 .. NumFiles, has_path = [f \in Files |-> f <= n]
    PROVE  n = Creator!file_count /\ \A f \in Files : has_path[f] <=> f <= n
<1>1. \A f \in Files : has_path[f] <=> f <= n
  OBVIOUS
<1>2. {f \in Files : has_path[f]} = 1 .. n
  <2>1. n \in Nat /\ n <= NumFiles /\ NumFiles \in Nat
    BY FileSaverAssumption
  <2>2. ASSUME NEW f \in Files, has_path[f] PROVE f \in 1 .. n
    BY <1>1, <2>1, <2>2 DEF Files
  <2>3. ASSUME NEW f \in 1 .. n PROVE f \in Files /\ has_path[f]
    <3>1. f \in Files /\ f <= n
      BY <2>1 DEF Files
    <3>. QED
      BY <1>1, <3>1
  <2>. QED
    BY <2>2, <2>3
<1>3. Cardinality(1 .. n) = n
  BY FS_Interval, FileSaverAssumption
<1>4. Directory = [f \in 1 .. n |-> length[f]]
  BY <1>2, <1>3 DEF Directory
<1>5. Len(Directory) = n
  BY <1>4, FileSaverAssumption
<1>. QED
  BY <1>1, <1>5 DEF Creator!file_count

\* What a directory holds when a torrent is made of it.
LEMMA MadeDirectory ==
    ASSUME Made
    PROVE  /\ LengthType /\ Creator!file_count \in 0 .. NumFiles
           /\ has_path \in [Files -> BOOLEAN]
           /\ \A f \in Files : has_path[f] <=> f <= Creator!file_count
           /\ \A f \in Files : ~has_path[f] => length[f] = 0
           /\ \A f \in Files : length[f] > 0 =>
                 f <= Creator!file_count /\ Creator!Start[f] \in Nat
           /\ Unread
<1>1. PICK n \in 0 .. NumFiles : has_path = [f \in Files |-> f <= n]
  BY DEF Made
<1>2. LengthType /\ (\A f \in Files : ~has_path[f] => length[f] = 0) /\ Unread
  BY DEF Made, LengthType
<1>3. n = Creator!file_count /\ \A f \in Files : has_path[f] <=> f <= n
  BY <1>1, InFront
<1>4. has_path \in [Files -> BOOLEAN]
  BY <1>1
<1>5. ASSUME NEW f \in Files, length[f] > 0
      PROVE  f <= Creator!file_count /\ Creator!Start[f] \in Nat
  <2>1. f <= Creator!file_count
    BY <1>2, <1>3, <1>5
  <2>2. f \in 1 .. Creator!file_count + 1
    BY <1>3, <2>1, FileSaverAssumption DEF Files
  <2>. QED
    BY <1>2, <2>1, <2>2, StartGrows
<1>. QED
  BY <1>2, <1>3, <1>4, <1>5

\* Where the ranges of the files of a directory start, for all files.
Origin == [f \in Files |->
              IF f <= Creator!file_count + 1 THEN Creator!Start[f] ELSE Creator!total_size]

LEMMA OriginChain ==
    ASSUME LengthType, \A f \in Files : has_path[f] <=> f <= Creator!file_count,
           \A f \in Files : ~has_path[f] => length[f] = 0
    PROVE  /\ Origin \in [Files -> Nat] /\ Chain(Origin)
           /\ Origin[NumFiles] + length[NumFiles] = Creator!total_size
<1>. DEFINE n == Creator!file_count
<1>1. /\ n \in Nat /\ n <= NumFiles /\ NumFiles \in Nat \ {0}
      /\ \A f \in 1 .. n : Directory[f] = length[f]
  BY DirectoryType, FileSaverAssumption
<1>2. /\ Creator!Start[1] = 0 /\ Creator!total_size \in Nat
      /\ \A f \in 1 .. n : Creator!Start[f + 1] = Creator!Start[f] + length[f]
      /\ \A f \in 1 .. n + 1 : Creator!Start[f] \in Nat
  BY <1>1, StartNext, StartGrows
<1>3. Creator!Start[n + 1] = Creator!total_size
  BY DEF Creator!total_size
<1>4. \A f \in Files : length[f] \in Nat /\ (f > n => length[f] = 0)
  BY <1>1, FileSaverAssumption DEF LengthType, Files
<1>. HIDE DEF n
<1>5. /\ Origin = [f \in Files |-> IF f <= n + 1 THEN Creator!Start[f] ELSE Creator!total_size]
      /\ \A f \in Files : f \in Nat \ {0} /\ f <= NumFiles
      /\ \A f \in Nat \ {0} : f <= NumFiles => f \in Files
  BY <1>1 DEF Origin, n, Files
<1>6. ASSUME NEW f \in Files PROVE Origin[f] \in Nat
  BY <1>1, <1>2, <1>5
<1>7. Origin[1] = 0
  BY <1>1, <1>2, <1>5
<1>8. ASSUME NEW f \in Files
      PROVE  Origin[f] + length[f] = IF f + 1 <= n + 1 THEN Creator!Start[f + 1] ELSE Creator!total_size
  <2>1. CASE f <= n
    BY <1>1, <1>2, <1>5, <2>1
  <2>2. CASE f = n + 1
    BY <1>1, <1>2, <1>3, <1>4, <1>5, <2>2
  <2>3. CASE f > n + 1
    BY <1>1, <1>2, <1>4, <1>5, <2>3
  <2>. QED
    BY <1>1, <1>5, <2>1, <2>2, <2>3
<1>9. ASSUME NEW f \in 1 .. NumFiles - 1 PROVE Origin[f + 1] = Origin[f] + length[f]
  <2>1. f \in Files /\ f + 1 \in Files
    BY <1>1, <1>5
  <2>. QED
    BY <1>5, <1>8, <2>1
<1>10. Origin[NumFiles] + length[NumFiles] = Creator!total_size
  <2>1. NumFiles \in Files /\ (NumFiles + 1 <= n + 1 => NumFiles + 1 = n + 1)
    BY <1>1, <1>5
  <2>. QED
    BY <1>3, <1>8, <2>1
<1>11. Origin \in [Files -> Nat]
  BY <1>5, <1>6
<1>. QED
  BY <1>7, <1>9, <1>10, <1>11 DEF Chain

\* The lengths leave no choice of where the files start.
LEMMA OneChain ==
    ASSUME LengthType, NEW a, NEW b, Chain(a), Chain(b)
    PROVE  \A f \in Files : a[f] = b[f]
<1>. DEFINE Same == {k \in Nat : k + 1 \in Files => a[k + 1] = b[k + 1]}
<1>1. 0 \in Same
  BY DEF Chain
<1>2. ASSUME NEW k \in Nat, k \in Same PROVE k + 1 \in Same
  <2>1. SUFFICES ASSUME (k + 1) + 1 \in Files PROVE a[(k + 1) + 1] = b[(k + 1) + 1]
    OBVIOUS
  <2>2. k + 1 \in 1 .. NumFiles - 1 /\ k + 1 \in Files
    BY <2>1, FileSaverAssumption DEF Files
  <2>. QED
    BY <1>2, <2>2 DEF Chain
<1>3. ASSUME NEW f \in Files PROVE a[f] = b[f]
  <2>. HIDE DEF Same
  <2>1. f - 1 \in Nat /\ (f - 1) + 1 = f
    BY FileSaverAssumption DEF Files
  <2>2. f - 1 \in Same
    BY <1>1, <1>2, <2>1, SetInduction
  <2>. QED
    BY <2>1, <2>2 DEF Same
<1>. QED
  BY <1>3

LEMMA MadeIInv == Made => IInv /\ DInv
<1>. SUFFICES ASSUME Made PROVE IInv /\ DInv
  OBVIOUS
<1>1. /\ LengthType /\ has_path \in [Files -> BOOLEAN] /\ Unread
      /\ \A f \in Files : has_path[f] <=> f <= Creator!file_count
      /\ \A f \in Files : ~has_path[f] => length[f] = 0
      /\ \A f \in Files : length[f] > 0 => f <= Creator!file_count /\ Creator!Start[f] \in Nat
  BY MadeDirectory
<1>2. /\ content = [f \in Files |-> [o \in Offsets |->
                       IF o < length[f] THEN Creator!Start[f] + o ELSE Other]]
      /\ size = [f \in Files |-> IF has_path[f] THEN length[f] ELSE Absent]
  BY DEF Made
<1>3. NumFiles \in Nat \ {0} /\ MaxLength \in Nat /\ PieceLength \in Nat \ {0}
  BY FileSaverAssumption
<1>4. pc = "fill" /\ i = 1 /\ done = {} /\ piece = 0 /\ bytes = 0 /\ offset = 0 /\ faulty = FALSE
  BY <1>1 DEF Unread
<1>5. TypeOK
  <2>1. content \in [Files -> [Offsets -> Nat \cup {Other}]]
    <3>1. ASSUME NEW f \in Files, NEW o \in Offsets
          PROVE  (IF o < length[f] THEN Creator!Start[f] + o ELSE Other) \in Nat \cup {Other}
      <4>1. o \in Nat /\ length[f] \in Nat
        BY <1>1, <1>3 DEF Offsets, LengthType
      <4>2. o < length[f] => Creator!Start[f] \in Nat
        BY <1>1, <4>1
      <4>. QED
        BY <4>1, <4>2
    <3>. QED
      BY <1>2, <3>1
  <2>2. size \in [Files -> {Absent} \cup 0 .. MaxLength] /\ \A f \in Files : size[f] <= length[f]
    <3>1. \A f \in Files : length[f] \in 0 .. MaxLength
      BY <1>1 DEF LengthType
    <3>. QED
      BY <1>2, <1>3, <3>1 DEF Absent
  <2>3. buffer \in [Places -> Nat \cup {Other}]
    BY <1>1 DEF Unread
  <2>4. global_start \in [Files -> Nat] /\ global_end \in [Files -> Nat]
    BY <1>1 DEF Unread
  <2>5. has_path \in [Files -> BOOLEAN] /\ length \in [Files -> 0 .. MaxLength]
    BY <1>1 DEF LengthType
  <2>6. /\ offset \in Nat /\ done \subseteq Nat /\ pc = "fill" /\ i \in 1 .. NumFiles + 1
        /\ piece \in Nat /\ bytes \in Nat
    BY <1>3, <1>4
  <2>7. faulty \in BOOLEAN
    BY <1>4
  <2>. QED
    BY <2>1, <2>2, <2>3, <2>4, <2>5, <2>6, <2>7 DEF TypeOK
<1>6. KeptInv
  <2>1. Origin \in [Files -> Nat] /\ Chain(Origin)
    BY <1>1, OriginChain
  <2>2. ASSUME NEW f \in Files, NEW o \in Offsets, content[f][o] # Other
        PROVE  content[f][o] = Origin[f] + o
    <3>1. o < length[f] /\ content[f][o] = Creator!Start[f] + o
      BY <1>2, <2>2
    <3>2. o \in Nat /\ length[f] \in Nat /\ f \in Nat /\ Creator!file_count \in Nat
      BY <1>1, <1>3, DirectoryType DEF Offsets, LengthType, Files
    <3>3. f <= Creator!file_count + 1
      BY <1>1, <3>1, <3>2
    <3>. QED
      BY <3>1, <3>3 DEF Origin
  <2>3. Laid = 0
    BY <1>4 DEF Laid
  <2>4. \A f \in 1 .. Laid : global_start[f] = Origin[f]
    BY <2>3
  <2>. QED
    BY <2>1, <2>2, <2>4 DEF KeptInv
<1>7. Laid = 0
  BY <1>4 DEF Laid
<1>8. IInv
  BY <1>4, <1>5, <1>6, <1>7 DEF IInv, LayoutInv, WriteInv, InPlace
<1>9. DInv
  BY <1>1, <1>4, <1>7
  DEF DInv, SpreadInv, PathInv, PieceInv, WroteInv, ReadInv, Reading, VerifiedExactly, DoneIsOnDisk
<1>. QED
  BY <1>8, <1>9

LEMMA MadeCInv == Made => CInv /\ SeedInv
<1>. SUFFICES ASSUME Made PROVE CInv /\ SeedInv
  OBVIOUS
<1>1. /\ LengthType /\ Creator!file_count \in Nat /\ Unread
      /\ \A f \in Files : has_path[f] <=> f <= Creator!file_count
  BY MadeDirectory, FileSaverAssumption
<1>2. /\ stage = "open" /\ file = 1 /\ block = <<>> /\ hashes = <<>>
      /\ piece_length \in 1 .. MaxPiece
      /\ given \in [1 .. Creator!file_count -> {-1} \cup 0 .. MaxLength + MaxGrowth]
  BY DEF Made, Creator!Init, Creator!Unopened, Creator!file_count
<1>3. piece_length \in Nat \ {0}
  BY <1>2, CreateAssumption
<1>4. GivenType
  BY <1>2, FileSaverAssumption, CreateAssumption DEF GivenType
<1>5. CreatorTypes
  BY <1>1, <1>2, <1>3, <1>4 DEF CreatorTypes
<1>6. Len(block) = 0 /\ Len(hashes) = 0 /\ Creator!Start[1] = 0
  BY <1>1, <1>2, StartNext
<1>7. LoopInv
  <2>1. Fed = 0 /\ Here = 0
    BY <1>2, <1>3, <1>6 DEF Fed, Here
  <2>2. ~ \E f \in 1 .. file - 1 : Changed(f)
    BY <1>2
  <2>3. Genuine(Len(hashes) + 1, block)
    BY <1>6 DEF Genuine
  <2>. QED
    BY <1>3, <1>6, <2>1, <2>2, <2>3 DEF LoopInv
<1>8. SeedInv
  <2>1. pc = "fill"
    BY <1>1 DEF Unread
  <2>2. \A f \in Files : size[f] = IF has_path[f] THEN length[f] ELSE Absent
    BY DEF Made
  <2>3. \A f \in Files : \A o \in Offsets :
           o < length[f] => content[f][o] = Creator!Start[f] + o
    BY DEF Made
  <2>. QED
    BY <1>1, <2>1, <2>2, <2>3 DEF SeedInv, SeedDisk
<1>. QED
  BY <1>2, <1>5, <1>7, <1>8 DEF CInv, HashedInv, MadeInv, AddedInv

LEMMA ForeignInv == Foreign => IInv /\ DInv /\ CInv /\ SeedInv
<1>. SUFFICES ASSUME Foreign PROVE IInv /\ DInv /\ CInv /\ SeedInv
  OBVIOUS
<1>1. IInv /\ DInv
  BY InitIInv, InitDInv DEF Foreign
<1>2. CInv
  BY FileSaverAssumption
  DEF Foreign, CInv, CreatorTypes, LoopInv, HashedInv, MadeInv, AddedInv
<1>3. SeedInv
  BY DEF Foreign, SeedInv, SeedDisk
<1>. QED
  BY <1>1, <1>2, <1>3

------------------------------------------------------------------------------
(* A torrent that was made here is found whole *)

\* The layout of a download has the files where the directory has them.
LEMMA SameLayout ==
    ASSUME IInv, DInv, SeedInv, stage # "foreign", pc # "fill"
    PROVE  offset = Creator!total_size /\ \A f \in Files : global_start[f] = Origin[f]
<1>1. /\ LengthType /\ \A f \in Files : has_path[f] <=> f <= Creator!file_count
      /\ \A f \in Files : ~has_path[f] => length[f] = 0
  BY DEF IInv, TypeOK, LengthType, DInv, PathInv, SeedInv, SeedDisk
<1>2. /\ Origin \in [Files -> Nat] /\ Chain(Origin)
      /\ Origin[NumFiles] + length[NumFiles] = Creator!total_size
  BY <1>1, OriginChain
<1>3. /\ Laid = NumFiles /\ NumFiles \in Nat \ {0} /\ NumFiles \in Files
  BY FileSaverAssumption DEF Laid, Files
<1>4. /\ global_start[1] = 0
      /\ \A f \in Files : global_end[f] = global_start[f] + length[f]
      /\ \A f \in 1 .. NumFiles - 1 : global_start[f + 1] = global_end[f]
  BY <1>3 DEF IInv, LayoutInv, Files
<1>5. Chain(global_start)
  <2>1. \A f \in 1 .. NumFiles - 1 : f \in Files
    BY <1>3 DEF Files
  <2>. QED
    BY <1>4, <2>1 DEF Chain
<1>6. \A f \in Files : global_start[f] = Origin[f]
  BY <1>1, <1>2, <1>5, OneChain
<1>7. offset = global_end[NumFiles]
  BY DEF DInv, SpreadInv
<1>. QED
  BY <1>2, <1>3, <1>4, <1>6, <1>7

\* Every byte before the end of the last file is in a file.
LEMMA SomeFile ==
    ASSUME IInv, SpreadInv, pc # "fill", NEW g \in Nat, g < offset
    PROVE  \E f \in Files : global_start[f] <= g /\ g < global_end[f]
<1>. DEFINE T == {f \in Files : g < global_end[f]}
<1>1. /\ Laid = NumFiles /\ NumFiles \in Nat \ {0} /\ NumFiles \in Files /\ Files \subseteq Nat
  BY FileSaverAssumption DEF Laid, Files
<1>2. NumFiles \in T
  BY <1>1 DEF SpreadInv
<1>3. PICK f \in T : \A h \in T : ~(h < f)
  <2>1. T \subseteq Nat /\ T # {}
    BY <1>1, <1>2
  <2>. HIDE DEF T
  <2>. QED
    BY <2>1, Least
<1>4. f \in Files /\ g < global_end[f]
  BY <1>3
<1>5. global_start[f] <= g
  <2>1. CASE f = 1
    BY <1>1, <2>1 DEF IInv, LayoutInv
  <2>2. CASE f # 1
    <3>1. f - 1 \in Files /\ f - 1 \in 1 .. NumFiles - 1 /\ f - 1 < f /\ (f - 1) + 1 = f
      BY <1>1, <1>4, <2>2 DEF Files
    <3>2. global_start[f] = global_end[f - 1]
      BY <1>1, <3>1 DEF IInv, LayoutInv
    <3>3. ~(g < global_end[f - 1])
      BY <1>3, <3>1
    <3>4. global_end[f - 1] \in Nat
      BY <3>1 DEF IInv, TypeOK
    <3>. QED
      BY <3>2, <3>3, <3>4
  <2>. QED
    BY <2>1, <2>2
<1>. QED
  BY <1>4, <1>5

\* Each of its pieces is on disk, and so are the files it lies in.
LEMMA AllOnDisk ==
    ASSUME IInv, DInv, SeedInv, stage # "foreign", pc # "fill", NEW p \in Nat, p < TotalPieces
    PROVE  PieceOnDisk(p) /\ FilesThere(p)
<1>. DEFINE first == PieceStart(p)
            last  == PieceStart(p) + CurrentPieceSize(p)
<1>1. first \in Nat /\ last \in Nat /\ last <= offset
  BY PieceBounds DEF IInv, TypeOK
<1>2. /\ \A f \in Files : has_path[f] <=> f <= Creator!file_count
      /\ \A f \in Files : size[f] = IF has_path[f] THEN length[f] ELSE Absent
      /\ \A f \in Files : \A o \in Offsets :
            o < length[f] => content[f][o] = Creator!Start[f] + o
      /\ \A f \in Files : ~has_path[f] => length[f] = 0
  BY DEF SeedInv, SeedDisk, DInv, PathInv
<1>3. /\ offset = Creator!total_size
      /\ \A f \in Files : global_start[f] = Origin[f]
  BY SameLayout
<1>4. ASSUME NEW f \in Files
      PROVE  /\ f \in Nat /\ length[f] \in 0 .. MaxLength /\ MaxLength \in Nat
             /\ global_start[f] \in Nat /\ global_end[f] = global_start[f] + length[f]
             /\ Creator!file_count \in Nat
  <2>1. f \in Nat /\ Laid = NumFiles /\ MaxLength \in Nat
    BY FileSaverAssumption DEF Files, Laid
  <2>2. LengthType
    BY DEF IInv, TypeOK, LengthType
  <2>3. Creator!file_count \in Nat
    BY <2>2, DirectoryType, FileSaverAssumption
  <2>. QED
    BY <2>1, <2>2, <2>3 DEF LengthType, IInv, TypeOK, LayoutInv, Files
<1>. HIDE DEF first, last
<1>5. ASSUME NEW g \in first .. last - 1
      PROVE  \E f \in Files : /\ global_start[f] <= g /\ g < global_end[f]
                              /\ g - global_start[f] < size[f]
                              /\ content[f][g - global_start[f]] = g
  <2>1. g \in Nat /\ g < offset
    <3>1. offset \in Nat
      BY DEF IInv, TypeOK
    <3>. QED
      BY <1>1, <3>1
  <2>2. PICK f \in Files : global_start[f] <= g /\ g < global_end[f]
    BY <2>1, SomeFile DEF DInv
  <2>3. /\ g - global_start[f] \in 0 .. MaxLength - 1 /\ g - global_start[f] < length[f]
        /\ length[f] # 0
    BY <1>4, <2>1, <2>2
  <2>4. has_path[f] /\ size[f] = length[f] /\ f <= Creator!file_count
    BY <1>2, <2>3
  <2>5. content[f][g - global_start[f]] = Creator!Start[f] + (g - global_start[f])
    BY <1>2, <2>3 DEF Offsets
  <2>6. global_start[f] = Creator!Start[f]
    BY <1>3, <1>4, <2>4 DEF Origin
  <2>7. content[f][g - global_start[f]] = g
    BY <1>4, <2>1, <2>5, <2>6
  <2>. QED
    BY <2>2, <2>3, <2>4, <2>7
<1>6. ASSUME NEW f \in Files, global_start[f] < last, first < global_end[f]
      PROVE  size[f] # Absent
  <2>1. CASE has_path[f]
    BY <1>2, <1>4, <2>1 DEF Absent
  <2>2. CASE ~has_path[f]
    <3>1. f > Creator!file_count
      BY <1>2, <1>4, <2>2
    <3>2. global_start[f] = Creator!total_size
      <4>1. f = Creator!file_count + 1 => Creator!Start[f] = Creator!total_size
        BY DEF Creator!total_size
      <4>. QED
        BY <1>3, <1>4, <3>1, <4>1 DEF Origin
    <3>. QED
      BY <1>1, <1>3, <1>4, <1>6, <3>2
  <2>. QED
    BY <2>1, <2>2
<1>. QED
  BY <1>5, <1>6 DEF PieceOnDisk, OnDisk, FilesThere, first, last

\* The download of it ends a piece where the creation has ended it, and counts as
\* many.
LEMMA SameEnds ==
    ASSUME IInv, CreatorTypes, piece_length = PieceLength, offset = Creator!total_size
    PROVE  /\ TotalPieces = Creator!num_pieces /\ TotalPieces \in Nat
           /\ \A p \in Nat : p < TotalPieces =>
                 CurrentPieceSize(p) = EndOf(p) - PieceStart(p)
<1>1. /\ TypeOK /\ offset \in Nat /\ PieceLength \in Nat \ {0}
      /\ offset % PieceLength \in 0 .. PieceLength - 1 /\ offset \div PieceLength \in Nat
      /\ offset = (offset \div PieceLength) * PieceLength + (offset % PieceLength)
  <2>1. TypeOK /\ offset \in Nat /\ PieceLength \in Nat \ {0}
    BY FileSaverAssumption DEF IInv, TypeOK
  <2>. QED
    BY <2>1
<1>2. TotalPieces = Creator!num_pieces
  BY DEF TotalPieces, SizeBytes, Creator!num_pieces
<1>3. TotalPieces \in Nat
  BY <1>1, <1>2, Numbers
<1>4. ASSUME NEW p \in Nat, p < TotalPieces
      PROVE  CurrentPieceSize(p) = EndOf(p) - PieceStart(p)
  <2>. DEFINE start == PieceStart(p)
              rest == offset % PieceLength
              quotient == offset \div PieceLength
  <2>1. /\ start \in Nat /\ CurrentPieceSize(p) \in Nat /\ CurrentPieceSize(p) <= PieceLength
        /\ start + CurrentPieceSize(p) <= offset
    BY <1>1, <1>4, PieceBounds
  <2>2. EndOf(p) = Smaller(start + PieceLength, offset)
    BY DEF EndOf, PieceStart
  <2>3. CASE CurrentPieceSize(p) = PieceLength
    <3>. HIDE DEF start
    <3>. QED
      BY <1>1, <2>1, <2>2, <2>3 DEF Smaller, start
  <2>4. CASE CurrentPieceSize(p) # PieceLength
    <3>1. p + 1 = TotalPieces /\ CurrentPieceSize(p) = rest
      BY <1>3, <2>4 DEF CurrentPieceSize, SizeBytes
    <3>2. ~(p + 1 < Creator!num_pieces) /\ p + 1 \in Nat
      BY <1>2, <3>1
    <3>3. ~((p + 1) * PieceLength < offset)
      BY <1>1, <3>2, IsPiece
    <3>4. (p + 1) * PieceLength = p * PieceLength + PieceLength
      BY <1>1, NextPiece
    <3>5. start + rest <= quotient * PieceLength + rest
      BY <1>1, <2>1, <3>1
    <3>6. start = p * PieceLength
      BY DEF PieceStart
    <3>7. p * PieceLength = quotient * PieceLength
      <4>1. quotient \in Nat /\ PieceLength \in Nat \ {0}
        BY <1>1
      <4>2. quotient * PieceLength \in Nat /\ p * PieceLength \in Nat /\ rest \in Nat
        BY <1>1, <4>1
      <4>3. p * PieceLength <= quotient * PieceLength
        BY <3>5, <3>6, <4>2
      <4>4. CASE p = quotient
        BY <4>4
      <4>5. CASE p < quotient
        <5>1. (p + 1) * PieceLength <= quotient * PieceLength
          BY <4>1, <4>5
        <5>2. FALSE
          <6>1. CurrentPieceSize(p) # 0 /\ rest # 0
            BY <1>1, <1>4, <3>1, PieceBounds
          <6>. QED
            BY <1>1, <3>3, <4>2, <5>1, <6>1
        <5>. QED
          BY <5>2
      <4>6. CASE p > quotient
        <5>1. (quotient + 1) * PieceLength <= p * PieceLength
          BY <4>1, <4>6
        <5>2. (quotient + 1) * PieceLength = quotient * PieceLength + PieceLength
          BY <4>1, NextPiece
        <5>. QED
          BY <4>1, <4>2, <4>3, <5>1, <5>2
      <4>. QED
        BY <4>1, <4>4, <4>5, <4>6
    <3>8. start + rest = offset
      <4>1. offset = quotient * PieceLength + rest
        BY <1>1
      <4>2. offset = p * PieceLength + rest
        BY <3>7, <4>1
      <4>. QED
        BY <3>6, <4>2
    <3>9. start \in Nat /\ rest \in Nat /\ rest < PieceLength
      BY <1>1, <2>1
    <3>. HIDE DEF start, rest
    <3>. QED
      BY <1>1, <2>2, <3>1, <3>8, <3>9 DEF Smaller, start
  <2>. QED
    BY <2>3, <2>4
<1>. QED
  BY <1>2, <1>3, <1>4

LEMMA SeedKept ==
    ASSUME IInv, DInv, SeedInv, [CreateNext]_<<vars, creation>>
    PROVE  SeedInv'
<1>1. /\ UNCHANGED <<has_path, length>>
      /\ stage' # "foreign" <=> stage # "foreign"
  <2>1. CASE UNCHANGED vars /\ ((stage # "foreign" /\ Creator!Next) \/ Add)
    BY <2>1
    DEF vars, torrent, Add, Creator!Next, Creator!NoFiles, Creator!OpenFile, Creator!ReadBlock,
        Creator!HashTail, Creator!WriteTorrent, Creator!Overrun, Creator!Return
  <2>2. CASE [Next]_vars /\ UNCHANGED creation
    BY <2>2, TorrentKept DEF creation
  <2>. QED
    BY <2>1, <2>2 DEF CreateNext, Add
<1>2. SUFFICES ASSUME stage # "foreign" PROVE SeedInv'
  BY <1>1 DEF SeedInv, SeedDisk
<1>3. /\ Directory' = Directory /\ Creator!file_count' = Creator!file_count
      /\ Creator!Start' = Creator!Start
  <2>1. Directory' = Directory
    BY <1>1 DEF Directory
  <2>. QED
    BY <2>1 DEF Creator!file_count, Creator!Start
<1>4. /\ UNCHANGED disk /\ pc' # "write"
      /\ pc' = "swarm" => 0 .. TotalPieces' - 1 \subseteq done'
  <2>1. CASE UNCHANGED vars
    <3>1. UNCHANGED <<disk, pc, done, offset>> /\ TotalPieces' = TotalPieces
      BY <2>1 DEF vars, layout, TotalPieces, SizeBytes
    <3>. QED
      BY <1>2, <3>1 DEF SeedInv
  <2>2. CASE FillEntry \/ Filled \/ ReadSkipped \/ ReadMissing \/ ReadFile \/ Restart
    BY <2>2 DEF FillEntry, Filled, ReadSkipped, ReadMissing, ReadFile, Restart, Reading, Return
  <2>3. CASE VerificationDone
    <3>1. /\ pc = "verify" /\ piece = TotalPieces /\ pc' = "swarm"
          /\ UNCHANGED <<disk, done>> /\ TotalPieces' = TotalPieces
      BY <2>3 DEF VerificationDone, layout, TotalPieces, SizeBytes
    <3>2. ASSUME NEW p \in 0 .. TotalPieces - 1 PROVE p \in done
      <4>1. p \in Nat /\ p < TotalPieces
        BY PieceSizeType DEF IInv, TypeOK
      <4>2. PieceOnDisk(p) /\ FilesThere(p)
        BY <1>2, <3>1, <4>1, AllOnDisk
      <4>. QED
        BY <3>1, <4>2 DEF DInv, VerifiedExactly
    <3>. QED
      BY <3>1, <3>2
  <2>4. ASSUME NEW p \in 0 .. TotalPieces - 1, StartWrite(p) PROVE FALSE
    BY <1>2, <2>4 DEF StartWrite, SeedInv
  <2>5. ~(WriteSkipped \/ WriteFile \/ WriteFileBadly \/ CannotOpen)
    BY <1>2 DEF WriteSkipped, WriteFile, WriteFileBadly, CannotOpen, SeedInv
  <2>. QED
    BY <2>1, <2>2, <2>3, <2>4, <2>5 DEF CreateNext, Add, Next
<1>5. content' = content /\ size' = size
  BY <1>4 DEF disk
<1>. QED
  BY <1>1, <1>2, <1>3, <1>4, <1>5 DEF SeedInv, SeedDisk

LEMMA InvSeeded == IInv /\ DInv /\ CInv /\ SeedInv => CreatedIsSeeded
<1>. SUFFICES ASSUME IInv, DInv, CInv, SeedInv, stage = "added", pc = "swarm"
              PROVE  /\ Len(made) = TotalPieces
                     /\ \A p \in 0 .. TotalPieces - 1 :
                           /\ made[p + 1] = [k \in 1 .. CurrentPieceSize(p) |-> PieceStart(p) + k - 1]
                           /\ p \in done
  BY DEF CreatedIsSeeded
<1>1. /\ TypeOK /\ CreatorTypes /\ GivenType /\ rc = 0 /\ piece_length = PieceLength
      /\ given = Directory
  BY DEF IInv, CInv, AddedInv, CreatorTypes
<1>2. offset = Creator!total_size
  BY SameLayout
<1>3. /\ TotalPieces = Creator!num_pieces /\ TotalPieces \in Nat
      /\ \A p \in Nat : p < TotalPieces => CurrentPieceSize(p) = EndOf(p) - PieceStart(p)
  BY <1>1, <1>2, SameEnds
<1>4. /\ made = [q \in 1 .. Creator!num_pieces |-> made[q]]
      /\ Holds(made, Creator!num_pieces)
  BY <1>1 DEF CInv, MadeInv
<1>5. Len(made) = TotalPieces
  BY <1>3, <1>4
<1>6. Creator!Gap = Creator!total_size
  <2>1. ASSUME NEW f \in 1 .. Creator!file_count PROVE ~Changed(f)
    BY <1>1 DEF Changed, GivenType
  <2>. QED
    BY <1>1, <2>1, GapIs
<1>8. ~Creator!Grown
  BY <1>1, DirectoryType DEF Creator!Grown, GivenType, LengthType, TypeOK
<1>7. ASSUME NEW p \in 0 .. TotalPieces - 1
      PROVE  /\ made[p + 1] = [k \in 1 .. CurrentPieceSize(p) |-> PieceStart(p) + k - 1]
             /\ p \in done
  <2>1. Sure(p)
    <3>1. p \in Nat
      BY <1>3
    <3>2. p * piece_length \in Nat /\ piece_length \in Nat \ {0} /\ Creator!total_size \in Nat
      BY <1>1, <3>1, IsPiece, Numbers
    <3>. QED
      BY <1>6, <1>8, <3>2 DEF EndOf, Smaller, Sure
  <2>2. made[p + 1] = Run(p * piece_length, EndOf(p) - p * piece_length)
    BY <1>3, <1>4, <2>1 DEF Holds, Bytes
  <2>3. PieceStart(p) = p * piece_length
    BY <1>1 DEF PieceStart
  <2>4. CurrentPieceSize(p) = EndOf(p) - p * piece_length
    BY <1>3, <2>3
  <2>5. p \in done
    BY DEF SeedInv
  <2>. QED
    BY <2>2, <2>3, <2>4, <2>5 DEF Run
<1>. QED
  BY <1>5, <1>7

------------------------------------------------------------------------------
(* The theorems *)

LEMMA InitAll == Foreign \/ Made => IInv /\ DInv /\ CInv /\ SeedInv
  BY ForeignInv, MadeIInv, MadeCInv

LEMMA NextAll ==
    /\ IInv /\ DInv /\ CInv /\ SeedInv
    /\ [CreateNext]_<<vars, creation>>
    => (IInv /\ DInv /\ CInv /\ SeedInv)'
<1>. SUFFICES ASSUME IInv, DInv, CInv, SeedInv, [CreateNext]_<<vars, creation>>
              PROVE  IInv' /\ DInv' /\ CInv' /\ SeedInv'
  OBVIOUS
<1>1. [Next]_vars
  BY DEF CreateNext, Add
<1>2. IInv'
  BY <1>1, NextIInv
<1>3. DInv'
  BY <1>1, <1>2, NextDInv
<1>4. CInv'
  BY NextCInv DEF IInv
<1>5. SeedInv'
  BY SeedKept
<1>. QED
  BY <1>2, <1>3, <1>4, <1>5

\* The invariants of the files on disk hold for a torrent that is made here too,
\* and with them those of the creation: what was read and hashed so far is what
\* lies in front of the place the loop has come to, unless a file has changed; and a
\* torrent that was added over its own directory is whole on disk.
THEOREM CreateInductive == CreateSpec => [](IInv /\ DInv /\ CInv /\ SeedInv)
  BY InitAll, NextAll, PTL DEF CreateSpec

\* Whatever the sizes of the files, wherever a piece spans them and whichever of
\* them give fewer or more bytes than their size (torrent_creator.c:73-107): the
\* hashes of ts_create_torrent are those of the pieces of fill_target_files up to
\* the first byte missing or added, and only a file that has grown makes one be
\* written behind the memory allocated for them.
THEOREM HashedAsDownloaded == CreateSpec => []SameAsDownload
<1>1. IInv /\ CInv => SameAsDownload
  BY CInvSame DEF IInv
<1>. QED
  BY <1>1, CreateInductive, PTL

\* A torrent made of a directory and added over it has every piece done when its
\* swarm begins, after any number of restarts.
THEOREM SeededAtOnce == CreateSpec => []CreatedIsSeeded
  BY InvSeeded, CreateInductive, PTL

\* What is shown above of a torrent with foreign files holds of both origins.
THEOREM BothOrigins == CreateSpec => [](InPlace /\ VerifiedExactly /\ DoneIsOnDisk)
<1>1. IInv /\ DInv => InPlace /\ VerifiedExactly /\ DoneIsOnDisk
  BY DEF IInv, DInv
<1>. QED
  BY <1>1, CreateInductive, PTL

================================================================================
