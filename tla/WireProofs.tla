------------------------------ MODULE WireProofs ------------------------------
(***************************************************************************)
(* Proofs of the safety properties of Wire, for any length of the bitfield *)
(* and of the blocks, and any number of messages under way: the reads of a *)
(* turn add up to its message, and neither a block nor an unchoke gets     *)
(* lost between the handlers.                                              *)
(***************************************************************************)
EXTENDS Wire, SequenceTheorems, TLAPS

Greeting == {"HANDSHAKING", "INCOMING_HANDSHAKE"}

\* The handshake is the head of the queue until it is read, and only then.
QueueInv ==
    IF state \in Greeting
    THEN /\ pc = "turn" /\ in_step /\ offset = 0
         /\ queue # <<>> /\ Head(queue) = "handshake" /\ Tail(queue) \in Seq(Messages)
    ELSE queue \in Seq(Messages)

\* How many bytes of its message a handler has read after the read under way.
Target ==
    CASE pc = "length" -> 4
      [] pc = "id" -> 5
      [] pc = "payload" -> 5 + FirstPart
      [] OTHER -> Size(msg)

\* Where the handler is in the stream: in the message that it was given, or just
\* behind it.
Position ==
    IF left = 0 /\ Target = Size(msg) THEN offset = 0
    ELSE queue # <<>> /\ Head(queue) = msg /\ offset + left = Target

PositionInv ==
    in_step => IF pc = "turn" THEN offset = 0 ELSE Position

\* What the parts of a turn are about.
TurnInv ==
    /\ pc # "turn" => state \in {"WAITING_BITFIELD", "WAITING_UNCHOKE", "DOWNLOADING"}
    /\ pc \in {"id", "payload", "block"} => msg # "keep-alive"
    /\ pc = "block" => Downloading("piece") /\ left = BlockLength

ReadInv == TypeOK /\ QueueInv /\ PositionInv /\ TurnInv

\* Who was unchoked has been, or is choked again by now.
UnchokedInv ==
    (in_step /\ (state = "DOWNLOADING" \/ Contains(queue, "unchoke") \/ (pc # "turn" /\ msg = "unchoke")))
        => unchoking \/ choked

AskedInv ==
    (in_step /\ state = "DOWNLOADING" /\ assigned)
        => asked \/ Contains(queue, "piece") \/ choked

HeardInv ==
    (in_step /\ state \in Greeting \cup {"WAITING_BITFIELD", "WAITING_UNCHOKE"} /\ unchoking)
        => Contains(queue, "unchoke") \/ swallowed \/ (pc # "turn" /\ msg = "unchoke")

IInv == ReadInv /\ UnchokedInv /\ AskedInv /\ HeardInv

------------------------------------------------------------------------------
(* Lengths and queues *)

LEMMA Lengths ==
    ASSUME NEW m \in Messages
    PROVE  /\ PayloadLength(m) \in Nat
           /\ Size(m) = IF m = "keep-alive" THEN 4 ELSE 5 + PayloadLength(m)
           /\ Size(m) \in Nat
           /\ PayloadLength("piece") = 8 + BlockLength
           /\ m \in {"unchoke", "keep-alive"} => PayloadLength(m) = 0
           /\ Size("handshake") = 68
           /\ m # "handshake"
BY WireAssumption DEF Messages, PayloadLength, Size

LEMMA HeadAndTail ==
    ASSUME NEW S, NEW q \in Seq(S), q # <<>>
    PROVE  /\ Head(q) \in S
           /\ Tail(q) \in Seq(S)
           /\ Head(q) = q[1] /\ Len(q) \in Nat /\ Len(q) > 0
           /\ Len(Tail(q)) = Len(q) - 1
           /\ \A k \in 1 .. Len(q) - 1 : Tail(q)[k] = q[k + 1]
BY HeadTailProperties, EmptySeq, LenProperties, ElementOfSeq

\* A queue that loses its head keeps the others.
LEMMA ContainsTail ==
    ASSUME NEW S, NEW q \in Seq(S), q # <<>>, NEW e
    PROVE  /\ Contains(Tail(q), e) => Contains(q, e)
           /\ Contains(q, e) /\ Head(q) # e => Contains(Tail(q), e)
           /\ Contains(q, e) <=> (Head(q) = e \/ Contains(Tail(q), e))
<1>1. ASSUME Contains(Tail(q), e) PROVE Contains(q, e)
  <2>1. PICK k \in 1 .. Len(Tail(q)) : Tail(q)[k] = e
    BY <1>1 DEF Contains
  <2>2. k + 1 \in 1 .. Len(q) /\ q[k + 1] = e
    BY <2>1, HeadAndTail
  <2>. QED
    BY <2>2 DEF Contains
<1>2. ASSUME Contains(q, e), Head(q) # e PROVE Contains(Tail(q), e)
  <2>1. PICK k \in 1 .. Len(q) : q[k] = e
    BY <1>2 DEF Contains
  <2>2. k - 1 \in 1 .. Len(Tail(q)) /\ Tail(q)[k - 1] = e
    BY <1>2, <2>1, HeadAndTail
  <2>. QED
    BY <2>2 DEF Contains
<1>3. Head(q) = e => Contains(q, e)
  BY HeadAndTail DEF Contains
<1>. QED
  BY <1>1, <1>2, <1>3

LEMMA ContainsAppend ==
    ASSUME NEW S, NEW q \in Seq(S), NEW x, NEW e
    PROVE  Contains(Append(q, x), e) <=> (Contains(q, e) \/ x = e)
<1>1. /\ Len(q) \in Nat /\ Len(Append(q, x)) = Len(q) + 1
      /\ \A k \in 1 .. Len(q) : Append(q, x)[k] = q[k]
      /\ Append(q, x)[Len(q) + 1] = x
  <2>1. q \in Seq(S \cup {x}) /\ x \in S \cup {x}
    BY SeqMonotonic
  <2>. QED
    BY <2>1, AppendProperties, LenProperties
<1>. QED
  BY <1>1 DEF Contains

\* What a queue has at its ends when a message is added.
LEMMA AppendKeepsHead ==
    ASSUME NEW S, NEW q \in Seq(S), NEW x \in S, q # <<>>
    PROVE  /\ Append(q, x) \in Seq(S) /\ Append(q, x) # <<>>
           /\ Head(Append(q, x)) = Head(q)
           /\ Tail(Append(q, x)) = Append(Tail(q), x)
BY HeadTailAppend, AppendProperties, EmptySeq

------------------------------------------------------------------------------
(* Reads *)

LEMMA Switches == TypeOK <=>
    /\ state \in {"HANDSHAKING", "INCOMING_HANDSHAKE", "WAITING_BITFIELD", "WAITING_UNCHOKE",
                  "DOWNLOADING", "DEAD"}
    /\ inventory \in {"null", "none", "some"}
    /\ pc \in {"turn", "length", "id", "payload", "block"}
    /\ left \in Nat /\ msg \in Messages /\ offset \in Nat
    /\ queue \in Seq(Messages \cup {"handshake"})
    /\ assigned \in BOOLEAN /\ in_step \in BOOLEAN /\ silent \in BOOLEAN
    /\ bitfield \in BOOLEAN /\ unchoking \in BOOLEAN /\ asked \in BOOLEAN
    /\ choked \in BOOLEAN /\ swallowed \in BOOLEAN
BY DEF TypeOK

\* A handler never reads past its message.
LEMMA TargetInMessage ==
    ASSUME ReadInv, pc # "turn"
    PROVE  /\ Target \in Nat /\ Size(msg) \in Nat
           /\ Target <= Size(msg)
           /\ FirstPart \in Nat
           /\ pc = "payload" /\ ~Downloading("piece") => Target = Size(msg)
           /\ pc = "payload" /\ Downloading("piece") => Target < Size(msg)
<1>1. msg \in Messages /\ pc \in {"length", "id", "payload", "block"}
  BY DEF ReadInv, TypeOK
<1>2. /\ PayloadLength(msg) \in Nat
      /\ Size(msg) = IF msg = "keep-alive" THEN 4 ELSE 5 + PayloadLength(msg)
      /\ PayloadLength("piece") = 8 + BlockLength
  BY <1>1, Lengths
<1>3. FirstPart = IF Downloading("piece") THEN 8 ELSE PayloadLength(msg)
  BY DEF FirstPart
<1>4. Downloading("piece") => msg = "piece"
  BY DEF Downloading
<1>5. pc # "length" => msg # "keep-alive"
  BY <1>1 DEF ReadInv, TurnInv
<1>. QED
  BY <1>1, <1>2, <1>3, <1>4, <1>5, WireAssumption DEF Target

\* What read_exactly leaves behind: it stands where its handler wanted to be,
\* and of the queue it takes no more than the message.
LEMMA ReadsToTarget ==
    ASSUME ReadInv, pc # "turn", Read
    PROVE  /\ in_step' = in_step
           /\ queue' \in Seq(Messages) /\ offset' \in Nat
           /\ in_step /\ Target < Size(msg) =>
                 queue' = queue /\ queue # <<>> /\ Head(queue) = msg /\ offset' = Target
           /\ in_step /\ Target = Size(msg) =>
                 /\ offset' = 0
                 /\ queue' = queue \/ (queue # <<>> /\ Head(queue) = msg /\ queue' = Tail(queue))
           /\ ~in_step => queue' = queue
<1>1. /\ queue \in Seq(Messages) /\ offset \in Nat /\ left \in Nat /\ in_step \in BOOLEAN
      /\ in_step => Position
  BY Switches DEF ReadInv, QueueInv, PositionInv
<1>2. Target \in Nat /\ Size(msg) \in Nat /\ Target <= Size(msg)
  BY TargetInMessage
<1>3. CASE left = 0 /\ UNCHANGED stream
  BY <1>1, <1>2, <1>3 DEF stream, Position
<1>4. CASE left > 0 /\ ~in_step /\ Take(left)
  BY <1>1, <1>4 DEF Take
<1>5. CASE left > 0 /\ in_step /\ Take(left)
  <2>1. queue # <<>> /\ Head(queue) = msg /\ offset + left = Target
    BY <1>1, <1>5 DEF Position
  <2>2. Tail(queue) \in Seq(Messages)
    BY <1>1, <2>1, HeadAndTail
  <2>3. CASE Target < Size(msg)
    BY <1>1, <1>2, <1>5, <2>1, <2>3 DEF Take
  <2>4. CASE Target = Size(msg)
    BY <1>1, <1>2, <1>5, <2>1, <2>2, <2>4 DEF Take
  <2>. QED
    BY <1>2, <2>3, <2>4
<1>. QED
  BY <1>1, <1>3, <1>4, <1>5 DEF Read

\* The messages that are still to be read after a read: all but the one that is
\* being handled.
LEMMA ReadsOneMessage ==
    ASSUME ReadInv, pc # "turn", Read, NEW e
    PROVE  /\ Contains(queue', e) => Contains(queue, e)
           /\ Contains(queue, e) /\ msg # e => Contains(queue', e)
<1>1. queue \in Seq(Messages)
  BY DEF ReadInv, QueueInv, Greeting, TurnInv
<1>2. \/ queue' = queue
      \/ queue # <<>> /\ Head(queue) = msg /\ queue' = Tail(queue)
  <2>1. Target \in Nat /\ Size(msg) \in Nat /\ Target <= Size(msg) /\ in_step \in BOOLEAN
    BY TargetInMessage, Switches DEF ReadInv
  <2>. QED
    BY <2>1, ReadsToTarget
<1>. QED
  BY <1>1, <1>2, ContainsTail

------------------------------------------------------------------------------
(* The invariant *)

LEMMA Initially == Init => IInv
<1>. SUFFICES ASSUME Init PROVE IInv
  OBVIOUS
<1>1. /\ queue = <<"handshake">>
      /\ queue # <<>> /\ Head(queue) = "handshake" /\ Tail(queue) = <<>>
      /\ queue \in Seq(Messages \cup {"handshake"}) /\ <<>> \in Seq(Messages)
  BY DEF Init
<1>2. TypeOK
  BY <1>1, Switches DEF Init, Messages
<1>3. QueueInv /\ PositionInv /\ TurnInv
  BY <1>1 DEF Init, QueueInv, Greeting, PositionInv, TurnInv, Downloading
<1>4. ~Contains(queue, "unchoke")
  BY <1>1 DEF Contains
<1>. QED
  BY <1>2, <1>3, <1>4 DEF Init, IInv, ReadInv, UnchokedInv, AskedInv, HeardInv

\* Nothing is left to be said of a connection that is dropped.
LEMMA Dropped == IInv /\ Drop => IInv'
<1>. SUFFICES ASSUME IInv, Drop PROVE IInv'
  OBVIOUS
<1>1. /\ state' = "DEAD" /\ inventory' = "null" /\ assigned' = FALSE
      /\ pc' = "turn" /\ left' = 0 /\ msg' = "keep-alive"
      /\ queue' = <<>> /\ offset' = 0 /\ in_step' = TRUE /\ asked' = FALSE
      /\ UNCHANGED <<silent, bitfield, unchoking, ghosts>>
  BY DEF Drop, EndTurn
<1>2. <<>> \in Seq(Messages) /\ <<>> \in Seq(Messages \cup {"handshake"})
  OBVIOUS
<1>3. TypeOK'
  BY <1>1, <1>2 DEF IInv, ReadInv, TypeOK, Messages, ghosts
<1>4. (QueueInv /\ PositionInv /\ TurnInv)'
  BY <1>1, <1>2 DEF QueueInv, Greeting, PositionInv, TurnInv
<1>5. ~Contains(queue, "unchoke")'
  BY <1>1 DEF Contains
<1>. QED
  BY <1>1, <1>3, <1>4, <1>5 DEF IInv, ReadInv, UnchokedInv, AskedInv, HeardInv, Greeting

\* What remotes do: a message more at the end of the queue, a request less.
LEMMA RemoteKeeps == IInv /\ Remote => IInv'
<1>. SUFFICES ASSUME IInv, Remote PROVE IInv'
  OBVIOUS
<1>. USE DEF peer, reader, stream, ghosts
<1>1. ASSUME NEW m \in Messages, Send(m) PROVE IInv'
  <2>1. /\ UNCHANGED <<state, inventory, assigned, pc, left, msg, offset, in_step>>
        /\ in_step /\ queue' = Append(queue, m)
        /\ \A e : Contains(queue', e) <=> (Contains(queue, e) \/ m = e)
    BY <1>1, Switches, ContainsAppend DEF Send, IInv, ReadInv
  <2>2. /\ queue' \in Seq(Messages \cup {"handshake"})
        /\ queue \in Seq(Messages) => queue' \in Seq(Messages)
    BY <1>1, Switches, AppendProperties DEF Send, IInv, ReadInv
  <2>3. queue # <<>> => /\ queue' # <<>> /\ Head(queue') = Head(queue)
                        /\ Tail(queue) \in Seq(Messages) => Tail(queue') \in Seq(Messages)
    BY <1>1, <2>1, Switches, AppendKeepsHead, AppendProperties DEF IInv, ReadInv
  <2>4. TypeOK'
    BY <1>1, <2>1, <2>2, Switches DEF IInv, ReadInv, Send, TypeOK
  <2>5. QueueInv'
    BY <2>1, <2>2, <2>3 DEF IInv, ReadInv, QueueInv, Greeting
  <2>6. PositionInv' /\ TurnInv'
    BY <2>1, <2>3 DEF IInv, ReadInv, PositionInv, Position, Target, FirstPart, Downloading, TurnInv
  <2>7. UnchokedInv'
    BY <1>1, <2>1 DEF IInv, UnchokedInv, Send
  <2>8. AskedInv'
    <3>1. /\ Contains(queue', "piece") <=> (Contains(queue, "piece") \/ m = "piece")
          /\ choked' <=> choked \/ m = "choke"
          /\ asked' <=> asked /\ m # "piece" /\ m # "choke"
      BY <1>1, <2>1, Switches DEF Send, IInv, ReadInv
    <3>. QED
      BY <2>1, <3>1 DEF IInv, AskedInv
  <2>9. HeardInv'
    BY <1>1, <2>1 DEF IInv, HeardInv, Send, Greeting
  <2>. QED
    BY <2>4, <2>5, <2>6, <2>7, <2>8, <2>9 DEF IInv, ReadInv
<1>2. CASE Discard
  <2>1. TypeOK'
    <3>1. /\ asked' \in BOOLEAN
          /\ UNCHANGED <<state, inventory, assigned, pc, left, msg, queue, offset, in_step, silent,
                        bitfield, unchoking, choked, swallowed>>
      BY <1>2 DEF Discard
    <3>. QED
      BY <3>1, Switches DEF IInv, ReadInv, TypeOK
  <2>2. (QueueInv /\ PositionInv /\ TurnInv)'
    BY <1>2 DEF Discard, IInv, ReadInv, QueueInv, Greeting, PositionInv, Position, Target, FirstPart,
       Downloading, TurnInv
  <2>3. UnchokedInv' /\ HeardInv'
    BY <1>2 DEF Discard, IInv, UnchokedInv, HeardInv, Greeting
  <2>4. AskedInv'
    BY <1>2 DEF Discard, IInv, UnchokedInv, AskedInv
  <2>. QED
    BY <2>1, <2>2, <2>3, <2>4 DEF IInv, ReadInv
<1>3. CASE FallSilent
  BY <1>3, Switches DEF FallSilent, IInv, ReadInv, TypeOK, QueueInv, Greeting, PositionInv, Position,
     Target, FirstPart, Downloading, TurnInv, UnchokedInv, AskedInv, HeardInv
<1>. QED
  BY <1>1, <1>2, <1>3 DEF Remote

\* A turn begins: the handshake is read, or the first bytes of a length.
LEMMA BeginningKeeps == IInv /\ (handle_handshake \/ Recv) => IInv'
<1>. SUFFICES ASSUME IInv, handle_handshake \/ Recv PROVE IInv'
  OBVIOUS
<1>. USE DEF peer, reader, stream, remote, ghosts
<1>1. CASE handle_handshake
  <2>1. CASE Drop
    BY <2>1, Dropped
  <2>2. CASE /\ state' = "WAITING_BITFIELD" /\ Take(68)
             /\ UNCHANGED <<inventory, assigned, reader, remote, ghosts>>
    <3>1. /\ pc = "turn" /\ in_step /\ offset = 0 /\ state \in Greeting
          /\ queue # <<>> /\ Head(queue) = "handshake" /\ Tail(queue) \in Seq(Messages)
          /\ queue \in Seq(Messages \cup {"handshake"})
      BY <1>1, Switches DEF handle_handshake, IInv, ReadInv, QueueInv, Greeting
    <3>2. queue' = Tail(queue) /\ offset' = 0 /\ in_step' = in_step
      BY <2>2, <3>1 DEF Take, Size
    <3>3. Contains(queue', "unchoke") <=> Contains(queue, "unchoke")
      BY <3>1, <3>2, ContainsTail
    <3>4. queue' \in Seq(Messages) /\ queue' \in Seq(Messages \cup {"handshake"})
      BY <3>1, <3>2, HeadAndTail
    <3>5. TypeOK'
      BY <2>2, <3>2, <3>4, Switches DEF IInv, ReadInv, TypeOK
    <3>6. (QueueInv /\ PositionInv /\ TurnInv)'
      BY <2>2, <3>1, <3>2, <3>4 DEF QueueInv, Greeting, PositionInv, TurnInv
    <3>7. (UnchokedInv /\ AskedInv /\ HeardInv)'
      BY <2>2, <3>1, <3>2, <3>3 DEF IInv, UnchokedInv, AskedInv, HeardInv, Greeting
    <3>. QED
      BY <3>5, <3>6, <3>7 DEF IInv, ReadInv
  <2>. QED
    BY <1>1, <2>1, <2>2 DEF handle_handshake
<1>2. CASE Recv
  <2>1. PICK n \in 1 .. 4 : Take(n) /\ pc' = "length" /\ left' = 4 - n
    BY <1>2 DEF Recv, GoOn, Rest
  <2>2. /\ pc = "turn" /\ state \in {"WAITING_BITFIELD", "WAITING_UNCHOKE", "DOWNLOADING"}
        /\ queue \in Seq(Messages) /\ in_step \in BOOLEAN /\ offset \in Nat
        /\ in_step => offset = 0 /\ queue # <<>> /\ msg' = Head(queue)
        /\ ~in_step => msg' \in Messages
        /\ UNCHANGED <<peer, remote, ghosts>>
    BY <1>2, Switches DEF Recv, Readable, IInv, ReadInv, QueueInv, Greeting, PositionInv
  <2>3. msg' \in Messages
    BY <2>2, HeadAndTail
  <2>4. /\ PayloadLength(msg') \in Nat
        /\ Size(msg') = IF msg' = "keep-alive" THEN 4 ELSE 5 + PayloadLength(msg')
    BY <2>3, Lengths
  <2>5. /\ in_step' = in_step
        /\ ~in_step => UNCHANGED <<queue, offset>>
        /\ in_step /\ n < Size(msg') => queue' = queue /\ offset' = n
        /\ in_step /\ ~(n < Size(msg')) => queue' = Tail(queue) /\ offset' = n - Size(msg')
    BY <2>1, <2>2 DEF Take
  <2>6. in_step /\ ~(n < Size(msg')) => n = 4 /\ Size(msg') = 4 /\ msg' = "keep-alive" /\ offset' = 0
    BY <2>4, <2>5
  <2>7. queue' \in Seq(Messages) /\ offset' \in Nat
    <3>1. in_step => Tail(queue) \in Seq(Messages)
      BY <2>2, HeadAndTail
    <3>. QED
      BY <2>2, <2>5, <2>6, <3>1
  <2>8. in_step => /\ Contains(queue', "unchoke") <=> Contains(queue, "unchoke")
                   /\ Contains(queue', "piece") <=> Contains(queue, "piece")
                   /\ msg' = "unchoke" => Contains(queue, "unchoke")
    <3>1. ASSUME in_step, n < Size(msg'), msg' = "unchoke" PROVE Contains(queue, "unchoke")
      BY <2>2, <3>1, ContainsTail
    <3>2. ASSUME in_step, ~(n < Size(msg'))
          PROVE  /\ Head(queue) = "keep-alive" /\ queue # <<>> /\ queue' = Tail(queue)
                 /\ msg' = "keep-alive"
      BY <2>2, <2>5, <2>6, <3>2
    <3>3. ASSUME in_step, ~(n < Size(msg'))
          PROVE  /\ Contains(queue', "unchoke") <=> Contains(queue, "unchoke")
                 /\ Contains(queue', "piece") <=> Contains(queue, "piece")
      BY <2>2, <3>2, <3>3, ContainsTail
    <3>. QED
      BY <2>5, <3>1, <3>2, <3>3
  <2>9. TypeOK'
    <3>1. queue' \in Seq(Messages \cup {"handshake"})
      BY <2>7, SeqMonotonic
    <3>2. /\ state' = state /\ inventory' = inventory /\ assigned' = assigned
          /\ pc' = "length" /\ left' \in Nat /\ in_step' = in_step
      BY <2>1, <2>2, <2>5
    <3>. QED
      BY <2>2, <2>3, <2>7, <3>1, <3>2, Switches DEF IInv, ReadInv, TypeOK
  <2>10. QueueInv' /\ TurnInv'
    BY <2>1, <2>2, <2>7 DEF QueueInv, TurnInv, Greeting
  <2>11. PositionInv'
    <3>1. Target' = 4 /\ pc' = "length"
      BY <2>1 DEF Target
    <3>2. CASE in_step /\ n < Size(msg')
      BY <2>1, <2>2, <2>4, <2>5, <3>1, <3>2 DEF PositionInv, Position
    <3>3. CASE in_step /\ ~(n < Size(msg'))
      BY <2>1, <2>2, <2>6, <3>1, <3>3 DEF PositionInv, Position
    <3>. QED
      BY <2>5, <3>2, <3>3 DEF PositionInv
  <2>12. (UnchokedInv /\ AskedInv /\ HeardInv)'
    <3>1. /\ state' = state /\ assigned' = assigned /\ pc' # "turn" /\ in_step' = in_step
          /\ asked' = asked /\ choked' = choked /\ unchoking' = unchoking
          /\ swallowed' = swallowed
      BY <2>1, <2>2, <2>5
    <3>2. UnchokedInv'
      BY <2>8, <3>1 DEF IInv, UnchokedInv
    <3>3. AskedInv'
      BY <2>8, <3>1 DEF IInv, AskedInv
    <3>4. HeardInv'
      BY <2>2, <2>8, <3>1 DEF IInv, HeardInv, Greeting
    <3>. QED
      BY <3>2, <3>3, <3>4
  <2>. QED
    BY <2>9, <2>10, <2>11, <2>12 DEF IInv, ReadInv
<1>. QED
  BY <1>1, <1>2

\* After a read the queue is one of messages, and what no read changes is as it was.
LEMMA ReadKeepsTypes ==
    ASSUME ReadInv, pc # "turn", Read,
           UNCHANGED <<msg, silent, bitfield, unchoking, choked>>
    PROVE  /\ queue' \in Seq(Messages) /\ offset' \in Nat /\ in_step' \in BOOLEAN
           /\ queue' \in Seq(Messages \cup {"handshake"})
           /\ msg' \in Messages /\ silent' \in BOOLEAN /\ bitfield' \in BOOLEAN
           /\ unchoking' \in BOOLEAN /\ choked' \in BOOLEAN
<1>1. queue' \in Seq(Messages) /\ offset' \in Nat /\ in_step' = in_step
  BY ReadsToTarget
<1>2. queue' \in Seq(Messages \cup {"handshake"})
  BY <1>1, SeqMonotonic
<1>. QED
  BY <1>1, <1>2, Switches DEF ReadInv

\* The parts of a message that come before its end.
LEMMA PartKeeps == IInv /\ (ReadLength \/ ReadId \/ ReadNumbers) /\ pc' # "turn" => IInv'
<1>. SUFFICES ASSUME IInv, ReadLength \/ ReadId \/ ReadNumbers, pc' # "turn" PROVE IInv'
  OBVIOUS
<1>. USE DEF peer, remote, ghosts
<1>1. /\ pc \in {"length", "id", "payload"} /\ pc # "turn" /\ Read
      /\ UNCHANGED <<state, inventory, assigned, msg, silent, bitfield, unchoking, asked, choked,
                     swallowed>>
      /\ pc = "length" => msg # "keep-alive" /\ pc' = "id" /\ left' = 1
      /\ pc = "id" => pc' = "payload" /\ left' = FirstPart
      /\ pc = "payload" =>
            pc' = "block" /\ left' = PayloadLength(msg) - 8 /\ Downloading("piece")
  BY DEF ReadLength, ReadId, ReadNumbers, GoOn, EndTurn
<1>2. /\ ReadInv /\ TypeOK /\ queue \in Seq(Messages) /\ msg \in Messages
      /\ state \in {"WAITING_BITFIELD", "WAITING_UNCHOKE", "DOWNLOADING"}
  BY <1>1, Switches DEF IInv, ReadInv, QueueInv, TurnInv, Greeting
<1>3. /\ queue' \in Seq(Messages) /\ offset' \in Nat /\ in_step' \in BOOLEAN
      /\ queue' \in Seq(Messages \cup {"handshake"})
      /\ msg' \in Messages
  BY <1>1, <1>2, ReadKeepsTypes
<1>4. /\ PayloadLength(msg) \in Nat /\ Size(msg) \in Nat
      /\ msg # "keep-alive" => Size(msg) = 5 + PayloadLength(msg)
      /\ msg = "piece" => PayloadLength(msg) = 8 + BlockLength
      /\ FirstPart \in Nat /\ FirstPart' = FirstPart
      /\ FirstPart = IF Downloading("piece") THEN 8 ELSE PayloadLength(msg)
      /\ Downloading("piece") => msg = "piece"
  BY <1>1, <1>2, Lengths, TargetInMessage DEF FirstPart, Downloading
<1>5. pc # "length" => msg # "keep-alive"
  BY <1>1 DEF IInv, ReadInv, TurnInv
<1>6. left' \in Nat /\ (pc' = "block" => left' = BlockLength) /\ pc' \in {"id", "payload", "block"}
  BY <1>1, <1>4, WireAssumption
<1>7. TypeOK'
  BY <1>1, <1>2, <1>3, <1>6, Switches DEF TypeOK
<1>8. QueueInv' /\ TurnInv'
  BY <1>1, <1>2, <1>3, <1>4, <1>5, <1>6 DEF QueueInv, TurnInv, Greeting, Downloading
<1>9. PositionInv'
  <2>1. /\ Target \in Nat /\ Target <= Size(msg) /\ Size(msg) \in Nat
        /\ Target' = Target + left' /\ Size(msg)' = Size(msg)
        /\ Target < Size(msg) \/ left' = 0
    BY <1>1, <1>2, <1>4, <1>5, <1>6, TargetInMessage, WireAssumption DEF Target
  <2>2. /\ in_step' = in_step
        /\ in_step /\ Target < Size(msg) =>
              queue' = queue /\ queue # <<>> /\ Head(queue) = msg /\ offset' = Target
        /\ in_step /\ Target = Size(msg) => offset' = 0
    BY <1>1, <1>2, ReadsToTarget
  <2>3. in_step /\ Target < Size(msg) =>
           (IF left' = 0 /\ Target' = Size(msg)' THEN offset' = 0
            ELSE queue' # <<>> /\ Head(queue') = msg' /\ offset' + left' = Target')
    BY <1>1, <1>6, <2>1, <2>2
  <2>. QED
    BY <1>1, <1>6, <2>1, <2>2, <2>3 DEF PositionInv, Position
<1>10. /\ in_step' = in_step
       /\ in_step /\ state = "DOWNLOADING" /\ msg = "piece" => queue' = queue
  <2>1. state = "DOWNLOADING" /\ msg = "piece" => Target < Size(msg)
    BY <1>1, <1>4, <1>5, WireAssumption DEF Target, Downloading
  <2>. QED
    BY <1>1, <1>2, <2>1, ReadsToTarget
<1>11. /\ Contains(queue', "unchoke") => Contains(queue, "unchoke")
       /\ Contains(queue, "unchoke") /\ msg # "unchoke" => Contains(queue', "unchoke")
       /\ Contains(queue, "piece") /\ msg # "piece" => Contains(queue', "piece")
  BY <1>1, <1>2, ReadsOneMessage
<1>12. UnchokedInv'
  BY <1>1, <1>10, <1>11 DEF IInv, UnchokedInv
<1>13. AskedInv'
  BY <1>1, <1>10, <1>11 DEF IInv, AskedInv
<1>14. HeardInv'
  BY <1>1, <1>2, <1>6, <1>10, <1>11 DEF IInv, HeardInv, Greeting
<1>. QED
  BY <1>7, <1>8, <1>9, <1>12, <1>13, <1>14 DEF IInv, ReadInv

\* The end of a message, which is handled.
LEMMA EndKeeps ==
    IInv /\ (ReadLength \/ ReadPayload) /\ pc' = "turn" => IInv'
<1>. SUFFICES ASSUME IInv, ReadLength \/ ReadPayload, pc' = "turn" PROVE IInv'
  OBVIOUS
<1>. USE DEF peer
<1>1. /\ pc \in {"length", "payload"} /\ pc # "turn" /\ Read /\ Handled(TRUE) /\ left' = 0
      /\ UNCHANGED <<msg, silent, bitfield, unchoking, choked>>
      /\ pc = "length" => msg = "keep-alive"
      /\ pc = "payload" => ~Downloading("piece")
  BY DEF ReadLength, ReadPayload, GoOn, EndTurn
<1>2. /\ ReadInv /\ TypeOK /\ queue \in Seq(Messages) /\ msg \in Messages
      /\ state \in {"WAITING_BITFIELD", "WAITING_UNCHOKE", "DOWNLOADING"}
  BY <1>1, Switches DEF IInv, ReadInv, QueueInv, TurnInv, Greeting
<1>3. /\ queue' \in Seq(Messages) /\ offset' \in Nat /\ in_step' \in BOOLEAN
      /\ queue' \in Seq(Messages \cup {"handshake"})
      /\ msg' \in Messages /\ silent' \in BOOLEAN /\ bitfield' \in BOOLEAN
      /\ unchoking' \in BOOLEAN /\ choked' \in BOOLEAN
  BY <1>1, <1>2, ReadKeepsTypes
<1>4. Target = Size(msg)
  BY <1>1, <1>2, Lengths, TargetInMessage DEF Target
<1>5. in_step' = in_step /\ (in_step => offset' = 0)
  BY <1>1, <1>2, <1>4, ReadsToTarget
<1>6. /\ Contains(queue', "unchoke") => Contains(queue, "unchoke")
      /\ Contains(queue, "unchoke") /\ msg # "unchoke" => Contains(queue', "unchoke")
      /\ Contains(queue, "piece") /\ msg # "piece" => Contains(queue', "piece")
  BY <1>1, <1>2, ReadsOneMessage
<1>7. CASE /\ state = "WAITING_BITFIELD" /\ state' = "WAITING_UNCHOKE"
           /\ inventory' = IF msg = "bitfield" THEN "some" ELSE "none"
           /\ swallowed' = (swallowed \/ msg = "unchoke")
           /\ UNCHANGED <<assigned, asked>>
  <2>1. TypeOK'
    BY <1>1, <1>2, <1>3, <1>7, Switches DEF TypeOK
  <2>2. (QueueInv /\ PositionInv /\ TurnInv)'
    BY <1>1, <1>3, <1>5, <1>7 DEF QueueInv, PositionInv, TurnInv, Greeting
  <2>3. UnchokedInv'
    BY <1>1, <1>5, <1>6, <1>7 DEF IInv, UnchokedInv
  <2>4. AskedInv' /\ HeardInv'
    BY <1>1, <1>5, <1>6, <1>7 DEF IInv, AskedInv, HeardInv, Greeting
  <2>. QED
    BY <2>1, <2>2, <2>3, <2>4 DEF IInv, ReadInv
<1>8. CASE /\ state = "WAITING_UNCHOKE" /\ msg = "unchoke" /\ state' = "DOWNLOADING"
           /\ assigned' = TRUE /\ asked' = TRUE /\ UNCHANGED <<inventory, swallowed>>
  <2>1. TypeOK'
    BY <1>1, <1>2, <1>3, <1>8, Switches DEF TypeOK
  <2>2. (QueueInv /\ PositionInv /\ TurnInv)'
    BY <1>1, <1>3, <1>5, <1>8 DEF QueueInv, PositionInv, TurnInv, Greeting
  <2>3. UnchokedInv'
    BY <1>1, <1>5, <1>8 DEF IInv, UnchokedInv
  <2>4. AskedInv' /\ HeardInv'
    BY <1>8 DEF AskedInv, HeardInv, Greeting
  <2>. QED
    BY <2>1, <2>2, <2>3, <2>4 DEF IInv, ReadInv
<1>9. CASE /\ state = "DOWNLOADING" \/ (state = "WAITING_UNCHOKE" /\ msg # "unchoke")
           /\ UNCHANGED <<peer, asked, swallowed>>
  <2>1. TypeOK'
    BY <1>1, <1>2, <1>3, <1>9, Switches DEF TypeOK
  <2>2. (QueueInv /\ PositionInv /\ TurnInv)'
    BY <1>1, <1>3, <1>5, <1>9 DEF QueueInv, PositionInv, TurnInv, Greeting
  <2>3. UnchokedInv'
    BY <1>1, <1>5, <1>6, <1>9 DEF IInv, UnchokedInv
  <2>4. state = "DOWNLOADING" => msg # "piece"
    BY <1>1 DEF Downloading
  <2>5. AskedInv' /\ HeardInv'
    BY <1>1, <1>5, <1>6, <1>9, <2>4 DEF IInv, AskedInv, HeardInv, Greeting
  <2>. QED
    BY <2>1, <2>2, <2>3, <2>5 DEF IInv, ReadInv
<1>. QED
  BY <1>1, <1>7, <1>8, <1>9 DEF Handled

\* A block is read: another is asked for, or the piece is the last.
LEMMA BlockKeeps == IInv /\ ReadBlock => IInv'
<1>. SUFFICES ASSUME IInv, ReadBlock PROVE IInv'
  OBVIOUS
<1>. USE DEF ghosts
<1>1. /\ pc = "block" /\ pc # "turn" /\ pc' = "turn" /\ left' = 0 /\ Read
      /\ UNCHANGED <<state, inventory, msg, silent, bitfield, unchoking, choked, swallowed>>
      /\ \/ asked' = TRUE /\ assigned' = assigned
         \/ assigned' = FALSE /\ asked' = asked
  BY DEF ReadBlock, EndTurn, AskedAgain
<1>2. /\ ReadInv /\ TypeOK /\ msg = "piece" /\ state = "DOWNLOADING" /\ Target = Size(msg)
      /\ assigned \in BOOLEAN /\ asked \in BOOLEAN
  BY <1>1, Switches DEF IInv, ReadInv, TurnInv, Downloading, Target
<1>3. /\ queue' \in Seq(Messages) /\ offset' \in Nat /\ in_step' \in BOOLEAN
      /\ queue' \in Seq(Messages \cup {"handshake"})
      /\ msg' \in Messages
  BY <1>1, <1>2, ReadKeepsTypes
<1>4. in_step' = in_step /\ (in_step => offset' = 0)
  BY <1>1, <1>2, ReadsToTarget
<1>5. TypeOK'
  BY <1>1, <1>2, <1>3, Switches DEF TypeOK
<1>6. (QueueInv /\ PositionInv /\ TurnInv)'
  BY <1>1, <1>2, <1>3, <1>4 DEF QueueInv, PositionInv, TurnInv, Greeting
<1>7. UnchokedInv' /\ AskedInv' /\ HeardInv'
  BY <1>1, <1>2, <1>4 DEF IInv, UnchokedInv, AskedInv, HeardInv, Greeting
<1>. QED
  BY <1>5, <1>6, <1>7 DEF IInv, ReadInv

\* A payload is given up.  Of a stream that is out of step only types are said.
LEMMA AbandonKeeps == IInv /\ Abandon => IInv'
<1>. SUFFICES ASSUME IInv, Abandon PROVE IInv'
  OBVIOUS
<1>1. /\ pc' = "turn" /\ left' = 0 /\ queue' = <<>> /\ offset' = 0 /\ in_step' = FALSE
      /\ UNCHANGED <<msg, silent, bitfield, unchoking, choked>>
      /\ pc = "payload"
  BY DEF Abandon, Skipping, EndTurn
<1>2. /\ state' \in {"WAITING_UNCHOKE", "DOWNLOADING"}
      /\ inventory' \in {"null", "none", "some"}
      /\ assigned' \in BOOLEAN /\ asked' \in BOOLEAN /\ swallowed' \in BOOLEAN
  BY Switches DEF Abandon, Handled, peer, IInv, ReadInv
<1>3. <<>> \in Seq(Messages) /\ <<>> \in Seq(Messages \cup {"handshake"})
  OBVIOUS
<1>4. TypeOK'
  BY <1>1, <1>2, <1>3, Switches DEF IInv, ReadInv, TypeOK
<1>5. (QueueInv /\ PositionInv /\ TurnInv)'
  BY <1>1, <1>2, <1>3 DEF QueueInv, PositionInv, TurnInv, Greeting
<1>6. (UnchokedInv /\ AskedInv /\ HeardInv)'
  BY <1>1 DEF UnchokedInv, AskedInv, HeardInv
<1>. QED
  BY <1>4, <1>5, <1>6 DEF IInv, ReadInv

LEMMA Inductive == IInv /\ [Next]_vars => IInv'
<1>. SUFFICES ASSUME IInv, [Next]_vars PROVE IInv'
  OBVIOUS
<1>1. CASE Remote
  BY <1>1, RemoteKeeps
<1>2. CASE handle_handshake \/ Recv
  BY <1>2, BeginningKeeps
<1>3. CASE ReadLength \/ ReadId \/ ReadPayload \/ ReadNumbers
  <2>1. pc' = "turn" \/ pc' # "turn"
    OBVIOUS
  <2>2. ReadId \/ ReadNumbers => pc' # "turn"
    BY DEF ReadId, ReadNumbers, GoOn
  <2>3. ReadPayload => pc' = "turn"
    BY DEF ReadPayload, EndTurn
  <2>. QED
    BY <1>3, <2>1, <2>2, <2>3, PartKeeps, EndKeeps
<1>4. CASE ReadBlock
  BY <1>4, BlockKeeps
<1>5. CASE Refuse \/ GiveUp \/ Disconnect
  BY <1>5, Dropped DEF Refuse, GiveUp, Disconnect
<1>6. CASE Abandon
  BY <1>6, AbandonKeeps
<1>7. CASE UNCHANGED vars
  <2>1. UNCHANGED <<state, inventory, assigned, pc, left, msg, queue, offset, in_step, silent,
                    bitfield, unchoking, asked, choked, swallowed>>
    BY <1>7 DEF vars, peer, reader, stream, remote, ghosts
  <2>2. TypeOK'
    BY <2>1, Switches DEF IInv, ReadInv, TypeOK
  <2>3. (QueueInv /\ PositionInv /\ TurnInv)'
    BY <2>1 DEF IInv, ReadInv, QueueInv, Greeting, PositionInv, Position, Target, FirstPart,
       Downloading, TurnInv
  <2>4. (UnchokedInv /\ AskedInv /\ HeardInv)'
    BY <2>1 DEF IInv, UnchokedInv, AskedInv, HeardInv, Greeting
  <2>. QED
    BY <2>2, <2>3, <2>4 DEF IInv, ReadInv
<1>. QED
  BY <1>1, <1>2, <1>3, <1>4, <1>5, <1>6, <1>7 DEF Next, Handler

------------------------------------------------------------------------------
(* The theorems *)

\* Every variable keeps its type, whatever a remote sends and when.
THEOREM TypeCorrect == Spec => []TypeOK
<1>1. IInv => TypeOK
  BY DEF IInv, ReadInv
<1>. QED
  BY <1>1, Initially, Inductive, PTL DEF Spec

\* Each turn of a handler begins with the first byte of a message, for any
\* length of a bitfield and of a block and however TCP cuts the stream.
THEOREM Framing == Spec => []InStep
<1>1. IInv => InStep
  BY DEF IInv, ReadInv, PositionInv, InStep
<1>. QED
  BY <1>1, Initially, Inductive, PTL DEF Spec

\* A slot with a piece waits for nothing that is not under way, but for a
\* remote that has choked it.
THEOREM Stalls == Spec => []StallsOnlyIfChoked
<1>1. IInv => StallsOnlyIfChoked
  BY DEF IInv, AskedInv, StallsOnlyIfChoked
<1>. QED
  BY <1>1, Initially, Inductive, PTL DEF Spec

\* An unchoke is lost only in the place of the bitfield.
THEOREM UnchokeHeard == Spec => []NoUnchokeLost
<1>1. IInv => NoUnchokeLost
  BY DEF IInv, HeardInv, NoUnchokeLost
<1>. QED
  BY <1>1, Initially, Inductive, PTL DEF Spec

==============================================================================
