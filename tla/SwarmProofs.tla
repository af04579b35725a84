----------------------------- MODULE SwarmProofs -----------------------------
(***************************************************************************)
(* Proofs about Swarm, for every number of slots, pieces and bytes.        *)
(***************************************************************************)
EXTENDS Swarm, FiniteSetTheorems, TLAPS

------------------------------------------------------------------------------
(* The constants and the operators on them *)

\* A piece is not empty and no longer than PieceLength.
LEMMA PieceSizeType ==
    ASSUME NEW p \in Pieces
    PROVE  PieceSize(p) \in 1 .. PieceLength
<1>1. SizeBytes % PieceLength \in 0 .. PieceLength - 1
  BY MetainfoAssumption
<1>. QED
  BY <1>1, MetainfoAssumption DEF PieceSize

\* The remainder of a division whose quotient is known.
LEMMA Remainder ==
    ASSUME NEW size \in Nat, NEW length \in Nat \ {0}, NEW last \in Nat,
           last * length < size, size <= (last + 1) * length
    PROVE  size % length = IF size = (last + 1) * length THEN 0 ELSE size - last * length
<1>. DEFINE quotient == size \div length
<1>1. /\ size = quotient * length + (size % length)
      /\ size % length \in 0 .. length - 1
      /\ quotient \in Int
  OBVIOUS
<1>2. CASE size = (last + 1) * length
  <2>1. ((last + 1) - quotient) * length = size % length
    BY <1>1, <1>2
  <2>2. (last + 1) - quotient = 0
    BY <2>1, <1>1
  <2>. QED
    BY <2>1, <2>2, <1>2
<1>3. CASE size # (last + 1) * length
  <2>1. (last - quotient) * length + (size - last * length) = (size % length)
    BY <1>1
  <2>2. last - quotient = 0
    BY <2>1, <1>1, <1>3
  <2>. QED
    BY <2>1, <2>2, <1>3
<1>. QED
  BY <1>2, <1>3

\* A piece ends inside the content; the last one ends where the content does.
LEMMA PieceInContent ==
    ASSUME NEW p \in Pieces
    PROVE  p * PieceLength + PieceSize(p) <= SizeBytes
<1>. DEFINE last == TotalPieces - 1
<1>1. /\ p \in Nat /\ last \in Nat /\ p <= last
      /\ SizeBytes \in Nat /\ PieceLength \in Nat \ {0}
      /\ last * PieceLength < SizeBytes /\ SizeBytes <= (last + 1) * PieceLength
  BY MetainfoAssumption DEF Pieces
<1>2. CASE p = last
  <2>1. SizeBytes % PieceLength = IF SizeBytes = (last + 1) * PieceLength THEN 0
                                  ELSE SizeBytes - last * PieceLength
    <3>. HIDE DEF last
    <3>. QED
      BY <1>1, Remainder
  <2>2. PieceSize(p) = SizeBytes - last * PieceLength
    BY <1>1, <1>2, <2>1 DEF PieceSize
  <2>. QED
    BY <1>1, <1>2, <2>2
<1>3. CASE p # last
  <2>1. PieceSize(p) = PieceLength /\ p + 1 <= last
    BY <1>1, <1>3 DEF PieceSize
  <2>2. (p + 1) * PieceLength <= last * PieceLength
    BY <1>1, <2>1
  <2>. QED
    BY <1>1, <2>1, <2>2
<1>. QED
  BY <1>2, <1>3

\* Inside a piece there is a block to ask for, and it stays inside.
LEMMA BlockLengthInRange ==
    ASSUME NEW p \in Pieces, NEW offset \in Nat, offset < PieceSize(p)
    PROVE  /\ BlockLength(p, offset) \in 1 .. BlockSize
           /\ offset + BlockLength(p, offset) <= PieceSize(p)
BY PieceSizeType, MetainfoAssumption, SwarmAssumption DEF BlockLength

\* The null values are neither a piece nor a set of pieces.
LEMMA NullValues ==
    /\ NoPiece \notin Pieces
    /\ NoInventory \notin SUBSET Pieces
BY DEF NoPiece, NoInventory, Pieces

LEMMA FiniteSlots ==
    /\ IsFiniteSet(Slots)
    /\ IsFiniteSet(Pieces)
    /\ Cardinality(Pieces) = TotalPieces
BY FS_Interval, MetainfoAssumption, SwarmAssumption DEF Slots, Pieces

------------------------------------------------------------------------------
(***************************************************************************)
(* The inductive invariant.  SlotInv is the part that the slots, the state *)
(* of the pieces and the requests take part in, and each of its conjuncts  *)
(* needs the others: dropping a slot gives a piece back only if the slot   *)
(* holds a pending one (PendingHasOneOwner), a slot gets a piece only      *)
(* while it has none (SlotCoherent), and the offset stays inside the piece *)
(* because no more is received than was asked for (RequestInPiece).        *)
(* ClosedWhileStopped is needed for the slots that are dialled into.       *)
(***************************************************************************)
SlotType ==
    /\ piece_states \in [Pieces -> {"MISSING", "PENDING", "DONE"}]
    /\ open \in [Slots -> BOOLEAN]
    /\ state \in [Slots -> PeerConnectionState]
    /\ inventory \in [Slots -> (SUBSET Pieces) \cup {NoInventory}]
    /\ current_piece_assigned \in [Slots -> Pieces \cup {NoPiece}]
    /\ current_block_offset \in [Slots -> Nat]
    /\ piece_buffer \in [Slots -> {"none", "genuine", "corrupt"}]
    /\ asked \in [Slots -> Nat]

RequestInPiece ==
    \A i \in Slots : current_piece_assigned[i] # NoPiece =>
        /\ asked[i] \in 1 .. BlockSize
        /\ current_block_offset[i] + asked[i] <= PieceSize(current_piece_assigned[i])

SlotInv == SlotType /\ PendingHasOneOwner /\ SlotCoherent /\ RequestInPiece

slotVars == <<piece_states, open, state, inventory, piece, asked>>

IInv == TypeOK /\ SlotInv /\ ClosedWhileStopped

\* The initial states.
LEMMA InitIInv == Init => IInv
<1>. SUFFICES ASSUME Init
              PROVE  IInv
  OBVIOUS
<1>1. pieces_completed \in Nat
  BY FiniteSlots, FS_Subset, FS_CardinalityType DEF Init
<1>2. TypeOK
  BY <1>1 DEF Init, TypeOK, PeerConnectionState
<1>3. PendingHasOneOwner
  BY NullValues DEF Init, PendingHasOneOwner
<1>4. SlotCoherent /\ RequestInPiece /\ ClosedWhileStopped
  BY DEF Init, SlotCoherent, RequestInPiece, ClosedWhileStopped
<1>. QED
  BY <1>2, <1>3, <1>4 DEF IInv, SlotInv, SlotType, TypeOK

\* What leaves the slots alone.
LEMMA SameSlots ==
    ASSUME SlotInv, UNCHANGED slotVars
    PROVE  SlotInv'
BY DEF SlotInv, SlotType, PendingHasOneOwner, SlotCoherent, RequestInPiece, slotVars, piece

\* New connections go into dead slots.
LEMMA ConnectSlots ==
    ASSUME SlotInv, NEW slots \in SUBSET Slots, \A i \in slots : state[i] = "DEAD",
           NEW as \in {"CONNECTING", "INCOMING_HANDSHAKE"},
           connect(slots, as), UNCHANGED piece_states
    PROVE  SlotInv'
<1>1. SlotType'
  BY DEF SlotInv, SlotType, connect, piece, PeerConnectionState
<1>2. PendingHasOneOwner'
  BY DEF SlotInv, PendingHasOneOwner, connect, piece
<1>3. \A i \in Slots : /\ open'[i] <=> i \in slots \/ open[i]
                       /\ state'[i] = IF i \in slots THEN as ELSE state[i]
  BY DEF connect
<1>4. SlotCoherent'
  BY <1>3 DEF SlotInv, SlotCoherent, connect, piece
<1>5. RequestInPiece'
  BY DEF SlotInv, RequestInPiece, connect, piece
<1>. QED
  BY <1>1, <1>2, <1>4, <1>5 DEF SlotInv

\* Dropped slots give back what they hold.
LEMMA DropSlots ==
    ASSUME SlotInv, NEW slots \in SUBSET Slots, drop_peer(slots)
    PROVE  SlotInv' /\ \A i \in slots : state'[i] = "DEAD"
<1>1. SlotType'
  BY DEF SlotInv, SlotType, drop_peer, PeerConnectionState
<1>2. \A i \in Slots \ slots :
         /\ open'[i] = open[i]
         /\ state'[i] = state[i]
         /\ inventory'[i] = inventory[i]
         /\ current_piece_assigned'[i] = current_piece_assigned[i]
         /\ current_block_offset'[i] = current_block_offset[i]
         /\ piece_buffer'[i] = piece_buffer[i]
         /\ asked'[i] = asked[i]
  BY DEF SlotInv, SlotType, drop_peer
<1>3. \A i \in slots :
         /\ ~open'[i]
         /\ state'[i] = "DEAD"
         /\ inventory'[i] = NoInventory
         /\ current_piece_assigned'[i] = NoPiece
         /\ piece_buffer'[i] = "none"
  BY DEF drop_peer
<1>4. ASSUME NEW p \in Pieces
      PROVE  piece_states'[p] = "PENDING" <=> \E i \in Slots : current_piece_assigned'[i] = p
  <2>1. CASE \E i \in slots : current_piece_assigned[i] = p
    <3>1. piece_states'[p] = "MISSING"
      BY <2>1 DEF drop_peer
    <3>2. \A i \in Slots : current_piece_assigned'[i] # p
      BY <2>1, <1>2, <1>3, NullValues DEF SlotInv, PendingHasOneOwner
    <3>. QED
      BY <3>1, <3>2
  <2>2. CASE \A i \in slots : current_piece_assigned[i] # p
    <3>1. piece_states'[p] = piece_states[p]
      BY <2>2 DEF drop_peer
    <3>2. \A i \in Slots : current_piece_assigned'[i] = p <=> current_piece_assigned[i] = p
      BY <2>2, <1>2, <1>3, NullValues
    <3>. QED
      BY <3>1, <3>2 DEF SlotInv, PendingHasOneOwner
  <2>. QED
    BY <2>1, <2>2
<1>5. PendingHasOneOwner'
  BY <1>2, <1>3, <1>4 DEF SlotInv, PendingHasOneOwner
<1>6. SlotCoherent' /\ RequestInPiece'
  BY <1>2, <1>3 DEF SlotInv, SlotCoherent, RequestInPiece
<1>. QED
  BY <1>1, <1>3, <1>5, <1>6 DEF SlotInv

\* The handshakes and the bitfield: slots that hold no piece.
LEMMA GreetSlots ==
    ASSUME SlotInv, NEW i \in Slots, socket_connected(i) \/ incoming_handshake(i) \/ handle_handshake(i)
    PROVE  SlotInv'
<1>1. PICK from \in {"CONNECTING", "INCOMING_HANDSHAKE", "HANDSHAKING"},
           to \in {"HANDSHAKING", "WAITING_BITFIELD"} :
         /\ state[i] = from
         /\ state' = [state EXCEPT ![i] = to]
         /\ UNCHANGED <<piece_states, open, inventory, piece, asked>>
  BY DEF socket_connected, incoming_handshake, handle_handshake, Greet, store
<1>2. SlotType'
  BY <1>1 DEF SlotInv, SlotType, PeerConnectionState, piece
<1>3. PendingHasOneOwner' /\ RequestInPiece'
  BY <1>1 DEF SlotInv, PendingHasOneOwner, RequestInPiece, piece
<1>4. SlotCoherent'
  BY <1>1 DEF SlotInv, SlotType, SlotCoherent, piece
<1>. QED
  BY <1>2, <1>3, <1>4 DEF SlotInv

LEMMA BitfieldSlots ==
    ASSUME SlotInv, NEW i \in Slots, handle_bitfield(i)
    PROVE  SlotInv'
<1>1. PICK announced \in SUBSET Pieces :
         /\ state[i] = "WAITING_BITFIELD"
         /\ state' = [state EXCEPT ![i] = "WAITING_UNCHOKE"]
         /\ inventory' = [inventory EXCEPT ![i] = announced]
         /\ UNCHANGED <<piece_states, open, piece, asked>>
  BY SwarmAssumption DEF handle_bitfield, store
<1>2. SlotType'
  BY <1>1 DEF SlotInv, SlotType, PeerConnectionState, piece
<1>3. PendingHasOneOwner' /\ RequestInPiece'
  BY <1>1 DEF SlotInv, PendingHasOneOwner, RequestInPiece, piece
<1>4. SlotCoherent'
  BY <1>1, NullValues DEF SlotInv, SlotType, SlotCoherent, piece
<1>. QED
  BY <1>2, <1>3, <1>4 DEF SlotInv

\* A slot takes a missing piece p.  If it held another one, old, then that one
\* has just become done.
LEMMA AssignSlot ==
    ASSUME SlotInv, NEW i \in Slots, NEW p \in Pieces, Selected(i, p), Assign(i, p),
           state[i] \in {"WAITING_UNCHOKE", "DOWNLOADING"},
           NEW old \in Pieces \cup {NoPiece}, old = current_piece_assigned[i],
           piece_states' = [q \in Pieces |-> IF q = p THEN "PENDING"
                                             ELSE IF q = old THEN "DONE"
                                             ELSE piece_states[q]]
    PROVE  SlotInv'
<1>1. piece_states[p] = "MISSING" /\ p \in inventory[i]
  BY DEF Selected, Wanted
<1>2. \A j \in Slots : current_piece_assigned[j] # p
  BY <1>1 DEF SlotInv, PendingHasOneOwner
<1>3. /\ 0 < PieceSize(p)
      /\ BlockLength(p, 0) \in 1 .. BlockSize
      /\ 0 + BlockLength(p, 0) <= PieceSize(p)
  BY PieceSizeType, BlockLengthInRange, MetainfoAssumption
<1>4. SlotType'
  BY <1>3, SwarmAssumption DEF SlotInv, SlotType, PeerConnectionState, Assign
<1>5. /\ state'[i] = "DOWNLOADING"
      /\ current_piece_assigned'[i] = p
      /\ current_block_offset'[i] = 0
      /\ piece_buffer'[i] = "genuine"
      /\ asked'[i] = BlockLength(p, 0)
  BY DEF SlotInv, SlotType, Assign
<1>6. \A j \in Slots \ {i} :
         /\ state'[j] = state[j]
         /\ current_piece_assigned'[j] = current_piece_assigned[j]
         /\ current_block_offset'[j] = current_block_offset[j]
         /\ piece_buffer'[j] = piece_buffer[j]
         /\ asked'[j] = asked[j]
  BY DEF SlotInv, SlotType, Assign
<1>7. UNCHANGED <<open, inventory>>
  BY DEF Assign
<1>8. ASSUME NEW q \in Pieces
      PROVE  piece_states'[q] = "PENDING" <=> \E j \in Slots : current_piece_assigned'[j] = q
  <2>1. CASE q = p
    BY <2>1, <1>5
  <2>2. CASE q # p /\ q = old
    <3>1. piece_states'[q] = "DONE"
      BY <2>2
    <3>2. \A j \in Slots : current_piece_assigned'[j] # q
      BY <2>2, <1>5, <1>6, NullValues DEF SlotInv, PendingHasOneOwner
    <3>. QED
      BY <3>1, <3>2
  <2>3. CASE q # p /\ q # old
    <3>1. piece_states'[q] = piece_states[q]
      BY <2>3
    <3>2. \A j \in Slots : current_piece_assigned'[j] = q <=> current_piece_assigned[j] = q
      BY <2>3, <1>5, <1>6
    <3>. QED
      BY <3>1, <3>2 DEF SlotInv, PendingHasOneOwner
  <2>. QED
    BY <2>1, <2>2, <2>3
<1>9. PendingHasOneOwner'
  BY <1>2, <1>5, <1>6, <1>8 DEF SlotInv, PendingHasOneOwner
<1>10. SlotCoherent'
  BY <1>1, <1>5, <1>6, <1>7, NullValues DEF SlotInv, SlotCoherent
<1>11. RequestInPiece'
  BY <1>3, <1>5, <1>6 DEF SlotInv, RequestInPiece
<1>. QED
  BY <1>4, <1>9, <1>10, <1>11 DEF SlotInv

LEMMA UnchokeSlots ==
    ASSUME SlotInv, NEW i \in Slots, handle_unchoke(i)
    PROVE  SlotInv'
<1>1. CASE UnchokedInVain(i)
  BY <1>1, DropSlots DEF UnchokedInVain
<1>2. ASSUME NEW p \in Pieces, Unchoked(i, p)
      PROVE  SlotInv'
  <2>1. current_piece_assigned[i] = NoPiece
    BY <1>2 DEF Unchoked, SlotInv, SlotCoherent
  <2>2. piece_states' = [q \in Pieces |-> IF q = p THEN "PENDING"
                                         ELSE IF q = NoPiece THEN "DONE"
                                         ELSE piece_states[q]]
    BY <1>2, NullValues DEF Unchoked, SlotInv, SlotType
  <2>3. NoPiece \in Pieces \cup {NoPiece}
    OBVIOUS
  <2>4. /\ Selected(i, p) /\ Assign(i, p)
        /\ state[i] \in {"WAITING_UNCHOKE", "DOWNLOADING"}
    BY <1>2 DEF Unchoked
  <2>. QED
    BY <2>1, <2>2, <2>3, <2>4, AssignSlot
<1>. QED
  BY <1>1, <1>2 DEF handle_unchoke

\* A block that does not complete its piece.
LEMMA NextBlockSlots ==
    ASSUME SlotInv, NEW i \in Slots, NEW length \in 1 .. BlockSize, NEW good \in BOOLEAN,
           NextBlock(i, length, good)
    PROVE  SlotInv'
<1>. DEFINE p == current_piece_assigned[i]
            offset == current_block_offset[i] + length
<1>1. p \in Pieces /\ offset \in Nat /\ offset < PieceSize(p)
  BY SwarmAssumption DEF NextBlock, Block, SlotInv, SlotType
<1>2. /\ BlockLength(p, offset) \in 1 .. BlockSize
      /\ offset + BlockLength(p, offset) <= PieceSize(p)
  BY <1>1, BlockLengthInRange
<1>3. /\ current_block_offset' = [current_block_offset EXCEPT ![i] = offset]
      /\ piece_buffer' = [piece_buffer EXCEPT ![i] = Received(i, good)]
      /\ asked' = [asked EXCEPT ![i] = BlockLength(p, offset)]
      /\ UNCHANGED <<piece_states, open, state, inventory, current_piece_assigned>>
      /\ p # NoPiece
  BY DEF NextBlock, Block, store
<1>. HIDE DEF p, offset
<1>4. SlotType'
  BY <1>1, <1>2, <1>3, SwarmAssumption DEF SlotInv, SlotType, Received
<1>5. PendingHasOneOwner'
  BY <1>3 DEF SlotInv, PendingHasOneOwner
<1>6. SlotCoherent'
  BY <1>3 DEF SlotInv, SlotType, SlotCoherent, Received, p
<1>7. RequestInPiece'
  BY <1>2, <1>3 DEF SlotInv, SlotType, RequestInPiece, p
<1>. QED
  BY <1>4, <1>5, <1>6, <1>7 DEF SlotInv

LEMMA CompleteSlots ==
    ASSUME SlotInv, NEW i \in Slots, NEW length \in 1 .. BlockSize, NEW good \in BOOLEAN,
           \/ \E next \in Pieces : CompleteAndGoOn(i, length, good, next)
           \/ CompleteAndIdle(i, length, good)
    PROVE  SlotInv'
<1>. DEFINE p == current_piece_assigned[i]
<1>1. state[i] = "DOWNLOADING" /\ p \in Pieces
  BY DEF CompleteAndGoOn, CompleteAndIdle, Complete, LastBlock, Block, SlotInv, SlotType
<1>2. piece_states[p] = "PENDING" /\ \A j \in Slots \ {i} : current_piece_assigned[j] # p
  BY <1>1, NullValues DEF SlotInv, PendingHasOneOwner
<1>3. ASSUME NEW next \in Pieces, CompleteAndGoOn(i, length, good, next)
      PROVE  SlotInv'
  <2>1. /\ Selected(i, next) /\ Assign(i, next)
        /\ state[i] \in {"WAITING_UNCHOKE", "DOWNLOADING"}
    BY <1>1, <1>3 DEF CompleteAndGoOn
  <2>2. next # p
    BY <1>2, <2>1 DEF Selected, Wanted
  <2>3. piece_states' = [q \in Pieces |-> IF q = next THEN "PENDING"
                                         ELSE IF q = p THEN "DONE"
                                         ELSE piece_states[q]]
    BY <1>1, <1>3, <2>2 DEF CompleteAndGoOn, SlotInv, SlotType
  <2>4. p \in Pieces \cup {NoPiece}
    BY <1>1
  <2>. QED
    BY <2>1, <2>3, <2>4, AssignSlot
<1>4. CASE CompleteAndIdle(i, length, good)
  <2>1. /\ piece_states' = [piece_states EXCEPT ![p] = "DONE"]
        /\ current_piece_assigned' = [current_piece_assigned EXCEPT ![i] = NoPiece]
        /\ current_block_offset' = [current_block_offset EXCEPT ![i] = @ + length]
        /\ piece_buffer' = [piece_buffer EXCEPT ![i] = "none"]
        /\ asked' = [asked EXCEPT ![i] = 0]
        /\ UNCHANGED <<open, state, inventory>>
    BY <1>4 DEF CompleteAndIdle
  <2>2. SlotType'
    BY <1>1, <2>1, SwarmAssumption DEF SlotInv, SlotType
  <2>3. ASSUME NEW q \in Pieces
        PROVE  piece_states'[q] = "PENDING" <=> \E j \in Slots : current_piece_assigned'[j] = q
    <3>1. CASE q = p
      BY <3>1, <1>1, <1>2, <2>1, NullValues DEF SlotInv, SlotType
    <3>2. CASE q # p
      BY <3>2, <1>1, <2>1, NullValues DEF SlotInv, SlotType, PendingHasOneOwner
    <3>. QED
      BY <3>1, <3>2
  <2>4. PendingHasOneOwner'
    BY <2>1, <2>3 DEF SlotInv, SlotType, PendingHasOneOwner
  <2>5. SlotCoherent'
    BY <2>1 DEF SlotInv, SlotType, SlotCoherent
  <2>6. RequestInPiece'
    BY <2>1 DEF SlotInv, SlotType, RequestInPiece
  <2>. QED
    BY <2>2, <2>4, <2>5, <2>6 DEF SlotInv
<1>. QED
  BY <1>3, <1>4

\* One turn of a slot.
LEMMA TurnSlots ==
    ASSUME SlotInv, NEW i \in Slots, ServeSlot(i)
    PROVE  SlotInv'
<1>1. CASE Disconnect(i)
  BY <1>1, DropSlots DEF Disconnect
<1>2. CASE Ignore(i)
  BY <1>2, SameSlots DEF Ignore, slotVars, store, conns
<1>3. CASE socket_connected(i) \/ incoming_handshake(i) \/ handle_handshake(i)
  BY <1>3, GreetSlots
<1>4. CASE handle_bitfield(i)
  BY <1>4, BitfieldSlots
<1>5. CASE handle_unchoke(i)
  BY <1>5, UnchokeSlots
<1>6. CASE \E p \in Pieces : ServeRequest(i, p)
  BY <1>6, SameSlots DEF ServeRequest, slotVars, store, conns
<1>7. ASSUME NEW good \in BOOLEAN, GetBlock(i, good)
      PROVE  SlotInv'
  <2>1. PICK length \in 1 .. BlockSize :
           \/ NextBlock(i, length, good)
           \/ CorruptPiece(i, length, good)
           \/ \E next \in Pieces : CompleteAndGoOn(i, length, good, next)
           \/ CompleteAndIdle(i, length, good)
    BY <1>7 DEF GetBlock
  <2>2. CASE NextBlock(i, length, good)
    BY <2>2, NextBlockSlots
  <2>3. CASE CorruptPiece(i, length, good)
    BY <2>3, DropSlots DEF CorruptPiece
  <2>4. CASE \/ \E next \in Pieces : CompleteAndGoOn(i, length, good, next)
             \/ CompleteAndIdle(i, length, good)
    BY <2>4, CompleteSlots
  <2>. QED
    BY <2>1, <2>2, <2>3, <2>4
<1>. QED
  BY <1>1, <1>2, <1>3, <1>4, <1>5, <1>6, <1>7 DEF ServeSlot, handle_downloading

\* What all turns have in common.
LEMMA TurnOfSlot ==
    ASSUME NEW i \in Slots, ServeSlot(i)
    PROVE  Turn(i)
BY DEF ServeSlot, Disconnect, Ignore, socket_connected, incoming_handshake, Greet,
       handle_handshake, handle_bitfield, handle_unchoke, UnchokedInVain, Unchoked,
       handle_downloading, ServeRequest, GetBlock, NextBlock, CorruptPiece,
       CompleteAndGoOn, CompleteAndIdle, Complete, LastBlock, Block

\* The slots under every step.
LEMMA NextSlots ==
    ASSUME IInv, [Next]_vars
    PROVE  SlotInv' /\ ClosedWhileStopped'
<1>. USE DEF IInv
<1>1. CASE start_swarm \/ LeavePause
  <2>1. PICK dialled \in SUBSET Slots : connect(dialled, "CONNECTING")
    BY <1>1 DEF start_swarm, LeavePause, initiate_connections
  <2>2. /\ pc' = "check"
        /\ UNCHANGED piece_states
        /\ \A i \in Slots : state[i] = "DEAD"
    BY <1>1 DEF start_swarm, LeavePause, store, ClosedWhileStopped
  <2>. QED
    BY <2>1, <2>2, ConnectSlots DEF ClosedWhileStopped
<1>2. CASE CheckPaused \/ PollFails
  BY <1>2, DropSlots DEF CheckPaused, PollFails, ClosedWhileStopped
<1>3. CASE CheckStatus \/ Poll
  BY <1>3, SameSlots DEF CheckStatus, Poll, slotVars, store, conns, ClosedWhileStopped
<1>4. CASE Epilogue
  BY <1>4, SameSlots DEF Epilogue, slotVars, store, conns, ClosedWhileStopped
<1>5. CASE Accept
  <2>1. pc' \in {"check", "serve"} /\ UNCHANGED piece_states
    BY <1>5 DEF Accept, store
  <2>2. CASE UNCHANGED conns
    BY <2>1, <2>2, SameSlots DEF slotVars, conns, ClosedWhileStopped
  <2>3. ASSUME NEW i \in Slots, FreeSlot(i), connect({i}, "INCOMING_HANDSHAKE")
        PROVE  SlotInv'
    BY <2>1, <2>3, ConnectSlots DEF FreeSlot
  <2>. QED
    BY <1>5, <2>1, <2>2, <2>3 DEF Accept, ClosedWhileStopped
<1>6. ASSUME NEW i \in Slots, ServeSlot(i)
      PROVE  SlotInv' /\ ClosedWhileStopped'
  <2>1. Turn(i)
    BY <1>6, TurnOfSlot
  <2>2. pc' \in {"check", "serve"}
    BY <2>1 DEF Turn
  <2>. QED
    BY <1>6, <2>2, TurnSlots DEF ClosedWhileStopped
<1>7. CASE User \/ UNCHANGED vars
  BY <1>7, SameSlots DEF User, ts_pause_torrent, ts_resume_torrent, vars, slotVars, store, conns,
                         ClosedWhileStopped
<1>. QED
  BY <1>1, <1>2, <1>3, <1>4, <1>5, <1>6, <1>7 DEF Next, DownloadThread

\* Dropping slots takes no piece that is done: what they hold is pending.
LEMMA DropKeepsDone ==
    ASSUME IInv, NEW slots \in SUBSET Slots, drop_peer(slots)
    PROVE  Done' = Done
BY DEF drop_peer, Done, IInv, SlotInv, SlotType, PendingHasOneOwner

\* The last block of a piece makes done the piece of the slot, which was not.
LEMMA CompletionAddsPiece ==
    ASSUME IInv, NEW i \in Slots, NEW length \in 1 .. BlockSize, NEW good \in BOOLEAN,
           \/ \E next \in Pieces : CompleteAndGoOn(i, length, good, next)
           \/ CompleteAndIdle(i, length, good)
    PROVE  /\ current_piece_assigned[i] \in Pieces \ Done
           /\ Done' = Done \cup {current_piece_assigned[i]}
<1>. DEFINE p == current_piece_assigned[i]
<1>. USE DEF IInv
<1>1. p \in Pieces \ Done
  BY DEF CompleteAndGoOn, CompleteAndIdle, Complete, LastBlock, Block, SlotInv, SlotType,
         PendingHasOneOwner, Done
<1>2. CASE CompleteAndIdle(i, length, good)
  BY <1>1, <1>2 DEF CompleteAndIdle, SlotInv, SlotType, Done
<1>3. ASSUME NEW next \in Pieces, CompleteAndGoOn(i, length, good, next)
      PROVE  Done' = Done \cup {p}
  <2>1. piece_states[next] = "MISSING"
    BY <1>3 DEF CompleteAndGoOn, Selected, Wanted
  <2>2. piece_states[p] = "PENDING"
    BY <1>1 DEF SlotInv, PendingHasOneOwner
  <2>3. piece_states' = [piece_states EXCEPT ![p] = "DONE", ![next] = "PENDING"]
    BY <1>3 DEF CompleteAndGoOn
  <2>. QED
    BY <1>1, <2>1, <2>2, <2>3 DEF SlotInv, SlotType, Done
<1>. QED
  BY <1>1, <1>2, <1>3

\* What a write of piece p with the right bytes may leave on disk.
Written(p) ==
    \E spoiled \in IF WritesMayFail THEN SUBSET (Done \cup {p}) ELSE {{}} :
        disk' = [q \in Pieces |-> IF q \in spoiled THEN "damaged"
                                 ELSE IF q = p THEN "genuine" ELSE disk[q]]

\* What a step may do to the pieces that are done: nothing, or add one that was
\* pending, with what was written of it.
LEMMA DoneSteps ==
    ASSUME IInv, [Next]_vars
    PROVE  \/ Done' = Done /\ UNCHANGED <<pieces_completed, disk>>
           \/ \E p \in Pieces \ Done :
                 /\ Done' = Done \cup {p}
                 /\ pieces_completed' = pieces_completed + 1
                 /\ Written(p)
<1>. USE DEF IInv
<1>2. CASE UNCHANGED store
  BY <1>2 DEF store, Done
<1>3. CASE CheckPaused \/ PollFails
  BY <1>3, DropKeepsDone DEF CheckPaused, PollFails
<1>4. ASSUME NEW i \in Slots,
             \/ Disconnect(i)
             \/ UnchokedInVain(i)
             \/ \E length \in 1 .. BlockSize, good \in BOOLEAN : CorruptPiece(i, length, good)
      PROVE  Done' = Done /\ UNCHANGED <<pieces_completed, disk>>
  BY <1>4, DropKeepsDone DEF Disconnect, UnchokedInVain, CorruptPiece
<1>5. ASSUME NEW i \in Slots, NEW p \in Pieces, Unchoked(i, p)
      PROVE  Done' = Done /\ UNCHANGED <<pieces_completed, disk>>
  BY <1>5 DEF Unchoked, Selected, Wanted, Done, SlotInv, SlotType
<1>6. ASSUME NEW i \in Slots, NEW length \in 1 .. BlockSize, NEW good \in BOOLEAN,
             \/ \E next \in Pieces : CompleteAndGoOn(i, length, good, next)
             \/ CompleteAndIdle(i, length, good)
      PROVE  \E p \in Pieces \ Done :
                 /\ Done' = Done \cup {p}
                 /\ pieces_completed' = pieces_completed + 1
                 /\ Written(p)
  <2>1. Complete(i, length, good)
    BY <1>6 DEF CompleteAndGoOn, CompleteAndIdle
  <2>2. /\ current_piece_assigned[i] \in Pieces \ Done
        /\ Done' = Done \cup {current_piece_assigned[i]}
    BY <1>6, CompletionAddsPiece
  <2>. QED
    BY <2>1, <2>2 DEF Complete, HashMatches, write_piece_to_disk, Written
<1>7. ASSUME NEW i \in Slots, ServeSlot(i)
      PROVE  \/ UNCHANGED store
             \/ Disconnect(i)
             \/ UnchokedInVain(i)
             \/ \E length \in 1 .. BlockSize, good \in BOOLEAN : CorruptPiece(i, length, good)
             \/ \E p \in Pieces : Unchoked(i, p)
             \/ \E length \in 1 .. BlockSize, good \in BOOLEAN :
                   \/ \E next \in Pieces : CompleteAndGoOn(i, length, good, next)
                   \/ CompleteAndIdle(i, length, good)
  BY <1>7 DEF ServeSlot, Ignore, socket_connected, incoming_handshake, Greet, handle_handshake,
              handle_bitfield, handle_unchoke, handle_downloading, ServeRequest, GetBlock, NextBlock
<1>. QED
  BY <1>2, <1>3, <1>4, <1>5, <1>6, <1>7
     DEF Next, DownloadThread, User, start_swarm, CheckStatus, LeavePause, Poll, Epilogue,
         Accept, ts_pause_torrent, ts_resume_torrent, vars

\* The variables that no slot holds keep their types.
LEMMA NextType ==
    ASSUME IInv, [Next]_vars
    PROVE  TypeOK'
<1>. USE DEF IInv, TypeOK
<1>1. SlotType'
  BY NextSlots DEF SlotInv
<1>2. disk' \in [Pieces -> {"other", "genuine", "corrupt", "damaged"}] /\ pieces_completed' \in Nat
  BY DoneSteps DEF Written
<1>3. uploaded' \subseteq {"other", "genuine", "corrupt", "damaged"}
  <2>1. ASSUME NEW i \in Slots, ServeSlot(i)
        PROVE  uploaded' \subseteq {"other", "genuine", "corrupt", "damaged"}
    BY <2>1 DEF ServeSlot, Disconnect, Ignore, socket_connected, incoming_handshake, Greet,
                handle_handshake, handle_bitfield, handle_unchoke, UnchokedInVain, Unchoked,
                handle_downloading, ServeRequest, GetBlock, NextBlock, CorruptPiece,
                CompleteAndGoOn, CompleteAndIdle, Complete
  <2>. QED
    BY <2>1 DEF Next, DownloadThread, User, start_swarm, CheckStatus, CheckPaused, LeavePause,
                Poll, PollFails, Epilogue, Accept, ts_pause_torrent, ts_resume_torrent, vars
<1>4. told' \in [Slots -> SUBSET Pieces]
  <2>1. ASSUME NEW slots \in SUBSET Slots, drop_peer(slots)
        PROVE  told' \in [Slots -> SUBSET Pieces]
    BY <2>1 DEF drop_peer
  <2>2. ASSUME NEW i \in Slots, ServeSlot(i)
        PROVE  told' \in [Slots -> SUBSET Pieces]
    BY <2>1, <2>2
       DEF ServeSlot, Disconnect, Ignore, socket_connected, incoming_handshake, Greet,
           handle_handshake, handle_bitfield, handle_unchoke, UnchokedInVain, Unchoked,
           handle_downloading, ServeRequest, GetBlock, NextBlock, CorruptPiece, Done,
           CompleteAndGoOn, CompleteAndIdle, Complete, LastBlock, Block, Announce, conns
  <2>. QED
    BY <2>1, <2>2 DEF Next, DownloadThread, User, start_swarm, initiate_connections, connect,
                CheckStatus, CheckPaused, LeavePause, Poll, PollFails, Epilogue, Accept,
                ts_pause_torrent, ts_resume_torrent, vars, conns
<1>5. /\ seeds' \in Nat /\ peers_count' \in Nat
      /\ status' \in {"DOWNLOADING", "SEEDING", "PAUSED"}
      /\ seeding' \in BOOLEAN
      /\ ready' \subseteq Slots
      /\ pc' \in {"start", "check", "paused", "poll", "accept", "serve", "stopped", "done"}
  <2>1. CASE Poll
    <3>1. ready' \subseteq Slots /\ pc' \in {"accept", "check", "serve"}
      BY <2>1 DEF Poll
    <3>2. seeds' \in Nat /\ peers_count' \in Nat
      BY <2>1, FiniteSlots, FS_Subset, FS_CardinalityType DEF Poll
    <3>. QED
      BY <2>1, <3>1, <3>2 DEF Poll, user
  <2>2. ASSUME NEW i \in Slots, ServeSlot(i)
        PROVE  Turn(i)
    BY <2>2, TurnOfSlot
  <2>3. CASE \E i \in Slots : Turn(i)
    BY <2>3 DEF Turn, user, shown
  <2>4. CASE start_swarm \/ CheckStatus \/ CheckPaused \/ LeavePause
    BY <2>4 DEF start_swarm, CheckStatus, CheckPaused, LeavePause, user, shown
  <2>5. CASE PollFails \/ Epilogue \/ Accept
    BY <2>5 DEF PollFails, Epilogue, Accept, user, shown
  <2>6. CASE User \/ UNCHANGED vars
    BY <2>6 DEF User, ts_pause_torrent, ts_resume_torrent, vars, user, shown
  <2>. QED
    BY <2>1, <2>2, <2>3, <2>4, <2>5, <2>6 DEF Next, DownloadThread
<1>. QED
  BY <1>1, <1>2, <1>3, <1>4, <1>5 DEF SlotType

------------------------------------------------------------------------------
(* The theorems *)

\* The inductive invariant holds throughout.
THEOREM Inductive == Spec => []IInv
<1>1. Init => IInv
  BY InitIInv
<1>2. IInv /\ [Next]_vars => IInv'
  BY NextSlots, NextType DEF IInv
<1>. QED
  BY <1>1, <1>2, PTL DEF Spec

\* The variables of the swarm keep their types, whatever the remotes, the user
\* and poll do.
THEOREM TypeCorrect == Spec => []TypeOK
<1>1. IInv => TypeOK
  BY DEF IInv
<1>. QED
  BY <1>1, Inductive, PTL

\* A pending piece is assigned to exactly one slot, through every order of
\* unchokes, blocks, lost connections and pauses.
THEOREM OneOwner == Spec => []PendingHasOneOwner
<1>1. IInv => PendingHasOneOwner
  BY DEF IInv, SlotInv
<1>. QED
  BY <1>1, Inductive, PTL

\* A slot agrees with its state, so no handler meets a null pointer and no
\* connection inherits anything from the one before it in its slot.
THEOREM Coherent == Spec => []SlotCoherent
<1>1. IInv => SlotCoherent
  BY DEF IInv, SlotInv
<1>. QED
  BY <1>1, Inductive, PTL

\* Every request is for a non-empty block inside its piece and inside the
\* content, for every size of the content, of the pieces and of the blocks.
THEOREM InRange == Spec => []RequestInRange
<1>1. ASSUME IInv, NEW i \in Slots, current_piece_assigned[i] # NoPiece
      PROVE  LET end == current_block_offset[i] + asked[i]
             IN  /\ asked[i] \in 1 .. BlockSize
                 /\ end <= PieceLength
                 /\ current_piece_assigned[i] * PieceLength + end <= SizeBytes
  <2>. DEFINE p == current_piece_assigned[i]
              end == current_block_offset[i] + asked[i]
  <2>1. /\ p \in Pieces
        /\ current_block_offset[i] \in Nat
        /\ asked[i] \in 1 .. BlockSize
        /\ end <= PieceSize(p)
    BY <1>1 DEF IInv, SlotInv, SlotType, RequestInPiece
  <2>2. PieceSize(p) \in 1 .. PieceLength /\ p * PieceLength + PieceSize(p) <= SizeBytes
    BY <2>1, PieceSizeType, PieceInContent
  <2>3. /\ end \in Int /\ p * PieceLength \in Int
        /\ PieceLength \in Int /\ SizeBytes \in Int /\ PieceSize(p) \in Int
    BY <2>1, <2>2, MetainfoAssumption, SwarmAssumption DEF Pieces
  <2>. HIDE DEF p, end
  <2>4. end <= PieceLength /\ p * PieceLength + end <= SizeBytes
    BY <2>1, <2>2, <2>3
  <2>. QED
    BY <2>1, <2>4 DEF p, end
<1>2. IInv => RequestInRange
  BY <1>1 DEF RequestInRange
<1>. QED
  BY <1>2, Inductive, PTL

\* No connection is left while the thread waits or after it has stopped.
THEOREM Closed == Spec => []ClosedWhileStopped
<1>1. IInv => ClosedWhileStopped
  BY DEF IInv
<1>. QED
  BY <1>1, Inductive, PTL

\* pieces_completed counts the pieces that are done: a completed piece was
\* pending, so it is not counted twice.
THEOREM Counting == Spec => []CompletedCountsDone
<1>1. Init => CompletedCountsDone
  <2>. SUFFICES ASSUME Init
                PROVE  CompletedCountsDone
    OBVIOUS
  <2>1. PICK recovered \in SUBSET Pieces :
           /\ piece_states = [p \in Pieces |-> IF p \in recovered THEN "DONE" ELSE "MISSING"]
           /\ pieces_completed = Cardinality(recovered)
    BY DEF Init
  <2>2. Done = recovered
    BY <2>1 DEF Done
  <2>. QED
    BY <2>1, <2>2 DEF CompletedCountsDone
<1>2. CompletedCountsDone /\ IInv /\ [Next]_vars => CompletedCountsDone'
  <2>. SUFFICES ASSUME CompletedCountsDone, IInv, [Next]_vars
                PROVE  CompletedCountsDone'
    OBVIOUS
  <2>1. IsFiniteSet(Done)
    BY FiniteSlots, FS_Subset DEF Done
  <2>2. CASE Done' = Done /\ UNCHANGED <<pieces_completed, disk>>
    BY <2>2 DEF CompletedCountsDone
  <2>3. ASSUME NEW p \in Pieces \ Done, Done' = Done \cup {p},
               pieces_completed' = pieces_completed + 1
        PROVE  CompletedCountsDone'
    BY <2>1, <2>3, FS_AddElement DEF CompletedCountsDone
  <2>. QED
    BY <2>2, <2>3, DoneSteps
<1>. QED
  BY <1>1, <1>2, Inductive, PTL DEF Spec

\* A piece that is done stays done, and no write but one that fails changes what
\* is on disk of it: the piece that is written was pending.
THEOREM DoneStays == Spec => DoneIsForever
<1>1. IInv /\ [Next]_vars =>
        [\A p \in Done :
            /\ p \in Done'
            /\ disk'[p] = disk[p] \/ (WritesMayFail /\ disk'[p] = "damaged")]_vars
  <2>. SUFFICES ASSUME IInv, [Next]_vars, NEW p \in Done
                PROVE  /\ p \in Done'
                       /\ disk'[p] = disk[p] \/ (WritesMayFail /\ disk'[p] = "damaged")
    OBVIOUS
  <2>1. disk \in [Pieces -> {"other", "genuine", "corrupt", "damaged"}] /\ p \in Pieces
    BY DEF IInv, TypeOK, Done
  <2>2. ASSUME NEW q \in Pieces \ Done, Written(q)
        PROVE  disk'[p] = disk[p] \/ (WritesMayFail /\ disk'[p] = "damaged")
    BY <2>1, <2>2 DEF Written
  <2>. QED
    BY <2>1, <2>2, DoneSteps
<1>. QED
  BY <1>1, Inductive, PTL DEF Spec, DoneIsForever

\* What is done was written after its hash was compared.
THEOREM Stored == Spec => []DoneIsStored
<1>1. Init => DoneIsStored
  BY DEF Init, DoneIsStored, Done
<1>2. DoneIsStored /\ IInv /\ [Next]_vars => DoneIsStored'
  <2>. SUFFICES ASSUME DoneIsStored, IInv, [Next]_vars
                PROVE  DoneIsStored'
    OBVIOUS
  <2>1. disk \in [Pieces -> {"other", "genuine", "corrupt", "damaged"}] /\ Done \subseteq Pieces
    BY DEF IInv, TypeOK, Done
  <2>. QED
    BY <2>1, DoneSteps DEF DoneIsStored, Written
<1>. QED
  BY <1>1, <1>2, Inductive, PTL DEF Spec

\* What is sent to other clients is what was stored.
THEOREM Uploads == Spec => []UploadsAreChecked
<1>1. Init => UploadsAreChecked
  BY DEF Init, UploadsAreChecked
<1>2. UploadsAreChecked /\ DoneIsStored /\ [Next]_vars => UploadsAreChecked'
  <2>. SUFFICES ASSUME UploadsAreChecked, DoneIsStored, [Next]_vars
                PROVE  UploadsAreChecked'
    OBVIOUS
  <2>1. CASE UNCHANGED uploaded
    BY <2>1 DEF UploadsAreChecked
  <2>2. ASSUME NEW i \in Slots, NEW p \in Pieces, ServeRequest(i, p)
        PROVE  UploadsAreChecked'
    BY <2>2 DEF ServeRequest, UploadsAreChecked, DoneIsStored, Done
  <2>3. ASSUME NEW i \in Slots, ServeSlot(i)
        PROVE  UNCHANGED uploaded \/ \E p \in Pieces : ServeRequest(i, p)
    BY <2>3 DEF ServeSlot, Disconnect, Ignore, socket_connected, incoming_handshake, Greet,
                handle_handshake, handle_bitfield, handle_unchoke, UnchokedInVain, Unchoked,
                handle_downloading, GetBlock, NextBlock, CorruptPiece,
                CompleteAndGoOn, CompleteAndIdle, Complete
  <2>. QED
    BY <2>1, <2>2, <2>3
       DEF Next, DownloadThread, User, start_swarm, CheckStatus, CheckPaused, LeavePause,
           Poll, PollFails, Epilogue, Accept, ts_pause_torrent, ts_resume_torrent, vars
<1>. QED
  BY <1>1, <1>2, Stored, PTL DEF Spec

\* Who is shown as seeding is complete.  The count of the pieces stands for the
\* pieces themselves, by CompletedCountsDone.
THEOREM Seeding == Spec => []SeedingIsComplete
<1>1. ASSUME CompletedCountsDone, pieces_completed = TotalPieces
      PROVE  Done = Pieces
  BY <1>1, FiniteSlots, FS_Subset DEF CompletedCountsDone, Done
<1>2. Init => SeedingIsComplete
  BY DEF Init, SeedingIsComplete, Done
<1>3. SeedingIsComplete /\ CompletedCountsDone /\ IInv /\ [Next]_vars => SeedingIsComplete'
  <2>. SUFFICES ASSUME SeedingIsComplete, CompletedCountsDone, IInv, [Next]_vars
                PROVE  SeedingIsComplete'
    OBVIOUS
  <2>1. Done = Pieces => Done' = Pieces
    BY DoneSteps DEF Done
  <2>2. CASE UNCHANGED user
    BY <2>1, <2>2 DEF user, SeedingIsComplete
  <2>3. CASE Epilogue
    BY <1>1, <2>1, <2>3 DEF Epilogue, user, SeedingIsComplete
  <2>4. CASE User
    BY <1>1, <2>1, <2>4 DEF User, ts_pause_torrent, ts_resume_torrent, SeedingIsComplete
  <2>5. ASSUME NEW i \in Slots, ServeSlot(i)
        PROVE  UNCHANGED user
    BY <2>5, TurnOfSlot DEF Turn
  <2>. QED
    BY <2>2, <2>3, <2>4, <2>5
       DEF Next, DownloadThread, start_swarm, CheckStatus, CheckPaused, LeavePause, Poll,
           PollFails, Accept, vars
<1>. QED
  BY <1>2, <1>3, Inductive, Counting, PTL DEF Spec

\* What the window is told of the progress and of seeding is true.
THEOREM Shown == Spec => []ShownIsTrue
BY Counting, Seeding, PTL DEF ShownIsTrue

\* A remote that was greeted has been told of every piece that is done, or
\* announced it itself.
THEOREM Informed == Spec => []RemotesKnowDone
<1>1. Init => RemotesKnowDone
  BY DEF Init, RemotesKnowDone
<1>2. RemotesKnowDone /\ IInv /\ [Next]_vars => RemotesKnowDone'
  <2>. SUFFICES ASSUME RemotesKnowDone, IInv, [Next]_vars
                PROVE  RemotesKnowDone'
    OBVIOUS
  <2>. DEFINE Greeted == {"HANDSHAKING", "WAITING_BITFIELD", "WAITING_UNCHOKE", "DOWNLOADING"}
              Knows(i) == /\ told[i] \subseteq Done
                          /\ state[i] \in Greeted => Done \ told[i] \subseteq inventory[i]
  <2>0. /\ state \in [Slots -> PeerConnectionState]
        /\ told \in [Slots -> SUBSET Pieces]
        /\ inventory \in [Slots -> (SUBSET Pieces) \cup {NoInventory}]
        /\ \A i \in Slots : Knows(i)
    BY DEF IInv, TypeOK, RemotesKnowDone
  <2>1. SUFFICES ASSUME NEW i \in Slots
                 PROVE  Knows(i)'
    BY DEF RemotesKnowDone
  <2>2. ASSUME Done' = Done, UNCHANGED <<told, state, inventory>>
        PROVE  Knows(i)'
    BY <2>0, <2>2
  <2>3. ASSUME Done' = Done, NEW slots \in SUBSET Slots, drop_peer(slots)
        PROVE  Knows(i)'
    BY <2>0, <2>3 DEF drop_peer
  <2>4. ASSUME Done' = Done, NEW slots \in SUBSET Slots,
               NEW as \in {"CONNECTING", "INCOMING_HANDSHAKE"}, connect(slots, as)
        PROVE  Knows(i)'
    BY <2>0, <2>4 DEF connect
  <2>5. ASSUME NEW j \in Slots, ServeSlot(j)
        PROVE  Knows(i)'
    <3>1. CASE Disconnect(j) \/ UnchokedInVain(j)
      BY <3>1, <2>3, DropKeepsDone DEF Disconnect, UnchokedInVain
    <3>2. CASE Ignore(j) \/ \E p \in Pieces : ServeRequest(j, p)
      BY <3>2, <2>2 DEF Ignore, ServeRequest, conns, store, Done
    <3>3. CASE socket_connected(j) \/ incoming_handshake(j)
      BY <3>3, <2>0 DEF socket_connected, incoming_handshake, Greet, store, Done
    <3>4. CASE handle_handshake(j)
      BY <3>4, <2>0 DEF handle_handshake, store, Done
    <3>5. CASE handle_bitfield(j)
      <4>1. state[j] = "WAITING_BITFIELD" /\ inventory[j] = NoInventory
        BY <3>5 DEF handle_bitfield, IInv, SlotInv, SlotCoherent
      <4>2. Done \ told[j] = {}
        BY <2>0, <4>1 DEF NoInventory, NoPiece, Done, Pieces
      <4>3. /\ state' = [state EXCEPT ![j] = "WAITING_UNCHOKE"]
            /\ Done' = Done /\ told' = told
            /\ \A k \in Slots \ {j} : inventory'[k] = inventory[k]
        BY <3>5, <2>0 DEF handle_bitfield, store, Done
      <4>. QED
        BY <2>0, <4>2, <4>3
    <3>6. ASSUME NEW p \in Pieces, Unchoked(j, p)
          PROVE  Knows(i)'
      <4>1. Done' = Done
        BY <3>6 DEF Unchoked, Selected, Wanted, Done, IInv, SlotInv, SlotType
      <4>. QED
        BY <2>0, <3>6, <4>1 DEF Unchoked, Assign
    <3>7. ASSUME NEW length \in 1 .. BlockSize, NEW good \in BOOLEAN, NextBlock(j, length, good)
          PROVE  Knows(i)'
      BY <3>7, <2>2 DEF NextBlock, store, Done
    <3>8. ASSUME NEW length \in 1 .. BlockSize, NEW good \in BOOLEAN, CorruptPiece(j, length, good)
          PROVE  Knows(i)'
      BY <3>8, <2>3, DropKeepsDone DEF CorruptPiece
    <3>9. ASSUME NEW length \in 1 .. BlockSize, NEW good \in BOOLEAN,
                 \/ \E next \in Pieces : CompleteAndGoOn(j, length, good, next)
                 \/ CompleteAndIdle(j, length, good)
          PROVE  Knows(i)'
      <4>. DEFINE p == current_piece_assigned[j]
      <4>1. Complete(j, length, good) /\ state[j] = "DOWNLOADING"
        BY <3>9 DEF CompleteAndGoOn, CompleteAndIdle, Complete, LastBlock, Block
      <4>2. Done' = Done \cup {p} /\ p \in Pieces
        BY <3>9, CompletionAddsPiece
      <4>3. p \in inventory[j]
        BY <4>2, NullValues DEF IInv, SlotInv, SlotCoherent
      <4>4. /\ inventory' = inventory
            /\ \A k \in Slots : state'[k] = state[k]
        BY <2>0, <3>9, <4>1 DEF CompleteAndGoOn, CompleteAndIdle, Assign
      <4>5. \A k \in Slots : told'[k] = IF k # j /\ open[k] /\ state[k] # "CONNECTING"
                                        THEN told[k] \cup {p} ELSE told[k]
        BY <4>1 DEF Complete, Announce
      <4>6. open[i] <=> state[i] # "DEAD"
        BY DEF IInv, SlotInv, SlotCoherent
      <4>. QED
        BY <2>0, <4>2, <4>4, <4>5, <4>6, <4>3
    <3>. QED
      BY <2>5, <3>1, <3>2, <3>3, <3>4, <3>5, <3>6, <3>7, <3>8, <3>9
         DEF ServeSlot, handle_unchoke, handle_downloading, GetBlock
  <2>6. CASE start_swarm \/ LeavePause
    BY <2>4, <2>6 DEF start_swarm, LeavePause, initiate_connections, store, Done
  <2>7. CASE Accept
    BY <2>2, <2>4, <2>7 DEF Accept, conns, store, Done
  <2>8. CASE CheckPaused \/ PollFails
    BY <2>3, <2>8, DropKeepsDone DEF CheckPaused, PollFails
  <2>9. CASE CheckStatus \/ Poll \/ Epilogue \/ User \/ UNCHANGED vars
    BY <2>2, <2>9 DEF CheckStatus, Poll, Epilogue, User, ts_pause_torrent, ts_resume_torrent,
                      vars, conns, store, Done
  <2>. QED
    BY <2>5, <2>6, <2>7, <2>8, <2>9 DEF Next, DownloadThread
<1>. QED
  BY <1>1, <1>2, Inductive, PTL DEF Spec

\* The swarm implements the abstract sharing of the pieces.
THEOREM Refinement == Spec => ImplementsClaims
<1>1. Init => Claims!Init
  BY DEF Init, Claims!Init, Done, Claims!Pieces, Pieces, NoPiece, Claims!NoPiece
<1>2. IInv /\ [Next]_vars => [Claims!Next]_Claims!vars
  <2>. SUFFICES ASSUME IInv, [Next]_vars
                PROVE  [Claims!Next]_Claims!vars
    OBVIOUS
  <2>0. /\ current_piece_assigned \in [Slots -> Pieces \cup {NoPiece}]
        /\ Claims!Pieces = Pieces /\ Claims!NoPiece = NoPiece
    BY DEF IInv, TypeOK, Claims!Pieces, Pieces, NoPiece, Claims!NoPiece
  <2>1. ASSUME Done' = Done, UNCHANGED current_piece_assigned
        PROVE  UNCHANGED Claims!vars
    BY <2>1 DEF Claims!vars
  <2>2. ASSUME Done' = Done, NEW slots \in SUBSET Slots, drop_peer(slots)
        PROVE  Claims!Next
    <3>1. Claims!Release(slots)
      BY <2>0, <2>2 DEF Claims!Release, drop_peer
    <3>. QED
      BY <3>1 DEF Claims!Next
  <2>3. ASSUME NEW i \in Slots, NEW p \in Pieces, p \in Wanted(i)
        PROVE  p \in Claims!Free
    BY <2>0, <2>3 DEF Claims!Free, Wanted, Done, IInv, SlotInv, PendingHasOneOwner
  <2>4. ASSUME NEW i \in Slots, ServeSlot(i)
        PROVE  [Claims!Next]_Claims!vars
    <3>1. CASE Disconnect(i) \/ UnchokedInVain(i)
      BY <3>1, <2>2, DropKeepsDone DEF Disconnect, UnchokedInVain
    <3>2. CASE Ignore(i) \/ \E p \in Pieces : ServeRequest(i, p)
      BY <3>2, <2>1 DEF Ignore, ServeRequest, conns, store, Done, piece
    <3>3. CASE socket_connected(i) \/ incoming_handshake(i) \/ handle_handshake(i)
               \/ handle_bitfield(i)
      BY <3>3, <2>1 DEF socket_connected, incoming_handshake, Greet, handle_handshake,
                        handle_bitfield, store, Done, piece
    <3>4. ASSUME NEW p \in Pieces, Unchoked(i, p)
          PROVE  Claims!Next
      <4>1. Done' = Done
        BY <3>4 DEF Unchoked, Selected, Wanted, Done, IInv, SlotInv, SlotType
      <4>2. current_piece_assigned[i] = NoPiece
        BY <3>4 DEF Unchoked, IInv, SlotInv, SlotCoherent
      <4>3. Claims!Claim(i, p)
        BY <2>0, <2>3, <3>4, <4>1, <4>2 DEF Unchoked, Selected, Assign, Claims!Claim
      <4>. QED
        BY <2>0, <4>3 DEF Claims!Next
    <3>5. ASSUME NEW length \in 1 .. BlockSize, NEW good \in BOOLEAN, NextBlock(i, length, good)
          PROVE  UNCHANGED Claims!vars
      BY <3>5, <2>1 DEF NextBlock, store, Done
    <3>6. ASSUME NEW length \in 1 .. BlockSize, NEW good \in BOOLEAN, CorruptPiece(i, length, good)
          PROVE  Claims!Next
      BY <3>6, <2>2, DropKeepsDone DEF CorruptPiece
    <3>7. ASSUME NEW length \in 1 .. BlockSize, NEW good \in BOOLEAN,
                 NEW next \in Pieces, CompleteAndGoOn(i, length, good, next)
          PROVE  Claims!Next
      <4>1. Done' = Done \cup {current_piece_assigned[i]}
        BY <3>7, CompletionAddsPiece
      <4>2. /\ current_piece_assigned[i] # NoPiece
            /\ next \in Wanted(i)
            /\ current_piece_assigned' = [current_piece_assigned EXCEPT ![i] = next]
        BY <3>7 DEF CompleteAndGoOn, Complete, LastBlock, Block, Selected, Assign
      <4>3. Claims!Finish(i, next)
        BY <2>0, <2>3, <4>1, <4>2 DEF Claims!Finish
      <4>. QED
        BY <2>0, <4>3 DEF Claims!Next
    <3>8. ASSUME NEW length \in 1 .. BlockSize, NEW good \in BOOLEAN,
                 CompleteAndIdle(i, length, good)
          PROVE  Claims!Next
      <4>1. Done' = Done \cup {current_piece_assigned[i]}
        BY <3>8, CompletionAddsPiece
      <4>2. /\ current_piece_assigned[i] # NoPiece
            /\ current_piece_assigned' = [current_piece_assigned EXCEPT ![i] = NoPiece]
        BY <3>8 DEF CompleteAndIdle, Complete, LastBlock, Block
      <4>3. Claims!Finish(i, NoPiece)
        BY <2>0, <4>1, <4>2 DEF Claims!Finish
      <4>. QED
        BY <2>0, <4>3 DEF Claims!Next
    <3>. QED
      BY <2>4, <3>1, <3>2, <3>3, <3>4, <3>5, <3>6, <3>7, <3>8
         DEF ServeSlot, handle_unchoke, handle_downloading, GetBlock
  <2>5. CASE start_swarm \/ LeavePause \/ Accept
    BY <2>1, <2>5 DEF start_swarm, LeavePause, Accept, initiate_connections, connect, conns,
                      store, Done, piece
  <2>6. CASE CheckPaused \/ PollFails
    BY <2>2, <2>6, DropKeepsDone DEF CheckPaused, PollFails
  <2>7. CASE CheckStatus \/ Poll \/ Epilogue \/ User \/ UNCHANGED vars
    BY <2>1, <2>7 DEF CheckStatus, Poll, Epilogue, User, ts_pause_torrent, ts_resume_torrent,
                      vars, conns, store, Done, piece
  <2>. QED
    BY <2>4, <2>5, <2>6, <2>7 DEF Next, DownloadThread
<1>. QED
  BY <1>1, <1>2, Inductive, PTL DEF Spec, ImplementsClaims, Claims!Spec

==============================================================================
