-------------------------------- MODULE Swarm --------------------------------
(***************************************************************************)
(* The swarm of one torrent: the loop of start_swarm in                    *)
(* rgTorrent-c/swarm/swarm.c, run by the torrent's download thread, with   *)
(* the two operations of the user's thread that it watches for             *)
(* (ts_pause_torrent and ts_resume_torrent).                               *)
(*                                                                         *)
(* The thread polls its slots and the listening socket, and then gives one *)
(* turn to every slot that poll reported.  A turn is one action here: no   *)
(* other thread writes what a turn reads, except status, which the loop    *)
(* reads only at its top.  Remote peers are the environment: a turn        *)
(* chooses what the slot's remote sent.  They are taken to answer with the *)
(* piece they were asked for and with no more bytes than asked (what they  *)
(* send may be wrong); a block of another piece makes the handler give up  *)
(* the connection.                                                         *)
(***************************************************************************)
EXTENDS Integers, FiniteSets

CONSTANTS
    MaxPeers,      \* MAX_PEERS, the number of slots
    TotalPieces,   \* e->total_pieces
    PieceLength,   \* e->piece_length, in bytes
    BlockSize,     \* DEFAULT_BLOCK_SIZE, in bytes
    SizeBytes,     \* e->size_bytes
    PeersCount,    \* the number of addresses the trackers returned
    Inventories,   \* the sets of pieces that remotes may announce
    WritesMayFail, \* whether write_piece_to_disk may fail
    PollMayFail    \* whether poll may return -1

Pieces == 0 .. TotalPieces - 1
Slots  == 0 .. MaxPeers - 1

\* The metainfo is consistent: its pieces cover the content, the last one not
\* being empty.  The code takes this from whoever made the torrent.
ASSUME MetainfoAssumption ==
    /\ TotalPieces \in Nat \ {0}
    /\ PieceLength \in Nat \ {0}
    /\ SizeBytes \in Nat
    /\ (TotalPieces - 1) * PieceLength < SizeBytes
    /\ SizeBytes <= TotalPieces * PieceLength

ASSUME SwarmAssumption ==
    /\ MaxPeers \in Nat
    /\ BlockSize \in Nat \ {0}
    /\ PeersCount \in Nat
    /\ Inventories \subseteq SUBSET Pieces
    /\ WritesMayFail \in BOOLEAN
    /\ PollMayFail \in BOOLEAN

NoPiece     == -1           \* current_piece_assigned of a slot without one
NoInventory == {NoPiece}    \* inventory == NULL: no set of pieces

VARIABLES
    status,           \* e->status
    seeding,          \* e->seeding
    piece_states,     \* e->piece_states
    pieces_completed, \* e->pieces_completed; e->progress is its quotient
    seeds,            \* e->seeds
    peers_count,      \* e->peers_count
    open,             \* open[i]: poll_fds[i].fd # -1
    state,            \* state[i]
    inventory,        \* inventory[i]
    current_piece_assigned, \* peers[i].current_piece_assigned
    current_block_offset,   \* peers[i].current_block_offset
    piece_buffer,     \* current_piece_assigned[i]_buffer: whose bytes it has so far
    ready,            \* the slots with revents left to handle in this round
    pc,               \* where the download thread is
    disk,             \* what the files hold of each piece
    told,             \* the pieces announced on each connection
    asked,            \* the length last requested on each connection
    uploaded          \* what was sent to remotes: the contents of the pieces served

user  == <<status, seeding>>
store == <<piece_states, pieces_completed, disk>>
shown == <<seeds, peers_count>>
piece == <<current_piece_assigned, current_block_offset, piece_buffer>>
conns == <<open, state, inventory, piece, told, asked>>
vars  == <<user, store, shown, conns, ready, pc, uploaded>>

------------------------------------------------------------------------------
PeerConnectionState ==
    {"CONNECTING", "HANDSHAKING", "WAITING_BITFIELD", "WAITING_UNCHOKE",
     "DOWNLOADING", "DEAD", "INCOMING_HANDSHAKE"}

Done == {p \in Pieces : piece_states[p] = "DONE"}

\* Mutant: the last piece is taken to be as long as the others.
PieceSizeFull(p) == PieceLength

\* The size of a piece: the last one holds what is left of the content.
PieceSize(p) ==
    IF p = TotalPieces - 1 /\ SizeBytes % PieceLength # 0
    THEN SizeBytes % PieceLength
    ELSE PieceLength

\* The length of the block that is asked for at an offset of a piece.
BlockLength(p, offset) ==
    IF offset + BlockSize > PieceSize(p) THEN PieceSize(p) - offset ELSE BlockSize

\* Mutant: a pending piece may be selected too.
WantedPending(i) == {p \in Pieces : piece_states[p] # "DONE" /\ p \in inventory[i]}

\* The piece that get_next_piece_to_download selects, if there is one.
Wanted(i) == {p \in Pieces : piece_states[p] = "MISSING" /\ p \in inventory[i]}
Selected(i, p) == p \in Wanted(i) /\ \A q \in Wanted(i) : p <= q

------------------------------------------------------------------------------
\* The state in which download_thread calls start_swarm: the verification has
\* found the pieces in recovered on disk, and the user may have paused.
Init ==
    /\ \E recovered \in SUBSET Pieces :
          /\ piece_states = [p \in Pieces |-> IF p \in recovered THEN "DONE" ELSE "MISSING"]
          /\ pieces_completed = Cardinality(recovered)
          /\ disk = [p \in Pieces |-> IF p \in recovered THEN "genuine" ELSE "other"]
          /\ status \in {IF recovered = Pieces THEN "SEEDING" ELSE "DOWNLOADING", "PAUSED"}
    /\ seeding = (status = "SEEDING")
    /\ seeds = 0
    /\ peers_count = 0
    /\ open = [i \in Slots |-> FALSE]
    /\ state = [i \in Slots |-> "DEAD"]
    /\ inventory = [i \in Slots |-> NoInventory]
    /\ current_piece_assigned = [i \in Slots |-> NoPiece]
    /\ current_block_offset = [i \in Slots |-> 0]
    /\ piece_buffer = [i \in Slots |-> "none"]
    /\ told = [i \in Slots |-> {}]
    /\ asked = [i \in Slots |-> 0]
    /\ uploaded = {}
    /\ ready = {}
    /\ pc = "start"

------------------------------------------------------------------------------
(* Opening and closing slots *)

\* Slots get a new connection.  Only the socket and the state are set.
connect(slots, as) ==
    /\ open' = [i \in Slots |-> i \in slots \/ open[i]]
    /\ state' = [i \in Slots |-> IF i \in slots THEN as ELSE state[i]]
    /\ UNCHANGED <<inventory, piece, told, asked>>

\* Mutant: the inventory of the last connection stays.
drop_peer_keeping_inventory(slots) ==
    /\ piece_states' = [p \in Pieces |->
                          IF \E i \in slots : current_piece_assigned[i] = p
                          THEN "MISSING" ELSE piece_states[p]]
    /\ current_piece_assigned' =
          [i \in Slots |-> IF i \in slots THEN NoPiece ELSE current_piece_assigned[i]]
    /\ piece_buffer' = [i \in Slots |-> IF i \in slots THEN "none" ELSE piece_buffer[i]]
    /\ open' = [i \in Slots |-> i \notin slots /\ open[i]]
    /\ state' = [i \in Slots |-> IF i \in slots THEN "DEAD" ELSE state[i]]
    /\ UNCHANGED <<current_block_offset, inventory, told, asked>>

\* Mutant: the pieces assigned to the slots are not given back.
drop_peer_keeping_piece(slots) ==
    /\ current_piece_assigned' =
          [i \in Slots |-> IF i \in slots THEN NoPiece ELSE current_piece_assigned[i]]
    /\ piece_buffer' = [i \in Slots |-> IF i \in slots THEN "none" ELSE piece_buffer[i]]
    /\ inventory' = [i \in Slots |-> IF i \in slots THEN NoInventory ELSE inventory[i]]
    /\ open' = [i \in Slots |-> i \notin slots /\ open[i]]
    /\ state' = [i \in Slots |-> IF i \in slots THEN "DEAD" ELSE state[i]]
    /\ UNCHANGED <<current_block_offset, piece_states, told, asked>>

\* Slots are closed: what is assigned to them is missing again.
drop_peer(slots) ==
    /\ piece_states' = [p \in Pieces |->
                          IF \E i \in slots : current_piece_assigned[i] = p
                          THEN "MISSING" ELSE piece_states[p]]
    /\ current_piece_assigned' =
          [i \in Slots |-> IF i \in slots THEN NoPiece ELSE current_piece_assigned[i]]
    /\ piece_buffer' = [i \in Slots |-> IF i \in slots THEN "none" ELSE piece_buffer[i]]
    /\ inventory' = [i \in Slots |-> IF i \in slots THEN NoInventory ELSE inventory[i]]
    /\ open' = [i \in Slots |-> i \notin slots /\ open[i]]
    /\ state' = [i \in Slots |-> IF i \in slots THEN "DEAD" ELSE state[i]]
    /\ told' = [i \in Slots |-> IF i \in slots THEN {} ELSE told[i]]
    /\ asked' = [i \in Slots |-> IF i \in slots THEN 0 ELSE asked[i]]
    /\ UNCHANGED current_block_offset

\* Dial the first addresses; socket() may fail for some of them.
initiate_connections ==
    \E dialled \in SUBSET {i \in Slots : i < PeersCount} : connect(dialled, "CONNECTING")

------------------------------------------------------------------------------
(* The loop of the download thread *)

\* The call of start_swarm, up to its loop.
start_swarm ==
    /\ pc = "start"
    /\ pc' = "check"
    /\ initiate_connections
    /\ UNCHANGED <<user, store, shown, ready, uploaded>>

\* Mutant: the loop does not look at the status.
CheckNothing ==
    /\ pc = "check"
    /\ pc' = "poll"
    /\ UNCHANGED <<user, store, shown, conns, ready, uploaded>>

\* The top of the loop, when the torrent is not paused.  Nobody sets
\* TS_STATUS_ERROR once the swarm runs, so the loop does not end here.
CheckStatus ==
    /\ pc = "check"
    /\ status # "PAUSED"
    /\ pc' = "poll"
    /\ UNCHANGED <<user, store, shown, conns, ready, uploaded>>

\* The top of the loop, when it is: every slot is closed.
CheckPaused ==
    /\ pc = "check"
    /\ status = "PAUSED"
    /\ pc' = "paused"
    /\ drop_peer(Slots)
    /\ UNCHANGED <<user, pieces_completed, disk, shown, ready, uploaded>>

\* The wait for the end of the pause, which then dials again.
LeavePause ==
    /\ pc = "paused"
    /\ status # "PAUSED"
    /\ pc' = "check"
    /\ initiate_connections
    /\ UNCHANGED <<user, store, shown, ready, uploaded>>

\* poll() reports some of the open slots (all that is reported of a connecting
\* slot is that its socket is writable) and maybe the listening socket, and the
\* peers whose bitfield is known are counted.
Poll ==
    /\ pc = "poll"
    /\ \E reported \in SUBSET {i \in Slots : open[i]}, incoming \in BOOLEAN :
          /\ ready' = reported
          /\ pc' = IF incoming THEN "accept"
                   ELSE IF reported = {} THEN "check" ELSE "serve"
    /\ LET known == {i \in Slots :
                        /\ state[i] \in {"WAITING_UNCHOKE", "DOWNLOADING", "DEAD",
                                         "INCOMING_HANDSHAKE"}
                        /\ inventory[i] # NoInventory}
       IN  /\ seeds' = Cardinality({i \in known : inventory[i] = Pieces})
           /\ peers_count' = Cardinality({i \in known : inventory[i] # Pieces})
    /\ UNCHANGED <<user, store, conns, uploaded>>

\* poll() fails: the loop ends and every slot is closed.
PollFails ==
    /\ pc = "poll"
    /\ PollMayFail
    /\ pc' = "stopped"
    /\ drop_peer(Slots)
    /\ UNCHANGED <<user, pieces_completed, disk, shown, ready, uploaded>>

\* What download_thread does when start_swarm has returned.
Epilogue ==
    /\ pc = "stopped"
    /\ pc' = "done"
    /\ IF pieces_completed = TotalPieces
       THEN status' = "SEEDING" /\ seeding' = TRUE
       ELSE UNCHANGED user
    /\ UNCHANGED <<store, shown, conns, ready, uploaded>>

\* The first dead slot.
FreeSlot(i) == state[i] = "DEAD" /\ \A j \in Slots : state[j] = "DEAD" => i <= j

\* The listening socket is readable: the connection goes to the first dead
\* slot.  It is closed at once if there is none, or accept() fails.
Accept ==
    /\ pc = "accept"
    /\ pc' = IF ready = {} THEN "check" ELSE "serve"
    /\ \/ \E i \in Slots : FreeSlot(i) /\ connect({i}, "INCOMING_HANDSHAKE")
       \/ UNCHANGED conns
    /\ UNCHANGED <<user, store, shown, ready, uploaded>>

------------------------------------------------------------------------------
(* One turn of the loop over the slots *)

Turn(i) ==
    /\ pc = "serve"
    /\ i \in ready
    /\ \A j \in ready : i <= j
    /\ ready' = ready \ {i}
    /\ pc' = IF ready = {i} THEN "check" ELSE "serve"
    /\ UNCHANGED <<user, shown>>

\* A handler returns false, or the connection was refused: a read or write
\* error, the end of the stream, a handshake for another torrent, or a block of
\* a piece other than the one assigned.
Disconnect(i) ==
    /\ Turn(i)
    /\ drop_peer({i})
    /\ UNCHANGED <<pieces_completed, disk, uploaded>>

\* Nothing could be read after all, or the message changes nothing: a
\* keep-alive, anything but an unchoke while one is awaited, anything but a
\* request or a block later, a request that is refused.
Ignore(i) == Turn(i) /\ UNCHANGED <<store, conns, uploaded>>

\* Our handshake, our bitfield and an unchoke are sent.
Greet(i, from, to) ==
    /\ Turn(i)
    /\ state[i] = from
    /\ state' = [state EXCEPT ![i] = to]
    /\ told' = [told EXCEPT ![i] = @ \cup Done]
    /\ UNCHANGED <<store, open, inventory, piece, asked, uploaded>>

socket_connected(i)   == Greet(i, "CONNECTING", "HANDSHAKING")
incoming_handshake(i) == Greet(i, "INCOMING_HANDSHAKE", "WAITING_BITFIELD")

handle_handshake(i) ==
    /\ Turn(i)
    /\ state[i] = "HANDSHAKING"
    /\ state' = [state EXCEPT ![i] = "WAITING_BITFIELD"]
    /\ UNCHANGED <<store, open, inventory, piece, told, asked, uploaded>>

\* Whatever comes first is taken for the bitfield: if it is not one, the
\* remote is taken to have no piece.
handle_bitfield(i) ==
    /\ Turn(i)
    /\ state[i] = "WAITING_BITFIELD"
    /\ state' = [state EXCEPT ![i] = "WAITING_UNCHOKE"]
    /\ \E announced \in Inventories \cup {{}} :
          inventory' = [inventory EXCEPT ![i] = announced]
    /\ UNCHANGED <<store, open, piece, told, asked, uploaded>>

\* The slot starts to download piece p.
Assign(i, p) ==
    /\ state' = [state EXCEPT ![i] = "DOWNLOADING"]
    /\ current_piece_assigned' = [current_piece_assigned EXCEPT ![i] = p]
    /\ current_block_offset' = [current_block_offset EXCEPT ![i] = 0]
    /\ piece_buffer' = [piece_buffer EXCEPT ![i] = "genuine"]
    /\ asked' = [asked EXCEPT ![i] = BlockLength(p, 0)]
    /\ UNCHANGED <<open, inventory>>

\* An unchoke: the first missing piece that the remote has is claimed and its
\* first block asked for.  Without such a piece the peer is dropped.
UnchokedInVain(i) ==
    /\ Turn(i)
    /\ state[i] = "WAITING_UNCHOKE"
    /\ Wanted(i) = {}
    /\ drop_peer({i})
    /\ UNCHANGED <<pieces_completed, disk, uploaded>>

Unchoked(i, p) ==
    /\ Turn(i)
    /\ state[i] = "WAITING_UNCHOKE"
    /\ Selected(i, p)
    /\ piece_states' = [piece_states EXCEPT ![p] = "PENDING"]
    /\ Assign(i, p)
    /\ UNCHANGED <<pieces_completed, disk, told, uploaded>>

handle_unchoke(i) == UnchokedInVain(i) \/ \E p \in Pieces : Unchoked(i, p)

------------------------------------------------------------------------------
(* handle_downloading *)

\* Mutant: a piece that is on its way is served too.
ServePending(i, p) ==
    /\ Turn(i)
    /\ state[i] = "DOWNLOADING"
    /\ piece_states[p] # "MISSING"
    /\ uploaded' = uploaded \cup {disk[p]}
    /\ UNCHANGED <<store, conns>>

\* A request for a block of piece p, which we have: the piece is read from
\* disk and the block sent.  A request that is refused, or whose piece cannot
\* be read, is one of Ignore(i).
ServeRequest(i, p) ==
    /\ Turn(i)
    /\ state[i] = "DOWNLOADING"
    /\ piece_states[p] = "DONE"
    /\ uploaded' = uploaded \cup {disk[p]}
    /\ UNCHANGED <<store, conns>>

\* A block of the assigned piece has arrived, length bytes long.
Block(i, length) ==
    /\ Turn(i)
    /\ state[i] = "DOWNLOADING"
    /\ current_piece_assigned[i] # NoPiece
    /\ length \in 1 .. asked[i]

\* What the buffer of the slot holds with that block in it.  The bytes are good
\* if they are those of the piece at the offset that was asked for.
Received(i, good) == IF good THEN piece_buffer[i] ELSE "corrupt"

\* Mutant: the next block is not asked for.
NextBlockUnasked(i, length, good) ==
    /\ Block(i, length)
    /\ current_block_offset[i] + length < PieceSize(current_piece_assigned[i])
    /\ current_block_offset' = [current_block_offset EXCEPT ![i] = @ + length]
    /\ asked' = [asked EXCEPT ![i] = 0]
    /\ UNCHANGED <<store, open, state, inventory, current_piece_assigned,
                   piece_buffer, told, uploaded>>

\* It does not complete the piece: the next block is asked for.
NextBlock(i, length, good) ==
    LET p == current_piece_assigned[i]
        offset == current_block_offset[i] + length
    IN  /\ Block(i, length)
        /\ offset < PieceSize(p)
        /\ current_block_offset' = [current_block_offset EXCEPT ![i] = offset]
        /\ piece_buffer' = [piece_buffer EXCEPT ![i] = Received(i, good)]
        /\ asked' = [asked EXCEPT ![i] = BlockLength(p, offset)]
        /\ UNCHANGED <<store, open, state, inventory, current_piece_assigned, told,
                       uploaded>>

LastBlock(i, length) ==
    /\ Block(i, length)
    /\ current_block_offset[i] + length >= PieceSize(current_piece_assigned[i])

\* Mutant: the hash is not compared.
HashIgnored(i, good) == TRUE

HashMatches(i, good) == Received(i, good) = "genuine"

\* The hash of the piece is not the expected one: the peer is dropped.
CorruptPiece(i, length, good) ==
    /\ LastBlock(i, length)
    /\ ~HashMatches(i, good)
    /\ drop_peer({i})
    /\ UNCHANGED <<pieces_completed, disk, uploaded>>

\* Mutant: HAVE is sent to the downloading connections only.
AnnounceToDownloading(i, p) ==
    told' = [j \in Slots |-> IF j # i /\ state[j] = "DOWNLOADING"
                             THEN told[j] \cup {p} ELSE told[j]]

\* HAVE goes to every other connection from PEER_STATE_HANDSHAKING on in the
\* order of the enumeration, where PEER_STATE_INCOMING_HANDSHAKE comes last.
Announce(i, p) ==
    told' = [j \in Slots |-> IF j # i /\ open[j] /\ state[j] # "CONNECTING"
                             THEN told[j] \cup {p} ELSE told[j]]

\* Piece p is written.  When a file cannot be opened for an update it is opened
\* anew and empty, so a write that fails may spoil, with the piece or without
\* it, whatever pieces that are done have bytes in the same files.
write_piece_to_disk(p, content) ==
    \E spoiled \in IF WritesMayFail THEN SUBSET (Done \cup {p}) ELSE {{}} :
        disk' = [q \in Pieces |-> IF q \in spoiled THEN "damaged"
                                 ELSE IF q = p THEN content ELSE disk[q]]

\* The last block of a genuine piece: the piece is written (nothing tells that
\* a write failed), counted and announced.
Complete(i, length, good) ==
    LET p == current_piece_assigned[i]
    IN  /\ LastBlock(i, length)
        /\ HashMatches(i, good)
        /\ write_piece_to_disk(p, Received(i, good))
        /\ pieces_completed' = pieces_completed + 1
        /\ Announce(i, p)
        /\ UNCHANGED uploaded

\* The next missing piece that the remote has is claimed and asked for.
CompleteAndGoOn(i, length, good, next) ==
    /\ Complete(i, length, good)
    /\ Selected(i, next)
    /\ piece_states' = [piece_states EXCEPT ![current_piece_assigned[i]] = "DONE",
                                            ![next] = "PENDING"]
    /\ Assign(i, next)

\* Mutant: the piece stays assigned.
CompleteAndKeep(i, length, good) ==
    /\ Complete(i, length, good)
    /\ Wanted(i) = {}
    /\ piece_states' = [piece_states EXCEPT ![current_piece_assigned[i]] = "DONE"]
    /\ UNCHANGED <<open, state, inventory, piece, asked>>

\* There is none: the slot stays connected, with nothing assigned.
CompleteAndIdle(i, length, good) ==
    /\ Complete(i, length, good)
    /\ Wanted(i) = {}
    /\ piece_states' = [piece_states EXCEPT ![current_piece_assigned[i]] = "DONE"]
    /\ current_piece_assigned' = [current_piece_assigned EXCEPT ![i] = NoPiece]
    /\ current_block_offset' = [current_block_offset EXCEPT ![i] = @ + length]
    /\ piece_buffer' = [piece_buffer EXCEPT ![i] = "none"]
    /\ asked' = [asked EXCEPT ![i] = 0]
    /\ UNCHANGED <<open, state, inventory>>

\* A block arrives at slot i.
GetBlock(i, good) ==
    \E length \in 1 .. BlockSize :
        \/ NextBlock(i, length, good)
        \/ CorruptPiece(i, length, good)
        \/ \E next \in Pieces : CompleteAndGoOn(i, length, good, next)
        \/ CompleteAndIdle(i, length, good)

handle_downloading(i) ==
    \/ \E p \in Pieces : ServeRequest(i, p)
    \/ \E good \in BOOLEAN : GetBlock(i, good)

------------------------------------------------------------------------------
(* The user's thread *)

ts_pause_torrent ==
    /\ status \in {"DOWNLOADING", "SEEDING"}
    /\ status' = "PAUSED"
    /\ UNCHANGED <<seeding, store, shown, conns, ready, pc, uploaded>>

\* Mutant: the end of the download is met one piece too early.
ts_resume_torrent_early ==
    /\ status = "PAUSED"
    /\ status' = IF pieces_completed >= TotalPieces - 1 THEN "SEEDING" ELSE "DOWNLOADING"
    /\ UNCHANGED <<seeding, store, shown, conns, ready, pc, uploaded>>

ts_resume_torrent ==
    /\ status = "PAUSED"
    /\ status' = IF pieces_completed = TotalPieces THEN "SEEDING" ELSE "DOWNLOADING"
    /\ UNCHANGED <<seeding, store, shown, conns, ready, pc, uploaded>>

User == ts_pause_torrent \/ ts_resume_torrent

ServeSlot(i) ==
    \/ Disconnect(i)
    \/ Ignore(i)
    \/ socket_connected(i)
    \/ incoming_handshake(i)
    \/ handle_handshake(i)
    \/ handle_bitfield(i)
    \/ handle_unchoke(i)
    \/ handle_downloading(i)

DownloadThread ==
    \/ start_swarm
    \/ CheckStatus
    \/ CheckPaused
    \/ LeavePause
    \/ Poll
    \/ PollFails
    \/ Epilogue
    \/ Accept
    \/ \E i \in Slots : ServeSlot(i)

Next == DownloadThread \/ User

Spec == Init /\ [][Next]_vars

\* The thread runs.  Nothing is assumed of the user.
FairSpec == Spec /\ WF_vars(DownloadThread)

\* Moreover the remotes answer what they are asked, sooner or later: a slot is
\* reported by poll, and a good block is what its turn reads, again and again.
\* This is what is asked of the remotes, not something the code ensures.
ResponsiveSpec ==
    /\ FairSpec
    /\ \A i \in Slots : SF_vars(Poll /\ i \in ready') /\ SF_vars(GetBlock(i, TRUE))

------------------------------------------------------------------------------
(* Properties *)

\* The variables keep their types.
TypeOK ==
    /\ status \in {"DOWNLOADING", "SEEDING", "PAUSED"}
    /\ seeding \in BOOLEAN
    /\ piece_states \in [Pieces -> {"MISSING", "PENDING", "DONE"}]
    /\ pieces_completed \in Nat
    /\ seeds \in Nat
    /\ peers_count \in Nat
    /\ open \in [Slots -> BOOLEAN]
    /\ state \in [Slots -> PeerConnectionState]
    /\ inventory \in [Slots -> (SUBSET Pieces) \cup {NoInventory}]
    /\ current_piece_assigned \in [Slots -> Pieces \cup {NoPiece}]
    /\ current_block_offset \in [Slots -> Nat]
    /\ piece_buffer \in [Slots -> {"none", "genuine", "corrupt"}]
    /\ ready \subseteq Slots
    /\ pc \in {"start", "check", "paused", "poll", "accept", "serve", "stopped", "done"}
    /\ disk \in [Pieces -> {"other", "genuine", "corrupt", "damaged"}]
    /\ told \in [Slots -> SUBSET Pieces]
    /\ asked \in [Slots -> Nat]
    /\ uploaded \subseteq {"other", "genuine", "corrupt", "damaged"}

\* A piece is pending exactly if one slot has it assigned, and no two slots have
\* the same: no piece is downloaded twice at a time, and none is left pending
\* with nobody working on it (it would never be selected again), whatever the
\* order of unchokes, completions, lost connections and pauses.
PendingHasOneOwner ==
    /\ \A p \in Pieces : piece_states[p] = "PENDING" <=>
                          \E i \in Slots : current_piece_assigned[i] = p
    /\ \A i, j \in Slots : current_piece_assigned[i] = current_piece_assigned[j] =>
                              i = j \/ current_piece_assigned[i] = NoPiece

\* pieces_completed, from which the progress shown, the status after a resume
\* and the end of the download are computed, counts the pieces that are done.
CompletedCountsDone == pieces_completed = Cardinality(Done)

\* What a slot holds agrees with its state, so that a slot that was closed
\* brings nothing of its last connection into the next one, and a handler never
\* meets the null pointers it does not test for: handle_unchoke and the
\* selection read the inventory, handle_downloading writes to the buffer.
SlotCoherent ==
    \A i \in Slots :
        /\ open[i] <=> state[i] # "DEAD"
        /\ inventory[i] = NoInventory <=> state[i] \notin {"WAITING_UNCHOKE", "DOWNLOADING"}
        /\ current_piece_assigned[i] # NoPiece =>
              state[i] = "DOWNLOADING" /\ current_piece_assigned[i] \in inventory[i]
        /\ current_piece_assigned[i] = NoPiece <=> piece_buffer[i] = "none"

\* While the thread waits out a pause, and once it has stopped, no connection is
\* left, so the slots it dials into afterwards are free.
ClosedWhileStopped ==
    pc \in {"start", "paused", "stopped", "done"} =>
        \A i \in Slots : state[i] = "DEAD"

\* Every request on the wire is for a non-empty block inside its piece and inside
\* the content, also in the short last piece and after short blocks.
RequestInRange ==
    \A i \in Slots : current_piece_assigned[i] # NoPiece =>
        LET end == current_block_offset[i] + asked[i]
        IN  /\ asked[i] \in 1 .. BlockSize
            /\ end <= PieceLength
            /\ current_piece_assigned[i] * PieceLength + end <= SizeBytes

\* A piece that is done was written, with the bytes that its hash stands for
\* unless a write failed, of this piece or of one in the same file.
DoneIsStored ==
    \A p \in Done : disk[p] = "genuine" \/ (WritesMayFail /\ disk[p] = "damaged")

\* A remote that we greeted knows of every piece that is done, except the ones
\* that it announced itself, and of no other: a piece completed between two
\* polls is in the bitfield or in a HAVE, never in neither.
RemotesKnowDone ==
    \A i \in Slots :
        /\ told[i] \subseteq Done
        /\ state[i] \in {"HANDSHAKING", "WAITING_BITFIELD", "WAITING_UNCHOKE", "DOWNLOADING"}
              => Done \ told[i] \subseteq inventory[i]

\* The torrent is flagged as seeding only when it is complete, and paused or
\* shown as seeding.
SeedingIsComplete ==
    seeding \/ status = "SEEDING" => Done = Pieces

\* What the window is told is true: the number of pieces, from which progress and
\* the status after a resume are computed, and who is seeding, however pauses and
\* completions interleave.
ShownIsTrue == CompletedCountsDone /\ SeedingIsComplete

\* A piece that is done stays done, and it is not written again: what is on disk
\* of it changes only when a write fails, and then without anybody's notice.
DoneIsForever ==
    [][\A p \in Done :
          /\ p \in Done'
          /\ disk'[p] = disk[p] \/ (WritesMayFail /\ disk'[p] = "damaged")]_vars

\* What other clients are sent is what the hash of a piece stands for, through
\* pauses, lost connections and pieces that had to be fetched again, unless a
\* write failed: a piece that it damaged is served like any other.
UploadsAreChecked ==
    uploaded \subseteq {"genuine"} \cup (IF WritesMayFail THEN {"damaged"} ELSE {})

\* After a pause every connection is closed, unless the user resumes before.
PauseTakesEffect ==
    status = "PAUSED" ~> (status # "PAUSED" \/ \A i \in Slots : ~open[i])

\* A remote that has everything, once a piece is assigned to it, delivers until
\* it is gone or no piece is missing (the last ones may be pending at other
\* slots): its slot goes from block to block and from piece to piece of itself.
\* That is all there is: once idle, a slot is given nothing, even if a piece
\* that was pending elsewhere is missing again.
SeedDelivers ==
    \A i \in Slots :
        (current_piece_assigned[i] # NoPiece /\ inventory[i] = Pieces)
          ~> \/ state[i] # "DOWNLOADING"
             \/ \A p \in Pieces : piece_states[p] # "MISSING"

Claims == INSTANCE PieceClaims WITH
    Workers <- Slots,
    done    <- Done,
    claim   <- current_piece_assigned

\* The slots share the pieces as PieceClaims promises.
ImplementsClaims == Claims!Spec

==============================================================================
