--------------------------------- MODULE Wire ---------------------------------
(***************************************************************************)
(* The bytes of one connection of the swarm (rgTorrent-c/swarm/swarm.c):   *)
(* how read_exactly and the handlers cut the stream of a remote into       *)
(* messages, when TCP delivers it in pieces of any length and at any time. *)
(*                                                                         *)
(* Module Swarm has a turn of a slot as one step; here it is one step for  *)
(* each read of the handler.  The remote is another client that keeps to   *)
(* the protocol: it may choke, fall silent in the middle of a message or   *)
(* go away, but it sends whole messages in their order.  Lengths are those *)
(* of the protocol, in bytes.                                              *)
(***************************************************************************)
EXTENDS Integers, Sequences, SequencesExt

CONSTANTS
    BitfieldLength, \* the bytes of the remote's bitfield
    BlockLength,    \* the bytes of a block that the remote sends
    MaxQueue        \* bound: how many messages are on their way

ASSUME WireAssumption ==
    /\ BitfieldLength \in Nat \ {0}
    /\ BlockLength \in Nat \ {0}
    /\ MaxQueue \in Nat

VARIABLES
    state,     \* peer->state
    inventory, \* peer->inventory: NULL, or whether it holds a piece
    assigned,  \* peer->current_piece_assigned # -1
    pc,        \* what the handler reads next, or turn: it has not begun
    left,      \* the argument of read_exactly
    msg,       \* msg_id, and payload_len with it
    queue,     \* what the remote has sent and nobody has read to its end
    offset,    \* how many bytes of its head have been read
    in_step,   \* FALSE once a payload was given up and its rest is read as a message
    silent,    \* the remote sends nothing any more
    bitfield,  \* the remote has sent what follows the handshake
    unchoking, \* whether the remote unchokes this client
    asked,     \* a request is on its way to the remote, or waits there
    choked,    \* the remote has choked this client after an unchoke
    swallowed  \* an unchoke was read in the place of the bitfield

peer   == <<state, inventory, assigned>>
reader == <<pc, left, msg>>
stream == <<queue, offset, in_step>>
remote == <<silent, bitfield, unchoking, asked>>
ghosts == <<choked, swallowed>>
vars   == <<peer, reader, stream, remote, ghosts>>

------------------------------------------------------------------------------
Messages == {"keep-alive", "choke", "unchoke", "interested", "have", "bitfield",
             "request", "piece", "extended"}

\* The bytes behind the id of a message; an extended one has some.
PayloadLength(m) ==
    CASE m = "have" -> 4
      [] m = "bitfield" -> BitfieldLength
      [] m = "request" -> 12
      [] m = "piece" -> 8 + BlockLength
      [] m = "extended" -> 2
      [] OTHER -> 0

\* The bytes of a message, with the four of its length; of a keep-alive there
\* are no others.
Size(m) ==
    CASE m = "handshake" -> 68
      [] m = "keep-alive" -> 4
      [] OTHER -> 5 + PayloadLength(m)

\* A connection is made, and the remote answers the handshake.
Init ==
    /\ state \in {"HANDSHAKING", "INCOMING_HANDSHAKE"}
    /\ inventory = "null"
    /\ assigned = FALSE
    /\ pc = "turn" /\ left = 0 /\ msg = "keep-alive"
    /\ queue = <<"handshake">> /\ offset = 0 /\ in_step = TRUE
    /\ silent = FALSE /\ bitfield = FALSE /\ unchoking = FALSE /\ asked = FALSE
    /\ choked = FALSE /\ swallowed = FALSE

------------------------------------------------------------------------------
(* The remote *)

\* A bitfield comes first or not at all; a block answers a request, and is not
\* sent while choking.
Send(m) ==
    /\ in_step /\ ~silent /\ state # "DEAD"
    /\ Len(queue) < MaxQueue
    /\ m = "bitfield" => ~bitfield
    /\ m = "unchoke" => ~unchoking
    /\ m = "choke" => unchoking
    /\ m = "piece" => unchoking /\ asked
    /\ queue' = Append(queue, m)
    /\ bitfield' = TRUE
    /\ unchoking' = (m = "unchoke" \/ (unchoking /\ m # "choke"))
    /\ asked' = (asked /\ m \notin {"piece", "choke"})
    /\ choked' = (choked \/ m = "choke")
    /\ UNCHANGED <<peer, reader, offset, in_step, silent, swallowed>>

\* A request that reaches a choking remote is dropped by it.
Discard ==
    /\ asked /\ ~unchoking
    /\ asked' = FALSE
    /\ UNCHANGED <<peer, reader, stream, silent, bitfield, unchoking, ghosts>>

\* The remote, or the network, falls silent, maybe inside a message.
FallSilent ==
    /\ ~silent
    /\ silent' = TRUE
    /\ UNCHANGED <<peer, reader, stream, bitfield, unchoking, asked, ghosts>>

Remote == (\E m \in Messages : Send(m)) \/ Discard \/ FallSilent

------------------------------------------------------------------------------
(* Reading *)

\* There are bytes to read: of the head of the queue or, out of step, any.
Readable == ~silent /\ (in_step => queue # <<>>)

\* n bytes are read.
Take(n) ==
    LET at == offset + n
    IN  /\ IF ~in_step THEN UNCHANGED <<queue, offset>>
           ELSE IF at < Size(Head(queue)) THEN offset' = at /\ UNCHANGED queue
           ELSE offset' = at - Size(Head(queue)) /\ queue' = Tail(queue)
        /\ UNCHANGED in_step

\* read_exactly has read its bytes.
Read ==
    \/ left = 0 /\ UNCHANGED stream
    \/ left > 0 /\ Readable /\ Take(left)

\* Mutant: poll waits without a limit, so that only the end of the connection
\* ends it.
GapUnlimited == left > 0 /\ ~silent

\* read_exactly gives up: fifteen seconds passed without a byte, or the
\* connection has ended.
Gap == left > 0

GoOn(part, n) == pc' = part /\ left' = n
EndTurn       == pc' = "turn" /\ left' = 0

\* drop_peer.  Nothing of the connection matters any more.
Drop ==
    /\ state' = "DEAD" /\ inventory' = "null" /\ assigned' = FALSE
    /\ EndTurn /\ msg' = "keep-alive"
    /\ queue' = <<>> /\ offset' = 0 /\ in_step' = TRUE
    /\ asked' = FALSE
    /\ UNCHANGED <<silent, bitfield, unchoking, ghosts>>

\* The connection ends, or the user pauses, between two turns.
Disconnect == pc = "turn" /\ state # "DEAD" /\ Drop

------------------------------------------------------------------------------
(* The handlers *)

\* handle_handshake, and its like of the loop: one recv for the whole
\* handshake, and if it gives less, or another torrent's, that is the end.
handle_handshake ==
    /\ pc = "turn" /\ state \in {"HANDSHAKING", "INCOMING_HANDSHAKE"}
    /\ Readable
    /\ \/ /\ state' = "WAITING_BITFIELD"
          /\ Take(68)
          /\ UNCHANGED <<inventory, assigned, reader, remote, ghosts>>
       \/ Drop

\* The bytes of a length that recv has not read.
Rest(n) == 4 - n

\* The recv with which handle_bitfield, handle_unchoke and handle_downloading
\* begin: some bytes of a length, which is that of the next message, or out of
\* step of any.
Recv ==
    /\ pc = "turn" /\ state \in {"WAITING_BITFIELD", "WAITING_UNCHOKE", "DOWNLOADING"}
    /\ Readable
    /\ msg' \in IF in_step THEN {Head(queue)} ELSE Messages
    /\ \E n \in 1 .. 4 : Take(n) /\ GoOn("length", Rest(n))
    /\ UNCHANGED <<peer, remote, ghosts>>

\* Mutant: a remote that has nothing to ask for is kept.
HandledInVain(whole) ==
    \/ /\ state = "WAITING_BITFIELD"
       /\ state' = "WAITING_UNCHOKE"
       /\ inventory' = IF msg = "bitfield" /\ whole THEN "some" ELSE "none"
       /\ swallowed' = (swallowed \/ msg = "unchoke")
       /\ UNCHANGED <<assigned, asked>>
    \/ UNCHANGED <<peer, asked, swallowed>>

\* What a handler makes of the message that it has read.  The first one is
\* taken for the bitfield; at the unchoke the remote is asked for a piece,
\* if it has one that is wanted; the rest is for handle_downloading.
Handled(whole) ==
    \/ /\ state = "WAITING_BITFIELD"
       /\ state' = "WAITING_UNCHOKE"
       /\ inventory' = IF msg = "bitfield" /\ whole THEN "some" ELSE "none"
       /\ swallowed' = (swallowed \/ msg = "unchoke")
       /\ UNCHANGED <<assigned, asked>>
    \/ /\ state = "WAITING_UNCHOKE" /\ msg = "unchoke" /\ inventory = "some"
       /\ state' = "DOWNLOADING" /\ assigned' = TRUE /\ asked' = TRUE
       /\ UNCHANGED <<inventory, swallowed>>
    \/ /\ state = "DOWNLOADING" \/ (state = "WAITING_UNCHOKE" /\ msg # "unchoke")
       /\ UNCHANGED <<peer, asked, swallowed>>

\* The length is read; behind that of a keep-alive there is nothing.
ReadLength ==
    /\ pc = "length"
    /\ Read
    /\ IF msg = "keep-alive" THEN EndTurn /\ Handled(TRUE)
       ELSE GoOn("id", 1) /\ UNCHANGED <<peer, asked, swallowed>>
    /\ UNCHANGED <<msg, silent, bitfield, unchoking, choked>>

Downloading(m) == state = "DOWNLOADING" /\ msg = m

\* Mutant: the numbers of a request are left where they are.
FirstPartOfBlocks ==
    IF Downloading("piece") THEN 8 ELSE IF Downloading("request") THEN 0 ELSE PayloadLength(msg)

\* What is read behind the id: all there is, but of a block its two numbers.
FirstPart == IF Downloading("piece") THEN 8 ELSE PayloadLength(msg)

ReadId ==
    /\ pc = "id"
    /\ Read
    /\ GoOn("payload", FirstPart)
    /\ UNCHANGED <<peer, msg, remote, ghosts>>

\* The payload is read, and the message is handled.
ReadPayload ==
    /\ pc = "payload" /\ ~Downloading("piece")
    /\ Read
    /\ EndTurn
    /\ Handled(TRUE)
    /\ UNCHANGED <<msg, silent, bitfield, unchoking, choked>>

\* The two numbers are those of the piece that is assigned.
ReadNumbers ==
    /\ pc = "payload" /\ Downloading("piece")
    /\ assigned
    /\ Read
    /\ GoOn("block", PayloadLength(msg) - 8)
    /\ UNCHANGED <<peer, msg, remote, ghosts>>

\* Mutant: the next block is not asked for.
AskedAgainNot == FALSE

AskedAgain == TRUE

\* The block is read.  Another one is asked for, of this piece or of the next,
\* or nothing is left to ask for.
ReadBlock ==
    /\ pc = "block"
    /\ Read
    /\ EndTurn
    /\ \/ asked' = AskedAgain /\ UNCHANGED assigned
       \/ assigned' = FALSE /\ UNCHANGED asked
    /\ UNCHANGED <<state, inventory, msg, silent, bitfield, unchoking, ghosts>>

\* The handler gives up the connection: a piece is wrong, a block is of a piece
\* that is not assigned, or there is no piece to ask for.
Refuse ==
    /\ \/ pc = "block"
       \/ pc = "payload" /\ Downloading("piece") /\ ~(in_step /\ assigned)
       \/ pc = "payload" /\ state = "WAITING_UNCHOKE" /\ msg = "unchoke"
    /\ Drop

\* Nothing looks at what read_exactly returns for these.
Skipping == pc = "payload" /\ ~Downloading("request") /\ ~Downloading("piece")

\* read_exactly fails, and the handler returns false.
GiveUp ==
    /\ pc # "turn" /\ ~Skipping
    /\ Gap
    /\ Drop

\* It fails, and the handler goes on: what comes later of the payload will be
\* read as messages.
Abandon ==
    /\ Skipping
    /\ Gap
    /\ EndTurn
    /\ Handled(FALSE)
    /\ queue' = <<>> /\ offset' = 0 /\ in_step' = FALSE
    /\ UNCHANGED <<msg, silent, bitfield, unchoking, choked>>

Handler ==
    \/ handle_handshake \/ Recv \/ ReadLength \/ ReadId \/ ReadPayload
    \/ ReadNumbers \/ ReadBlock \/ Refuse \/ GiveUp \/ Abandon

Next == Remote \/ Handler \/ Disconnect

Spec == Init /\ [][Next]_vars

\* The thread goes on: it serves a slot that can be read, and poll comes back
\* after fifteen seconds at the latest.
FairSpec == Spec /\ WF_vars(Handler)

------------------------------------------------------------------------------
(* Properties *)

\* The variables keep their types.
TypeOK ==
    /\ state \in {"HANDSHAKING", "INCOMING_HANDSHAKE", "WAITING_BITFIELD", "WAITING_UNCHOKE",
                  "DOWNLOADING", "DEAD"}
    /\ inventory \in {"null", "none", "some"}
    /\ assigned \in BOOLEAN
    /\ pc \in {"turn", "length", "id", "payload", "block"}
    /\ left \in Nat
    /\ msg \in Messages
    /\ queue \in Seq(Messages \cup {"handshake"})
    /\ offset \in Nat
    /\ \A v \in {in_step, silent, bitfield, unchoking, asked, choked, swallowed} : v \in BOOLEAN

\* However TCP cuts the stream, each turn begins with the first byte of a
\* message: every handler reads exactly the message that it was given, as long
\* as no payload is given up.
InStep == pc = "turn" /\ in_step => offset = 0

\* A slot to which a piece is assigned has something under way, a request or a
\* block, unless the remote has choked this client, after which it waits for
\* ever: a choke is not looked at and nothing is asked for again.
StallsOnlyIfChoked ==
    state = "DOWNLOADING" /\ assigned /\ pc = "turn" /\ in_step
        => asked \/ Contains(queue, "piece") \/ choked

\* A remote that unchokes is asked for a piece, or given up, or its unchoke is
\* still to be read, unless the unchoke came first and was taken for the
\* bitfield.
NoUnchokeLost ==
    state = "WAITING_UNCHOKE" /\ pc = "turn" /\ in_step /\ unchoking
        => Contains(queue, "unchoke") \/ swallowed

\* A turn ends, whatever the remote does not send: the other slots wait for
\* it, and so does a pause.
TurnEnds == pc # "turn" ~> pc = "turn"

==============================================================================
