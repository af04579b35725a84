# rgTorrent: models and proofs

TLA+ modules that model rgTorrent, a BitTorrent client with a back end in C
(`src/rgTorrent-c`) and a window in C++ with Qt (`src/rgTorrent-qt`), the TLC
configurations that check them on small instances, and proofs that TLAPS checks
for every value of the constants.

Contents: [the system](#the-system), [modules](#modules), [runs](#runs),
[fairness](#fairness), [proofs](#proofs), [disagreements](#disagreements),
[only model-checked](#only-model-checked), [not modelled](#not-modelled),
[plan](#plan), [how to run](#how-to-run).

## The system

One process. The window's thread makes every call into the back end. Each
torrent has a download thread of its own, and during its search for peers one
more thread for each tracker. Remote peers and trackers are the environment.

    window (Qt thread) --ts_* calls, once a second the getters--> session
      session --pthread_create / pthread_join--> download thread (one per torrent)
        download thread --create / join--> tracker threads --UDP, HTTP--> trackers
        download thread --read_piece_from_disk--> files     (verification)
        download thread --start_swarm--> swarm loop --TCP--> remote peers
          swarm loop --write_piece_to_disk, read_piece_from_disk--> files
    window --ts_create_torrent--> creation        window, session, trackers --> bencoding parser

| Component | State | Operations | What is hard |
|---|---|---|---|
| swarm (`swarm/swarm.c`) | slots with socket, state, inventory, assigned piece, block offset and buffer; states of pieces; counts | the loop with its pause, poll and accept; a handler per state of a slot; `drop_peer` | connections in any order, lost at any point; pauses between two rounds; arithmetic of the last piece and block; slots that are used again |
| session (`torrent_session.c`) | array of entries, count, ids, threads | add, remove, pause, resume, create, destroy, getters; the download thread | threads keep pointers into the array; pauses during each phase of a thread; six ways to fail |
| trackers (`torrent_session.c:119-181`, `announce_connector.c`) | jobs on the stack, sockets, transaction ids, receive buffer | start, join and choose; UDP connect and announce; HTTP request and parse | answers that are late, repeated, wrong or missing; `srand` shared by all threads |
| files (`downloader/file_saver.c`, verification in `torrent_session.c:211-230`) | layout of the files, the files | fill, write, read, verify | pieces that span files; failed writes; the program killed between two files |
| bencoding (`bencoding/`) | position in a text | the parser and its three readers | errors reported beside a node; limits of numbers; texts that are cut |
| creation (`creation/torrent_creator.c`) | sizes, piece buffer, hashes | scan, hash, write | pieces over the ends of files; files that cannot be read |
| window (`MainWindow.cpp`, `TorrentListWidget.cpp`, `TorrentBackend.cpp`) | rows, selection, details, open menu or question, saved list | everything the user may do with the list; timer; close and start | the timer fills and sorts the table while a menu or a question is open; text split at bars |
| details panel and dialogs, theme and icons, string helpers, command line client | see [not modelled](#not-modelled) | | |

What makes each of them correct:

- *swarm*: a piece has one owner while it is pending and none otherwise; what is
  done was written with the right bytes, is counted, is told to every remote and
  is not touched again, but by a write that fails; only what was checked is sent;
  requests lie inside their piece; a slot that is used again is clean;
  connections end with a pause; a slot that was given a piece goes on until there
  is nothing left to give.
- *session*: ids, order and thread handles of the list agree; a thread works on
  its own entry, until the removal of one in front moves it; a pause outlives the
  verification; a failed torrent has no thread; a removal returns.
- *trackers*: the peers are those of the first tracker that gave any, with its
  numbers; no thread outlives the search; the search ends, unless the parser does not.
- *files*: bytes land in their places; a start recovers exactly what is whole on
  disk.
- *bencoding*: what is read is what the grammar says; of a file that was cut no part
  of a key or of a value is taken; the hashed text is the dictionary's.
- *creation*: the hashes are those that a download will compare with, as far as the
  files are what they were when they were counted.
- *window*: what the user asks for happens to the torrent that was selected; the
  list survives a restart.

`PROJECT.json` lists the hazards behind these properties, each at its line.

## Modules

| Module | Models | Notes |
|---|---|---|
| `Swarm` | the swarm loop of one torrent, pause and resume | one action per turn of the loop, for one slot |
| `PieceClaims` | what the swarm promises of the sharing of pieces | abstract; `Swarm` implements it |
| `Wire` | the bytes of one connection of the swarm | one action per read of a handler; the other client is external |
| `Listening` | the port on which a torrent listens, reports and announces itself | one action per call on the socket |
| `Session` | list of torrents, download threads | one action per stretch of a thread between two accesses to its entry |
| `TorrentList` | what the list promises to the window | abstract; `Session` implements it |
| `EntryLocks` | one entry, shared by its download thread and the window | one action per write under `e->lock` and per field read; implements `Session` |
| `FileSaver` | files, verification, kill and restart | one action per iteration of a loop over the files |
| `TorrentCreator` | creation of a torrent file | one action per read; instantiated by `CreateAndSeed` |
| `CreateAndSeed` | a torrent from its creation to its seeding | composes `TorrentCreator` with `FileSaver` |
| `Trackers` | the search for peers of one torrent | one action per send or receive |
| `Bencode` | parser and readers | recursive functions; the grammar is a second, independent definition |
| `Window` | table, selection, details, menu, question, saved list | one action per Qt slot |
| `MCSwarm`, `MCSession`, `MCWindow`, `MCBencode` | values for the constants | |
| `SwarmProofs`, `WireProofs`, `SessionProofs`, `LocksProofs`, `FilesProofs`, `TrackersProofs`, `BencodeProofs`, `WindowProofs` | theorems | each extends the module it is about; `FilesProofs` is about `FileSaver` and `CreateAndSeed`, `LocksProofs` builds on `SessionProofs` |

How they fit together: `Swarm` takes a message for one step, which `Wire` takes
apart; `Session` takes a section under an entry's lock for one step, which
`EntryLocks` takes apart; `Session` takes the swarm for what it does to the entry,
and `Window` takes the session for the list that its calls leave behind.

Definitions have the names of the functions they stand for where there is one;
`PROJECT.json` maps each to its lines.

**Swarm.** `open`, `state`, `inventory`, `current_piece_assigned`,
`current_block_offset` and `piece_buffer` are the fields of `peers[i]` and
`poll_fds[i]`, each a function over the slots: a record per slot would say the
same, but updates of one field of a record in a function are beyond the prover's
backends. `pc` is the place in `start_swarm`: at the top of the loop, in the wait
of a pause, before `poll`, before `accept`, or between two slots with `ready`
still to serve. A handler is one action since no other thread writes what it
reads. Data: a piece is a number; `piece_buffer` and `disk` say only whether all
bytes so far are genuine. `told`, `asked` and `uploaded` record messages sent,
which the code does not keep. Remotes answer with blocks of the piece they were
asked for, of any length up to what was asked and with good or bad bytes; a block
of another piece loses the connection, as any message may. The code checks neither
begin nor length of a block, nor the index of a request (`swarm.c:227`, `swarm.c:285`):
the remotes of the model keep to what they were asked and offered. A write that fails
may damage any of the pieces that are done besides the one it writes, since a file that
cannot be opened for update is emptied (`file_saver.c:53-56`); `FileSaver` has which.

**Wire.** Every handler begins with a read of the first bytes of a message, and
`read_exactly` goes on with what has arrived, in parts of any length, until it has
all it was asked for or nothing came for fifteen seconds. Three of its callers do
not look whether it had all. `left` is what the read still wants, `offset` how far
into the first message of `queue` the stream is; `in_step` is whether the reader and
the remote agree on where messages begin. The remote keeps to the protocol; it may
choke, fall silent inside a message, and send bitfield and unchoke in the order the
protocol allows, without a bitfield too. `choked` and `swallowed` record what the
code does not keep: that a choke was read, and that an unchoke was read in the place
of the bitfield.

**Listening.** `sin_port` starts at 0, so the first `bind` takes a port that the
system picks, while `bound_port` is what is printed and 6881 what was announced.

**Session.** Threads are named by the id of the torrent they were created for,
and `entry_index[t]` is the pointer they keep. `Join` and `Removed` are the two
halves of `ts_remove_torrent`; between them the window waits and makes no other
call. The swarm is what it does to the entry; `Swarm` has the rest. `ts_pause_torrent`
and `ts_resume_torrent` are in both modules because both loops read the status.
Any torrent may be removed. `displaced` records what the code does not keep: the threads
that ran when their entries were moved to the front by a removal. Their pointers are
wrong from then on, and they may write the status of any other torrent; the properties
say what holds until then, and `session_remove` shows what does not hold after.

**EntryLocks.** `entry` is the memory of one entry, `lock` those who are in a section
under its lock, and `writes[u]` the assignments that user `u` has still to make before
it leaves. The window's row is put together field by field, status first, as
`TorrentBackend::poll` does: all but the progress is read without the lock, so it may
read an entry that is half written. `ImplementsSession` maps an entry that is being
written to the one its section will leave (`Settled`), so that a section is one step
of `Session`. The note of the trackers' numbers is a section too, with no write to a
field that the model has.

**FileSaver.** A byte of the torrent is its offset there, so a byte in its right
place can be told from one that is not. Every layout of `NumFiles` files is an
initial state, with empty files and entries without a path, over files that are
already there. `Restart` may come between any two iterations.

**Trackers.** `rand_state` is the state that `srand` and `rand` share among all
threads: two requests of a thread may get the same transaction id when another
thread calls `srand` in between. `Arriving` is all that a tracker may send: any
answer to any request that was sent, late, twice, or with another number. A response
by HTTP is parsed in the end (`HttpParse`), or has an item in a list that begins no value
and keeps the thread in the loop of `parseList` (`HttpLoop`, `bencode_parser.c:70-82`).

**Bencode.** Texts over the alphabet `0 1 2 d l i e : -`; `MCBencode` has all up to
`MaxLength`, and longer ones made from sentences of the grammar by cutting, changing
one character or adding one. `DIGITS_IN_LONG` is 2 instead of 18 so that numbers that
are too long occur. What the functions of the parser come to, which call each other,
is one recursive function, `Loops`, from a kind of collection and a position to a
result; so are the bodies of collections that the grammar has, `Bodies`, from a kind
and two positions. A list with an item that begins no value keeps the parser in
its loop; such a text is never answered, and no reader goes on from it. That a string
of up to 18 digits may be longer than there is memory for is left out: `malloc` is not
checked (`bencode_parser.c:179-180`), so where it gives nothing the program ends.

**TorrentCreator, CreateAndSeed.** Bytes are offsets as in `FileSaver`, so the hashes
can be compared with the pieces of a download. A file may give fewer bytes than the
scan saw, none, or up to `MaxGrowth` more: it is read to its end whatever its size was,
so with files that grow the pieces are shifted and more hashes may be written than there
is room for (`torrent_creator.c:89-100`). `Overrun` is the end of the program that this
may bring about (`pc` is then "killed"); what else it does to memory is left out.
`CreateAndSeed` either takes a torrent that another client made, as
`FileSaver` does, or makes one of a directory and adds it over that directory; the
torrent file is all that passes from one side to the other.

**Window.** A menu or a question runs the event loop again, so `Timer` may fire while
`dialog` is open, and it rebuilds the table. Clearing the table clears the selection.
Sorting leaves some order, since the user chooses the column. A call of the session is
one step here, and so is the start, in which a torrent that has failed before its pause
is set stays in error (`TorrentBackend.cpp:241-246`). `ThreadEnds` is what the threads
do to a status. Paths are sequences of the parts between bars, as the saved list is
split there.

Each module that the theorems are about has a type invariant, `TypeOK`, which is proved
(that of `FileSaver` for `CreateAndSeed` too).
Only that of `Trackers` is run as well: it has the arithmetic of the receive buffer.

## Runs

States are distinct ones.

| Run | Instance | States | Shows |
|---|---|---|---|
| `swarm_shared` | 2 slots, pieces of 3 and 1 bytes, blocks of 2, remotes with none, one or all pieces, writes and `poll` may fail | 655,802 | `PendingHasOneOwner`, `SlotCoherent`, `RemotesKnowDone`, `ShownIsTrue`, `RequestInRange`, `DoneIsStored`, `UploadsAreChecked`, `DoneIsForever`, `ImplementsClaims` |
| `swarm_live` | 2 slots, pieces of 2 and 1 blocks, seeds that answer | 94,842 | `SeedDelivers`, `PauseTakesEffect` |
| `wire` | bitfield of 1 byte, blocks of 2, 3 messages on their way | 96,562 | `InStep`, `StallsOnlyIfChoked`, `NoUnchokeLost`, `TurnEnds` |
| `port` | 2 torrents, 3 ports to search, 2 of the system's | violation | `ListensWhereItSays` fails |
| `session_threads` | 3 places, 3 torrents of one piece, any removed, `poll` may fail | 1,042,201 | `ListedInOrder`, `OwnUntilMoved`, `StatusAgrees`, `PauseKept`, `ImplementsList` |
| `session_remove` | 2 places, any torrent removed | violation | `OwnEntry` fails |
| `session_join` | 1 torrent | violation | `RemovalReturns` fails |
| `locks` | a torrent of 3 pieces, `poll` may fail | 10,903 | `RowTruthful`, `ImplementsSession`, `VerificationEnds`, `CallsReturn` |
| `files` (on `CreateAndSeed`) | 3 files of up to 3 bytes, pieces of 3; directories of up to 3 files that grow by 1 byte, pieces of up to 4 | 1,463,698 | `InPlace`, `VerifiedExactly`, `DoneIsOnDisk`, `SameAsDownload`, `CreatedIsSeeded` |
| `trackers` | up to 3 trackers, 2 seconds | 180,142 | `TypeOK`, `WorkersEnded`, `FirstAnswerWins`, `NeverFromConnect`, `SearchEnds` |
| `bencode` | texts of up to 4 characters and damaged longer ones | 146,141 | `ExactlyTheGrammar`, `OnlyWholeItems`, `HashedIsTheInfo` |
| `window` | 2 torrent files, 2 places, 3 ids | 226,967 | `DetailsOfSelected`, `ActsOnChosen`, `RestoredAlike` |

Why the bounds are enough for what is asked:

- *Swarm.* What goes wrong between connections goes wrong between two: two that
  want one piece, one that drops what the other could take, one that completes
  while the other is being greeted. Two pieces give a connection something to go
  on with, and let one be done while another is pending. The code has 30 slots
  and any number of pieces; the theorems cover those. A piece of two blocks whose
  second is short, and a last piece that is shorter than a block, meet every branch
  of the block arithmetic.
- *Wire.* Lengths of one and two bytes are enough for a read to come short at each
  of its ends and inside; three messages on their way are one that is read and two
  behind it that may be mistaken for each other. The theorems have any lengths.
- *Listening.* With two torrents one port may be taken by the other, and with three
  ports the search has a first, a next and a last step.
- *Session.* A pointer goes wrong when a removal moves an entry, for which two
  torrents suffice. Three torrents and removals anywhere let an entry be moved once,
  twice or not at all.
- *EntryLocks.* Three pieces let one complete before, between and after the reads of
  a row. One entry is enough: each has a lock of its own.
- *Files.* With three files of 0 to 3 bytes and pieces of 3, pieces begin and end
  inside files, at their edges, and around empty ones, and a piece spans all
  three. The total is up to 9 bytes, three pieces.
- *Trackers.* Which of several is first needs two, and that the others are freed
  needs a third. `BufferLen` counts in the units in which data arrives, so 1 is a
  buffer that is empty or full. One change of the second is enough for numbers
  to repeat and to differ.
- *Bencoding.* Every text of four characters meets every branch of the parser, and
  the longer ones, of up to about twenty characters, have dictionaries inside
  dictionaries, numbers at their limit, and each of their characters changed.
- *Creation.* As for files; a read ends before, at or after the end of a file. One byte
  more than a file was counted with is enough to begin a piece that there is no room for.
- *Window.* Two torrents are enough to take one for another, and a third id lets
  one be removed and another added.

`CHECK_DEADLOCK` is off where the system may really stop: in the session, whose
window waits for a thread that nothing ends; after the one torrent of `locks` was
removed; at a dead connection, a closed socket; and after a search, a reading or a
creation that failed, which happen once.

For every property of a passing run `PROJECT.json` names a mutant: a definition
with a plausible mistake (the piece of a dropped peer is not given back, the last
piece is as long as the others, a pause is not looked at, ...), kept in the module
just before the definition it stands in for, under which the run fails.

What the runs taught:

- `SeedDelivers` holds only for a slot that still has a piece: a slot that goes
  idle (`swarm.c:346-349`) is given nothing again, even if another slot drops a
  piece that its remote has. The download then waits for another connection.
- `DoneIsForever` and `UploadsAreChecked` have one exception, the write that fails:
  nothing tells the swarm, which goes on to count, announce and serve what is no longer
  on disk (see [disagreements](#disagreements)).
- `InStep` holds as long as no payload is given up: `handle_downloading` does not look
  whether the skipping of a payload came to its end (`swarm.c:263`), and takes the
  rest of it for the length of a message when it comes later than fifteen seconds.
- `NoUnchokeLost` and `StallsOnlyIfChoked` each have an exception: a remote without
  pieces may send its unchoke in the place of the bitfield, where it is dropped
  (`swarm.c:139`), and a choke is not looked at (`swarm.c:163`), so a slot that was
  choked while it downloads waits for ever with its piece.
- `RowTruthful` holds although the status is read without the lock, because it is
  read before the progress. It holds for rows begun after the verification has set
  the counts.
- The comment at `torrent_session.h:42` says that the lock protects the fields of an
  entry; the getters, except that of the progress, read them without it
  (`torrent_session.c:415-441`). `locks` shows what this comes to.
- `VerifiedExactly` needs the files inside a piece to exist, the empty ones too:
  an empty file strictly inside a piece is opened by the reading loop, and without
  it the piece is never recovered.
- `SameAsDownload` holds up to the first place where a file gives fewer or more bytes
  than it had when it was counted. Behind it the pieces are shifted, and with fewer
  bytes the last hashes are never set, while 0 is returned.
- `OwnUntilMoved`, `StatusAgrees` and `PauseKept` hold until a running thread's entry
  is moved. The removal itself leaves them true; it is the next write of the thread
  that was moved which falsifies the last two.
- `SearchEnds` and `VerificationEnds` hold unless an answer by HTTP keeps its thread
  in the parser: then the join of the download thread waits for ever, the torrent is
  shown as verifying, and nothing ends it. Silence of the trackers does not do that.
- `RestoredAlike` holds for names without a bar. A name with one is split, and its
  second part is taken for the directory. A torrent whose new thread fails before
  `loadSession` has paused it is in error, and at the next close its pause is lost.
- The details of a torrent stay shown when it leaves the table by a filter, or is
  removed while others remain: they are hidden only with the last torrent, and shown
  anew only with a selection (`MainWindow.cpp:236`). `DetailsOfSelected` therefore
  speaks of a selected torrent.
- `OnlyWholeItems` says what comes of `ts_add_torrent` never looking at the error: of
  the places that report one, only those at the end of the text of a dictionary
  give a node with items, and these have been read to their ends. So a file that was
  cut between two items is taken without the later ones (`bencode_parser.c:154-159`),
  and with it a file that lacks nothing but its last character.

## Fairness

- `FairSpec` of `Swarm`: weak fairness of the download thread. The loop never waits
  without a limit: `poll` returns after 100 ms, sockets do not block, and the read of a
  message gives up when nothing comes for 15 seconds (`swarm.c:38`). A remote that sends
  a byte at a time delays the other slots, but for one message at most. Nothing is
  assumed of the user.
- `ResponsiveSpec` of `Swarm` adds strong fairness, for each slot, of being reported by
  `poll` and of reading a good block. That is asked of the remotes: the code has no
  timeout for a silent one, and `SeedDelivers` would not hold without it.
  `PauseTakesEffect` needs the thread only.
- `FairSpec` of `Wire`: weak fairness of the handler, which serves a slot that can be
  read and comes back from `read_exactly` after fifteen seconds without data. Nothing is
  assumed of the remote.
- `FairSpec` of `Session`, for `session_join` only: weak fairness of each thread and of
  the return of a join whose thread has ended. Each phase of a thread is taken to end:
  files answer or fail, and of the search for peers it is granted, although the parser
  may not end (see `Trackers`): the removal hangs all the same, for want of anything
  that ends the swarm.
- `FairSpec` of `EntryLocks`: strong fairness of the window's calls and of the thread,
  but not of the step with which its search for peers ends (`Searching`): that is what
  `VerificationEnds` excepts. Weak fairness would allow one of them to find the lock
  taken each time it looks. A mutex without contention most of the time does not do
  that: the window calls a few times a second, and the swarm sleeps in `poll` or
  `usleep` in every round.
- `FairSpec` of `Trackers`: weak fairness of the download thread and, for each tracker
  thread, of the steps that no tracker must answer for: sending, timeouts, and the
  parsing of what there is. No answer is assumed. `recvfrom` and `poll` have timeouts of
  five seconds, and an HTTP response ends with its buffer. That the parser comes to an
  end is not assumed: with any response it may loop instead.

## Proofs

TLAPS checks every leaf of the eight proof modules. They rest on the named
assumptions on constants and on nothing else:

- `MetainfoAssumption` (Swarm): there is a piece, pieces are not empty, and they
  cover the content, the last one not being empty. The code takes this from the
  torrent file.
- `SwarmAssumption`, `WireAssumption`, `SessionAssumption`, `EntryAssumption`,
  `FileSaverAssumption`, `CreateAssumption`, `TrackersAssumption`, `WindowAssumption`:
  the types of the other constants.
- `BencodeAssumption`: a number may have a character, and the texts are sequences over
  the alphabet, any set of them.

**Swarm** (`SwarmProofs`), for any numbers of slots, pieces and bytes. The
inductive invariant is `IInv == TypeOK /\ SlotInv /\ ClosedWhileStopped`.
`SlotInv` joins `PendingHasOneOwner`, `SlotCoherent` and `RequestInPiece`, none of
which is inductive alone: that a piece selected by a handler has no owner needs
that pending pieces are those assigned; that a slot without a connection has no
piece needs the coherence of slots. `ClosedWhileStopped` is needed since
`initiate_connections` overwrites the state of slots without a look: it may only
run when all are dead. From `IInv` follow, each with what more it needs,
`CompletedCountsDone` (an induction on the cardinality of `Done`),
`RequestInRange` (division with remainder, lemmas `Remainder` and
`PieceInContent`), `DoneIsForever`, `DoneIsStored`, from it `UploadsAreChecked`,
`SeedingIsComplete` and with `CompletedCountsDone` `ShownIsTrue`, `RemotesKnowDone`, and
`Refinement == Spec => ImplementsClaims`: every step is a claim, a finish, a
release or a stutter of `PieceClaims`.

**Wire** (`WireProofs`), for any lengths of bitfield and block. `IInv` says what may be
on its way in each state of the slot (`QueueInv`: a handshake comes first and only
while one is awaited), where in the first message the reader is (`PositionInv`), what
a turn begins with (`TurnInv`), and who has asked or unchoked (`AskedInv`,
`UnchokedInv`, `HeardInv`). `InStep` alone is not inductive: that a read ends at the
end of a message needs that what the reader takes for `msg` is the head of the queue.
From it `TypeCorrect`, `Framing`, `Stalls` and `UnchokeHeard`.

**Session** (`SessionProofs`), for any capacity and number of torrents. `ListInv`
holds whatever is removed: types, threads born exactly up to `next_id`, the entry
being joined is listed, ids ascend. From it `TypeCorrect`, `InOrder` and
`ListRefinement == Spec => ImplementsList`. `Owned` (`OwnUntilMoved`) follows from it for
every removal: the entry of a thread is where it was created until `memmove` takes it
from there, and a removal does that to the entries behind the removed one only.
`OwnInv` adds what threads rely on: that no other running thread points to their entry,
and that nobody flags a torrent before it is verified. A displaced thread breaks it, so
`OwnInductive` is `Spec => [](displaced = {} => OwnInv)`: an invariant of all behaviours,
whose proof has the removal that displaces a thread among its steps. `StatusAgreed` and
`PauseLasts` follow; `session_remove` shows that they need the condition.

**EntryLocks** (`LocksProofs`), for any number of pieces. `IInv` says, of whoever is in a
section, which writes are left (`ThreadInv`, `WindowInv`) and, of an entry that nobody
is writing, that it has the progress of its pieces and is complete if it says SEEDING
(`CountedInv`). In between the entry need not be consistent; what makes a row true all
the same is that SEEDING is written only over a complete entry, and that the progress
is read under the lock (`RowInv`). From it `TypeCorrect` and `RowsAreTrue`.

`SectionsAreSteps == Spec => ImplementsSession` needs that a section writes no field
twice (`OnceInv`): then a field of an entry that is being written settles to the one
value that is left for it (`Settled`), every later write of the section leaves that
as it is (`WriteSettles`), and entering a section does at once, for whoever takes the
lock, all that the section will write (`Effects`). Each action is a step of `Session`
with one place for a torrent, or is not seen there. With one place no entry is ever
moved (`displaced` is empty), so the theorems of `SessionProofs` apply without their
condition: `EntriesAreTrue` and `PausesLast` say of the writes what `StatusAgreed` and
`PauseLasts` say of the sections.

**FileSaver** (`FilesProofs`), for any number and length of files and any
piece length, through failed writes and restarts. `IInv` has `LayoutInv` (ranges
follow each other), `WriteInv` (a write that comes to file i has counted exactly
the bytes of the piece before that file, which is why a file that cannot be opened
does not move the rest), `KeptInv` (bytes from before a restart lie where the
layout being made will have them: the layout is determined by the lengths, which
is said with an `origin` that exists) and `InPlace`. From it `TypeCorrect` and
`BytesInPlace`.

`DInv` adds what `Recovered` (`VerifiedExactly`) and `Stored` (`DoneIsOnDisk`) need.
Without a fault the writing loop has on disk what it has counted (`WroteInv`); the
reading loop has in its buffer what is on disk, and the files it has passed are there
(`ReadInv`); no two files share a byte (`SpreadInv`), so a write keeps every other
piece; a piece is done only after it was passed (`PieceInv`).

**TorrentCreator, CreateAndSeed** (`FilesProofs`), for any directory, any piece length
and any bytes that reading does not give. `Creator!Start` is a recursive function: that
it satisfies its recursion (`StartSolves`), grows and ends at the total is shown by
induction, which `SetInduction` states with a set in the place of a predicate; it
follows from the least element of a set of naturals. `CInv` is what the loop over the
files keeps: the hashes and the buffer together are the bytes from 0 on, as many as
there are in front of the place that the loop has come to, or at least up to the first
file that has changed (`LoopInv`); so the hashes hold all pieces before that gap
(`HashedInv`, `MadeInv`), and fit into their room unless a file has grown.
From it `HashedAsDownloaded`. `SeedInv` follows a torrent that is added over its own
directory: the layout of `FileSaver` puts each file where it starts in the sequence of
files, which its bytes on disk are numbered by, so a verification recovers every piece,
and none is written. From it `SeededAtOnce`. `CreateInductive` and `BothOrigins` carry
the invariants of `FileSaver` over to both origins of a torrent.

**Trackers** (`TrackersProofs`), for any number of trackers. `IInv` has `JoinInv`
(the jobs already joined have ended, and what is kept is the first peers among
them) and `OwnNumbers` (a job that has peers has its own numbers). A join is final
because a thread that has ended takes no step, and a thread writes only its own
job. From it `TypeCorrect`, `NobodyLeftRunning`, `FirstWins`,
`ConnectIsNoAnswer`.

**Bencode** (`BencodeProofs`), for texts of any length, numbers of any limit and
collections of any depth. `Loops` and `Bodies` are functions that are chosen to satisfy
a recursion, so the first thing shown is that there are such functions (`LoopsAre`,
`BodiesAre`): each position only asks for later ones, so a solution grows from the end
of the text to its start, one position at a time (`Downward`, which is induction on a
set of positions; `...Same` and `...Shape` say that a step depends on later positions
only, and moves). Then `Agreement`, by the same induction: at each position a loop
returns a collection without an error exactly if the grammar has one up to an end
that is found there, and a value is read exactly if the grammar has one. It rests on
lemmas for numbers, strings and integers (`NumberIsRead`, `StringIsRead`, `IntIsRead`),
which hold since a number ends with its run of digits, and the first digit decides
how long a string is. For `ItemsAreWhole` a
dictionary that comes with an error is one whose items the grammar has up to the end of
the text (`WholeItems`), and a body means the same when an end is put behind it
(`BodiesBegin`). For `TheInfoIsHashed` every value in a dictionary that the grammar has
is `Held`: it carries the two places between which the text means it. The steps of the
three readers are then short. `TypeCorrect` is proved likewise.

**Window** (`WindowProofs`), for any torrent files, capacity and number of ids. `IInv`
says that the table has each torrent that passes the filter once (`TableInv`), that the
details are those of the selected row (`PanelInv`), that a menu or a question is about
the selected row (`DialogInv`), that a program that ended has left nothing (`RunInv`),
and that the settings are the list of the last close, which fits into the session
(`KeptInv`). `ActsOnChosen` rests on `DialogInv`, which is inductive only because
the rebuilding of the table selects the same torrent again, and because nothing that
runs under a menu takes a torrent out of the table. From it `TypeCorrect`,
`DetailsShown`, `ChosenOnly` and `Restored`.

## Disagreements

Three runs end in a violation of what the repository says of itself.

- `session_remove`, `OwnEntry`: `ts_remove_torrent` (`torrent_session.c:362`)
  moves the entries behind the removed one with `memmove` while their threads
  keep the pointers they were created with (`torrent_session.c:56`). From then on
  a thread writes status and progress of another torrent, or of an entry that is
  not listed. The window's question (`MainWindow.cpp:225`) speaks of the selected
  torrent only.
- `session_join`, `RemovalReturns`: `ts_remove_torrent` (`torrent_session.c:355`)
  joins the thread of the torrent and nothing tells the thread to end; the loop of
  a swarm ends only with `TS_STATUS_ERROR`, which nobody sets then, or when `poll`
  fails. The call never returns for a torrent that runs, although
  `MainWindow.cpp:240` goes on to say "Torrent removed.".

- `port`, `ListensWhereItSays`: `server_addr.sin_port` is 0 at the first `bind`
  (`swarm.c:415`), so the socket gets a port of the system's choice and the search from
  6881 never begins; `swarm.c:424` prints that connections are awaited on 6881, which
  `torrent_session.c:127` has told the trackers.

One more is in a part that is left out of `Window`: after an addition the status bar says
"Torrent added." even when `ts_add_torrent` has failed and an error was shown
(`MainWindow.cpp:213`, and `MainWindow.cpp:250` after a creation).

Defects that the models have, as steps of their own or as exceptions of a property, and
of which nothing in the repository says otherwise in so many words:

- A complete torrent is shown as "Seeding" (`torrent_session.c:431`,
  `TorrentBackend.cpp:26`) and unchokes those who connect (`swarm.c:557`, `swarm.c:604`),
  but serves none of them: requests are answered in `PEER_STATE_DOWNLOADING` only, where a
  slot comes with a missing piece to ask for, and an unchoke from the remote closes the
  connection when there is none (`swarm.c:175-177`). Only those that it was downloading
  from when the last piece came are still served.
- When a file cannot be opened for update it is opened anew and emptied
  (`file_saver.c:53-56`), and no write says whether it succeeded: pieces done long ago
  are gone, and are counted, announced and served until the next start.
- A list item that begins no value keeps `parseList` in its loop
  (`bencode_parser.c:70-82`): in a torrent file it hangs the window, in the answer of a
  tracker the search, and the torrent is shown as verifying for ever.
- A torrent file that was cut between two items is added without the later ones, since
  `ts_add_torrent` does not look at the error (`torrent_session.c:302-336`).
- A file that grows between the scan and the reading shifts the pieces of a new torrent,
  and may have hashes written behind the end of `hashes` (`torrent_creator.c:95`).
- The pause of a torrent that fails while the list is loaded is lost
  (`TorrentBackend.cpp:241-246`).

## Only model-checked

- Liveness (`SeedDelivers`, `PauseTakesEffect`, `TurnEnds`, `VerificationEnds`,
  `CallsReturn`, `SearchEnds`): fairness is out of the prover's reach.

## Not modelled

- `main.c`, `downloader.c`, `handshake.c`: the client for the command line, a
  sequential predecessor of the swarm; `main.c` no longer compiles against the
  headers beside it, and the other two are called by it alone.
- Theme, icons and translation; the details panel and the dialogs: presentation
  without state of their own. Which torrent the panel shows is in `Window`.
- Random strings for the peer id, and URL encoding: functions without state.
- `ts_destroy`: the program ends right after it. It frees entries whose threads
  run; accesses to freed memory have no state to model.
- Memory that runs out: almost no `malloc` of the program is checked.
- Partial sends on sockets that do not block: a message that is sent is taken as
  whole.
- Remotes that break the protocol, in `Wire`: its subject is how a stream is cut.
- Torrent files with an entry that has a length but no path, in `FileSaver`.
- In `Window` the creation of a torrent and the messages of the status bar.

## Plan

Done: the core (`Swarm`, `Session`), then `FileSaver`, `Trackers`, `Bencode`,
`TorrentCreator` and `Window`; then the parts of a message (`Wire`), the sections of a
lock (`EntryLocks`), the port (`Listening`) and the composition of creation and files
(`CreateAndSeed`); proofs for all of these but `Listening`, whose run shows a violation.
What is left:

1. A module that composes `Session` with the files of its torrents: two torrents
   with the same directory write the same files.
2. `Wire` with the sending side: what `send` takes of a message while the remote
   does not read.

## How to run

    tlc -workers 2 -config swarm_shared.cfg MCSwarm     # a run of the table above
    tlapm SwarmProofs.tla                               # the proofs of a module

`MCSwarm`, `MCSession`, `MCWindow` and `MCBencode` have the values for the runs whose
names begin with `swarm`, `session`, `window` and `bencode`. The others run on the
module itself: `wire` on `Wire`, `port` on `Listening`, `locks` on `EntryLocks`, `files`
on `CreateAndSeed`, `trackers` on `Trackers`.
