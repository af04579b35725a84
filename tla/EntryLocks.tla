----------------------------- MODULE EntryLocks -----------------------------
(***************************************************************************)
(* One entry of the session and the two threads that share it: the         *)
(* download thread of torrent_session.c and swarm.c, and the thread of the *)
(* window, which pauses and resumes the torrent and once a second reads    *)
(* its row.  A section under e->lock is taken apart into its writes; the   *)
(* row is read field by field, most of them without the lock.              *)
(*                                                                         *)
(* Session takes a section for one step.  This module shows that it may.   *)
(***************************************************************************)
EXTENDS Integers, Sequences, SequencesExt

CONSTANTS
    Pieces,      \* the number of pieces of the torrent
    PollMayFail  \* whether poll may return -1 in the swarm

ASSUME EntryAssumption ==
    /\ Pieces \in Nat \ {0}
    /\ PollMayFail \in BOOLEAN

NoMetainfo == 0
Users == {"thread", "window"}

VARIABLES
    listed,   \* whether the torrent has been added, and not been removed
    metainfo, \* the number of pieces in root, or NoMetainfo
    entry,    \* the memory of the entry
    lock,     \* those who are in a section under e->lock: one at most
    writes,   \* writes[u]: what user u has still to write before it leaves its section
    pc,       \* where the download thread is, or will be when it leaves its section
    call,     \* what the window is about: a call, or the field of the row it reads next
    row       \* the row of the torrent, as poll puts it together

vars == <<listed, metainfo, entry, lock, writes, pc, call, row>>

Cleared == [status |-> "VERIFYING", seeding |-> FALSE, total_pieces |-> 0,
            pieces_completed |-> 0, progress |-> 0]

Init ==
    /\ listed = FALSE
    /\ metainfo = NoMetainfo
    /\ entry = Cleared
    /\ lock = {}
    /\ writes = [u \in Users |-> <<>>]
    /\ pc = "unborn"
    /\ call = "none"
    /\ row = [status |-> "VERIFYING", progress |-> 0, verified |-> FALSE]

------------------------------------------------------------------------------
(* Sections under e->lock *)

\* Mutant: the window does not take the lock.
FreeForWindow(u) == u \notin lock /\ (u = "window" \/ lock = {})

Free(u) == lock = {}

\* User u takes the lock, and looks at the entry to see what it has to write.
Section(u, todo) ==
    /\ Free(u)
    /\ lock' = lock \cup {u}
    /\ writes' = [writes EXCEPT ![u] = todo]
    /\ UNCHANGED <<listed, metainfo, entry, row>>

Write(u) ==
    /\ writes[u] # <<>>
    /\ entry' = [entry EXCEPT ![writes[u][1][1]] = writes[u][1][2]]
    /\ writes' = [writes EXCEPT ![u] = Tail(@)]
    /\ UNCHANGED <<listed, metainfo, lock, pc, call, row>>

\* Mutant: a return without the unlock, when something has failed.
UnlockUnlessFailed(u) == IF u = "thread" /\ pc = "finished" THEN lock ELSE lock \ {u}

Unlocked(u) == lock \ {u}

Leave(u) ==
    /\ u \in lock
    /\ writes[u] = <<>>
    /\ lock' = Unlocked(u)
    /\ call' = IF u = "window" THEN "none" ELSE call
    /\ UNCHANGED <<listed, metainfo, entry, writes, pc, row>>

------------------------------------------------------------------------------
(* The download thread *)

Step(from, to) ==
    /\ pc = from
    /\ "thread" \notin lock
    /\ pc' = to
    /\ UNCHANGED call

\* Mutant: the thread returns without a word.
NoError == <<>>

Error == << <<"status", "ERROR">> >>

Fail(from) == Step(from, "finished") /\ Section("thread", Error)

Unusable == metainfo = NoMetainfo /\ Fail("parse")

Parsed ==
    /\ metainfo # NoMetainfo
    /\ Step("parse", "reopen")
    /\ Section("thread", << <<"total_pieces", metainfo>>, <<"pieces_completed", 0>> >>)

\* The first answer with peers is noted in the entry, in fields that nobody here
\* knows of; the other trackers are still waited for then.
Prepare ==
    \E step \in {<<"reopen", "trackers">>, <<"trackers", "found">>,
                 <<"found", "files">>, <<"files", "verify">>} :
        \/ step[1] # "found" /\ Fail(step[1])
        \/ /\ Step(step[1], step[2])
           /\ IF step[2] = "found" THEN Section("thread", <<>>)
              ELSE UNCHANGED <<listed, metainfo, entry, lock, writes, row>>

\* The status after the verification; a pause is left alone.
VerifiedStatus(recovered) ==
    IF entry.status = "PAUSED" THEN <<>>
    ELSE IF recovered = entry.total_pieces THEN << <<"status", "SEEDING">>, <<"seeding", TRUE>> >>
    ELSE << <<"status", "DOWNLOADING">> >>

Verified(recovered) ==
    /\ Step("verify", "swarm")
    /\ Section("thread", << <<"pieces_completed", recovered>>, <<"progress", recovered>> >>
                         \o VerifiedStatus(recovered))

\* A piece completes.
PieceDone ==
    /\ entry.pieces_completed < entry.total_pieces
    /\ Step("swarm", "swarm")
    /\ Section("thread", << <<"pieces_completed", entry.pieces_completed + 1>>,
                            <<"progress", entry.pieces_completed + 1>> >>)

\* The sections of the swarm that write nothing this module knows of: the status
\* is looked at in every round, pieces are claimed and given back.
Look == Step("swarm", "swarm") /\ Section("thread", <<>>)

SwarmEnds ==
    /\ PollMayFail
    /\ Step("swarm", "epilogue")
    /\ UNCHANGED <<listed, metainfo, entry, lock, writes, row>>

SeedingIfComplete ==
    IF entry.pieces_completed = entry.total_pieces
    THEN << <<"status", "SEEDING">>, <<"seeding", TRUE>>, <<"progress", entry.total_pieces>> >>
    ELSE <<>>

Epilogue ==
    /\ Step("epilogue", "end")
    /\ Section("thread", IF entry.status = "PAUSED" THEN <<>> ELSE SeedingIfComplete)

End == Step("end", "finished") /\ Section("thread", SeedingIfComplete)

download_thread ==
    \/ Unusable \/ Parsed \/ Prepare
    \/ \E recovered \in 0 .. entry.total_pieces : Verified(recovered)
    \/ PieceDone \/ Look \/ SwarmEnds
    \/ Epilogue \/ End
    \/ Write("thread") \/ Leave("thread")

------------------------------------------------------------------------------
(* The thread of the window.  It alone takes s->lock, which therefore never *)
(* makes anybody wait.                                                      *)

ts_add_torrent(pieces) ==
    /\ pc = "unborn"
    /\ listed' = TRUE
    /\ metainfo' = pieces
    /\ entry' = Cleared
    /\ pc' = "parse"
    /\ UNCHANGED <<lock, writes, call, row>>

\* The user asks for something, or the timer asks for the rows.
Ask(c) ==
    /\ listed
    /\ call = "none"
    /\ call' = c
    /\ UNCHANGED <<listed, metainfo, entry, lock, writes, pc, row>>

ts_pause_torrent ==
    /\ call = "pause"
    /\ Section("window", IF entry.status \in {"DOWNLOADING", "SEEDING", "VERIFYING"}
                         THEN << <<"status", "PAUSED">> >> ELSE <<>>)
    /\ UNCHANGED <<pc, call>>

ts_resume_torrent ==
    /\ call = "resume"
    /\ Section("window", IF entry.status # "PAUSED" THEN <<>>
                         ELSE << <<"status", IF entry.pieces_completed = entry.total_pieces
                                             THEN "SEEDING" ELSE "DOWNLOADING">> >>)
    /\ UNCHANGED <<pc, call>>

\* ts_remove_torrent returns when the thread has.
Removed ==
    /\ call = "remove"
    /\ pc = "finished" /\ "thread" \notin lock
    /\ listed' = FALSE
    /\ call' = "none"
    /\ UNCHANGED <<metainfo, entry, lock, writes, pc, row>>

\* Mutant: the progress is read before the status.
ProgressFirst == <<"progress", "status">>

\* The order in which poll reads the fields that are followed here.
Fields == <<"status", "progress">>

\* For the property: the pieces were counted when the reading of the row began.
Counted == pc \in {"swarm", "epilogue", "end"} /\ "thread" \notin lock

\* The progress alone is read under the lock.
Read(k) ==
    /\ call = Fields[k]
    /\ call = "progress" => lock = {}
    /\ row' = [row EXCEPT ![Fields[k]] = entry[Fields[k]],
                          !.verified = IF k = 1 THEN Counted ELSE @]
    /\ call' = IF k < Len(Fields) THEN Fields[k + 1] ELSE "none"
    /\ UNCHANGED <<listed, metainfo, entry, lock, writes, pc>>

\* What the window's thread does by itself once it has been asked.
GoesOn ==
    \/ ts_pause_torrent \/ ts_resume_torrent
    \/ Removed
    \/ \E k \in DOMAIN Fields : Read(k)
    \/ Write("window") \/ Leave("window")

Window ==
    \/ \E pieces \in {Pieces, NoMetainfo} : ts_add_torrent(pieces)
    \/ \E c \in {"pause", "resume", "remove", Fields[1]} : Ask(c)
    \/ GoesOn

Next == download_thread \/ Window

Spec == Init /\ [][Next]_vars

\* The thread waits for the trackers, outside of every section.
Searching == pc \in {"trackers", "found"} /\ "thread" \notin lock

\* Both threads run, and neither waits for ever for a lock that the other gives
\* up again and again: the window calls a few times a second, and the swarm
\* sleeps in poll or usleep in every round.  That the trackers are done with one
\* day is not granted: the parser may never return from what one of them sends.
FairSpec == Spec /\ SF_vars(~Searching /\ download_thread) /\ SF_vars(GoesOn)

------------------------------------------------------------------------------
(* Properties *)

\* The variables keep their types; the lock has one holder at most, and only
\* its holder has something to write.
TypeOK ==
    /\ listed \in BOOLEAN
    /\ metainfo \in {NoMetainfo, Pieces}
    /\ entry \in [status : {"VERIFYING", "DOWNLOADING", "SEEDING", "PAUSED", "ERROR"},
                  seeding : BOOLEAN, total_pieces : 0 .. Pieces,
                  pieces_completed : 0 .. Pieces, progress : 0 .. Pieces]
    /\ lock \in {{}, {"thread"}, {"window"}}
    /\ \A u \in Users \ lock : writes[u] = <<>>
    /\ pc \in {"unborn", "parse", "reopen", "trackers", "found", "files", "verify", "swarm",
               "epilogue", "end", "finished"}
    /\ call \in {"none", "pause", "resume", "remove", "status", "progress"}

\* A row that says "Seeding" says 100 % too, if it was begun after the pieces had
\* been counted: status and progress are read one after the other while the
\* thread counts on, and between them a piece may complete.
RowTruthful ==
    (call = "none" /\ row.verified /\ row.status = "SEEDING") => row.progress = entry.total_pieces

\* The torrent does not stay in verification for ever, whatever fails, unless
\* the wait for its trackers never ends: every other way out of the preparation
\* tells the entry.
VerificationEnds ==
    (listed /\ entry.status = "VERIFYING")
        ~> \/ ~(listed /\ entry.status = "VERIFYING")
           \/ []Searching

\* A pause, a resume and the reading of a row return, so that the window does
\* not hang: no path of the thread keeps the lock.
CallsReturn == call \in {"pause", "resume", "status", "progress"} ~> call = "none"

\* What is still to be written to a field.
Pending(field) ==
    {w \in ToSet(writes["thread"]) \cup ToSet(writes["window"]) : w[1] = field}

\* A field as it will be when the section under way is left; a section writes
\* no field twice.
Settled(field) ==
    IF Pending(field) = {} THEN entry[field] ELSE (CHOOSE w \in Pending(field) : TRUE)[2]

Coarse == INSTANCE Session WITH
    MaxTorrents <- 1,
    MaxAdded <- 1,
    PieceCounts <- {Pieces},
    count <- IF listed THEN 1 ELSE 0,
    next_id <- IF pc = "unborn" THEN 1 ELSE 2,
    joining <- IF call = "remove" THEN 0 ELSE -1,
    id <- [i \in {0} |-> IF pc = "unborn" THEN 0 ELSE 1],
    status <- [i \in {0} |-> Settled("status")],
    seeding <- [i \in {0} |-> Settled("seeding")],
    total_pieces <- [i \in {0} |-> Settled("total_pieces")],
    pieces_completed <- [i \in {0} |-> Settled("pieces_completed")],
    thread <- [i \in {0} |-> IF pc = "unborn" THEN 0 ELSE 1],
    entry_index <- [t \in {1} |-> 0],
    metainfo <- [t \in {1} |-> metainfo],
    pc <- [t \in {1} |-> pc],
    displaced <- {}

\* What the two threads do to an entry is what Session says, section by section:
\* no section sees a part of another.
ImplementsSession == Coarse!Spec

==============================================================================
