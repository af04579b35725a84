------------------------------- MODULE Session -------------------------------
(***************************************************************************)
(* The list of torrents of rgTorrent-c/torrent_session.c and the download  *)
(* thread of each of them, from ts_add_torrent to the end of the thread.   *)
(*                                                                         *)
(* The window's thread makes every ts_ call, one after the other; it holds *)
(* the lock of the session while it waits for a thread to end.  A download *)
(* thread keeps a pointer into the array of entries, the one at the index  *)
(* it was created with.  What a thread does between two of its accesses to *)
(* the entry is one action.  The swarm is abstracted to what it does to    *)
(* the entry: pieces complete, and the loop may end (module Swarm has the  *)
(* rest).                                                                  *)
(***************************************************************************)
EXTENDS Integers

CONSTANTS
    MaxTorrents,  \* TS_MAX_TORRENTS, the length of the array
    MaxAdded,     \* bound: how many torrents are added in all
    PieceCounts,  \* the numbers of pieces that torrent files may describe
    PollMayFail   \* whether poll may return -1 in a swarm

ASSUME SessionAssumption ==
    /\ MaxTorrents \in Nat
    /\ MaxAdded \in Nat
    /\ PieceCounts \subseteq Nat \ {0}
    /\ PollMayFail \in BOOLEAN

Index      == 0 .. MaxTorrents - 1
Ids        == 1 .. MaxAdded     \* e->id; a thread goes by the id it was created for
NoId       == 0                 \* what calloc leaves in an entry
NoMetainfo == 0                 \* root == NULL, or no usable info dictionary
Nobody     == -1                \* no entry is being removed

VARIABLES
    count,            \* s->count
    next_id,          \* s->next_id
    joining,          \* the index whose thread ts_remove_torrent waits for
    id,               \* entries[i].id
    status,           \* entries[i].status
    seeding,          \* entries[i].seeding
    total_pieces,     \* entries[i].total_pieces
    pieces_completed, \* entries[i].pieces_completed
    thread,           \* entries[i].thread
    entry_index,      \* entry_index[t]: the index that e of thread t points to
    metainfo,         \* metainfo[t]: the number of pieces in root, or NoMetainfo
    pc,               \* pc[t]: where thread t is
    displaced         \* history: the threads whose entry was moved while they ran

entries == <<id, status, seeding, total_pieces, pieces_completed, thread>>
threads == <<entry_index, metainfo, pc>>
vars    == <<count, next_id, joining, entries, threads, displaced>>

Listed == {i \in Index : i < count}
Live   == {t \in Ids : pc[t] \notin {"unborn", "finished"}}

------------------------------------------------------------------------------
\* ts_create: the memory is zeroed, and TS_STATUS_VERIFYING is 0.
Init ==
    /\ count = 0
    /\ next_id = 1
    /\ joining = Nobody
    /\ id = [i \in Index |-> NoId]
    /\ status = [i \in Index |-> "VERIFYING"]
    /\ seeding = [i \in Index |-> FALSE]
    /\ total_pieces = [i \in Index |-> 0]
    /\ pieces_completed = [i \in Index |-> 0]
    /\ thread = [i \in Index |-> NoId]
    /\ entry_index = [t \in Ids |-> 0]
    /\ metainfo = [t \in Ids |-> NoMetainfo]
    /\ pc = [t \in Ids |-> "unborn"]
    /\ displaced = {}

------------------------------------------------------------------------------
(* The window's thread *)

\* Mutant: the id is made from the number of torrents.
NewIdOfCount == count + 1

NewId == next_id

\* The entry at the end of the list is cleared and a thread is started on it,
\* whatever the file holds.  With a full list the call does nothing.
ts_add_torrent(pieces) ==
    /\ joining = Nobody
    /\ count < MaxTorrents
    /\ next_id <= MaxAdded
    /\ count' = count + 1
    /\ next_id' = next_id + 1
    /\ id' = [id EXCEPT ![count] = NewId]
    /\ status' = [status EXCEPT ![count] = "VERIFYING"]
    /\ seeding' = [seeding EXCEPT ![count] = FALSE]
    /\ total_pieces' = [total_pieces EXCEPT ![count] = 0]
    /\ pieces_completed' = [pieces_completed EXCEPT ![count] = 0]
    /\ thread' = [thread EXCEPT ![count] = next_id]
    /\ entry_index' = [entry_index EXCEPT ![next_id] = count]
    /\ metainfo' = [metainfo EXCEPT ![next_id] = pieces]
    /\ pc' = [pc EXCEPT ![next_id] = "parse"]
    /\ UNCHANGED <<joining, displaced>>

\* ts_remove_torrent finds the entry and waits for its thread, holding the lock.
Join(i) ==
    /\ joining = Nobody
    /\ joining' = i
    /\ UNCHANGED <<count, next_id, entries, threads, displaced>>

\* Mutant: the thread need not have ended.
JoinedTooSoon == joining # Nobody

Joined == joining # Nobody /\ pc[thread[joining]] = "finished"

\* Mutant: the entry after the removed one is lost.
MovedTooFar(field) ==
    [k \in Index |-> IF joining <= k /\ k < count - 2 THEN field[k + 2] ELSE field[k]]

\* memmove: the entries that follow take one step to the front.
Moved(field) ==
    [k \in Index |-> IF joining <= k /\ k < count - 1 THEN field[k + 1] ELSE field[k]]

\* The threads that run of the entries behind the one that is removed.
RunningBehind == {thread[k] : k \in {j \in Listed : j > joining}} \cap Live

\* The thread has ended, and its entry is taken out of the array.  The other
\* threads keep the pointers that they have.
Removed ==
    /\ Joined
    /\ joining' = Nobody
    /\ count' = count - 1
    /\ id' = Moved(id)
    /\ status' = Moved(status)
    /\ seeding' = Moved(seeding)
    /\ total_pieces' = Moved(total_pieces)
    /\ pieces_completed' = Moved(pieces_completed)
    /\ thread' = Moved(thread)
    /\ displaced' = displaced \cup RunningBehind
    /\ UNCHANGED <<next_id, threads>>

ts_pause_torrent(i) ==
    /\ joining = Nobody
    /\ status[i] \in {"DOWNLOADING", "SEEDING", "VERIFYING"}
    /\ status' = [status EXCEPT ![i] = "PAUSED"]
    /\ UNCHANGED <<count, next_id, joining, id, seeding, total_pieces, pieces_completed,
                   thread, threads, displaced>>

\* The two numbers of pieces are equal, too, as long as the thread has not
\* set them.
ts_resume_torrent(i) ==
    /\ joining = Nobody
    /\ status[i] = "PAUSED"
    /\ status' = [status EXCEPT ![i] = IF pieces_completed[i] = total_pieces[i]
                                       THEN "SEEDING" ELSE "DOWNLOADING"]
    /\ UNCHANGED <<count, next_id, joining, id, seeding, total_pieces, pieces_completed,
                   thread, threads, displaced>>

Window ==
    \/ \E pieces \in PieceCounts \cup {NoMetainfo} : ts_add_torrent(pieces)
    \/ \E i \in Listed : Join(i) \/ ts_pause_torrent(i) \/ ts_resume_torrent(i)
    \/ Removed

------------------------------------------------------------------------------
(* A download thread *)

Step(t, from, to) ==
    /\ pc[t] = from
    /\ pc' = [pc EXCEPT ![t] = to]
    /\ UNCHANGED <<count, next_id, joining, id, total_pieces, thread, entry_index, metainfo,
                   displaced>>

\* Something that the thread cannot do without is missing, where it would have
\* gone on with to: the thread ends, paused or not.
Fail(t, from, to) ==
    /\ Step(t, from, "finished")
    /\ status' = [status EXCEPT ![entry_index[t]] = "ERROR"]
    /\ UNCHANGED <<seeding, pieces_completed>>

\* The info dictionary is looked at.
Unusable(t) == metainfo[t] = NoMetainfo /\ Fail(t, "parse", "reopen")

Parsed(t) ==
    /\ metainfo[t] # NoMetainfo
    /\ pc[t] = "parse"
    /\ pc' = [pc EXCEPT ![t] = "reopen"]
    /\ total_pieces' = [total_pieces EXCEPT ![entry_index[t]] = metainfo[t]]
    /\ pieces_completed' = [pieces_completed EXCEPT ![entry_index[t]] = 0]
    /\ UNCHANGED <<count, next_id, joining, id, status, seeding, thread, entry_index, metainfo,
                   displaced>>

\* The torrent file is opened again for the info hash; every tracker is asked
\* and waited for; their answers are noted in the entry; the target files are
\* worked out.  Each may fail, but for the note.
Prepare(t) ==
    \E step \in {<<"reopen", "trackers">>, <<"trackers", "found">>,
                 <<"found", "files">>, <<"files", "verify">>} :
        \/ step[1] # "found" /\ Fail(t, step[1], step[2])
        \/ Step(t, step[1], step[2]) /\ UNCHANGED <<status, seeding, pieces_completed>>

\* Mutant: only a status that nobody has touched is replaced.
VerifiedStatusOfVerifying(t, recovered) ==
    IF status[entry_index[t]] # "VERIFYING" THEN status[entry_index[t]]
    ELSE IF recovered = total_pieces[entry_index[t]] THEN "SEEDING" ELSE "DOWNLOADING"

\* Mutant: a pause is not looked at.
VerifiedStatusInAnyCase(t, recovered) ==
    IF recovered = total_pieces[entry_index[t]] THEN "SEEDING" ELSE "DOWNLOADING"

\* The status after the verification: a pause is kept.
VerifiedStatus(t, recovered) ==
    IF status[entry_index[t]] = "PAUSED" THEN "PAUSED"
    ELSE IF recovered = total_pieces[entry_index[t]] THEN "SEEDING" ELSE "DOWNLOADING"

\* Every piece is read from disk and its hash compared.
Verified(t, recovered) ==
    /\ Step(t, "verify", "swarm")
    /\ pieces_completed' = [pieces_completed EXCEPT ![entry_index[t]] = recovered]
    /\ status' = [status EXCEPT ![entry_index[t]] = VerifiedStatus(t, recovered)]
    /\ seeding' = [seeding EXCEPT ![entry_index[t]] =
                     @ \/ VerifiedStatus(t, recovered) = "SEEDING"]

\* A piece completes in the swarm, as long as one is missing.
PieceDone(t) ==
    /\ Step(t, "swarm", "swarm")
    /\ pieces_completed[entry_index[t]] < total_pieces[entry_index[t]]
    /\ pieces_completed' = [pieces_completed EXCEPT ![entry_index[t]] = @ + 1]
    /\ UNCHANGED <<status, seeding>>

\* The loop of the swarm ends.
SwarmEnds(t) ==
    /\ PollMayFail \/ status[entry_index[t]] = "ERROR"
    /\ Step(t, "swarm", "epilogue")
    /\ UNCHANGED <<status, seeding, pieces_completed>>

\* A torrent is shown as seeding if it is complete.
SeedingIfComplete(t) ==
    /\ IF pieces_completed[entry_index[t]] = total_pieces[entry_index[t]]
       THEN /\ status' = [status EXCEPT ![entry_index[t]] = "SEEDING"]
            /\ seeding' = [seeding EXCEPT ![entry_index[t]] = TRUE]
       ELSE UNCHANGED <<status, seeding>>
    /\ UNCHANGED pieces_completed

\* After the swarm a complete torrent is seeding, unless it is paused.
Epilogue(t) ==
    /\ Step(t, "epilogue", "end")
    /\ IF status[entry_index[t]] = "PAUSED" THEN UNCHANGED <<status, seeding, pieces_completed>>
       ELSE SeedingIfComplete(t)

\* When the lists of files and peers are freed it is, paused or not.
End(t) == Step(t, "end", "finished") /\ SeedingIfComplete(t)

download_thread(t) ==
    \/ Unusable(t)
    \/ Parsed(t)
    \/ Prepare(t)
    \/ \E recovered \in 0 .. total_pieces[entry_index[t]] : Verified(t, recovered)
    \/ PieceDone(t)
    \/ SwarmEnds(t)
    \/ Epilogue(t)
    \/ End(t)

Next == Window \/ \E t \in Ids : download_thread(t)

Spec == Init /\ [][Next]_vars

\* Threads run, and a call of the window that can return does.  This grants a
\* thread that its search for peers ends, which the code does not ensure: what
\* fails all the same does not fail for want of an answer.
FairSpec ==
    /\ Spec
    /\ \A t \in Ids : WF_vars(download_thread(t))
    /\ WF_vars(Removed)

------------------------------------------------------------------------------
(* Properties *)

\* The variables keep their types.
TypeOK ==
    /\ count \in 0 .. MaxTorrents
    /\ next_id \in 1 .. MaxAdded + 1
    /\ joining \in Index \cup {Nobody}
    /\ id \in [Index -> Ids \cup {NoId}]
    /\ status \in [Index -> {"VERIFYING", "DOWNLOADING", "SEEDING", "PAUSED", "ERROR"}]
    /\ seeding \in [Index -> BOOLEAN]
    /\ total_pieces \in [Index -> Nat]
    /\ pieces_completed \in [Index -> Nat]
    /\ thread \in [Index -> Ids \cup {NoId}]
    /\ entry_index \in [Ids -> Nat]
    /\ metainfo \in [Ids -> PieceCounts \cup {NoMetainfo}]
    /\ pc \in [Ids -> {"unborn", "parse", "reopen", "trackers", "found", "files", "verify",
                       "swarm", "epilogue", "end", "finished"}]
    /\ displaced \subseteq Ids

\* The ids of the list ascend, so no two torrents share one and the window's
\* selection never comes to mean another torrent; and every entry keeps the
\* handle of its own thread, so a removal waits for the right one.
ListedInOrder ==
    /\ \A i, j \in Listed : i < j => id[i] < id[j]
    /\ \A i \in Listed : id[i] < next_id /\ thread[i] = id[i]

WorksOnOwn(t) == entry_index[t] < count /\ id[entry_index[t]] = t

\* A thread that runs works on the entry of its own torrent.
OwnEntry == \A t \in Live : WorksOnOwn(t)

\* It does, whatever is added and removed, as long as no torrent in front of its
\* own is removed: only such a removal makes it lose its entry, and no thread
\* ever works on the entry of another torrent, or on a free one, otherwise.
OwnUntilMoved == \A t \in Live \ displaced : WorksOnOwn(t)

\* What start_swarm is called with, and what its loop relies on: a torrent in
\* the swarm is downloading, seeding or paused, and is shown or flagged as
\* seeding only if it is complete, whatever the user did while it was being
\* verified.
VerifiedBeforeSwarm ==
    \A t \in Ids : pc[t] \in {"swarm", "epilogue", "end"} =>
        LET i == entry_index[t]
        IN  /\ status[i] \in {"DOWNLOADING", "SEEDING", "PAUSED"}
            /\ (status[i] = "SEEDING" \/ seeding[i]) => pieces_completed[i] = total_pieces[i]
            /\ pieces_completed[i] <= total_pieces[i]

\* The thread of a torrent in error has ended, so that the torrent can be
\* removed without a wait.
FailedIsStopped ==
    \A i \in Listed : status[i] = "ERROR" => pc[thread[i]] = "finished"

\* The status of a torrent agrees with where its thread is, until some thread is
\* displaced, which may then write the status of any torrent.
StatusAgrees == displaced = {} => VerifiedBeforeSwarm /\ FailedIsStopped

\* A paused torrent stays paused until the user resumes it, something fails, or
\* its swarm ends with every piece done: in particular a pause during the
\* verification outlives it, and so does one of a torrent whose entry moves.  A
\* thread that was displaced may end the pause of another torrent.
PauseKept ==
    [][\A i \in Listed, k \in Listed' :
          (displaced = {} /\ id'[k] = id[i] /\ status[i] = "PAUSED" /\ status'[k] # "PAUSED")
            => \/ ts_resume_torrent(i)
               \/ status'[k] = "ERROR"
               \/ status'[k] = "SEEDING" /\ End(thread[i])]_vars

\* The removal that the window asked for is done, and its call returns.
RemovalReturns == joining # Nobody ~> joining = Nobody

List == INSTANCE TorrentList WITH
    list <- [k \in 1 .. count |-> id[k - 1]],
    last <- next_id - 1

\* The array of entries is a list as TorrentList promises.
ImplementsList == List!Spec

==============================================================================
