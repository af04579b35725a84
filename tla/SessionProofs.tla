---------------------------- MODULE SessionProofs ----------------------------
(***************************************************************************)
(* Theorems of Session, for any number of torrents.                        *)
(*                                                                         *)
(* Three inductive invariants.  ListInv relates the list, the ids given    *)
(* out and the handles of the threads.  OwnUntilMoved, which needs         *)
(* ListInv, says that a thread and its entry belong together until the     *)
(* entry is moved.  OwnInv is what everything rests on that a thread reads *)
(* back from the entry it wrote; it holds until some thread is displaced,  *)
(* since that one may then write into any entry.                           *)
(***************************************************************************)
EXTENDS Session, TLAPS, SequenceTheorems

\* The ids that were given out have a thread, with an index into the array.
BornInv ==
    /\ \A t \in Ids : pc[t] = "unborn" <=> t >= next_id
    /\ \A t \in Ids : pc[t] # "unborn" => entry_index[t] \in Index

JoiningInv == joining # Nobody => joining \in Listed

NumberedInv == \A i \in Listed : id[i] # NoId

ListInv == TypeOK /\ BornInv /\ JoiningInv /\ NumberedInv /\ ListedInOrder

------------------------------------------------------------------------------
(* The list *)

\* The initial state satisfies ListInv.
LEMMA InitListInv == Init => ListInv
<1>. SUFFICES ASSUME Init PROVE ListInv
  OBVIOUS
<1>. USE SessionAssumption DEF Init
<1>1. TypeOK
  BY DEF TypeOK, Index, Ids
<1>2. BornInv
  BY DEF BornInv, Ids
<1>3. JoiningInv /\ NumberedInv /\ ListedInOrder
  BY DEF JoiningInv, NumberedInv, ListedInOrder, Listed, Index
<1>. QED
  BY <1>1, <1>2, <1>3 DEF ListInv

\* An addition preserves it.
LEMMA AddListInv ==
    ASSUME ListInv, NEW pieces \in PieceCounts \cup {NoMetainfo}, ts_add_torrent(pieces)
    PROVE  ListInv'
<1>. USE SessionAssumption DEF ListInv, ts_add_torrent
<1>1. TypeOK'
  <2>1. displaced' = displaced
    OBVIOUS
  <2>2. /\ count \in Index /\ next_id \in Ids /\ count' \in 0 .. MaxTorrents
        /\ next_id' \in 1 .. MaxAdded + 1
    BY DEF TypeOK, Index, Ids
  <2>. QED
    BY <2>1, <2>2 DEF TypeOK, NewId
<1>2. BornInv'
  BY DEF TypeOK, BornInv, Index, Ids
<1>3. JoiningInv'
  BY DEF JoiningInv, Listed, Index, TypeOK
<1>4. ListedInOrder'
  <2>1. \A i \in Listed' : IF i = count THEN id'[i] = next_id /\ thread'[i] = next_id
                           ELSE i \in Listed /\ id'[i] = id[i] /\ thread'[i] = thread[i]
    BY DEF TypeOK, Listed, Index, NewId
  <2>2. \A i, j \in Listed' : i < j => i # count
    BY DEF TypeOK, Listed, Index
  <2>3. \A i \in Listed : id[i] \in Int
    BY DEF TypeOK, Listed, Index, Ids, NoId
  <2>. QED
    BY <2>1, <2>2, <2>3 DEF ListedInOrder, TypeOK
<1>5. NumberedInv'
  BY DEF NumberedInv, TypeOK, Listed, Index, NewId, NoId
<1>. QED
  BY <1>1, <1>2, <1>3, <1>4, <1>5

\* memmove takes each later entry, and no other, one step to the front.
LEMMA MovedEntries ==
    ASSUME TypeOK, NEW S, NEW field \in [Index -> S], joining \in Listed
    PROVE  /\ Moved(field) \in [Index -> S]
           /\ \A k \in Index : k < count - 1 =>
                 Moved(field)[k] = IF k < joining THEN field[k] ELSE field[k + 1]
<1>1. count \in 0 .. MaxTorrents /\ joining \in Int /\ MaxTorrents \in Nat
  BY SessionAssumption DEF TypeOK, Listed, Index
<1>2. ASSUME NEW k \in Index, k < count - 1
      PROVE  k + 1 \in Index
  BY <1>1, <1>2 DEF Index
<1>3. ASSUME NEW k \in Index
      PROVE  (IF joining <= k /\ k < count - 1 THEN field[k + 1] ELSE field[k]) \in S
  BY <1>2
<1>4. Moved(field) \in [Index -> S]
  BY <1>3 DEF Moved
<1>5. ASSUME NEW k \in Index, k < count - 1
      PROVE  Moved(field)[k] = IF k < joining THEN field[k] ELSE field[k + 1]
  BY <1>1, <1>5 DEF Moved, Index
<1>. QED
  BY <1>4, <1>5

\* The entries in front of the removed one stay where they are.
LEMMA MovedAway ==
    ASSUME Removed, NEW k \in Index, k < joining, joining \in Listed
    PROVE  id'[k] = id[k]
<1>1. k \in Int /\ joining \in Int
  BY DEF Index, Listed
<1>. QED
  BY <1>1 DEF Removed, Moved

\* A removal preserves it.
LEMMA RemovedListInv ==
    ASSUME ListInv, Removed
    PROVE  ListInv'
<1>. USE SessionAssumption DEF ListInv, Removed
<1>1. joining \in Listed /\ count \in Nat /\ count' = count - 1 /\ count > 0
  BY DEF JoiningInv, Joined, TypeOK, Listed, Index
<1>2. TypeOK'
  <2>1. /\ id' \in [Index -> Ids \cup {NoId}]
        /\ status' \in [Index -> {"VERIFYING", "DOWNLOADING", "SEEDING", "PAUSED", "ERROR"}]
        /\ seeding' \in [Index -> BOOLEAN]
        /\ total_pieces' \in [Index -> Nat]
        /\ pieces_completed' \in [Index -> Nat]
        /\ thread' \in [Index -> Ids \cup {NoId}]
    BY <1>1, MovedEntries DEF TypeOK
  <2>2. displaced' \subseteq Ids
    BY DEF TypeOK, RunningBehind, Live
  <2>3. /\ count' \in 0 .. MaxTorrents /\ joining' \in Index \cup {Nobody}
        /\ UNCHANGED <<next_id, entry_index, metainfo, pc>>
    BY <1>1 DEF TypeOK, threads
  <2>. QED
    BY <2>1, <2>2, <2>3 DEF TypeOK
<1>3. BornInv'
  BY DEF BornInv, threads
<1>4. JoiningInv'
  BY DEF JoiningInv
<1>5. ListedInOrder' /\ NumberedInv'
  <2>1. /\ id \in [Index -> Ids \cup {NoId}]
        /\ thread \in [Index -> Ids \cup {NoId}]
    BY DEF TypeOK
  <2>2. \A k \in Listed' : k \in Index /\ k < count - 1 /\ k \in Listed /\ k + 1 \in Listed
    BY <1>1 DEF Listed, Index, TypeOK
  <2>3. \A k \in Listed' :
           /\ id'[k] = IF k < joining THEN id[k] ELSE id[k + 1]
           /\ thread'[k] = IF k < joining THEN thread[k] ELSE thread[k + 1]
    BY <1>1, <2>1, <2>2, MovedEntries
  <2>. QED
    BY <1>1, <2>2, <2>3 DEF ListedInOrder, NumberedInv, Listed, Index
<1>. QED
  BY <1>2, <1>3, <1>4, <1>5

\* The variables that a step of a thread does not write, and the types of those
\* that it does.
LEMMA ThreadSteps ==
    ASSUME ListInv, NEW t \in Ids, download_thread(t)
    PROVE  /\ UNCHANGED <<count, next_id, joining, id, thread, entry_index, metainfo, displaced>>
           /\ pc[t] # "unborn" /\ entry_index[t] \in Index
           /\ \E to \in {"reopen", "trackers", "found", "files", "verify", "swarm",
                         "epilogue", "end", "finished"} : pc' = [pc EXCEPT ![t] = to]
           /\ TypeOK'
<1>. USE DEF ListInv
<1>1. pc[t] # "unborn" /\ entry_index[t] \in Index
  <2>1. pc[t] # "unborn"
    BY DEF download_thread, Unusable, Fail, Step, Parsed, Prepare, Verified, PieceDone, SwarmEnds,
           Epilogue, End
  <2>. QED
    BY <2>1 DEF BornInv
<1>2. ASSUME NEW from, NEW to, Fail(t, from, to)
      PROVE  /\ Step(t, from, "finished")
             /\ TypeOK'
  BY <1>1, <1>2 DEF Fail, Step, TypeOK
<1>3. CASE Unusable(t)
  BY <1>1, <1>2, <1>3 DEF Unusable, Step
<1>4. CASE Parsed(t)
  BY <1>1, <1>4, SessionAssumption DEF Parsed, TypeOK
<1>5. CASE Prepare(t)
  <2>1. PICK step \in {<<"reopen", "trackers">>, <<"trackers", "found">>,
                       <<"found", "files">>, <<"files", "verify">>} :
           \/ Fail(t, step[1], step[2])
           \/ Step(t, step[1], step[2]) /\ UNCHANGED <<status, seeding, pieces_completed>>
    BY <1>5 DEF Prepare
  <2>2. CASE Fail(t, step[1], step[2])
    BY <1>1, <1>2, <2>2 DEF Step
  <2>3. CASE Step(t, step[1], step[2]) /\ UNCHANGED <<status, seeding, pieces_completed>>
    <3>1. step[2] \in {"trackers", "found", "files", "verify"}
      OBVIOUS
    <3>. QED
      BY <1>1, <2>3, <3>1 DEF Step, TypeOK
  <2>. QED
    BY <2>1, <2>2, <2>3
<1>6. ASSUME NEW recovered \in 0 .. total_pieces[entry_index[t]], Verified(t, recovered)
      PROVE  /\ Step(t, "verify", "swarm")
             /\ TypeOK'
  <2>1. recovered \in Nat
    BY <1>1 DEF TypeOK
  <2>2. VerifiedStatus(t, recovered) \in {"PAUSED", "SEEDING", "DOWNLOADING"}
    BY DEF VerifiedStatus
  <2>3. seeding' \in [Index -> BOOLEAN]
    BY <1>1, <1>6 DEF Verified, TypeOK
  <2>. QED
    BY <1>1, <1>6, <2>1, <2>2, <2>3 DEF Verified, Step, TypeOK
<1>7. CASE PieceDone(t)
  BY <1>1, <1>7 DEF PieceDone, Step, TypeOK
<1>8. CASE SwarmEnds(t)
  BY <1>1, <1>8 DEF SwarmEnds, Step, TypeOK
<1>9. CASE Epilogue(t)
  BY <1>1, <1>9 DEF Epilogue, SeedingIfComplete, Step, TypeOK
<1>10. CASE End(t)
  BY <1>1, <1>10 DEF End, SeedingIfComplete, Step, TypeOK
<1>. QED
  BY <1>1, <1>3, <1>4, <1>5, <1>6, <1>7, <1>8, <1>9, <1>10 DEF download_thread, Step

\* ListInv is inductive.
LEMMA NextListInv == ListInv /\ [Next]_vars => ListInv'
<1>. SUFFICES ASSUME ListInv, [Next]_vars PROVE ListInv'
  OBVIOUS
<1>1. ASSUME NEW pieces \in PieceCounts \cup {NoMetainfo}, ts_add_torrent(pieces) PROVE ListInv'
  BY <1>1, AddListInv
<1>2. CASE Removed
  BY <1>2, RemovedListInv
<1>3. ASSUME NEW i \in Listed, Join(i) PROVE ListInv'
  BY <1>3 DEF Join, ListInv, TypeOK, BornInv, JoiningInv, NumberedInv, ListedInOrder, Listed, entries, threads
<1>4. ASSUME NEW i \in Listed, ts_pause_torrent(i) \/ ts_resume_torrent(i) PROVE ListInv'
  BY <1>4 DEF ts_pause_torrent, ts_resume_torrent, ListInv, TypeOK, BornInv, JoiningInv,
              NumberedInv, ListedInOrder, Listed, threads
<1>5. ASSUME NEW t \in Ids, download_thread(t) PROVE ListInv'
  BY <1>5, ThreadSteps DEF ListInv, TypeOK, BornInv, JoiningInv, NumberedInv, ListedInOrder, Listed
<1>6. CASE UNCHANGED vars
  BY <1>6 DEF vars, entries, threads, ListInv, TypeOK, BornInv, JoiningInv, NumberedInv, ListedInOrder, Listed
<1>. QED
  BY <1>1, <1>2, <1>3, <1>4, <1>5, <1>6 DEF Next, Window

\* What follows rests on ListInv: the entries, the ids and the threads of the
\* session agree in every reachable state.
THEOREM ListInductive == Spec => []ListInv
<1>1. ListInv /\ [Next]_vars => ListInv'
  BY NextListInv
<1>. QED
  BY <1>1, InitListInv, PTL DEF Spec

\* The variables of the session keep their types.
THEOREM TypeCorrect == Spec => []TypeOK
<1>1. ListInv => TypeOK
  BY DEF ListInv
<1>. QED
  BY <1>1, ListInductive, PTL

\* The ids of the list ascend and every entry has the handle of its own thread,
\* whatever torrents are added, removed and run.
THEOREM InOrder == Spec => []ListedInOrder
<1>1. ListInv => ListedInOrder
  BY DEF ListInv
<1>. QED
  BY <1>1, ListInductive, PTL

------------------------------------------------------------------------------
(* Threads and their entries *)

\* No step but the removal of a torrent in front of it parts a thread from its
\* entry.
LEMMA NextOwned == ListInv /\ OwnUntilMoved /\ [Next]_vars => OwnUntilMoved'
<1>. SUFFICES ASSUME ListInv, OwnUntilMoved, [Next]_vars, NEW t \in Live' \ displaced'
              PROVE  WorksOnOwn(t)'
  BY DEF OwnUntilMoved
<1>. DEFINE e == entry_index[t]
<1>1. t \in Ids /\ count \in Nat /\ next_id \in Nat
  BY SessionAssumption DEF Live, ListInv, TypeOK
<1>2. ASSUME NEW pieces \in PieceCounts \cup {NoMetainfo}, ts_add_torrent(pieces)
      PROVE  WorksOnOwn(t)'
  <2>1. /\ count' = count + 1 /\ count \in Index /\ displaced' = displaced
        /\ id' = [id EXCEPT ![count] = next_id]
        /\ entry_index' = [entry_index EXCEPT ![next_id] = count]
        /\ pc' = [pc EXCEPT ![next_id] = "parse"]
    BY <1>1, <1>2, SessionAssumption DEF ts_add_torrent, NewId, Index
  <2>2. CASE t = next_id
    BY <1>1, <2>1, <2>2 DEF WorksOnOwn, ListInv, TypeOK
  <2>3. CASE t # next_id
    <3>1. pc'[t] = pc[t] /\ entry_index'[t] = e
      BY <1>1, <2>1, <2>3 DEF ListInv, TypeOK
    <3>2. t \in Live \ displaced
      BY <1>1, <2>1, <3>1 DEF Live
    <3>3. e < count /\ id[e] = t /\ e \in Index
      BY <3>2 DEF OwnUntilMoved, WorksOnOwn, ListInv, BornInv, Live
    <3>. QED
      BY <1>1, <2>1, <3>1, <3>3 DEF WorksOnOwn, ListInv, TypeOK, Index
  <2>. QED
    BY <2>2, <2>3
<1>3. CASE Removed
  <2>1. /\ joining \in Listed /\ pc[thread[joining]] = "finished"
        /\ count' = count - 1 /\ pc' = pc /\ entry_index' = entry_index
        /\ displaced' = displaced \cup RunningBehind
    BY <1>3 DEF Removed, Joined, ListInv, JoiningInv, threads
  <2>2. t \in Live \ displaced /\ t \notin RunningBehind
    BY <2>1 DEF Live
  <2>3. e \in Listed /\ id[e] = t /\ thread[e] = t
    BY <2>2 DEF OwnUntilMoved, WorksOnOwn, ListInv, BornInv, ListedInOrder, Live, Listed
  <2>4. e # joining
    BY <2>1, <2>2, <2>3 DEF Live
  <2>5. ~(e > joining)
    BY <2>2, <2>3 DEF RunningBehind
  <2>6. e < joining /\ e < count' /\ e \in Index
    BY <1>1, <2>1, <2>3, <2>4, <2>5 DEF Listed, Index
  <2>7. id'[e] = id[e]
    BY <1>3, <2>1, <2>6, MovedAway
  <2>. QED
    BY <2>1, <2>3, <2>6, <2>7 DEF WorksOnOwn
<1>4. ASSUME NEW u \in Ids, download_thread(u)
      PROVE  WorksOnOwn(t)'
  <2>1. /\ UNCHANGED <<count, id, entry_index, displaced>>
        /\ t \in Live
    BY <1>1, <1>4, ThreadSteps DEF Live, ListInv, TypeOK, download_thread, Unusable, Fail, Step,
         Parsed, Prepare, Verified, PieceDone, SwarmEnds, Epilogue, End
  <2>. QED
    BY <2>1 DEF OwnUntilMoved, WorksOnOwn
<1>5. ASSUME NEW i \in Listed, Join(i) \/ ts_pause_torrent(i) \/ ts_resume_torrent(i)
      PROVE  WorksOnOwn(t)'
  BY <1>5 DEF Join, ts_pause_torrent, ts_resume_torrent, entries, threads, OwnUntilMoved,
              WorksOnOwn, Live
<1>6. CASE UNCHANGED vars
  BY <1>6 DEF vars, entries, threads, OwnUntilMoved, WorksOnOwn, Live
<1>. QED
  BY <1>2, <1>3, <1>4, <1>5, <1>6 DEF Next, Window

\* A thread that runs works on the entry of its own torrent until a torrent in
\* front of it is removed, whatever else is added, removed, paused and resumed.
THEOREM Owned == Spec => []OwnUntilMoved
<1>1. Init => OwnUntilMoved
  BY DEF Init, OwnUntilMoved, Live
<1>2. ListInv /\ OwnUntilMoved /\ [Next]_vars => OwnUntilMoved'
  BY NextOwned
<1>. QED
  BY <1>1, <1>2, ListInductive, PTL DEF Spec

------------------------------------------------------------------------------
(* What rests on it, while no thread is displaced *)

Preparing == {"parse", "reopen", "trackers", "found", "files", "verify"}

\* Nobody has flagged a torrent before its thread has verified it.
NotYetSeeding == \A t \in Ids : pc[t] \in Preparing => ~seeding[entry_index[t]]

OwnInv ==
    /\ ListInv
    /\ OwnEntry
    /\ NotYetSeeding
    /\ VerifiedBeforeSwarm
    /\ FailedIsStopped

LEMMA InitOwnInv == Init => OwnInv
<1>1. Init => ListInv
  BY InitListInv
<1>2. Init => OwnEntry /\ NotYetSeeding /\ VerifiedBeforeSwarm /\ FailedIsStopped
  BY DEF Init, OwnEntry, WorksOnOwn, Live, Listed, Index, NotYetSeeding, Preparing,
         VerifiedBeforeSwarm, FailedIsStopped
<1>. QED
  BY <1>1, <1>2 DEF OwnInv

\* A thread that is added gets an entry that no running thread points to.
LEMMA AddOwnInv ==
    ASSUME OwnInv, NEW pieces \in PieceCounts \cup {NoMetainfo}, ts_add_torrent(pieces)
    PROVE  OwnInv'
<1>. DEFINE new == next_id
<1>1. ListInv'
  BY AddListInv DEF OwnInv
<1>2. /\ new \in Ids /\ pc[new] = "unborn"
      /\ count \in Index /\ count' = count + 1 /\ count \notin Listed
      /\ pc'[new] = "parse" /\ entry_index'[new] = count /\ id'[count] = new
      /\ status'[count] = "VERIFYING" /\ seeding'[count] = FALSE
  BY SessionAssumption DEF OwnInv, ListInv, TypeOK, BornInv, ts_add_torrent, Ids, Index, Listed,
                           NewId
<1>3. \A t \in Ids \ {new} : pc'[t] = pc[t] /\ entry_index'[t] = entry_index[t]
  BY DEF OwnInv, ListInv, TypeOK, ts_add_torrent
<1>4. \A i \in Index \ {count} :
         /\ id'[i] = id[i] /\ status'[i] = status[i] /\ seeding'[i] = seeding[i]
         /\ total_pieces'[i] = total_pieces[i] /\ pieces_completed'[i] = pieces_completed[i]
         /\ thread'[i] = thread[i]
  BY DEF OwnInv, ListInv, TypeOK, ts_add_torrent
<1>5. \A t \in Live : entry_index[t] \in Listed /\ t # new
  BY <1>2 DEF OwnInv, OwnEntry, WorksOnOwn, ListInv, BornInv, Live, Listed
<1>6. \A i \in Listed' : i = count \/ (i \in Listed /\ i # count)
  BY <1>2 DEF Listed, Index, OwnInv, ListInv, TypeOK
<1>7. \A i \in Listed : id[i] \in Ids \ {new} /\ i # count /\ i \in Index
  <2>1. \A i \in Listed : i \in Index /\ i # count /\ id[i] < new
    BY <1>2 DEF OwnInv, ListInv, ListedInOrder, Listed
  <2>2. \A i \in Index : id[i] \in Ids \cup {NoId}
    BY DEF OwnInv, ListInv, TypeOK
  <2>3. \A i \in Listed : id[i] # NoId
    BY DEF OwnInv, ListInv, NumberedInv
  <2>. QED
    BY <2>1, <2>2, <2>3, <1>2 DEF Ids
<1>8. OwnEntry'
  BY <1>2, <1>3, <1>4, <1>5 DEF OwnInv, OwnEntry, WorksOnOwn, Live, Listed, ListInv, TypeOK, Index
<1>11. NotYetSeeding'
  BY <1>2, <1>3, <1>4, <1>5 DEF OwnInv, NotYetSeeding, Preparing, Live, Listed
<1>12. VerifiedBeforeSwarm'
  BY <1>2, <1>3, <1>4, <1>5 DEF OwnInv, VerifiedBeforeSwarm, Live, Listed
<1>13. FailedIsStopped'
  BY <1>2, <1>3, <1>4, <1>6, <1>7 DEF OwnInv, FailedIsStopped, ListInv, ListedInOrder
<1>. QED
  BY <1>1, <1>8, <1>11, <1>12, <1>13 DEF OwnInv

\* A removal that displaces no thread moves only entries whose threads have ended.
LEMMA RemovedOwnInv ==
    ASSUME OwnInv, Removed, displaced' = {}
    PROVE  OwnInv'
<1>1. ListInv'
  BY RemovedListInv DEF OwnInv
<1>2. /\ joining \in Listed /\ count \in Nat
      /\ count' = count - 1 /\ joining' = Nobody
      /\ pc' = pc /\ entry_index' = entry_index
  BY DEF OwnInv, ListInv, JoiningInv, Removed, Joined, TypeOK, threads
<1>4. \A k \in Listed' : /\ k \in Listed /\ k < count - 1
                         /\ k >= joining => k + 1 \in Listed /\ k + 1 >= joining
  BY <1>2, SessionAssumption DEF Listed, Index, OwnInv, ListInv, TypeOK
<1>5. \A k \in Listed' :
         /\ k < joining => /\ id'[k] = id[k] /\ status'[k] = status[k] /\ seeding'[k] = seeding[k]
                           /\ total_pieces'[k] = total_pieces[k]
                           /\ pieces_completed'[k] = pieces_completed[k]
                           /\ thread'[k] = thread[k]
         /\ k >= joining => status'[k] = status[k + 1] /\ thread'[k] = thread[k + 1]
  <2>1. \A k \in Listed' : k \in Index /\ joining \in Int /\ k \in Int /\ k < count - 1
    BY <1>2, <1>4 DEF Listed, Index
  <2>. QED
    BY <2>1 DEF Removed, Moved
<1>6. \A t \in Live : /\ entry_index[t] \in Listed /\ entry_index[t] < joining
                      /\ id[entry_index[t]] = t
  <2>1. /\ pc[thread[joining]] = "finished" /\ RunningBehind = {}
        /\ \A k \in Listed : thread[k] = id[k]
    BY DEF Removed, Joined, OwnInv, ListInv, ListedInOrder
  <2>2. SUFFICES ASSUME NEW t \in Live
                 PROVE  /\ entry_index[t] \in Listed /\ entry_index[t] < joining
                        /\ id[entry_index[t]] = t
    OBVIOUS
  <2>3. entry_index[t] \in Listed /\ id[entry_index[t]] = t
    BY DEF OwnInv, OwnEntry, WorksOnOwn, ListInv, BornInv, Live, Listed
  <2>4. entry_index[t] # joining
    BY <2>1, <2>3 DEF Live
  <2>5. ~(entry_index[t] > joining)
    BY <2>1, <2>3 DEF RunningBehind
  <2>. QED
    BY <1>2, <2>3, <2>4, <2>5 DEF Listed, Index
<1>7. \A t \in Live : entry_index[t] \in Listed'
  BY <1>2, <1>6 DEF Listed, Index
<1>8. OwnEntry'
  BY <1>2, <1>5, <1>6, <1>7 DEF OwnEntry, WorksOnOwn, Live, Listed
<1>10. NotYetSeeding'
  BY <1>2, <1>5, <1>6, <1>7 DEF OwnInv, NotYetSeeding, Preparing, Live
<1>11. VerifiedBeforeSwarm'
  BY <1>2, <1>5, <1>6, <1>7 DEF OwnInv, VerifiedBeforeSwarm, Live
<1>12. FailedIsStopped'
  <2>1. SUFFICES ASSUME NEW k \in Listed', status'[k] = "ERROR"
                 PROVE  pc[thread'[k]] = "finished"
    BY <1>2 DEF FailedIsStopped
  <2>2. CASE k < joining
    <3>1. k \in Listed /\ status[k] = "ERROR" /\ thread'[k] = thread[k]
      BY <1>4, <1>5, <2>1, <2>2, Zenon
    <3>. QED
      BY <3>1 DEF OwnInv, FailedIsStopped
  <2>3. CASE k >= joining
    <3>1. k + 1 \in Listed /\ status[k + 1] = "ERROR" /\ thread'[k] = thread[k + 1]
      BY <1>4, <1>5, <2>1, <2>3, Zenon
    <3>. QED
      BY <3>1 DEF OwnInv, FailedIsStopped
  <2>. QED
    BY <1>2, <1>4, <2>2, <2>3 DEF Listed, Index
<1>. QED
  BY <1>1, <1>8, <1>10, <1>11, <1>12 DEF OwnInv

\* The user's other calls.
LEMMA StatusOwnInv ==
    ASSUME OwnInv, NEW i \in Listed, ts_pause_torrent(i) \/ ts_resume_torrent(i)
    PROVE  OwnInv'
<1>1. ListInv'
  BY DEF ts_pause_torrent, ts_resume_torrent, OwnInv, ListInv, TypeOK, BornInv, JoiningInv,
         NumberedInv, ListedInOrder, Listed, threads
<1>2. /\ UNCHANGED <<count, joining, id, seeding, total_pieces, pieces_completed, thread,
                     entry_index, pc>>
      /\ \A k \in Index \ {i} : status'[k] = status[k]
      /\ status'[i] \in {"PAUSED", "SEEDING", "DOWNLOADING"}
      /\ status'[i] = "SEEDING" => pieces_completed[i] = total_pieces[i]
  BY DEF ts_pause_torrent, ts_resume_torrent, threads, OwnInv, ListInv, TypeOK, Listed
<1>3. OwnEntry' /\ NotYetSeeding'
  BY <1>2 DEF OwnInv, OwnEntry, WorksOnOwn, Live, Listed, NotYetSeeding
<1>4. VerifiedBeforeSwarm'
  <2>1. \A t \in Ids : pc[t] \in {"swarm", "epilogue", "end"} => entry_index[t] \in Index
    BY DEF OwnInv, ListInv, BornInv
  <2>. QED
    BY <1>2, <2>1 DEF OwnInv, VerifiedBeforeSwarm
<1>5. FailedIsStopped'
  BY <1>2 DEF OwnInv, FailedIsStopped, Listed
<1>. QED
  BY <1>1, <1>3, <1>4, <1>5 DEF OwnInv

\* What a step of a running thread changes: its own entry only, and there the
\* status and the flag as OwnInv needs them.
LEMMA ThreadEffect ==
    ASSUME OwnInv, NEW t \in Ids, download_thread(t)
    PROVE  LET i == entry_index[t]
           IN  /\ t \in Live
               /\ \A k \in Index \ {i} :
                     /\ status'[k] = status[k]
                     /\ seeding'[k] = seeding[k]
                     /\ total_pieces'[k] = total_pieces[k]
                     /\ pieces_completed'[k] = pieces_completed[k]
               /\ pc'[t] \in Preparing => pc[t] \in Preparing /\ seeding'[i] = seeding[i]
               /\ pc'[t] \in {"swarm", "epilogue", "end"} =>
                     /\ status'[i] \in {"DOWNLOADING", "SEEDING", "PAUSED"}
                     /\ (status'[i] = "SEEDING" \/ seeding'[i])
                           => pieces_completed'[i] = total_pieces'[i]
                     /\ pieces_completed'[i] <= total_pieces'[i]
               /\ status'[i] = "ERROR" => status[i] = "ERROR" \/ pc'[t] = "finished"
<1>. DEFINE i == entry_index[t]
            Effect ==
               /\ pc[t] # "finished"
               /\ \A k \in Index \ {i} :
                     /\ status'[k] = status[k]
                     /\ seeding'[k] = seeding[k]
                     /\ total_pieces'[k] = total_pieces[k]
                     /\ pieces_completed'[k] = pieces_completed[k]
               /\ pc'[t] \in Preparing => pc[t] \in Preparing /\ seeding'[i] = seeding[i]
               /\ pc'[t] \in {"swarm", "epilogue", "end"} =>
                     /\ status'[i] \in {"DOWNLOADING", "SEEDING", "PAUSED"}
                     /\ (status'[i] = "SEEDING" \/ seeding'[i])
                           => pieces_completed'[i] = total_pieces'[i]
                     /\ pieces_completed'[i] <= total_pieces'[i]
               /\ status'[i] = "ERROR" => status[i] = "ERROR" \/ pc'[t] = "finished"
<1>1. TypeOK /\ pc[t] # "unborn" /\ i \in Index
  BY ThreadSteps DEF OwnInv, ListInv
<1>2. /\ total_pieces[i] \in Nat /\ pieces_completed[i] \in Nat /\ seeding[i] \in BOOLEAN
  BY <1>1 DEF TypeOK
<1>3. pc[t] \in Preparing => ~seeding[i]
  BY DEF OwnInv, NotYetSeeding
<1>4. pc[t] \in {"swarm", "epilogue", "end"} =>
        /\ status[i] \in {"DOWNLOADING", "SEEDING", "PAUSED"}
        /\ (status[i] = "SEEDING" \/ seeding[i]) => pieces_completed[i] = total_pieces[i]
        /\ pieces_completed[i] <= total_pieces[i]
  BY DEF OwnInv, VerifiedBeforeSwarm
<1>5. ASSUME NEW from \in Preparing, NEW to, Fail(t, from, to)
      PROVE  Effect
  BY <1>1, <1>5 DEF Fail, Step, TypeOK, Preparing
<1>6. ASSUME Unusable(t) PROVE Effect
  BY <1>5, <1>6 DEF Unusable, Preparing
<1>7. ASSUME Parsed(t) PROVE Effect
  BY <1>1, <1>7 DEF Parsed, TypeOK, Preparing
<1>8. ASSUME Prepare(t) PROVE Effect
  <2>1. PICK step \in {<<"reopen", "trackers">>, <<"trackers", "found">>,
                       <<"found", "files">>, <<"files", "verify">>} :
           \/ Fail(t, step[1], step[2])
           \/ Step(t, step[1], step[2]) /\ UNCHANGED <<status, seeding, pieces_completed>>
    BY <1>8 DEF Prepare
  <2>2. step[1] \in Preparing /\ step[2] \in Preparing
    BY DEF Preparing
  <2>3. CASE Fail(t, step[1], step[2])
    BY <1>5, <2>2, <2>3
  <2>4. CASE Step(t, step[1], step[2]) /\ UNCHANGED <<status, seeding, pieces_completed>>
    BY <1>1, <2>2, <2>4 DEF Step, TypeOK, Preparing
  <2>. QED
    BY <2>1, <2>3, <2>4
<1>9. ASSUME NEW recovered \in 0 .. total_pieces[i], Verified(t, recovered)
      PROVE  Effect
  <2>1. recovered \in Nat /\ recovered <= total_pieces[i]
    BY <1>2
  <2>2. VerifiedStatus(t, recovered) \in {"PAUSED", "SEEDING", "DOWNLOADING"}
    BY DEF VerifiedStatus
  <2>3. VerifiedStatus(t, recovered) = "SEEDING" => recovered = total_pieces[i]
    BY DEF VerifiedStatus
  <2>4. ~seeding[i]
    BY <1>3, <1>9 DEF Verified, Step, Preparing
  <2>5. /\ pc[t] = "verify" /\ pc'[t] = "swarm"
        /\ status'[i] = VerifiedStatus(t, recovered)
        /\ pieces_completed'[i] = recovered
        /\ total_pieces' = total_pieces
        /\ \A k \in Index \ {i} : /\ status'[k] = status[k]
                                  /\ seeding'[k] = seeding[k]
                                  /\ pieces_completed'[k] = pieces_completed[k]
    BY <1>1, <1>9 DEF Verified, Step, TypeOK
  <2>6. seeding'[i] <=> (seeding[i] \/ VerifiedStatus(t, recovered) = "SEEDING")
    BY <1>1, <1>9 DEF Verified, TypeOK
  <2>. QED
    BY <2>1, <2>2, <2>3, <2>4, <2>5, <2>6 DEF Preparing
<1>10. ASSUME PieceDone(t) PROVE Effect
  BY <1>1, <1>2, <1>4, <1>10 DEF PieceDone, Step, TypeOK, Preparing
<1>11. ASSUME SwarmEnds(t) PROVE Effect
  BY <1>1, <1>4, <1>11 DEF SwarmEnds, Step, TypeOK, Preparing
<1>12. ASSUME Epilogue(t) PROVE Effect
  BY <1>1, <1>4, <1>12 DEF Epilogue, SeedingIfComplete, Step, TypeOK, Preparing
<1>13. ASSUME End(t) PROVE Effect
  BY <1>1, <1>4, <1>13 DEF End, SeedingIfComplete, Step, TypeOK, Preparing
<1>14. Effect
  BY <1>6, <1>7, <1>8, <1>9, <1>10, <1>11, <1>12, <1>13 DEF download_thread
<1>. QED
  BY <1>1, <1>14 DEF Live

\* A step of a thread preserves OwnInv: no other running thread points to the
\* entry that it writes.
LEMMA ThreadOwnInv ==
    ASSUME OwnInv, NEW t \in Ids, download_thread(t)
    PROVE  OwnInv'
<1>. DEFINE i == entry_index[t]
<1>1. ListInv'
  BY NextListInv DEF OwnInv, Next
<1>2. /\ UNCHANGED <<count, joining, id, thread, entry_index>>
      /\ \A u \in Ids \ {t} : pc'[u] = pc[u]
      /\ i \in Index
  BY ThreadSteps DEF OwnInv, ListInv, TypeOK
<1>3. t \in Live /\ pc'[t] # "unborn" /\ i \in Listed /\ id[i] = t /\ thread[i] = t
  <2>1. t \in Live /\ pc'[t] # "unborn"
    BY ThreadEffect, ThreadSteps DEF OwnInv, ListInv, TypeOK
  <2>. QED
    BY <1>2, <2>1 DEF OwnInv, OwnEntry, WorksOnOwn, ListInv, ListedInOrder, Listed
<1>4. \A u \in Live \ {t} : entry_index[u] \in Index \ {i}
  BY <1>3 DEF OwnInv, OwnEntry, WorksOnOwn, ListInv, BornInv, Live
<1>5. \A u \in Ids : pc'[u] \notin {"unborn", "finished"} => u \in Live
  BY <1>2, <1>3 DEF Live
<1>6. OwnEntry'
  BY <1>2, <1>5 DEF OwnInv, OwnEntry, WorksOnOwn, Live
<1>8. NotYetSeeding'
  BY <1>2, <1>4, <1>5, ThreadEffect DEF OwnInv, NotYetSeeding, Preparing
<1>9. VerifiedBeforeSwarm'
  BY <1>2, <1>4, <1>5, ThreadEffect DEF OwnInv, VerifiedBeforeSwarm
<1>10. FailedIsStopped'
  <2>1. \A k \in Listed \ {i} : thread[k] \in Ids \ {t} /\ status'[k] = status[k]
    <3>1. \A k \in Listed \ {i} : k \in Index \ {i} /\ thread[k] = id[k] /\ id[k] # id[i]
      BY <1>3 DEF OwnInv, ListInv, ListedInOrder, Listed, Index, TypeOK, Ids, NoId
    <3>2. \A k \in Listed : thread[k] \in Ids
      BY DEF OwnInv, ListInv, ListedInOrder, TypeOK, NumberedInv, Listed
    <3>. QED
      BY <1>3, <3>1, <3>2, ThreadEffect
  <2>2. status[i] # "ERROR"
    BY <1>3 DEF OwnInv, FailedIsStopped, Live
  <2>3. status'[i] = "ERROR" => pc'[thread[i]] = "finished"
    BY <1>3, <2>2, ThreadEffect
  <2>. QED
    BY <1>2, <2>1, <2>3 DEF OwnInv, FailedIsStopped, Listed
<1>. QED
  BY <1>1, <1>6, <1>8, <1>9, <1>10 DEF OwnInv

LEMMA NextOwnInv == OwnInv /\ [Next]_vars /\ displaced' = {} => OwnInv'
<1>. SUFFICES ASSUME OwnInv, [Next]_vars, displaced' = {} PROVE OwnInv'
  OBVIOUS
<1>1. ASSUME NEW i \in Listed, Join(i) PROVE OwnInv'
  <2>1. ListInv'
    BY <1>1, NextListInv DEF OwnInv, Next, Window
  <2>. QED
    BY <1>1, <2>1 DEF Join, OwnInv, OwnEntry, WorksOnOwn, Live, Listed,
                      NotYetSeeding, VerifiedBeforeSwarm, FailedIsStopped, entries, threads
<1>2. CASE UNCHANGED vars
  <2>1. ListInv'
    BY <1>2, NextListInv DEF OwnInv
  <2>. QED
    BY <1>2, <2>1 DEF vars, entries, threads, OwnInv, OwnEntry, WorksOnOwn, Live, Listed,
                      NotYetSeeding, VerifiedBeforeSwarm, FailedIsStopped
<1>. QED
  BY <1>1, <1>2, AddOwnInv, RemovedOwnInv, StatusOwnInv, ThreadOwnInv DEF Next, Window

\* Who is displaced stays so.
LEMMA DisplacedStay == [Next]_vars => displaced \subseteq displaced'
BY DEF Next, Window, ts_add_torrent, Join, Removed, ts_pause_torrent, ts_resume_torrent,
       download_thread, Unusable, Fail, Step, Parsed, Prepare, Verified, PieceDone, SwarmEnds,
       Epilogue, End, vars

\* Until a torrent is removed in front of one whose thread runs, every thread, its
\* entry and the status it finds there belong together.
THEOREM OwnInductive == Spec => [](displaced = {} => OwnInv)
<1>1. Init => OwnInv
  BY InitOwnInv
<1>2. (displaced = {} => OwnInv) /\ [Next]_vars => (displaced = {} => OwnInv)'
  BY NextOwnInv, DisplacedStay
<1>. QED
  BY <1>1, <1>2, PTL DEF Spec

\* The status of a torrent agrees with where its thread is: a torrent in the swarm
\* was verified, and is shown as seeding only if it is complete, however the user
\* paused and resumed it before; the thread of a torrent in error has ended.
THEOREM StatusAgreed == Spec => []StatusAgrees
<1>1. (displaced = {} => OwnInv) => StatusAgrees
  BY DEF OwnInv, StatusAgrees
<1>. QED
  BY <1>1, OwnInductive, PTL

\* Where a thread takes a paused torrent out of its pause.
LEMMA ThreadKeepsPause ==
    ASSUME OwnInv, NEW t \in Ids, download_thread(t), NEW i \in Listed,
           status[i] = "PAUSED", status'[i] # "PAUSED"
    PROVE  status'[i] = "ERROR" \/ (status'[i] = "SEEDING" /\ End(thread[i]))
<1>1. TypeOK /\ t \in Live /\ entry_index[t] \in Index /\ i \in Index
  BY ThreadSteps, ThreadEffect DEF OwnInv, ListInv, Listed
<1>2. i = entry_index[t]
  BY <1>1, ThreadEffect
<1>3. thread[i] = t
  BY <1>1, <1>2 DEF OwnInv, OwnEntry, WorksOnOwn, ListInv, ListedInOrder
<1>4. ASSUME NEW from, NEW to, Fail(t, from, to)
      PROVE  status'[i] = "ERROR"
  BY <1>1, <1>2, <1>4 DEF Fail, TypeOK
<1>5. ASSUME UNCHANGED status
      PROVE  FALSE
  BY <1>5
<1>6. ~Parsed(t) /\ ~PieceDone(t) /\ ~SwarmEnds(t)
  BY <1>5 DEF Parsed, PieceDone, SwarmEnds
<1>7. Prepare(t) => status'[i] = "ERROR"
  BY <1>4, <1>5 DEF Prepare
<1>8. ASSUME NEW recovered, Verified(t, recovered)
      PROVE  FALSE
  BY <1>1, <1>2, <1>8 DEF Verified, VerifiedStatus, TypeOK
<1>9. ~Epilogue(t)
  BY <1>1, <1>2, <1>5 DEF Epilogue, TypeOK
<1>10. End(t) => status'[i] = "SEEDING"
  BY <1>1, <1>2, <1>5 DEF End, SeedingIfComplete, TypeOK
<1>. QED
  BY <1>3, <1>4, <1>6, <1>7, <1>8, <1>9, <1>10 DEF download_thread, Unusable

\* A pause lasts until the user ends it, something fails, or the swarm of a
\* complete torrent ends.
THEOREM PauseLasts == Spec => PauseKept
<1>1. ASSUME OwnInv, [Next]_vars, NEW i \in Listed, NEW k \in Listed',
             id'[k] = id[i], status[i] = "PAUSED", status'[k] # "PAUSED"
      PROVE  \/ ts_resume_torrent(i)
             \/ status'[k] = "ERROR"
             \/ status'[k] = "SEEDING" /\ End(thread[i])
  <2>1. /\ TypeOK /\ i \in Index /\ i # count /\ k \in Index
        /\ \A j \in Listed : id[j] = id[i] => j = i
    <3>1. TypeOK /\ i \in Index /\ i # count /\ k \in Index
      BY <1>1 DEF OwnInv, ListInv, Listed, TypeOK
    <3>2. \A j \in Listed : j \in Int /\ id[j] \in Int
      BY <3>1 DEF TypeOK, Listed, Index, Ids, NoId
    <3>. QED
      BY <1>1, <3>1, <3>2 DEF OwnInv, ListInv, ListedInOrder
  <2>2. ASSUME UNCHANGED <<count, id>> PROVE k = i
    BY <1>1, <2>1, <2>2 DEF Listed
  <2>3. ASSUME NEW pieces, ts_add_torrent(pieces) PROVE FALSE
    <3>1. id[i] < next_id /\ id'[count] = next_id /\ count \in Index
      BY <1>1, <2>1, <2>3, SessionAssumption
         DEF ts_add_torrent, NewId, OwnInv, ListInv, ListedInOrder, TypeOK, Index
    <3>2. k # count /\ k \in Listed
      BY <1>1, <2>1, <2>3, <3>1 DEF ts_add_torrent, Listed, TypeOK, Index, Ids
    <3>3. id'[k] = id[k] /\ status'[k] = status[k]
      BY <2>1, <2>3, <3>2 DEF ts_add_torrent, TypeOK
    <3>. QED
      BY <1>1, <2>1, <3>2, <3>3
  <2>4. ASSUME NEW j, Join(j) PROVE FALSE
    BY <1>1, <2>2, <2>4 DEF Join, entries
  <2>5. ~Removed
    <3>1. SUFFICES ASSUME Removed PROVE FALSE
      OBVIOUS
    <3>2. joining \in Listed /\ k < count - 1 /\ count \in Nat
      BY <1>1, <2>1, <3>1 DEF Removed, Joined, OwnInv, ListInv, JoiningInv, TypeOK, Listed
    <3>3. \/ k \in Listed /\ id'[k] = id[k] /\ status'[k] = status[k]
          \/ k + 1 \in Listed /\ id'[k] = id[k + 1] /\ status'[k] = status[k + 1]
      BY <2>1, <3>1, <3>2, SessionAssumption DEF Removed, Moved, Listed, Index, TypeOK
    <3>. QED
      BY <1>1, <2>1, <3>3
  <2>6. ASSUME NEW j \in Listed, ts_pause_torrent(j) PROVE FALSE
    BY <1>1, <2>1, <2>2, <2>6 DEF ts_pause_torrent, TypeOK
  <2>7. ASSUME NEW j \in Listed, ts_resume_torrent(j) PROVE j = i
    BY <1>1, <2>1, <2>2, <2>7 DEF ts_resume_torrent, TypeOK
  <2>8. CASE UNCHANGED vars
    BY <1>1, <2>2, <2>8 DEF vars, entries
  <2>9. ASSUME NEW t \in Ids, download_thread(t)
        PROVE  status'[k] = "ERROR" \/ (status'[k] = "SEEDING" /\ End(thread[i]))
    <3>1. k = i
      BY <1>1, <2>2, <2>9, ThreadSteps DEF OwnInv
    <3>. QED
      BY <1>1, <2>9, <3>1, ThreadKeepsPause
  <2>. QED
    BY <1>1, <2>3, <2>4, <2>5, <2>6, <2>7, <2>8, <2>9 DEF Next, Window
<1>2. (displaced = {} => OwnInv) /\ [Next]_vars
        => [\A i \in Listed, k \in Listed' :
              (displaced = {} /\ id'[k] = id[i] /\ status[i] = "PAUSED" /\ status'[k] # "PAUSED")
                => \/ ts_resume_torrent(i)
                   \/ status'[k] = "ERROR"
                   \/ status'[k] = "SEEDING" /\ End(thread[i])]_vars
  BY <1>1
<1>. QED
  BY <1>2, OwnInductive, PTL DEF Spec, PauseKept

------------------------------------------------------------------------------
(* The refinement of TorrentList *)

Shown(length, ids) == [k \in 1 .. length |-> ids[k - 1]]

\* What the window shows is a sequence of ids.
LEMMA ShownType ==
    ASSUME NEW length \in 0 .. MaxTorrents, NEW ids \in [Index -> Ids \cup {NoId}]
    PROVE  /\ Shown(length, ids) \in Seq(Ids \cup {NoId})
           /\ Len(Shown(length, ids)) = length
           /\ \A k \in 1 .. length : Shown(length, ids)[k] = ids[k - 1]
<1>1. length \in Nat /\ \A k \in 1 .. length : k - 1 \in Index
  BY SessionAssumption DEF Index
<1>2. Shown(length, ids) \in [1 .. length -> Ids \cup {NoId}]
  BY <1>1 DEF Shown
<1>3. Shown(length, ids) \in Seq(Ids \cup {NoId})
  BY <1>1, <1>2, SeqDef
<1>. QED
  BY <1>1, <1>2, <1>3, LenProperties DEF Shown

\* The list of the session implements TorrentList: an addition appends an id
\* greater than all before, a removal takes one torrent out.
THEOREM ListRefinement == Spec => ImplementsList
<1>1. Init => List!Init
  <2>1. SUFFICES ASSUME Init PROVE Shown(count, id) = <<>> /\ next_id - 1 = 0
    BY DEF List!Init, Shown
  <2>2. TypeOK /\ count = 0 /\ next_id = 1
    BY <2>1, InitListInv DEF Init, ListInv
  <2>3. Len(Shown(count, id)) = 0 /\ Shown(count, id) \in Seq(Ids \cup {NoId})
    BY <2>2, ShownType DEF TypeOK
  <2>. QED
    BY <2>2, <2>3, EmptySeq
<1>2. ListInv /\ [Next]_vars => [List!Next]_(List!vars)
  <2>. DEFINE now  == Shown(count, id)
              then == Shown(count', id')
              S    == Ids \cup {NoId}
  <2>1. SUFFICES ASSUME ListInv, [Next]_vars
                 PROVE  List!Next \/ (then = now /\ next_id' = next_id)
    BY DEF List!vars, Shown
  <2>2. TypeOK /\ TypeOK'
    BY <2>1, NextListInv DEF ListInv
  <2>3. /\ now \in Seq(S) /\ Len(now) = count
        /\ \A k \in 1 .. count : now[k] = id[k - 1]
    BY <2>2, ShownType DEF TypeOK
  <2>4. /\ then \in Seq(S) /\ Len(then) = count'
        /\ \A k \in 1 .. count' : then[k] = id'[k - 1]
    BY <2>2, ShownType DEF TypeOK
  <2>5. count \in Nat /\ next_id \in Nat \ {0} /\ id \in [Index -> S]
    BY <2>2, SessionAssumption DEF TypeOK
  <2>6. ASSUME NEW pieces \in PieceCounts \cup {NoMetainfo}, ts_add_torrent(pieces)
        PROVE  List!Add
    <3>1. /\ count' = count + 1 /\ next_id' = next_id + 1 /\ next_id \in S
          /\ id'[count] = next_id /\ \A k \in 1 .. count : id'[k - 1] = id[k - 1]
      BY <2>5, <2>6, SessionAssumption DEF ts_add_torrent, Index, Ids, NewId
    <3>2. then = Append(now, next_id)
      <4>1. /\ Append(now, next_id) \in Seq(S)
            /\ Len(Append(now, next_id)) = count + 1
            /\ \A k \in 1 .. count : Append(now, next_id)[k] = now[k]
            /\ Append(now, next_id)[count + 1] = next_id
        BY <2>3, <3>1, AppendProperties
      <4>2. \A k \in 1 .. count + 1 : then[k] = Append(now, next_id)[k]
        <5>1. then[count + 1] = next_id
          BY <2>4, <2>5, <3>1
        <5>2. \A k \in 1 .. count : then[k] = now[k]
          BY <2>3, <2>4, <2>5, <3>1
        <5>. QED
          BY <4>1, <5>1, <5>2, <2>5
      <4>. QED
        BY <4>1, <4>2, <2>4, <3>1, SeqEqual
    <3>. QED
      BY <2>5, <3>1, <3>2 DEF List!Add, Shown
  <2>7. CASE Removed
    <3>1. /\ joining \in Index /\ joining < count
          /\ count' = count - 1 /\ next_id' = next_id /\ id' = Moved(id)
      BY <2>1, <2>7 DEF ListInv, JoiningInv, Removed, Joined, Listed
    <3>2. \A k \in 1 .. count - 1 : then[k] = IF k < joining + 1 THEN now[k] ELSE now[k + 1]
      <4>1. \A k \in 1 .. count - 1 :
               id'[k - 1] = IF k - 1 < joining THEN id[k - 1] ELSE id[k - 1 + 1]
        <5>1. TypeOK /\ joining \in Listed
          BY <2>2, <3>1 DEF Listed
        <5>2. \A k \in 1 .. count - 1 : k - 1 \in Index /\ k - 1 < count - 1
          BY <2>2, <2>5, SessionAssumption DEF TypeOK, Index
        <5>. QED
          BY <5>1, <5>2, <3>1, <2>5, MovedEntries
      <4>2. SUFFICES ASSUME NEW k \in 1 .. count - 1
                     PROVE  then[k] = IF k < joining + 1 THEN now[k] ELSE now[k + 1]
        OBVIOUS
      <4>3. /\ k \in Nat /\ k \in 1 .. count /\ k + 1 \in 1 .. count /\ k \in 1 .. count'
            /\ joining \in Int /\ k - 1 + 1 = k /\ (k + 1) - 1 = k
        BY <4>2, <2>5, <3>1 DEF Index
      <4>4. now[k] = id[k - 1] /\ now[k + 1] = id[k] /\ then[k] = id'[k - 1]
        BY <4>3, <2>3, <2>4
      <4>5. k - 1 < joining <=> k < joining + 1
        BY <4>3
      <4>. QED
        BY <4>1, <4>2, <4>3, <4>4, <4>5
    <3>3. then = [k \in 1 .. Len(now) - 1 |-> IF k < joining + 1 THEN now[k] ELSE now[k + 1]]
      <4>1. DOMAIN then = 1 .. count - 1
        BY <2>4, <3>1, LenProperties
      <4>2. then = [k \in 1 .. count - 1 |-> then[k]]
        BY <4>1, <2>4, LenProperties
      <4>. QED
        BY <4>2, <3>2, <2>3
    <3>4. joining + 1 \in 1 .. Len(now)
      BY <3>1, <2>3, <2>5 DEF Index
    <3>5. PICK i : i = joining + 1
      OBVIOUS
    <3>6. List!Remove(i)
      BY <3>1, <3>3, <3>5 DEF List!Remove, Shown
    <3>. QED
      BY <3>4, <3>5, <3>6 DEF List!Next, Shown
  <2>8. ASSUME UNCHANGED <<count, id, next_id>>
        PROVE  then = now /\ next_id' = next_id
    BY <2>8
  <2>9. ASSUME NEW i, Join(i) \/ ts_pause_torrent(i) \/ ts_resume_torrent(i)
        PROVE  UNCHANGED <<count, id, next_id>>
    BY <2>9 DEF Join, ts_pause_torrent, ts_resume_torrent, entries
  <2>10. ASSUME NEW t \in Ids, download_thread(t)
         PROVE  UNCHANGED <<count, id, next_id>>
    BY <2>1, <2>10, ThreadSteps
  <2>11. CASE UNCHANGED vars
    BY <2>8, <2>11 DEF vars, entries
  <2>12. CASE Window
    <3>1. (\E pieces \in PieceCounts \cup {NoMetainfo} : ts_add_torrent(pieces)) => List!Next
      BY <2>6 DEF List!Next
    <3>. QED
      BY <2>7, <2>8, <2>9, <2>12, <3>1 DEF Window
  <2>. QED
    BY <2>1, <2>8, <2>10, <2>11, <2>12 DEF Next
<1>. QED
  BY <1>1, <1>2, ListInductive, PTL DEF Spec, ImplementsList, List!Spec

==============================================================================
