----------------------------- MODULE LocksProofs -----------------------------
(***************************************************************************)
(* Proofs about EntryLocks, for a torrent of any number of pieces: the     *)
(* lock has one holder, and a row of the window is true although its       *)
(* fields are read at different moments.                                   *)
(***************************************************************************)
EXTENDS EntryLocks, SequenceTheorems, TLAPS

Statuses == {"VERIFYING", "DOWNLOADING", "SEEDING", "PAUSED", "ERROR"}

Entries == [status : Statuses, seeding : BOOLEAN, total_pieces : 0 .. Pieces,
            pieces_completed : 0 .. Pieces, progress : 0 .. Pieces]

Rows == [status : Statuses, progress : 0 .. Pieces, verified : BOOLEAN]

TypeInv ==
    /\ TypeOK
    /\ writes = [u \in Users |-> writes[u]]
    /\ row \in Rows

\* Nobody has an entry before there is one.
UnbornInv == pc = "unborn" => ~listed /\ lock = {} /\ call = "none"

\* The write of the flag.
Flag == <<"seeding", TRUE>>

Complete == entry.pieces_completed = entry.total_pieces /\ entry.progress = entry.total_pieces

\* What is left of a section in which pieces are counted.
Counting(todo) ==
    \/ \E r \in 0 .. entry.total_pieces :
          /\ \/ todo = << <<"pieces_completed", r>>, <<"progress", r>> >> /\ entry.status # "SEEDING"
             \/ todo = << <<"pieces_completed", r>>, <<"progress", r>>, <<"status", "DOWNLOADING">> >>
             \/ /\ todo = << <<"pieces_completed", r>>, <<"progress", r>>, <<"status", "SEEDING">>,
                             Flag >>
                /\ r = entry.total_pieces
    \/ \E r \in 0 .. entry.total_pieces :
          /\ entry.pieces_completed = r
          /\ \/ todo = << <<"progress", r>> >> /\ entry.status # "SEEDING"
             \/ todo = << <<"progress", r>>, <<"status", "DOWNLOADING">> >>
             \/ /\ todo = << <<"progress", r>>, <<"status", "SEEDING">>, Flag >>
                /\ r = entry.total_pieces
    \/ /\ entry.pieces_completed = entry.progress
       /\ \/ todo = << <<"status", "DOWNLOADING">> >>
          \/ todo = << <<"status", "SEEDING">>, Flag >> /\ Complete
          \/ todo = << Flag >> /\ Complete
          \/ todo = <<>> /\ (entry.status = "SEEDING" => Complete)

\* What is left of SeedingIfComplete.
Finishing(todo) ==
    \/ /\ todo = <<>>
       /\ entry.pieces_completed = entry.progress
       /\ entry.status = "SEEDING" => Complete
    \/ /\ Complete
       /\ \/ todo = << <<"status", "SEEDING">>, Flag, <<"progress", entry.total_pieces>> >>
          \/ todo = << Flag, <<"progress", entry.total_pieces>> >>
          \/ todo = << <<"progress", entry.total_pieces>> >>

\* What the thread has still to write, by the place it will go to.
ThreadInv ==
    "thread" \in lock =>
        \/ /\ pc = "reopen" /\ metainfo = Pieces
           /\ \/ writes["thread"] = << <<"total_pieces", metainfo>>, <<"pieces_completed", 0>> >>
              \/ writes["thread"] = << <<"pieces_completed", 0>> >>
              \/ writes["thread"] = <<>>
        \/ pc = "found" /\ writes["thread"] = <<>>
        \/ pc = "swarm" /\ Counting(writes["thread"])
        \/ pc \in {"end", "finished"} /\ Finishing(writes["thread"])
        \/ pc = "finished" /\ (writes["thread"] = Error \/ writes["thread"] = <<>>)

\* The window has one write at most, and SEEDING only over all the pieces.
WindowInv ==
    "window" \in lock =>
        /\ call \in {"pause", "resume"}
        /\ \/ writes["window"] = <<>>
           \/ writes["window"] = << <<"status", "PAUSED">> >>
           \/ writes["window"] = << <<"status", "DOWNLOADING">> >>
           \/ /\ writes["window"] = << <<"status", "SEEDING">> >>
              /\ entry.pieces_completed = entry.total_pieces

\* Once the pieces have been counted, an entry that nobody is writing is true.
CountedInv ==
    Counted => /\ entry.pieces_completed = entry.progress
               /\ entry.status = "SEEDING" => Complete

\* A row that says SEEDING is of a torrent that has been complete since.
RowInv ==
    (row.verified /\ row.status = "SEEDING") =>
        /\ Complete
        /\ pc \in {"swarm", "epilogue", "end", "finished"}
        /\ "thread" \in lock => Finishing(writes["thread"])
        /\ call # "progress" => row.progress = entry.total_pieces

IInv == TypeInv /\ UnbornInv /\ ThreadInv /\ WindowInv /\ CountedInv /\ RowInv

------------------------------------------------------------------------------
LEMMA Tails ==
    ASSUME NEW a, NEW b, NEW c, NEW d
    PROVE  /\ <<a>> # <<>> /\ <<a>>[1] = a /\ Tail(<<a>>) = <<>>
           /\ <<a, b>> # <<>> /\ <<a, b>>[1] = a /\ Tail(<<a, b>>) = <<b>>
           /\ <<a, b, c>> # <<>> /\ <<a, b, c>>[1] = a /\ Tail(<<a, b, c>>) = <<b, c>>
           /\ <<a, b, c, d>> # <<>> /\ <<a, b, c, d>>[1] = a /\ Tail(<<a, b, c, d>>) = <<b, c, d>>
OBVIOUS

\* A write goes to one field.
LEMMA Written ==
    ASSUME NEW u \in Users, Write(u), NEW f, NEW v, writes[u][1] = <<f, v>>
    PROVE  entry' = [entry EXCEPT ![f] = v]
<1>1. writes[u][1][1] = f /\ writes[u][1][2] = v
  OBVIOUS
<1>2. QED
  BY <1>1, Zenon DEF Write

LEMMA StatusWritten ==
    ASSUME TypeInv, NEW u \in Users, Write(u), NEW v \in Statuses,
           writes[u][1] = <<"status", v>>
    PROVE  /\ entry' \in Entries
           /\ entry'.status = v
           /\ entry'.total_pieces = entry.total_pieces
           /\ entry'.pieces_completed = entry.pieces_completed
           /\ entry'.progress = entry.progress
<1>1. entry \in Entries
  BY DEF TypeInv, TypeOK, Entries, Statuses
<1>2. entry' = [entry EXCEPT !.status = v]
  BY Written, Zenon
<1>3. QED
  BY <1>1, <1>2 DEF Entries

LEMMA SeedingWritten ==
    ASSUME TypeInv, NEW u \in Users, Write(u), NEW v \in BOOLEAN,
           writes[u][1] = <<"seeding", v>>
    PROVE  /\ entry' \in Entries
           /\ entry'.status = entry.status
           /\ entry'.total_pieces = entry.total_pieces
           /\ entry'.pieces_completed = entry.pieces_completed
           /\ entry'.progress = entry.progress
<1>1. entry \in Entries
  BY DEF TypeInv, TypeOK, Entries, Statuses
<1>2. entry' = [entry EXCEPT !.seeding = v]
  BY Written, Zenon
<1>3. QED
  BY <1>1, <1>2 DEF Entries

LEMMA NumberWritten ==
    ASSUME TypeInv, NEW u \in Users, Write(u), NEW v \in 0 .. Pieces,
           NEW f \in {"total_pieces", "pieces_completed", "progress"},
           writes[u][1] = <<f, v>>
    PROVE  /\ entry' \in Entries
           /\ entry'.status = entry.status
           /\ entry'.total_pieces = IF f = "total_pieces" THEN v ELSE entry.total_pieces
           /\ entry'.pieces_completed = IF f = "pieces_completed" THEN v ELSE entry.pieces_completed
           /\ entry'.progress = IF f = "progress" THEN v ELSE entry.progress
<1>1. entry \in Entries
  BY DEF TypeInv, TypeOK, Entries, Statuses
<1>2. entry' = [entry EXCEPT ![f] = v]
  BY Written, Zenon
<1>3. CASE f = "total_pieces"
  BY <1>1, <1>2, <1>3 DEF Entries
<1>4. CASE f = "pieces_completed"
  BY <1>1, <1>2, <1>4 DEF Entries
<1>5. CASE f = "progress"
  BY <1>1, <1>2, <1>5 DEF Entries
<1>6. QED
  BY <1>3, <1>4, <1>5

------------------------------------------------------------------------------
LEMMA Initially == Init => IInv
<1>1. SUFFICES ASSUME Init PROVE IInv
  OBVIOUS
<1>2. TypeInv
  <2>1. Cleared \in Entries
    BY EntryAssumption DEF Cleared, Entries, Statuses
  <2>2. [status |-> "VERIFYING", progress |-> 0, verified |-> FALSE] \in Rows
    BY EntryAssumption DEF Rows, Statuses
  <2>3. QED
    BY <1>1, <2>1, <2>2 DEF Init, TypeInv, TypeOK, Entries, Statuses, Users
<1>3. QED
  BY <1>1, <1>2 DEF Init, IInv, UnbornInv, ThreadInv, WindowInv, CountedInv, RowInv, Counted

\* Who enters a section is alone in it.
LEMMA Entering ==
    ASSUME TypeInv, NEW u \in Users, NEW todo, Section(u, todo)
    PROVE  /\ lock = {} /\ lock' = {u}
           /\ writes'[u] = todo
           /\ \A v \in Users \ lock' : writes'[v] = <<>>
           /\ writes' = [v \in Users |-> writes'[v]]
           /\ UNCHANGED <<listed, metainfo, entry, row>>
BY DEF TypeInv, TypeOK, Section, Free, Users

\* The types, and what nothing but the thread's place decides.
LEMMA EnteringKeepsTypes ==
    ASSUME TypeInv, NEW u \in Users, NEW todo, Section(u, todo),
           pc' \in {"reopen", "found", "swarm", "end", "finished", pc},
           call' = call
    PROVE  TypeInv'
<1>1. /\ lock' = {u}
      /\ \A v \in Users \ lock' : writes'[v] = <<>>
      /\ writes' = [v \in Users |-> writes'[v]]
      /\ UNCHANGED <<listed, metainfo, entry, row>>
  BY Entering
<1>2. QED
  BY <1>1 DEF TypeInv, TypeOK, Users

\* The preparation, step by step.
LEMMA PrepareSteps ==
    ASSUME Prepare
    PROVE  \/ \E from \in {"reopen", "trackers", "files"} : Fail(from)
           \/ Step("trackers", "found") /\ Section("thread", <<>>)
           \/ /\ \/ Step("reopen", "trackers")
                 \/ Step("found", "files")
                 \/ Step("files", "verify")
              /\ UNCHANGED <<listed, metainfo, entry, lock, writes, row>>
<1>1. PICK step \in {<<"reopen", "trackers">>, <<"trackers", "found">>,
                     <<"found", "files">>, <<"files", "verify">>} :
        \/ step[1] # "found" /\ Fail(step[1])
        \/ /\ Step(step[1], step[2])
           /\ IF step[2] = "found" THEN Section("thread", <<>>)
              ELSE UNCHANGED <<listed, metainfo, entry, lock, writes, row>>
  BY DEF Prepare
<1>2. CASE step[1] # "found" /\ Fail(step[1])
  <2>1. step[1] \in {"reopen", "trackers", "files"}
    BY <1>2
  <2>. QED
    BY <1>2, <2>1
<1>3. CASE /\ Step(step[1], step[2])
           /\ IF step[2] = "found" THEN Section("thread", <<>>)
              ELSE UNCHANGED <<listed, metainfo, entry, lock, writes, row>>
  <2>1. \/ step[1] = "trackers" /\ step[2] = "found"
        \/ /\ step[2] # "found"
           /\ \/ step[1] = "reopen" /\ step[2] = "trackers"
              \/ step[1] = "found" /\ step[2] = "files"
              \/ step[1] = "files" /\ step[2] = "verify"
    OBVIOUS
  <2>. QED
    BY <1>3, <2>1
<1>. QED
  BY <1>1, <1>2, <1>3

LEMMA Failing ==
    ASSUME IInv, NEW from \in {"parse", "reopen", "trackers", "files"}, Fail(from)
    PROVE  IInv'
<1>1. pc = from /\ pc' = "finished" /\ call' = call /\ Section("thread", Error)
  BY DEF Fail, Step
<1>2. /\ lock = {} /\ lock' = {"thread"}
      /\ writes'["thread"] = Error
      /\ UNCHANGED <<listed, metainfo, entry, row>>
  BY <1>1, Entering DEF IInv, Users
<1>3. TypeInv'
  BY <1>1, EnteringKeepsTypes DEF IInv, Users
<1>4. ThreadInv'
  BY <1>1, <1>2 DEF ThreadInv, Error
<1>5. RowInv'
  BY <1>1, <1>2 DEF IInv, RowInv
<1>6. QED
  BY <1>1, <1>2, <1>3, <1>4, <1>5 DEF IInv, UnbornInv, WindowInv, CountedInv, Counted

LEMMA Parsing ==
    ASSUME IInv, Parsed
    PROVE  IInv'
<1> DEFINE todo == << <<"total_pieces", metainfo>>, <<"pieces_completed", 0>> >>
<1>1. pc = "parse" /\ pc' = "reopen" /\ call' = call /\ Section("thread", todo)
  BY DEF Parsed, Step
<1>2. /\ lock = {} /\ lock' = {"thread"}
      /\ writes'["thread"] = todo
      /\ UNCHANGED <<listed, metainfo, entry, row>>
  BY <1>1, Entering, Zenon DEF IInv, Users
<1>3. TypeInv'
  BY <1>1, EnteringKeepsTypes, Zenon DEF IInv, Users
<1>4. metainfo = Pieces
  BY DEF Parsed, IInv, TypeInv, TypeOK
<1>5. ThreadInv'
  BY <1>1, <1>2, <1>4 DEF ThreadInv
<1>6. RowInv'
  BY <1>1, <1>2 DEF IInv, RowInv
<1>7. QED
  BY <1>1, <1>2, <1>3, <1>5, <1>6 DEF IInv, UnbornInv, WindowInv, CountedInv, Counted

\* The note of the answers, a section that writes nothing that is followed here.
LEMMA Noting ==
    ASSUME IInv, Step("trackers", "found"), Section("thread", <<>>)
    PROVE  IInv'
<1>1. pc = "trackers" /\ pc' = "found" /\ call' = call
  BY DEF Step
<1>2. /\ lock = {} /\ lock' = {"thread"}
      /\ writes'["thread"] = <<>>
      /\ UNCHANGED <<listed, metainfo, entry, row>>
  BY Entering DEF IInv, Users
<1>3. TypeInv'
  BY <1>1, EnteringKeepsTypes DEF IInv, Users
<1>4. ThreadInv'
  BY <1>1, <1>2 DEF ThreadInv
<1>5. RowInv'
  BY <1>1, <1>2 DEF IInv, RowInv
<1>6. QED
  BY <1>1, <1>2, <1>3, <1>4, <1>5 DEF IInv, UnbornInv, WindowInv, CountedInv, Counted

LEMMA Preparing ==
    ASSUME IInv, Prepare
    PROVE  IInv'
<1>1. \/ \E from \in {"reopen", "trackers", "files"} : Fail(from)
      \/ Step("trackers", "found") /\ Section("thread", <<>>)
      \/ /\ \/ Step("reopen", "trackers")
            \/ Step("found", "files")
            \/ Step("files", "verify")
         /\ UNCHANGED <<listed, metainfo, entry, lock, writes, row>>
  BY PrepareSteps
<1>2. CASE \E from \in {"reopen", "trackers", "files"} : Fail(from)
  BY <1>2, Failing
<1>3. CASE Step("trackers", "found") /\ Section("thread", <<>>)
  BY <1>3, Noting
<1>4. CASE /\ \/ Step("reopen", "trackers")
              \/ Step("found", "files")
              \/ Step("files", "verify")
           /\ UNCHANGED <<listed, metainfo, entry, lock, writes, row>>
  <2>1. /\ pc \in {"reopen", "found", "files"} /\ pc' \in {"trackers", "files", "verify"}
        /\ "thread" \notin lock
        /\ call' = call /\ lock' = lock
        /\ UNCHANGED <<listed, metainfo, entry, writes, row>>
    BY <1>4 DEF Step
  <2>2. TypeInv'
    BY <2>1 DEF IInv, TypeInv, TypeOK
  <2>3. WindowInv'
    BY <2>1 DEF IInv, WindowInv
  <2>4. RowInv'
    BY <2>1 DEF IInv, RowInv
  <2>5. QED
    BY <2>1, <2>2, <2>3, <2>4 DEF IInv, UnbornInv, ThreadInv, CountedInv, Counted
<1>5. QED
  BY <1>1, <1>2, <1>3, <1>4

LEMMA AppendedOne ==
    ASSUME NEW a, NEW b, NEW c
    PROVE  <<a, b>> \o <<c>> = <<a, b, c>> /\ <<a, b>> \o <<>> = <<a, b>>
<1> DEFINE S == {a, b, c}
           s == <<a, b>> \o <<c>>
<1>1. <<a, b>> \in Seq(S) /\ <<>> \in Seq(S) /\ <<c>> \in Seq(S) /\ <<a, b, c>> \in Seq(S)
  OBVIOUS
<1>2. s \in Seq(S) /\ Len(s) = 3 /\ s[1] = a /\ s[2] = b /\ s[3] = c
  BY <1>1, ConcatProperties
<1>3. <<a, b>> \o <<>> = <<a, b>>
  BY <1>1, ConcatEmptySeq
<1> HIDE DEF s
<1>4. \A k \in 1 .. Len(s) : s[k] = <<a, b, c>>[k]
  BY <1>2
<1>5. s = <<a, b, c>>
  BY <1>1, <1>2, <1>4, SeqEqual
<1>6. QED
  BY <1>3, <1>5 DEF s

LEMMA AppendedTwo ==
    ASSUME NEW a, NEW b, NEW c, NEW d
    PROVE  <<a, b>> \o <<c, d>> = <<a, b, c, d>>
<1> DEFINE S == {a, b, c, d}
           s == <<a, b>> \o <<c, d>>
<1>1. <<a, b>> \in Seq(S) /\ <<c, d>> \in Seq(S) /\ <<a, b, c, d>> \in Seq(S)
  OBVIOUS
<1>2. s \in Seq(S) /\ Len(s) = 4 /\ s[1] = a /\ s[2] = b /\ s[3] = c /\ s[4] = d
  BY <1>1, ConcatProperties
<1> HIDE DEF s
<1>3. \A k \in 1 .. Len(s) : s[k] = <<a, b, c, d>>[k]
  BY <1>2
<1>4. s = <<a, b, c, d>>
  BY <1>1, <1>2, <1>3, SeqEqual
<1>5. QED
  BY <1>4 DEF s

LEMMA Verifying ==
    ASSUME IInv, NEW recovered \in 0 .. entry.total_pieces, Verified(recovered)
    PROVE  IInv'
<1> DEFINE todo == << <<"pieces_completed", recovered>>, <<"progress", recovered>> >>
                      \o VerifiedStatus(recovered)
<1>1. pc = "verify" /\ pc' = "swarm" /\ call' = call /\ Section("thread", todo)
  BY DEF Verified, Step
<1>2. /\ lock = {} /\ lock' = {"thread"}
      /\ writes'["thread"] = todo
      /\ UNCHANGED <<listed, metainfo, entry, row>>
  BY <1>1, Entering, Zenon DEF IInv, Users
<1>3. TypeInv'
  BY <1>1, EnteringKeepsTypes, Zenon DEF IInv, Users
<1>4. \/ todo = << <<"pieces_completed", recovered>>, <<"progress", recovered>> >>
           /\ entry.status # "SEEDING"
      \/ todo = << <<"pieces_completed", recovered>>, <<"progress", recovered>>,
                   <<"status", "DOWNLOADING">> >>
      \/ todo = << <<"pieces_completed", recovered>>, <<"progress", recovered>>,
                   <<"status", "SEEDING">>, Flag >>
           /\ recovered = entry.total_pieces
  <2>1. CASE entry.status = "PAUSED"
    BY <2>1, AppendedOne, Zenon DEF VerifiedStatus
  <2>2. CASE entry.status # "PAUSED" /\ recovered = entry.total_pieces
    <3>1. VerifiedStatus(recovered) = << <<"status", "SEEDING">>, Flag >>
      BY <2>2, Zenon DEF VerifiedStatus, Flag
    <3>2. todo = << <<"pieces_completed", recovered>>, <<"progress", recovered>>,
                    <<"status", "SEEDING">>, Flag >>
      <4>1. << <<"pieces_completed", recovered>>, <<"progress", recovered>> >>
                \o << <<"status", "SEEDING">>, Flag >>
              = << <<"pieces_completed", recovered>>, <<"progress", recovered>>,
                   <<"status", "SEEDING">>, Flag >>
        BY AppendedTwo, Zenon
      <4>2. QED
        BY <3>1, <4>1, Zenon
    <3>3. QED
      BY <2>2, <3>2, Zenon
  <2>3. CASE entry.status # "PAUSED" /\ recovered # entry.total_pieces
    BY <2>3, AppendedOne, Zenon DEF VerifiedStatus
  <2>4. QED
    BY <2>1, <2>2, <2>3
<1>5. Counting(todo)
  BY <1>4 DEF Counting
<1>6. ThreadInv'
  BY <1>1, <1>2, <1>5 DEF ThreadInv, Counting, Complete
<1>7. RowInv'
  BY <1>1, <1>2 DEF IInv, RowInv
<1>8. QED
  BY <1>1, <1>2, <1>3, <1>6, <1>7 DEF IInv, UnbornInv, WindowInv, CountedInv, Counted

\* The sections of the swarm: a piece that completes, and those that write nothing.
LEMMA Swarming ==
    ASSUME IInv, PieceDone \/ Look
    PROVE  IInv'
<1>0. entry.pieces_completed \in Nat /\ entry.total_pieces \in Nat
  BY EntryAssumption DEF IInv, TypeInv, TypeOK
<1>1. PICK todo : /\ pc = "swarm" /\ pc' = "swarm" /\ call' = call /\ "thread" \notin lock
                  /\ Section("thread", todo)
                  /\ \/ todo = <<>>
                     \/ /\ entry.pieces_completed < entry.total_pieces
                        /\ todo = << <<"pieces_completed", entry.pieces_completed + 1>>,
                                     <<"progress", entry.pieces_completed + 1>> >>
  BY DEF PieceDone, Look, Step
<1>2. /\ lock = {} /\ lock' = {"thread"}
      /\ writes'["thread"] = todo
      /\ UNCHANGED <<listed, metainfo, entry, row>>
  BY <1>1, Entering, Zenon DEF IInv, Users
<1>3. TypeInv'
  BY <1>1, EnteringKeepsTypes, Zenon DEF IInv, Users
<1>4. /\ entry.pieces_completed = entry.progress
      /\ entry.status = "SEEDING" => Complete
  BY <1>1 DEF IInv, CountedInv, Counted
<1>5. Counting(todo)
  <2>1. CASE todo = <<>>
    BY <1>4, <2>1 DEF Counting
  <2>2. CASE /\ entry.pieces_completed < entry.total_pieces
             /\ todo = << <<"pieces_completed", entry.pieces_completed + 1>>,
                          <<"progress", entry.pieces_completed + 1>> >>
    <3>1. entry.pieces_completed + 1 \in 0 .. entry.total_pieces
      BY <1>0, <2>2
    <3>2. entry.status # "SEEDING"
      BY <1>0, <1>4, <2>2 DEF Complete
    <3>3. QED
      BY <2>2, <3>1, <3>2 DEF Counting
  <2>3. QED
    BY <1>1, <2>1, <2>2
<1>6. ThreadInv'
  BY <1>1, <1>2, <1>5 DEF ThreadInv, Counting, Complete
<1>7. RowInv'
  <2>1. SUFFICES ASSUME row.verified, row.status = "SEEDING"
                 PROVE  RowInv'
    BY <1>2 DEF RowInv
  <2>2. Complete
    BY <2>1 DEF IInv, RowInv
  <2>3. todo = <<>>
    BY <1>0, <1>1, <2>2 DEF Complete
  <2>4. QED
    BY <1>1, <1>2, <1>4, <2>1, <2>2, <2>3 DEF IInv, RowInv, Complete, Finishing
<1>8. QED
  BY <1>1, <1>2, <1>3, <1>6, <1>7 DEF IInv, UnbornInv, WindowInv, CountedInv, Counted

LEMMA SwarmEnding ==
    ASSUME IInv, SwarmEnds
    PROVE  IInv'
<1>1. /\ pc = "swarm" /\ pc' = "epilogue" /\ call' = call /\ "thread" \notin lock
      /\ UNCHANGED <<listed, metainfo, entry, lock, writes, row>>
  BY DEF SwarmEnds, Step
<1>2. TypeInv'
  BY <1>1 DEF IInv, TypeInv, TypeOK
<1>3. WindowInv'
  BY <1>1 DEF IInv, WindowInv
<1>4. CountedInv'
  BY <1>1 DEF IInv, CountedInv, Counted, Complete
<1>5. RowInv'
  BY <1>1 DEF IInv, RowInv, Complete
<1>6. QED
  BY <1>1, <1>2, <1>3, <1>4, <1>5 DEF IInv, UnbornInv, ThreadInv

\* The two sections that follow the swarm.
LEMMA Ending ==
    ASSUME IInv, Epilogue \/ End
    PROVE  IInv'
<1>1. PICK todo : /\ pc \in {"epilogue", "end"} /\ pc' \in {"end", "finished"} /\ call' = call
                  /\ "thread" \notin lock
                  /\ Section("thread", todo)
                  /\ todo = <<>> \/ todo = SeedingIfComplete
  BY DEF Epilogue, End, Step
<1>2. /\ lock = {} /\ lock' = {"thread"}
      /\ writes'["thread"] = todo
      /\ UNCHANGED <<listed, metainfo, entry, row>>
  BY <1>1, Entering, Zenon DEF IInv, Users
<1>3. TypeInv'
  BY <1>1, EnteringKeepsTypes, Zenon DEF IInv, Users
<1>4. /\ entry.pieces_completed = entry.progress
      /\ entry.status = "SEEDING" => Complete
  BY <1>1 DEF IInv, CountedInv, Counted
<1>5. Finishing(todo)
  <2>1. CASE todo = <<>>
    BY <1>4, <2>1 DEF Finishing
  <2>2. CASE todo = SeedingIfComplete /\ entry.pieces_completed = entry.total_pieces
    <3>1. todo = << <<"status", "SEEDING">>, Flag, <<"progress", entry.total_pieces>> >>
      BY <2>2, Zenon DEF SeedingIfComplete, Flag
    <3>2. QED
      BY <1>4, <2>2, <3>1 DEF Finishing, Complete
  <2>3. CASE todo = SeedingIfComplete /\ entry.pieces_completed # entry.total_pieces
    BY <1>4, <2>3 DEF Finishing, SeedingIfComplete
  <2>4. QED
    BY <1>1, <2>1, <2>2, <2>3
<1>6. Finishing(writes["thread"])'
  BY <1>2, <1>5 DEF Finishing, Complete
<1>7. ThreadInv'
  BY <1>1, <1>6 DEF ThreadInv
<1>8. RowInv'
  BY <1>1, <1>2, <1>6 DEF IInv, RowInv, Complete
<1>9. QED
  BY <1>1, <1>2, <1>3, <1>7, <1>8 DEF IInv, UnbornInv, WindowInv, CountedInv, Counted

------------------------------------------------------------------------------
(* The writes of the thread *)

LEMMA Bounds ==
    ASSUME TypeInv
    PROVE  /\ entry.total_pieces \in 0 .. Pieces
           /\ entry.total_pieces \in Nat
           /\ \A r \in 0 .. entry.total_pieces : r \in 0 .. Pieces
BY EntryAssumption DEF TypeInv, TypeOK

LEMMA FinishingWrite ==
    ASSUME TypeInv, Write("thread"), Finishing(writes["thread"])
    PROVE  /\ entry' \in Entries
           /\ entry'.total_pieces = entry.total_pieces
           /\ Complete /\ Complete'
           /\ Finishing(writes["thread"])'
<1> DEFINE last == <<"progress", entry.total_pieces>>
<1>1. "thread" \in Users /\ writes["thread"] # <<>> /\ writes'["thread"] = Tail(writes["thread"])
  BY DEF Write, TypeInv, Users
<1>2. Complete
  BY <1>1 DEF Finishing
<1>3. CASE writes["thread"] = << <<"status", "SEEDING">>, Flag, last >>
  <2>1. writes["thread"][1] = <<"status", "SEEDING">> /\ writes'["thread"] = << Flag, last >>
    BY <1>1, <1>3, Tails
  <2>2. entry' \in Entries /\ entry'.total_pieces = entry.total_pieces
        /\ entry'.pieces_completed = entry.pieces_completed /\ entry'.progress = entry.progress
    BY <1>1, <2>1, StatusWritten DEF Statuses
  <2>3. QED
    BY <1>2, <2>1, <2>2 DEF Finishing, Complete
<1>4. CASE writes["thread"] = << Flag, last >>
  <2>1. writes["thread"][1] = Flag /\ writes'["thread"] = << last >>
    BY <1>1, <1>4, Tails
  <2>2. entry' \in Entries /\ entry'.total_pieces = entry.total_pieces
        /\ entry'.pieces_completed = entry.pieces_completed /\ entry'.progress = entry.progress
    BY <1>1, <2>1, SeedingWritten DEF Flag
  <2>3. QED
    BY <1>2, <2>1, <2>2 DEF Finishing, Complete
<1>5. CASE writes["thread"] = << last >>
  <2>1. writes["thread"][1] = last /\ writes'["thread"] = <<>>
    BY <1>1, <1>5, Tails
  <2>2. entry' \in Entries /\ entry'.total_pieces = entry.total_pieces
        /\ entry'.pieces_completed = entry.pieces_completed /\ entry'.progress = entry.total_pieces
        /\ entry'.status = entry.status
    BY <1>1, <2>1, Bounds, NumberWritten
  <2>3. QED
    BY <1>2, <2>1, <2>2 DEF Finishing, Complete
<1>6. QED
  BY <1>1, <1>3, <1>4, <1>5 DEF Finishing

LEMMA CountingWrite ==
    ASSUME TypeInv, Write("thread"), Counting(writes["thread"])
    PROVE  entry' \in Entries /\ Counting(writes["thread"])'
<1> DEFINE W == writes["thread"]
<1>1. "thread" \in Users /\ W # <<>> /\ W' = Tail(W)
  BY DEF Write, TypeInv, Users
<1>2. ASSUME NEW r \in 0 .. entry.total_pieces,
             W[1] = <<"pieces_completed", r>>,
             \/ W' = << <<"progress", r>> >> /\ entry.status # "SEEDING"
             \/ W' = << <<"progress", r>>, <<"status", "DOWNLOADING">> >>
             \/ W' = << <<"progress", r>>, <<"status", "SEEDING">>, Flag >>
                    /\ r = entry.total_pieces
      PROVE  entry' \in Entries /\ Counting(W)'
  <2>1. /\ entry' \in Entries /\ entry'.status = entry.status
        /\ entry'.total_pieces = entry.total_pieces
        /\ entry'.pieces_completed = r
    BY <1>1, <1>2, Bounds, NumberWritten
  <2>2. QED
    BY <1>2, <2>1 DEF Counting
<1>3. ASSUME NEW r \in 0 .. entry.total_pieces, entry.pieces_completed = r,
             W[1] = <<"progress", r>>,
             \/ W' = <<>> /\ entry.status # "SEEDING"
             \/ W' = << <<"status", "DOWNLOADING">> >>
             \/ W' = << <<"status", "SEEDING">>, Flag >> /\ r = entry.total_pieces
      PROVE  entry' \in Entries /\ Counting(W)'
  <2>1. /\ entry' \in Entries /\ entry'.status = entry.status
        /\ entry'.total_pieces = entry.total_pieces
        /\ entry'.pieces_completed = r /\ entry'.progress = r
    BY <1>1, <1>3, Bounds, NumberWritten
  <2>2. QED
    BY <1>3, <2>1 DEF Counting, Complete
<1>4. ASSUME entry.pieces_completed = entry.progress,
             NEW s \in Statuses, W[1] = <<"status", s>>,
             \/ W' = <<>> /\ s = "DOWNLOADING"
             \/ W' = << Flag >> /\ Complete
      PROVE  entry' \in Entries /\ Counting(W)'
  <2>1. /\ entry' \in Entries /\ entry'.status = s
        /\ entry'.total_pieces = entry.total_pieces
        /\ entry'.pieces_completed = entry.pieces_completed /\ entry'.progress = entry.progress
    BY <1>1, <1>4, StatusWritten
  <2>2. QED
    BY <1>4, <2>1 DEF Counting, Complete
<1>5. ASSUME Complete, W[1] = Flag, W' = <<>>
      PROVE  entry' \in Entries /\ Counting(W)'
  <2>1. /\ entry' \in Entries /\ entry'.status = entry.status
        /\ entry'.total_pieces = entry.total_pieces
        /\ entry'.pieces_completed = entry.pieces_completed /\ entry'.progress = entry.progress
    BY <1>1, <1>5, SeedingWritten DEF Flag
  <2>2. QED
    BY <1>5, <2>1 DEF Counting, Complete
<1>6. CASE \E r \in 0 .. entry.total_pieces :
              \/ W = << <<"pieces_completed", r>>, <<"progress", r>> >> /\ entry.status # "SEEDING"
              \/ W = << <<"pieces_completed", r>>, <<"progress", r>>, <<"status", "DOWNLOADING">> >>
              \/ /\ W = << <<"pieces_completed", r>>, <<"progress", r>>, <<"status", "SEEDING">>, Flag >>
                 /\ r = entry.total_pieces
  <2>0. PICK r \in 0 .. entry.total_pieces : 
              \/ W = << <<"pieces_completed", r>>, <<"progress", r>> >> /\ entry.status # "SEEDING"
              \/ W = << <<"pieces_completed", r>>, <<"progress", r>>, <<"status", "DOWNLOADING">> >>
              \/ /\ W = << <<"pieces_completed", r>>, <<"progress", r>>, <<"status", "SEEDING">>, Flag >>
                 /\ r = entry.total_pieces
    BY <1>6
  <2>1. CASE W = << <<"pieces_completed", r>>, <<"progress", r>> >> /\ entry.status # "SEEDING"
    <3>1. W[1] = <<"pieces_completed", r>> /\ W' = << <<"progress", r>> >>
      BY <1>1, <2>1, Tails
    <3>2. QED
      BY <1>2, <2>0, <2>1, <3>1
  <2>2. CASE W = << <<"pieces_completed", r>>, <<"progress", r>>, <<"status", "DOWNLOADING">> >>
    <3>1. W[1] = <<"pieces_completed", r>> /\ W' = << <<"progress", r>>, <<"status", "DOWNLOADING">> >>
      BY <1>1, <2>2, Tails
    <3>2. QED
      BY <1>2, <2>0, <2>2, <3>1
  <2>3. CASE W = << <<"pieces_completed", r>>, <<"progress", r>>, <<"status", "SEEDING">>, Flag >> /\ r = entry.total_pieces
    <3>1. W[1] = <<"pieces_completed", r>> /\ W' = << <<"progress", r>>, <<"status", "SEEDING">>, Flag >>
      BY <1>1, <2>3, Tails
    <3>2. QED
      BY <1>2, <2>0, <2>3, <3>1
  <2>4. QED
    BY <2>0, <2>1, <2>2, <2>3
<1>7. CASE \E r \in 0 .. entry.total_pieces :
              /\ entry.pieces_completed = r
              /\ \/ W = << <<"progress", r>> >> /\ entry.status # "SEEDING"
                 \/ W = << <<"progress", r>>, <<"status", "DOWNLOADING">> >>
                 \/ /\ W = << <<"progress", r>>, <<"status", "SEEDING">>, Flag >>
                    /\ r = entry.total_pieces
  <2>0. PICK r \in 0 .. entry.total_pieces : 
              /\ entry.pieces_completed = r
              /\ \/ W = << <<"progress", r>> >> /\ entry.status # "SEEDING"
                 \/ W = << <<"progress", r>>, <<"status", "DOWNLOADING">> >>
                 \/ /\ W = << <<"progress", r>>, <<"status", "SEEDING">>, Flag >>
                    /\ r = entry.total_pieces
    BY <1>7
  <2>1. CASE W = << <<"progress", r>> >> /\ entry.status # "SEEDING"
    <3>1. W[1] = <<"progress", r>> /\ W' = <<>>
      BY <1>1, <2>1, Tails
    <3>2. QED
      BY <1>3, <2>0, <2>1, <3>1
  <2>2. CASE W = << <<"progress", r>>, <<"status", "DOWNLOADING">> >>
    <3>1. W[1] = <<"progress", r>> /\ W' = << <<"status", "DOWNLOADING">> >>
      BY <1>1, <2>2, Tails
    <3>2. QED
      BY <1>3, <2>0, <2>2, <3>1
  <2>3. CASE W = << <<"progress", r>>, <<"status", "SEEDING">>, Flag >> /\ r = entry.total_pieces
    <3>1. W[1] = <<"progress", r>> /\ W' = << <<"status", "SEEDING">>, Flag >>
      BY <1>1, <2>3, Tails
    <3>2. QED
      BY <1>3, <2>0, <2>3, <3>1
  <2>4. QED
    BY <2>0, <2>1, <2>2, <2>3
<1>8. CASE /\ entry.pieces_completed = entry.progress
           /\ \/ W = << <<"status", "DOWNLOADING">> >>
              \/ W = << <<"status", "SEEDING">>, Flag >> /\ Complete
              \/ W = << Flag >> /\ Complete
  <2>1. CASE W = << <<"status", "DOWNLOADING">> >>
    BY <1>1, <1>4, <1>8, <2>1, Tails DEF Statuses
  <2>2. CASE W = << <<"status", "SEEDING">>, Flag >> /\ Complete
    BY <1>1, <1>4, <1>8, <2>2, Tails DEF Statuses
  <2>3. CASE W = << Flag >> /\ Complete
    BY <1>1, <1>5, <2>3, Tails
  <2>4. QED
    BY <1>8, <2>1, <2>2, <2>3
<1>9. QED
  BY <1>1, <1>6, <1>7, <1>8 DEF Counting

\* The writes before the pieces are counted.
LEMMA ReopenWrite ==
    ASSUME TypeInv, Write("thread"), metainfo = Pieces,
           \/ writes["thread"] = << <<"total_pieces", metainfo>>, <<"pieces_completed", 0>> >>
           \/ writes["thread"] = << <<"pieces_completed", 0>> >>
    PROVE  /\ entry' \in Entries
           /\ \/ writes'["thread"] = << <<"pieces_completed", 0>> >>
              \/ writes'["thread"] = <<>>
<1>1. "thread" \in Users /\ writes'["thread"] = Tail(writes["thread"])
  BY DEF Write, TypeInv, Users
<1>2. metainfo \in 0 .. Pieces /\ 0 \in 0 .. Pieces
  BY EntryAssumption
<1>3. CASE writes["thread"] = << <<"total_pieces", metainfo>>, <<"pieces_completed", 0>> >>
  <2>1. writes["thread"][1] = <<"total_pieces", metainfo>>
    BY <1>3, Tails
  <2>2. QED
    BY <1>1, <1>2, <1>3, <2>1, Tails, NumberWritten
<1>4. CASE writes["thread"] = << <<"pieces_completed", 0>> >>
  <2>1. writes["thread"][1] = <<"pieces_completed", 0>>
    BY <1>4, Tails
  <2>2. QED
    BY <1>1, <1>2, <1>4, <2>1, Tails, NumberWritten
<1>5. QED
  BY <1>3, <1>4

LEMMA ErrorWrite ==
    ASSUME TypeInv, Write("thread"), writes["thread"] = Error
    PROVE  entry' \in Entries /\ writes'["thread"] = <<>>
<1>1. "thread" \in Users /\ writes'["thread"] = Tail(writes["thread"])
  BY DEF Write, TypeInv, Users
<1>2. writes["thread"][1] = <<"status", "ERROR">> /\ Tail(writes["thread"]) = <<>>
  BY Tails DEF Error
<1>3. QED
  BY <1>1, <1>2, StatusWritten DEF Statuses

LEMMA ThreadWriting ==
    ASSUME IInv, Write("thread")
    PROVE  IInv'
<1>1. /\ "thread" \in Users /\ writes["thread"] # <<>>
      /\ lock = {"thread"}
      /\ UNCHANGED <<listed, metainfo, lock, pc, call, row>>
      /\ writes' = [writes EXCEPT !["thread"] = Tail(@)]
  BY DEF Write, IInv, TypeInv, TypeOK, Users
<1>2. \/ /\ pc = "reopen" /\ metainfo = Pieces
         /\ \/ writes["thread"] = << <<"total_pieces", metainfo>>, <<"pieces_completed", 0>> >>
            \/ writes["thread"] = << <<"pieces_completed", 0>> >>
      \/ pc = "swarm" /\ Counting(writes["thread"])
      \/ pc \in {"end", "finished"} /\ Finishing(writes["thread"])
      \/ pc = "finished" /\ writes["thread"] = Error
  BY <1>1 DEF IInv, ThreadInv
<1>3. entry' \in Entries /\ ThreadInv'
  <2>1. CASE /\ pc = "reopen" /\ metainfo = Pieces
             /\ \/ writes["thread"] = << <<"total_pieces", metainfo>>, <<"pieces_completed", 0>> >>
                \/ writes["thread"] = << <<"pieces_completed", 0>> >>
    BY <1>1, <2>1, ReopenWrite DEF IInv, ThreadInv
  <2>2. CASE pc = "swarm" /\ Counting(writes["thread"])
    BY <1>1, <2>2, CountingWrite DEF IInv, ThreadInv
  <2>3. CASE pc \in {"end", "finished"} /\ Finishing(writes["thread"])
    BY <1>1, <2>3, FinishingWrite DEF IInv, ThreadInv
  <2>4. CASE pc = "finished" /\ writes["thread"] = Error
    BY <1>1, <2>4, ErrorWrite DEF IInv, ThreadInv
  <2>5. QED
    BY <1>2, <2>1, <2>2, <2>3, <2>4
<1>4. TypeInv'
  <2>1. writes' = [u \in Users |-> writes'[u]]
    BY <1>1 DEF IInv, TypeInv
  <2>2. \A u \in Users \ lock' : writes'[u] = <<>>
    BY <1>1 DEF IInv, TypeInv, TypeOK
  <2>3. QED
    BY <1>1, <1>3, <2>1, <2>2 DEF IInv, TypeInv, TypeOK, Entries, Statuses
<1>5. RowInv'
  <2>1. SUFFICES ASSUME row.verified, row.status = "SEEDING"
                 PROVE  RowInv'
    BY <1>1 DEF RowInv
  <2>2. Finishing(writes["thread"]) /\ (call # "progress" => row.progress = entry.total_pieces)
        /\ pc \in {"swarm", "epilogue", "end", "finished"}
    BY <1>1, <2>1 DEF IInv, RowInv
  <2>3. Complete' /\ Finishing(writes["thread"])' /\ entry'.total_pieces = entry.total_pieces
    BY <2>2, FinishingWrite DEF IInv
  <2>4. QED
    BY <1>1, <2>2, <2>3 DEF RowInv
<1>6. QED
  BY <1>1, <1>3, <1>4, <1>5 DEF IInv, UnbornInv, WindowInv, CountedInv, Counted

------------------------------------------------------------------------------
(* The steps of the window *)

LEMMA WindowWriting ==
    ASSUME IInv, Write("window")
    PROVE  IInv'
<1>1. /\ "window" \in Users /\ writes["window"] # <<>>
      /\ lock = {"window"} /\ "thread" \notin lock
      /\ UNCHANGED <<listed, metainfo, lock, pc, call, row>>
      /\ writes' = [writes EXCEPT !["window"] = Tail(@)]
      /\ writes'["window"] = Tail(writes["window"])
  BY DEF Write, IInv, TypeInv, TypeOK, Users
<1>2. PICK s \in {"PAUSED", "DOWNLOADING", "SEEDING"} :
          /\ writes["window"] = << <<"status", s>> >>
          /\ s = "SEEDING" => entry.pieces_completed = entry.total_pieces
  BY <1>1 DEF IInv, WindowInv
<1>3. writes["window"][1] = <<"status", s>> /\ writes'["window"] = <<>>
  BY <1>1, <1>2, Tails
<1>4. /\ entry' \in Entries /\ entry'.status = s
      /\ entry'.total_pieces = entry.total_pieces
      /\ entry'.pieces_completed = entry.pieces_completed /\ entry'.progress = entry.progress
  BY <1>1, <1>3, StatusWritten DEF IInv, Statuses
<1>5. TypeInv'
  <2>1. writes' = [u \in Users |-> writes'[u]]
    BY <1>1 DEF IInv, TypeInv
  <2>2. \A u \in Users \ lock' : writes'[u] = <<>>
    BY <1>1 DEF IInv, TypeInv, TypeOK
  <2>3. QED
    BY <1>1, <1>4, <2>1, <2>2 DEF IInv, TypeInv, TypeOK, Entries, Statuses
<1>6. CountedInv'
  BY <1>1, <1>2, <1>4 DEF IInv, CountedInv, Counted, Complete
<1>7. RowInv'
  BY <1>1, <1>4 DEF IInv, RowInv, Complete
<1>8. QED
  BY <1>1, <1>3, <1>5, <1>6, <1>7 DEF IInv, UnbornInv, ThreadInv, WindowInv

LEMMA Leaving ==
    ASSUME IInv, NEW u \in Users, Leave(u)
    PROVE  IInv'
<1>1. /\ lock = {u} /\ lock' = {} /\ writes[u] = <<>>
      /\ call' = IF u = "window" THEN "none" ELSE call
      /\ UNCHANGED <<listed, metainfo, entry, writes, pc, row>>
  BY DEF Leave, Unlocked, IInv, TypeInv, TypeOK, Users
<1>2. TypeInv'
  BY <1>1 DEF IInv, TypeInv, TypeOK
<1>3. CountedInv'
  <2>1. CASE u = "window"
    BY <1>1, <2>1 DEF IInv, CountedInv, Counted, Complete
  <2>2. CASE u = "thread"
    BY <1>1, <2>2 DEF IInv, ThreadInv, CountedInv, Counted, Counting, Finishing, Complete, Error
  <2>3. QED
    BY <2>1, <2>2 DEF Users
<1>4. RowInv'
  BY <1>1 DEF IInv, WindowInv, RowInv, Complete
<1>5. QED
  BY <1>1, <1>2, <1>3, <1>4 DEF IInv, UnbornInv, ThreadInv, WindowInv

LEMMA Adding ==
    ASSUME IInv, NEW pieces \in {Pieces, NoMetainfo}, ts_add_torrent(pieces)
    PROVE  IInv'
<1>1. /\ pc = "unborn" /\ pc' = "parse" /\ listed' = TRUE /\ lock = {} /\ lock' = {}
      /\ metainfo' \in {NoMetainfo, Pieces}
      /\ entry' = Cleared
      /\ UNCHANGED <<writes, call, row>>
  BY DEF ts_add_torrent, IInv, UnbornInv
<1>2. Cleared \in Entries
  BY EntryAssumption DEF Cleared, Entries, Statuses
<1>3. TypeInv'
  BY <1>1, <1>2 DEF IInv, TypeInv, TypeOK, Entries, Statuses
<1>4. RowInv'
  BY <1>1 DEF IInv, RowInv
<1>5. QED
  BY <1>1, <1>3, <1>4 DEF IInv, UnbornInv, ThreadInv, WindowInv, CountedInv, Counted

LEMMA Asking ==
    ASSUME IInv, NEW c \in {"pause", "resume", "remove", "status"}, Ask(c)
    PROVE  IInv'
<1>1. /\ listed /\ call = "none" /\ call' = c
      /\ UNCHANGED <<listed, metainfo, entry, lock, writes, pc, row>>
  BY DEF Ask
<1>2. TypeInv'
  BY <1>1 DEF IInv, TypeInv, TypeOK
<1>3. WindowInv'
  BY <1>1 DEF IInv, WindowInv
<1>4. ThreadInv'
  BY <1>1 DEF IInv, ThreadInv, Counting, Finishing, Complete
<1>5. CountedInv' /\ RowInv'
  BY <1>1 DEF IInv, CountedInv, Counted, RowInv, Complete, Finishing
<1>6. QED
  BY <1>1, <1>2, <1>3, <1>4, <1>5 DEF IInv, UnbornInv

LEMMA PausingOrResuming ==
    ASSUME IInv, ts_pause_torrent \/ ts_resume_torrent
    PROVE  IInv'
<1>1. PICK todo : /\ call \in {"pause", "resume"}
                  /\ Section("window", todo)
                  /\ UNCHANGED <<pc, call>>
                  /\ \/ todo = <<>>
                     \/ todo = << <<"status", "PAUSED">> >>
                     \/ todo = << <<"status", "DOWNLOADING">> >>
                     \/ /\ todo = << <<"status", "SEEDING">> >>
                        /\ entry.pieces_completed = entry.total_pieces
  <2>1. CASE ts_pause_torrent
    BY <2>1 DEF ts_pause_torrent
  <2>2. CASE ts_resume_torrent
    BY <2>2 DEF ts_resume_torrent
  <2>3. QED
    BY <2>1, <2>2
<1>2. /\ lock = {} /\ lock' = {"window"} /\ writes'["window"] = todo
      /\ UNCHANGED <<listed, metainfo, entry, row>>
  BY <1>1, Entering, Zenon DEF IInv, Users
<1>3. TypeInv'
  BY <1>1, EnteringKeepsTypes, Zenon DEF IInv, Users
<1>4. CountedInv' /\ RowInv'
  BY <1>1, <1>2 DEF IInv, CountedInv, Counted, RowInv, Complete
<1>5. WindowInv'
  BY <1>1, <1>2 DEF WindowInv
<1>6. QED
  BY <1>1, <1>2, <1>3, <1>4, <1>5 DEF IInv, UnbornInv, ThreadInv

LEMMA Removing ==
    ASSUME IInv, Removed
    PROVE  IInv'
<1>1. /\ call = "remove" /\ call' = "none" /\ pc = "finished" /\ "thread" \notin lock
      /\ listed' = FALSE
      /\ UNCHANGED <<metainfo, entry, lock, writes, pc, row>>
  BY DEF Removed
<1>2. TypeInv'
  BY <1>1 DEF IInv, TypeInv, TypeOK
<1>3. WindowInv'
  BY <1>1 DEF IInv, WindowInv
<1>4. RowInv'
  BY <1>1 DEF IInv, RowInv, Complete
<1>5. QED
  BY <1>1, <1>2, <1>3, <1>4 DEF IInv, UnbornInv, ThreadInv, CountedInv, Counted

\* The first field tells whether the row counts, the second is that of the
\* same torrent, which has been complete in between.
LEMMA Reading ==
    ASSUME IInv, NEW k \in DOMAIN Fields, Read(k)
    PROVE  IInv'
<1>1. /\ call = Fields[k]
      /\ UNCHANGED <<listed, metainfo, entry, lock, writes, pc>>
      /\ row \in Rows /\ entry \in Entries
  BY DEF Read, IInv, TypeInv, TypeOK, Entries, Statuses
<1>2. Fields[1] = "status" /\ Fields[2] = "progress" /\ Len(Fields) = 2 /\ DOMAIN Fields = {1, 2}
  BY DEF Fields
<1>3. /\ call' = IF k < Len(Fields) THEN Fields[k + 1] ELSE "none"
      /\ call = "progress" => lock = {}
  BY Zenon DEF Read
<1>4. CASE k = 1
  <2>1. call = "status" /\ call' = "progress"
    BY <1>1, <1>2, <1>3, <1>4
  <2>2. row' = [row EXCEPT !["status"] = entry["status"],
                           !.verified = IF k = 1 THEN Counted ELSE row.verified]
    BY <1>2, <1>4, Zenon DEF Read
  <2>3. (IF k = 1 THEN Counted ELSE row.verified) \in BOOLEAN
    BY <1>1 DEF Counted, Rows
  <2>4. row' \in Rows /\ row'.status = entry.status
    BY <1>1, <2>2, <2>3 DEF Rows, Entries
  <2>5. row'.verified <=> Counted
    BY <1>1, <1>4, <2>2 DEF Rows
  <2>6. TypeInv'
    BY <1>1, <2>1, <2>4 DEF IInv, TypeInv, TypeOK
  <2>7. RowInv'
    <3>1. SUFFICES ASSUME row'.verified, row'.status = "SEEDING"
                   PROVE  RowInv'
      BY DEF RowInv
    <3>2. Counted /\ Complete
      BY <2>4, <2>5, <3>1 DEF IInv, CountedInv
    <3>3. QED
      BY <1>1, <2>1, <3>2 DEF RowInv, Counted, Complete
  <2>8. QED
    BY <1>1, <2>1, <2>6, <2>7 DEF IInv, UnbornInv, ThreadInv, WindowInv, CountedInv, Counted,
                                Complete, Counting, Finishing
<1>5. CASE k = 2
  <2>1. call = "progress" /\ call' = "none" /\ lock = {}
    BY <1>1, <1>2, <1>3, <1>5
  <2>2. row' = [row EXCEPT !["progress"] = entry["progress"],
                           !.verified = IF k = 1 THEN Counted ELSE row.verified]
    BY <1>2, <1>5, Zenon DEF Read
  <2>3. (IF k = 1 THEN Counted ELSE row.verified) \in BOOLEAN
    BY <1>1 DEF Counted, Rows
  <2>4. row' \in Rows /\ row'.status = row.status /\ row'.progress = entry.progress
    BY <1>1, <2>2, <2>3 DEF Rows, Entries
  <2>5. row'.verified = row.verified
    <3>1. (IF k = 1 THEN Counted ELSE row.verified) = row.verified
      BY <1>5
    <3>2. row' = [row EXCEPT !["progress"] = entry["progress"], !.verified = row.verified]
      BY <2>2, <3>1, Zenon
    <3>3. QED
      BY <1>1, <3>2 DEF Rows
  <2>6. TypeInv'
    BY <1>1, <2>1, <2>4 DEF IInv, TypeInv, TypeOK
  <2>7. RowInv'
    BY <1>1, <2>1, <2>4, <2>5 DEF IInv, RowInv, Complete, Finishing
  <2>8. QED
    BY <1>1, <2>1, <2>6, <2>7 DEF IInv, UnbornInv, ThreadInv, WindowInv, CountedInv, Counted,
                                Complete, Counting, Finishing
<1>6. QED
  BY <1>2, <1>4, <1>5

------------------------------------------------------------------------------
(* Theorems *)

LEMMA Stuttering ==
    ASSUME IInv, UNCHANGED vars
    PROVE  IInv'
<1>1. UNCHANGED <<listed, metainfo, entry, lock, writes, pc, call, row>>
  BY DEF vars
<1>2. TypeInv'
  BY <1>1 DEF IInv, TypeInv, TypeOK
<1>3. ThreadInv' /\ WindowInv'
  BY <1>1 DEF IInv, ThreadInv, WindowInv, Counting, Finishing, Complete
<1>4. CountedInv' /\ RowInv'
  BY <1>1 DEF IInv, CountedInv, Counted, RowInv, Complete, Finishing
<1>5. QED
  BY <1>1, <1>2, <1>3, <1>4 DEF IInv, UnbornInv

\* No step of either thread breaks it.
LEMMA Stepping ==
    ASSUME IInv, [Next]_vars
    PROVE  IInv'
<1>1. CASE Unusable
  BY <1>1, Failing DEF Unusable
<1>2. CASE Parsed
  BY <1>2, Parsing
<1>3. CASE Prepare
  BY <1>3, Preparing
<1>4. CASE \E recovered \in 0 .. entry.total_pieces : Verified(recovered)
  BY <1>4, Verifying
<1>5. CASE PieceDone \/ Look
  BY <1>5, Swarming
<1>6. CASE SwarmEnds
  BY <1>6, SwarmEnding
<1>7. CASE Epilogue \/ End
  BY <1>7, Ending
<1>8. CASE Write("thread")
  BY <1>8, ThreadWriting
<1>9. CASE Leave("thread") \/ Leave("window")
  BY <1>9, Leaving DEF Users
<1>10. CASE \E pieces \in {Pieces, NoMetainfo} : ts_add_torrent(pieces)
  BY <1>10, Adding
<1>11. CASE \E c \in {"pause", "resume", "remove", Fields[1]} : Ask(c)
  BY <1>11, Asking DEF Fields
<1>12. CASE ts_pause_torrent \/ ts_resume_torrent
  BY <1>12, PausingOrResuming
<1>13. CASE Removed
  BY <1>13, Removing
<1>14. CASE \E k \in DOMAIN Fields : Read(k)
  BY <1>14, Reading
<1>15. CASE Write("window")
  BY <1>15, WindowWriting
<1>16. CASE UNCHANGED vars
  BY <1>16, Stuttering
<1>17. QED
  BY <1>1, <1>2, <1>3, <1>4, <1>5, <1>6, <1>7, <1>8, <1>9, <1>10, <1>11, <1>12, <1>13,
     <1>14, <1>15, <1>16 DEF Next, download_thread, Window, GoesOn

\* The inductive invariant: what each thread has still to write of its section
\* (EntryLocks takes the sections of torrent_session.c:92-277, 371-408 and
\* swarm.c:303-309 apart), and what a row read in the middle relies on.
THEOREM Inductive == Spec => []IInv
  BY Initially, Stepping, PTL DEF Spec

\* The variables keep their types; the entry's lock has one holder at most, and
\* only its holder is writing.
THEOREM TypeCorrect == Spec => []TypeOK
<1>1. IInv => TypeOK
  BY DEF IInv, TypeInv
<1>2. QED
  BY <1>1, Inductive, PTL

\* A row that says "Seeding" is complete, although poll reads its fields at
\* different moments (TorrentBackend.cpp:57-62) and the status without the lock.
THEOREM RowsAreTrue == Spec => []RowTruthful
<1>1. IInv => RowTruthful
  BY DEF IInv, RowInv, RowTruthful
<1>2. QED
  BY <1>1, Inductive, PTL

------------------------------------------------------------------------------
(* The sections, seen from outside *)

FieldNames == {"status", "seeding", "total_pieces", "pieces_completed", "progress"}

\* A sequence of writes that goes to no field twice.
Once(todo) ==
    /\ Len(todo) \in Nat /\ todo = [k \in 1 .. Len(todo) |-> todo[k]]
    /\ \A k \in 1 .. Len(todo) : todo[k][1] \in FieldNames
    /\ \A j, k \in 1 .. Len(todo) : todo[j][1] = todo[k][1] => j = k

OnceInv ==
    /\ \A u \in Users : Once(writes[u])
    /\ call # "none" => listed

LEMMA WrittenSet ==
    ASSUME NEW todo, Once(todo)
    PROVE  ToSet(todo) = {todo[k] : k \in 1 .. Len(todo)}
  BY DEF Once, ToSet

\* What is left is the first of them and the others.
LEMMA FirstAndOthers ==
    ASSUME NEW todo, Once(todo), todo # <<>>
    PROVE  /\ Once(Tail(todo)) /\ todo[1][1] \in FieldNames
           /\ ToSet(todo) = {todo[1]} \cup ToSet(Tail(todo))
           /\ \A w \in ToSet(Tail(todo)) : w[1] # todo[1][1]
<1>. DEFINE S == {todo[k] : k \in 1 .. Len(todo)}
            n == Len(todo)
            rest == Tail(todo)
<1>1. todo \in Seq(S) /\ n \in Nat /\ n # 0
  <2>1. todo \in [1 .. n -> S] /\ n \in Nat
    BY DEF Once
  <2>2. todo \in Seq(S)
    BY <2>1
  <2>. QED
    BY <2>1, <2>2, EmptySeq
<1>2. /\ rest \in Seq(S) /\ Len(rest) = n - 1
      /\ \A k \in 1 .. n - 1 : rest[k] = todo[k + 1]
  BY <1>1, HeadTailProperties
<1>3. rest = [k \in 1 .. Len(rest) |-> rest[k]]
  <2>1. rest \in [1 .. Len(rest) -> S]
    BY <1>2, LenProperties
  <2>. HIDE DEF rest
  <2>. QED
    BY <2>1
<1>4. ASSUME NEW k \in 1 .. Len(rest) PROVE k + 1 \in 1 .. n /\ k + 1 # 1 /\ rest[k] = todo[k + 1]
  BY <1>1, <1>2
<1>5. \A k \in 1 .. Len(rest) : rest[k][1] \in FieldNames
  BY <1>4 DEF Once
<1>6. ASSUME NEW j \in 1 .. Len(rest), NEW k \in 1 .. Len(rest), rest[j][1] = rest[k][1]
      PROVE  j = k
  <2>1. j + 1 = k + 1
    BY <1>4, <1>6 DEF Once
  <2>. QED
    BY <1>2, <2>1
<1>7. Once(rest)
  BY <1>1, <1>2, <1>3, <1>5, <1>6 DEF Once
<1>8. 1 \in 1 .. n
  BY <1>1
<1>9. \A w \in ToSet(rest) : w[1] # todo[1][1]
  <2>1. ASSUME NEW k \in 1 .. Len(rest) PROVE rest[k][1] # todo[1][1]
    BY <1>4, <1>8 DEF Once
  <2>2. ToSet(rest) = {rest[k] : k \in 1 .. Len(rest)}
    BY <1>7, WrittenSet
  <2>. HIDE DEF rest
  <2>. QED
    BY <2>1, <2>2
<1>10. ToSet(todo) = {todo[1]} \cup ToSet(rest)
  <2>1. ASSUME NEW k \in 1 .. n PROVE k = 1 \/ (k - 1 \in 1 .. Len(rest) /\ rest[k - 1] = todo[k])
    <3>1. k = 1 \/ (k - 1 \in 1 .. n - 1 /\ (k - 1) + 1 = k)
      BY <1>1
    <3>. QED
      BY <1>2, <3>1
  <2>2. /\ ToSet(rest) = {rest[k] : k \in 1 .. Len(rest)}
        /\ ToSet(todo) = {todo[k] : k \in 1 .. n}
    BY <1>7, WrittenSet
  <2>. HIDE DEF rest, n
  <2>. QED
    BY <1>4, <1>8, <2>1, <2>2
<1>. QED
  BY <1>7, <1>8, <1>9, <1>10 DEF Once

\* A write to one field leaves the others.
LEMMA FieldWritten ==
    ASSUME TypeInv, NEW f \in FieldNames, NEW v, NEW g \in FieldNames
    PROVE  [entry EXCEPT ![f] = v][g] = IF g = f THEN v ELSE entry[g]
<1>1. entry \in Entries
  BY DEF TypeInv, TypeOK, Entries, Statuses
<1>. QED
  BY <1>1 DEF Entries, FieldNames

\* Nobody outside sees a write: what it puts into the entry was settled before.
LEMMA WriteSettles ==
    ASSUME TypeInv, OnceInv, NEW u \in Users, Write(u)
    PROVE  OnceInv' /\ \A f \in FieldNames : Settled(f)' = Settled(f)
<1>. DEFINE w == writes[u][1]
            others == ToSet(Tail(writes[u]))
<1>1. /\ u \in lock /\ lock = {u} /\ writes[u] # <<>>
      /\ \A v \in Users : v # u => writes[v] = <<>>
      /\ writes' = [writes EXCEPT ![u] = Tail(writes[u])]
      /\ writes'[u] = Tail(writes[u]) /\ \A v \in Users : v # u => writes'[v] = <<>>
      /\ UNCHANGED <<call, listed>>
  BY DEF Write, TypeInv, TypeOK, Users
<1>2. /\ Once(Tail(writes[u])) /\ w[1] \in FieldNames
      /\ ToSet(writes[u]) = {w} \cup others
      /\ \A x \in others : x[1] # w[1]
  BY <1>1, FirstAndOthers DEF OnceInv
<1>3. entry' = [entry EXCEPT ![w[1]] = w[2]]
  BY DEF Write
<1>4. \A f : /\ Pending(f) = {x \in {w} \cup others : x[1] = f}
             /\ Pending(f)' = {x \in others : x[1] = f}
  <2>1. ToSet(<<>>) = {}
    BY DEF ToSet
  <2>2. /\ ToSet(writes["thread"]) \cup ToSet(writes["window"]) = {w} \cup others
        /\ ToSet(writes'["thread"]) \cup ToSet(writes'["window"]) = others
    BY <1>1, <1>2, <2>1 DEF Users
  <2>. QED
    BY <2>2 DEF Pending
<1>5. OnceInv'
  BY <1>1, <1>2 DEF OnceInv
<1>. HIDE DEF w, others
<1>6. ASSUME NEW f \in FieldNames PROVE Settled(f)' = Settled(f)
  <2>1. CASE f = w[1]
    <3>1. Pending(f) = {w} /\ Pending(f)' = {}
      BY <1>2, <1>4, <2>1
    <3>2. Settled(f) = w[2]
      BY <3>1 DEF Settled
    <3>3. Settled(f)' = entry'[f]
      BY <3>1 DEF Settled
    <3>. QED
      BY <1>2, <1>3, <2>1, <3>2, <3>3, FieldWritten
  <2>2. CASE f # w[1]
    <3>1. Pending(f)' = Pending(f)
      BY <1>4, <2>2
    <3>2. entry'[f] = entry[f]
      BY <1>2, <1>3, <2>2, FieldWritten
    <3>. QED
      BY <3>1, <3>2 DEF Settled
  <2>. QED
    BY <2>1, <2>2
<1>. QED
  BY <1>5, <1>6

\* Between the sections the entry is as it is.
LEMMA SettledFree ==
    ASSUME TypeInv, lock = {}
    PROVE  \A f : Settled(f) = entry[f]
<1>1. \A f : Pending(f) = {}
  BY DEF TypeInv, TypeOK, Pending, ToSet, Users
<1>. QED
  BY <1>1 DEF Settled

\* Who enters a section has done what it will write, seen from outside.
LEMMA SectionSettles ==
    ASSUME TypeInv, NEW u \in Users, NEW todo, Section(u, todo), Once(todo)
    PROVE  /\ \A f : Settled(f) = entry[f]
           /\ \A k \in 1 .. Len(todo) : Settled(todo[k][1])' = todo[k][2]
           /\ \A f : (\A k \in 1 .. Len(todo) : todo[k][1] # f) => Settled(f)' = entry[f]
           /\ \A v \in Users : Once(writes'[v])
<1>1. /\ lock = {} /\ lock' = {u} /\ writes'[u] = todo
      /\ \A v \in Users \ {u} : writes'[v] = <<>>
      /\ entry' = entry
  BY Entering
<1>2. \A f : Pending(f)' = {w \in {todo[k] : k \in 1 .. Len(todo)} : w[1] = f}
  <2>1. ToSet(<<>>) = {}
    BY DEF ToSet
  <2>. QED
    BY <1>1, <2>1, WrittenSet DEF Pending, Users
<1>3. ASSUME NEW k \in 1 .. Len(todo) PROVE Settled(todo[k][1])' = todo[k][2]
  <2>1. Pending(todo[k][1])' = {todo[k]}
    BY <1>2 DEF Once
  <2>. QED
    BY <2>1 DEF Settled
<1>4. ASSUME NEW f, \A k \in 1 .. Len(todo) : todo[k][1] # f PROVE Settled(f)' = entry[f]
  <2>1. Pending(f)' = {}
    BY <1>2, <1>4
  <2>. QED
    BY <1>1, <2>1 DEF Settled
<1>5. Once(<<>>)
  BY DEF Once
<1>. QED
  BY <1>1, <1>3, <1>4, <1>5, SettledFree

LEMMA FlagWrites == Flag[1] = "seeding" /\ Flag[2] = TRUE
  BY Zenon DEF Flag

LEMMA OnceOfAtMostFour ==
    ASSUME NEW a, NEW b, NEW c, NEW d,
           a[1] \in FieldNames, b[1] \in FieldNames, c[1] \in FieldNames, d[1] \in FieldNames,
           a[1] # b[1], a[1] # c[1], a[1] # d[1], b[1] # c[1], b[1] # d[1], c[1] # d[1]
    PROVE  Once(<<a>>) /\ Once(<<a, b>>) /\ Once(<<a, b, c>>) /\ Once(<<a, b, c, d>>)
  BY DEF Once

\* The same, write by write.
LEMMA Effects ==
    ASSUME IInv, NEW u \in Users, NEW todo, Section(u, todo), Once(todo)
    PROVE  /\ \A f : Settled(f) = entry[f]
           /\ \A v \in Users : Once(writes'[v])
           /\ todo = <<>> => \A f : Settled(f)' = entry[f]
           /\ \A a : todo = <<a>> =>
                 Settled(a[1])' = a[2] /\ \A f : f # a[1] => Settled(f)' = entry[f]
           /\ \A a, b : todo = <<a, b>> =>
                 /\ Settled(a[1])' = a[2] /\ Settled(b[1])' = b[2]
                 /\ \A f : f # a[1] /\ f # b[1] => Settled(f)' = entry[f]
           /\ \A a, b, c : todo = <<a, b, c>> =>
                 /\ Settled(a[1])' = a[2] /\ Settled(b[1])' = b[2] /\ Settled(c[1])' = c[2]
                 /\ \A f : f # a[1] /\ f # b[1] /\ f # c[1] => Settled(f)' = entry[f]
           /\ \A a, b, c, d : todo = <<a, b, c, d>> =>
                 /\ Settled(a[1])' = a[2] /\ Settled(b[1])' = b[2] /\ Settled(c[1])' = c[2]
                 /\ Settled(d[1])' = d[2]
                 /\ \A f : f # a[1] /\ f # b[1] /\ f # c[1] /\ f # d[1] => Settled(f)' = entry[f]
<1>1. /\ \A f : Settled(f) = entry[f]
      /\ \A k \in 1 .. Len(todo) : Settled(todo[k][1])' = todo[k][2]
      /\ \A f : (\A k \in 1 .. Len(todo) : todo[k][1] # f) => Settled(f)' = entry[f]
      /\ \A v \in Users : Once(writes'[v])
  BY SectionSettles DEF IInv
<1>2. ASSUME todo = <<>> PROVE \A f : Settled(f)' = entry[f]
  <2>1. 1 .. Len(todo) = {}
    BY <1>2
  <2>. QED
    BY <1>1, <2>1
<1>3. ASSUME NEW a, todo = <<a>>
      PROVE  Settled(a[1])' = a[2] /\ \A f : f # a[1] => Settled(f)' = entry[f]
  <2>1. 1 .. Len(todo) = {1} /\ todo[1] = a
    BY <1>3
  <2>. QED
    BY <1>1, <2>1
<1>4. ASSUME NEW a, NEW b, todo = <<a, b>>
      PROVE  /\ Settled(a[1])' = a[2] /\ Settled(b[1])' = b[2]
             /\ \A f : f # a[1] /\ f # b[1] => Settled(f)' = entry[f]
  <2>1. 1 .. Len(todo) = {1, 2} /\ todo[1] = a /\ todo[2] = b
    BY <1>4
  <2>. QED
    BY <1>1, <2>1
<1>5. ASSUME NEW a, NEW b, NEW c, todo = <<a, b, c>>
      PROVE  /\ Settled(a[1])' = a[2] /\ Settled(b[1])' = b[2] /\ Settled(c[1])' = c[2]
             /\ \A f : f # a[1] /\ f # b[1] /\ f # c[1] => Settled(f)' = entry[f]
  <2>1. 1 .. Len(todo) = {1, 2, 3} /\ todo[1] = a /\ todo[2] = b /\ todo[3] = c
    BY <1>5
  <2>. QED
    BY <1>1, <2>1
<1>6. ASSUME NEW a, NEW b, NEW c, NEW d, todo = <<a, b, c, d>>
      PROVE  /\ Settled(a[1])' = a[2] /\ Settled(b[1])' = b[2] /\ Settled(c[1])' = c[2]
             /\ Settled(d[1])' = d[2]
             /\ \A f : f # a[1] /\ f # b[1] /\ f # c[1] /\ f # d[1] => Settled(f)' = entry[f]
  <2>1. 1 .. Len(todo) = {1, 2, 3, 4} /\ todo[1] = a /\ todo[2] = b /\ todo[3] = c /\ todo[4] = d
    BY <1>6
  <2>. QED
    BY <1>1, <2>1
<1>. QED
  BY <1>1, <1>2, <1>3, <1>4, <1>5, <1>6

------------------------------------------------------------------------------
(* The steps of the thread are steps of Session *)

LEMMA CoarseFail ==
    ASSUME IInv, NEW from \in {"parse", "reopen", "trackers", "files"}, NEW to, Fail(from)
    PROVE  Coarse!Fail(1, from, to) /\ \A u \in Users : Once(writes'[u])
<1>. DEFINE w == <<"status", "ERROR">>
<1>1. /\ pc = from /\ pc' = "finished" /\ call' = call /\ Section("thread", <<w>>)
      /\ UNCHANGED <<listed, metainfo>>
  BY DEF Fail, Step, Section, Error
<1>2. Once(<<w>>) /\ w[1] = "status" /\ w[2] = "ERROR" /\ "thread" \in Users
  BY DEF Once, FieldNames, Users
<1>. HIDE DEF w
<1>3. /\ \A f : Settled(f) = entry[f]
      /\ \A u \in Users : Once(writes'[u])
      /\ Settled(w[1])' = w[2] /\ \A f : f # w[1] => Settled(f)' = entry[f]
  BY <1>1, <1>2, Effects
<1>4. Settled("status")' = "ERROR" /\ \A f : f # "status" => Settled(f)' = entry[f]
  BY <1>2, <1>3
<1>. QED
  BY <1>1, <1>3, <1>4 DEF Coarse!Fail, Coarse!Step

LEMMA CoarseParsed ==
    ASSUME IInv, Parsed
    PROVE  Coarse!Parsed(1) /\ \A u \in Users : Once(writes'[u])
<1>1. PICK total : total = metainfo
  OBVIOUS
<1>. DEFINE a == <<"total_pieces", total>>
            b == <<"pieces_completed", 0>>
<1>2. /\ metainfo # NoMetainfo /\ pc = "parse" /\ pc' = "reopen" /\ call' = call
      /\ Section("thread", <<a, b>>)
      /\ UNCHANGED <<listed, metainfo>>
  BY <1>1 DEF Parsed, Step, Section
<1>3. /\ Once(<<a, b>>) /\ "thread" \in Users
      /\ a[1] = "total_pieces" /\ a[2] = total /\ b[1] = "pieces_completed" /\ b[2] = 0
  BY DEF Once, FieldNames, Users
<1>. HIDE DEF a, b
<1>4. /\ \A f : Settled(f) = entry[f]
      /\ \A u \in Users : Once(writes'[u])
      /\ Settled(a[1])' = a[2] /\ Settled(b[1])' = b[2]
      /\ \A f : f # a[1] /\ f # b[1] => Settled(f)' = entry[f]
  BY <1>2, <1>3, Effects
<1>5. /\ Settled("total_pieces")' = total /\ Settled("pieces_completed")' = 0
      /\ Settled("status")' = entry["status"] /\ Settled("seeding")' = entry["seeding"]
  BY <1>3, <1>4
<1>. QED
  BY <1>1, <1>2, <1>4, <1>5 DEF Coarse!Parsed, Coarse!NoMetainfo, NoMetainfo

\* Who writes nothing does nothing that is seen.
LEMMA SameSettled ==
    ASSUME UNCHANGED <<entry, writes>>
    PROVE  \A f : Settled(f)' = Settled(f)
  BY DEF Settled, Pending

LEMMA SameOnce ==
    ASSUME OnceInv, UNCHANGED writes
    PROVE  \A u \in Users : Once(writes'[u])
  BY DEF OnceInv

\* A step that writes nothing that is seen is one of the preparation.
LEMMA CoarseGoesOn ==
    ASSUME NEW from \in {"reopen", "trackers", "found", "files"},
           NEW to \in {"trackers", "found", "files", "verify"},
           <<from, to>> \in {<<"reopen", "trackers">>, <<"trackers", "found">>,
                            <<"found", "files">>, <<"files", "verify">>},
           Step(from, to), UNCHANGED <<listed, metainfo>>,
           \A f \in FieldNames : Settled(f)' = Settled(f)
    PROVE  Coarse!Prepare(1)
<1>1. /\ Settled("status")' = Settled("status") /\ Settled("seeding")' = Settled("seeding")
      /\ Settled("total_pieces")' = Settled("total_pieces")
      /\ Settled("pieces_completed")' = Settled("pieces_completed")
  BY DEF FieldNames
<1>2. pc = from /\ pc' = to /\ UNCHANGED <<call, listed, metainfo>> /\ from # "unborn" /\ to # "unborn"
  BY DEF Step
<1>3. /\ Coarse!Step(1, from, to)
      /\ UNCHANGED <<[i \in {0} |-> Settled("status")], [i \in {0} |-> Settled("seeding")],
                     [i \in {0} |-> Settled("pieces_completed")]>>
  BY <1>1, <1>2 DEF Coarse!Step
<1>4. <<from, to>>[1] = from /\ <<from, to>>[2] = to
  OBVIOUS
<1>. QED
  BY <1>3, <1>4 DEF Coarse!Prepare

LEMMA CoarsePrepare ==
    ASSUME IInv, OnceInv, Prepare
    PROVE  Coarse!Prepare(1) /\ \A u \in Users : Once(writes'[u])
<1>1. \/ \E from \in {"reopen", "trackers", "files"} : Fail(from)
      \/ Step("trackers", "found") /\ Section("thread", <<>>)
      \/ /\ \/ Step("reopen", "trackers")
            \/ Step("found", "files")
            \/ Step("files", "verify")
         /\ UNCHANGED <<listed, metainfo, entry, lock, writes, row>>
  BY PrepareSteps
<1>2. CASE \E from \in {"reopen", "trackers", "files"} : Fail(from)
  <2>1. PICK step \in {<<"reopen", "trackers">>, <<"trackers", "found">>, <<"files", "verify">>} :
           Fail(step[1])
    <3>1. <<"reopen", "trackers">>[1] = "reopen" /\ <<"trackers", "found">>[1] = "trackers"
          /\ <<"files", "verify">>[1] = "files"
      OBVIOUS
    <3>. QED
      BY <1>2, <3>1
  <2>2. step[1] \in {"reopen", "trackers", "files"}
    OBVIOUS
  <2>3. Coarse!Fail(1, step[1], step[2]) /\ \A u \in Users : Once(writes'[u])
    BY <2>1, <2>2, CoarseFail
  <2>. QED
    BY <2>2, <2>3 DEF Coarse!Prepare
<1>3. CASE Step("trackers", "found") /\ Section("thread", <<>>)
  <2>1. Once(<<>>)
    BY DEF Once
  <2>2. /\ \A v \in Users : Once(writes'[v])
        /\ \A f : Settled(f) = entry[f] /\ Settled(f)' = entry[f]
    BY <1>3, <2>1, Effects DEF Users
  <2>. QED
    BY <1>3, <2>2, CoarseGoesOn DEF Section
<1>4. CASE /\ \/ Step("reopen", "trackers")
              \/ Step("found", "files")
              \/ Step("files", "verify")
           /\ UNCHANGED <<listed, metainfo, entry, lock, writes, row>>
  BY <1>4, SameSettled, SameOnce, CoarseGoesOn
<1>. QED
  BY <1>1, <1>2, <1>3, <1>4

LEMMA SeedingSettled ==
    ASSUME IInv, lock = {}
    PROVE  Settled("seeding") \in BOOLEAN /\ (Settled("seeding") \/ FALSE) = Settled("seeding")
<1>1. Settled("seeding") = entry["seeding"] /\ entry["seeding"] \in BOOLEAN
  BY SettledFree DEF IInv, TypeInv, TypeOK
<1>. QED
  BY <1>1, Zenon

LEMMA CoarseVerified ==
    ASSUME IInv, NEW recovered \in 0 .. entry.total_pieces, Verified(recovered)
    PROVE  Coarse!Verified(1, recovered) /\ \A u \in Users : Once(writes'[u])
<1>. DEFINE a == <<"pieces_completed", recovered>>
            b == <<"progress", recovered>>
            down == <<"status", "DOWNLOADING">>
            seed == <<"status", "SEEDING">>
            more == VerifiedStatus(recovered)
<1>1. /\ pc = "verify" /\ pc' = "swarm" /\ call' = call /\ Section("thread", <<a, b>> \o more)
      /\ lock = {} /\ UNCHANGED <<listed, metainfo>>
  BY Zenon DEF Verified, Step, Section, Free
<1>2. /\ a[1] = "pieces_completed" /\ a[2] = recovered /\ b[1] = "progress"
      /\ down[1] = "status" /\ down[2] = "DOWNLOADING" /\ seed[1] = "status" /\ seed[2] = "SEEDING"
      /\ "thread" \in Users
  BY DEF Users
<1>3. /\ entry["status"] = "PAUSED" => more = <<>>
      /\ entry["status"] # "PAUSED" /\ recovered = entry["total_pieces"] => more = <<seed, Flag>>
      /\ entry["status"] # "PAUSED" /\ recovered # entry["total_pieces"] => more = <<down>>
  BY Zenon DEF VerifiedStatus, Flag
<1>. HIDE DEF a, b, down, seed, more
<1>4. /\ <<a, b>> \o <<>> = <<a, b>> /\ <<a, b>> \o <<down>> = <<a, b, down>>
      /\ <<a, b>> \o <<seed, Flag>> = <<a, b, seed, Flag>>
  BY AppendedOne, AppendedTwo, Zenon
<1>5. Once(<<a, b>>) /\ Once(<<a, b, down>>) /\ Once(<<a, b, seed, Flag>>)
  BY <1>2, FlagWrites DEF Once, FieldNames
<1>6. \A f : Settled(f) = entry[f]
  BY <1>1, SettledFree DEF IInv
<1>7. CASE entry["status"] = "PAUSED"
  <2>1. Section("thread", <<a, b>>)
    BY <1>1, <1>3, <1>4, <1>7, Zenon
  <2>2. /\ \A u \in Users : Once(writes'[u])
        /\ Settled(a[1])' = a[2] /\ \A f : f # a[1] /\ f # b[1] => Settled(f)' = entry[f]
    BY <1>2, <1>5, <2>1, Effects
  <2>3. /\ Settled("pieces_completed")' = recovered
        /\ Settled("status")' = entry["status"] /\ Settled("seeding")' = entry["seeding"]
        /\ Settled("total_pieces")' = entry["total_pieces"]
    BY <1>2, <2>2
  <2>. QED
    BY <1>1, <1>6, <1>7, <2>2, <2>3, SeedingSettled DEF Coarse!Verified, Coarse!VerifiedStatus, Coarse!Step
<1>8. CASE entry["status"] # "PAUSED" /\ recovered = entry["total_pieces"]
  <2>1. Section("thread", <<a, b, seed, Flag>>)
    BY <1>1, <1>3, <1>4, <1>8, Zenon
  <2>2. /\ \A u \in Users : Once(writes'[u])
        /\ Settled(a[1])' = a[2] /\ Settled(seed[1])' = seed[2] /\ Settled(Flag[1])' = Flag[2]
        /\ \A f : f # a[1] /\ f # b[1] /\ f # seed[1] /\ f # Flag[1] => Settled(f)' = entry[f]
    BY <1>2, <1>5, <2>1, Effects
  <2>3. /\ Settled("pieces_completed")' = recovered
        /\ Settled("status")' = "SEEDING"
        /\ Settled("total_pieces")' = entry["total_pieces"]
    BY <1>2, <2>2, FlagWrites
  <2>4. Settled("seeding")' = TRUE
    BY <2>2, FlagWrites
  <2>. QED
    BY <1>1, <1>6, <1>8, <2>2, <2>3, <2>4 DEF Coarse!Verified, Coarse!VerifiedStatus, Coarse!Step
<1>9. CASE entry["status"] # "PAUSED" /\ recovered # entry["total_pieces"]
  <2>1. Section("thread", <<a, b, down>>)
    BY <1>1, <1>3, <1>4, <1>9, Zenon
  <2>2. /\ \A u \in Users : Once(writes'[u])
        /\ Settled(a[1])' = a[2] /\ Settled(down[1])' = down[2]
        /\ \A f : f # a[1] /\ f # b[1] /\ f # down[1] => Settled(f)' = entry[f]
    BY <1>2, <1>5, <2>1, Effects
  <2>3. /\ Settled("pieces_completed")' = recovered
        /\ Settled("status")' = "DOWNLOADING" /\ Settled("seeding")' = entry["seeding"]
        /\ Settled("total_pieces")' = entry["total_pieces"]
    BY <1>2, <2>2
  <2>. QED
    BY <1>1, <1>6, <1>9, <2>2, <2>3, SeedingSettled DEF Coarse!Verified, Coarse!VerifiedStatus, Coarse!Step
<1>. QED
  BY <1>7, <1>8, <1>9

LEMMA CoarsePieceDone ==
    ASSUME IInv, PieceDone
    PROVE  Coarse!PieceDone(1) /\ \A u \in Users : Once(writes'[u])
<1>1. PICK done : done = entry["pieces_completed"] + 1
  OBVIOUS
<1>. DEFINE a == <<"pieces_completed", done>>
            b == <<"progress", done>>
<1>2. /\ pc = "swarm" /\ pc' = "swarm" /\ call' = call
      /\ entry["pieces_completed"] < entry["total_pieces"]
      /\ Section("thread", <<a, b>>)
      /\ UNCHANGED <<listed, metainfo>>
  BY <1>1 DEF PieceDone, Step, Section
<1>3. /\ Once(<<a, b>>) /\ "thread" \in Users
      /\ a[1] = "pieces_completed" /\ a[2] = done /\ b[1] = "progress"
  BY DEF Once, FieldNames, Users
<1>. HIDE DEF a, b
<1>4. /\ \A f : Settled(f) = entry[f]
      /\ \A u \in Users : Once(writes'[u])
      /\ Settled(a[1])' = a[2]
      /\ \A f : f # a[1] /\ f # b[1] => Settled(f)' = entry[f]
  BY <1>2, <1>3, Effects
<1>5. /\ Settled("pieces_completed")' = done
      /\ Settled("total_pieces")' = entry["total_pieces"]
      /\ Settled("status")' = entry["status"] /\ Settled("seeding")' = entry["seeding"]
  BY <1>3, <1>4
<1>. QED
  BY <1>1, <1>2, <1>4, <1>5 DEF Coarse!PieceDone, Coarse!Step

LEMMA CoarseSwarmEnds ==
    ASSUME IInv, OnceInv, SwarmEnds
    PROVE  Coarse!SwarmEnds(1) /\ \A u \in Users : Once(writes'[u])
<1>1. /\ PollMayFail /\ pc = "swarm" /\ pc' = "epilogue" /\ UNCHANGED <<call, listed, metainfo>>
      /\ \A f : Settled(f)' = Settled(f)
      /\ \A u \in Users : Once(writes'[u])
  BY SameSettled, SameOnce DEF SwarmEnds, Step
<1>. QED
  BY <1>1 DEF Coarse!SwarmEnds, Coarse!Step

\* The end of the thread, with the section that it has just entered.
LEMMA CoarseSeeding ==
    ASSUME IInv, Section("thread", SeedingIfComplete)
    PROVE  /\ Coarse!SeedingIfComplete(1)
           /\ Settled("total_pieces")' = entry["total_pieces"]
           /\ \A u \in Users : Once(writes'[u])
<1>1. PICK total : total = entry["total_pieces"]
  OBVIOUS
<1>. DEFINE a == <<"status", "SEEDING">>
            b == <<"progress", total>>
<1>2. /\ a[1] = "status" /\ a[2] = "SEEDING" /\ b[1] = "progress"
      /\ Once(<<>>) /\ "thread" \in Users
  BY DEF Once, Users
<1>3. Once(<<a, Flag, b>>)
  BY <1>2, FlagWrites DEF Once, FieldNames
<1>4. /\ entry["pieces_completed"] = entry["total_pieces"] => SeedingIfComplete = <<a, Flag, b>>
      /\ entry["pieces_completed"] # entry["total_pieces"] => SeedingIfComplete = <<>>
  BY <1>1, Zenon DEF SeedingIfComplete, Flag
<1>. HIDE DEF a, b
<1>5. \A f : Settled(f) = entry[f]
  BY SettledFree DEF IInv, Section, Free
<1>6. CASE entry["pieces_completed"] = entry["total_pieces"]
  <2>1. Section("thread", <<a, Flag, b>>)
    BY <1>4, <1>6, Zenon
  <2>2. /\ \A u \in Users : Once(writes'[u])
        /\ Settled(a[1])' = a[2] /\ Settled(Flag[1])' = Flag[2]
        /\ \A f : f # a[1] /\ f # Flag[1] /\ f # b[1] => Settled(f)' = entry[f]
    BY <1>2, <1>3, <2>1, Effects
  <2>3. /\ Settled("status")' = "SEEDING"
        /\ Settled("total_pieces")' = entry["total_pieces"]
        /\ Settled("pieces_completed")' = entry["pieces_completed"]
    BY <1>2, <2>2, FlagWrites
  <2>4. Settled("seeding")' = TRUE
    BY <2>2, FlagWrites
  <2>. QED
    BY <1>5, <1>6, <2>2, <2>3, <2>4 DEF Coarse!SeedingIfComplete
<1>7. CASE entry["pieces_completed"] # entry["total_pieces"]
  <2>1. Section("thread", <<>>)
    BY <1>4, <1>7, Zenon
  <2>2. (\A u \in Users : Once(writes'[u])) /\ \A f : Settled(f)' = entry[f]
    BY <1>2, <2>1, Effects
  <2>. QED
    BY <1>5, <1>7, <2>2 DEF Coarse!SeedingIfComplete
<1>. QED
  BY <1>6, <1>7

LEMMA CoarseEnd ==
    ASSUME IInv, End
    PROVE  Coarse!End(1) /\ \A u \in Users : Once(writes'[u])
<1>1. /\ pc = "end" /\ pc' = "finished" /\ call' = call /\ Section("thread", SeedingIfComplete)
      /\ UNCHANGED <<listed, metainfo>>
  BY DEF End, Step, Section
<1>2. \A f : Settled(f) = entry[f]
  BY <1>1, SettledFree DEF IInv, Section, Free
<1>3. /\ Coarse!SeedingIfComplete(1)
      /\ Settled("total_pieces")' = entry["total_pieces"]
      /\ \A u \in Users : Once(writes'[u])
  BY <1>1, CoarseSeeding
<1>4. Coarse!Step(1, "end", "finished")
  BY <1>1, <1>2, <1>3 DEF Coarse!Step
<1>. QED
  BY <1>3, <1>4 DEF Coarse!End

LEMMA CoarseEpilogue ==
    ASSUME IInv, Epilogue
    PROVE  Coarse!Epilogue(1) /\ \A u \in Users : Once(writes'[u])
<1>1. /\ pc = "epilogue" /\ pc' = "end" /\ call' = call
      /\ Section("thread", IF entry["status"] = "PAUSED" THEN <<>> ELSE SeedingIfComplete)
      /\ UNCHANGED <<listed, metainfo>>
  BY DEF Epilogue, Step, Section
<1>2. \A f : Settled(f) = entry[f]
  BY <1>1, SettledFree DEF IInv, Section, Free
<1>3. CASE entry["status"] = "PAUSED"
  <2>1. Section("thread", <<>>) /\ Once(<<>>) /\ "thread" \in Users
    BY <1>1, <1>3 DEF Once, Users
  <2>2. (\A u \in Users : Once(writes'[u])) /\ \A f : Settled(f)' = entry[f]
    BY <2>1, Effects
  <2>. QED
    BY <1>1, <1>2, <1>3, <2>2 DEF Coarse!Epilogue, Coarse!Step
<1>4. CASE entry["status"] # "PAUSED"
  <2>1. Section("thread", SeedingIfComplete)
    BY <1>1, <1>4
  <2>2. /\ Coarse!SeedingIfComplete(1)
        /\ Settled("total_pieces")' = entry["total_pieces"]
        /\ \A u \in Users : Once(writes'[u])
    BY <2>1, CoarseSeeding
  <2>3. Coarse!Step(1, "epilogue", "end")
    BY <1>1, <1>2, <2>2 DEF Coarse!Step
  <2>. QED
    BY <1>2, <1>4, <2>2, <2>3 DEF Coarse!Epilogue
<1>. QED
  BY <1>3, <1>4

------------------------------------------------------------------------------
(* The steps of the window are steps of Session, or are not seen *)

\* Nothing of what Session knows of changes.
LEMMA Unseen ==
    ASSUME \A f \in FieldNames : Settled(f)' = Settled(f),
           UNCHANGED <<listed, metainfo, pc>>,
           (call = "remove") = (call' = "remove")
    PROVE  UNCHANGED Coarse!vars
<1>1. /\ Settled("status")' = Settled("status") /\ Settled("seeding")' = Settled("seeding")
      /\ Settled("total_pieces")' = Settled("total_pieces")
      /\ Settled("pieces_completed")' = Settled("pieces_completed")
  BY DEF FieldNames
<1>. QED
  BY <1>1 DEF Coarse!vars, Coarse!entries, Coarse!threads

LEMMA UnseenSection ==
    ASSUME IInv, NEW u \in Users, Section(u, <<>>), UNCHANGED <<pc, call>>
    PROVE  (UNCHANGED Coarse!vars) /\ \A v \in Users : Once(writes'[v])
<1>1. Once(<<>>)
  BY DEF Once
<1>2. (\A v \in Users : Once(writes'[v])) /\ \A f : Settled(f) = entry[f] /\ Settled(f)' = entry[f]
  BY <1>1, Effects
<1>. QED
  BY <1>2, Unseen DEF Section

LEMMA CoarseAdd ==
    ASSUME IInv, OnceInv, NEW pieces \in {Pieces, NoMetainfo}, ts_add_torrent(pieces)
    PROVE  Coarse!ts_add_torrent(pieces) /\ OnceInv'
<1>1. /\ pc = "unborn" /\ listed' = TRUE /\ metainfo' = pieces /\ entry' = Cleared /\ pc' = "parse"
      /\ UNCHANGED <<lock, writes, call, row>>
  BY DEF ts_add_torrent
<1>2. listed = FALSE /\ lock = {} /\ call = "none"
  BY <1>1 DEF IInv, UnbornInv, TypeInv, TypeOK
<1>3. \A f : Settled(f)' = Cleared[f]
  <2>1. \A f : Pending(f)' = {}
    BY <1>1, <1>2 DEF IInv, TypeInv, TypeOK, Pending, ToSet, Users
  <2>. QED
    BY <1>1, <2>1 DEF Settled
<1>4. /\ Settled("status")' = "VERIFYING" /\ Settled("seeding")' = FALSE
      /\ Settled("total_pieces")' = 0 /\ Settled("pieces_completed")' = 0
  BY <1>3 DEF Cleared
<1>5. OnceInv'
  BY <1>1 DEF OnceInv
<1>6. /\ (IF listed THEN 1 ELSE 0) = 0 /\ (IF listed THEN 1 ELSE 0)' = 1
      /\ (IF pc = "unborn" THEN 0 ELSE 1) = 0 /\ (IF pc = "unborn" THEN 0 ELSE 1)' = 1
      /\ (IF pc = "unborn" THEN 1 ELSE 2) = 1 /\ (IF pc = "unborn" THEN 1 ELSE 2)' = 2
      /\ (IF call = "remove" THEN 0 ELSE -1) = -1 /\ (IF call = "remove" THEN 0 ELSE -1)' = -1
  BY <1>1, <1>2
<1>7. \A old, new : [[i \in {0} |-> old] EXCEPT ![0] = new] = [i \in {0} |-> new]
  OBVIOUS
<1>8. /\ [i \in {0} |-> Settled("status")]'
            = [[i \in {0} |-> Settled("status")] EXCEPT ![IF listed THEN 1 ELSE 0] = "VERIFYING"]
      /\ [i \in {0} |-> Settled("seeding")]'
            = [[i \in {0} |-> Settled("seeding")] EXCEPT ![IF listed THEN 1 ELSE 0] = FALSE]
      /\ [i \in {0} |-> Settled("total_pieces")]'
            = [[i \in {0} |-> Settled("total_pieces")] EXCEPT ![IF listed THEN 1 ELSE 0] = 0]
      /\ [i \in {0} |-> Settled("pieces_completed")]'
            = [[i \in {0} |-> Settled("pieces_completed")] EXCEPT ![IF listed THEN 1 ELSE 0] = 0]
  BY <1>4, <1>6, <1>7, Zenon
<1>9. /\ (IF call = "remove" THEN 0 ELSE -1) = -1
      /\ (IF listed THEN 1 ELSE 0) < 1
      /\ (IF pc = "unborn" THEN 1 ELSE 2) <= 1
      /\ (IF listed THEN 1 ELSE 0)' = (IF listed THEN 1 ELSE 0) + 1
      /\ (IF pc = "unborn" THEN 1 ELSE 2)' = (IF pc = "unborn" THEN 1 ELSE 2) + 1
      /\ UNCHANGED (IF call = "remove" THEN 0 ELSE -1)
  BY <1>6
<1>10. [i \in {0} |-> IF pc = "unborn" THEN 0 ELSE 1]'
         = [[i \in {0} |-> IF pc = "unborn" THEN 0 ELSE 1]
               EXCEPT ![IF listed THEN 1 ELSE 0] = IF pc = "unborn" THEN 1 ELSE 2]
  BY <1>1, <1>2
<1>11. /\ [t \in {1} |-> metainfo]'
            = [[t \in {1} |-> metainfo] EXCEPT ![IF pc = "unborn" THEN 1 ELSE 2] = pieces]
       /\ [t \in {1} |-> pc]'
            = [[t \in {1} |-> pc] EXCEPT ![IF pc = "unborn" THEN 1 ELSE 2] = "parse"]
       /\ [t \in {1} |-> 0]'
            = [[t \in {1} |-> 0] EXCEPT ![IF pc = "unborn" THEN 1 ELSE 2]
                                          = IF listed THEN 1 ELSE 0]
  BY <1>1, <1>2
<1>. QED
  BY <1>5, <1>8, <1>9, <1>10, <1>11, Zenon DEF Coarse!ts_add_torrent, Coarse!NewId, Coarse!Nobody

LEMMA CoarseAsk ==
    ASSUME IInv, OnceInv, NEW c \in {"pause", "resume", "remove", "status"}, Ask(c)
    PROVE  /\ (c = "remove" /\ Coarse!Join(0)) \/ UNCHANGED Coarse!vars
           /\ OnceInv'
<1>1. /\ listed /\ call = "none" /\ call' = c
      /\ UNCHANGED <<listed, metainfo, entry, lock, writes, pc, row>>
      /\ \A f : Settled(f)' = Settled(f)
  BY SameSettled DEF Ask
<1>2. OnceInv'
  BY <1>1 DEF OnceInv
<1>3. CASE c = "remove"
  BY <1>1, <1>2, <1>3 DEF Coarse!Join, Coarse!entries, Coarse!threads, Coarse!Nobody
<1>4. CASE c # "remove"
  BY <1>1, <1>2, <1>4, Unseen
<1>. QED
  BY <1>3, <1>4

LEMMA CoarsePause ==
    ASSUME IInv, OnceInv, ts_pause_torrent
    PROVE  /\ (listed /\ Coarse!ts_pause_torrent(0)) \/ UNCHANGED Coarse!vars
           /\ OnceInv'
<1>. DEFINE a == <<"status", "PAUSED">>
<1>1. /\ a[1] = "status" /\ a[2] = "PAUSED" /\ Once(<<a>>) /\ "window" \in Users
  BY DEF Once, FieldNames, Users
<1>2. /\ call = "pause" /\ listed
      /\ Section("window", IF entry["status"] \in {"DOWNLOADING", "SEEDING", "VERIFYING"}
                           THEN <<a>> ELSE <<>>)
      /\ UNCHANGED <<listed, metainfo, entry, pc, call, row>>
  BY DEF ts_pause_torrent, Section, OnceInv
<1>. HIDE DEF a
<1>3. CASE entry["status"] \in {"DOWNLOADING", "SEEDING", "VERIFYING"}
  <2>1. Section("window", <<a>>)
    BY <1>2, <1>3
  <2>2. /\ \A f : Settled(f) = entry[f]
        /\ \A u \in Users : Once(writes'[u])
        /\ Settled(a[1])' = a[2] /\ \A f : f # a[1] => Settled(f)' = entry[f]
    BY <1>1, <2>1, Effects
  <2>3. Settled("status")' = "PAUSED" /\ \A f : f # "status" => Settled(f)' = entry[f]
    BY <1>1, <2>2
  <2>. QED
    BY <1>2, <1>3, <2>2, <2>3 DEF OnceInv, Coarse!ts_pause_torrent, Coarse!threads, Coarse!Nobody
<1>4. CASE entry["status"] \notin {"DOWNLOADING", "SEEDING", "VERIFYING"}
  <2>1. Section("window", <<>>)
    BY <1>2, <1>4
  <2>. QED
    BY <1>1, <1>2, <2>1, UnseenSection DEF OnceInv
<1>. QED
  BY <1>3, <1>4

LEMMA CoarseResume ==
    ASSUME IInv, OnceInv, ts_resume_torrent
    PROVE  /\ (listed /\ Coarse!ts_resume_torrent(0)) \/ UNCHANGED Coarse!vars
           /\ OnceInv'
<1>1. PICK next : next = IF entry["pieces_completed"] = entry["total_pieces"]
                         THEN "SEEDING" ELSE "DOWNLOADING"
  OBVIOUS
<1>. DEFINE a == <<"status", next>>
<1>2. /\ a[1] = "status" /\ a[2] = next /\ Once(<<a>>) /\ "window" \in Users
  BY DEF Once, FieldNames, Users
<1>3. /\ call = "resume" /\ listed
      /\ Section("window", IF entry["status"] # "PAUSED" THEN <<>> ELSE <<a>>)
      /\ UNCHANGED <<listed, metainfo, entry, pc, call, row>>
  BY <1>1 DEF ts_resume_torrent, Section, OnceInv
<1>. HIDE DEF a
<1>4. CASE entry["status"] = "PAUSED"
  <2>1. Section("window", <<a>>)
    BY <1>3, <1>4
  <2>2. /\ \A f : Settled(f) = entry[f]
        /\ \A u \in Users : Once(writes'[u])
        /\ Settled(a[1])' = a[2] /\ \A f : f # a[1] => Settled(f)' = entry[f]
    BY <1>2, <2>1, Effects
  <2>3. Settled("status")' = next /\ \A f : f # "status" => Settled(f)' = entry[f]
    BY <1>2, <2>2
  <2>. QED
    BY <1>1, <1>3, <1>4, <2>2, <2>3
       DEF OnceInv, Coarse!ts_resume_torrent, Coarse!threads, Coarse!Nobody
<1>5. CASE entry["status"] # "PAUSED"
  <2>1. Section("window", <<>>)
    BY <1>3, <1>5
  <2>. QED
    BY <1>2, <1>3, <2>1, UnseenSection DEF OnceInv
<1>. QED
  BY <1>4, <1>5

\* The list is empty afterwards, and what is left in its place is as it was.
LEMMA CoarseRemoved ==
    ASSUME IInv, OnceInv, Removed
    PROVE  Coarse!Removed /\ OnceInv'
<1>1. /\ call = "remove" /\ call' = "none" /\ listed /\ listed' = FALSE
      /\ pc = "finished" /\ UNCHANGED <<metainfo, entry, lock, writes, pc, row>>
      /\ \A f : Settled(f)' = Settled(f)
  BY SameSettled DEF Removed, OnceInv
<1>2. OnceInv'
  BY <1>1 DEF OnceInv
<1>3. Coarse!RunningBehind = {}
  BY <1>1 DEF Coarse!RunningBehind, Coarse!Listed, Coarse!Index
<1>. QED
  BY <1>1, <1>2, <1>3 DEF Coarse!Removed, Coarse!Joined, Coarse!Moved, Coarse!Nobody, Coarse!threads,
                    Coarse!Index

\* The reading of a row is not seen.
LEMMA CoarseRead ==
    ASSUME OnceInv, NEW k \in DOMAIN Fields, Read(k)
    PROVE  (UNCHANGED Coarse!vars) /\ OnceInv'
<1>1. /\ Fields[1] = "status" /\ Fields[2] = "progress" /\ Len(Fields) = 2
      /\ k = 1 \/ k = 2
  BY DEF Fields
<1>2. /\ call \in {"status", "progress"} /\ call' \in {"progress", "none"}
      /\ UNCHANGED <<listed, metainfo, entry, writes, pc>>
  <2>1. /\ call = Fields[k] /\ call' = IF k < Len(Fields) THEN Fields[k + 1] ELSE "none"
        /\ UNCHANGED <<listed, metainfo, entry, writes, pc>>
    BY Zenon DEF Read
  <2>2. CASE k = 1
    BY <1>1, <2>1, <2>2
  <2>3. CASE k = 2
    BY <1>1, <2>1, <2>3
  <2>. QED
    BY <1>1, <2>2, <2>3
<1>3. \A f : Settled(f)' = Settled(f)
  BY <1>2, SameSettled
<1>. QED
  BY <1>2, <1>3, Unseen DEF OnceInv

LEMMA UnseenWrite ==
    ASSUME IInv, OnceInv, NEW u \in Users, Write(u)
    PROVE  (UNCHANGED Coarse!vars) /\ OnceInv'
<1>1. OnceInv' /\ \A f \in FieldNames : Settled(f)' = Settled(f)
  BY WriteSettles DEF IInv
<1>2. UNCHANGED <<listed, metainfo, pc, call>>
  BY DEF Write
<1>. QED
  BY <1>1, <1>2, Unseen

LEMMA UnseenLeave ==
    ASSUME IInv, OnceInv, NEW u \in Users, Leave(u)
    PROVE  (UNCHANGED Coarse!vars) /\ OnceInv'
<1>1. /\ UNCHANGED <<listed, metainfo, entry, writes, pc>>
      /\ \A f : Settled(f)' = Settled(f)
      /\ u \in lock /\ call' = IF u = "window" THEN "none" ELSE call
  BY SameSettled DEF Leave
<1>2. u = "window" => call \in {"pause", "resume"}
  BY <1>1 DEF IInv, WindowInv
<1>. QED
  BY <1>1, <1>2, Unseen DEF OnceInv

LEMMA UnseenStutter ==
    ASSUME OnceInv, UNCHANGED vars
    PROVE  (UNCHANGED Coarse!vars) /\ OnceInv'
<1>1. UNCHANGED <<listed, metainfo, entry, writes, pc, call>> /\ \A f : Settled(f)' = Settled(f)
  BY SameSettled DEF vars
<1>. QED
  BY <1>1, Unseen DEF OnceInv

LEMMA CoarseInit ==
    ASSUME Init
    PROVE  Coarse!Init /\ OnceInv
<1>1. \A f : Settled(f) = Cleared[f]
  <2>1. \A f : Pending(f) = {}
    BY DEF Init, Pending, ToSet, Users
  <2>. QED
    BY <2>1 DEF Init, Settled
<1>2. Settled("status") = "VERIFYING" /\ Settled("total_pieces") = 0
      /\ Settled("pieces_completed") = 0
  BY <1>1 DEF Cleared
<1>3. Settled("seeding") = FALSE
  BY <1>1, Zenon DEF Cleared
<1>4. Once(<<>>)
  BY DEF Once
<1>5. OnceInv
  BY <1>4 DEF Init, OnceInv, Users
<1>6. /\ Coarse!Index = {0} /\ Coarse!Ids = {1} /\ Coarse!NoId = 0
      /\ Coarse!NoMetainfo = NoMetainfo /\ Coarse!Nobody = -1
  BY DEF Coarse!Index, Coarse!Ids, Coarse!NoId, Coarse!NoMetainfo, NoMetainfo, Coarse!Nobody
<1>. QED
  BY <1>2, <1>3, <1>5, <1>6 DEF Init, Coarse!Init

\* A step of either thread is one of Session, or is not seen there.
LEMMA CoarseStep ==
    ASSUME IInv, OnceInv, [Next]_vars
    PROVE  OnceInv' /\ [Coarse!Next]_(Coarse!vars)
<1>1. /\ Coarse!Ids = {1} /\ (listed => 0 \in Coarse!Listed)
      /\ {Pieces} \cup {Coarse!NoMetainfo} = {Pieces, NoMetainfo}
  BY DEF Coarse!Ids, Coarse!Listed, Coarse!Index, Coarse!NoMetainfo, NoMetainfo
<1>2. ASSUME download_thread, ~Write("thread"), ~Leave("thread")
      PROVE  OnceInv' /\ (Coarse!download_thread(1) \/ UNCHANGED Coarse!vars)
  <2>1. UNCHANGED <<call, listed>>
    BY <1>2 DEF download_thread, Unusable, Fail, Step, Parsed, Prepare, Verified, PieceDone, Look,
                SwarmEnds, Epilogue, End, Section
  <2>2. SUFFICES /\ \A u \in Users : Once(writes'[u])
                 /\ Coarse!download_thread(1) \/ UNCHANGED Coarse!vars
    BY <2>1 DEF OnceInv
  <2>3. CASE Unusable
    <3>1. metainfo = NoMetainfo /\ Fail("parse")
      BY <2>3 DEF Unusable
    <3>2. Coarse!Fail(1, "parse", "reopen") /\ \A u \in Users : Once(writes'[u])
      BY <3>1, CoarseFail
    <3>. QED
      BY <3>1, <3>2 DEF Coarse!download_thread, Coarse!Unusable, Coarse!NoMetainfo, NoMetainfo
  <2>4. CASE Parsed
    BY <2>4, CoarseParsed DEF Coarse!download_thread
  <2>5. CASE Prepare
    BY <2>5, CoarsePrepare DEF Coarse!download_thread
  <2>6. CASE \E recovered \in 0 .. entry.total_pieces : Verified(recovered)
    <3>1. PICK recovered \in 0 .. entry.total_pieces : Verified(recovered)
      BY <2>6
    <3>2. Settled("total_pieces") = entry["total_pieces"]
      BY <3>1, SettledFree DEF IInv, Verified, Section, Free
    <3>3. Coarse!Verified(1, recovered) /\ \A u \in Users : Once(writes'[u])
      BY <3>1, CoarseVerified
    <3>. QED
      BY <3>2, <3>3 DEF Coarse!download_thread
  <2>7. CASE PieceDone
    BY <2>7, CoarsePieceDone DEF Coarse!download_thread
  <2>8. CASE Look
    BY <2>1, <2>8, UnseenSection DEF Look, Step, Users
  <2>9. CASE SwarmEnds
    BY <2>9, CoarseSwarmEnds DEF Coarse!download_thread
  <2>10. CASE Epilogue
    BY <2>10, CoarseEpilogue DEF Coarse!download_thread
  <2>11. CASE End
    BY <2>11, CoarseEnd DEF Coarse!download_thread
  <2>. QED
    BY <1>2, <2>3, <2>4, <2>5, <2>6, <2>7, <2>8, <2>9, <2>10, <2>11 DEF download_thread
<1>3. CASE download_thread /\ ~Write("thread") /\ ~Leave("thread")
  BY <1>1, <1>2, <1>3 DEF Coarse!Next
<1>4. ASSUME NEW u \in Users, Write(u) \/ Leave(u)
      PROVE  OnceInv' /\ UNCHANGED Coarse!vars
  BY <1>4, UnseenWrite, UnseenLeave
<1>5. CASE \E pieces \in {Pieces, NoMetainfo} : ts_add_torrent(pieces)
  BY <1>1, <1>5, CoarseAdd DEF Coarse!Next, Coarse!Window
<1>6. CASE \E c \in {"pause", "resume", "remove", Fields[1]} : Ask(c)
  <2>1. PICK c \in {"pause", "resume", "remove", "status"} : Ask(c) /\ listed
    BY <1>6 DEF Fields, Ask
  <2>. QED
    BY <1>1, <2>1, CoarseAsk DEF Coarse!Next, Coarse!Window
<1>7. CASE ts_pause_torrent
  BY <1>1, <1>7, CoarsePause DEF Coarse!Next, Coarse!Window
<1>8. CASE ts_resume_torrent
  BY <1>1, <1>8, CoarseResume DEF Coarse!Next, Coarse!Window
<1>9. CASE Removed
  BY <1>9, CoarseRemoved DEF Coarse!Next, Coarse!Window
<1>10. CASE \E k \in DOMAIN Fields : Read(k)
  BY <1>10, CoarseRead
<1>11. CASE UNCHANGED vars
  BY <1>11, UnseenStutter
<1>. QED
  BY <1>3, <1>4, <1>5, <1>6, <1>7, <1>8, <1>9, <1>10, <1>11 DEF Next, Window, GoesOn, Users

\* The sections of the two threads (torrent_session.c:92-277 and 371-408,
\* swarm.c:303-309), each taken apart into its writes, are single steps to
\* whoever takes the lock: what Session is proved to do, the entry does.
THEOREM SectionsAreSteps == Spec => ImplementsSession
<1>1. Init => Coarse!Init /\ IInv /\ OnceInv
  BY Initially, CoarseInit
<1>2. IInv /\ OnceInv /\ [Next]_vars => IInv' /\ OnceInv' /\ [Coarse!Next]_(Coarse!vars)
  BY Stepping, CoarseStep
<1>. QED
  BY <1>1, <1>2, PTL DEF Spec, ImplementsSession, Coarse!Spec

------------------------------------------------------------------------------
(* What SessionProofs proves of sections holds of their writes *)

\* The entry of EntryLocks, for the theorems about Session.
Proved == INSTANCE SessionProofs WITH
    MaxTorrents <- 1,
    MaxAdded <- 1,
    PieceCounts <- {Pieces},
    count <- IF listed THEN 1 ELSE 0,
    next_id <- IF pc = "unborn" THEN 1 ELSE 2,
    joining <- IF call = "remove" THEN 0 ELSE -1,
    id <- [i \in {0} |-> IF pc = "unborn" THEN 0 ELSE 1],
    status <- [i \in {0} |-> Settled("status")],
    seeding <- [i \in {0} |-> Settled("seeding")],
    total_pieces <- [i \in {0} |-> Settled("total_pieces")],
    pieces_completed <- [i \in {0} |-> Settled("pieces_completed")],
    thread <- [i \in {0} |-> IF pc = "unborn" THEN 0 ELSE 1],
    entry_index <- [t \in {1} |-> 0],
    metainfo <- [t \in {1} |-> metainfo],
    pc <- [t \in {1} |-> pc],
    displaced <- {}

LEMMA ProvedAssumption == Proved!SessionAssumption
  BY EntryAssumption DEF Proved!SessionAssumption

\* Coarse and Proved are the same specification.
LEMMA SameSession ==
    /\ Coarse!Init = Proved!Init
    /\ Coarse!Next <=> Proved!Next
    /\ Coarse!vars = Proved!vars /\ Coarse!vars' = Proved!vars'
<1>1. Coarse!Init = Proved!Init
  BY DEF Coarse!Init, Proved!Init, Coarse!Index, Proved!Index, Coarse!Ids, Proved!Ids,
         Coarse!Nobody, Proved!Nobody, Coarse!NoId, Proved!NoId, Coarse!NoMetainfo,
         Proved!NoMetainfo
<1>2. Coarse!Next <=> Proved!Next
  BY DEF Coarse!Index, Proved!Index, Coarse!Ids, Proved!Ids, Coarse!NoId, Proved!NoId,
         Coarse!NoMetainfo, Proved!NoMetainfo, Coarse!Nobody, Proved!Nobody,
         Coarse!entries, Proved!entries, Coarse!threads, Proved!threads, Coarse!vars,
         Proved!vars, Coarse!Listed, Proved!Listed, Coarse!NewId, Proved!NewId,
         Coarse!ts_add_torrent, Proved!ts_add_torrent, Coarse!RunningBehind,
         Proved!RunningBehind, Coarse!Live, Proved!Live, Coarse!Join, Proved!Join, Coarse!Joined, Proved!Joined,
         Coarse!Moved, Proved!Moved, Coarse!Removed, Proved!Removed,
         Coarse!ts_pause_torrent, Proved!ts_pause_torrent, Coarse!ts_resume_torrent,
         Proved!ts_resume_torrent, Coarse!Window, Proved!Window, Coarse!Step,
         Proved!Step, Coarse!Fail, Proved!Fail, Coarse!Unusable, Proved!Unusable,
         Coarse!Parsed, Proved!Parsed, Coarse!Prepare, Proved!Prepare,
         Coarse!VerifiedStatus, Proved!VerifiedStatus, Coarse!Verified, Proved!Verified,
         Coarse!PieceDone, Proved!PieceDone, Coarse!SwarmEnds, Proved!SwarmEnds,
         Coarse!SeedingIfComplete, Proved!SeedingIfComplete, Coarse!Epilogue,
         Proved!Epilogue, Coarse!End, Proved!End, Coarse!download_thread,
         Proved!download_thread, Coarse!Next, Proved!Next
<1>3. Coarse!vars = Proved!vars /\ Coarse!vars' = Proved!vars'
  BY DEF Coarse!vars, Proved!vars, Coarse!entries, Proved!entries, Coarse!threads,
         Proved!threads
<1>. QED
  BY <1>1, <1>2, <1>3

LEMMA IsProved == Spec => Proved!Spec
<1>1. Coarse!Init => Proved!Init
  BY SameSession
<1>2. [Coarse!Next]_(Coarse!vars) => [Proved!Next]_(Proved!vars)
  BY SameSession
<1>. QED
  BY <1>1, <1>2, SectionsAreSteps, PTL DEF ImplementsSession, Coarse!Spec, Proved!Spec

\* What is seen under the lock, or would be.
EntryTrue ==
    lock = {} =>
        /\ pc \in {"swarm", "epilogue", "end"} =>
              /\ entry.status \in {"DOWNLOADING", "SEEDING", "PAUSED"}
              /\ (entry.status = "SEEDING" \/ entry.seeding) =>
                    entry.pieces_completed = entry.total_pieces
        /\ (listed /\ entry.status = "ERROR") => pc = "finished"

\* Whoever takes the lock of an entry (torrent_session.c:250-259, 371-408,
\* swarm.c:303-309) finds a status that agrees with where the thread is,
\* although it was written field by field.
THEOREM EntriesAreTrue == Spec => []EntryTrue
<1>1. Spec => []Proved!StatusAgrees
  BY IsProved, Proved!StatusAgreed, ProvedAssumption, PTL
<1>2. IInv /\ Proved!StatusAgrees => EntryTrue
  <2>. SUFFICES ASSUME IInv, Proved!StatusAgrees, lock = {} PROVE EntryTrue
    BY DEF EntryTrue
  <2>1. \A f : Settled(f) = entry[f]
    BY SettledFree DEF IInv
  <2>2. ASSUME pc \in {"swarm", "epilogue", "end"}
        PROVE  /\ Settled("status") \in {"DOWNLOADING", "SEEDING", "PAUSED"}
               /\ (Settled("status") = "SEEDING" \/ Settled("seeding")) =>
                     Settled("pieces_completed") = Settled("total_pieces")
    <3>1. 1 \in Proved!Ids
      BY DEF Proved!Ids
    <3>. QED
      BY <2>2, <3>1 DEF Proved!StatusAgrees, Proved!VerifiedBeforeSwarm
  <2>3. ASSUME listed, Settled("status") = "ERROR" PROVE pc = "finished"
    <3>1. 0 \in Proved!Listed
      BY <2>3 DEF Proved!Listed, Proved!Index
    <3>2. pc # "unborn"
      BY <2>3 DEF IInv, UnbornInv
    <3>. QED
      BY <2>3, <3>1, <3>2 DEF Proved!StatusAgrees, Proved!FailedIsStopped
  <2>4. /\ Settled("status") = entry["status"] /\ Settled("total_pieces") = entry["total_pieces"]
        /\ Settled("pieces_completed") = entry["pieces_completed"]
    BY <2>1
  <2>5. entry["seeding"] => Settled("seeding")
    BY <2>1, Zenon
  <2>. QED
    BY <2>2, <2>3, <2>4, <2>5 DEF EntryTrue
<1>. QED
  BY <1>1, <1>2, Inductive, PTL

\* A pause lasts until it is ended by the user, an error or the end of the
\* swarm, although the pause and the sections of the thread (torrent_session.c:
\* 250-259 among them) are writes that come one after the other.
THEOREM PausesLast == Spec => Coarse!PauseKept
<1>1. Spec => Proved!PauseKept
  BY IsProved, Proved!PauseLasts, ProvedAssumption, PTL
<1>2. Proved!PauseKept => Coarse!PauseKept
  BY DEF Coarse!PauseKept, Proved!PauseKept, Coarse!vars, Proved!vars, Coarse!entries,
         Proved!entries, Coarse!threads, Proved!threads, Coarse!Listed, Proved!Listed,
         Coarse!Index, Proved!Index, Coarse!ts_resume_torrent, Proved!ts_resume_torrent,
         Coarse!Nobody, Proved!Nobody, Coarse!End, Proved!End, Coarse!Step, Proved!Step,
         Coarse!SeedingIfComplete, Proved!SeedingIfComplete
<1>. QED
  BY <1>1, <1>2

==============================================================================
