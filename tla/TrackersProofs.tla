---------------------------- MODULE TrackersProofs ----------------------------
(***************************************************************************)
(* Proofs about the search for peers (module Trackers), for any number of  *)
(* trackers.                                                               *)
(*                                                                         *)
(* What the download thread knows of the jobs it has joined stays true     *)
(* because their threads have ended: a thread writes the entry of its own  *)
(* job only, and only while it runs.                                       *)
(***************************************************************************)
EXTENDS Trackers, TLAPS

\* The jobs that the download thread has joined.
Past == 1 .. i - 1

\* Nothing is taken before the first join, and then what the threads that have
\* ended gave.
JoinInv ==
    /\ main = "spawn" => freed = {} /\ peers = Nobody
    /\ main # "spawn" =>
          /\ \A j \in Past : worker[j] = "ended"
          /\ freed = {j \in Past : result[j] # NoPeers} \ {peers}
          /\ \A j \in Past : j < peers \/ peers = Nobody => result[j] = NoPeers
          /\ peers \in {Nobody} \cup Past
    /\ main \in {"located", "failed"} => i = job_count + 1
    /\ total_seeds = peers
    /\ peers # Nobody => result[peers] # NoPeers

\* The numbers of a job that has peers are its own.
OwnNumbers == \A j \in Slots : result[j] # NoPeers => seeders[j] = j

IInv == TypeOK /\ JoinInv /\ OwnNumbers /\ NeverFromConnect

------------------------------------------------------------------------------
\* A program that starts satisfies the invariant.
LEMMA Initially == Init => IInv
  BY TrackersAssumption, SMT
     DEF Init, IInv, TypeOK, JoinInv, OwnNumbers, NeverFromConnect, Slots, Jobs, Schemes, Kinds,
         NoRequests, Nobody, NoPeers, NoNumber

\* The jobs are among the slots.
LEMMA JobsAreSlots == TypeOK => Jobs \subseteq Slots /\ job_count \in Nat /\ i \in Nat
  BY TrackersAssumption, SMT DEF TypeOK, Jobs, Slots

\* What a state of a thread, and of its requests, is.
States   == {"none", "started", "seeded", "connecting", "announcing", "receiving",
             "looping", "ended"}
Requests == [connect : {NoNumber} \cup Nat \X Nat, announce : {NoNumber} \cup Nat \X Nat]

\* Changing a function at one argument.
LEMMA Update ==
  ASSUME NEW S, NEW T, NEW f \in [S -> T], NEW x \in S, NEW v \in T
  PROVE  /\ [f EXCEPT ![x] = v] \in [S -> T]
         /\ [f EXCEPT ![x] = v][x] = v
         /\ \A y \in S \ {x} : [f EXCEPT ![x] = v][y] = f[y]
  OBVIOUS

\* A thread moves itself only, and not from its end.
LEMMA StepFacts ==
  ASSUME TypeOK, NEW j \in Slots, NEW from \in States \ {"ended"}, NEW to \in States,
         Step(j, from, to)
  PROVE  /\ UNCHANGED <<torrent, mine>>
         /\ worker[j] # "ended"
         /\ worker' \in [Slots -> States]
         /\ \A k \in Slots \ {j} : worker'[k] = worker[k]
<1>1. worker \in [Slots -> States]
  BY DEF TypeOK, States
<1> QED BY <1>1, Update DEF Step

LEMMA NoRequestsType == NoRequests \in Requests
  BY SMT DEF NoRequests, Requests, NoNumber

\* A thread that ends forgets its requests and its buffer.
LEMMA EndFacts ==
  ASSUME TypeOK, NEW j \in Slots, NEW from \in States \ {"ended"}, End(j, from)
  PROVE  /\ Step(j, from, "ended")
         /\ transaction' \in [Slots -> Requests]
         /\ received' \in [Slots -> 0 .. BufferLen]
         /\ rand_state' \in Nat \X Nat
<1>1. transaction \in [Slots -> Requests] /\ received \in [Slots -> 0 .. BufferLen]
  BY DEF TypeOK, Requests
<1>2. 0 \in 0 .. BufferLen
  BY TrackersAssumption
<1> QED BY <1>1, <1>2, Update, NoRequestsType DEF End, TypeOK

\* A number that rand gives is one, and so is what it gives next.
LEMMA RandFacts ==
  ASSUME TypeOK
  PROVE  /\ \A n \in Nat : [rand_state EXCEPT ![2] = @ + n] \in Nat \X Nat
         /\ \A j \in Slots : /\ [transaction[j] EXCEPT !.connect = rand_state] \in Requests
                             /\ [transaction[j] EXCEPT !.announce = rand_state] \in Requests
<1>1. rand_state \in Nat \X Nat
  BY DEF TypeOK
<1>2. ASSUME NEW n \in Nat PROVE [rand_state EXCEPT ![2] = @ + n] \in Nat \X Nat
  BY <1>1, SMT
<1>3. ASSUME NEW j \in Slots
      PROVE  /\ [transaction[j] EXCEPT !.connect = rand_state] \in Requests
             /\ [transaction[j] EXCEPT !.announce = rand_state] \in Requests
  <2>1. transaction[j] \in Requests
    BY DEF TypeOK, Requests
  <2> QED BY <1>1, <2>1, SMT DEF Requests
<1> QED BY <1>2, <1>3

\* What a thread gives for its own job: nothing new, or not a connect answer,
\* and the numbers with it.
Given(j) ==
    /\ seeders' \in [Slots -> {Nobody} \cup Slots]
    /\ result' \in [Slots -> {NoPeers, "response"} \cup Kinds]
    /\ \A k \in Slots \ {j} : result'[k] = result[k] /\ seeders'[k] = seeders[k]
    /\ result'[j] # "connect"
    /\ result'[j] # NoPeers => seeders'[j] = j

\* A step of a thread leaves all other jobs and the download thread alone, and
\* what it gives for its own is never a connect answer, and with its numbers.
LEMMA WorkerStep ==
  ASSUME TypeOK, OwnNumbers, NeverFromConnect,
         NEW j \in Jobs, tracker_worker_thread(j)
  PROVE  /\ UNCHANGED <<torrent, mine>>
         /\ worker[j] # "ended"
         /\ \A k \in Slots \ {j} : worker'[k] = worker[k]
         /\ TypeOK' /\ Given(j)
<1> DEFINE Moved  == /\ UNCHANGED <<torrent, mine>>
                     /\ worker[j] # "ended"
                     /\ worker' \in [Slots -> States]
                     /\ \A k \in Slots \ {j} : worker'[k] = worker[k]
           Buffer == received' \in [Slots -> 0 .. BufferLen]
           Rand   == rand_state' \in Nat \X Nat
           Asked  == transaction' \in [Slots -> Requests]
<1> SUFFICES Moved /\ Buffer /\ Rand /\ Asked /\ Given(j)
  BY DEF TypeOK, torrent, mine, Given, States, Requests
<1>1. j \in Slots
  BY JobsAreSlots
<1>2. /\ received \in [Slots -> 0 .. BufferLen] /\ rand_state \in Nat \X Nat
      /\ transaction \in [Slots -> Requests] /\ worker \in [Slots -> States]
      /\ seeders \in [Slots -> {Nobody} \cup Slots]
      /\ result \in [Slots -> {NoPeers, "response"} \cup Kinds]
  BY DEF TypeOK, Requests, States
<1>3. result[j] # "connect" /\ (result[j] # NoPeers => seeders[j] = j)
  BY <1>1 DEF NeverFromConnect, OwnNumbers
<1>4. UNCHANGED out => Given(j)
  BY <1>2, <1>3 DEF out, Given
<1>5. \A from \in States \ {"ended"} : GiveUp(j, from) => Moved /\ Buffer /\ Rand /\ Asked /\ Given(j)
  BY <1>1, <1>4, EndFacts, StepFacts DEF GiveUp, States
<1>6. CASE CannotStart(j)
  BY <1>5, <1>6 DEF CannotStart, States
<1>7. CASE UdpSeed(j)
  <2>1. Moved
    BY <1>1, <1>7, StepFacts DEF UdpSeed, States
  <2>2. PICK now \in rand_state[1] .. LastSecond : rand_state' = <<now, 0>>
    BY <1>7 DEF UdpSeed
  <2>3. Rand
    BY <1>2, <2>2, TrackersAssumption, SMT
  <2> QED BY <1>2, <1>4, <1>7, <2>1, <2>3 DEF UdpSeed
<1>8. CASE UdpConnect(j)
  <2>1. Moved
    BY <1>1, <1>8, StepFacts DEF UdpConnect, States
  <2>2. Rand
    BY <1>8, RandFacts DEF UdpConnect, NextNumber
  <2>3. Asked
    <3>1. transaction' \in {transaction, [transaction EXCEPT ![j].connect = rand_state]}
      BY <1>8 DEF UdpConnect
    <3>2. [transaction[j] EXCEPT !.connect = rand_state] \in Requests
      BY <1>1, RandFacts
    <3> QED BY <1>1, <1>2, <3>1, <3>2
  <2> QED BY <1>2, <1>4, <1>8, <2>1, <2>2, <2>3 DEF UdpConnect
<1>9. CASE UdpTimeout(j)
  BY <1>5, <1>9 DEF UdpTimeout, Timeout, States
<1>10. CASE HttpConnect(j)
  <2>1. Moved
    BY <1>1, <1>10, StepFacts DEF HttpConnect, States
  <2> QED BY <1>2, <1>4, <1>10, <2>1 DEF HttpConnect
<1>11. CASE HttpParse(j)
  <2>1. Moved /\ Buffer /\ Rand /\ Asked
    BY <1>1, <1>11, EndFacts, StepFacts DEF HttpParse, States
  <2>2. CASE UNCHANGED out
    BY <1>4, <2>1, <2>2
  <2>3. CASE /\ seeders' = [seeders EXCEPT ![j] = j]
             /\ result' = [result EXCEPT ![j] = "response"]
    BY <1>1, <1>2, <2>1, <2>3, Update DEF Given
  <2> QED BY <1>11, <2>1, <2>2, <2>3 DEF HttpParse
<1>12. CASE HttpLoop(j)
  <2>1. Moved
    BY <1>1, <1>12, StepFacts DEF HttpLoop, States
  <2> QED BY <1>2, <1>4, <1>12, <2>1 DEF HttpLoop
<1>13. CASE UdpRefused(j)
  BY <1>5, <1>13 DEF UdpRefused, States
<1>14. CASE UdpAnnounce(j)
  <2>1. Moved
    BY <1>1, <1>14, StepFacts DEF UdpAnnounce, States
  <2>2. Rand
    BY <1>14, RandFacts DEF UdpAnnounce
  <2>3. Asked
    <3>1. transaction' \in {[transaction EXCEPT ![j].announce = rand_state],
                            [transaction EXCEPT ![j] = NoRequests]}
      BY <1>14 DEF UdpAnnounce
    <3>2. [transaction[j] EXCEPT !.announce = rand_state] \in Requests
      BY <1>1, RandFacts
    <3> QED BY <1>1, <1>2, <3>1, <3>2, NoRequestsType
  <2> QED BY <1>2, <1>4, <1>14, <2>1, <2>2, <2>3 DEF UdpAnnounce
<1>15. CASE UdpAnswered(j)
  <2>1. Moved /\ Buffer /\ Rand /\ Asked
    BY <1>1, <1>15, EndFacts, StepFacts DEF UdpAnswered, States
  <2>2. PICK d \in Arriving(j) :
          /\ seeders' = IF TooShort(d) THEN seeders ELSE [seeders EXCEPT ![j] = j]
          /\ result' = IF TooShort(d) \/ d.number # transaction[j].announce THEN result
                       ELSE [result EXCEPT ![j] = d.kind]
    BY <1>15 DEF UdpAnswered
  <2>3. d.kind \in Kinds
    <3>1. PICK r \in {"connect", "announce"}, k \in Kinds,
              n \in {transaction[j].connect, transaction[j].announce, NoNumber} :
            d = [kind |-> k, number |-> n]
      BY DEF Arriving
    <3> QED BY <3>1
  <2>4. CASE TooShort(d)
    BY <1>4, <2>1, <2>2, <2>4 DEF out
  <2>5. CASE ~TooShort(d)
    <3>1. d.kind # "connect"
      <4>1. Length("connect") = 16
        BY SMT DEF Length
      <4> QED BY <2>5, <4>1, SMT DEF TooShort
    <3>2. seeders' = [seeders EXCEPT ![j] = j]
      BY <2>2, <2>5
    <3>3. result' = result \/ result' = [result EXCEPT ![j] = d.kind]
      BY <2>2
    <3>4. CASE result' = result
      BY <1>1, <1>2, <1>3, <2>1, <3>2, <3>4, Update DEF Given
    <3>5. CASE result' = [result EXCEPT ![j] = d.kind]
      BY <1>1, <1>2, <2>1, <2>3, <3>1, <3>2, <3>5, Update DEF Given
    <3> QED BY <3>3, <3>4, <3>5
  <2> QED BY <2>4, <2>5
<1>16. CASE HttpReceive(j)
  <2>1. received[j] + 1 \in 0 .. BufferLen
    BY <1>1, <1>2, <1>16, TrackersAssumption DEF HttpReceive, RoomForMore
  <2>2. Buffer
    BY <1>1, <1>2, <1>16, <2>1 DEF HttpReceive
  <2> QED BY <1>1, <1>2, <1>4, <1>16, <2>2 DEF HttpReceive
<1> QED
  BY <1>6, <1>7, <1>8, <1>9, <1>10, <1>11, <1>12, <1>13, <1>14, <1>15, <1>16
     DEF tracker_worker_thread, Alone

------------------------------------------------------------------------------
\* Every step keeps the invariant.
LEMMA Stepwise == IInv /\ [Next]_vars => IInv'
<1> SUFFICES ASSUME IInv, [Next]_vars PROVE IInv'
  OBVIOUS
<1>1. Jobs \subseteq Slots /\ job_count \in Nat /\ i \in Nat
  BY JobsAreSlots DEF IInv
<1>2. CASE Spawn
  <2>1. TypeOK'
    <3>1. i' \in 1 .. job_count + 1
      BY <1>1, <1>2, SMT DEF IInv, TypeOK, Spawn
    <3>2. worker' \in [Slots -> States]
      <4>1. i <= job_count => i \in Slots
        BY <1>1, SMT DEF IInv, TypeOK, Jobs
      <4>2. worker \in [Slots -> States]
        BY DEF IInv, TypeOK, States
      <4> QED BY <1>2, <4>1, <4>2, Update DEF Spawn, States
    <3> QED BY <1>2, <3>1, <3>2 DEF IInv, TypeOK, Spawn, torrent, out, States
  <2>2. JoinInv'
    BY <1>1, <1>2, SMT DEF IInv, JoinInv, Spawn, Past, Nobody, torrent, out
  <2> QED BY <1>2, <2>1, <2>2 DEF IInv, OwnNumbers, NeverFromConnect, Jobs, Spawn, out, torrent
<1>3. CASE Join
  <2>1. i \in Jobs /\ i \in Slots /\ main = "join" /\ worker[i] = "ended" /\ i' = i + 1
    BY <1>1, <1>3, SMT DEF Join, StillToJoin, IInv, TypeOK, Jobs
  <2>2. UNCHANGED <<torrent, main, worker, transaction, received, out, rand_state>>
    BY <1>3 DEF Join
  <2>3. Past' = Past \cup {i} /\ i \notin Past /\ Nobody \notin Past'
    BY <1>1, <2>1, SMT DEF Past, Nobody, Jobs
  <2>4. CASE result[i] = NoPeers
    <3>1. UNCHANGED <<peers, total_seeds, freed>>
      BY <1>3, <2>4 DEF Join
    <3>2. TypeOK'
      BY <1>1, <2>1, <2>2, <3>1, SMT DEF IInv, TypeOK, torrent, out, Jobs, Slots
    <3>3. JoinInv'
      <4>1. freed = {j \in Past' : result[j] # NoPeers} \ {peers}
        BY <2>1, <2>3, <2>4 DEF IInv, JoinInv
      <4>2. \A j \in Past' : j < peers \/ peers = Nobody => result[j] = NoPeers
        BY <2>1, <2>3, <2>4 DEF IInv, JoinInv
      <4> QED BY <2>1, <2>2, <2>3, <3>1, <4>1, <4>2 DEF IInv, JoinInv, out
    <3> QED BY <2>2, <3>2, <3>3 DEF IInv, OwnNumbers, NeverFromConnect, Jobs, out, torrent
  <2>5. CASE result[i] # NoPeers /\ peers = Nobody
    <3>1. peers' = i /\ freed' = freed /\ total_seeds' = i
      BY <1>3, <2>1, <2>5 DEF Join, Counts, IInv, OwnNumbers
    <3>2. TypeOK'
      BY <1>1, <2>1, <2>2, <3>1, SMT DEF IInv, TypeOK, torrent, out, Jobs, Slots
    <3>3. freed = {} /\ \A k \in Past : result[k] = NoPeers
      BY <2>1, <2>5 DEF IInv, JoinInv
    <3>4. JoinInv'
      BY <1>1, <2>1, <2>2, <2>3, <2>5, <3>1, <3>3, SMT DEF IInv, JoinInv, torrent, out
    <3> QED BY <2>2, <3>2, <3>4 DEF IInv, OwnNumbers, NeverFromConnect, Jobs, out, torrent
  <2>6. CASE result[i] # NoPeers /\ peers # Nobody
    <3>1. UNCHANGED <<peers, total_seeds>> /\ freed' = freed \cup {i}
      BY <1>3, <2>6 DEF Join, Counts
    <3>2. TypeOK'
      BY <1>1, <2>1, <2>2, <3>1, SMT DEF IInv, TypeOK, torrent, out, Jobs, Slots
    <3>3. peers \in Past /\ peers < i /\ i # peers
      BY <1>1, <2>1, <2>6, SMT DEF IInv, JoinInv, Past
    <3>4. JoinInv'
      <4>1. freed' = {j \in Past' : result[j] # NoPeers} \ {peers}
        BY <2>1, <2>3, <2>6, <3>1, <3>3 DEF IInv, JoinInv
      <4>2. \A j \in Past' : j < peers => result[j] = NoPeers
        BY <1>1, <2>1, <2>3, <3>3, SMT DEF IInv, JoinInv, Past
      <4> QED BY <2>1, <2>2, <2>3, <2>6, <3>1, <3>3, <4>1, <4>2 DEF IInv, JoinInv, out
    <3> QED BY <2>2, <3>2, <3>4 DEF IInv, OwnNumbers, NeverFromConnect, Jobs, out, torrent
  <2> QED BY <2>4, <2>5, <2>6
<1>4. CASE Joined
  <2>1. main = "join" /\ i = job_count + 1 /\ main' \in {"located", "failed"}
    BY <1>1, <1>4, SMT DEF Joined, StillToJoin, IInv, TypeOK
  <2>2. UNCHANGED <<torrent, i, freed, peers, total_seeds, worker, transaction, received, out,
                    rand_state>>
    BY <1>4 DEF Joined
  <2> QED BY <2>1, <2>2, SMT
          DEF IInv, TypeOK, JoinInv, OwnNumbers, NeverFromConnect, Jobs, Past, out, torrent
<1>5. ASSUME NEW j \in Jobs, tracker_worker_thread(j) PROVE IInv'
  <2>1. /\ UNCHANGED <<torrent, mine>>
        /\ worker[j] # "ended"
        /\ \A k \in Slots \ {j} : worker'[k] = worker[k] /\ result'[k] = result[k]
        /\ TypeOK' /\ OwnNumbers' /\ NeverFromConnect'
    <3>1. /\ UNCHANGED <<torrent, mine>>
          /\ worker[j] # "ended"
          /\ \A k \in Slots \ {j} : worker'[k] = worker[k]
          /\ TypeOK' /\ Given(j)
      BY <1>5, WorkerStep DEF IInv
    <3>2. \A k \in Slots \ {j} : result'[k] = result[k] /\ seeders'[k] = seeders[k]
      BY <3>1 DEF Given
    <3>3. OwnNumbers'
      BY <3>1, <3>2 DEF Given, OwnNumbers, IInv
    <3>4. Jobs' = Jobs
      BY <3>1 DEF torrent, Jobs
    <3>5. NeverFromConnect'
      BY <1>1, <3>1, <3>2, <3>4 DEF Given, NeverFromConnect, IInv
    <3> QED BY <3>1, <3>2, <3>3, <3>5
  <2>2. Past \subseteq Slots
    BY <1>1, TrackersAssumption, SMT DEF IInv, TypeOK, Past, Slots
  <2>3. Past' = Past
    BY <2>1 DEF Past, mine
  <2>4. main # "spawn" => \A k \in Past : worker'[k] = "ended" /\ result'[k] = result[k]
    BY <2>1, <2>2 DEF IInv, JoinInv
  <2>5. peers # Nobody => peers \in Past /\ main # "spawn"
    BY DEF IInv, JoinInv
  <2>6. JoinInv'
    BY <2>1, <2>3, <2>4, <2>5 DEF IInv, JoinInv, mine, torrent
  <2> QED BY <2>1, <2>6 DEF IInv
<1>6. CASE UNCHANGED vars
  BY <1>6 DEF vars, torrent, mine, out, IInv, TypeOK, JoinInv, OwnNumbers, NeverFromConnect, Past,
              Jobs
<1> QED BY <1>2, <1>3, <1>4, <1>5, <1>6 DEF Next, download_thread

\* The inductive invariant: what the download thread keeps is what the threads
\* that it has joined gave.
THEOREM Inductive == Spec => []IInv
  BY Initially, Stepwise, PTL DEF Spec

------------------------------------------------------------------------------
\* The variables keep their types, and a response does not outgrow its buffer.
THEOREM TypeCorrect == Spec => []TypeOK
<1>1. IInv => TypeOK
  BY DEF IInv
<1> QED BY <1>1, Inductive, PTL

\* The download thread leaves the search when all threads of the jobs, which
\* live on its stack, have ended.
THEOREM NobodyLeftRunning == Spec => []WorkersEnded
<1>1. IInv => WorkersEnded
  <2> SUFFICES ASSUME IInv, main \in {"located", "failed"}, NEW j \in Jobs PROVE worker[j] = "ended"
    BY DEF WorkersEnded
  <2>1. i = job_count + 1 /\ job_count \in Nat /\ main # "spawn"
    BY JobsAreSlots DEF IInv, JoinInv
  <2>2. j \in Past
    BY <2>1, SMT DEF Past, Jobs
  <2> QED BY <2>1, <2>2 DEF IInv, JoinInv
<1> QED BY <1>1, Inductive, PTL

\* The peers and the numbers are those of the first tracker in order that gave
\* peers, and the other lists are freed.
THEOREM FirstWins == Spec => []FirstAnswerWins
<1>1. IInv => FirstAnswerWins
  <2> SUFFICES ASSUME IInv PROVE FirstAnswerWins
    OBVIOUS
  <2>1. main \in {"located", "failed"} => Past = Jobs /\ main # "spawn"
    BY JobsAreSlots, SMT DEF IInv, JoinInv, Past, Jobs
  <2> QED BY <2>1 DEF IInv, JoinInv, FirstAnswerWins
<1> QED BY <1>1, Inductive, PTL

\* No answer to a connect request is taken for peers, whatever numbers rand
\* gives to whom.
THEOREM ConnectIsNoAnswer == Spec => []NeverFromConnect
<1>1. IInv => NeverFromConnect
  BY DEF IInv
<1> QED BY <1>1, Inductive, PTL

==============================================================================
