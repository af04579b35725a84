------------------------------- MODULE Trackers -------------------------------
(***************************************************************************)
(* How a download thread finds its peers: it starts one thread for each    *)
(* tracker of the torrent, waits for them in order and keeps the first     *)
(* answer (rgTorrent-c/torrent_session.c), and each thread talks to its    *)
(* tracker by UDP or HTTP (rgTorrent-c/connectivity/announce_connector.c). *)
(*                                                                         *)
(* What a thread does up to the next time it waits is one action.          *)
(* Datagrams are lost, duplicated and delayed; rand, which makes the       *)
(* transaction ids, has one state that all threads of the program share.   *)
(* A host name is resolved, and a socket made, or not; what an answer says *)
(* is abstracted to which tracker it came from.                            *)
(***************************************************************************)
EXTENDS Integers, FiniteSets

CONSTANTS
    MaxJobs,   \* MAX_TRACKERS, the length of jobs
    BufferLen, \* sizeof(response_buf) - 1, in the units in which data arrives
    LastSecond \* bound: the last second that time(NULL) returns

ASSUME TrackersAssumption ==
    /\ MaxJobs \in Nat
    /\ BufferLen \in Nat \ {0}
    /\ LastSecond \in Nat

Slots    == 1 .. MaxJobs
Schemes  == {"udp", "http", "unknown"}
Nobody   == 0       \* peers == NULL
NoPeers  == "none"  \* jobs[j].result_peers == NULL
NoNumber == <<-1, 0>>   \* no number that rand gives
NoRequests == [connect |-> NoNumber, announce |-> NoNumber]

\* A datagram that a UDP tracker sends: an answer to the connect request has 16
\* bytes, one to the announce at least 20, an error any number from 8.
Kinds        == {"connect", "announce", "error", "long error"}
Length(kind) == CASE kind = "connect" -> 16 [] kind = "announce" -> 20
                  [] kind = "error" -> 8 [] kind = "long error" -> 20

VARIABLES
    job_count,   \* how many trackers the torrent names, MAX_TRACKERS at most
    scheme,      \* scheme[j]: of the URL of jobs[j]
    i,           \* i of the two loops over the jobs, counted from 1
    main,        \* where the download thread is
    worker,      \* worker[j]: where the thread of jobs[j] is
    transaction, \* transaction[j]: the transaction_id of both requests of jobs[j]
    received,    \* received[j]: total_received
    seeders,     \* seeders[j]: jobs[j].seeders, by the tracker it came from
    result,      \* result[j]: what jobs[j].result_peers was taken from
    freed,       \* the jobs whose result_peers was freed
    peers,       \* the job that peers was taken from
    total_seeds, \* e->total_seeds, by the tracker it came from
    rand_state   \* the seed of rand, and how many numbers it has given since

torrent == <<job_count, scheme>>
mine    == <<i, main, freed, peers, total_seeds>>
out     == <<seeders, result>>
vars    == <<torrent, mine, worker, transaction, received, out, rand_state>>

Jobs == 1 .. job_count

------------------------------------------------------------------------------
\* Any torrent.  What is in jobs before a tracker answers is never read.
Init ==
    /\ job_count \in 0 .. MaxJobs
    /\ scheme \in {s \in [Slots -> Schemes] : \A j \in Slots : j > job_count => s[j] = "unknown"}
    /\ i = 1
    /\ main = "spawn"
    /\ worker = [j \in Slots |-> "none"]
    /\ transaction = [j \in Slots |-> NoRequests]
    /\ received = [j \in Slots |-> 0]
    /\ seeders = [j \in Slots |-> Nobody]
    /\ result = [j \in Slots |-> NoPeers]
    /\ freed = {}
    /\ peers = Nobody
    /\ total_seeds = Nobody
    /\ rand_state = <<0, 0>>

------------------------------------------------------------------------------
(* The download thread *)

Spawn ==
    /\ main = "spawn"
    /\ IF i <= job_count
       THEN /\ worker' = [worker EXCEPT ![i] = "started"]
            /\ i' = i + 1
            /\ UNCHANGED main
       ELSE /\ main' = "join"
            /\ i' = 1
            /\ UNCHANGED worker
    /\ UNCHANGED <<torrent, freed, peers, total_seeds, transaction, received, out, rand_state>>

\* Mutant: the loop ends with the first peers.
StillToJoinUnanswered == i <= job_count /\ peers = Nobody

StillToJoin == i <= job_count

\* Mutant: the numbers of each answer are shown.
CountsOfLast == seeders[i]

\* The numbers shown are those of the tracker whose peers are used.
Counts == IF peers = Nobody THEN seeders[i] ELSE total_seeds

\* The next thread has ended: its peers are used if they are the first, and
\* freed otherwise.
Join ==
    /\ main = "join"
    /\ StillToJoin
    /\ worker[i] = "ended"
    /\ i' = i + 1
    /\ IF result[i] = NoPeers THEN UNCHANGED <<peers, total_seeds, freed>>
       ELSE /\ total_seeds' = Counts
            /\ IF peers = Nobody THEN peers' = i /\ UNCHANGED freed
               ELSE freed' = freed \cup {i} /\ UNCHANGED peers
    /\ UNCHANGED <<torrent, main, worker, transaction, received, out, rand_state>>

\* With peers the thread goes on to the files, without any it ends in error.
Joined ==
    /\ main = "join"
    /\ ~StillToJoin
    /\ main' = IF peers = Nobody THEN "failed" ELSE "located"
    /\ UNCHANGED <<torrent, i, freed, peers, total_seeds, worker, transaction, received, out,
                   rand_state>>

------------------------------------------------------------------------------
(* What the threads of the jobs share *)

Step(j, from, to) ==
    /\ worker[j] = from
    /\ worker' = [worker EXCEPT ![j] = to]
    /\ UNCHANGED <<torrent, mine>>

\* The thread closes its socket and ends.
End(j, from) ==
    /\ Step(j, from, "ended")
    /\ transaction' = [transaction EXCEPT ![j] = NoRequests]
    /\ received' = [received EXCEPT ![j] = 0]
    /\ UNCHANGED rand_state

\* It ends without peers.
GiveUp(j, from) == End(j, from) /\ UNCHANGED out

\* The URL cannot be parsed, its scheme is not known, the host is not found, no
\* socket can be made, or no connection.
CannotStart(j) == GiveUp(j, "started")

------------------------------------------------------------------------------
(* udp_get_peers_list and udp_send_announce_request *)

NextNumber == [rand_state EXCEPT ![2] = @ + 1]

\* srand starts the numbers of all threads again, from this second.
UdpSeed(j) ==
    /\ scheme[j] = "udp"
    /\ Step(j, "started", "seeded")
    /\ \E now \in rand_state[1] .. LastSecond : rand_state' = <<now, 0>>
    /\ UNCHANGED <<transaction, received, out>>

\* The connect request is sent, or cannot be.
UdpConnect(j) ==
    /\ rand_state' = NextNumber
    /\ \/ /\ Step(j, "seeded", "connecting")
          /\ transaction' = [transaction EXCEPT ![j].connect = rand_state]
       \/ Step(j, "seeded", "ended") /\ UNCHANGED transaction
    /\ UNCHANGED <<received, out>>

\* What may arrive at the socket of jobs[j]: any answer to a request that was
\* sent, sooner or later, once or more often or never.  The tracker quotes the
\* number of the request, or some other.
Arriving(j) ==
    LET To(request, kinds) ==
            IF transaction[j][request] = NoNumber THEN {}
            ELSE {[kind |-> k, number |-> n] : k \in kinds,
                                               n \in {transaction[j][request], NoNumber}}
    IN  To("connect", Kinds \ {"announce"}) \cup To("announce", Kinds \ {"connect"})

\* Mutant: recvfrom waits for ever.
NoTimeout(j, from) == FALSE /\ GiveUp(j, from)

\* recvfrom returns nothing within five seconds.
Timeout(j, from) == GiveUp(j, from)

\* Whether d is a whole answer to the connect request: long enough, with the
\* number and the action of it.
Handshake(j, d) ==
    /\ Length(d.kind) >= 16
    /\ d.number = transaction[j].connect
    /\ d.kind = "connect"

UdpRefused(j) ==
    /\ \E d \in Arriving(j) : ~Handshake(j, d)
    /\ GiveUp(j, "connecting")

\* The announce is sent with the next number, or cannot be; one more number is
\* drawn for its key.
UdpAnnounce(j) ==
    /\ \E d \in Arriving(j) : Handshake(j, d)
    /\ rand_state' = [rand_state EXCEPT ![2] = @ + 2]
    /\ \/ /\ Step(j, "connecting", "announcing")
          /\ transaction' = [transaction EXCEPT ![j].announce = rand_state]
       \/ /\ Step(j, "connecting", "ended")
          /\ transaction' = [transaction EXCEPT ![j] = NoRequests]
    /\ UNCHANGED <<received, out>>

\* Mutant: any answer has room for the numbers.
TooShortNever(d) == FALSE

TooShort(d) == Length(d.kind) < 20

\* The numbers are taken from any answer that is long enough, the peers if it
\* quotes the transaction; its action is not looked at.
UdpAnswered(j) ==
    /\ End(j, "announcing")
    /\ \E d \in Arriving(j) :
          /\ seeders' = IF TooShort(d) THEN seeders ELSE [seeders EXCEPT ![j] = j]
          /\ result' = IF TooShort(d) \/ d.number # transaction[j].announce THEN result
                       ELSE [result EXCEPT ![j] = d.kind]

UdpTimeout(j) == Timeout(j, "connecting") \/ Timeout(j, "announcing")

------------------------------------------------------------------------------
(* http_get_peers_list *)

\* The connection is made and the request sent, within five seconds.
HttpConnect(j) ==
    /\ scheme[j] = "http"
    /\ Step(j, "started", "receiving")
    /\ UNCHANGED <<transaction, received, out, rand_state>>

\* Mutant: no place is left for the zero that ends the text.
RoomForMoreFull(j) == received[j] <= BufferLen

RoomForMore(j) == received[j] < BufferLen

\* Some more of the response arrives.
HttpReceive(j) ==
    /\ worker[j] = "receiving"
    /\ RoomForMore(j)
    /\ received' = [received EXCEPT ![j] = @ + 1]
    /\ UNCHANGED <<torrent, mine, worker, transaction, out, rand_state>>

\* The tracker closes the connection, nothing comes for five seconds, or the
\* buffer is full: what there is is parsed.  The peers and the numbers are taken
\* if it is a dictionary that has peers, with a good status line before it.
HttpParse(j) ==
    /\ End(j, "receiving")
    /\ \/ UNCHANGED out
       \/ /\ received[j] > 0
          /\ seeders' = [seeders EXCEPT ![j] = j]
          /\ result' = [result EXCEPT ![j] = "response"]

\* What there is has, in a list, something that begins no value: the loop of
\* parseList takes it for an item without reading a character, and never ends.
HttpLoop(j) ==
    /\ received[j] > 0
    /\ Step(j, "receiving", "looping")
    /\ UNCHANGED <<transaction, received, out, rand_state>>

------------------------------------------------------------------------------
\* The steps of a thread that no tracker has to answer for.
Alone(j) ==
    \/ CannotStart(j)
    \/ UdpSeed(j) \/ UdpConnect(j) \/ UdpTimeout(j)
    \/ HttpConnect(j) \/ HttpParse(j) \/ HttpLoop(j)

tracker_worker_thread(j) ==
    Alone(j) \/ UdpRefused(j) \/ UdpAnnounce(j) \/ UdpAnswered(j) \/ HttpReceive(j)

download_thread == Spawn \/ Join \/ Joined

Next == download_thread \/ (\E j \in Jobs : tracker_worker_thread(j))

Spec == Init /\ [][Next]_vars

\* Threads run, and their timers, too: recvfrom and poll return after five
\* seconds at the latest, and getaddrinfo and connect have limits of their own.
\* Nothing makes a tracker answer.
FairSpec ==
    /\ Spec
    /\ WF_vars(download_thread)
    /\ \A j \in Slots : WF_vars(j \in Jobs /\ Alone(j))

------------------------------------------------------------------------------
(* Properties *)

\* The variables keep their types; no more is received than the buffer holds.
TypeOK ==
    /\ job_count \in 0 .. MaxJobs
    /\ scheme \in [Slots -> Schemes]
    /\ i \in 1 .. job_count + 1
    /\ main \in {"spawn", "join", "located", "failed"}
    /\ worker \in [Slots -> {"none", "started", "seeded", "connecting", "announcing",
                             "receiving", "looping", "ended"}]
    /\ transaction \in [Slots -> [connect : {NoNumber} \cup Nat \X Nat,
                                announce : {NoNumber} \cup Nat \X Nat]]
    /\ received \in [Slots -> 0 .. BufferLen]
    /\ seeders \in [Slots -> {Nobody} \cup Slots]
    /\ result \in [Slots -> {NoPeers, "response"} \cup Kinds]
    /\ freed \subseteq Slots
    /\ peers \in {Nobody} \cup Slots
    /\ total_seeds \in {Nobody} \cup Slots
    /\ rand_state \in Nat \X Nat

\* When the download thread goes on, no thread of a job runs: they write into
\* jobs, on its stack, and read the entry, which is gone when it has ended.
WorkersEnded ==
    main \in {"located", "failed"} => \A j \in Jobs : worker[j] = "ended"

\* However the answers race, the peers are those of the first tracker in the
\* order of the torrent file that gave any, the numbers shown are of the same
\* tracker, all other peers are freed, and without any peers none was given.
FirstAnswerWins ==
    /\ main \in {"located", "failed"} =>
          /\ freed = {j \in Jobs : result[j] # NoPeers} \ {peers}
          /\ \A j \in Jobs : j < peers \/ peers = Nobody => result[j] = NoPeers
    /\ total_seeds = peers
    /\ peers # Nobody => result[peers] # NoPeers

\* A late or repeated answer to the connect request is never taken for peers,
\* although the numbers of both requests may be the same: another thread may
\* have called srand between them.
NeverFromConnect == \A j \in Jobs : result[j] # "connect"

\* Some answer keeps its thread in the loop of parseList, and so the download
\* thread at its join.
Hung == \E j \in Jobs : worker[j] = "looping"

\* The search for peers comes to an end when no answer hangs the parser, although
\* trackers may be silent at any place; and when one does, it costs its own
\* thread only: all other threads of the search end.
SearchEnds ==
    <>(\/ main \in {"located", "failed"}
       \/ Hung /\ \A j \in Jobs : worker[j] \in {"ended", "looping"})

==============================================================================
