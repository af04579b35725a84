------------------------------ MODULE Listening ------------------------------
(***************************************************************************)
(* The port on which a torrent listens, the one it reports and the one it  *)
(* gives to the trackers (rgTorrent-c/torrent_session.c, swarm/swarm.c).   *)
(* Each torrent has a socket of its own; the ports are shared by the       *)
(* torrents and with other programs.                                       *)
(***************************************************************************)
EXTENDS Integers

CONSTANTS
    Torrents,  \* the torrents of the session
    First,     \* 6881, where the search for a port begins; above 0
    Last,      \* 6890, where it ends
    Ephemeral  \* the ports from which the system picks one for port 0; none of the
               \* others, and not 0

NoPort == 0

VARIABLES
    pc,         \* pc[t]: announce, bind, listen, listening or closed
    announced,  \* announced[t]: the port in the announces of t
    sin_port,   \* sin_port[t]: server_addr.sin_port; 0 leaves the choice to the system
    bound_port, \* bound_port[t]
    socket,     \* socket[t]: the port to which server_fd is bound, or NoPort
    others      \* the ports that other programs hold

vars == <<pc, announced, sin_port, bound_port, socket, others>>

Free == (First .. Last \cup Ephemeral) \ (others \cup {socket[t] : t \in Torrents})

Init ==
    /\ pc = [t \in Torrents |-> "announce"]
    /\ announced = [t \in Torrents |-> NoPort]
    /\ sin_port = [t \in Torrents |-> 0]
    /\ bound_port = [t \in Torrents |-> First]
    /\ socket = [t \in Torrents |-> NoPort]
    /\ others \in SUBSET (First .. Last)

Step(t, from, to) ==
    /\ pc[t] = from
    /\ pc' = [pc EXCEPT ![t] = to]
    /\ UNCHANGED others

\* The trackers are told of one port, whichever the torrent.
Announce(t) ==
    /\ Step(t, "announce", "bind")
    /\ announced' = [announced EXCEPT ![t] = First]
    /\ UNCHANGED <<sin_port, bound_port, socket>>

\* bind succeeds.
Bind(t) ==
    /\ Step(t, "bind", "listen")
    /\ \E port \in IF sin_port[t] = 0 THEN Free \cap Ephemeral ELSE Free \cap {sin_port[t]} :
          socket' = [socket EXCEPT ![t] = port]
    /\ UNCHANGED <<announced, sin_port, bound_port>>

\* It fails, and the next port is tried, if there is one.
BindFails(t) ==
    /\ sin_port[t] # 0 => sin_port[t] \notin Free
    /\ sin_port[t] = 0 => Free \cap Ephemeral = {}
    /\ IF bound_port[t] < Last
       THEN /\ Step(t, "bind", "bind")
            /\ bound_port' = [bound_port EXCEPT ![t] = @ + 1]
            /\ sin_port' = [sin_port EXCEPT ![t] = bound_port[t] + 1]
       ELSE /\ Step(t, "bind", "listen")
            /\ UNCHANGED <<sin_port, bound_port>>
    /\ UNCHANGED <<announced, socket>>

\* listen gives a socket without a port one of the system's; the torrent
\* reports bound_port.
Listen(t) ==
    /\ Step(t, "listen", "listening")
    /\ IF socket[t] # NoPort THEN UNCHANGED socket
       ELSE \E port \in Free \cap Ephemeral : socket' = [socket EXCEPT ![t] = port]
    /\ UNCHANGED <<announced, sin_port, bound_port>>

\* The swarm ends.
CloseSocket(t) ==
    /\ Step(t, "listening", "closed")
    /\ socket' = [socket EXCEPT ![t] = NoPort]
    /\ UNCHANGED <<announced, sin_port, bound_port>>

Next == \E t \in Torrents : Announce(t) \/ Bind(t) \/ BindFails(t) \/ Listen(t) \/ CloseSocket(t)

Spec == Init /\ [][Next]_vars

------------------------------------------------------------------------------
\* A torrent listens on the port that it reports (swarm.c:424).
ListensWhereItSays == \A t \in Torrents : pc[t] = "listening" => socket[t] = bound_port[t]

==============================================================================
