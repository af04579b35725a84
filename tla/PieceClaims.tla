----------------------------- MODULE PieceClaims -----------------------------
(***************************************************************************)
(* What the swarm promises of the sharing of the pieces of a torrent among *)
(* its connections: a piece is claimed by at most one worker at a time, a  *)
(* claim ends with the piece done or with the claim given back, and a      *)
(* piece that is done is never claimed again.  Swarm implements it with    *)
(* piece_states and current_piece_assigned.                                *)
(***************************************************************************)
EXTENDS Integers

CONSTANTS
    Workers,     \* the connections
    TotalPieces  \* the number of pieces

VARIABLES
    done,        \* the pieces that are done
    claim        \* claim[w] is the piece that w works on, or NoPiece

vars == <<done, claim>>

Pieces  == 0 .. TotalPieces - 1
NoPiece == -1

Free == {p \in Pieces \ done : \A w \in Workers : claim[w] # p}

Init ==
    /\ done \in SUBSET Pieces
    /\ claim = [w \in Workers |-> NoPiece]

\* A worker takes a piece that is free.
Claim(w, p) ==
    /\ claim[w] = NoPiece
    /\ p \in Free
    /\ claim' = [claim EXCEPT ![w] = p]
    /\ UNCHANGED done

\* A worker has its piece done, and takes a free one or none.
Finish(w, next) ==
    /\ claim[w] # NoPiece
    /\ next \in Free \cup {NoPiece}
    /\ done' = done \cup {claim[w]}
    /\ claim' = [claim EXCEPT ![w] = next]

\* Some workers give back what they claimed.
Release(quitting) ==
    /\ claim' = [w \in Workers |-> IF w \in quitting THEN NoPiece ELSE claim[w]]
    /\ UNCHANGED done

Next ==
    \/ \E w \in Workers, p \in Pieces : Claim(w, p)
    \/ \E w \in Workers, next \in Pieces \cup {NoPiece} : Finish(w, next)
    \/ \E quitting \in SUBSET Workers : Release(quitting)

Spec == Init /\ [][Next]_vars

==============================================================================
