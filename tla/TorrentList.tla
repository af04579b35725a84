----------------------------- MODULE TorrentList -----------------------------
(***************************************************************************)
(* What the session promises of its list of torrents to a window that      *)
(* remembers torrents by id and shows them by index: a torrent is listed   *)
(* under a number greater than any before, at the end, and the removal of  *)
(* one leaves the others, in their order.  Session implements it with an   *)
(* array and memmove.                                                      *)
(***************************************************************************)
EXTENDS Integers, Sequences

VARIABLES
    list, \* the ids of the torrents, in the order in which they are shown
    last  \* the greatest id so far

vars == <<list, last>>

Init == list = <<>> /\ last = 0

Add ==
    /\ last' \in Nat
    /\ last' > last
    /\ list' = Append(list, last')

Remove(i) ==
    /\ list' = [k \in 1 .. Len(list) - 1 |-> IF k < i THEN list[k] ELSE list[k + 1]]
    /\ UNCHANGED last

Next == Add \/ \E i \in 1 .. Len(list) : Remove(i)

Spec == Init /\ [][Next]_vars

==============================================================================
