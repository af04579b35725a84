------------------------------ MODULE MCSession ------------------------------
(* Values for the constants of Session. *)
EXTENDS Session

\* Torrents of one and of two pieces.
SmallTorrents == {1, 2}

\* Torrents of one piece.
TinyTorrents == {1}

==============================================================================
