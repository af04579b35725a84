------------------------------- MODULE MCSwarm -------------------------------
(* Values for the constants of Swarm. *)
EXTENDS Swarm

\* Remotes with nothing, with one piece or with everything.
SomeInventories == {{}, {0}, Pieces}

\* Remotes that lack nothing.
FullInventories == {Pieces}

AllInventories == SUBSET Pieces

==============================================================================
