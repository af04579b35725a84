-------------------------------- MODULE Window --------------------------------
(***************************************************************************)
(* The window over a session: the table with its selection, the menu and   *)
(* the question that wait for the user while the list is read anew each    *)
(* second, and the list that is kept from one run to the next              *)
(* (rgTorrent-qt/src: ui/MainWindow.cpp, ui/TorrentListWidget.cpp,         *)
(* backend/TorrentBackend.cpp).                                            *)
(*                                                                         *)
(* Everything here runs in one thread, but a menu and a question run the   *)
(* event loop again, so timers fire between their opening and the answer.  *)
(* The session is the list that its calls leave behind: module Session     *)
(* says how they work, and what else its threads do to a status.           *)
(***************************************************************************)
EXTENDS Integers, Sequences, FiniteSets, SequencesExt, FiniteSetsExt

CONSTANTS
    Paths,           \* torrent files: of each name its parts between bars
    TS_MAX_TORRENTS, \* bound: how many torrents the session holds
    MaxId            \* bound: ids of one run

ASSUME WindowAssumption ==
    /\ Paths \subseteq Seq(STRING) \ {<<>>}
    /\ TS_MAX_TORRENTS \in Nat \ {0}
    /\ MaxId \in Nat

None     == -1            \* what selectedId returns without a selection
NoRow    == 0
SaveDir  == <<"downloads">>
Known    == Paths \cup {<<p[1]>> : p \in Paths}  \* the paths that entries may get
Statuses == {"going", "paused", "error"}  \* going: verifying, downloading or seeding
Closed   == [kind |-> "closed", id |-> None]

VARIABLES
    torrents, \* the entries of the session: id, path and status
    next_id,  \* of the session
    filter,   \* the paths whose names contain m_filter
    rows,     \* the ids in the table, from its first row
    selected, \* the selected row
    panel,    \* the torrent that the details are of, and whether they are shown
    dialog,   \* what waits for an answer, and the torrent that was selected
    settings, \* "session/torrents": the entries, each split at its bars
    running,  \* whether the program runs
    closed    \* the list at the last close: path and whether paused

list  == <<torrents, next_id>>
table == <<filter, rows, selected, panel>>
kept  == <<settings, closed>>
vars  == <<list, table, kept, dialog, running>>

selectedId == IF selected = NoRow THEN None ELSE rows[selected]

IdsOf(ts) == {ts[k].id : k \in DOMAIN ts}
Shown(ts, f) == {ts[k].id : k \in {k \in DOMAIN ts : ts[k].path \in f}}
RowOf(id, rs) == CHOOSE r \in DOMAIN rs : rs[r] = id

------------------------------------------------------------------------------
(* TorrentListWidget *)

\* Mutant: the row is selected again, whichever torrent it has now.
SelectSameRow(rs) == IF selected \in DOMAIN rs THEN selected ELSE NoRow

\* The row of the torrent that was selected, if there is one.
SelectAgain(rs) == IF selectedId \in ToSet(rs) THEN RowOf(selectedId, rs) ELSE NoRow

\* rebuildTable, over the torrents ts that pass the filter f: clearing the
\* table clears the selection, sorting gives some order of the rows, and the
\* torrent that was selected is selected again, which shows its details.
Rebuild(ts, f) ==
    /\ rows' \in SetToSeqs(Shown(ts, f))
    /\ selected' = SelectAgain(rows')
    /\ panel' = IF selected' = NoRow THEN panel ELSE [id |-> rows'[selected'], shown |-> TRUE]

\* poll: the list of the session, as it is now, is shown.
Poll(ts) == filter' = filter /\ Rebuild(ts, filter)

\* The user clicks on a row.
Select ==
    /\ running /\ dialog = Closed
    /\ \E r \in DOMAIN rows :
          /\ selected' = r
          /\ panel' = [id |-> rows[r], shown |-> TRUE]
    /\ UNCHANGED <<list, kept, filter, rows, dialog, running>>

\* The user sorts by some column: the selection goes with its torrent.
Sort ==
    /\ running /\ dialog = Closed
    /\ rows' \in SetToSeqs(ToSet(rows))
    /\ selected' = IF selected = NoRow THEN NoRow ELSE RowOf(selectedId, rows')
    /\ UNCHANGED <<list, kept, filter, panel, dialog, running>>

\* The user types into the filter.
setFilter ==
    /\ running /\ dialog = Closed
    /\ filter' \in SUBSET Known
    /\ Rebuild(torrents, filter')
    /\ UNCHANGED <<list, kept, dialog, running>>

------------------------------------------------------------------------------
(* MainWindow and TorrentBackend *)

\* A second has passed, whatever is open.
Timer ==
    /\ running
    /\ Poll(torrents)
    /\ UNCHANGED <<list, kept, dialog, running>>

\* Mutant: the selection outlives the details.
SelectionLeft == selected

SelectionAfterHide == NoRow

\* The user closes the details.
CloseDetails ==
    /\ running /\ dialog = Closed /\ panel.shown
    /\ panel' = [panel EXCEPT !.shown = FALSE]
    /\ selected' = SelectionAfterHide
    /\ UNCHANGED <<list, kept, filter, rows, dialog, running>>

Full(ts) == Len(ts) >= TS_MAX_TORRENTS

\* What ts_add_torrent makes of a list; a full one stays as it is.
Added(ts, id, path) ==
    IF Full(ts) THEN ts
    ELSE Append(ts, [id |-> id, path |-> path, status |-> "going"])

\* The two file dialogs have been answered.
onAddTorrent ==
    /\ running /\ dialog = Closed
    /\ next_id <= MaxId
    /\ \E path \in Paths : torrents' = Added(torrents, next_id, path)
    /\ IF torrents' = torrents THEN UNCHANGED <<next_id, table>>
       ELSE next_id' = next_id + 1 /\ Poll(torrents')
    /\ UNCHANGED <<kept, dialog, running>>

\* The menu of the list, or the question of the button.
Open ==
    /\ running /\ dialog = Closed
    /\ selectedId # None
    /\ \E kind \in {"menu", "question"} : dialog' = [kind |-> kind, id |-> selectedId]
    /\ UNCHANGED <<list, kept, table, running>>

\* Nothing is chosen, or the answer is no.
Cancel ==
    /\ dialog # Closed
    /\ dialog' = Closed
    /\ UNCHANGED <<list, kept, table, running>>

WithStatus(ts, id, from, to) ==
    [k \in DOMAIN ts |-> IF ts[k].id = id /\ ts[k].status = from THEN [ts[k] EXCEPT !.status = to]
                         ELSE ts[k]]

\* Pause or resume is chosen from the menu.
SetStatus(from, to) ==
    /\ dialog.kind = "menu"
    /\ torrents' = WithStatus(torrents, dialog.id, from, to)
    /\ Poll(torrents')
    /\ dialog' = Closed
    /\ UNCHANGED <<next_id, kept, running>>

pauseTorrent  == SetStatus("going", "paused")
resumeTorrent == SetStatus("paused", "going")

\* Remove is chosen from the menu, which does not say of which torrent: the
\* selection is read again for the question.
removeRequested ==
    /\ dialog.kind = "menu"
    /\ dialog' = IF selectedId = None THEN Closed ELSE [kind |-> "question", id |-> selectedId]
    /\ UNCHANGED <<list, kept, table, running>>

Without(ts, id) ==
    IF id \in IdsOf(ts) THEN RemoveAt(ts, CHOOSE k \in DOMAIN ts : ts[k].id = id) ELSE ts

\* The answer is yes.  Without torrents there are no details.
onRemoveTorrent ==
    /\ dialog.kind = "question"
    /\ torrents' = Without(torrents, dialog.id)
    /\ IF torrents' = <<>>
       THEN /\ UNCHANGED filter
            /\ rows' = <<>>
            /\ selected' = NoRow
            /\ panel' = [id |-> None, shown |-> FALSE]
       ELSE Poll(torrents')
    /\ dialog' = Closed
    /\ UNCHANGED <<next_id, kept, running>>

\* Mutant: the third part is left out.
SavedWithoutPause(t) == t.path \o SaveDir

\* An entry of the settings, split at the bars: those that join its parts, and
\* those in a name.
Saved(t) == t.path \o SaveDir \o <<IF t.status = "paused" THEN "1" ELSE "0">>

\* The program is gone, and its memory.
End ==
    /\ running' = FALSE
    /\ torrents' = <<>> /\ next_id' = 1
    /\ filter' = Known /\ rows' = <<>> /\ selected' = NoRow
    /\ panel' = [id |-> None, shown |-> FALSE]
    /\ dialog' = Closed

\* closeEvent, with nothing open: the list is saved, and the program ends.
Close ==
    /\ running /\ dialog = Closed
    /\ settings' = [k \in DOMAIN torrents |-> Saved(torrents[k])]
    /\ closed' = [k \in DOMAIN torrents |->
                    [path |-> torrents[k].path, paused |-> torrents[k].status = "paused"]]
    /\ End

\* The program is killed.
Kill ==
    /\ running
    /\ End
    /\ UNCHANGED kept

\* An entry of the settings is read: a third part that is no 1 says nothing.  The
\* thread of the torrent runs by then, and may have failed: before the pause,
\* which passes over a torrent in error, or behind it.
Loaded(parts, id, failed) ==
    [id |-> id, path |-> <<parts[1]>>,
     status |-> IF failed THEN "error"
                ELSE IF Len(parts) >= 3 /\ parts[3] = "1" THEN "paused" ELSE "going"]

\* loadSession and the constructor of the window: entries of two parts or more
\* are added in their order, as many as there is room for.
Start ==
    LET usable == {k \in DOMAIN settings : Len(settings[k]) >= 2}
        Nth(n) == CHOOSE k \in usable : Cardinality({m \in usable : m <= k}) = n
        most   == Min({Cardinality(usable), TS_MAX_TORRENTS})
    IN  /\ ~running
        /\ running' = TRUE
        /\ \E failed \in [1 .. most -> BOOLEAN] :
              torrents' = [n \in 1 .. most |-> Loaded(settings[Nth(n)], n, failed[n])]
        /\ next_id' = Len(torrents') + 1
        /\ rows' \in SetToSeqs(Shown(torrents', filter))
        /\ UNCHANGED <<filter, selected, panel, dialog, kept>>

------------------------------------------------------------------------------
\* A thread of the session ends: in error, or with a complete torrent, which it
\* shows as seeding even if it was paused.
ThreadEnds ==
    /\ running
    /\ \E k \in {k \in DOMAIN torrents : torrents[k].status # "error"}, to \in {"error", "going"} :
          torrents' = [torrents EXCEPT ![k].status = to]
    /\ UNCHANGED <<next_id, table, kept, dialog, running>>

\* The first run.
Init ==
    /\ torrents = <<>> /\ next_id = 1
    /\ filter = Known /\ rows = <<>> /\ selected = NoRow
    /\ panel = [id |-> None, shown |-> FALSE]
    /\ dialog = Closed
    /\ settings = <<>> /\ closed = <<>>
    /\ running = TRUE

Next ==
    \/ Select \/ Sort \/ setFilter \/ Timer \/ CloseDetails
    \/ onAddTorrent \/ Open \/ Cancel \/ pauseTorrent \/ resumeTorrent
    \/ removeRequested \/ onRemoveTorrent
    \/ Close \/ Kill \/ Start \/ ThreadEnds

Spec == Init /\ [][Next]_vars

------------------------------------------------------------------------------
(* Properties *)

\* The variables keep their types; the selection is a row of the table.
TypeOK ==
    /\ Len(torrents) <= TS_MAX_TORRENTS
    /\ \A k \in DOMAIN torrents : /\ torrents[k].id \in 1 .. next_id - 1
                                  /\ torrents[k].status \in Statuses
    /\ filter \subseteq Known
    /\ ToSet(rows) \subseteq IdsOf(torrents)
    /\ selected \in {NoRow} \cup DOMAIN rows
    /\ panel.id \in Nat \cup {None} /\ panel.shown \in BOOLEAN
    /\ dialog.kind \in {"closed", "menu", "question"} /\ dialog.id \in Nat \cup {None}

\* What the user asks for happens to the torrent that was selected when the
\* menu or the question was opened, however often the table was filled and
\* sorted while it waited: nothing else is removed, paused or resumed, and the
\* question that the menu leads to is about the torrent of the menu.
ActsOnChosen ==
    [][/\ onRemoveTorrent => IdsOf(torrents) \ IdsOf(torrents') \subseteq {selectedId}
       /\ pauseTorrent \/ resumeTorrent =>
             \A k \in DOMAIN torrents : torrents[k].id # selectedId => torrents'[k] = torrents[k]
       /\ removeRequested => dialog'.id = dialog.id]_vars

\* While a torrent is selected its details, and no others, are shown, however
\* the table is filled, filtered or sorted, and whatever is removed.
DetailsOfSelected ==
    running /\ selectedId # None => panel = [id |-> selectedId, shown |-> TRUE]

\* After a close the next start has the same torrents in the same order, those
\* paused that were, if no name has a bar in it, but for those that fail during
\* the start, whose pause is lost; a kill in between only brings the list of the
\* last close back.
RestoredAlike ==
    [][Start /\ (\A k \in DOMAIN closed : Len(closed[k].path) = 1) =>
          /\ DOMAIN torrents' = DOMAIN closed
          /\ \A k \in DOMAIN closed :
                /\ torrents'[k].path = closed[k].path
                /\ torrents'[k].status # "error" =>
                      (torrents'[k].status = "paused" <=> closed[k].paused)]_vars

==============================================================================
