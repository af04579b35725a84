----------------------------- MODULE WindowProofs -----------------------------
(***************************************************************************)
(* Proofs about Window, for any torrent files, any capacity of the session *)
(* and any number of ids: what the user asks for happens to the torrent    *)
(* that was chosen, the details are those of the selected torrent, and a   *)
(* restart brings the list back.                                           *)
(***************************************************************************)
EXTENDS Window, SequenceTheorems, FiniteSetTheorems, TLAPS

Entries == [id : Nat \ {0}, path : Known, status : Statuses]

\* A list of the session: ids are those given out so far.
Listing(ts, next) ==
    /\ ts \in Seq(Entries)
    /\ Len(ts) <= TS_MAX_TORRENTS
    /\ next \in Nat \ {0}
    /\ \A k \in DOMAIN ts : ts[k].id < next

\* The table shows the torrents that pass the filter, each once.
TableInv ==
    /\ filter \subseteq Known
    /\ rows \in SetToSeqs(Shown(torrents, filter))
    /\ selected \in {NoRow} \cup DOMAIN rows

PanelInv ==
    /\ panel \in [id : Nat \cup {None}, shown : BOOLEAN]
    /\ selected # NoRow => panel = [id |-> rows[selected], shown |-> TRUE]

\* What waits for an answer was asked of the torrent that is selected.
DialogInv ==
    \/ dialog = Closed
    \/ /\ dialog \in [kind : {"menu", "question"}, id : Nat \ {0}]
       /\ selected # NoRow /\ rows[selected] = dialog.id

\* Nothing is left of a program that has ended.
RunInv ==
    /\ running \in BOOLEAN
    /\ ~running => filter = Known /\ rows = <<>> /\ selected = NoRow /\ dialog = Closed

\* The settings are the list of the last close.
KeptInv ==
    /\ closed \in Seq([path : Known, paused : BOOLEAN])
    /\ Len(closed) <= TS_MAX_TORRENTS
    /\ settings = [k \in DOMAIN closed |->
                     closed[k].path \o SaveDir \o <<IF closed[k].paused THEN "1" ELSE "0">>]

IInv ==
    /\ Listing(torrents, next_id)
    /\ TableInv /\ PanelInv /\ DialogInv /\ RunInv /\ KeptInv

------------------------------------------------------------------------------
(* Lists and tables *)

\* SetToSeqs gives the permutations of a finite set.
LEMMA Permutation ==
    ASSUME NEW S, IsFiniteSet(S), NEW r \in SetToSeqs(S)
    PROVE  /\ DOMAIN r = 1 .. Cardinality(S)
           /\ ToSet(r) = S
           /\ \A x \in S : RowOf(x, r) \in DOMAIN r /\ r[RowOf(x, r)] = x
           /\ \A k \in DOMAIN r : r[k] \in S /\ k # NoRow
<1> DEFINE D == 1 .. Cardinality(S)
<1>1. Cardinality(S) \in Nat
  BY FS_CardinalityType
<1>2. r \in [D -> S] /\ \A i, j \in D : i # j => r[i] # r[j]
  BY DEF SetToSeqs
<1>3. r \in Injection(D, S)
  BY <1>2 DEF Injection, IsInjective
<1>4. Cardinality(D) = Cardinality(S)
  BY <1>1, FS_Interval
<1>5. r \in Surjection(D, S)
  BY <1>3, <1>4, FS_Injection
<1>6. \A x \in S : \E k \in D : r[k] = x
  BY <1>5 DEF Surjection
<1>7. \A x \in S : RowOf(x, r) \in DOMAIN r /\ r[RowOf(x, r)] = x
  BY <1>2, <1>6 DEF RowOf
<1>8. QED
  BY <1>1, <1>2, <1>6, <1>7 DEF ToSet, NoRow

LEMMA Listed ==
    ASSUME NEW ts, NEW next, Listing(ts, next)
    PROVE  /\ DOMAIN ts = 1 .. Len(ts) /\ Len(ts) \in Nat
           /\ \A k \in DOMAIN ts : /\ ts[k] \in Entries
                                   /\ ts[k].id \in Nat \ {0} /\ ts[k].path \in Known
                                   /\ ts[k].status \in Statuses
<1>1. ts \in Seq(Entries)
  BY DEF Listing
<1>2. DOMAIN ts = 1 .. Len(ts) /\ Len(ts) \in Nat
  BY <1>1, LenProperties
<1>3. \A k \in DOMAIN ts : ts[k] \in Entries
  BY <1>1, <1>2, ElementOfSeq
<1>4. \A e \in Entries : e.id \in Nat \ {0} /\ e.path \in Known /\ e.status \in Statuses
  BY DEF Entries
<1>5. QED
  BY <1>2, <1>3, <1>4

LEMMA ShownFinite ==
    ASSUME NEW ts, NEW next, Listing(ts, next), NEW f
    PROVE  IsFiniteSet(Shown(ts, f)) /\ Shown(ts, f) \subseteq Nat \ {0}
<1>1. \A i \in Shown(ts, f) : \E k \in DOMAIN ts : i = ts[k].id
  BY DEF Shown
<1>2. next \in Nat /\ \A k \in DOMAIN ts : ts[k].id \in Nat \ {0} /\ ts[k].id < next
  BY Listed DEF Listing
<1>3. Shown(ts, f) \subseteq Nat \ {0} /\ \A i \in Shown(ts, f) : i <= next
  BY <1>1, <1>2
<1>4. QED
  BY <1>2, <1>3, FS_BoundedSetOfNaturals

\* rebuildTable: the torrent that was selected is selected again, if it is shown.
LEMMA Rebuilding ==
    ASSUME TableInv, PanelInv, NEW ts, NEW next, Listing(ts, next), NEW f, Rebuild(ts, f)
    PROVE  /\ rows' \in SetToSeqs(Shown(ts, f))
           /\ selected' \in {NoRow} \cup DOMAIN rows'
           /\ PanelInv'
           /\ (selected # NoRow /\ rows[selected] \in Shown(ts, f))
                 => selected' # NoRow /\ rows'[selected'] = rows[selected]
<1>1. /\ rows' \in SetToSeqs(Shown(ts, f))
      /\ selected' = SelectAgain(rows')
      /\ panel' = IF selected' = NoRow THEN panel ELSE [id |-> rows'[selected'], shown |-> TRUE]
  BY DEF Rebuild
<1>2. /\ DOMAIN rows' = 1 .. Cardinality(Shown(ts, f))
      /\ ToSet(rows') = Shown(ts, f)
      /\ \A x \in Shown(ts, f) : RowOf(x, rows') \in DOMAIN rows' /\ rows'[RowOf(x, rows')] = x
      /\ \A k \in DOMAIN rows' : rows'[k] \in Shown(ts, f) /\ k # NoRow
  BY <1>1, ShownFinite, Permutation
<1>3. selected' \in {NoRow} \cup DOMAIN rows'
  BY <1>1, <1>2 DEF SelectAgain
<1>4. PanelInv'
  <2>1. CASE selected' = NoRow
    BY <1>1, <2>1 DEF PanelInv
  <2>2. CASE selected' # NoRow
    <3>1. rows'[selected'] \in Nat
      BY <1>2, <1>3, <2>2, ShownFinite
    <3>2. QED
      BY <1>1, <2>2, <3>1 DEF PanelInv
  <2>3. QED
    BY <2>1, <2>2
<1>5. (selected # NoRow /\ rows[selected] \in Shown(ts, f))
         => selected' # NoRow /\ rows'[selected'] = rows[selected]
  BY <1>1, <1>2 DEF SelectAgain, selectedId
<1>6. QED
  BY <1>1, <1>3, <1>4, <1>5

\* The entries keep their ids and paths.
LEMMA StatusSet ==
    ASSUME NEW ts, NEW next, Listing(ts, next), NEW i, NEW from, NEW to \in Statuses
    PROVE  /\ Listing(WithStatus(ts, i, from, to), next)
           /\ \A f : Shown(WithStatus(ts, i, from, to), f) = Shown(ts, f)
           /\ \A k \in DOMAIN ts : ts[k].id # i => WithStatus(ts, i, from, to)[k] = ts[k]
<1> DEFINE us == WithStatus(ts, i, from, to)
<1>1. DOMAIN ts = 1 .. Len(ts) /\ Len(ts) \in Nat
      /\ \A k \in DOMAIN ts : ts[k] \in Entries
  BY Listed
<1>2. \A k \in DOMAIN ts : us[k] = IF ts[k].id = i /\ ts[k].status = from
                                  THEN [ts[k] EXCEPT !.status = to] ELSE ts[k]
  BY DEF WithStatus
<1>3. DOMAIN us = DOMAIN ts
  BY DEF WithStatus
<1>4. \A e \in Entries : /\ [e EXCEPT !.status = to] \in Entries
                         /\ [e EXCEPT !.status = to].id = e.id
                         /\ [e EXCEPT !.status = to].path = e.path
  BY DEF Entries
<1>5. \A k \in DOMAIN ts : us[k] \in Entries /\ us[k].id = ts[k].id /\ us[k].path = ts[k].path
  BY <1>1, <1>2, <1>4
<1>6. us \in Seq(Entries) /\ Len(us) = Len(ts)
  <2>1. us = [k \in 1 .. Len(ts) |-> us[k]]
    BY <1>1 DEF WithStatus
  <2>2. \A k \in 1 .. Len(ts) : us[k] \in Entries
    BY <1>1, <1>5
  <2>3. QED
    BY <1>1, <2>1, <2>2
<1>7. Listing(us, next)
  BY <1>3, <1>5, <1>6 DEF Listing
<1>8. ASSUME NEW f PROVE Shown(us, f) = Shown(ts, f)
  BY <1>3, <1>5 DEF Shown
<1>9. QED
  BY <1>2, <1>7, <1>8

\* ts_add_torrent appends, or leaves a full list alone.
LEMMA Adding ==
    ASSUME NEW ts, NEW next, Listing(ts, next), NEW path \in Known
    PROVE  \/ Added(ts, next, path) = ts
           \/ Listing(Added(ts, next, path), next + 1)
<1> DEFINE e  == [id |-> next, path |-> path, status |-> "going"]
           us == Append(ts, e)
<1>1. CASE Full(ts)
  BY <1>1 DEF Added
<1>2. CASE ~Full(ts)
  <2>1. DOMAIN ts = 1 .. Len(ts) /\ Len(ts) \in Nat /\ ts \in Seq(Entries)
    BY Listed DEF Listing
  <2>2. e \in Entries
    BY DEF Listing, Entries, Statuses
  <2>3. /\ us \in Seq(Entries) /\ Len(us) = Len(ts) + 1 /\ DOMAIN us = 1 .. Len(ts) + 1
        /\ us[Len(ts) + 1] = e
        /\ \A k \in 1 .. Len(ts) : us[k] = ts[k]
    BY <2>1, <2>2, AppendProperties, LenProperties
  <2>4. \A k \in DOMAIN us : us[k].id < next + 1
    BY <2>1, <2>3, Listed DEF Listing
  <2>5. Len(us) <= TS_MAX_TORRENTS
    BY <1>2, <2>1, <2>3, WindowAssumption DEF Full
  <2>6. Listing(us, next + 1)
    BY <2>3, <2>4, <2>5 DEF Listing
  <2>7. QED
    BY <1>2, <2>6 DEF Added
<1>3. QED
  BY <1>1, <1>2

LEMMA Arithmetic ==
    ASSUME NEW n \in Nat, NEW r \in 1 .. n
    PROVE  /\ n - (r + 1) + 1 = n - r
           /\ (IF r + 1 <= n THEN n - (r + 1) + 1 ELSE 0) = n - r
           /\ \A k \in 1 .. n - r : r + 1 + k - 1 = r + k
           /\ r - 1 + (n - r) = n - 1
OBVIOUS

\* ts_remove_torrent takes out one entry at most, and only one with that id.
LEMMA Removing ==
    ASSUME NEW ts, NEW next, Listing(ts, next), NEW i
    PROVE  /\ Listing(Without(ts, i), next)
           /\ IdsOf(ts) \ IdsOf(Without(ts, i)) \subseteq {i}
<1>1. /\ DOMAIN ts = 1 .. Len(ts) /\ Len(ts) \in Nat /\ ts \in Seq(Entries)
      /\ \A k \in DOMAIN ts : ts[k] \in Entries
  BY Listed DEF Listing
<1>2. CASE i \notin IdsOf(ts)
  BY <1>2 DEF Without
<1>3. CASE i \in IdsOf(ts)
  <2> DEFINE r == CHOOSE k \in DOMAIN ts : ts[k].id = i
             us == RemoveAt(ts, r)
  <2>1. r \in DOMAIN ts /\ ts[r].id = i
    BY <1>3 DEF IdsOf
  <2>2. r \in 1 .. Len(ts)
    BY <1>1, <2>1
  <2> HIDE DEF r
  <2>3. /\ SubSeq(ts, 1, r - 1) \in Seq(Entries) /\ Len(SubSeq(ts, 1, r - 1)) = r - 1
        /\ \A k \in 1 .. r - 1 : SubSeq(ts, 1, r - 1)[k] = ts[k]
    BY <1>1, <2>2, SubSeqProperties
  <2>4. /\ SubSeq(ts, r + 1, Len(ts)) \in Seq(Entries)
        /\ Len(SubSeq(ts, r + 1, Len(ts))) = Len(ts) - r
        /\ \A k \in 1 .. Len(ts) - r : SubSeq(ts, r + 1, Len(ts))[k] = ts[r + k]
    <3>1. r + 1 \in Int /\ Len(ts) \in Int
          /\ \A k \in r + 1 .. Len(ts) : ts[k] \in Entries
      BY <1>1, <2>2
    <3>2. /\ SubSeq(ts, r + 1, Len(ts)) \in Seq(Entries)
          /\ Len(SubSeq(ts, r + 1, Len(ts))) = IF r + 1 <= Len(ts) THEN Len(ts) - (r + 1) + 1 ELSE 0
          /\ \A k \in 1 .. Len(ts) - (r + 1) + 1 :
                SubSeq(ts, r + 1, Len(ts))[k] = ts[r + 1 + k - 1]
      BY <3>1, SubSeqProperties
    <3>3. /\ Len(ts) - (r + 1) + 1 = Len(ts) - r
          /\ (IF r + 1 <= Len(ts) THEN Len(ts) - (r + 1) + 1 ELSE 0) = Len(ts) - r
          /\ \A k \in 1 .. Len(ts) - r : r + 1 + k - 1 = r + k
      BY <1>1, <2>2, Arithmetic
    <3>4. QED
      BY <3>2, <3>3
  <2>5. /\ us \in Seq(Entries) /\ Len(us) = Len(ts) - 1
        /\ \A k \in 1 .. Len(ts) - 1 : us[k] = IF k < r THEN ts[k] ELSE ts[k + 1]
    <3> DEFINE a == SubSeq(ts, 1, r - 1)
               b == SubSeq(ts, r + 1, Len(ts))
    <3>1. a \in Seq(Entries) /\ b \in Seq(Entries) /\ Len(a) = r - 1 /\ Len(b) = Len(ts) - r
      BY <2>3, <2>4
    <3>2. /\ a \o b \in Seq(Entries) /\ Len(a \o b) = Len(a) + Len(b)
          /\ \A k \in 1 .. Len(a) + Len(b) : (a \o b)[k] = IF k <= Len(a) THEN a[k] ELSE b[k - Len(a)]
      BY <3>1, ConcatProperties
    <3>3. us = a \o b
      BY DEF RemoveAt
    <3> HIDE DEF a, b, us
    <3>4. ASSUME NEW k \in 1 .. Len(ts) - 1
          PROVE  us[k] = IF k < r THEN ts[k] ELSE ts[k + 1]
      <4>1. CASE k < r
        BY <1>1, <2>2, <2>3, <3>1, <3>2, <3>3, <4>1 DEF a
      <4>2. CASE ~(k < r)
        <5>1. k - (r - 1) \in 1 .. Len(ts) - r /\ r + (k - (r - 1)) = k + 1
          BY <1>1, <2>2, <4>2
        <5>2. us[k] = b[k - (r - 1)]
          BY <1>1, <2>2, <3>1, <3>2, <3>3, <4>2
        <5>3. b[k - (r - 1)] = ts[k + 1]
          BY <2>4, <5>1 DEF b
        <5>4. QED
          BY <4>2, <5>2, <5>3
      <4>3. QED
        BY <4>1, <4>2
    <3>5. Len(us) = Len(ts) - 1
      BY <1>1, <2>2, <3>1, <3>2, <3>3, Arithmetic
    <3>6. QED
      BY <3>2, <3>3, <3>4, <3>5
  <2>6. DOMAIN us = 1 .. Len(ts) - 1
    BY <1>1, <2>5, LenProperties
  <2> HIDE DEF us
  <2>7. \A k \in DOMAIN us : us[k].id < next
    <3>1. \A k \in DOMAIN us : \E m \in DOMAIN ts : us[k] = ts[m]
      <4>1. SUFFICES ASSUME NEW k \in 1 .. Len(ts) - 1 PROVE \E m \in 1 .. Len(ts) : us[k] = ts[m]
        BY <1>1, <2>6
      <4>2. k \in 1 .. Len(ts) /\ k + 1 \in 1 .. Len(ts)
        BY <1>1
      <4>3. us[k] = ts[k] \/ us[k] = ts[k + 1]
        BY <2>5
      <4>4. QED
        BY <4>2, <4>3
    <3>2. \A m \in DOMAIN ts : ts[m].id < next
      BY DEF Listing
    <3>3. QED
      BY <3>1, <3>2
  <2>8. Listing(us, next)
    BY <1>1, <2>2, <2>5, <2>7, WindowAssumption DEF Listing
  <2>9. \A k \in DOMAIN ts : ts[k].id # i => \E m \in DOMAIN us : us[m] = ts[k]
    <3>1. SUFFICES ASSUME NEW k \in DOMAIN ts, ts[k].id # i
                   PROVE  \E m \in DOMAIN us : us[m] = ts[k]
      OBVIOUS
    <3>2. CASE k < r
      BY <1>1, <2>2, <2>5, <2>6, <3>1, <3>2
    <3>3. CASE k > r
      <4>1. k - 1 \in DOMAIN us /\ us[k - 1] = ts[k]
        BY <1>1, <2>2, <2>5, <2>6, <3>1, <3>3
      <4>2. QED
        BY <4>1
    <3>4. QED
      BY <1>1, <2>1, <2>2, <3>1, <3>2, <3>3
  <2>10. IdsOf(ts) \ IdsOf(us) \subseteq {i}
    BY <2>9 DEF IdsOf
  <2>11. Without(ts, i) = us
    BY <1>3 DEF Without, us, r
  <2>12. QED
    BY <2>8, <2>10, <2>11
<1>4. QED
  BY <1>2, <1>3

------------------------------------------------------------------------------
(* The steps *)

LEMMA Initially == Init => IInv
<1>1. SUFFICES ASSUME Init PROVE IInv
  OBVIOUS
<1>2. Listing(torrents, next_id)
  BY <1>1, WindowAssumption DEF Init, Listing
<1>3. TableInv
  <2>1. Shown(torrents, filter) = {}
    BY <1>1 DEF Init, Shown
  <2>2. Cardinality({}) = 0
    BY FS_EmptySet
  <2>3. <<>> \in [1 .. 0 -> {}]
    OBVIOUS
  <2>4. <<>> \in SetToSeqs({})
    BY <2>2, <2>3 DEF SetToSeqs
  <2>5. QED
    BY <1>1, <2>1, <2>4 DEF Init, TableInv
<1>4. KeptInv
  BY <1>1, WindowAssumption DEF Init, KeptInv
<1>5. QED
  BY <1>1, <1>2, <1>3, <1>4 DEF Init, IInv, PanelInv, DialogInv, RunInv, NoRow, None

LEMMA Rows ==
    ASSUME IInv
    PROVE  /\ ToSet(rows) = Shown(torrents, filter)
           /\ DOMAIN rows = 1 .. Cardinality(Shown(torrents, filter))
           /\ \A k \in DOMAIN rows : /\ rows[k] \in Shown(torrents, filter)
                                     /\ rows[k] \in Nat \ {0}
                                     /\ k # NoRow
BY ShownFinite, Permutation DEF IInv, TableInv

\* Whatever is polled or filtered leaves the invariant, if it closes what was
\* open or shows the same torrents.
LEMMA Polled ==
    ASSUME IInv, running, NEW ts, NEW next, NEW f,
           Listing(ts, next), f \subseteq Known, Rebuild(ts, f),
           torrents' = ts, next_id' = next, filter' = f,
           dialog' = Closed \/ (dialog' = dialog /\ Shown(ts, f) = Shown(torrents, filter)),
           UNCHANGED <<settings, closed, running>>
    PROVE  IInv'
<1>1. /\ rows' \in SetToSeqs(Shown(ts, f))
      /\ selected' \in {NoRow} \cup DOMAIN rows'
      /\ PanelInv'
      /\ (selected # NoRow /\ rows[selected] \in Shown(ts, f))
            => selected' # NoRow /\ rows'[selected'] = rows[selected]
  BY Rebuilding DEF IInv
<1>2. TableInv'
  BY <1>1 DEF TableInv, Shown
<1>3. DialogInv'
  <2>1. CASE dialog' = Closed
    BY <2>1 DEF DialogInv
  <2>2. CASE dialog' = dialog /\ Shown(ts, f) = Shown(torrents, filter) /\ dialog # Closed
    <3>1. selected # NoRow /\ rows[selected] = dialog.id
          /\ dialog \in [kind : {"menu", "question"}, id : Nat \ {0}]
      BY <2>2 DEF IInv, DialogInv
    <3>2. rows[selected] \in Shown(ts, f)
      BY <2>2, <3>1, Rows DEF IInv, TableInv
    <3>3. QED
      BY <1>1, <2>2, <3>1, <3>2 DEF DialogInv
  <2>3. QED
    BY <2>1, <2>2
<1>4. Listing(torrents, next_id)'
  BY DEF Listing
<1>5. QED
  BY <1>1, <1>2, <1>3, <1>4 DEF IInv, RunInv, KeptInv

LEMMA SelectStep == ASSUME IInv, Select PROVE IInv'
<1>1. PICK r \in DOMAIN rows : selected' = r /\ panel' = [id |-> rows[r], shown |-> TRUE]
  BY DEF Select
<1>2. UNCHANGED <<torrents, next_id, settings, closed, filter, rows, dialog, running>>
      /\ running /\ dialog = Closed
  BY DEF Select, list, kept
<1>3. TableInv'
  BY <1>1, <1>2 DEF IInv, TableInv, Shown
<1>4. PanelInv'
  BY <1>1, <1>2, Rows DEF PanelInv
<1>5. Listing(torrents, next_id)'
  BY <1>2 DEF IInv, Listing
<1>6. QED
  BY <1>2, <1>3, <1>4, <1>5 DEF IInv, DialogInv, RunInv, KeptInv

LEMMA SortStep == ASSUME IInv, Sort PROVE IInv'
<1>1. /\ rows' \in SetToSeqs(ToSet(rows))
      /\ selected' = IF selected = NoRow THEN NoRow ELSE RowOf(selectedId, rows')
      /\ UNCHANGED <<torrents, next_id, settings, closed, filter, panel, dialog, running>>
      /\ running /\ dialog = Closed
  BY DEF Sort, list, kept
<1>2. /\ \A x \in Shown(torrents, filter) : RowOf(x, rows') \in DOMAIN rows' /\ rows'[RowOf(x, rows')] = x
      /\ \A k \in DOMAIN rows' : k # NoRow
  BY <1>1, Rows, ShownFinite, Permutation DEF IInv
<1>3. selected # NoRow => selectedId = rows[selected] /\ rows[selected] \in Shown(torrents, filter)
  BY Rows DEF IInv, TableInv, selectedId
<1>4. TableInv'
  <2>1. Shown(torrents, filter)' = Shown(torrents, filter) /\ filter' = filter
    BY <1>1 DEF Shown
  <2>2. filter \subseteq Known /\ selected \in {NoRow} \cup DOMAIN rows
        /\ ToSet(rows) = Shown(torrents, filter)
    BY Rows DEF IInv, TableInv
  <2>3. selected' \in {NoRow} \cup DOMAIN rows'
    BY <1>1, <1>2, <1>3
  <2>4. QED
    BY <1>1, <2>1, <2>2, <2>3 DEF TableInv
<1>5. PanelInv'
  BY <1>1, <1>2, <1>3 DEF IInv, PanelInv
<1>6. Listing(torrents, next_id)'
  BY <1>1 DEF IInv, Listing
<1>7. QED
  BY <1>1, <1>4, <1>5, <1>6 DEF IInv, DialogInv, RunInv, KeptInv

LEMMA FilterStep == ASSUME IInv, setFilter PROVE IInv'
<1>1. PICK f \in SUBSET Known : filter' = f /\ Rebuild(torrents, f)
  BY DEF setFilter
<1>2. UNCHANGED <<torrents, next_id, settings, closed, dialog, running>> /\ running /\ dialog = Closed
  BY DEF setFilter, list, kept
<1>3. QED
  BY <1>1, <1>2, Polled DEF IInv

LEMMA TimerStep == ASSUME IInv, Timer PROVE IInv'
<1>1. /\ running /\ filter' = filter /\ Rebuild(torrents, filter)
      /\ UNCHANGED <<torrents, next_id, settings, closed, dialog, running>>
  BY DEF Timer, Poll, list, kept
<1>2. QED
  BY <1>1, Polled DEF IInv, TableInv

LEMMA CloseDetailsStep == ASSUME IInv, CloseDetails PROVE IInv'
<1>1. /\ panel' = [panel EXCEPT !.shown = FALSE] /\ selected' = NoRow
      /\ UNCHANGED <<torrents, next_id, settings, closed, filter, rows, dialog, running>>
      /\ running /\ dialog = Closed
  BY DEF CloseDetails, SelectionAfterHide, list, kept
<1>2. PanelInv'
  BY <1>1 DEF IInv, PanelInv
<1>3. TableInv'
  BY <1>1 DEF IInv, TableInv, Shown
<1>4. Listing(torrents, next_id)'
  BY <1>1 DEF IInv, Listing
<1>5. QED
  BY <1>1, <1>2, <1>3, <1>4 DEF IInv, DialogInv, RunInv, KeptInv

\* The list may change where the list is all that changes.
LEMMA Unshown ==
    ASSUME IInv, NEW ts, Listing(ts, next_id), Shown(ts, filter) = Shown(torrents, filter),
           torrents' = ts, running,
           UNCHANGED <<next_id, settings, closed, filter, rows, selected, panel, running>>,
           dialog' = Closed \/ UNCHANGED dialog
           \/ /\ dialog' \in [kind : {"menu", "question"}, id : Nat \ {0}]
              /\ selected # NoRow /\ rows[selected] = dialog'.id
    PROVE  IInv'
<1>1. TableInv'
  BY DEF IInv, TableInv, Shown
<1>2. Listing(torrents, next_id)'
  BY DEF Listing
<1>3. DialogInv'
  BY DEF IInv, DialogInv
<1>4. QED
  BY <1>1, <1>2, <1>3 DEF IInv, PanelInv, RunInv, KeptInv

LEMMA AddStep == ASSUME IInv, onAddTorrent PROVE IInv'
<1>1. PICK path \in Paths : torrents' = Added(torrents, next_id, path)
  BY DEF onAddTorrent
<1>2. /\ running /\ dialog = Closed
      /\ IF torrents' = torrents THEN UNCHANGED <<next_id, filter, rows, selected, panel>>
         ELSE next_id' = next_id + 1 /\ filter' = filter /\ Rebuild(torrents', filter)
      /\ UNCHANGED <<settings, closed, dialog, running>>
  BY DEF onAddTorrent, Poll, table, kept
<1>3. CASE torrents' = torrents
  BY <1>2, <1>3, Unshown DEF IInv
<1>4. CASE torrents' # torrents
  <2>1. path \in Known
    BY DEF Known
  <2>2. Listing(torrents', next_id + 1)
    BY <1>1, <1>4, <2>1, Adding DEF IInv
  <2>3. QED
    BY <1>2, <1>4, <2>2, Polled DEF IInv, TableInv
<1>5. QED
  BY <1>3, <1>4

LEMMA DialogStep == ASSUME IInv, Open \/ Cancel \/ removeRequested PROVE IInv'
<1>1. UNCHANGED <<torrents, next_id, settings, closed, filter, rows, selected, panel, running>>
  BY DEF Open, Cancel, removeRequested, list, kept, table
<1>2. selectedId # None => /\ selected # NoRow /\ rows[selected] = selectedId
                           /\ selectedId \in Nat \ {0}
  BY Rows DEF IInv, TableInv, selectedId
<1>3. running
  BY DEF Open, Cancel, removeRequested, IInv, RunInv, Closed
<1>4. \/ dialog' = Closed
      \/ /\ dialog' \in [kind : {"menu", "question"}, id : Nat \ {0}]
         /\ selected # NoRow /\ rows[selected] = dialog'.id
  <2>1. CASE Open
    BY <1>2, <2>1 DEF Open
  <2>2. CASE Cancel
    BY <2>2 DEF Cancel
  <2>3. CASE removeRequested
    BY <1>2, <2>3 DEF removeRequested
  <2>4. QED
    BY <2>1, <2>2, <2>3
<1>5. QED
  BY <1>1, <1>3, <1>4, Unshown DEF IInv

LEMMA StatusStep == ASSUME IInv, pauseTorrent \/ resumeTorrent PROVE IInv'
<1>1. PICK from, to \in Statuses :
          /\ dialog.kind = "menu"
          /\ torrents' = WithStatus(torrents, dialog.id, from, to)
          /\ filter' = filter /\ Rebuild(torrents', filter)
          /\ dialog' = Closed
          /\ UNCHANGED <<next_id, settings, closed, running>>
  BY DEF pauseTorrent, resumeTorrent, SetStatus, Poll, kept, Statuses
<1>2. running
  BY <1>1 DEF IInv, RunInv, Closed
<1>3. Listing(torrents', next_id)
  BY <1>1, StatusSet DEF IInv
<1>4. QED
  BY <1>1, <1>2, <1>3, Polled DEF IInv, TableInv

LEMMA RemoveStep == ASSUME IInv, onRemoveTorrent PROVE IInv'
<1>1. /\ dialog.kind = "question"
      /\ torrents' = Without(torrents, dialog.id)
      /\ dialog' = Closed
      /\ UNCHANGED <<next_id, settings, closed, running>>
  BY DEF onRemoveTorrent, kept
<1>2. running
  BY <1>1 DEF IInv, RunInv, Closed
<1>3. Listing(torrents', next_id)
  BY <1>1, Removing DEF IInv
<1>4. CASE torrents' = <<>>
  <2>1. /\ rows' = <<>> /\ selected' = NoRow /\ filter' = filter
        /\ panel' = [id |-> None, shown |-> FALSE]
    BY <1>4 DEF onRemoveTorrent
  <2>2. Shown(torrents, filter)' = {}
    BY <1>4 DEF Shown
  <2>3. rows' \in SetToSeqs({})
    <3>1. Cardinality({}) = 0
      BY FS_EmptySet
    <3>2. rows' \in [1 .. 0 -> {}]
      BY <2>1
    <3>3. QED
      BY <3>1, <3>2 DEF SetToSeqs
  <2>4. TableInv'
    BY <2>1, <2>2, <2>3 DEF IInv, TableInv
  <2>5. PanelInv'
    BY <2>1 DEF PanelInv, None
  <2>6. Listing(torrents, next_id)'
    BY <1>1, <1>3 DEF Listing
  <2>7. QED
    BY <1>1, <1>2, <2>4, <2>5, <2>6 DEF IInv, DialogInv, RunInv, KeptInv
<1>5. CASE torrents' # <<>>
  <2>1. filter' = filter /\ Rebuild(torrents', filter)
    BY <1>5 DEF onRemoveTorrent, Poll
  <2>2. QED
    BY <1>1, <1>2, <1>3, <2>1, Polled DEF IInv, TableInv
<1>6. QED
  BY <1>4, <1>5

\* The program ends: nothing is left but what was kept.
LEMMA EndStep == ASSUME IInv, End, KeptInv' PROVE IInv'
<1>1. /\ running' = FALSE /\ torrents' = <<>> /\ next_id' = 1
      /\ filter' = Known /\ rows' = <<>> /\ selected' = NoRow
      /\ panel' = [id |-> None, shown |-> FALSE] /\ dialog' = Closed
  BY DEF End
<1>2. Listing(torrents, next_id)'
  BY <1>1, WindowAssumption DEF Listing
<1>3. TableInv'
  <2>1. Shown(torrents, filter)' = {}
    BY <1>1 DEF Shown
  <2>2. Cardinality({}) = 0
    BY FS_EmptySet
  <2>3. rows' \in [1 .. 0 -> {}]
    BY <1>1
  <2>4. rows' \in SetToSeqs({})
    BY <2>2, <2>3 DEF SetToSeqs
  <2>5. QED
    BY <1>1, <2>1, <2>4 DEF TableInv
<1>4. QED
  BY <1>1, <1>2, <1>3 DEF IInv, PanelInv, DialogInv, RunInv, None, NoRow

LEMMA KillStep == ASSUME IInv, Kill PROVE IInv'
<1>1. End /\ UNCHANGED <<settings, closed>>
  BY DEF Kill, kept
<1>2. KeptInv'
  BY <1>1 DEF IInv, KeptInv
<1>3. QED
  BY <1>1, <1>2, EndStep

LEMMA CloseStep == ASSUME IInv, Close PROVE IInv'
<1>1. /\ End
      /\ settings' = [k \in DOMAIN torrents |-> Saved(torrents[k])]
      /\ closed' = [k \in DOMAIN torrents |->
                      [path |-> torrents[k].path, paused |-> torrents[k].status = "paused"]]
  BY DEF Close
<1>2. /\ DOMAIN torrents = 1 .. Len(torrents) /\ Len(torrents) \in Nat
      /\ \A k \in DOMAIN torrents : torrents[k].path \in Known
  BY Listed DEF IInv
<1>3. \A k \in DOMAIN torrents :
          [path |-> torrents[k].path, paused |-> torrents[k].status = "paused"]
              \in [path : Known, paused : BOOLEAN]
  BY <1>2
<1>4. closed' \in Seq([path : Known, paused : BOOLEAN]) /\ Len(closed') = Len(torrents)
  BY <1>1, <1>2, <1>3
<1>5. \A k \in DOMAIN torrents :
          /\ closed'[k].path = torrents[k].path
          /\ closed'[k].paused <=> torrents[k].status = "paused"
  BY <1>1
<1>6. settings' = [k \in DOMAIN closed' |->
                     closed'[k].path \o SaveDir \o <<IF closed'[k].paused THEN "1" ELSE "0">>]
  BY <1>1, <1>5 DEF Saved
<1>7. KeptInv'
  BY <1>4, <1>6 DEF IInv, Listing, KeptInv
<1>8. QED
  BY <1>1, <1>7, EndStep

LEMMA ThreadStep == ASSUME IInv, ThreadEnds PROVE IInv'
<1>1. PICK k \in DOMAIN torrents, to \in {"error", "going"} :
          torrents' = [torrents EXCEPT ![k].status = to]
  BY DEF ThreadEnds
<1>2. running /\ UNCHANGED <<next_id, filter, rows, selected, panel, settings, closed, dialog, running>>
  BY DEF ThreadEnds, table, kept
<1>3. DOMAIN torrents = 1 .. Len(torrents) /\ Len(torrents) \in Nat
      /\ torrents \in Seq(Entries)
      /\ \A m \in DOMAIN torrents : torrents[m] \in Entries
  BY Listed DEF IInv, Listing
<1>4. /\ [torrents[k] EXCEPT !.status = to] \in Entries
      /\ [torrents[k] EXCEPT !.status = to].id = torrents[k].id
      /\ [torrents[k] EXCEPT !.status = to].path = torrents[k].path
  BY <1>3 DEF Entries, Statuses
<1>5. torrents' = [torrents EXCEPT ![k] = [torrents[k] EXCEPT !.status = to]]
  BY <1>1
<1>6. /\ torrents' \in Seq(Entries) /\ Len(torrents') = Len(torrents)
      /\ \A m \in DOMAIN torrents :
            torrents'[m] = IF m = k THEN [torrents[k] EXCEPT !.status = to] ELSE torrents[m]
  BY <1>3, <1>4, <1>5, ExceptSeq
<1>7. DOMAIN torrents' = DOMAIN torrents
      /\ \A m \in DOMAIN torrents : torrents'[m].id = torrents[m].id /\ torrents'[m].path = torrents[m].path
  BY <1>4, <1>5, <1>6
<1>8. Shown(torrents', filter) = Shown(torrents, filter)
  BY <1>7 DEF Shown
<1>9. Listing(torrents', next_id)
  BY <1>6, <1>7 DEF IInv, Listing
<1>10. QED
  BY <1>2, <1>8, <1>9, Unshown

------------------------------------------------------------------------------
(* The restart *)

LEMMA Single ==
    ASSUME NEW S, NEW x \in S
    PROVE  <<x>> \in Seq(S) /\ Len(<<x>>) = 1 /\ <<x>>[1] = x
OBVIOUS

\* Two sequences, one after the other.
LEMMA Concatenated ==
    ASSUME NEW S, NEW a \in Seq(S), NEW b \in Seq(S), Len(b) = 1, NEW n \in Nat, Len(a) = n
    PROVE  /\ a \o b \in Seq(S) /\ Len(a \o b) = n + 1
           /\ \A k \in 1 .. n : (a \o b)[k] = a[k]
           /\ (a \o b)[n + 1] = b[1]
<1>1. /\ a \o b \in Seq(S) /\ Len(a \o b) = Len(a) + Len(b)
      /\ \A k \in 1 .. Len(a) + Len(b) :
            (a \o b)[k] = IF k <= Len(a) THEN a[k] ELSE b[k - Len(a)]
  BY ConcatProperties
<1>2. QED
  BY <1>1

Line(p, flag) == p \o SaveDir \o <<flag>>

\* An entry of the settings is read as it was written, if its name has no bar.
LEMMA Parted ==
    ASSUME NEW p \in Known, NEW flag, NEW parts, parts = Line(p, flag)
    PROVE  /\ Len(parts) >= 2
           /\ <<parts[1]>> \in Known
           /\ Len(p) = 1 => p = <<parts[1]>> /\ Len(parts) = 3 /\ parts[3] = flag
<1> DEFINE Text == STRING \cup {"downloads", flag}
<1>1. p \in Seq(Text) /\ p # <<>> /\ <<p[1]>> \in Known
  <2>1. CASE p \in Paths
    <3>1. p \in Seq(STRING) /\ p # <<>> /\ <<p[1]>> \in Known
      BY <2>1, WindowAssumption DEF Known
    <3>2. \A k \in DOMAIN p : p[k] \in STRING
      BY <3>1, ElementOfSeq, LenProperties
    <3>3. QED
      BY <3>1, <3>2
  <2>2. CASE \E q \in Paths : p = <<q[1]>>
    <3>1. PICK q \in Paths : p = <<q[1]>>
      BY <2>2
    <3>2. q \in Seq(STRING) /\ q # <<>>
      BY WindowAssumption
    <3>3. q[1] \in STRING
      BY <3>2, EmptySeq, ElementOfSeq, LenProperties
    <3>4. q[1] \in Text
      BY <3>3
    <3> HIDE DEF Text
    <3>5. <<q[1]>> \in Seq(Text) /\ Len(<<q[1]>>) = 1 /\ <<q[1]>>[1] = q[1]
      BY <3>4, Single
    <3>6. p[1] = q[1] /\ p # <<>>
      BY <3>1, <3>5
    <3>7. QED
      BY <3>1, <3>5, <3>6 DEF Known
  <2>3. QED
    BY <2>1, <2>2 DEF Known
<1>2. Len(p) \in Nat /\ Len(p) >= 1
  BY <1>1, EmptySeq, LenProperties
<1>3. SaveDir \in Seq(Text) /\ Len(SaveDir) = 1
  <2>1. "downloads" \in Text
    OBVIOUS
  <2>2. QED
    BY <2>1, Single DEF SaveDir
<1>4. <<flag>> \in Seq(Text) /\ Len(<<flag>>) = 1 /\ <<flag>>[1] = flag
  <2>1. flag \in Text
    OBVIOUS
  <2>2. QED
    BY <2>1, Single
<1> HIDE DEF Text
<1> DEFINE both == p \o SaveDir
<1>0. both = p \o SaveDir /\ parts = both \o <<flag>>
  BY DEF Line
<1> HIDE DEF both
<1>5. /\ both \in Seq(Text) /\ Len(both) = Len(p) + 1
      /\ \A k \in 1 .. Len(p) : both[k] = p[k]
  BY <1>0, <1>1, <1>2, <1>3, Concatenated
<1>6. /\ Len(parts) = Len(p) + 2
      /\ \A k \in 1 .. Len(p) + 1 : parts[k] = both[k]
      /\ parts[Len(p) + 2] = flag
  <2>1. Len(p) + 1 \in Nat /\ Len(p) + 1 + 1 = Len(p) + 2
    BY <1>2
  <2>2. /\ Len(parts) = Len(p) + 1 + 1
        /\ \A k \in 1 .. Len(p) + 1 : parts[k] = both[k]
        /\ parts[Len(p) + 1 + 1] = <<flag>>[1]
    BY <1>4, <1>5, <1>0, <2>1, Concatenated
  <2>3. QED
    BY <1>4, <2>1, <2>2
<1>7. Len(parts) >= 2 /\ parts[1] = p[1]
  BY <1>2, <1>5, <1>6
<1>8. ASSUME Len(p) = 1 PROVE p = <<p[1]>> /\ Len(parts) = 3 /\ parts[3] = flag
  BY <1>1, <1>6, <1>8
<1>9. QED
  BY <1>1, <1>7, <1>8

\* loadSession takes every entry of the settings, in their order.
LEMMA Loading ==
    ASSUME IInv, Start
    PROVE  /\ DOMAIN closed = 1 .. Len(closed) /\ Len(closed) \in Nat
           /\ \E failed \in [DOMAIN closed -> BOOLEAN] :
                 torrents' = [n \in DOMAIN closed |-> Loaded(settings[n], n, failed[n])]
           /\ \A k \in DOMAIN closed :
                 LET parts == settings[k]
                 IN  /\ <<parts[1]>> \in Known
                     /\ Len(closed[k].path) = 1 =>
                           /\ closed[k].path = <<parts[1]>>
                           /\ Loaded(parts, k, FALSE).status = "paused" <=> closed[k].paused
<1> DEFINE m == Len(closed)
<1>1. m \in Nat /\ DOMAIN closed = 1 .. m /\ m <= TS_MAX_TORRENTS
      /\ \A k \in DOMAIN closed : closed[k] \in [path : Known, paused : BOOLEAN]
  BY LenProperties, ElementOfSeq DEF IInv, KeptInv
<1>2. DOMAIN settings = 1 .. m
      /\ \A k \in 1 .. m : settings[k] = closed[k].path \o SaveDir
                                           \o <<IF closed[k].paused THEN "1" ELSE "0">>
  BY <1>1 DEF IInv, KeptInv
<1> HIDE DEF m
<1>3. ASSUME NEW k \in 1 .. m
      PROVE  /\ Len(settings[k]) >= 2
             /\ <<settings[k][1]>> \in Known
             /\ Len(closed[k].path) = 1 =>
                   /\ closed[k].path = <<settings[k][1]>>
                   /\ Loaded(settings[k], k, FALSE).status = "paused" <=> closed[k].paused
  <2> DEFINE flag == IF closed[k].paused THEN "1" ELSE "0"
  <2>1. closed[k].path \in Known /\ closed[k].paused \in BOOLEAN
    BY <1>1
  <2>2. flag = "1" <=> closed[k].paused
    BY <2>1
  <2>3. settings[k] = closed[k].path \o SaveDir \o <<flag>>
    BY <1>2
  <2> HIDE DEF flag
  <2>4. /\ Len(settings[k]) >= 2
        /\ <<settings[k][1]>> \in Known
        /\ Len(closed[k].path) = 1 =>
              /\ closed[k].path = <<settings[k][1]>>
              /\ Len(settings[k]) = 3 /\ settings[k][3] = flag
    <3> DEFINE p     == closed[k].path
               parts == settings[k]
    <3>1. p \in Known /\ parts = Line(p, flag)
      BY <2>1, <2>3 DEF Line
    <3> HIDE DEF p, parts
    <3>2. /\ Len(parts) >= 2
          /\ <<parts[1]>> \in Known
          /\ Len(p) = 1 => p = <<parts[1]>> /\ Len(parts) = 3 /\ parts[3] = flag
      BY <3>1, Parted
    <3>3. QED
      BY <3>2 DEF p, parts
  <2>5. (Len(settings[k]) = 3 /\ settings[k][3] = flag)
           => (Loaded(settings[k], k, FALSE).status = "paused" <=> closed[k].paused)
    BY <2>2 DEF Loaded
  <2>6. QED
    BY <2>4, <2>5
<1> DEFINE usable == {k \in DOMAIN settings : Len(settings[k]) >= 2}
           upto(k) == {j \in usable : j <= k}
           Nth(n)  == CHOOSE k \in usable : Cardinality(upto(k)) = n
           most    == Min({Cardinality(usable), TS_MAX_TORRENTS})
<1>4. usable = 1 .. m
  BY <1>2, <1>3
<1>5. \A k \in usable : Cardinality(upto(k)) = k
  <2>1. SUFFICES ASSUME NEW k \in usable PROVE Cardinality(upto(k)) = k
    OBVIOUS
  <2>2. k \in Nat /\ upto(k) = 1 .. k
    BY <1>1, <1>4
  <2>3. Cardinality(1 .. k) = k
    BY <2>2, FS_Interval
  <2>4. QED
    BY <2>2, <2>3
<1>6. \A n \in 1 .. m : Nth(n) = n
  BY <1>4, <1>5
<1>7. Cardinality(usable) = m
  <2>1. Cardinality(1 .. m) = m
    BY <1>1, FS_Interval
  <2> HIDE DEF usable
  <2>2. QED
    BY <1>4, <2>1
<1>8. most = m
  BY <1>1, <1>7, WindowAssumption DEF Min
<1>9. \E failed \in [1 .. most -> BOOLEAN] :
         torrents' = [n \in 1 .. most |-> Loaded(settings[Nth(n)], n, failed[n])]
  BY DEF Start
<1> HIDE DEF most, Nth
<1>10. \E failed \in [1 .. m -> BOOLEAN] :
          torrents' = [n \in 1 .. m |-> Loaded(settings[n], n, failed[n])]
  BY <1>6, <1>8, <1>9
<1>11. QED
  BY <1>1, <1>3, <1>10 DEF m

LEMMA StartStep == ASSUME IInv, Start PROVE IInv'
<1>1. /\ DOMAIN closed = 1 .. Len(closed) /\ Len(closed) \in Nat /\ Len(closed) <= TS_MAX_TORRENTS
      /\ \A k \in DOMAIN closed : <<settings[k][1]>> \in Known
  BY Loading DEF IInv, KeptInv
<1>0. PICK failed \in [DOMAIN closed -> BOOLEAN] :
         torrents' = [n \in DOMAIN closed |-> Loaded(settings[n], n, failed[n])]
  BY Loading
<1>2. /\ ~running /\ running' = TRUE
      /\ next_id' = Len(torrents') + 1
      /\ rows' \in SetToSeqs(Shown(torrents', filter))
      /\ UNCHANGED <<filter, selected, panel, dialog, settings, closed>>
  BY DEF Start, kept
<1>3. filter = Known /\ selected = NoRow /\ dialog = Closed
  BY <1>2 DEF IInv, RunInv
<1>4. \A k \in DOMAIN closed : /\ Loaded(settings[k], k, failed[k]) \in Entries
                               /\ Loaded(settings[k], k, failed[k]).id = k
  BY <1>1 DEF Loaded, Entries, Statuses
<1>5. torrents' \in Seq(Entries) /\ Len(torrents') = Len(closed)
      /\ DOMAIN torrents' = DOMAIN closed
  BY <1>0, <1>1, <1>4
<1>6. Listing(torrents, next_id)'
  <2>1. \A k \in DOMAIN torrents' : torrents'[k].id < next_id'
    BY <1>0, <1>1, <1>2, <1>4, <1>5
  <2>2. QED
    BY <1>1, <1>2, <1>5, <2>1 DEF Listing
<1>7. TableInv'
  BY <1>2, <1>3 DEF TableInv, Shown
<1>8. PanelInv'
  BY <1>2, <1>3 DEF IInv, PanelInv
<1>9. QED
  BY <1>2, <1>3, <1>6, <1>7, <1>8 DEF IInv, DialogInv, RunInv, KeptInv

LEMMA Stuttering == ASSUME IInv, UNCHANGED vars PROVE IInv'
BY DEF IInv, Listing, TableInv, PanelInv, DialogInv, RunInv, KeptInv, Shown,
       vars, list, table, kept

------------------------------------------------------------------------------
(* The theorems *)

\* What holds of the window from its first start on, for any torrent files:
\* the table has a row for each torrent that the filter lets through, the
\* details are those of the selected row (rebuildTable), what waits for an
\* answer is about that row, and the settings are the list of the last close.
THEOREM Inductive == Spec => []IInv
<1>1. IInv /\ [Next]_vars => IInv'
  <2> SUFFICES ASSUME IInv, [Next]_vars PROVE IInv'
    OBVIOUS
  <2>1. CASE Select \/ Sort \/ setFilter \/ Timer \/ CloseDetails
    BY <2>1, SelectStep, SortStep, FilterStep, TimerStep, CloseDetailsStep
  <2>2. CASE onAddTorrent \/ Open \/ Cancel \/ removeRequested \/ onRemoveTorrent
    BY <2>2, AddStep, DialogStep, RemoveStep
  <2>3. CASE pauseTorrent \/ resumeTorrent
    BY <2>3, StatusStep
  <2>4. CASE Close \/ Kill \/ Start \/ ThreadEnds
    BY <2>4, CloseStep, KillStep, StartStep, ThreadStep
  <2>5. CASE UNCHANGED vars
    BY <2>5, Stuttering
  <2>6. QED
    BY <2>1, <2>2, <2>3, <2>4, <2>5 DEF Next
<1>2. QED
  BY Initially, <1>1, PTL DEF Spec

\* The variables keep their types, and every row of the table is a torrent of
\* the session (rebuildTable, ts_add_torrent).
THEOREM TypeCorrect == Spec => []TypeOK
<1>1. IInv => TypeOK
  <2> SUFFICES ASSUME IInv PROVE TypeOK
    OBVIOUS
  <2>1. Len(torrents) <= TS_MAX_TORRENTS /\ next_id \in Nat
    BY DEF IInv, Listing
  <2>2. \A k \in DOMAIN torrents : /\ torrents[k].id \in 1 .. next_id - 1
                                   /\ torrents[k].status \in Statuses
    BY <2>1, Listed DEF IInv, Listing
  <2>3. ToSet(rows) \subseteq IdsOf(torrents)
    BY Rows DEF Shown, IdsOf
  <2>4. panel.id \in Nat \cup {None} /\ panel.shown \in BOOLEAN
    BY DEF IInv, PanelInv
  <2>5. dialog.kind \in {"closed", "menu", "question"} /\ dialog.id \in Nat \cup {None}
    BY DEF IInv, DialogInv, Closed
  <2>6. QED
    BY <2>1, <2>2, <2>3, <2>4, <2>5 DEF IInv, TableInv, TypeOK
<1>2. QED
  BY Inductive, <1>1, PTL

\* While a torrent is selected its details are shown, and no others, whatever
\* the timer, the filter, a sort or a removal do to the table (rebuildTable and
\* the signal that a new selection sends).
THEOREM DetailsShown == Spec => []DetailsOfSelected
<1>1. IInv => DetailsOfSelected
  BY DEF IInv, PanelInv, selectedId, DetailsOfSelected
<1>2. QED
  BY Inductive, <1>1, PTL

\* A menu or a question acts on the torrent that was selected when it was
\* opened, whatever the timer did to the table in between (the menu of
\* TorrentListWidget, onRemoveTorrent).
THEOREM ChosenOnly == Spec => ActsOnChosen
<1> DEFINE Chosen ==
       /\ onRemoveTorrent => IdsOf(torrents) \ IdsOf(torrents') \subseteq {selectedId}
       /\ pauseTorrent \/ resumeTorrent =>
             \A k \in DOMAIN torrents : torrents[k].id # selectedId => torrents'[k] = torrents[k]
       /\ removeRequested => dialog'.id = dialog.id
<1>1. IInv => Chosen
  <2> SUFFICES ASSUME IInv PROVE Chosen
    OBVIOUS
  <2>1. dialog # Closed => selectedId = dialog.id /\ selectedId # None
    BY DEF IInv, DialogInv, selectedId, None
  <2>2. ASSUME onRemoveTorrent
        PROVE  IdsOf(torrents) \ IdsOf(torrents') \subseteq {selectedId}
    BY <2>1, <2>2, Removing DEF IInv, onRemoveTorrent, Closed
  <2>3. ASSUME pauseTorrent \/ resumeTorrent,
               NEW k \in DOMAIN torrents, torrents[k].id # selectedId
        PROVE  torrents'[k] = torrents[k]
    <3>1. PICK from, to \in Statuses :
              dialog.kind = "menu" /\ torrents' = WithStatus(torrents, dialog.id, from, to)
      BY <2>3 DEF pauseTorrent, resumeTorrent, SetStatus, Statuses
    <3>2. torrents[k].id # dialog.id
      BY <2>1, <2>3, <3>1 DEF Closed
    <3>3. QED
      BY <3>1, <3>2, StatusSet DEF IInv
  <2>4. ASSUME removeRequested PROVE dialog'.id = dialog.id
    BY <2>1, <2>4 DEF removeRequested, Closed
  <2>5. QED
    BY <2>2, <2>3, <2>4
<1>2. IInv /\ [Next]_vars => [Chosen]_vars
  BY <1>1
<1>3. QED
  BY Inductive, <1>2, PTL DEF Spec, ActsOnChosen

\* After a close a start has the same torrents again in their order, those
\* paused that were and have not failed meanwhile, if no name has a bar in it,
\* and a full list is not cut (closeEvent and loadSession).
THEOREM Restored == Spec => RestoredAlike
<1> DEFINE Same ==
       /\ DOMAIN torrents' = DOMAIN closed
       /\ \A k \in DOMAIN closed :
             /\ torrents'[k].path = closed[k].path
             /\ torrents'[k].status # "error" =>
                   (torrents'[k].status = "paused" <=> closed[k].paused)
           Alike == Start /\ (\A k \in DOMAIN closed : Len(closed[k].path) = 1) => Same
<1>1. IInv => Alike
  <2> SUFFICES ASSUME IInv, Start, \A k \in DOMAIN closed : Len(closed[k].path) = 1
               PROVE  Same
    OBVIOUS
  <2>1. PICK failed \in [DOMAIN closed -> BOOLEAN] :
           torrents' = [n \in DOMAIN closed |-> Loaded(settings[n], n, failed[n])]
    BY Loading
  <2>2. ASSUME NEW k \in DOMAIN closed
        PROVE  /\ torrents'[k].path = closed[k].path
               /\ torrents'[k].status # "error" =>
                     (torrents'[k].status = "paused" <=> closed[k].paused)
    <3>1. /\ closed[k].path = <<settings[k][1]>>
          /\ Loaded(settings[k], k, FALSE).status = "paused" <=> closed[k].paused
      BY Loading
    <3>2. torrents'[k] = Loaded(settings[k], k, failed[k]) /\ failed[k] \in BOOLEAN
      BY <2>1
    <3>3. CASE failed[k] = FALSE
      BY <3>1, <3>2, <3>3 DEF Loaded
    <3>4. CASE failed[k] = TRUE
      BY <3>1, <3>2, <3>4 DEF Loaded
    <3>5. QED
      BY <3>2, <3>3, <3>4
  <2>3. QED
    BY <2>1, <2>2
<1>2. IInv /\ [Next]_vars => [Alike]_vars
  BY <1>1
<1>3. QED
  BY Inductive, <1>2, PTL DEF Spec, RestoredAlike

==============================================================================
