------------------------------ MODULE TuiProofs -----------------------------
(***************************************************************************)
(* What the terminal interface shows and what its keys do, for any number  *)
(* of fingerprints, connections and rows. ShownIsActedOn is inductive as   *)
(* it stands: each step leaves the mode, the lists, the selection and the  *)
(* rows alone, makes the rows anew from the other three, or fails to and   *)
(* says so. TuiTypeOK needs to know what the lists hold, and with it that  *)
(* there is a list of the newest rows of a set: each row has its rank for  *)
(* its place. EditsAreChosen rests on both: what the operator has marked   *)
(* is what the map of selections holds, and while an edit goes through     *)
(* its fingerprints, each of those marked on the screen when the key was   *)
(* pressed is done, still to do, or someone else's.                        *)
(***************************************************************************)
EXTENDS Tui, SequenceTheorems, FiniteSetTheorems, TLAPS

\* The rows that the table should show.
Rows(m, s, c, sel) == IF m = "listing" THEN ListingRows(s, sel) ELSE LogsRows(c, sel)

\* The invariant in these words.
LEMMA ShownRows ==
  /\ ShownIsActedOn <=> /\ stale \/ shown = Rows(mode, summaries, connections, selected)
                        /\ stale => err
  /\ ShownIsActedOn' <=> /\ stale' \/ shown' = Rows(mode', summaries', connections', selected')
                         /\ stale' => err'
  BY DEF ShownIsActedOn, Rows

\* A refresh shows the list it has read, or sets err.
LEMMA RefreshShows ==
  ASSUME ShownIsActedOn, NEW f, NEW blk, RefreshData(mode', f, selected', blk)
  PROVE  ShownIsActedOn'
<1>1. CASE QueryFails /\ stale' = (stale \/ mode' # mode \/ selected' # selected)
  BY <1>1, ShownRows DEF QueryFails, listVars
<1>2. CASE ListAgain(mode', f, selected', blk)
  <2>1. stale' = FALSE /\ shown' = Rows(mode', summaries', connections', selected')
    BY <1>2 DEF ListAgain, SetRows, Rows
  <2> QED
    BY <2>1, ShownRows
<1> QED
  BY <1>1, <1>2 DEF RefreshData

\* A step that touches none of what the invariant speaks of.
LEMMA QuietKeys ==
  ASSUME ShownIsActedOn,
         UNCHANGED <<mode, selected, summaries, connections, shown, err, stale>>
  PROVE  ShownIsActedOn'
  BY DEF ShownIsActedOn

\* The keys of the table itself.
LEMMA TableKeys ==
  ASSUME ShownIsActedOn,
         ToggleSelection \/ TogglePanics \/ MoveCursor \/ ClearSelection
  PROVE  ShownIsActedOn'
<1>1. CASE ToggleSelection
  <2>1. CASE cursor < Len(List)
    <3>1. shown' = Rows(mode, summaries, connections, selected') /\ stale' = FALSE
      BY <1>1, <2>1 DEF ToggleSelection, Rows
    <3> QED
      BY <1>1, <3>1, ShownRows DEF ToggleSelection, viewVars
  <2>2. CASE ~(cursor < Len(List))
    BY <1>1, <2>2, QuietKeys DEF ToggleSelection, viewVars
  <2> QED
    BY <2>1, <2>2
<1>2. CASE TogglePanics
  BY <1>2, QuietKeys DEF TogglePanics, viewVars, listVars
<1>3. CASE MoveCursor
  BY <1>3, QuietKeys DEF MoveCursor, viewVars
<1>4. CASE ClearSelection
  <2>1. shown' = Rows(mode, summaries, connections, NoSelection) /\ stale' = FALSE
    BY <1>4 DEF ClearSelection, UpdateTable, SetRows, Rows
  <2> QED
    BY <1>4, <2>1, ShownRows DEF ClearSelection, UpdateTable, viewVars
<1> QED
  BY <1>1, <1>2, <1>3, <1>4

\* The keys and the tick that read the database again.
LEMMA RefreshKeys ==
  ASSUME ShownIsActedOn, Refresh \/ SwitchView \/ CycleFilter \/ EndEdit
  PROVE  ShownIsActedOn'
<1>1. CASE Refresh
  <2>1. RefreshData(mode', filter, selected', blockedSet)
    BY <1>1 DEF Refresh, viewVars
  <2> QED
    BY <2>1, RefreshShows
<1>2. CASE SwitchView
  <2>1. RefreshData(mode', "all", selected', blockedSet)
    BY <1>2 DEF SwitchView
  <2> QED
    BY <2>1, RefreshShows
<1>3. CASE CycleFilter
  <2>1. RefreshData(mode', filter', selected', blockedSet)
    BY <1>3 DEF CycleFilter
  <2> QED
    BY <2>1, RefreshShows
<1>4. CASE EndEdit
  <2>1. RefreshData(mode', filter, selected', blockedSet)
    BY <1>4 DEF EndEdit, viewVars
  <2> QED
    BY <2>1, RefreshShows
<1> QED
  BY <1>1, <1>2, <1>3, <1>4

\* A search shows what it has found, or sets err.
LEMMA SearchShows ==
  ASSUME ShownIsActedOn, NEW v, PerformSearch(v)
  PROVE  ShownIsActedOn'
<1>1. mode' = mode /\ selected' = selected
  BY DEF PerformSearch
<1>2. CASE QueryFails /\ UNCHANGED stale
  BY <1>1, <1>2, ShownRows DEF QueryFails, listVars
<1>3. CASE ~(QueryFails /\ UNCHANGED stale)
  <2>1. stale' = FALSE /\ shown' = Rows(mode, summaries', connections', selected)
    BY <1>3 DEF PerformSearch, SetRows, Rows
  <2> QED
    BY <1>1, <2>1, ShownRows
<1> QED
  BY <1>2, <1>3

\* A new table shows its list, the empty one if the first query has failed.
LEMMA ShownStarts ==
  ASSUME TuiInit
  PROVE  ShownIsActedOn
<1>1. mode = "listing" /\ selected = NoSelection /\ stale = FALSE
  BY DEF TuiInit
<1>2. CASE shown = ListingRows(summaries, NoSelection)
  BY <1>1, <1>2 DEF ShownIsActedOn
<1>3. CASE summaries = <<>> /\ shown = <<>>
  <2>1. ListingRows(<<>>, NoSelection) = <<>>
    BY DEF ListingRows
  <2> QED
    BY <1>1, <1>3, <2>1 DEF ShownIsActedOn
<1> QED
  BY <1>2, <1>3 DEF TuiInit

\* The invariant survives every step.
LEMMA ShownStep ==
  ASSUME ShownIsActedOn, [TuiNext]_tuiVars
  PROVE  ShownIsActedOn'
<1>1. CASE StartSearch \/ Quit \/ LeaveSearch \/ CycleSearchField
  BY <1>1, QuietKeys DEF StartSearch, Quit, LeaveSearch, CycleSearchField, viewVars, listVars
<1>2. CASE \E c \in Connections : ConnectionRecorded(c)
  BY <1>2, QuietKeys DEF ConnectionRecorded, viewVars, listVars
<1>3. CASE \E f \in Fingerprint : OthersEdit(f)
  BY <1>3, QuietKeys DEF OthersEdit, viewVars, listVars
<1>4. CASE UNCHANGED tuiVars
  BY <1>4, QuietKeys DEF tuiVars, viewVars, listVars
<1>5. CASE \E v \in Queried : PerformSearch(v)
  BY <1>5, SearchShows
<1>6. CASE BeginEdit("b") \/ BeginEdit("u") \/ \E f \in todo : EditOne(f)
  BY <1>6, QuietKeys DEF BeginEdit, EditOne, viewVars, listVars
<1> QED
  BY <1>1, <1>2, <1>3, <1>4, <1>5, <1>6, TableKeys, RefreshKeys DEF TuiNext, Over

-----------------------------------------------------------------------------
\* The table shows the list that the keys act on, with the marks of the selection,
\* whatever keys, ticks, edits and recorded connections came in between; if it could not
\* be drawn again, an error is on the screen.
THEOREM ShownAlwaysActedOn == TuiSpec => []ShownIsActedOn
  BY ShownStarts, ShownStep, PTL DEF TuiSpec

-----------------------------------------------------------------------------
(***************************************************************************)
(* Types                                                                   *)
(***************************************************************************)

\* Every finite set of ids has a list of its newest.
LEMMA NewestExists ==
  ASSUME NEW ids, IsFiniteSet(ids), ids \subseteq Nat
  PROVE  Ordered(ids, TRUE, TRUE) # {}
<1> DEFINE size == Cardinality(ids)
           length == IF Limit = 0 \/ size <= Limit THEN size ELSE Limit
           since(x) == {y \in ids : y >= x}
           rank == [x \in ids |-> Cardinality(since(x))]
<1>1. size \in Nat /\ length \in Nat /\ length <= size
  BY FS_CardinalityType, LimitAssumption
<1>2. ASSUME NEW x \in ids
      PROVE  IsFiniteSet(since(x)) /\ Cardinality(since(x)) \in 1..size
  <2>1. since(x) \in SUBSET ids /\ x \in since(x)
    OBVIOUS
  <2> HIDE DEF since
  <2>2. IsFiniteSet(since(x)) /\ Cardinality(since(x)) <= size
    BY <2>1, FS_Subset
  <2>3. Cardinality(since(x)) \in Nat /\ Cardinality(since(x)) # 0
    BY <2>1, <2>2, FS_CardinalityType, FS_EmptySet
  <2> QED
    BY <1>1, <2>2, <2>3
<1>3. ASSUME NEW x \in ids, NEW y \in ids, x > y
      PROVE  rank[x] < rank[y]
  <2>1. since(x) \in SUBSET since(y) /\ since(x) # since(y)
    <3>1. y \in since(y) /\ y \notin since(x)
      BY <1>3
    <3>2. \A z \in ids : z >= x => z >= y
      BY <1>3
    <3> QED
      BY <3>1, <3>2
  <2>2. /\ IsFiniteSet(since(y))
        /\ Cardinality(since(x)) \in 1..size /\ Cardinality(since(y)) \in 1..size
    BY <1>2
  <2>3. Cardinality(since(x)) <= Cardinality(since(y))
        /\ Cardinality(since(x)) # Cardinality(since(y))
    <3> HIDE DEF since
    <3> QED
      BY <2>1, <2>2, FS_Subset
  <2>4. rank[x] = Cardinality(since(x)) /\ rank[y] = Cardinality(since(y))
    OBVIOUS
  <2> HIDE DEF since, rank
  <2> QED
    BY <1>1, <2>2, <2>3, <2>4
<1>4. rank \in [ids -> 1..size]
  BY <1>2
<1> HIDE DEF rank, since
<1>5. \A x, y \in ids : rank[x] = rank[y] => x = y
  <2> SUFFICES ASSUME NEW x \in ids, NEW y \in ids, x # y
               PROVE  rank[x] # rank[y]
    OBVIOUS
  <2>1. x > y \/ y > x
    OBVIOUS
  <2>2. rank[x] \in Nat /\ rank[y] \in Nat
    BY <1>1, <1>4
  <2> QED
    BY <1>3, <2>1, <2>2
<1>6. \A n \in 1..size : \E x \in ids : rank[x] = n
  <2>1. rank \in Injection(ids, 1..size)
    BY <1>4, <1>5 DEF Injection, IsInjective
  <2>2. IsFiniteSet(1..size) /\ Cardinality(1..size) = size
    <3> HIDE DEF size
    <3>1. /\ IsFiniteSet(1..size)
          /\ Cardinality(1..size) = IF 1 > size THEN 0 ELSE size - 1 + 1
      BY <1>1, FS_Interval
    <3> QED
      BY <1>1, <3>1
  <2>3. rank \in Surjection(ids, 1..size)
    BY <2>1, <2>2, FS_Injection
  <2> QED
    BY <2>3 DEF Surjection
<1> DEFINE rows == [n \in 1..length |-> CHOOSE x \in ids : rank[x] = n]
<1> HIDE DEF length, size
<1>7. \A n \in 1..length : rows[n] \in ids /\ rank[rows[n]] = n
  BY <1>1, <1>6
<1>8. rows \in [1..length -> ids]
  BY <1>7
<1> HIDE DEF rows
<1>9. IsInjective(rows)
  BY <1>7, <1>8 DEF IsInjective
<1>10. ASSUME NEW n \in 1..length, NEW i \in ids, i > rows[n]
       PROVE  \E m \in 1..(n - 1) : rows[m] = i
  <2>1. rank[i] < n /\ rank[i] \in 1..size
    BY <1>3, <1>4, <1>7, <1>10
  <2>2. rank[i] \in 1..(n - 1) /\ rank[i] \in 1..length
    BY <1>1, <2>1
  <2>3. rows[rank[i]] = i
    BY <1>5, <1>7, <2>2
  <2> QED
    BY <2>2, <2>3
<1> QED
  BY <1>8, <1>9, <1>10 DEF Ordered, length, size

\* It holds ids of the set.
LEMMA NewestType ==
  ASSUME NEW ids, IsFiniteSet(ids), ids \subseteq Nat
  PROVE  /\ Len(Newest(ids)) \in Nat
         /\ \A n \in 1..Len(Newest(ids)) : Newest(ids)[n] \in ids
<1>1. Newest(ids) \in Ordered(ids, TRUE, TRUE)
  BY NewestExists DEF Newest
<1>2. PICK length \in Nat : Newest(ids) \in [1..length -> ids]
  <2>1. Cardinality(ids) \in Nat
    BY FS_CardinalityType
  <2> QED
    BY <1>1, <2>1, LimitAssumption DEF Ordered
<1> QED
  BY <1>2

\* What the lists hold.
SummariesOf(list) == Len(list) \in Nat /\ \A n \in 1..Len(list) : list[n].fp \in Fingerprint
ConnectionsOf(list, lines) ==
  Len(list) \in Nat /\ \A n \in 1..Len(list) : list[n] \in DOMAIN lines

\* The cursor is on a row of the table, or there is none: no longer, or not yet.
OnTable(c, rows) ==
  /\ Len(rows) \in Nat
  /\ c \in -1..(Len(rows) - 1) \/ (c = 0 /\ rows = <<>>)

ListsOK == SummariesOf(summaries) /\ ConnectionsOf(connections, log) /\ OnTable(cursor, shown)

Modes ==
  /\ life \in {"runs", "quit", "panicked"}
  /\ mode \in {"listing", "logs"}
  /\ filter \in ToSet(Filters)
  /\ searchField \in {"hassh", "banner"} \/ (mode = "logs" /\ searchField = "ip")
  /\ job \in {"idle", "b", "u"}

SelectionOK == DOMAIN selected \subseteq Keys /\ todo \subseteq Fingerprint

TuiIInv == log \in Seq(Connections) /\ Modes /\ SelectionOK /\ ListsOK

\* A query of connections that are recorded.
LEMMA ConnectionsListed ==
  ASSUME NEW lines \in Seq(Connections), NEW ids \in SUBSET DOMAIN lines
  PROVE  ConnectionsOf(Newest(ids), lines)
<1>1. ids \subseteq 1..Len(lines) /\ Len(lines) \in Nat
  OBVIOUS
<1>2. IsFiniteSet(1..Len(lines))
  BY <1>1, FS_Interval
<1>3. IsFiniteSet(ids) /\ ids \subseteq Nat
  BY <1>1, <1>2, FS_Subset
<1> QED
  BY <1>3, NewestType DEF ConnectionsOf

\* A query of the fingerprints of recorded connections.
LEMMA SummariesListed ==
  ASSUME NEW lines \in Seq(Connections), NEW blk, NEW ids \in SUBSET DOMAIN lines
  PROVE  SummariesOf(Summaries(lines, blk, ids))
<1> DEFINE latest == Newest(ids)
<1>1. Len(latest) \in Nat /\ \A n \in 1..Len(latest) : latest[n] \in DOMAIN lines
  BY ConnectionsListed DEF ConnectionsOf
<1>2. \A n \in DOMAIN lines : lines[n].fp \in Fingerprint
  <2> TAKE n \in DOMAIN lines
  <2>1. lines[n] \in Connections
    OBVIOUS
  <2> QED
    BY <2>1 DEF Connections
<1> HIDE DEF latest
<1>3. Summaries(lines, blk, ids) = [n \in 1..Len(latest) |-> Summary(lines, blk, latest[n])]
  BY DEF Summaries, latest
<1>4. \A n \in 1..Len(latest) : Summary(lines, blk, latest[n]).fp \in Fingerprint
  BY <1>1, <1>2 DEF Summary
<1>5. Len(Summaries(lines, blk, ids)) = Len(latest)
  BY <1>1, <1>3
<1> QED
  BY <1>1, <1>3, <1>4, <1>5 DEF SummariesOf

\* The rows of a list are as many as its members.
LEMMA RowsType ==
  ASSUME NEW list, Len(list) \in Nat, NEW sel
  PROVE  Len(ListingRows(list, sel)) = Len(list) /\ Len(LogsRows(list, sel)) = Len(list)
  BY DEF ListingRows, LogsRows

\* New rows put the cursor on the table.
LEMMA RowsSet ==
  ASSUME NEW rows, Len(rows) \in Nat, OnTable(cursor, shown), SetRows(rows)
  PROVE  OnTable(cursor', shown')
  BY DEF SetRows, OnTable, AtMost

\* The list of one view is read again, whatever the query.
LEMMA ReadListing ==
  ASSUME ListsOK, log \in Seq(Connections), log' = log, NEW sel,
         SummariesOf(summaries'), SetRows(ListingRows(summaries', sel)),
         UNCHANGED connections
  PROVE  ListsOK'
<1>1. Len(ListingRows(summaries', sel)) \in Nat
  BY RowsType DEF SummariesOf
<1> QED
  BY <1>1, RowsSet DEF ListsOK

\* The same for the connections.
LEMMA ReadLogs ==
  ASSUME ListsOK, log \in Seq(Connections), log' = log, NEW sel,
         ConnectionsOf(connections', log), SetRows(LogsRows(connections', sel)),
         UNCHANGED summaries
  PROVE  ListsOK'
<1>1. Len(LogsRows(connections', sel)) \in Nat
  BY RowsType DEF ConnectionsOf
<1> QED
  BY <1>1, RowsSet DEF ListsOK

\* A refresh keeps the lists what they are.
LEMMA RefreshLists ==
  ASSUME ListsOK, log \in Seq(Connections), log' = log,
         NEW m, NEW f, NEW sel, NEW blk, RefreshData(m, f, sel, blk)
  PROVE  ListsOK'
<1>1. CASE QueryFails
  BY <1>1 DEF QueryFails, listVars, ListsOK
<1>2. CASE ListAgain(m, f, sel, blk) /\ m = "listing"
  <2>1. SummariesOf(ListHASSHSummaries(log, blk, f))
    BY SummariesListed DEF ListHASSHSummaries, Latest
  <2> QED
    BY <1>2, <2>1, ReadListing DEF ListAgain
<1>3. CASE ListAgain(m, f, sel, blk) /\ m # "listing"
  <2>1. ConnectionsOf(ListConnections(log, f), log)
    BY ConnectionsListed DEF ListConnections
  <2> QED
    BY <1>3, <2>1, ReadLogs DEF ListAgain
<1> QED
  BY <1>1, <1>2, <1>3 DEF RefreshData

\* The keys that read the database again.
LEMMA RefreshTypes ==
  ASSUME TuiIInv, Refresh \/ SwitchView \/ CycleFilter \/ EndEdit
  PROVE  TuiIInv'
<1> USE DEF TuiIInv
<1>1. CASE Refresh
  <2>1. ListsOK' /\ log' = log
    BY <1>1, RefreshLists DEF Refresh, dbVars
  <2> QED
    BY <1>1, <2>1 DEF Refresh, dbVars, viewVars, jobVars, Modes, SelectionOK, Keys
<1>2. CASE SwitchView
  <2>1. ListsOK' /\ log' = log
    BY <1>2, RefreshLists DEF SwitchView, dbVars
  <2>2. Modes'
    BY <1>2 DEF SwitchView, jobVars, Modes, ToSet, Filters
  <2>3. SelectionOK'
    BY <1>2 DEF SwitchView, jobVars, SelectionOK, NoSelection
  <2> QED
    BY <2>1, <2>2, <2>3
<1>3. CASE CycleFilter
  <2>1. ListsOK' /\ log' = log
    BY <1>3, RefreshLists DEF CycleFilter, dbVars
  <2> QED
    BY <1>3, <2>1 DEF CycleFilter, dbVars, jobVars, Modes, SelectionOK, Keys
<1>4. CASE EndEdit
  <2>1. ListsOK' /\ log' = log
    BY <1>4, RefreshLists DEF EndEdit, dbVars
  <2>2. Modes' /\ SelectionOK'
    BY <1>4 DEF EndEdit, viewVars, Modes, SelectionOK, NoSelection
  <2> QED
    BY <2>1, <2>2
<1> QED
  BY <1>1, <1>2, <1>3, <1>4

\* An edit is made for fingerprints: in the logs view, those of recorded connections.
LEMMA EditTypes ==
  ASSUME TuiIInv, BeginEdit("b") \/ BeginEdit("u") \/ \E f \in todo : EditOne(f)
  PROVE  TuiIInv'
<1> USE DEF TuiIInv
<1>1. UNCHANGED <<log, viewVars, life, selected, listVars>>
  BY DEF BeginEdit, EditOne, dbVars
<1>2. todo' \subseteq Fingerprint /\ job' \in {"idle", "b", "u"}
  <2>1. CASE BeginEdit("b") \/ BeginEdit("u")
    <3>1. todo' = Targets /\ job' \in {"b", "u"}
      BY <2>1 DEF BeginEdit
    <3>2. \A i \in DOMAIN log : log[i].fp \in Fingerprint
      <4> TAKE i \in DOMAIN log
      <4>1. log[i] \in Connections
        OBVIOUS
      <4> QED
        BY <4>1 DEF Connections
    <3>3. Targets \subseteq Fingerprint
      BY <3>2 DEF Targets, SelectionOK, Keys
    <3> QED
      BY <3>1, <3>3
  <2>2. CASE \E f \in todo : EditOne(f)
    BY <2>2 DEF EditOne, SelectionOK, Modes
  <2> QED
    BY <2>1, <2>2
<1> QED
  BY <1>1, <1>2 DEF viewVars, listVars, Modes, SelectionOK, Keys, ListsOK

\* A search keeps the lists what they are.
LEMMA SearchTypes ==
  ASSUME TuiIInv, NEW v, PerformSearch(v)
  PROVE  TuiIInv'
<1> USE DEF TuiIInv
<1>1. UNCHANGED <<log, life, mode, filter, searchField, selected, job, todo>>
  BY DEF PerformSearch, dbVars, jobVars
<1>2. ListsOK'
  <2>1. CASE QueryFails
    BY <1>1, <2>1 DEF QueryFails, listVars, ListsOK
  <2>2. CASE ~QueryFails /\ mode = "listing"
    <3>1. SummariesOf(SearchHASSHSummaries(log, blockedSet, searchField, v))
      BY SummariesListed DEF SearchHASSHSummaries, Latest, Found
    <3> QED
      BY <1>1, <2>2, <3>1, ReadListing DEF PerformSearch
  <2>3. CASE ~QueryFails /\ mode # "listing"
    <3>1. ConnectionsOf(SearchConnections(log, searchField, v), log)
      BY ConnectionsListed DEF SearchConnections, Found
    <3> QED
      BY <1>1, <2>3, <3>1, ReadLogs DEF PerformSearch
  <2> QED
    BY <2>1, <2>2, <2>3
<1> QED
  BY <1>1, <1>2 DEF Modes, SelectionOK, Keys

\* The clamp puts the cursor on the table.
LEMMA Clamped ==
  ASSUME NEW n \in Int, NEW size \in Nat
  PROVE  Clamp(n, size - 1) \in -1..(size - 1)
  BY DEF Clamp, AtMost

\* The keys of the table itself.
LEMMA TableTypes ==
  ASSUME TuiIInv,
         ToggleSelection \/ TogglePanics \/ MoveCursor \/ ClearSelection
  PROVE  TuiIInv'
<1> USE DEF TuiIInv
<1>1. CASE ToggleSelection
  <2>1. UNCHANGED <<log, life, mode, filter, searchField, summaries, connections, job, todo>>
    BY <1>1 DEF ToggleSelection, dbVars, viewVars, jobVars
  <2>2. cursor \in Int /\ Height \in Nat
    BY HeightAssumption DEF ListsOK, OnTable
  <2>3. CASE cursor < Len(List)
    <3>1. /\ selected' = Toggle(selected, KeyAt(cursor))
          /\ shown' = Rows(mode, summaries, connections, selected')
      BY <1>1, <2>3 DEF ToggleSelection, Rows
    <3>2. KeyAt(cursor) \in Keys
      <4>1. Len(List) \in Nat /\ cursor + 1 \in 1..Len(List)
        BY <1>1, <2>2, <2>3 DEF ToggleSelection, List, ListsOK, SummariesOf, ConnectionsOf
      <4> QED
        BY <4>1 DEF KeyAt, Keys, List, ListsOK, SummariesOf, ConnectionsOf
    <3>3. SelectionOK'
      BY <2>1, <3>1, <3>2 DEF SelectionOK, Toggle, Keys
    <3>4. Len(shown') \in Nat
      BY <3>1, RowsType DEF Rows, ListsOK, SummariesOf, ConnectionsOf
    <3>5. OnTable(cursor', shown')
      <4>1. cursor + Height \in Int /\ cursor' = Clamp(cursor + Height, Len(shown') - 1)
        BY <1>1, <2>2 DEF ToggleSelection
      <4> QED
        BY <3>4, <4>1, Clamped DEF OnTable
    <3> QED
      BY <2>1, <3>3, <3>5 DEF Modes, ListsOK
  <2>4. CASE ~(cursor < Len(List))
    <3>1. UNCHANGED <<selected, shown>>
      BY <1>1, <2>4 DEF ToggleSelection
    <3>2. OnTable(cursor', shown')
      <4>1. cursor + Height \in Int /\ cursor' = Clamp(cursor + Height, Len(shown) - 1)
        BY <1>1, <2>2, <3>1 DEF ToggleSelection
      <4> QED
        BY <3>1, <4>1, Clamped DEF OnTable, ListsOK
    <3> QED
      BY <2>1, <3>1, <3>2 DEF Modes, ListsOK, SelectionOK, Keys
  <2> QED
    BY <2>3, <2>4
<1>2. CASE TogglePanics
  BY <1>2 DEF TogglePanics, dbVars, viewVars, listVars, jobVars, Modes, ListsOK, SelectionOK, Keys
<1>3. CASE MoveCursor
  <2>1. OnTable(cursor', shown')
    <3>1. PICK n \in -1..MaxLog : cursor' = Clamp(n, Len(shown) - 1)
      BY <1>3 DEF MoveCursor
    <3>2. n \in Int
      BY HeightAssumption
    <3> QED
      BY <1>3, <3>1, <3>2, Clamped DEF MoveCursor, OnTable, ListsOK
  <2> QED
    BY <1>3, <2>1 DEF MoveCursor, dbVars, viewVars, jobVars, Modes, ListsOK, SelectionOK, Keys
<1>4. CASE ClearSelection
  <2>1. /\ UNCHANGED <<log, life, mode, filter, searchField, summaries, connections, job, todo>>
        /\ selected' = NoSelection
        /\ SetRows(Rows(mode, summaries, connections, NoSelection))
    BY <1>4 DEF ClearSelection, UpdateTable, Rows, dbVars, viewVars, jobVars
  <2>2. Len(Rows(mode, summaries, connections, NoSelection)) \in Nat
    BY RowsType DEF Rows, ListsOK, SummariesOf, ConnectionsOf
  <2>3. OnTable(cursor', shown')
    BY <2>1, <2>2, RowsSet DEF ListsOK
  <2> QED
    BY <2>1, <2>3 DEF Modes, ListsOK, SelectionOK, NoSelection
<1> QED
  BY <1>1, <1>2, <1>3, <1>4

\* A connection more: the ids of the others remain.
LEMMA RecordedTypes ==
  ASSUME TuiIInv, NEW c \in Connections, ConnectionRecorded(c)
  PROVE  TuiIInv'
<1> USE DEF TuiIInv
<1>1. /\ log' = Append(log, c)
      /\ UNCHANGED <<life, mode, filter, searchField, selected, job, todo,
                     summaries, connections, shown, cursor>>
  BY DEF ConnectionRecorded, viewVars, listVars, jobVars
<1>2. log' \in Seq(Connections) /\ DOMAIN log \subseteq DOMAIN log'
  BY <1>1
<1> QED
  BY <1>1, <1>2 DEF Modes, SelectionOK, Keys, ListsOK, ConnectionsOf

\* The invariant survives every step.
LEMMA TuiStep ==
  ASSUME TuiIInv, [TuiNext]_tuiVars
  PROVE  TuiIInv'
<1> USE DEF TuiIInv
<1>1. CASE StartSearch \/ Quit \/ LeaveSearch
  BY <1>1 DEF StartSearch, Quit, LeaveSearch, dbVars, viewVars, listVars, jobVars, Modes,
              SelectionOK, Keys, ListsOK
<1>2. CASE CycleSearchField
  BY <1>2 DEF CycleSearchField, dbVars, listVars, jobVars, Modes, SelectionOK, Keys, ListsOK
<1>3. CASE \E f \in Fingerprint : OthersEdit(f)
  BY <1>3 DEF OthersEdit, viewVars, listVars, Modes, SelectionOK, Keys, ListsOK
<1>4. CASE UNCHANGED tuiVars
  BY <1>4 DEF tuiVars, dbVars, viewVars, listVars, jobVars, Modes, SelectionOK, Keys, ListsOK
<1> QED
  BY <1>1, <1>2, <1>3, <1>4, RefreshTypes, EditTypes, SearchTypes, TableTypes,
     RecordedTypes DEF TuiNext, Over

\* The lists of a model that has just started, over whatever connections there are.
LEMMA TuiStarts ==
  ASSUME TuiInit
  PROVE  TuiIInv
<1>1. log \in Seq(Connections)
  <2>1. PICK n \in 0..MaxLog : log \in [1..n -> Connections]
    BY DEF TuiInit
  <2> QED
    BY <2>1, HeightAssumption
<1>2. Modes /\ SelectionOK
  BY DEF TuiInit, Modes, SelectionOK, NoSelection, Keys, ToSet, Filters
<1>3. ListsOK
  <2>1. ConnectionsOf(connections, log)
    BY DEF TuiInit, ConnectionsOf
  <2>2. CASE summaries = <<>> /\ shown = <<>> /\ cursor = 0
    BY <2>1, <2>2 DEF ListsOK, SummariesOf, OnTable
  <2>3. CASE /\ summaries = ListHASSHSummaries(log, blockedSet, "all")
             /\ shown = ListingRows(summaries, NoSelection)
             /\ cursor = AtMost(0, Len(shown) - 1)
    <3>1. SummariesOf(summaries)
      BY <1>1, <2>3, SummariesListed DEF ListHASSHSummaries, Latest
    <3>2. Len(shown) \in Nat
      BY <2>3, <3>1, RowsType DEF SummariesOf
    <3> QED
      BY <2>1, <2>3, <3>1, <3>2 DEF ListsOK, OnTable, AtMost
  <2> QED
    BY <2>2, <2>3 DEF TuiInit
<1> QED
  BY <1>1, <1>2, <1>3 DEF TuiIInv

\* Types, whether the first query succeeds or fails: the selection holds keys of the view
\* it was made in, the cursor is on the table and only fingerprints are edited, for any
\* number of fingerprints, connections and rows and any limit.
THEOREM TuiTypeCorrect == TuiSpec => []TuiTypeOK
<1>1. TuiIInv => TuiTypeOK
  BY DEF TuiIInv, TuiTypeOK, Modes, SelectionOK, ListsOK, OnTable
<1> QED
  BY <1>1, TuiStarts, TuiStep, PTL DEF TuiSpec

-----------------------------------------------------------------------------
(***************************************************************************)
(* Edits                                                                   *)
(***************************************************************************)

\* What the operator has marked on the screen is what the map of selections holds.
ChoiceOK ==
  /\ selected \in [DOMAIN selected -> BOOLEAN]
  /\ chosen = {k \in DOMAIN selected : selected[k]}

\* An edit under way: it goes through marked fingerprints, has changed nothing else, and
\* has neither lost nor, while it has not failed, missed one of those on the screen.
JobOK ==
  job # "idle" =>
    /\ todo \subseteq press.chosen
    /\ \A f \in (blockedSet \cup press.blocked) \ others :
         (f \in blockedSet <=> f \in press.blocked) \/ f \in press.chosen
    /\ ~failed => \A f \in press.marked \ others :
                    f \in todo \/ (f \in blockedSet <=> job = "b")

EditIInv == TuiIInv /\ ShownIsActedOn /\ ChoiceOK /\ JobOK

\* The space bar marks on the screen what it marks in the map.
LEMMA ToggleChooses ==
  ASSUME TuiIInv, ChoiceOK, ToggleSelection
  PROVE  ChoiceOK'
<1>1. CASE ~(cursor < Len(List))
  BY <1>1 DEF ToggleSelection, ChoiceOK
<1>2. CASE cursor < Len(List)
  <2> DEFINE key == KeyAt(cursor)
  <2>1. /\ selected' = Toggle(selected, key)
        /\ shown' = Rows(mode, summaries, connections, selected')
        /\ Choose(shown'[cursor + 1])
    BY <1>2 DEF ToggleSelection, Rows
  <2>2. cursor + 1 \in 1..Len(List)
    BY <1>2 DEF ToggleSelection, TuiIInv, ListsOK, OnTable, List, SummariesOf, ConnectionsOf
  <2>3. shown'[cursor + 1].key = key /\ shown'[cursor + 1].mark = Marked(selected', key)
    BY <2>1, <2>2 DEF Rows, ListingRows, LogsRows, List, KeyAt
  <2> HIDE DEF key
  <2>4. /\ selected' \in [DOMAIN selected' -> BOOLEAN]
        /\ DOMAIN selected' = DOMAIN selected \cup {key}
        /\ \A x \in DOMAIN selected' : selected'[x] = IF x = key THEN ~Marked(selected, key)
                                                     ELSE selected[x]
    BY <2>1 DEF Toggle, ChoiceOK, Marked
  <2>5. chosen' = IF selected'[key] THEN chosen \cup {key} ELSE chosen \ {key}
    BY <2>1, <2>3, <2>4 DEF Choose, Marked
  <2> QED
    BY <2>4, <2>5 DEF ChoiceOK
<1> QED
  BY <1>1, <1>2

\* The operator's choice survives every step.
LEMMA ChoiceStep ==
  ASSUME TuiIInv, ChoiceOK, [TuiNext]_tuiVars
  PROVE  ChoiceOK'
<1>1. CASE ToggleSelection
  BY <1>1, ToggleChooses
<1>2. CASE SwitchView \/ ClearSelection \/ EndEdit
  <2>1. selected' = NoSelection /\ chosen' = {}
    BY <1>2 DEF SwitchView, ClearSelection, EndEdit
  <2> QED
    BY <2>1 DEF ChoiceOK, NoSelection
<1>3. CASE UNCHANGED <<selected, chosen>>
  BY <1>3 DEF ChoiceOK
<1> QED
  BY <1>1, <1>2, <1>3
     DEF TuiNext, tuiVars, Refresh, CycleFilter, TogglePanics, MoveCursor, StartSearch,
         Quit, BeginEdit, EditOne, LeaveSearch, CycleSearchField, PerformSearch,
         ConnectionRecorded, OthersEdit, Over

\* The edit of a key is made for all that is marked on the screen, and for nothing that
\* the operator has not marked.
LEMMA EditBegins ==
  ASSUME TuiIInv, ShownIsActedOn, ChoiceOK, NEW k, BeginEdit(k)
  PROVE  JobOK'
<1>1. /\ job' = k /\ todo' = Targets /\ others' = {} /\ blockedSet' = blockedSet
      /\ press'.chosen = {FingerprintOf(x) : x \in chosen}
      /\ press'.marked = IF stale THEN {} ELSE {FingerprintOf(x) : x \in MarkedOnScreen}
      /\ press'.blocked = blockedSet
  BY DEF BeginEdit, dbVars
<1>2. Targets \subseteq {FingerprintOf(x) : x \in chosen}
  BY DEF Targets, FingerprintOf, ChoiceOK
<1>3. press'.marked \subseteq Targets
  <2>1. SUFFICES ASSUME ~stale, NEW x \in MarkedOnScreen
                 PROVE  FingerprintOf(x) \in Targets
    BY <1>1
  <2>2. PICK n \in DOMAIN shown : shown[n].mark /\ shown[n].key = x
    BY <2>1 DEF MarkedOnScreen
  <2>3. CASE mode = "listing"
    <3>1. shown = ListingRows(summaries, selected)
      BY <2>1, <2>3 DEF ShownIsActedOn
    <3>2. Marked(selected, x)
      BY <2>2, <3>1 DEF ListingRows
    <3> QED
      BY <2>3, <3>2 DEF Marked, Targets, FingerprintOf
  <2>4. CASE mode # "listing"
    <3>1. shown = LogsRows(connections, selected)
      BY <2>1, <2>4 DEF ShownIsActedOn
    <3>2. Marked(selected, x) /\ x = connections[n] /\ n \in 1..Len(connections)
      BY <2>2, <3>1 DEF LogsRows
    <3>3. x \in ToSet(connections)
      BY <3>2 DEF ToSet
    <3> QED
      BY <2>4, <3>2, <3>3 DEF Marked, Targets, FingerprintOf
  <2> QED
    BY <2>3, <2>4
<1> QED
  BY <1>1, <1>2, <1>3 DEF JobOK

\* One transaction of an edit, and what others do between two of them.
LEMMA EditGoesOn ==
  ASSUME TuiIInv, JobOK,
         \/ \E f \in todo : EditOne(f)
         \/ \E f \in Fingerprint : OthersEdit(f)
  PROVE  JobOK'
<1>1. ASSUME NEW f \in todo, EditOne(f)
      PROVE  JobOK'
  <2>1. /\ job # "idle" /\ job' = job /\ press' = press /\ others' = others
        /\ todo' = todo \ {f}
    BY <1>1 DEF EditOne
  <2>2. job \in {"b", "u"} /\ f \in press.chosen
    BY <1>1, <2>1 DEF TuiIInv, Modes, JobOK
  <2>3. CASE blockedSet' = (IF job = "b" THEN blockedSet \cup {f} ELSE blockedSet \ {f})
             /\ failed' = failed
    BY <2>1, <2>2, <2>3 DEF JobOK
  <2>4. CASE failed' = TRUE /\ blockedSet' = blockedSet
    BY <2>1, <2>4 DEF JobOK
  <2> QED
    BY <1>1, <2>3, <2>4 DEF EditOne
<1>2. ASSUME NEW f \in Fingerprint, OthersEdit(f)
      PROVE  JobOK'
  <2>1. /\ job' = job /\ press' = press /\ todo' = todo /\ failed' = failed
        /\ job # "idle" => others' = others \cup {f}
        /\ blockedSet' \in {blockedSet \cup {f}, blockedSet \ {f}}
    BY <1>2 DEF OthersEdit
  <2> QED
    BY <2>1 DEF JobOK
<1> QED
  BY <1>1, <1>2

\* All of it survives every step.
LEMMA EditStep ==
  ASSUME EditIInv, [TuiNext]_tuiVars
  PROVE  EditIInv'
<1>1. TuiIInv' /\ ShownIsActedOn' /\ ChoiceOK'
  BY TuiStep, ShownStep, ChoiceStep DEF EditIInv
<1>2. JobOK'
  <2>1. CASE BeginEdit("b") \/ BeginEdit("u")
    BY <2>1, EditBegins DEF EditIInv
  <2>2. CASE (\E f \in todo : EditOne(f)) \/ (\E f \in Fingerprint : OthersEdit(f))
    BY <2>2, EditGoesOn DEF EditIInv
  <2>3. CASE EndEdit
    BY <2>3 DEF EndEdit, JobOK
  <2>4. CASE UNCHANGED <<blockedSet, jobVars>>
    BY <2>4 DEF EditIInv, JobOK, jobVars
  <2> QED
    BY <2>1, <2>2, <2>3, <2>4
       DEF TuiNext, tuiVars, dbVars, Refresh, SwitchView, CycleFilter, ToggleSelection,
           TogglePanics, MoveCursor, ClearSelection, StartSearch, Quit, LeaveSearch,
           CycleSearchField, PerformSearch, ConnectionRecorded, Over
<1> QED
  BY <1>1, <1>2 DEF EditIInv

\* The keys b and u edit nothing but what the operator has marked, and all that was
\* marked on the screen unless they report an error, with others editing between their
\* transactions and for selections, lists and tables of any size.
THEOREM EditsAlwaysChosen == TuiSpec => EditsAreChosen
<1> DEFINE Step ==
      job # "idle" /\ job' = "idle" =>
        /\ \A f \in (blockedSet \cup press.blocked) \ others :
             (f \in blockedSet <=> f \in press.blocked) \/ f \in press.chosen
        /\ ~failed => \A f \in press.marked \ others : f \in blockedSet <=> job = "b"
<1>1. TuiInit => EditIInv
  <2> SUFFICES ASSUME TuiInit
               PROVE  EditIInv
    OBVIOUS
  <2>1. ChoiceOK /\ JobOK
    BY DEF TuiInit, ChoiceOK, JobOK, NoSelection
  <2> QED
    BY <2>1, ShownStarts, TuiStarts DEF EditIInv
<1>2. EditIInv /\ [TuiNext]_tuiVars => EditIInv'
  BY EditStep
<1>3. EditIInv /\ [TuiNext]_tuiVars => [Step]_tuiVars
  <2> SUFFICES ASSUME JobOK, TuiNext, job # "idle", job' = "idle"
               PROVE  Step
    BY DEF EditIInv
  <2>1. EndEdit
    BY DEF TuiNext, Refresh, SwitchView, CycleFilter, ToggleSelection, TogglePanics,
           MoveCursor, ClearSelection, StartSearch, Quit, BeginEdit, EditOne, LeaveSearch,
           CycleSearchField, PerformSearch, ConnectionRecorded, OthersEdit, Over, Normal,
           Searching, Idle, jobVars, tuiVars
  <2>2. todo = {}
    BY <2>1 DEF EndEdit
  <2> QED
    BY <2>2 DEF JobOK
<1> QED
  BY <1>1, <1>2, <1>3, PTL DEF TuiSpec, EditsAreChosen
=============================================================================
