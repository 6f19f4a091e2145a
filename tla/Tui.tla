--------------------------------- MODULE Tui --------------------------------
(***************************************************************************)
(* The terminal interface of sshctl: one model that bubbletea hands keys   *)
(* and ticks to, one at a time, beside a proxy that records connections    *)
(* and other operators that block and unblock. A handler is one step, but  *)
(* for that of the keys b and u: it edits one fingerprint after the other, *)
(* each in a transaction of its own that the others may come between.      *)
(***************************************************************************)
EXTENDS Queries, Integers, FiniteSets

CONSTANTS
  Address,      \* records of the bytes and the text of an address
  Fingerprint,
  Banner,
  Height,       \* the rows of a page of the table
  MaxLog        \* bound: connections recorded

ASSUME HeightAssumption == Height \in Nat \ {0} /\ MaxLog \in Nat

Connections == [ip : Address, fp : Fingerprint, banner : Banner, blocked : BOOLEAN]
Queried == [ip : Address, fp : Fingerprint, banner : Banner]

VARIABLES
  log, blockedSet,  \* the database
  life,             \* "runs", "quit" or "panicked"
  mode, filter, searchMode, searchField,
  selected,         \* the map of selections: from keys to BOOLEAN
  summaries, connections,
  shown,            \* the rows of the table: key and mark
  cursor,           \* of the table, counted from 0
  err,              \* whether a query has failed; never reset, and on the screen
  job,              \* the key whose edits are being made: "b", "u", or "idle"
  todo, failed,     \* the fingerprints left of it, and whether an edit has failed: the
                    \* report at its end names the errors, if there are any
  \* history
  stale,            \* the table has not been drawn since the view or the selection changed
  chosen,           \* the keys whose row the operator has marked on the screen
  press,            \* when the key b or u was pressed: chosen and marked fingerprints,
                    \* and those that were blocked
  others            \* the fingerprints that others have edited since

dbVars == <<log, blockedSet>>
viewVars == <<mode, filter, searchMode, searchField>>
listVars == <<summaries, connections, shown, cursor>>
jobVars == <<job, todo, failed, press, others>>
tuiVars == <<dbVars, life, viewVars, selected, listVars, err, jobVars, stale, chosen>>

NoSelection == [k \in {} |-> FALSE]
Marked(sel, k) == k \in DOMAIN sel /\ sel[k]

\* updateListingTable and updateLogsTable.
ListingRows(list, sel) ==
  [n \in 1..Len(list) |-> [key |-> list[n].fp, mark |-> Marked(sel, list[n].fp)]]
LogsRows(list, sel) ==
  [n \in 1..Len(list) |-> [key |-> list[n], mark |-> Marked(sel, list[n])]]

\* table.SetRows moves the cursor of a table that got shorter to its last row: -1 if
\* there is none.
AtMost(n, last) == IF n > last THEN last ELSE n
SetRows(rows) ==
  /\ shown' = rows
  /\ cursor' = AtMost(cursor, Len(rows) - 1)

\* The table's clamp of a cursor to 0..last, which is -1 for an empty table.
Clamp(n, last) == AtMost(IF n < 0 THEN 0 ELSE n, last)

NoPress == [chosen |-> {}, marked |-> {}, blocked |-> {}]

\* newModel over a database that others have filled. If its query fails the table has
\* no rows set, and its cursor is still that of a new one.
TuiInit ==
  /\ log \in UNION {[1..n -> Connections] : n \in 0..MaxLog}
  /\ blockedSet \in SUBSET Fingerprint
  /\ life = "runs"
  /\ mode = "listing" /\ filter = "all" /\ searchMode = FALSE /\ searchField = "hassh"
  /\ selected = NoSelection
  /\ connections = <<>>
  /\ \/ /\ summaries = ListHASSHSummaries(log, blockedSet, "all")
        /\ shown = ListingRows(summaries, NoSelection)
        /\ cursor = AtMost(0, Len(shown) - 1)
        /\ err = FALSE
     \/ /\ summaries = <<>> /\ shown = <<>>
        /\ cursor = 0
        /\ err = TRUE
  /\ job = "idle" /\ todo = {} /\ failed = FALSE
  /\ stale = FALSE /\ chosen = {} /\ press = NoPress /\ others = {}

-----------------------------------------------------------------------------
(***************************************************************************)
(* refreshData, of the given view, filter, selection and database          *)
(***************************************************************************)

QueryFails == err' = TRUE /\ UNCHANGED listVars

ListAgain(m, f, sel, blk) ==
  /\ IF m = "listing"
     THEN /\ summaries' = ListHASSHSummaries(log, blk, f)
          /\ SetRows(ListingRows(summaries', sel))
          /\ UNCHANGED connections
     ELSE /\ connections' = ListConnections(log, f)
          /\ SetRows(LogsRows(connections', sel))
          /\ UNCHANGED summaries
  /\ stale' = FALSE
  /\ UNCHANGED err

RefreshData(m, f, sel, blk) ==
  \/ QueryFails /\ stale' = (stale \/ m # mode \/ sel # selected)
  \/ ListAgain(m, f, sel, blk)

\* The rows again, of the lists as they are.
UpdateTable(sel) ==
  /\ SetRows(IF mode = "listing" THEN ListingRows(summaries, sel)
             ELSE LogsRows(connections, sel))
  /\ stale' = FALSE
  /\ UNCHANGED <<summaries, connections>>

-----------------------------------------------------------------------------
(***************************************************************************)
(* Update and handleNormalKeys                                             *)
(***************************************************************************)

Idle == life = "runs" /\ job = "idle"
Normal == Idle /\ ~searchMode

\* tickMsg, in either mode, and the key r.
Refresh ==
  /\ Idle
  /\ RefreshData(mode, filter, selected, blockedSet)
  /\ UNCHANGED <<dbVars, life, viewVars, selected, jobVars, chosen>>

\* Fault: the selection survives a change of the view.
SwitchViewSelected ==
  /\ Normal
  /\ mode' = IF mode = "listing" THEN "logs" ELSE "listing"
  /\ searchField' = IF mode' = "listing" THEN "hassh" ELSE "ip"
  /\ filter' = "all"
  /\ chosen' = {}
  /\ RefreshData(mode', "all", selected, blockedSet)
  /\ UNCHANGED <<dbVars, life, searchMode, selected, jobVars>>

SwitchView ==
  /\ Normal
  /\ mode' = IF mode = "listing" THEN "logs" ELSE "listing"
  /\ searchField' = IF mode' = "listing" THEN "hassh" ELSE "ip"
  /\ filter' = "all"
  /\ selected' = NoSelection /\ chosen' = {}
  /\ RefreshData(mode', "all", NoSelection, blockedSet)
  /\ UNCHANGED <<dbVars, life, searchMode, jobVars>>

\* tab and shift+tab.
CycleFilter ==
  /\ Normal
  /\ filter' \in ToSet(Filters) \ {filter}
  /\ RefreshData(mode, filter', selected, blockedSet)
  /\ UNCHANGED <<dbVars, life, mode, searchMode, searchField, selected, jobVars, chosen>>

List == IF mode = "listing" THEN summaries ELSE connections
KeyAt(n) == IF mode = "listing" THEN summaries[n + 1].fp ELSE connections[n + 1]

Toggle(sel, k) ==
  [x \in DOMAIN sel \cup {k} |-> IF x = k THEN ~Marked(sel, k) ELSE sel[x]]

\* What the operator sees of the row under the cursor: marked or no longer marked.
Choose(row) ==
  chosen' = IF row.mark THEN chosen \cup {row.key} ELSE chosen \ {row.key}

\* The space bar toggles and is then, by table.Update, a page down as well. The guard
\* compares the cursor with the length of the list only.
ToggleSelection ==
  /\ Normal
  /\ cursor >= 0
  /\ IF cursor < Len(List)
     THEN /\ selected' = Toggle(selected, KeyAt(cursor))
          /\ shown' = IF mode = "listing" THEN ListingRows(summaries, selected')
                      ELSE LogsRows(connections, selected')
          /\ stale' = FALSE
          /\ Choose(shown'[cursor + 1])
     ELSE UNCHANGED <<selected, shown, stale, chosen>>
  /\ cursor' = Clamp(cursor + Height, Len(shown') - 1)
  /\ UNCHANGED <<dbVars, life, viewVars, summaries, connections, err, jobVars>>

\* summaries[-1], connections[-1]: an index out of range.
TogglePanics ==
  /\ Normal
  /\ cursor < 0
  /\ life' = "panicked"
  /\ UNCHANGED <<dbVars, viewVars, selected, listVars, err, jobVars, stale, chosen>>

\* The keys that only the table handles.
MoveCursor ==
  /\ Normal
  /\ \E n \in -1..MaxLog : cursor' = Clamp(n, Len(shown) - 1)
  /\ UNCHANGED <<dbVars, life, viewVars, selected, summaries, connections, shown, err,
                 jobVars, stale, chosen>>

\* Fault: the rows keep their marks.
ClearSelectionUnseen ==
  /\ Normal
  /\ selected' = NoSelection /\ chosen' = {}
  /\ UNCHANGED <<dbVars, life, viewVars, listVars, err, jobVars, stale>>

ClearSelection ==
  /\ Normal
  /\ selected' = NoSelection /\ chosen' = {}
  /\ UpdateTable(NoSelection)
  /\ UNCHANGED <<dbVars, life, viewVars, err, jobVars>>

StartSearch ==
  /\ Normal
  /\ searchMode' = TRUE
  /\ UNCHANGED <<dbVars, life, mode, filter, searchField, selected, listVars, err, jobVars,
                 stale, chosen>>

Quit ==
  /\ Normal
  /\ life' = "quit"
  /\ UNCHANGED <<dbVars, viewVars, selected, listVars, err, jobVars, stale, chosen>>

-----------------------------------------------------------------------------
(***************************************************************************)
(* blockSelected, unblockSelected and the same from the logs               *)
(***************************************************************************)

\* Fault: a key that was selected and deselected still counts.
TargetsOfKeys ==
  IF mode = "listing" THEN DOMAIN selected
  ELSE {log[i].fp : i \in {n \in DOMAIN selected : n \in ToSet(connections)}}

\* The fingerprints blockSelected and blockSelectedFromLogs go through: in the logs
\* view, of the selected connections those still in the list.
Targets ==
  LET marked == {k \in DOMAIN selected : selected[k]}
  IN  IF mode = "listing" THEN marked
      ELSE {log[i].fp : i \in {n \in marked : n \in ToSet(connections)}}

\* What the row of a key shows as its fingerprint: no connection changes its own.
FingerprintOf(k) == IF mode = "listing" THEN k ELSE log[k].fp
MarkedOnScreen == {shown[n].key : n \in {m \in DOMAIN shown : shown[m].mark}}

\* The keys b and u, which only write a message when nothing is selected. From here to
\* EndEdit no other key and no tick is handled.
BeginEdit(k) ==
  /\ Normal
  /\ DOMAIN selected # {}
  /\ job' = k /\ todo' = Targets /\ failed' = FALSE
  /\ press' = [chosen |-> {FingerprintOf(x) : x \in chosen},
               marked |-> IF stale THEN {} ELSE {FingerprintOf(x) : x \in MarkedOnScreen},
               blocked |-> blockedSet]
  /\ others' = {}
  /\ UNCHANGED <<dbVars, life, viewVars, selected, listVars, err, stale, chosen>>

\* One transaction, BlockHASH or UnblockHASH: made or failed.
EditOne(f) ==
  /\ life = "runs" /\ job # "idle"
  /\ todo' = todo \ {f}
  /\ \/ /\ blockedSet' = IF job = "b" THEN blockedSet \cup {f} ELSE blockedSet \ {f}
        /\ UNCHANGED failed
     \/ failed' = TRUE /\ UNCHANGED blockedSet
  /\ UNCHANGED <<log, life, viewVars, selected, listVars, err, job, press, others,
                 stale, chosen>>

\* The selection is emptied whether the edits were made or not.
EndEdit ==
  /\ life = "runs" /\ job # "idle" /\ todo = {}
  /\ selected' = NoSelection /\ chosen' = {}
  /\ RefreshData(mode, filter, NoSelection, blockedSet)
  /\ job' = "idle" /\ failed' = FALSE /\ press' = NoPress /\ others' = {}
  /\ UNCHANGED <<dbVars, life, viewVars, todo>>

-----------------------------------------------------------------------------
(***************************************************************************)
(* handleSearchKeys and performSearch                                      *)
(***************************************************************************)

Searching == Idle /\ searchMode

\* Escape, or Enter on an empty query.
LeaveSearch ==
  /\ Searching
  /\ searchMode' = FALSE
  /\ UNCHANGED <<dbVars, life, mode, filter, searchField, selected, listVars, err, jobVars,
                 stale, chosen>>

CycleSearchField ==
  /\ Searching
  /\ searchField' =
       CASE searchField = "hassh" -> "banner"
         [] searchField = "banner" -> IF mode = "listing" THEN "hassh" ELSE "ip"
         [] searchField = "ip" -> "hassh"
  /\ UNCHANGED <<dbVars, life, mode, filter, searchMode, selected, listVars, err, jobVars,
                 stale, chosen>>

PerformSearch(value) ==
  /\ Searching
  /\ searchMode' = FALSE
  /\ \/ QueryFails /\ UNCHANGED stale
     \/ /\ IF mode = "listing"
           THEN /\ summaries' = SearchHASSHSummaries(log, blockedSet, searchField, value)
                /\ SetRows(ListingRows(summaries', selected))
                /\ UNCHANGED connections
           ELSE /\ connections' = SearchConnections(log, searchField, value)
                /\ SetRows(LogsRows(connections', selected))
                /\ UNCHANGED summaries
        /\ stale' = FALSE
        /\ UNCHANGED err
  /\ UNCHANGED <<dbVars, life, mode, filter, searchField, selected, jobVars, chosen>>

-----------------------------------------------------------------------------
(***************************************************************************)
(* The others at the database                                              *)
(***************************************************************************)

ConnectionRecorded(c) ==
  /\ life = "runs" /\ Len(log) < MaxLog
  /\ log' = Append(log, c)
  /\ UNCHANGED <<blockedSet, life, viewVars, selected, listVars, err, jobVars, stale,
                 chosen>>

OthersEdit(f) ==
  /\ life = "runs"
  /\ blockedSet' \in {blockedSet \cup {f}, blockedSet \ {f}}
  /\ others' = IF job = "idle" THEN others ELSE others \cup {f}
  /\ UNCHANGED <<log, life, viewVars, selected, listVars, err, job, todo, failed,
                 press, stale, chosen>>

Over == life # "runs" /\ UNCHANGED tuiVars

TuiNext ==
  \/ Refresh \/ SwitchView \/ CycleFilter \/ ToggleSelection \/ TogglePanics
  \/ MoveCursor \/ ClearSelection \/ StartSearch \/ Quit
  \/ BeginEdit("b") \/ BeginEdit("u")
  \/ (\E f \in todo : EditOne(f)) \/ EndEdit
  \/ LeaveSearch \/ CycleSearchField \/ \E v \in Queried : PerformSearch(v)
  \/ (\E c \in Connections : ConnectionRecorded(c))
  \/ (\E f \in Fingerprint : OthersEdit(f))
  \/ Over

TuiSpec == TuiInit /\ [][TuiNext]_tuiVars

-----------------------------------------------------------------------------
(***************************************************************************)
(* Properties                                                              *)
(***************************************************************************)

Keys == IF mode = "listing" THEN Fingerprint ELSE DOMAIN log

\* Types; the selection holds keys of the view it was made in, so that an edit never
\* takes the number of a connection for a fingerprint; the field of a search is one of
\* the view's; and the cursor is on a row or at -1, unless no rows have ever been set.
TuiTypeOK ==
  /\ life \in {"runs", "quit", "panicked"}
  /\ mode \in {"listing", "logs"}
  /\ filter \in ToSet(Filters)
  /\ searchField \in {"hassh", "banner"} \/ (mode = "logs" /\ searchField = "ip")
  /\ DOMAIN selected \subseteq Keys
  /\ cursor \in -1..(Len(shown) - 1) \/ (cursor = 0 /\ shown = <<>>)
  /\ job \in {"idle", "b", "u"}
  /\ todo \subseteq Fingerprint

\* The table shows the list the keys act on, row by row, with the marks of the
\* selection: what the operator toggles, blocks or unblocks is what is on the screen,
\* whatever ticks, searches, failed queries and edits came between. The one exception
\* is a table that could not be drawn again when the view was switched or an edit had
\* emptied the selection, and then an error is on the screen.
ShownIsActedOn ==
  /\ stale \/ shown = (IF mode = "listing" THEN ListingRows(summaries, selected)
                       ELSE LogsRows(connections, selected))
  /\ stale => err

\* An edit touches no fingerprint but those whose rows the operator has marked since
\* the selection was last emptied, in whatever view and list, and never a number of a
\* connection; and if it reports no error, every fingerprint that was marked on the
\* screen when the key was pressed is now blocked, or unblocked. What others have
\* edited meanwhile is their own.
EditsAreChosen ==
  [][job # "idle" /\ job' = "idle" =>
       /\ \A f \in (blockedSet \cup press.blocked) \ others :
            (f \in blockedSet <=> f \in press.blocked) \/ f \in press.chosen
       /\ ~failed =>
            \A f \in press.marked \ others : f \in blockedSet <=> job = "b"]_tuiVars

\* "Extract unique HASSH fingerprints from selected connections": in the logs view,
\* too, a report without errors means that all that was chosen is blocked.
SelectedAreBlocked ==
  [][job = "b" /\ job' = "idle" /\ ~failed =>
       press.chosen \ others \subseteq blockedSet]_tuiVars

=============================================================================
