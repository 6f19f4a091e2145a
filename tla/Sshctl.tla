------------------------------- MODULE Sshctl -------------------------------
(***************************************************************************)
(* Invocations of sshctl, each a process of its own: main opens the        *)
(* database before rootCmd.Execute has parsed the command line and before  *)
(* initConfig has read the environment and the configuration file. block   *)
(* and unblock edit one fingerprint after the other and stop at the first  *)
(* failure; list and log ask one query, stats five. The proxy records      *)
(* connections meanwhile. An edit is one step, as module Registry allows.  *)
(***************************************************************************)
EXTENDS Queries, Integers

CONSTANTS
  Invocation,
  Fingerprint,
  Address,
  Banner,
  Database,   \* files that may hold a database
  Default,    \* ssh_connections.db
  Unnamed,    \* a place where no database is named
  Used,       \* the places where the operators name a database
  Reading,    \* the reading commands that the operators use
  MaxArgs,    \* bound: arguments of a command
  MaxLog      \* bound: connections recorded

ASSUME DatabaseAssumption == Default \in Database /\ Unnamed \notin Database
ASSUME FingerprintAssumption == IsFiniteSet(Fingerprint)
ASSUME BoundsAssumption == MaxArgs \in Nat /\ MaxLog \in Nat

Places == {"flag", "env", "config"}

ASSUME UsedAssumption == Used \subseteq Places

Arguments == UNION {[1..n -> Fingerprint] : n \in 1..MaxArgs}
Editing == [kind : {"block", "unblock"}, args : Arguments]

\* --state, --sort and --reverse; a state may be misspelled. Of the orders only that of
\* time is told apart.
Readings ==
  [kind : {"list", "log"}, args : {<<>>}, state : {"all", "allowed", "blocked", "other"},
   byTime : BOOLEAN, reverse : BOOLEAN]
    \cup [kind : {"stats"}, args : {<<>>}]

ASSUME ReadingAssumption == Reading \subseteq Readings

Commands == Editing \cup Reading
Naming == {n \in [Places -> Database \cup {Unnamed}] :
             \A p \in Places \ Used : n[p] = Unnamed}

Connections == [ip : Address, fp : Fingerprint, banner : Banner, blocked : BOOLEAN]

VARIABLES
  command,  \* the command of each invocation
  naming,   \* the database its flag, environment and configuration file name
  pc,       \* control state
  opened,   \* the database it has opened
  changed,  \* the arguments it has committed an edit for, in order
  said,     \* the arguments it has reported
  listed,   \* the rows it has read
  figures,  \* the statistics it has counted
  blocked,  \* the blocked fingerprints of each database
  rows,     \* the rows of the lookup tables of each database
  log       \* the connections in each database, oldest first

\* History: the true figures when an invocation began to count.
VARIABLE before

dataVars == <<blocked, rows, log>>
readVars == <<listed, figures, before>>
ctlVars == <<command, naming, pc, opened, changed, said, dataVars, readVars>>

States == {"start", "execute", "edit", "report", "query", "count", "exit0", "exit1"}

\* bound: a command that reads changes nothing for another one.
OneReader == \A i, j \in Invocation :
               command[i] \in Reading /\ command[j] \in Reading => i = j

CtlInit ==
  /\ command \in [Invocation -> Commands] /\ OneReader
  /\ naming \in [Invocation -> Naming]
  /\ pc = [i \in Invocation |-> "start"]
  /\ opened = [i \in Invocation |-> Unnamed]
  /\ changed = [i \in Invocation |-> <<>>]
  /\ said = [i \in Invocation |-> <<>>]
  /\ listed = [i \in Invocation |-> <<>>]
  /\ figures = [i \in Invocation |-> <<>>]
  /\ rows \in [Database -> [ip : {{}}, fp : SUBSET Fingerprint, banner : {{}}]]
  /\ blocked \in [Database -> SUBSET Fingerprint]
  /\ \A d \in Database : blocked[d] \subseteq rows[d].fp
  /\ log = [d \in Database |-> <<>>]
  /\ before = [i \in Invocation |-> <<>>]

Become(i, state) == pc' = [pc EXCEPT ![i] = state]

\* What viper answers for a key, of the places it knows about by now: the flag, the
\* environment, the configuration file, the flag's default.
Lookup(names, places) ==
  CASE "flag" \in places /\ names["flag"] # Unnamed -> names["flag"]
    [] "env" \in places /\ names["env"] # Unnamed -> names["env"]
    [] "config" \in places /\ names["config"] # Unnamed -> names["config"]
    [] OTHER -> Default

\* viper.GetString("db") and gorm.Open. No place has been looked at yet.
OpenDatabase(i) ==
  /\ pc[i] = "start"
  /\ opened' = [opened EXCEPT ![i] = Lookup(naming[i], {})]
  /\ Become(i, "execute")
  /\ UNCHANGED <<command, naming, changed, said, dataVars, readVars>>

\* The figures of GetStatistics.
Figures(d) ==
  <<Len(log[d]),
    Cardinality({n \in DOMAIN log[d] : log[d][n].blocked}),
    Cardinality(rows[d].ip),
    Cardinality(rows[d].fp),
    Cardinality(rows[d].banner)>>

\* rootCmd.Execute: the flags are parsed, initConfig runs, then RunE.
Execute(i) ==
  /\ pc[i] = "execute"
  /\ Become(i, CASE command[i].kind \in {"list", "log"} -> "query"
                 [] command[i].kind = "stats" -> "count"
                 [] OTHER -> "edit")
  /\ before' = IF command[i].kind = "stats"
               THEN [before EXCEPT ![i] = Figures(opened[i])] ELSE before
  /\ UNCHANGED <<command, naming, opened, changed, said, dataVars, listed, figures>>

-----------------------------------------------------------------------------
(***************************************************************************)
(* sshctl block and sshctl unblock                                         *)
(***************************************************************************)

Argument(i) == command[i].args[Len(said[i]) + 1]

AddFingerprint(d, f) == rows' = [rows EXCEPT ![d].fp = @ \cup {f}]

\* Fault: the condition of the DELETE is missing.
EditedWithoutWhere(kind, set, f) == IF kind = "block" THEN set \cup {f} ELSE {}

Edited(kind, set, f) == IF kind = "block" THEN set \cup {f} ELSE set \ {f}

\* repo.BlockHASH or repo.UnblockHASH, which knows only fingerprints with a row.
Edit(i) ==
  /\ pc[i] = "edit" /\ Len(said[i]) < Len(command[i].args)
  /\ command[i].kind = "unblock" => Argument(i) \in rows[opened[i]].fp
  /\ blocked' = [blocked EXCEPT ![opened[i]] = Edited(command[i].kind, @, Argument(i))]
  /\ AddFingerprint(opened[i], Argument(i))
  /\ changed' = [changed EXCEPT ![i] = Append(@, Argument(i))]
  /\ Become(i, "report")
  /\ UNCHANGED <<command, naming, opened, said, log, readVars>>

\* fmt.Printf("Blocked HASSH: ...").
Report(i) ==
  /\ pc[i] = "report"
  /\ said' = [said EXCEPT ![i] = Append(@, Argument(i))]
  /\ Become(i, "edit")
  /\ UNCHANGED <<command, naming, opened, changed, dataVars, readVars>>

\* Fault: the error of an edit is not looked at.
EditFailsUnseen(i) ==
  /\ pc[i] = "edit" /\ Len(said[i]) < Len(command[i].args)
  /\ Become(i, "report")
  /\ UNCHANGED rows \/ AddFingerprint(opened[i], Argument(i))
  /\ UNCHANGED <<command, naming, opened, changed, said, blocked, log, readVars>>

\* An unknown fingerprint or a failing storage. BlockHASH may have created the row of
\* the fingerprint, in a transaction of its own.
EditFails(i) ==
  /\ pc[i] = "edit" /\ Len(said[i]) < Len(command[i].args)
  /\ Become(i, "exit1")
  /\ \/ UNCHANGED rows
     \/ command[i].kind = "block" /\ AddFingerprint(opened[i], Argument(i))
  /\ UNCHANGED <<command, naming, opened, changed, said, blocked, log, readVars>>

Finish(i) ==
  /\ pc[i] = "edit" /\ Len(said[i]) = Len(command[i].args)
  /\ Become(i, "exit0")
  /\ UNCHANGED <<command, naming, opened, changed, said, dataVars, readVars>>

-----------------------------------------------------------------------------
(***************************************************************************)
(* sshctl list, sshctl log and sshctl stats                                *)
(***************************************************************************)

\* ListHASSHSummaries and ListConnections, with what the command was given.
Answers(c, connections, blk) ==
  IF c.kind = "log"
  THEN {[n \in DOMAIN ids |-> connections[ids[n]]] :
          ids \in Ordered({n \in DOMAIN connections : Passes(c.state, connections[n].blocked)},
                         c.byTime, c.reverse)}
  ELSE {[n \in DOMAIN ids |-> Summary(connections, blk, ids[n])] :
          ids \in Ordered({n \in Latest(connections, DOMAIN connections) :
                            Passes(c.state, connections[n].fp \in blk)},
                         c.byTime, c.reverse)}

\* One query and its table.
Query(i) ==
  /\ pc[i] = "query" /\ command[i].state # "other"
  /\ \E found \in Answers(command[i], log[opened[i]], blocked[opened[i]]) :
       listed' = [listed EXCEPT ![i] = found]
  /\ Become(i, "exit0")
  /\ UNCHANGED <<command, naming, opened, changed, said, dataVars, figures, before>>

\* An invalid state or a failed query.
QueryFails(i) ==
  /\ pc[i] = "query"
  /\ Become(i, "exit1")
  /\ UNCHANGED <<command, naming, opened, changed, said, dataVars, readVars>>

\* Fault: the fingerprints are counted in the table of the banners.
CountedInBanners(d, n) == Figures(d)[IF n = 4 THEN 5 ELSE n]

\* Fault: the counts are of connections with what has been seen, each row once for
\* every connection that refers to it.
CountedByConnection(d, n) == IF n > 2 THEN Len(log[d]) ELSE Figures(d)[n]

Counted(d, n) == Figures(d)[n]

\* One of the five statements, or its error, which is dropped: the figure stays 0.
Count(i) ==
  LET n == Len(figures[i]) + 1
  IN  /\ pc[i] = "count" /\ n <= 5
      /\ \E figure \in {Counted(opened[i], n), 0} :
           figures' = [figures EXCEPT ![i] = Append(@, figure)]
      /\ UNCHANGED <<command, naming, pc, opened, changed, said, dataVars, listed, before>>

\* What a process has counted is gone with it.
Forget(i) ==
  figures' = [figures EXCEPT ![i] = <<>>] /\ before' = [before EXCEPT ![i] = <<>>]

PrintStatistics(i) ==
  /\ pc[i] = "count" /\ Len(figures[i]) = 5
  /\ Become(i, "exit0") /\ Forget(i)
  /\ UNCHANGED <<command, naming, opened, changed, said, dataVars, listed>>

-----------------------------------------------------------------------------
(***************************************************************************)
(* Around the commands                                                     *)
(***************************************************************************)

\* The operator interrupts the command.
Interrupt(i) ==
  /\ pc[i] \notin {"exit0", "exit1"}
  /\ Become(i, "exit1") /\ Forget(i)
  /\ UNCHANGED <<command, naming, opened, changed, said, dataVars, listed>>

Exited == \A i \in Invocation : pc[i] \in {"exit0", "exit1"}

\* RecordConnection of the proxy, complete or cut off behind any of its rows. Bound:
\* nobody reads what is recorded after the last command.
Record(d) ==
  /\ Len(log[d]) < MaxLog /\ ~Exited
  /\ \E c \in Connections, made \in 1..4 :
       /\ rows' = [rows EXCEPT ![d].ip = @ \cup {c.ip},
                               ![d].fp = IF made > 1 THEN @ \cup {c.fp} ELSE @,
                               ![d].banner = IF made > 2 THEN @ \cup {c.banner} ELSE @]
       /\ log' = IF made = 4 THEN [log EXCEPT ![d] = Append(@, c)] ELSE log
  /\ UNCHANGED <<command, naming, pc, opened, changed, said, blocked, readVars>>

AllExited == Exited /\ UNCHANGED ctlVars

CtlNext ==
  \/ \E i \in Invocation :
       \/ OpenDatabase(i) \/ Execute(i) \/ Edit(i) \/ Report(i)
       \/ EditFails(i) \/ Finish(i)
       \/ Query(i) \/ QueryFails(i) \/ Count(i) \/ PrintStatistics(i)
       \/ Interrupt(i)
  \/ \E d \in Database : Record(d)
  \/ AllExited

CtlSpec == CtlInit /\ [][CtlNext]_ctlVars

-----------------------------------------------------------------------------
(***************************************************************************)
(* Properties                                                              *)
(***************************************************************************)

\* A command edits its arguments in order up to one it stops at; what it has reported
\* is what it has done, but for an edit it was interrupted after; and a success means
\* that all of them are done.
ReportsAreTrue ==
  \A i \in Invocation :
    /\ Len(changed[i]) <= Len(command[i].args)
    /\ changed[i] = SubSeq(command[i].args, 1, Len(changed[i]))
    /\ Len(said[i]) \in {Len(changed[i]), Len(changed[i]) - 1}
    /\ said[i] = SubSeq(changed[i], 1, Len(said[i]))
    /\ pc[i] = "exit0" => said[i] = command[i].args

ArgsOf(i) == {command[i].args[n] : n \in 1..Len(command[i].args)}
Reported(i) == {said[i][n] : n \in 1..Len(said[i])}

\* A fingerprint reported as blocked stays blocked, whatever other fingerprints are
\* blocked and unblocked meanwhile, until a command unblocks that one.
BlocksLast ==
  \A i \in Invocation : \A f \in Reported(i) :
    \/ command[i].kind = "unblock"
    \/ \E j \in Invocation : command[j].kind = "unblock" /\ f \in ArgsOf(j)
    \/ f \in blocked[opened[i]]

\* A fingerprint that a command has reported as blocked, or as unblocked, and that
\* none of the commands does the opposite to.
Settled(kind, f) ==
  /\ \E i \in Invocation : command[i].kind = kind /\ f \in Reported(i)
  /\ \A i \in Invocation :
       command[i].kind \in {"block", "unblock"} \ {kind} => f \notin ArgsOf(i)

\* An operator who lists the fingerprints after an edit was reported sees it: the
\* fingerprint is shown with its new state, although that of its connections is the
\* old one, it is not in the list of the others, and it is missing from that of its
\* own only if it has no connection or the list is at its limit.
ListShowsEdits ==
  [][\A i \in Invocation, f \in Fingerprint, kind \in {"block", "unblock"} :
       command[i].kind = "list" /\ pc[i] = "query" /\ pc'[i] = "exit0" /\ Settled(kind, f) =>
         /\ \A row \in ToSet(listed'[i]) : row.fp = f => row.blocked = (kind = "block")
         /\ Passes(command[i].state, kind = "block") =>
              \/ \E row \in ToSet(listed'[i]) : row.fp = f
              \/ \A n \in DOMAIN log[opened[i]] : log[opened[i]][n].fp # f
              \/ Limit # 0 /\ Len(listed'[i]) = Limit]_ctlVars

\* The figures of stats are counted at five moments, but none is out of date by more
\* than the run of the command: each lies between what was stored when it began and
\* what is stored now, or its count has failed and it is 0.
FiguresAreCurrent ==
  \A i \in Invocation : \A n \in DOMAIN figures[i] :
    \/ figures[i][n] = 0
    \/ before[i][n] <= figures[i][n] /\ figures[i][n] <= Figures(opened[i])[n]

\* The same figures of some connections, oldest first.
FiguresOf(lines) ==
  <<Len(lines),
    Cardinality({n \in DOMAIN lines : lines[n].blocked}),
    Cardinality({lines[n].ip : n \in DOMAIN lines}),
    Cardinality({lines[n].fp : n \in DOMAIN lines}),
    Cardinality({lines[n].banner : n \in DOMAIN lines})>>

\* The figures agree in one direction: a connection in the total, which is counted first,
\* is in the others too, with its verdict, address, fingerprint and banner, unless their
\* count has failed. In the other direction they need not: what is recorded after the
\* total was counted may be in the others, and the block rate be above 100%.
FiguresAgree ==
  \A i \in Invocation : \A n \in DOMAIN figures[i] :
    \/ figures[i][n] = 0
    \/ FiguresOf(SubSeq(log[opened[i]], 1, figures[i][1]))[n] <= figures[i][n]

\* --db is the "SQLite database path": an edit is made in the database that the
\* operator names.
EditsNamedDatabase ==
  \A i \in Invocation :
    changed[i] # <<>> => opened[i] = Lookup(naming[i], Places)
=============================================================================
