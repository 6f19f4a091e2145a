# Verification of the hassh SSH proxy

`hassh` is a transparent SSH proxy. It greets each client with the upstream
server's own identification line, captures the client's key exchange proposal,
computes a HASSH fingerprint from it, refuses the client if that fingerprint is
in the blocklist, and otherwise connects it to the upstream server and copies
bytes both ways. `sshctl` edits the blocklist in a SQLite database and tells the
proxy, by SIGHUP, to load it again.

This directory holds TLA+ modules for the parts of that program whose behaviour
depends on the order in which things happen, TLC configurations that check them
on small instances, and TLAPS proofs for every instance.

## Inventory

| component | state | operations | interacts with | what is hard | what must hold |
|---|---|---|---|---|---|
| configuration plane: `NewServer`, `handleReloads`, `reloadBlocklist`, `refreshUpstreamBanner` (`pkg/proxy/server.go`), `BlocklistFilter` (`pkg/filter`), `cmd/sshproxy` | in-memory blocklist, cached banner, `reloadChan` (one slot), context | start, load, probe, swap, stop | the database, the upstream server, signals, every handler | query and swap are two steps; signals coalesce; each half of a reload can fail; crash and restart | one committed list in force, never an older one; no SIGHUP lost |
| connection handler: `handleConnection` | the handler's position, the banner it sent, the fingerprint, two sockets | greet, capture, classify, dial, check, replay, relay, record | blocklist, cached banner, database, peers | reads shared state twice; every network step can fail or stall | no upstream contact before or despite a verdict; verdicts follow the database; client and upstream agree on the banner |
| accept loop and shutdown: `Start`, `acceptWithContext`, `main` | semaphore, WaitGroup, the goroutine in `Accept`, syslog | accept, admit, reject, release, drain | handlers, signals | a goroutine abandoned in `Accept`; counters changed without a common lock; drain | limit neither missed nor undercut; syslog outlives the handlers; the drain completes |
| handshake capture: `CaptureHandshake`, `tryParseHandshake`, `readIdentificationLine` (`pkg/proxy/sshconn.go`) | a growing buffer, a deadline | read, parse, give up | the handler | the same bytes in any chunks; budgets; padding and lengths | the verdict does not depend on the chunking; budgets hold |
| fingerprint: `ParseKexInit`, `Calculate` (`pkg/hassh`) | none | parse, hash | capture | lengths from the wire; sanitised names | bounds; equal proposals, equal fingerprints |
| repository: `pkg/storage/db.go` | five tables | record, block, unblock, load, list, search, statistics | recorders, `sshctl`, proxy | read-then-insert races, statements outside their transaction, lock conflicts | uniqueness; a block is never half done; records refer to rows that exist |
| operator commands: `cmd/sshctl/command` | none | block, unblock, reload, list, log, stats | repository, proxy | several arguments, the second of which fails | what was reported done is done |
| terminal UI: `cmd/sshctl/tui` | lists, cursor, selections, search text | refresh, search, select, block, unblock | repository | the lists change under the cursor and the selection | the fingerprint blocked is the one the operator selected |
| syslog: `pkg/proxy/syslog.go` | a connection to the log daemon | four log lines, close | handlers, shutdown | closed while in use | closed after the last handler |

Its hazards, each at its line and with the properties that cover it, are listed
in `PROJECT.json`.

## Modules

| module | role | models |
|---|---|---|
| `Reload` | detailed | the configuration plane: process start and end, the SIGHUP handler, operators' edits as a history of commits |
| `Connection` | detailed, composes `Reload` | `handleConnection`, one process per client, beside the configuration plane |
| `Gate` | abstract | what `Connection` promises to an operator |
| `AcceptLoop` | detailed | `Start`, `acceptWithContext`, semaphore, WaitGroup, shutdown |
| `BoundedService` | abstract | what `AcceptLoop` promises |
| `Stream` | detailed | the bytes of one connection through capture, probe, replay and relay |
| `Repository` | detailed | `RecordConnection`, `BlockHASH`, `UnblockHASH`, statement by statement over SQLite's locks |
| `Registry` | abstract | what `Repository` promises its callers |
| `Kexinit` | detailed, and a reference client | `tryParseHandshake` and package `hassh` over bytes, in the loop of `CaptureHandshake`, against what a client means to send |
| `Sshctl` | detailed, uses `Queries` | invocations of `sshctl block`, `unblock`, `list`, `log` and `stats` beside a proxy that records; an edit is one step, as `Registry` allows |
| `Queries` | operators | the lists and searches of the repository |
| `Tui` | detailed, uses `Queries` | the terminal interface: a step per key or tick, and one per fingerprint of an edit |
| `MC*` | instances | values of the constants and symmetry |
| `*Proofs` | proofs | of `Reload`, `Connection` (with `Gate`), `AcceptLoop`, `Repository`, `Stream`, `Kexinit`, `Sshctl`, `Tui` |

How they fit together. `Connection` EXTENDS `Reload`: its handlers read the
`blocklist` and the `upstreamBanner` that the steps of `Reload` replace. It takes
the accept of a connection as one step, which `AcceptLoop` refines with the
limit and the drain while taking the handler as opaque; and it takes the bytes
of a connection as "captured", "replayed", "relayed", which `Stream` refines for
one connection. `Stream` in turn lets the client choose the position at which its
handshake becomes parseable; `RecognisedOnceComplete` of `Kexinit` says that there
is such a position, that it depends on what the client sends alone, and where it is. `Reload` takes an edit of the blocklist as one commit; that it is
one is what `Repository` implementing `Registry` says, and `Sshctl` builds on the
same fact, for any number of commands beside each other. `Sshctl` and `Tui` use the
operators of `Queries` for what they read; `Tui` has the database's contents as its
environment.

### State and code

* **Reload.** `phase` is how far `main`, `NewServer` and `Start` have come: before
  the first probe, before the first load, before `signal.Notify`, before
  `net.Listen`, serving. `reloadChan` is the one-slot channel, `rpc` the position
  of the `handleReloads` goroutine, `blocklist` the map of `BlocklistFilter`,
  `upstreamBanner` the string under `bannerMu`. The query of a reload and its swap
  are separate steps, since edits and handlers come between them; so are the probe
  and the store of the banner. Each of the two can fail on its own. The database is
  `commits`, the sequence of contents that `blocked_fingerprints` has had, because
  what has to be said of the proxy is *which* of them it enforces. `loadedAt`,
  `enforced`, `signalled` and `missed` are history: no guard reads them.
* **Connection.** `pc[c]` is the position in `handleConnection`; every network
  operation and every access to shared state is a step. `sent`, `print`, `verdict`
  and `live` are the handler's locals, `record` the goroutine that stores the
  connection, which nobody waits for.
* **AcceptLoop.** `acceptor` is the goroutine that `acceptWithContext` starts, with
  the result it has put in its channel; it survives `acceptWithContext` when
  `ctx.Done()` is chosen. `life[c]` follows a connection from the kernel's backlog to
  the end of its handler; `sem` and `wg` change where the code changes them, in the
  loop and in the handler's deferred function.
* **Stream.** Byte *i* of a stream is the number *i*, so a loss, a duplicate or a
  reordering shows. The peers choose where the handshake becomes parseable and where
  the identification line ends, or that they never do; send byte by byte, shut down
  and reset; and read when they please. A read returns any non-empty part of what is
  available up to the size of its chunk. A write hands over what the sockets of the
  peer have room for, `Window` bytes less the `unread` ones, and waits for the rest: no
  write of the relay has a deadline (`server.go:467`, `475`).
* **Repository.** `pc[o]` is the statement an operation is at. `shared` and
  `reserved` are SQLite's locks in rollback-journal mode. The lookups and creations
  through `r.db` are transactions of their own on another connection of the pool,
  which is why a transaction that had already read would wait for itself
  (`FindInTransaction`). `CheckFails` and `Abandon` are storage errors, lock waits
  longer than the busy timeout, and kills, at every statement.
* **Kexinit.** `sent` is a sequence of bytes and `received` how many of them the
  capture has read; each step reads a chunk and parses the whole buffer again, as the
  loop does. The parser is translated bytewise: the search for `SSH-` and the end of
  the line, the lengths of packet and padding, ten name-lists, trimming, the validity
  of names, the two limits on their number. The second half of the module describes a
  client by names instead of bytes: a list of spellings, each with the name it stands
  for. The digest is left out: a fingerprint is the text it would be computed from.
* **Sshctl.** The order of `main`: open, then `Execute`, then the edits and their
  reports one by one, the query of `list` or `log`, or the five counts of `stats`.
  `Lookup` is viper's precedence, of the places it knows by then. `log`, `rows` and
  `blocked` are the tables of each database; `Record` is the proxy, whose
  `RecordConnection` may stop behind any of its rows. `Answers` is the *set* of lists
  that a query may return, since rows that the order leaves equal come in any order.
  Each of the five counts of `stats` may fail on its own, which leaves a 0 (`Count`);
  what a process has counted is gone with it (`Forget`). `before` is history.
* **Tui.** `selected` is the map of selections with its deselected keys, `shown` the
  rows of the table widget, which is not always the list the keys act on. `TuiInit` is
  `newModel`, over any database and with the first query made or failed: then no rows
  have been set, and the cursor is still at 0. A handler is one step, except that of
  the keys `b` and `u`: `BeginEdit` fixes the fingerprints, each `EditOne` is one
  transaction, made or failed, `EndEdit` empties the selection and refreshes;
  connections are recorded and other operators edit in between. bubbletea handles no
  other key meanwhile. `stale`, `chosen`, `press` and `others` are history: what the
  operator has marked, what was on the screen at the key, what others have edited
  since. The page has `Height` rows, as it is when the window keeps its size.

Operators whose comment begins with "Fault:" are not part of the system. Each
changes one definition the way a plausible mistake in the code would, and
`PROJECT.json` says which property then fails.

## Runs

| run | bounds | shows |
|---|---|---|
| `connection` | 1 handler, 2 fingerprints, 2 banners, 3 commits | the enforced list is always one committed state, never older than before; no SIGHUP is lost; verdicts are the database's; no upstream contact before them; the banner check is right but for a refresh; the gate is implemented |
| `connection_pair` | 2 handlers, 1 fingerprint, 1 banner, 2 commits | handlers do not mix; the gate again; every handshake resolves; every SIGHUP is answered. That two handlers do not mix two *fingerprints* is left to `GateImplemented`, which is about any number of both: a second one makes this run too long |
| `accept_loop` | 3 connections, 2 slots | counters agree; one connection stranded at most; the bounded service is implemented; the shutdown completes; connections are answered |
| `stream` | capture budget 2, probe budget 1, chunks 2, window 1, 3 bytes each way | no loss, duplicate or reordering; one banner; chunking does not decide; half-closes; the relay delivers to who reads, and ends |
| `repository` | 3 operations on one value of each kind | atomicity, references, no deadlock of locks |
| `kexinit` | pairs of 11 lists in 12 pairs of places, and 864 frames; names of up to 3 bytes, 3 names in a list, 9 in all, chunks of up to 3 bytes | a handshake is recognised with the read that completes it; its fingerprint is that of what was sent and of nothing else |
| `sshctl` | 2 invocations, at most one of which reads; 2 fingerprints, 2 arguments, 2 connections, lists of 1 row | reports are true; edits do not undo each other; statistics are current, and agree in one direction; a list shows the edits before it |
| `tui` | 2 fingerprints, 2 connections, limit 1, page of 1 row | what is shown is what is acted on, or an error is on the screen; only what the operator has marked is edited, and all of it that is on the screen unless an error is reported |
| `banner_race`, `lookup_race`, `sshctl_database`, `tui_selection` | as small as the trace allows | a disagreement of the code with what it says of itself, see below |

Why these bounds are enough. A reload spans at most two commits that matter (the
one it reads, one committed after), and a third shows that the next SIGHUP catches
up; two fingerprints tell a mix of two lists from either list. `SighupIsAnswered` is
checked with two commits, so that there is one to fall behind; commit 1 is the
database as it was at the start, which every process has loaded. Handlers share nothing but
the list, the banner and the process, so two suffice to show interference, and one
meets every interleaving with the configuration plane. Three connections fill two
slots and leave one to be rejected or stranded. `Stream` needs a handshake within the
budget that one read or two may bring, a budget that a read passes, a chunk that
holds both sides of a boundary, and a byte after it; with a window of one byte a
chunk of two is written in two parts with a wait in between. Three operations are needed for a clash of two while a third holds a lock. In `Kexinit` the limits of the code (16 KB, 1000
and 5000 names, 128 bytes, 255 bytes of banner) are constants; the instance gives
them values that some of the hellos pass by one and others reach exactly. In
`Sshctl` a reading command changes nothing that another one sees (`OneReader`), and two
connections tell a count of connections from a count of rows and move a row out of a
list of one. In `Tui` two fingerprints make an edit of two transactions; the
tick, the limit of 1 and the second connection are what moves a selected row out
of the list.

Deadlock is checked in all of them; where a system really stops, it has a
stuttering step for it (`AllReturned`, `AllExited`, `Ended`, `Over`).

### Fairness

* `Reload` (`ReloadFairness`, part of `Connection`'s `FairSpec`): the
  `handleReloads` goroutine runs, and its query and probe return, by
  SQLite's busy timeout and `upstreamBannerFetchTimeout`. Nothing else is fair: no
  operator has to send a SIGHUP, and a process may stop at any time.
* `Connection`: a handler's own steps and the expiry of its waits
  (`handshakeTimeout` for the capture and for the upstream banner). `net.Dial` has no
  timeout of its own (`server.go:383`); that the operating system ends it is an
  assumption about the environment, so `HandshakeResolves` does not say how long a
  client waits. Peers owe nothing, so the relay need not end.
* `AcceptLoop`: `Start`, the one-second deadline and the deferred functions are
  weakly fair. The goroutine in `Accept` is strongly fair: the deadline comes round
  again and again, and each time `Accept` has a second to return a connection that
  already waits. This supposes that errors of `Accept`, such as a process without
  free descriptors, do not go on for ever. Sessions are not fair; `ShutdownCompletes` assumes that they end.
* `Stream`: the two copying goroutines and the receive from `done`. A read that has
  nothing to read and a write for which the sockets have no room are not enabled steps.
  Nothing is asked of the peers: a peer that never reads holds the goroutine that
  writes to it, and the handler, for ever. So the two liveness properties have the
  premise `Reads`, `SentIsDelivered` for the receiving peer alone and `RelayEnds` for
  both.
* `Repository`: each caller goes on with its next statement. The busy timeout
  (`Abandon`) is *not* fair, so `EveryOperationReturns` says that operations do not
  need it to get out of each other's way.

## Proofs

TLAPS proves the following for all values of the constants, under the named
assumptions of the modules: the values that stand for "none" are not members of
the sets they are used beside, the bounds are positive, the set of connections of
`AcceptLoop` is finite and has none of the strings of `acceptor` in it, the set of
fingerprints of `Sshctl` is finite. `Kexinit` assumes that the limit of a packet is
below 2^24 (it is 35000), which is why text is never taken for one, and of its
clients that they send one identification line, none, or one more before it, and
that names are ASCII (`HellosAssumption`); limits, lists, names, padding, what
precedes the line and what follows the packet are any.

| theorem | says | argument |
|---|---|---|
| `ReloadTypeCorrect`, `OneCommitEnforced`, `NoSighupLost`, `EnforcementMonotone` | the invariants of `Reload` and its action property | `ReloadIInv` adds that the result set in flight is never older than the enforced one (there is one reloading goroutine), that a process that is not serving has an idle handler and, before `Notify`, no SIGHUP, and `NoReloadLost` from `Notify` on |
| `ConnTypeCorrect`, `BlockedStayOut`, `VerdictsFollowDatabase`, `BannersAgreeButForRefresh` | the invariants of `Connection` | `ConnIInv` extends `ReloadIInv`, which each handler step leaves alone, by what a handler's position says of its verdict, its fingerprint and its banners |
| `GateImplemented` | `Connection` implements `Gate` | each handler step is a step of one client of the gate, each reload step `Publish`, `Enforce` or a stutter, the end of a process one `Leave` of all undecided clients |
| `LoopTypeCorrect`, `CountersAlwaysAgree`, `AtMostOneStranded` | the invariants of `AcceptLoop` | `LoopIInv`: the loop holds one connection while it decides, the accepted connection is the accepting goroutine's, each counter is the cardinality of a set that each step changes by one element |
| `ServiceImplemented` | `AcceptLoop` implements `BoundedService` | the sends and receives of the semaphore are `Admit` and `Finish`, the return of `Wait` is `Stop`, which needs that the WaitGroup counts a superset of those who hold a slot |
| `RepoTypeCorrect`, `ReferencesAlwaysResolve` | the invariants of `Repository` | `RepoInv`: what an operation has looked up so far is there, and no step deletes a row of a lookup table |
| `RegistryImplemented` | `Repository` implements `Registry` | `Commit`, or finding the fingerprint already blocked, is `Succeed`; each way to fail is `GiveUp`; everything else stutters |
| `StreamTypeCorrect`, `UpstreamAlwaysSeesClientStream`, `ClientAlwaysSeesOneBanner`, `BudgetAlwaysDecides`, `EofAlwaysAfterAllData` | the safety properties of `Stream` | `StreamIInv`: in each stage of the connection the bytes received, those held by a goroutine and those buffered are adjacent segments of the stream that end where reading has come to, however writes were split; lemmas about segments (`BytesConcat`, `BytesRest`) carry it through a read and a write |
| `HandshakesRecognised`, `FingerprintsOfWhatWasSent`, `FingerprintsIdentifyOffers` | the invariants of `Kexinit` | `KexIInv`: the answer is `Recognised(hello, received)`, which looks at the description of the client only; the lemmas below say that the parser computes it |
| `ReportsAlwaysTrue`, `BlocksAlwaysLast` | the invariants of `block` and `unblock` | `SshctlIInv`: what is changed is the beginning of the arguments, what is said the beginning of that, one shorter only in `report`; and a changed fingerprint is blocked in the invocation's database until a command with the opposite edit |
| `FiguresAlwaysCurrent` | the invariant of `stats` | `FiguresIInv`: no step makes a figure of the database smaller, so that one counted later is at least `before` and one counted earlier at most the present one |
| `ListsAlwaysShowEdits` | the property of `list` | `ListIInv`: every command has opened the default database, where a settled edit stands until the opposite one begins; a list that is not cut holds all its rows, because an injection between finite sets of one size is onto, and each group of connections has a latest one |
| `ShownAlwaysActedOn` | the terminal interface shows what its keys act on, or an error | `ShownIsActedOn` is inductive: a step leaves mode, lists, selection and rows alone, makes the rows from the other three, or leaves them stale with an error |
| `EditsAlwaysChosen` | what the terminal interface edits | `EditIInv`: the map of selections marks exactly the keys the operator has marked (`ChoiceOK`), and while an edit is made nothing but what they have marked, or others have edited, has changed; unless one has failed, each fingerprint that was marked on the screen is edited or left to do, or others have edited it (`JobOK`) |
| `TuiTypeCorrect` | the type invariant of `Tui` | `TuiIInv` adds what the lists hold: a newest-first list of any finite set of ids exists (by their ranks), so that a query lists recorded connections only; and every assignment of rows puts the cursor on one of them or at -1, while that of a table whose first query failed is still at 0 |

### The parser

The proof about `Kexinit` is the longest one, since it goes through all of the
parser, for texts and lists of any length.

* *Recursion.* `Split`, `FlattenSeq` and `ParseLists` are recursive functions. That
  such a function exists is shown by extending it by one argument at a time, and what
  it computes by induction over a set: the numbers or sequences for which the claim
  does not hold have no least member (`Least`, `NumberInduction`,
  `AppendInduction`). The library's induction theorems, which take the claim as an
  operator, are not needed.
* *Names.* `SplitJoin`: names without commas that are joined and split again are the
  same names. With it and `TrimSpelling` (trimming leaves the name of a spelling) the
  parser finds the meaning of a list in its text (`TrimmedIsMeaning`), and validity
  as the client has it (`ListValid`).
* *Fields.* `ParseField` says what `parseNameList` does where a list is in the
  payload, whole or cut off; `ParseStep` and `ParseTen` carry it through the ten
  lists, with the offset and the total, and `ParsesHello` adds the checks before and
  behind them.
* *Frames.* A pattern is found in a prefix of what is sent exactly from the
  moment it is there (`FirstPlaceInPrefix`), at the same place; `PacketFound` says the
  same of the packet. So the answer to every prefix follows: `OneLineParsed`,
  `NoLineParsed`, `TwoLinesParsed`, together `HandshakeParsed`.
* *Digest.* `CalculateInjective`: the digested text determines the four lists. The
  first semicolon ends the first list because no name has one (`FirstMark`), and
  a joined list determines its names (`JoinIdentifies`).

### Only model-checked

The liveness properties: `HandshakeResolves`, `SighupIsAnswered`, `ShutdownCompletes`,
`ConnectionsAreAnswered`, `EveryOperationReturns`, `SentIsDelivered` and `RelayEnds`.
Fairness and `ENABLED` are beyond the prover. Of the safety properties `FiguresAgree`,
which is about cardinalities of projections of the log; all others of the passing runs
are theorems. What
SQLite, viper and the table widget do is taken from how the code uses them: the
definitions marked external in `PROJECT.json` are where an error of that kind would
be.

## Where the code disagrees with itself

Four runs end in a violation of something the repository says of the program.

* `banner_race`: the comment before the banner check says that it compares with the
  banner "already sent" to the client; the code reads the cached banner a second
  time, and a SIGHUP may have replaced it in between (`server.go:419`).
* `lookup_race`: "finds or creates" (`db.go:182`), but the two are separate
  transactions (`db.go:185`, `192`): two operations that meet a value for the first
  time both find no row, and the `Create` of the second fails on the unique index. That
  operation fails, with nothing recorded or blocked.
* `sshctl_database`: `--db`, the environment and the configuration file have no
  effect, because `main` opens the database before any of them is read
  (`cmd/sshctl/main.go:64`).
* `tui_selection`: a selected connection that a tick has moved out of the list is
  skipped by a block that reports no error (`tui.go:498`).

Met while reading or modelling, and left without a run because a property would
only restate the line:

* a connection accepted just before a graceful exit may not be recorded, since the
  recorder is not counted by the WaitGroup, and recorders take no slot of the
  semaphore (`server.go:354`); modules `Connection` and `AcceptLoop` have both;
* `maxCaptureSize` "bounds how many bytes we will buffer" (`sshconn.go:22`), but it is
  tested before a read of up to 4096 bytes, so that 12287 can be held;
  `StreamTypeOK` states the real bound;
* the comment of `CaptureHandshake` (`sshconn.go:61`) says that the caller must not
  wait to dial, from before banners were cached; `handleConnection` does wait, and
  `BlockedNeverReachesUpstream` depends on it;
* the five counts of the statistics are five transactions and their errors are dropped
  (`db.go:569`), so a block rate above 100% can be shown, or a total of 0 beside
  blocked connections; `FiguresAreCurrent` and `FiguresAgree` state what does hold;
* `BlockHASH` and `UnblockHASH` read in their transaction before they write
  (`db.go:495`, `522`), and when another writer is about to commit SQLite refuses the
  upgrade at once, without the busy timeout; the command fails (`UpgradeRefused`);
* a query that fails after a switch of the view leaves the rows of the other view on
  the screen, beside the error (`tui.go:160`; `stale`), and the error is never cleared;
* a tick replaces the results of a search by the whole list (`tui.go:253`; `Refresh`);
* an algorithm name may contain a semicolon (`hassh.go:104`), which also separates the
  four lists of the digested text (`hassh.go:155`), so that two offers can have one
  fingerprint; `FingerprintIdentifiesOffer` is about the offers without one;
* `list` and `log` show the *oldest* rows up to the limit unless `--reverse` is given
  (`list.go:85`, `db.go:633`); `Answers` has both orders;
* the space bar on an empty table indexes a list with -1 (`tui.go:296`, as `bubbles`
  leaves the cursor; `TogglePanics`);
* a search by IP compares text with stored bytes (`db.go:448`; `Matches`);
* `sshctl list` speaks of unique fingerprints (`list.go:24`) and groups by fingerprint
  and banner (`db.go:606`).

## Not modelled

* The digest itself (MD5, and SHA-256, which no program asks for) and
  `ParseKexInitWithContext`, `GetConnectionHistory`, `GetBlockedFingerprints` and
  `BlocklistFilter.Add`, which have no caller in the programs.
* The counts and dates of a summary, orders other than that of time (any order of the
  rows is allowed then), the migrations, timestamps whose texts are compared across a
  change of the offset.
* Printing: the tables of `list` and `log`, the rendering of the terminal interface,
  the four formats of `syslog.go`. Of the syslog writer only its closing is modelled:
  its calls format one message each and keep no state.
* Build, container files and the test server.

## Plan

Done, in this order: `Reload`, `Connection` with `Gate`, `AcceptLoop` with
`BoundedService`, `Repository` with `Registry`, `Stream`, `Sshctl`, `Queries`, `Tui`
and `Kexinit`; then the proofs, of `Kexinit` last.

Next, by what matters most:

1. `Proxy`: `AcceptLoop`, `Connection` and `Repository` in one instance, small, to show
   that the single steps each takes for the others compose: a blocked client's
   record, the drain while a recorder waits for a lock.
2. `Queries` with the counts of a summary and timestamps as texts.
