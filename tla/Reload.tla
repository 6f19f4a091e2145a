------------------------------- MODULE Reload -------------------------------
(***************************************************************************)
(* The configuration plane of the proxy process: how a process comes up    *)
(* (cmd/sshproxy/main.go, NewServer, Start), what it keeps in memory (the  *)
(* blocklist, the cached upstream banner), and how the SIGHUP handler      *)
(* refreshes both from the SQLite database and from the upstream server    *)
(* while operators edit the database with sshctl.                          *)
(*                                                                         *)
(* One action per step that touches state another actor can see: the SQL   *)
(* query and the swap of the in-memory map are separate steps, as are the  *)
(* banner probe and the store under bannerMu.                              *)
(***************************************************************************)
EXTENDS Naturals, Sequences

CONSTANTS
  Hash,        \* HASSH fingerprints
  Banner,      \* identification lines an upstream server may present
  NoBanner,    \* no banner read yet
  MaxCommits   \* bound: the length of the history of the blocked set

ASSUME BannerAssumption == NoBanner \notin Banner
ASSUME CommitsAssumption == MaxCommits \in Nat \ {0}

VARIABLES
  phase,           \* how far the process has come, "down" when there is none
  cancelled,       \* the context of main.go has been cancelled
  reloadChan,      \* a SIGHUP waits in Server.reloadChan (capacity 1)
  rpc,             \* control state of the handleReloads goroutine
  loaded,          \* result set of the last query of reloadBlocklist
  probed,          \* banner the last fetchUpstreamBanner returned
  blocklist,       \* BlocklistFilter.exact
  upstreamBanner,  \* Server.upstreamBanner
  commits,         \* the successive committed contents of blocked_fingerprints
  liveBanner       \* the banner the upstream server presents now

(***************************************************************************)
(* History: which commit the in-flight result set and the blocklist come   *)
(* from, which commit was the last one when the process last received a    *)
(* SIGHUP, and whether the last query of the handler failed.  The code     *)
(* has no such state; no guard reads it.                                   *)
(***************************************************************************)
VARIABLES loadedAt, enforced, signalled, missed

histVars == <<loadedAt, enforced, signalled, missed>>
memVars == <<blocklist, upstreamBanner>>
handlerVars == <<rpc, loaded, probed, loadedAt, missed>>
reloadVars == <<phase, cancelled, reloadChan, rpc, loaded, probed, blocklist,
                upstreamBanner, commits, liveBanner, histVars>>

Phases == {"down", "probing", "loading", "notifying", "listening", "serving"}
HandlerStates == {"idle", "load", "apply", "probe", "store", "stopped"}

Blocked == commits[Len(commits)]

\* Received by signal.Notify rather than by the default action.
Notified == phase \in {"listening", "serving"}

\* The goroutine exists and its select can still receive a signal.
HandlerUp == phase = "serving" /\ rpc # "stopped"

ReloadInit ==
  /\ phase = "down"
  /\ cancelled = FALSE
  /\ reloadChan = FALSE
  /\ rpc = "idle"
  /\ loaded = {}
  /\ blocklist = {}
  /\ probed = NoBanner
  /\ upstreamBanner = NoBanner
  /\ liveBanner \in Banner
  /\ commits = <<{}>>
  /\ loadedAt = 1 /\ enforced = 1 /\ signalled = 0 /\ missed = FALSE

-----------------------------------------------------------------------------
(***************************************************************************)
(* Process start and end                                                   *)
(***************************************************************************)

\* The operating system (or the container's restart policy) starts a process.
StartProcess ==
  /\ phase = "down"
  /\ phase' = "probing"
  /\ UNCHANGED <<cancelled, reloadChan, handlerVars, memVars, commits,
                 liveBanner, enforced, signalled>>

\* The process is gone, whichever way (log.Fatalf of a failed start, SIGKILL, a
\* signal with the default action), and its memory with it.
Die ==
  /\ phase' = "down"
  /\ cancelled' = FALSE
  /\ reloadChan' = FALSE
  /\ rpc' = "idle"
  /\ loaded' = {} /\ blocklist' = {}
  /\ probed' = NoBanner /\ upstreamBanner' = NoBanner
  /\ signalled' = 0
  /\ missed' = FALSE
  /\ loadedAt' = enforced
  /\ UNCHANGED <<commits, liveBanner, enforced>>

Crash == phase # "down" /\ Die

\* fetchUpstreamBanner at startup; a failure ends the process (Crash).
ProbeAtStart ==
  /\ phase = "probing"
  /\ phase' = "loading"
  /\ probed' = liveBanner
  /\ upstreamBanner' = liveBanner
  /\ UNCHANGED <<cancelled, reloadChan, rpc, loaded, blocklist, commits,
                 liveBanner, histVars>>

\* Fault: NewServer does not load the blocklist; it is empty until a SIGHUP.
LoadNothingAtStart ==
  /\ phase = "loading"
  /\ phase' = "notifying"
  /\ loadedAt' = 1 /\ enforced' = 1
  /\ UNCHANGED <<cancelled, reloadChan, rpc, loaded, probed, memVars, commits,
                 liveBanner, signalled, missed>>

\* The initial reloadBlocklist; nobody reads the list yet, so the query and the
\* swap are one step. A failure ends the process (Crash).
LoadAtStart ==
  /\ phase = "loading"
  /\ phase' = "notifying"
  /\ loaded' = Blocked
  /\ blocklist' = Blocked
  /\ loadedAt' = Len(commits)
  /\ enforced' = Len(commits)
  /\ UNCHANGED <<cancelled, reloadChan, rpc, probed, upstreamBanner, commits,
                 liveBanner, signalled, missed>>

\* signal.Notify(server.reloadChan, SIGHUP), the last statement of NewServer.
NotifyAtStart ==
  /\ phase = "notifying"
  /\ phase' = "listening"
  /\ UNCHANGED <<cancelled, reloadChan, handlerVars, memVars, commits,
                 liveBanner, enforced, signalled>>

\* net.Listen succeeds and Start spawns handleReloads; a failure to listen ends
\* the process (Crash).
ListenAndSpawn ==
  /\ phase = "listening"
  /\ phase' = "serving"
  /\ UNCHANGED <<cancelled, reloadChan, handlerVars, memVars, commits,
                 liveBanner, enforced, signalled>>

\* SIGINT or SIGTERM once main has a server: cancel().
Cancel ==
  /\ Notified
  /\ cancelled' = TRUE
  /\ UNCHANGED <<phase, reloadChan, handlerVars, memVars, commits, liveBanner,
                 enforced, signalled>>

\* Start returns ctx.Err() and main returns.
Exit == phase = "serving" /\ cancelled /\ Die

-----------------------------------------------------------------------------
(***************************************************************************)
(* Operators and the upstream server                                       *)
(***************************************************************************)

Commit(blocked) ==
  /\ Len(commits) < MaxCommits
  /\ commits' = Append(commits, blocked)
  /\ UNCHANGED <<phase, cancelled, reloadChan, handlerVars, memVars,
                 liveBanner, enforced, signalled>>

\* BlockHASH commits only when the fingerprint was not blocked already.
BlockHASH(h) == h \notin Blocked /\ Commit(Blocked \cup {h})

\* UnblockHASH of a fingerprint that is not blocked changes nothing.
UnblockHASH(h) == h \in Blocked /\ Commit(Blocked \ {h})

\* Fault: reloadChan has no buffer, and a SIGHUP that finds the handler busy is
\* dropped by the runtime.
SighupUnbuffered ==
  /\ Notified
  /\ reloadChan' = (phase = "serving" /\ rpc = "idle")
  /\ signalled' = Len(commits)
  /\ UNCHANGED <<phase, cancelled, handlerVars, memVars, commits, liveBanner,
                 enforced>>

\* sshctl reload.  Before signal.Notify the default action of SIGHUP ends the
\* process; after it the runtime does a non-blocking send to reloadChan.
SighupNotified ==
  /\ Notified
  /\ reloadChan' = TRUE
  /\ signalled' = Len(commits)
  /\ UNCHANGED <<phase, cancelled, handlerVars, memVars, commits, liveBanner,
                 enforced>>

SighupDefault == phase \in {"probing", "loading", "notifying"} /\ Die

Sighup == SighupNotified \/ SighupDefault

\* The upstream server is upgraded or downgraded and comes back.
UpstreamChanges ==
  /\ liveBanner' \in Banner \ {liveBanner}
  /\ UNCHANGED <<phase, cancelled, reloadChan, handlerVars, memVars, commits,
                 enforced, signalled>>

-----------------------------------------------------------------------------
(***************************************************************************)
(* handleReloads                                                           *)
(***************************************************************************)

ReceiveReload ==
  /\ HandlerUp /\ rpc = "idle" /\ reloadChan
  /\ rpc' = "load"
  /\ reloadChan' = FALSE
  /\ UNCHANGED <<phase, cancelled, loaded, probed, memVars, commits,
                 liveBanner, histVars>>

\* LoadBlockedHashes: one SELECT, a consistent snapshot.
LoadBlockedHashes ==
  /\ HandlerUp /\ rpc = "load"
  /\ rpc' = "apply"
  /\ loaded' = Blocked
  /\ loadedAt' = Len(commits)
  /\ missed' = FALSE
  /\ UNCHANGED <<phase, cancelled, reloadChan, probed, memVars, commits,
                 liveBanner, enforced, signalled>>

\* The query fails: the error is logged and the banner is still refreshed.
LoadFails ==
  /\ HandlerUp /\ rpc = "load"
  /\ rpc' = "probe"
  /\ missed' = TRUE
  /\ UNCHANGED <<phase, cancelled, reloadChan, loaded, probed, memVars,
                 commits, liveBanner, loadedAt, enforced, signalled>>

\* Fault: the new entries are added to the old map, which is not cleared.
ApplyByAdding ==
  /\ HandlerUp /\ rpc = "apply"
  /\ rpc' = "probe"
  /\ blocklist' = blocklist \cup loaded
  /\ enforced' = loadedAt
  /\ UNCHANGED <<phase, cancelled, reloadChan, loaded, probed, upstreamBanner,
                 commits, liveBanner, loadedAt, signalled, missed>>

\* BlocklistFilter.Reload: the map is replaced under its write lock.
ApplyBlocklist ==
  /\ HandlerUp /\ rpc = "apply"
  /\ rpc' = "probe"
  /\ blocklist' = loaded
  /\ enforced' = loadedAt
  /\ UNCHANGED <<phase, cancelled, reloadChan, loaded, probed, upstreamBanner,
                 commits, liveBanner, loadedAt, signalled, missed>>

\* refreshUpstreamBanner, up to the answer of the upstream server.
ProbeUpstream ==
  /\ HandlerUp /\ rpc = "probe"
  /\ rpc' = "store"
  /\ probed' = liveBanner
  /\ UNCHANGED <<phase, cancelled, reloadChan, loaded, memVars, commits,
                 liveBanner, histVars>>

\* Fault: the empty string of a failed probe is stored.
ProbeFailureStored ==
  /\ HandlerUp /\ rpc = "probe"
  /\ rpc' = "idle"
  /\ probed' = NoBanner /\ upstreamBanner' = NoBanner
  /\ UNCHANGED <<phase, cancelled, reloadChan, loaded, blocklist, commits,
                 liveBanner, histVars>>

\* The previous banner is kept.
ProbeFails ==
  /\ HandlerUp /\ rpc = "probe"
  /\ rpc' = "idle"
  /\ UNCHANGED <<phase, cancelled, reloadChan, loaded, probed, memVars,
                 commits, liveBanner, histVars>>

\* Fault: signals that came in meanwhile are drained as already served.
StoreAndDrain ==
  /\ HandlerUp /\ rpc = "store"
  /\ rpc' = "idle"
  /\ reloadChan' = FALSE
  /\ upstreamBanner' = probed
  /\ UNCHANGED <<phase, cancelled, loaded, probed, blocklist, commits,
                 liveBanner, histVars>>

\* The assignment under bannerMu.
StoreBanner ==
  /\ HandlerUp /\ rpc = "store"
  /\ rpc' = "idle"
  /\ upstreamBanner' = probed
  /\ UNCHANGED <<phase, cancelled, reloadChan, loaded, probed, blocklist,
                 commits, liveBanner, histVars>>

\* The select takes ctx.Done(); it may, even with a signal waiting.
StopHandler ==
  /\ HandlerUp /\ rpc = "idle" /\ cancelled
  /\ rpc' = "stopped"
  /\ UNCHANGED <<phase, cancelled, reloadChan, loaded, probed, memVars,
                 commits, liveBanner, histVars>>

-----------------------------------------------------------------------------
Startup == \/ StartProcess
           \/ ProbeAtStart
           \/ LoadAtStart
           \/ NotifyAtStart
           \/ ListenAndSpawn

HandleReloads == \/ ReceiveReload
                 \/ LoadBlockedHashes
                 \/ LoadFails
                 \/ ApplyBlocklist
                 \/ ProbeUpstream
                 \/ ProbeFails
                 \/ StoreBanner
                 \/ StopHandler

Outside == \/ \E h \in Hash : BlockHASH(h) \/ UnblockHASH(h)
           \/ Sighup
           \/ UpstreamChanges
           \/ Cancel
           \/ Crash

ReloadNext == Startup \/ HandleReloads \/ Outside \/ Exit

ReloadSpec == ReloadInit /\ [][ReloadNext]_reloadVars

\* The goroutine is scheduled, the query returns (SQLite's busy timeout) and
\* the probe returns (upstreamBannerFetchTimeout).
ReloadFairness == WF_reloadVars(HandleReloads)

-----------------------------------------------------------------------------
(***************************************************************************)
(* Properties                                                              *)
(***************************************************************************)

\* Types, by phase: from the first probe on a process always has a banner to greet
\* clients with, a failed refresh included.
ControlTypeOK ==
  /\ phase \in Phases
  /\ cancelled \in BOOLEAN
  /\ reloadChan \in BOOLEAN
  /\ rpc \in HandlerStates
  /\ missed \in BOOLEAN

MemoryTypeOK ==
  /\ loaded \in SUBSET Hash
  /\ blocklist \in SUBSET Hash
  /\ \A b \in {probed, upstreamBanner} :
       b \in IF phase \in {"down", "probing"} THEN {NoBanner} ELSE Banner
  /\ liveBanner \in Banner

HistoryTypeOK ==
  /\ commits \in Seq(SUBSET Hash) \ {<<>>}
  /\ loadedAt \in 1..Len(commits)
  /\ enforced \in 1..Len(commits)
  /\ signalled \in 0..Len(commits)

ReloadTypeOK == ControlTypeOK /\ MemoryTypeOK /\ HistoryTypeOK

\* The blocklist a process enforces is one committed state of the database, and
\* so is the result set about to replace it: a reload replaces the whole list
\* (BlocklistFilter.Reload), it never leaves a mix of two states, whatever
\* edits, failures, crashes and restarts come between.
BlocklistIsOneCommit ==
  /\ phase \in {"notifying", "listening", "serving"} =>
       blocklist = commits[enforced]
  /\ rpc = "apply" => loaded = commits[loadedAt]

\* A SIGHUP the process has received is never lost to the one-slot channel: as
\* long as the handler runs, the blocklist is at least as recent as the database
\* was at the last SIGHUP, or a reload that will see that much is still due, or
\* the last query failed.
NoReloadLost ==
  HandlerUp =>
    \/ signalled <= enforced
    \/ reloadChan
    \/ rpc = "load"
    \/ rpc = "apply" /\ signalled <= loadedAt
    \/ missed

\* Enforcement never goes back to an older state of the database, not even
\* across a crash and a restart (reloadBlocklist has one caller at a time).
EnforcementNeverRegresses == [][enforced' >= enforced]_reloadVars

\* A SIGHUP received when the database was at commit n is answered: the process
\* comes to enforce commit n or a later one, unless a query fails, a shutdown
\* begins or the process ends. (Commit 1 is there from the start.)
SighupIsAnswered ==
  \A n \in 2..MaxCommits :
    phase = "serving" /\ signalled = n
      ~> enforced >= n \/ missed \/ cancelled \/ phase # "serving"

=============================================================================
