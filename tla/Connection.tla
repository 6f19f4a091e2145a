----------------------------- MODULE Connection -----------------------------
(***************************************************************************)
(* Server.handleConnection, one handler goroutine per client connection,   *)
(* running beside the configuration plane of module Reload.                *)
(*                                                                         *)
(* A handler greets the client with the cached banner, captures the        *)
(* client's handshake, looks its fingerprint up in the blocklist, and only *)
(* then dials the upstream server, compares the banner that server         *)
(* presents with the cached one and relays.  Each access to state shared   *)
(* with other goroutines, and each network operation, is a step.           *)
(***************************************************************************)
EXTENDS Reload

CONSTANTS
  Conn,     \* client connections
  NoHash    \* no fingerprint (yet)

ASSUME NoHashAssumption == NoHash \notin Hash

VARIABLES
  pc,         \* control state of the handler
  sent,       \* the banner the client was greeted with
  print,      \* fp.Hash, once the handshake is captured
  verdict,    \* the outcome of the lookup
  live,       \* the banner read on the handler's own upstream connection
  contacted,  \* connections for which the upstream server was dialed
  forwarded,  \* connections whose client bytes flow to the upstream server
  record      \* the goroutine that runs RecordConnection

(***************************************************************************)
(* History: the commit enforced when the connection was accepted, and      *)
(* whether the cached banner changed between the greeting and the check.   *)
(***************************************************************************)
VARIABLES acceptedAt, refreshed

connVars == <<pc, sent, print, verdict, live, contacted, forwarded, record,
              acceptedAt, refreshed>>
vars == <<reloadVars, connVars>>

PcStates == {"idle", "greet", "capture", "classify", "dial", "readBanner",
             "check", "replay", "extra", "relay", "closed"}
Verdicts == {"none", "unclassified", "allowed", "blocked"}
RecordStates == {"none", "pending", "stored", "failed", "lost", "dropped"}

\* Between the greeting and the comparison of the banners.
Uncommitted == {"capture", "classify", "dial", "readBanner", "check"}

\* Past the comparison of the banners.
Committed == {"replay", "extra", "relay"}

Active(c) == pc[c] \notin {"idle", "closed"}

Init ==
  /\ ReloadInit
  /\ pc = [c \in Conn |-> "idle"]
  /\ sent = [c \in Conn |-> NoBanner]
  /\ print = [c \in Conn |-> NoHash]
  /\ verdict = [c \in Conn |-> "none"]
  /\ live = [c \in Conn |-> NoBanner]
  /\ contacted = {}
  /\ forwarded = {}
  /\ record = [c \in Conn |-> "none"]
  /\ acceptedAt = [c \in Conn |-> 1]
  /\ refreshed = [c \in Conn |-> FALSE]

-----------------------------------------------------------------------------
(***************************************************************************)
(* The handler                                                             *)
(***************************************************************************)

Goto(c, to) == pc' = [pc EXCEPT ![c] = to]

\* Any network operation before the relay can fail; the deferred Close calls
\* then end the connection on both sides.
Fail(c) ==
  /\ pc[c] \in {"greet", "dial", "readBanner", "replay", "extra"}
  /\ Goto(c, "closed")
  /\ UNCHANGED <<reloadVars, sent, print, verdict, live, contacted, forwarded,
                 record, acceptedAt, refreshed>>

\* Start hands an accepted connection to a new handler goroutine (module
\* AcceptLoop has the details); the accept may race with the cancellation.
Accept(c) ==
  /\ phase = "serving" /\ pc[c] = "idle"
  /\ Goto(c, "greet")
  /\ acceptedAt' = [acceptedAt EXCEPT ![c] = enforced]
  /\ UNCHANGED <<reloadVars, sent, print, verdict, live, contacted, forwarded,
                 record, refreshed>>

\* clientConn.Write(currentBanner()).
Greet(c) ==
  /\ pc[c] = "greet"
  /\ Goto(c, "capture")
  /\ sent' = [sent EXCEPT ![c] = upstreamBanner]
  /\ refreshed' = [refreshed EXCEPT ![c] = FALSE]
  /\ UNCHANGED <<reloadVars, print, verdict, live, contacted, forwarded,
                 record, acceptedAt>>

\* Fault: the handshake being captured is kept in the Server, not in the handler.
CaptureShared(c, h) ==
  /\ pc[c] = "capture"
  /\ Goto(c, "classify")
  /\ print' = [d \in Conn |-> IF pc[d] \in {"capture", "classify"} THEN h
                              ELSE print[d]]
  /\ UNCHANGED <<reloadVars, sent, verdict, live, contacted, forwarded, record,
                 acceptedAt, refreshed>>

\* CaptureHandshake extracts a fingerprint within its time and size budget.
CaptureOK(c, h) ==
  /\ pc[c] = "capture"
  /\ Goto(c, "classify")
  /\ print' = [print EXCEPT ![c] = h]
  /\ UNCHANGED <<reloadVars, sent, verdict, live, contacted, forwarded, record,
                 acceptedAt, refreshed>>

\* Fault: the capture has no deadline, and a silent client holds the handler.
CaptureWithoutDeadline(c) == pc[c] = "capture" /\ FALSE /\ UNCHANGED vars

\* Timeout, budget exhausted or a client gone: the connection is proxied
\* unclassified and not recorded.
CaptureFails(c) ==
  /\ pc[c] = "capture"
  /\ Goto(c, "dial")
  /\ verdict' = [verdict EXCEPT ![c] = "unclassified"]
  /\ UNCHANGED <<reloadVars, sent, print, live, contacted, forwarded, record,
                 acceptedAt, refreshed>>

\* blocklist.Contains and the two outcomes; either way a goroutine is spawned
\* that records the connection.
Classify(c) ==
  /\ pc[c] = "classify"
  /\ IF print[c] \in blocklist
     THEN Goto(c, "closed") /\ verdict' = [verdict EXCEPT ![c] = "blocked"]
     ELSE Goto(c, "dial") /\ verdict' = [verdict EXCEPT ![c] = "allowed"]
  /\ record' = [record EXCEPT ![c] = "pending"]
  /\ UNCHANGED <<reloadVars, sent, print, live, contacted, forwarded,
                 acceptedAt, refreshed>>

\* Fault: the dial overlaps the lookup, to hide the latency of the upstream.
DialEarly(c) ==
  /\ pc[c] \in {"classify", "dial"}
  /\ pc' = [pc EXCEPT ![c] = IF pc[c] = "dial" THEN "readBanner" ELSE pc[c]]
  /\ contacted' = contacted \cup {c}
  /\ live' = [live EXCEPT ![c] = liveBanner]
  /\ UNCHANGED <<reloadVars, sent, print, verdict, forwarded, record,
                 acceptedAt, refreshed>>

\* net.Dial; the upstream server presents the banner it has at that moment.
Dial(c) ==
  /\ pc[c] = "dial"
  /\ Goto(c, "readBanner")
  /\ contacted' = contacted \cup {c}
  /\ live' = [live EXCEPT ![c] = liveBanner]
  /\ UNCHANGED <<reloadVars, sent, print, verdict, forwarded, record,
                 acceptedAt, refreshed>>

\* readIdentificationLine.
ReadBanner(c) ==
  /\ pc[c] = "readBanner"
  /\ Goto(c, "check")
  /\ UNCHANGED <<reloadVars, sent, print, verdict, live, contacted, forwarded,
                 record, acceptedAt, refreshed>>

\* Fault: the live banner is consumed and never compared.
CheckNothing(c) ==
  /\ pc[c] = "check"
  /\ Goto(c, "replay")
  /\ UNCHANGED <<reloadVars, sent, print, verdict, live, contacted, forwarded,
                 record, acceptedAt, refreshed>>

\* currentBanner() is read a second time and compared with the live banner;
\* what the client was sent is not consulted.
CheckBanner(c) ==
  /\ pc[c] = "check"
  /\ Goto(c, IF live[c] = upstreamBanner THEN "replay" ELSE "closed")
  /\ UNCHANGED <<reloadVars, sent, print, verdict, live, contacted, forwarded,
                 record, acceptedAt, refreshed>>

\* The captured bytes are written to the upstream server.
Replay(c) ==
  /\ pc[c] = "replay"
  /\ Goto(c, "extra")
  /\ forwarded' = forwarded \cup {c}
  /\ UNCHANGED <<reloadVars, sent, print, verdict, live, contacted, record,
                 acceptedAt, refreshed>>

\* What trailed the upstream banner is written to the client.
RelayExtra(c) ==
  /\ pc[c] = "extra"
  /\ Goto(c, "relay")
  /\ UNCHANGED <<reloadVars, sent, print, verdict, live, contacted, forwarded,
                 record, acceptedAt, refreshed>>

\* Both io.Copy goroutines have reported to the done channel.
EndRelay(c) ==
  /\ pc[c] = "relay"
  /\ Goto(c, "closed")
  /\ UNCHANGED <<reloadVars, sent, print, verdict, live, contacted, forwarded,
                 record, acceptedAt, refreshed>>

\* The recording goroutine ends; an error is logged.
RecordEnds(c) ==
  /\ record[c] = "pending"
  /\ \E r \in {"stored", "failed"} : record' = [record EXCEPT ![c] = r]
  /\ UNCHANGED <<reloadVars, pc, sent, print, verdict, live, contacted,
                 forwarded, acceptedAt, refreshed>>

-----------------------------------------------------------------------------
(***************************************************************************)
(* The configuration plane, seen from the handlers                         *)
(***************************************************************************)

\* A step of module Reload that leaves the process up (or down).
Reconfigure ==
  /\ Startup \/ HandleReloads \/ Outside
  /\ phase' = "down" => phase = "down"
  /\ refreshed' = [c \in Conn |->
                     \/ refreshed[c]
                     \/ pc[c] \in Uncommitted /\ upstreamBanner' # upstreamBanner]
  /\ UNCHANGED <<pc, sent, print, verdict, live, contacted, forwarded, record,
                 acceptedAt>>

\* With the process, its goroutines and sockets are gone.
EndProcess(unfinished) ==
  /\ pc' = [c \in Conn |-> IF Active(c) THEN "closed" ELSE pc[c]]
  /\ record' = [c \in Conn |->
                  IF record[c] = "pending" THEN unfinished ELSE record[c]]
  /\ UNCHANGED <<sent, print, verdict, live, contacted, forwarded, acceptedAt,
                 refreshed>>

ProcessCrash == (Crash \/ SighupDefault) /\ EndProcess("lost")

\* Start waits for the handlers (activeConns.Wait), not for the goroutines
\* that record connections.
ProcessExit ==
  /\ Exit
  /\ \A c \in Conn : ~Active(c)
  /\ EndProcess("dropped")

\* What the handler does without waiting for its peers to be cooperative: its own
\* steps, and the expiry or failure of each wait.
OwnStep(c) ==
  \/ Greet(c)
  \/ CaptureFails(c)
  \/ Classify(c)
  \/ CheckBanner(c)
  \/ Replay(c)
  \/ RelayExtra(c)
  \/ Fail(c)

\* What only the client or the upstream server brings about.
PeerStep(c) ==
  \/ \E h \in Hash : CaptureOK(c, h)
  \/ Dial(c)
  \/ ReadBanner(c)
  \/ EndRelay(c)

Next ==
  \/ \E c \in Conn : Accept(c) \/ OwnStep(c) \/ PeerStep(c) \/ RecordEnds(c)
  \/ Reconfigure
  \/ ProcessCrash
  \/ ProcessExit

Spec == Init /\ [][Next]_vars

\* A handler is scheduled, the capture and the read of the upstream banner have
\* handshakeTimeout, a dial ends by the operating system's timeout. The peers owe
\* nothing, and the relay has no timeout. So is the SIGHUP handler.
Fairness == ReloadFairness /\ \A c \in Conn : WF_vars(OwnStep(c))

FairSpec == Spec /\ Fairness

-----------------------------------------------------------------------------
(***************************************************************************)
(* Properties                                                              *)
(***************************************************************************)

TypeOK ==
  /\ ReloadTypeOK
  /\ pc \in [Conn -> PcStates]
  /\ sent \in [Conn -> Banner \cup {NoBanner}]
  /\ print \in [Conn -> Hash \cup {NoHash}]
  /\ verdict \in [Conn -> Verdicts]
  /\ live \in [Conn -> Banner \cup {NoBanner}]
  /\ contacted \in SUBSET Conn
  /\ forwarded \in SUBSET Conn
  /\ record \in [Conn -> RecordStates]
  /\ acceptedAt \in [Conn -> 1..Len(commits)]
  /\ refreshed \in [Conn -> BOOLEAN]

\* The promise of handleConnection's comment: a connection classified as blocked
\* causes no upstream connection, and none of its bytes reach the backend; nobody
\* is dialed for before the verdict.
BlockedNeverReachesUpstream ==
  /\ \A c \in contacted : verdict[c] \in {"allowed", "unclassified"}
  /\ forwarded \subseteq contacted

\* End to end, from sshctl block to the verdict: the verdict on a connection is
\* the one some committed state of the database demands, and that state is no
\* older than the list enforced when the connection was accepted. So once a
\* reload that saw a block has completed, every connection accepted after it is
\* refused as long as the block stands, across reloads, crashes and restarts.
VerdictFollowsDatabase ==
  \A c \in Conn :
    /\ verdict[c] = "allowed" =>
         \E k \in acceptedAt[c]..Len(commits) : print[c] \notin commits[k]
    /\ verdict[c] = "blocked" =>
         \E k \in acceptedAt[c]..Len(commits) : print[c] \in commits[k]

\* Seen from the operator, the proxy is the gate of module Gate: the in-memory
\* list that a verdict consults is the policy in force, although it is loaded,
\* swapped, lost and reloaded behind the handlers' back.
Fate(p, v) ==
  CASE p = "idle" -> "out"
    [] v = "blocked" -> "refused"
    [] v \in {"allowed", "unclassified"} -> "admitted"
    [] v = "none" /\ p = "closed" -> "gone"
    [] OTHER -> "pending"

G == INSTANCE Gate WITH
  policy <- commits,
  current <- enforced,
  seen <- print,
  fate <- [c \in Conn |-> Fate(pc[c], verdict[c])],
  touched <- contacted

ImplementsGate == G!GateSpec

\* Client bytes reach the upstream server only if the client was greeted with
\* the banner that very upstream connection presented, except when a SIGHUP
\* changed the cached banner while the handshake was under way.
BannersAgreeUnlessRefreshed ==
  \A c \in forwarded : sent[c] = live[c] \/ refreshed[c]

\* What the comment before the check and the regression test on banner
\* mismatches say without that exception.
BannersAgree == \A c \in forwarded : sent[c] = live[c]

\* Every accepted connection is eventually relayed or closed, whatever reloads,
\* edits and banner changes happen meanwhile: no step before the relay waits for
\* the client or the upstream server for ever.
HandshakeResolves ==
  \A c \in Conn : pc[c] = "greet" ~> pc[c] \in {"relay", "closed"}

=============================================================================
