-------------------------- MODULE ConnectionProofs --------------------------
(***************************************************************************)
(* Proofs about module Connection, for every set of connections,           *)
(* fingerprints and banners and every history of the blocked set.          *)
(***************************************************************************)
EXTENDS Connection, ReloadProofs

Undecided == {"idle", "greet", "capture", "classify"}
Admitted == {"dial", "readBanner", "check", "replay", "extra", "relay"}

ConnTypeOK ==
  /\ pc \in [Conn -> PcStates]
  /\ sent \in [Conn -> Banner \cup {NoBanner}]
  /\ print \in [Conn -> Hash \cup {NoHash}]
  /\ verdict \in [Conn -> Verdicts]
  /\ live \in [Conn -> Banner \cup {NoBanner}]
  /\ contacted \in SUBSET Conn
  /\ forwarded \in SUBSET Conn
  /\ record \in [Conn -> RecordStates]
  /\ acceptedAt \in [Conn -> 1..Len(commits)]
  /\ refreshed \in [Conn -> BOOLEAN]

\* A handler runs in a serving process, and the list enforced is at least as
\* recent as when its connection was accepted.
HandlersServe ==
  \A c \in Conn : Active(c) => phase = "serving" /\ acceptedAt[c] <= enforced

\* What the control state of a handler says about the fingerprint, the verdict
\* and the upstream connection.
ControlAgrees ==
  \A c \in Conn :
    /\ pc[c] \in {"idle", "greet", "capture"} => print[c] = NoHash
    /\ pc[c] = "classify" => print[c] \in Hash
    /\ pc[c] \in Undecided => verdict[c] = "none"
    /\ pc[c] \in Admitted => verdict[c] \in {"allowed", "unclassified"}

UpstreamAgrees ==
  \A c \in Conn :
    /\ c \in contacted => verdict[c] \in {"allowed", "unclassified"}
    /\ pc[c] \in Committed \cup {"check", "readBanner"} => c \in contacted
    /\ c \in forwarded => c \in contacted /\ pc[c] \in {"extra", "relay", "closed"}

\* BannersAgreeUnlessRefreshed, followed back to the greeting: before the check
\* the client has the cached banner, after it the live one.
BannerFollowed ==
  \A c \in Conn :
    /\ pc[c] \in Uncommitted => sent[c] = upstreamBanner \/ refreshed[c]
    /\ pc[c] \in Committed => sent[c] = live[c] \/ refreshed[c]

ConnIInv ==
  /\ ReloadIInv
  /\ ConnTypeOK
  /\ HandlersServe
  /\ ControlAgrees
  /\ UpstreamAgrees
  /\ VerdictFollowsDatabase
  /\ BannerFollowed
  /\ BannersAgreeUnlessRefreshed

-----------------------------------------------------------------------------
\* Every step of the composition is a step of the configuration plane, or leaves
\* it alone.
LEMMA StepOfPlane ==
  ASSUME [Next]_vars
  PROVE  [ReloadNext]_reloadVars
  <1>1. Reconfigure \/ ProcessCrash \/ ProcessExit => ReloadNext
    BY DEF Reconfigure, ProcessCrash, ProcessExit, ReloadNext, Outside, Sighup
  <1>2. ASSUME NEW c \in Conn,
               Accept(c) \/ OwnStep(c) \/ PeerStep(c) \/ RecordEnds(c)
        PROVE  UNCHANGED reloadVars
    BY <1>2 DEF OwnStep, PeerStep, Accept, Greet, CaptureOK, CaptureFails,
         Classify, Dial, ReadBanner, CheckBanner, Replay, RelayExtra, EndRelay,
         Fail, RecordEnds
  <1> QED
    BY <1>1, <1>2 DEF Next, vars

\* What the plane keeps for the handlers from one step to the next.
LEMMA PlaneStep ==
  ASSUME ReloadIInv, [ReloadNext]_reloadVars
  PROVE  /\ ReloadIInv'
         /\ Len(commits) \in Nat \ {0} /\ Len(commits') \in Nat
         /\ Len(commits) <= Len(commits')
         /\ \A k \in 1..Len(commits) : commits'[k] = commits[k]
         /\ enforced \in 1..Len(commits) /\ enforced <= enforced'
         /\ enforced' \in 1..Len(commits')
  <1>1. ReloadIInv'
    BY ReloadStepInv
  <1>2. enforced <= enforced' /\ enforced \in 1..Len(commits) /\ enforced' \in 1..Len(commits')
    BY <1>1, EnforcementStep DEF ReloadIInv, ReloadTypeOK, HistoryTypeOK
  <1>3. commits \in Seq(SUBSET Hash) \ {<<>>} /\ commits' \in Seq(SUBSET Hash) \ {<<>>}
    BY <1>1 DEF ReloadIInv, ReloadTypeOK, HistoryTypeOK
  <1>4. commits' = commits \/ \E b \in SUBSET Hash : commits' = Append(commits, b)
    <2> USE DEF handlerVars, memVars, histVars
    <2>1. Blocked \in SUBSET Hash
      BY <1>3, LastCommit DEF Blocked
    <2>2. ASSUME NEW h \in Hash, BlockHASH(h) \/ UnblockHASH(h)
          PROVE  \E b \in SUBSET Hash : commits' = Append(commits, b)
      BY <2>1, <2>2 DEF BlockHASH, UnblockHASH, Commit
    <2>3. Startup \/ HandleReloads \/ Exit => commits' = commits
      BY DEF Startup, StartProcess, ProbeAtStart, LoadAtStart, NotifyAtStart,
             ListenAndSpawn, HandleReloads, ReceiveReload, LoadBlockedHashes,
             LoadFails, ApplyBlocklist, ProbeUpstream, ProbeFails, StoreBanner,
             StopHandler, Exit, Die
    <2>4. Sighup \/ UpstreamChanges \/ Cancel \/ Crash => commits' = commits
      BY DEF Sighup, SighupNotified, SighupDefault, UpstreamChanges, Cancel,
             Crash, Die
    <2> QED
      BY <2>2, <2>3, <2>4 DEF ReloadNext, Outside, reloadVars
  <1> QED
    BY <1>1, <1>2, <1>3, <1>4, AppendCommit, LastCommit

\* No connection has a verdict, a banner or an upstream socket to begin with.
THEOREM ConnInitInv == Init => ConnIInv
  <1> SUFFICES ASSUME Init PROVE ConnIInv
    OBVIOUS
  <1> USE DEF Init
  <1>1. ReloadIInv
    BY ReloadInitInv
  <1>2. Len(commits) = 1
    BY DEF ReloadInit
  <1>3. ConnTypeOK
    BY <1>2 DEF ConnTypeOK, PcStates, Verdicts, RecordStates
  <1>4. HandlersServe /\ ControlAgrees /\ UpstreamAgrees
    BY DEF HandlersServe, Active, ControlAgrees, UpstreamAgrees, Undecided,
           Admitted, Committed
  <1>5. VerdictFollowsDatabase /\ BannerFollowed /\ BannersAgreeUnlessRefreshed
    BY DEF VerdictFollowsDatabase, BannerFollowed, BannersAgreeUnlessRefreshed,
           Uncommitted, Committed
  <1> QED
    BY <1>1, <1>3, <1>4, <1>5 DEF ConnIInv

-----------------------------------------------------------------------------
\* The steps of a handler leave the plane alone and change only their own
\* connection.
THEOREM HandlerStepInv ==
  ASSUME ConnIInv, NEW c \in Conn,
         Accept(c) \/ OwnStep(c) \/ PeerStep(c) \/ RecordEnds(c)
  PROVE  ConnIInv'
  <1> USE DEF ConnIInv, Goto
  <1>1. UNCHANGED reloadVars /\ ReloadIInv'
    <2>1. UNCHANGED reloadVars
      BY DEF OwnStep, PeerStep, Accept, Greet, CaptureOK, CaptureFails, Classify,
             Dial, ReadBanner, CheckBanner, Replay, RelayExtra, EndRelay, Fail,
             RecordEnds
    <2> QED
      BY <2>1, ReloadStepInv
  <1>2. /\ Len(commits) \in Nat \ {0} /\ enforced \in 1..Len(commits)
        /\ upstreamBanner \in Banner \cup {NoBanner} /\ liveBanner \in Banner
    BY LastCommit DEF ReloadIInv, ReloadTypeOK, HistoryTypeOK, MemoryTypeOK
  <1>3. UNCHANGED <<phase, commits, enforced, upstreamBanner>>
    BY <1>1 DEF reloadVars, histVars
  <1>4. CASE Accept(c)
    <2> USE <1>2, <1>3, <1>4 DEF Accept
    <2>1. ConnTypeOK'
      BY DEF ConnTypeOK, PcStates, Verdicts, RecordStates
    <2>2. HandlersServe' /\ ControlAgrees' /\ UpstreamAgrees'
      BY DEF ConnTypeOK, HandlersServe, Active, ControlAgrees, UpstreamAgrees,
             Undecided, Admitted, Committed
    <2>3. VerdictFollowsDatabase'
      BY DEF ConnTypeOK, VerdictFollowsDatabase, ControlAgrees, Undecided
    <2>4. BannerFollowed' /\ BannersAgreeUnlessRefreshed'
      BY DEF ConnTypeOK, BannerFollowed, BannersAgreeUnlessRefreshed,
             UpstreamAgrees, Uncommitted, Committed
    <2> QED
      BY <1>1, <2>1, <2>2, <2>3, <2>4
  <1>5. CASE Greet(c)
    <2> USE <1>2, <1>3, <1>5 DEF Greet
    <2>1. ConnTypeOK'
      BY DEF ConnTypeOK, PcStates, Verdicts, RecordStates
    <2>2. HandlersServe' /\ ControlAgrees' /\ UpstreamAgrees'
      BY DEF ConnTypeOK, HandlersServe, Active, ControlAgrees, UpstreamAgrees,
             Undecided, Admitted, Committed
    <2>3. VerdictFollowsDatabase'
      BY DEF ConnTypeOK, VerdictFollowsDatabase, ControlAgrees, Undecided
    <2>4. BannerFollowed' /\ BannersAgreeUnlessRefreshed'
      BY DEF ConnTypeOK, BannerFollowed, BannersAgreeUnlessRefreshed,
             UpstreamAgrees, Uncommitted, Committed
    <2> QED
      BY <1>1, <2>1, <2>2, <2>3, <2>4
  <1>6. CASE \E h \in Hash : CaptureOK(c, h)
    <2> USE <1>2, <1>3, <1>6 DEF CaptureOK
    <2>1. ConnTypeOK'
      BY DEF ConnTypeOK, PcStates, Verdicts, RecordStates
    <2>2. HandlersServe' /\ ControlAgrees' /\ UpstreamAgrees'
      BY DEF ConnTypeOK, HandlersServe, Active, ControlAgrees, UpstreamAgrees,
             Undecided, Admitted, Committed
    <2>3. VerdictFollowsDatabase'
      BY DEF ConnTypeOK, VerdictFollowsDatabase, ControlAgrees, Undecided
    <2>4. BannerFollowed' /\ BannersAgreeUnlessRefreshed'
      BY DEF ConnTypeOK, BannerFollowed, BannersAgreeUnlessRefreshed,
             UpstreamAgrees, Uncommitted, Committed
    <2> QED
      BY <1>1, <2>1, <2>2, <2>3, <2>4
  <1>7. CASE CaptureFails(c)
    <2> USE <1>2, <1>3, <1>7 DEF CaptureFails
    <2>1. ConnTypeOK'
      BY DEF ConnTypeOK, PcStates, Verdicts, RecordStates
    <2>2. HandlersServe' /\ ControlAgrees' /\ UpstreamAgrees'
      BY DEF ConnTypeOK, HandlersServe, Active, ControlAgrees, UpstreamAgrees,
             Undecided, Admitted, Committed
    <2>3. VerdictFollowsDatabase'
      BY DEF ConnTypeOK, VerdictFollowsDatabase, ControlAgrees, Undecided
    <2>4. BannerFollowed' /\ BannersAgreeUnlessRefreshed'
      BY DEF ConnTypeOK, BannerFollowed, BannersAgreeUnlessRefreshed,
             UpstreamAgrees, Uncommitted, Committed
    <2> QED
      BY <1>1, <2>1, <2>2, <2>3, <2>4
  <1>8. CASE Classify(c)
    <2> USE <1>2, <1>3, <1>8 DEF Classify
    <2>1. ConnTypeOK'
      BY DEF ConnTypeOK, PcStates, Verdicts, RecordStates
    <2>2. HandlersServe' /\ ControlAgrees' /\ UpstreamAgrees'
      BY DEF ConnTypeOK, HandlersServe, Active, ControlAgrees, UpstreamAgrees,
             Undecided, Admitted, Committed
    <2>3. VerdictFollowsDatabase'
      <3>1. blocklist = commits[enforced] /\ enforced \in acceptedAt[c]..Len(commits)
        <4>1. phase = "serving" /\ acceptedAt[c] <= enforced
          BY DEF HandlersServe, Active
        <4>2. blocklist = commits[enforced]
          BY <4>1 DEF ReloadIInv, BlocklistIsOneCommit
        <4>3. acceptedAt[c] \in 1..Len(commits)
          BY DEF ConnTypeOK
        <4> QED
          BY <4>1, <4>2, <4>3
      <3>2. /\ verdict' = [verdict EXCEPT ![c] =
                   IF print[c] \in commits[enforced] THEN "blocked" ELSE "allowed"]
            /\ UNCHANGED <<print, acceptedAt>>
        BY <3>1
      <3> QED
        BY <3>1, <3>2 DEF ConnTypeOK, VerdictFollowsDatabase
    <2>4. BannerFollowed' /\ BannersAgreeUnlessRefreshed'
      BY DEF ConnTypeOK, BannerFollowed, BannersAgreeUnlessRefreshed,
             UpstreamAgrees, Uncommitted, Committed
    <2> QED
      BY <1>1, <2>1, <2>2, <2>3, <2>4
  <1>9. CASE Dial(c)
    <2> USE <1>2, <1>3, <1>9 DEF Dial
    <2>1. ConnTypeOK'
      BY DEF ConnTypeOK, PcStates, Verdicts, RecordStates
    <2>2. HandlersServe' /\ ControlAgrees' /\ UpstreamAgrees'
      BY DEF ConnTypeOK, HandlersServe, Active, ControlAgrees, UpstreamAgrees,
             Undecided, Admitted, Committed
    <2>3. VerdictFollowsDatabase'
      BY DEF ConnTypeOK, VerdictFollowsDatabase, ControlAgrees, Undecided
    <2>4. BannerFollowed' /\ BannersAgreeUnlessRefreshed'
      BY DEF ConnTypeOK, BannerFollowed, BannersAgreeUnlessRefreshed,
             UpstreamAgrees, Uncommitted, Committed
    <2> QED
      BY <1>1, <2>1, <2>2, <2>3, <2>4
  <1>10. CASE ReadBanner(c)
    <2> USE <1>2, <1>3, <1>10 DEF ReadBanner
    <2>1. ConnTypeOK'
      BY DEF ConnTypeOK, PcStates, Verdicts, RecordStates
    <2>2. HandlersServe' /\ ControlAgrees' /\ UpstreamAgrees'
      BY DEF ConnTypeOK, HandlersServe, Active, ControlAgrees, UpstreamAgrees,
             Undecided, Admitted, Committed
    <2>3. VerdictFollowsDatabase'
      BY DEF ConnTypeOK, VerdictFollowsDatabase, ControlAgrees, Undecided
    <2>4. BannerFollowed' /\ BannersAgreeUnlessRefreshed'
      BY DEF ConnTypeOK, BannerFollowed, BannersAgreeUnlessRefreshed,
             UpstreamAgrees, Uncommitted, Committed
    <2> QED
      BY <1>1, <2>1, <2>2, <2>3, <2>4
  <1>11. CASE CheckBanner(c)
    <2> USE <1>2, <1>3, <1>11 DEF CheckBanner
    <2>1. ConnTypeOK'
      BY DEF ConnTypeOK, PcStates, Verdicts, RecordStates
    <2>2. HandlersServe' /\ ControlAgrees' /\ UpstreamAgrees'
      BY DEF ConnTypeOK, HandlersServe, Active, ControlAgrees, UpstreamAgrees,
             Undecided, Admitted, Committed
    <2>3. VerdictFollowsDatabase'
      BY DEF ConnTypeOK, VerdictFollowsDatabase, ControlAgrees, Undecided
    <2>4. BannerFollowed' /\ BannersAgreeUnlessRefreshed'
      BY DEF ConnTypeOK, BannerFollowed, BannersAgreeUnlessRefreshed,
             UpstreamAgrees, Uncommitted, Committed
    <2> QED
      BY <1>1, <2>1, <2>2, <2>3, <2>4
  <1>12. CASE Replay(c)
    <2> USE <1>2, <1>3, <1>12 DEF Replay
    <2>1. ConnTypeOK'
      BY DEF ConnTypeOK, PcStates, Verdicts, RecordStates
    <2>2. HandlersServe' /\ ControlAgrees' /\ UpstreamAgrees'
      BY DEF ConnTypeOK, HandlersServe, Active, ControlAgrees, UpstreamAgrees,
             Undecided, Admitted, Committed
    <2>3. VerdictFollowsDatabase'
      BY DEF ConnTypeOK, VerdictFollowsDatabase, ControlAgrees, Undecided
    <2>4. BannerFollowed' /\ BannersAgreeUnlessRefreshed'
      BY DEF ConnTypeOK, BannerFollowed, BannersAgreeUnlessRefreshed,
             UpstreamAgrees, Uncommitted, Committed
    <2> QED
      BY <1>1, <2>1, <2>2, <2>3, <2>4
  <1>13. CASE RelayExtra(c)
    <2> USE <1>2, <1>3, <1>13 DEF RelayExtra
    <2>1. ConnTypeOK'
      BY DEF ConnTypeOK, PcStates, Verdicts, RecordStates
    <2>2. HandlersServe' /\ ControlAgrees' /\ UpstreamAgrees'
      BY DEF ConnTypeOK, HandlersServe, Active, ControlAgrees, UpstreamAgrees,
             Undecided, Admitted, Committed
    <2>3. VerdictFollowsDatabase'
      BY DEF ConnTypeOK, VerdictFollowsDatabase, ControlAgrees, Undecided
    <2>4. BannerFollowed' /\ BannersAgreeUnlessRefreshed'
      BY DEF ConnTypeOK, BannerFollowed, BannersAgreeUnlessRefreshed,
             UpstreamAgrees, Uncommitted, Committed
    <2> QED
      BY <1>1, <2>1, <2>2, <2>3, <2>4
  <1>14. CASE EndRelay(c)
    <2> USE <1>2, <1>3, <1>14 DEF EndRelay
    <2>1. ConnTypeOK'
      BY DEF ConnTypeOK, PcStates, Verdicts, RecordStates
    <2>2. HandlersServe' /\ ControlAgrees' /\ UpstreamAgrees'
      BY DEF ConnTypeOK, HandlersServe, Active, ControlAgrees, UpstreamAgrees,
             Undecided, Admitted, Committed
    <2>3. VerdictFollowsDatabase'
      BY DEF ConnTypeOK, VerdictFollowsDatabase, ControlAgrees, Undecided
    <2>4. BannerFollowed' /\ BannersAgreeUnlessRefreshed'
      BY DEF ConnTypeOK, BannerFollowed, BannersAgreeUnlessRefreshed,
             UpstreamAgrees, Uncommitted, Committed
    <2> QED
      BY <1>1, <2>1, <2>2, <2>3, <2>4
  <1>15. CASE Fail(c)
    <2> USE <1>2, <1>3, <1>15 DEF Fail
    <2>1. ConnTypeOK'
      BY DEF ConnTypeOK, PcStates, Verdicts, RecordStates
    <2>2. HandlersServe' /\ ControlAgrees' /\ UpstreamAgrees'
      BY DEF ConnTypeOK, HandlersServe, Active, ControlAgrees, UpstreamAgrees,
             Undecided, Admitted, Committed
    <2>3. VerdictFollowsDatabase'
      BY DEF ConnTypeOK, VerdictFollowsDatabase, ControlAgrees, Undecided
    <2>4. BannerFollowed' /\ BannersAgreeUnlessRefreshed'
      BY DEF ConnTypeOK, BannerFollowed, BannersAgreeUnlessRefreshed,
             UpstreamAgrees, Uncommitted, Committed
    <2> QED
      BY <1>1, <2>1, <2>2, <2>3, <2>4
  <1>16. CASE RecordEnds(c)
    <2> USE <1>2, <1>3, <1>16 DEF RecordEnds
    <2>1. ConnTypeOK'
      BY DEF ConnTypeOK, PcStates, Verdicts, RecordStates
    <2>2. HandlersServe' /\ ControlAgrees' /\ UpstreamAgrees'
      BY DEF ConnTypeOK, HandlersServe, Active, ControlAgrees, UpstreamAgrees,
             Undecided, Admitted, Committed
    <2>3. VerdictFollowsDatabase'
      BY DEF ConnTypeOK, VerdictFollowsDatabase, ControlAgrees, Undecided
    <2>4. BannerFollowed' /\ BannersAgreeUnlessRefreshed'
      BY DEF ConnTypeOK, BannerFollowed, BannersAgreeUnlessRefreshed,
             UpstreamAgrees, Uncommitted, Committed
    <2> QED
      BY <1>1, <2>1, <2>2, <2>3, <2>4
  <1> QED
    BY <1>4, <1>5, <1>6, <1>7, <1>8, <1>9, <1>10, <1>11, <1>12, <1>13, <1>14, <1>15, <1>16
       DEF OwnStep, PeerStep

-----------------------------------------------------------------------------
\* A step of the plane that changes no connection: commits are only appended and
\* enforcement only advances, so what was decided stays decided rightly; a
\* refresh of the banner is noted for the handlers it overtakes.
LEMMA PlaneKeepsVerdicts ==
  ASSUME ConnIInv, [ReloadNext]_reloadVars, UNCHANGED <<print, verdict, acceptedAt>>
  PROVE  VerdictFollowsDatabase'
  <1> SUFFICES ASSUME NEW c \in Conn
               PROVE  /\ verdict[c] = "allowed" =>
                           \E k \in acceptedAt[c]..Len(commits') :
                             print[c] \notin commits'[k]
                      /\ verdict[c] = "blocked" =>
                           \E k \in acceptedAt[c]..Len(commits') :
                             print[c] \in commits'[k]
    BY DEF VerdictFollowsDatabase
  <1>1. /\ Len(commits) \in Nat \ {0} /\ Len(commits') \in Nat
        /\ Len(commits) <= Len(commits')
        /\ \A k \in 1..Len(commits) : commits'[k] = commits[k]
    BY PlaneStep DEF ConnIInv
  <1>2. acceptedAt[c] \in 1..Len(commits)
    BY DEF ConnIInv, ConnTypeOK
  <1>3. \A k \in acceptedAt[c]..Len(commits) :
          k \in acceptedAt[c]..Len(commits') /\ commits'[k] = commits[k]
    BY <1>1, <1>2
  <1> QED
    BY <1>3 DEF ConnIInv, VerdictFollowsDatabase

\* Reloads, edits, banner changes and restarts leave the verdicts given and the
\* banners compared as they are.
THEOREM ReconfigureInv == ConnIInv /\ Reconfigure => ConnIInv'
  <1> SUFFICES ASSUME ConnIInv, Reconfigure PROVE ConnIInv'
    OBVIOUS
  <1> USE DEF ConnIInv
  <1>1. ReloadNext
    BY DEF Reconfigure, ReloadNext
  <1>2. UNCHANGED <<pc, sent, print, verdict, live, contacted, forwarded, record,
                    acceptedAt>>
    BY DEF Reconfigure
  <1>3. /\ Len(commits) \in Nat \ {0} /\ Len(commits') \in Nat
        /\ Len(commits) <= Len(commits')
        /\ enforced \in 1..Len(commits) /\ enforced <= enforced'
        /\ enforced' \in 1..Len(commits')
        /\ ReloadIInv'
    BY <1>1, PlaneStep
  <1>4. ConnTypeOK'
    <2>1. acceptedAt' \in [Conn -> 1..Len(commits')]
      BY <1>2, <1>3 DEF ConnTypeOK
    <2>2. refreshed' \in [Conn -> BOOLEAN]
      BY DEF Reconfigure, ConnTypeOK
    <2> QED
      BY <1>2, <2>1, <2>2 DEF ConnTypeOK
  <1>5. phase = "serving" => phase' = "serving"
    BY DEF Reconfigure, Startup, StartProcess, ProbeAtStart, LoadAtStart,
           NotifyAtStart, ListenAndSpawn, HandleReloads, ReceiveReload,
           LoadBlockedHashes, LoadFails, ApplyBlocklist, ProbeUpstream,
           ProbeFails, StoreBanner, StopHandler, Outside, BlockHASH, UnblockHASH,
           Commit, Sighup, SighupNotified, SighupDefault, UpstreamChanges,
           Cancel, Crash, Die
  <1>6. HandlersServe'
    BY <1>2, <1>3, <1>5 DEF HandlersServe, Active, ConnTypeOK
  <1>7. ControlAgrees' /\ UpstreamAgrees'
    BY <1>2 DEF ControlAgrees, UpstreamAgrees
  <1>8. VerdictFollowsDatabase'
    BY <1>1, <1>2, PlaneKeepsVerdicts
  <1>9. BannerFollowed' /\ BannersAgreeUnlessRefreshed'
    <2>1. \A c \in Conn :
            /\ refreshed[c] => refreshed'[c]
            /\ pc[c] \in Uncommitted /\ upstreamBanner' # upstreamBanner => refreshed'[c]
      BY Zenon DEF Reconfigure
    <2>2. BannerFollowed'
      <3> SUFFICES ASSUME NEW c \in Conn
                   PROVE  /\ pc[c] \in Uncommitted =>
                               sent[c] = upstreamBanner' \/ refreshed'[c]
                          /\ pc[c] \in Committed => sent[c] = live[c] \/ refreshed'[c]
        BY <1>2 DEF BannerFollowed
      <3>1. /\ pc[c] \in Uncommitted => sent[c] = upstreamBanner \/ refreshed[c]
            /\ pc[c] \in Committed => sent[c] = live[c] \/ refreshed[c]
        BY DEF BannerFollowed
      <3> QED
        BY <2>1, <3>1, Zenon
    <2>3. BannersAgreeUnlessRefreshed'
      <3> SUFFICES ASSUME NEW c \in forwarded
                   PROVE  sent[c] = live[c] \/ refreshed'[c]
        BY <1>2 DEF BannersAgreeUnlessRefreshed
      <3> QED
        BY <2>1, Zenon DEF BannersAgreeUnlessRefreshed, ConnTypeOK
    <2> QED
      BY <2>2, <2>3
  <1> QED
    BY <1>3, <1>4, <1>6, <1>7, <1>8, <1>9

\* The process ends, on its own or not, and every connection with it.
THEOREM EndOfProcessInv ==
  ConnIInv /\ (ProcessCrash \/ ProcessExit) => ConnIInv'
  <1> SUFFICES ASSUME ConnIInv, ProcessCrash \/ ProcessExit PROVE ConnIInv'
    OBVIOUS
  <1> USE DEF ConnIInv
  <1>1. ReloadNext
    BY DEF ProcessCrash, ProcessExit, ReloadNext, Outside, Sighup
  <1>2. /\ pc' = [c \in Conn |-> IF Active(c) THEN "closed" ELSE pc[c]]
        /\ UNCHANGED <<sent, print, verdict, live, contacted, forwarded,
                       acceptedAt, refreshed>>
        /\ \A c \in Conn : record'[c] \in {record[c], "lost", "dropped"}
        /\ record' = [c \in Conn |-> record'[c]]
    BY DEF ProcessCrash, ProcessExit, EndProcess
  <1>3. /\ Len(commits) \in Nat \ {0} /\ Len(commits') \in Nat
        /\ Len(commits) <= Len(commits')
        /\ ReloadIInv'
    BY <1>1, PlaneStep
  <1>4. ConnTypeOK'
    <2>1. acceptedAt' \in [Conn -> 1..Len(commits')]
      BY <1>2, <1>3 DEF ConnTypeOK
    <2>2. record' \in [Conn -> RecordStates]
      BY <1>2 DEF ConnTypeOK, RecordStates
    <2>3. pc' \in [Conn -> PcStates]
      BY <1>2 DEF ConnTypeOK, PcStates
    <2> QED
      BY <1>2, <2>1, <2>2, <2>3 DEF ConnTypeOK
  <1>5. \A c \in Conn : pc'[c] \in {"idle", "closed"} /\ (pc'[c] = "idle" => pc[c] = "idle")
    BY <1>2 DEF Active
  <1>6. HandlersServe' /\ BannerFollowed'
    BY <1>5 DEF HandlersServe, Active, BannerFollowed, Uncommitted, Committed
  <1>7. ControlAgrees' /\ UpstreamAgrees'
    BY <1>2, <1>5 DEF ControlAgrees, UpstreamAgrees, Undecided, Admitted, Committed
  <1>8. VerdictFollowsDatabase'
    BY <1>1, <1>2, PlaneKeepsVerdicts
  <1>9. BannersAgreeUnlessRefreshed'
    BY <1>2 DEF BannersAgreeUnlessRefreshed
  <1> QED
    BY <1>3, <1>4, <1>6, <1>7, <1>8, <1>9

\* The inductive invariant holds in every state.
THEOREM ConnInvariance == Spec => []ConnIInv
  <1>1. ConnIInv /\ [Next]_vars => ConnIInv'
    <2> SUFFICES ASSUME ConnIInv, [Next]_vars PROVE ConnIInv'
      OBVIOUS
    <2>1. CASE UNCHANGED vars
      <3>1. UNCHANGED reloadVars /\ UNCHANGED connVars
        BY <2>1 DEF vars
      <3>2. ReloadIInv'
        BY <3>1, ReloadStepInv DEF ConnIInv
      <3> QED
        BY <3>1, <3>2 DEF ConnIInv, reloadVars, histVars, connVars, ConnTypeOK,
             HandlersServe, Active, ControlAgrees, UpstreamAgrees,
             VerdictFollowsDatabase, BannerFollowed, BannersAgreeUnlessRefreshed
    <2> QED
      BY <2>1, HandlerStepInv, ReconfigureInv, EndOfProcessInv DEF Next
  <1> QED
    BY <1>1, ConnInitInv, PTL DEF Spec

-----------------------------------------------------------------------------
\* Types of all variables of the composition.
THEOREM ConnTypeCorrect == Spec => []TypeOK
  <1>1. ConnIInv => TypeOK
    BY DEF ConnIInv, ConnTypeOK, TypeOK, ReloadIInv
  <1> QED
    BY <1>1, ConnInvariance, PTL

\* handleConnection: a client whose fingerprint is blocked causes no upstream
\* connection and none of its bytes get there.
THEOREM BlockedStayOut == Spec => []BlockedNeverReachesUpstream
  <1>1. ConnIInv => BlockedNeverReachesUpstream
    BY DEF ConnIInv, ConnTypeOK, UpstreamAgrees, BlockedNeverReachesUpstream
  <1> QED
    BY <1>1, ConnInvariance, PTL

\* Every verdict is one that a committed state of the database demands, no older
\* than the one enforced when the connection was accepted.
THEOREM VerdictsFollowDatabase == Spec => []VerdictFollowsDatabase
  <1>1. ConnIInv => VerdictFollowsDatabase
    BY DEF ConnIInv
  <1> QED
    BY <1>1, ConnInvariance, PTL

\* The banner check of handleConnection is right except for a refresh between
\* the greeting and the check.
THEOREM BannersAgreeButForRefresh == Spec => []BannersAgreeUnlessRefreshed
  <1>1. ConnIInv => BannersAgreeUnlessRefreshed
    BY DEF ConnIInv
  <1> QED
    BY <1>1, ConnInvariance, PTL

-----------------------------------------------------------------------------
(***************************************************************************)
(* The proxy implements the gate of module Gate: its initial state is the  *)
(* gate's, and each step, seen through the refinement mapping of module    *)
(* Connection, is a step of the gate or changes nothing that the gate      *)
(* shows.                                                                  *)
(***************************************************************************)

fates == [c \in Conn |-> Fate(pc[c], verdict[c])]

\* A handler's step that leaves the plane alone and the gate's other variables
\* too is a stutter of the gate if the fate of its connection stays.
LEMMA SameFate ==
  ASSUME ConnTypeOK, NEW c \in Conn, NEW p, NEW v,
         pc' = [pc EXCEPT ![c] = p], verdict' = [verdict EXCEPT ![c] = v],
         Fate(p, v) = Fate(pc[c], verdict[c])
  PROVE  fates' = fates
  <1>1. \A d \in Conn : Fate(pc'[d], verdict'[d]) = Fate(pc[d], verdict[d])
    BY DEF ConnTypeOK
  <1> QED
    BY <1>1 DEF fates

\* A step of one handler changes the fate of its own client only.
LEMMA NewFate ==
  ASSUME ConnTypeOK, NEW c \in Conn, NEW p, NEW v,
         pc' = [pc EXCEPT ![c] = p], verdict' = [verdict EXCEPT ![c] = v]
  PROVE  fates' = [fates EXCEPT ![c] = Fate(p, v)]
  <1>1. \A d \in Conn :
          Fate(pc'[d], verdict'[d]) = IF d = c THEN Fate(p, v) ELSE Fate(pc[d], verdict[d])
    BY DEF ConnTypeOK
  <1> QED
    BY <1>1 DEF fates

\* Before anybody connects the gate is closed to all, with the empty policy.
THEOREM GateInitial == Init => G!GateInit
  <1> SUFFICES ASSUME Init PROVE G!GateInit
    OBVIOUS
  <1>1. \A c \in Conn : Fate(pc[c], verdict[c]) = "out"
    BY DEF Init, Fate
  <1> QED
    BY <1>1 DEF Init, ReloadInit, G!GateInit

-----------------------------------------------------------------------------
\* The steps of a handler: it enters, it is seen, decided or waived, it touches
\* the upstream server, or the gate does not notice.
LEMMA HandlerIsGate ==
  ASSUME ConnIInv, NEW c \in Conn,
         Accept(c) \/ OwnStep(c) \/ PeerStep(c) \/ RecordEnds(c)
  PROVE  [G!GateNext]_(G!gateVars)
  <1> USE DEF ConnIInv, Goto
  <1>1. UNCHANGED <<commits, enforced>>
    BY DEF OwnStep, PeerStep, Accept, Greet, CaptureOK, CaptureFails, Classify,
           Dial, ReadBanner, CheckBanner, Replay, RelayExtra, EndRelay, Fail,
           RecordEnds, reloadVars, histVars
  <1>2. fates[c] = Fate(pc[c], verdict[c])
    BY DEF fates
  <1>3. /\ pc[c] = "idle" => Fate(pc[c], verdict[c]) = "out"
        /\ pc[c] \in {"greet", "capture", "classify"} =>
             Fate(pc[c], verdict[c]) = "pending"
        /\ pc[c] \in Admitted => Fate(pc[c], verdict[c]) = "admitted"
    BY DEF ControlAgrees, Undecided, Admitted, Fate
  <1>4. CASE Accept(c)
    <2>1. fates' = [fates EXCEPT ![c] = "pending"]
      <3>1. Fate("greet", verdict[c]) = "pending"
        BY <1>4 DEF Accept, ControlAgrees, Undecided, Fate
      <3>2. verdict' = [verdict EXCEPT ![c] = verdict[c]]
        BY <1>4 DEF Accept, ConnTypeOK
      <3>3. pc' = [pc EXCEPT ![c] = "greet"]
        BY <1>4 DEF Accept
      <3>4. fates' = [fates EXCEPT ![c] = Fate("greet", verdict[c])]
        BY <3>2, <3>3, NewFate
      <3> QED
        BY <3>1, <3>4
    <2>2. G!Enter(c)
      BY <1>1, <1>2, <1>3, <1>4, <2>1 DEF Accept, G!Enter, fates
    <2> QED
      BY <2>2 DEF G!GateNext
  <1>5. ASSUME NEW h \in Hash, CaptureOK(c, h) PROVE [G!GateNext]_(G!gateVars)
    <2>1. fates' = fates
      <3>1. verdict' = [verdict EXCEPT ![c] = verdict[c]]
        BY <1>5 DEF CaptureOK, ConnTypeOK
      <3>2. Fate("classify", verdict[c]) = Fate(pc[c], verdict[c])
        BY <1>5 DEF CaptureOK, ControlAgrees, Undecided, Fate
      <3> QED
        BY <1>5, <3>1, <3>2, SameFate DEF CaptureOK
    <2>2. G!See(c)
      BY <1>1, <1>2, <1>3, <1>5, <2>1 DEF CaptureOK, G!See, fates, ControlAgrees
    <2> QED
      BY <2>2 DEF G!GateNext
  <1>6. CASE CaptureFails(c)
    <2>1. fates' = [fates EXCEPT ![c] = "admitted"]
      <3>1. Fate("dial", "unclassified") = "admitted"
        BY DEF Fate
      <3>2. /\ pc' = [pc EXCEPT ![c] = "dial"]
            /\ verdict' = [verdict EXCEPT ![c] = "unclassified"]
        BY <1>6 DEF CaptureFails
      <3>3. fates' = [fates EXCEPT ![c] = Fate("dial", "unclassified")]
        BY <3>2, NewFate
      <3> QED
        BY <3>1, <3>3
    <2>2. G!Waive(c)
      BY <1>1, <1>2, <1>3, <1>6, <2>1 DEF CaptureFails, G!Waive, fates, ControlAgrees
    <2> QED
      BY <2>2 DEF G!GateNext
  <1>7. CASE Classify(c)
    <2>1. blocklist = commits[enforced]
      BY <1>7 DEF Classify, HandlersServe, Active, ReloadIInv, BlocklistIsOneCommit
    <2>2. fates' = [fates EXCEPT ![c] =
                      IF print[c] \in commits[enforced] THEN "refused" ELSE "admitted"]
      <3>1. CASE print[c] \in blocklist
        <4>1. Fate("closed", "blocked") = "refused"
          BY DEF Fate
        <4> QED
          BY <1>7, <2>1, <3>1, <4>1, NewFate DEF Classify
      <3>2. CASE print[c] \notin blocklist
        <4>1. Fate("dial", "allowed") = "admitted"
          BY DEF Fate
        <4> QED
          BY <1>7, <2>1, <3>2, <4>1, NewFate DEF Classify
      <3> QED
        BY <3>1, <3>2
    <2>3. print[c] # NoHash
      BY <1>7, NoHashAssumption DEF Classify, ControlAgrees
    <2>4. G!Decide(c)
      BY <1>1, <1>2, <1>3, <1>7, <2>2, <2>3 DEF Classify, G!Decide, fates
    <2> QED
      BY <2>4 DEF G!GateNext
  <1>8. CASE Dial(c)
    <2>1. fates' = fates
      <3>1. verdict' = [verdict EXCEPT ![c] = verdict[c]]
        BY <1>8 DEF Dial, ConnTypeOK
      <3>2. Fate("readBanner", verdict[c]) = Fate(pc[c], verdict[c])
        BY <1>8 DEF Dial, ControlAgrees, Admitted, Fate
      <3> QED
        BY <1>8, <3>1, <3>2, SameFate DEF Dial
    <2>2. G!Touch(c)
      BY <1>1, <1>2, <1>3, <1>8, <2>1 DEF Dial, G!Touch, fates, Admitted
    <2> QED
      BY <2>2 DEF G!GateNext
  <1>9. CASE Fail(c) /\ pc[c] = "greet"
    <2>1. fates' = [fates EXCEPT ![c] = "gone"]
      <3>1. Fate("closed", verdict[c]) = "gone"
        BY <1>9 DEF ControlAgrees, Undecided, Fate
      <3>2. verdict' = [verdict EXCEPT ![c] = verdict[c]]
        BY <1>9 DEF Fail, ConnTypeOK
      <3>3. pc' = [pc EXCEPT ![c] = "closed"]
        BY <1>9 DEF Fail
      <3>4. fates' = [fates EXCEPT ![c] = Fate("closed", verdict[c])]
        BY <3>2, <3>3, NewFate
      <3> QED
        BY <3>1, <3>4
    <2>2. G!Leave({c})
      <3>1. fates' = [d \in Conn |-> IF d \in {c} THEN "gone" ELSE fates[d]]
        BY <2>1 DEF fates
      <3> QED
        BY <1>1, <1>2, <1>3, <1>9, <3>1 DEF Fail, G!Leave, fates
    <2> QED
      BY <2>2 DEF G!GateNext
  <1>10. ASSUME Greet(c) \/ ReadBanner(c) \/ CheckBanner(c) \/ Replay(c)
                  \/ RelayExtra(c) \/ EndRelay(c) \/ (Fail(c) /\ pc[c] # "greet")
         PROVE  UNCHANGED G!gateVars
    <2>1. PICK p : /\ pc' = [pc EXCEPT ![c] = p]
                   /\ Fate(p, verdict[c]) = Fate(pc[c], verdict[c])
      <3>1. Fate("capture", "none") = Fate("greet", "none")
        BY DEF Fate
      <3>2. \A p, q \in Admitted \cup {"closed"} : \A v \in {"allowed", "unclassified"} :
              Fate(p, v) = Fate(q, v)
        BY DEF Admitted, Fate
      <3>3. CASE Greet(c)
        BY <3>1, <3>3 DEF Greet, ControlAgrees, Undecided
      <3>4. CASE ~Greet(c)
        <4>1. /\ pc[c] \in Admitted /\ verdict[c] \in {"allowed", "unclassified"}
              /\ \E p \in Admitted \cup {"closed"} : pc' = [pc EXCEPT ![c] = p]
          BY <1>10, <3>4 DEF ReadBanner, CheckBanner, Replay, RelayExtra, EndRelay,
               Fail, ControlAgrees, Admitted
        <4> QED
          BY <3>2, <4>1
      <3> QED
        BY <3>3, <3>4
    <2>2. UNCHANGED <<verdict, print, contacted>>
      BY <1>10 DEF Greet, ReadBanner, CheckBanner, Replay, RelayExtra, EndRelay, Fail
    <2>3. verdict' = [verdict EXCEPT ![c] = verdict[c]]
      BY <2>2 DEF ConnTypeOK
    <2>4. fates' = fates
      BY <2>1, <2>3, SameFate
    <2> QED
      BY <1>1, <2>2, <2>4 DEF G!gateVars, fates
  <1>11. CASE RecordEnds(c)
    BY <1>1, <1>11 DEF RecordEnds, G!gateVars
  <1> QED
    BY <1>4, <1>5, <1>6, <1>7, <1>8, <1>9, <1>10, <1>11 DEF OwnStep, PeerStep

-----------------------------------------------------------------------------
\* The plane publishes a policy with each commit, enforces one with the load at
\* startup and the swap of a reload, and is invisible to the gate otherwise.
LEMMA PlaneIsGate ==
  ASSUME ConnIInv, Reconfigure
  PROVE  [G!GateNext]_(G!gateVars)
  <1> USE DEF ConnIInv, handlerVars, memVars, histVars
  <1>1. UNCHANGED <<print, contacted>> /\ fates' = fates
    BY DEF Reconfigure, fates
  <1>2. commits \in Seq(SUBSET Hash) \ {<<>>}
    BY DEF ReloadIInv, ReloadTypeOK, HistoryTypeOK
  <1>3. ASSUME NEW h \in Hash, BlockHASH(h) \/ UnblockHASH(h)
        PROVE  G!Publish
    <2>1. Blocked \in SUBSET Hash
      BY <1>2, LastCommit DEF Blocked
    <2>2. /\ \E b \in SUBSET Hash : commits' = Append(commits, b)
          /\ UNCHANGED enforced
      BY <1>3, <2>1 DEF BlockHASH, UnblockHASH, Commit
    <2> QED
      BY <1>1, <2>2 DEF G!Publish, fates
  <1>4. ASSUME LoadAtStart \/ ApplyBlocklist
        PROVE  G!Enforce
    <2>1. UNCHANGED commits
      BY <1>4 DEF LoadAtStart, ApplyBlocklist
    <2>2. enforced' \in enforced..Len(commits)
      <3>1. ReloadNext
        BY DEF Reconfigure, ReloadNext
      <3> QED
        BY <2>1, <3>1, PlaneStep
    <2> QED
      BY <1>1, <2>1, <2>2 DEF G!Enforce, fates
  <1>5. ASSUME \/ StartProcess \/ ProbeAtStart \/ NotifyAtStart \/ ListenAndSpawn
               \/ ReceiveReload \/ LoadBlockedHashes \/ LoadFails \/ ProbeUpstream
               \/ ProbeFails \/ StoreBanner \/ StopHandler
        PROVE  UNCHANGED <<commits, enforced>>
    BY <1>5 DEF StartProcess, ProbeAtStart, NotifyAtStart, ListenAndSpawn,
         ReceiveReload, LoadBlockedHashes, LoadFails, ProbeUpstream, ProbeFails,
         StoreBanner, StopHandler
  <1>6. ASSUME Sighup \/ UpstreamChanges \/ Cancel \/ Crash
        PROVE  UNCHANGED <<commits, enforced>>
    BY <1>6 DEF Sighup, SighupNotified, SighupDefault, UpstreamChanges, Cancel,
         Crash, Die
  <1>7. UNCHANGED <<commits, enforced>> => UNCHANGED G!gateVars
    BY <1>1 DEF G!gateVars, fates
  <1> QED
    BY <1>3, <1>4, <1>5, <1>6, <1>7
       DEF Reconfigure, Startup, HandleReloads, Outside, G!GateNext

\* When the process ends, the clients that were not decided leave; those that
\* were keep their fate.
LEMMA EndIsGate ==
  ASSUME ConnIInv, ProcessCrash \/ ProcessExit
  PROVE  G!GateNext
  <1> USE DEF ConnIInv
  <1> DEFINE gone == {c \in Conn : fates[c] = "pending"}
  <1>1. UNCHANGED <<commits, enforced>>
    BY DEF ProcessCrash, ProcessExit, Crash, SighupDefault, Exit, Die
  <1>2. /\ pc' = [c \in Conn |-> IF Active(c) THEN "closed" ELSE pc[c]]
        /\ UNCHANGED <<verdict, print, contacted>>
    BY DEF ProcessCrash, ProcessExit, EndProcess
  <1>3. ASSUME NEW c \in Conn
        PROVE  Fate(pc'[c], verdict[c]) =
                 IF Fate(pc[c], verdict[c]) = "pending" THEN "gone"
                 ELSE Fate(pc[c], verdict[c])
    <2>1. pc'[c] = IF pc[c] \in {"idle", "closed"} THEN pc[c] ELSE "closed"
      BY <1>2 DEF Active
    <2>2. /\ pc[c] \in Undecided => verdict[c] = "none"
          /\ pc[c] \in Admitted => verdict[c] \in {"allowed", "unclassified"}
          /\ pc[c] \in PcStates /\ verdict[c] \in Verdicts
      BY DEF ControlAgrees, ConnTypeOK
    <2> QED
      BY <2>1, <2>2 DEF Fate, Undecided, Admitted, PcStates, Verdicts
  <1>4. fates' = [c \in Conn |-> IF c \in gone THEN "gone" ELSE fates[c]]
    BY <1>2, <1>3 DEF fates
  <1>5. gone \in SUBSET Conn /\ \A c \in gone : fates[c] = "pending"
    OBVIOUS
  <1>6. G!Leave(gone)
    BY <1>1, <1>2, <1>4, <1>5 DEF G!Leave, fates
  <1> QED
    BY <1>5, <1>6 DEF G!GateNext

\* Whatever reloads, edits, banner changes, crashes and restarts go on, the
\* verdicts of handleConnection are those of a gate that applies the published
\* policies one at a time, in order, and lets nobody past before a verdict.
THEOREM GateImplemented == Spec => ImplementsGate
  <1>1. ConnIInv /\ [Next]_vars => [G!GateNext]_(G!gateVars)
    <2> SUFFICES ASSUME ConnIInv, [Next]_vars
                 PROVE  [G!GateNext]_(G!gateVars)
      OBVIOUS
    <2>1. CASE UNCHANGED vars
      BY <2>1 DEF vars, reloadVars, connVars, histVars, G!gateVars
    <2> QED
      BY <2>1, HandlerIsGate, PlaneIsGate, EndIsGate DEF Next
  <1> QED
    BY <1>1, GateInitial, ConnInvariance, PTL DEF Spec, ImplementsGate, G!GateSpec

=============================================================================
