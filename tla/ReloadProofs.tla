---------------------------- MODULE ReloadProofs ----------------------------
(***************************************************************************)
(* Proofs about module Reload, for every set of fingerprints and banners   *)
(* and every length of the history of the blocked set.                     *)
(***************************************************************************)
EXTENDS Reload, TLAPS

\* The result set in flight is never older than what is enforced; it is what
\* makes EnforcementNeverRegresses inductive.
InFlightIsNewer == enforced <= loadedAt

\* The handler's state is the initial one until Start spawns it, and no SIGHUP
\* has been received before signal.Notify.
FreshProcess ==
  /\ phase # "serving" => rpc = "idle"
  /\ ~Notified => signalled = 0

\* NoReloadLost from signal.Notify on, when the handler does not exist yet but
\* the channel does.
NothingLost ==
  (Notified /\ rpc # "stopped") =>
    \/ signalled <= enforced
    \/ reloadChan
    \/ rpc = "load"
    \/ rpc = "apply" /\ signalled <= loadedAt
    \/ missed

ReloadIInv ==
  /\ ReloadTypeOK
  /\ BlocklistIsOneCommit
  /\ InFlightIsNewer
  /\ FreshProcess
  /\ NothingLost

\* Appending a commit leaves the earlier ones where they are.
LEMMA AppendCommit ==
  ASSUME NEW S, NEW s \in Seq(S) \ {<<>>}, NEW x \in S
  PROVE  /\ Append(s, x) \in Seq(S) \ {<<>>}
         /\ Len(Append(s, x)) = Len(s) + 1
         /\ Len(s) \in Nat \ {0}
         /\ \A i \in 1..Len(s) : s[i] \in S /\ Append(s, x)[i] = s[i]
  OBVIOUS

\* The committed contents of blocked_fingerprints are the last of the history.
LEMMA LastCommit ==
  ASSUME NEW S, NEW s \in Seq(S) \ {<<>>}
  PROVE  Len(s) \in Nat \ {0} /\ Len(s) \in 1..Len(s) /\ s[Len(s)] \in S
  OBVIOUS

\* Without a process nothing is enforced or in flight.
THEOREM ReloadInitInv == ReloadInit => ReloadIInv
  <1> SUFFICES ASSUME ReloadInit PROVE ReloadIInv
    OBVIOUS
  <1>1. /\ commits \in Seq(SUBSET Hash) \ {<<>>}
        /\ Len(commits) = 1 /\ commits[1] = {}
    BY DEF ReloadInit
  <1>2. ControlTypeOK /\ MemoryTypeOK
    BY DEF ReloadInit, Phases, HandlerStates, ControlTypeOK, MemoryTypeOK
  <1>3. HistoryTypeOK
    BY <1>1 DEF ReloadInit, HistoryTypeOK
  <1>4. BlocklistIsOneCommit
    BY DEF ReloadInit, BlocklistIsOneCommit
  <1>5. InFlightIsNewer /\ FreshProcess /\ NothingLost
    BY DEF ReloadInit, Notified, InFlightIsNewer, FreshProcess, NothingLost
  <1> QED
    BY <1>2, <1>3, <1>4, <1>5 DEF ReloadIInv, ReloadTypeOK

\* One step per statement of startup, of handleReloads and of what surrounds them.
THEOREM ReloadStepInv ==
  ASSUME ReloadIInv, [ReloadNext]_reloadVars
  PROVE  ReloadIInv'
  <1> USE DEF ReloadIInv, ReloadTypeOK, Phases, HandlerStates, Notified, Blocked,
              HandlerUp, handlerVars, memVars, histVars
  <1>1. Len(commits) \in Nat \ {0} /\ Blocked \in SUBSET Hash
    BY LastCommit DEF HistoryTypeOK
  <1>2. CASE StartProcess
    <2> USE <1>1, <1>2 DEF StartProcess
    <2>1. ControlTypeOK' /\ MemoryTypeOK'
      BY DEF ControlTypeOK, MemoryTypeOK
    <2>2. HistoryTypeOK' /\ InFlightIsNewer'
      BY DEF HistoryTypeOK, InFlightIsNewer
    <2>3. BlocklistIsOneCommit' /\ FreshProcess'
      BY DEF BlocklistIsOneCommit, FreshProcess
    <2>4. NothingLost'
      BY DEF NothingLost, FreshProcess, InFlightIsNewer, HistoryTypeOK
    <2> QED
      BY <2>1, <2>2, <2>3, <2>4
  <1>3. CASE Die
    <2> USE <1>1, <1>3 DEF Die
    <2>1. ControlTypeOK' /\ MemoryTypeOK'
      BY DEF ControlTypeOK, MemoryTypeOK
    <2>2. HistoryTypeOK' /\ InFlightIsNewer'
      BY DEF HistoryTypeOK, InFlightIsNewer
    <2>3. BlocklistIsOneCommit' /\ FreshProcess'
      BY DEF BlocklistIsOneCommit, FreshProcess
    <2>4. NothingLost'
      BY DEF NothingLost, FreshProcess, InFlightIsNewer, HistoryTypeOK
    <2> QED
      BY <2>1, <2>2, <2>3, <2>4
  <1>4. CASE ProbeAtStart
    <2> USE <1>1, <1>4 DEF ProbeAtStart
    <2>1. ControlTypeOK' /\ MemoryTypeOK'
      BY DEF ControlTypeOK, MemoryTypeOK
    <2>2. HistoryTypeOK' /\ InFlightIsNewer'
      BY DEF HistoryTypeOK, InFlightIsNewer
    <2>3. BlocklistIsOneCommit' /\ FreshProcess'
      BY DEF BlocklistIsOneCommit, FreshProcess
    <2>4. NothingLost'
      BY DEF NothingLost, FreshProcess, InFlightIsNewer, HistoryTypeOK
    <2> QED
      BY <2>1, <2>2, <2>3, <2>4
  <1>5. CASE LoadAtStart
    <2> USE <1>1, <1>5 DEF LoadAtStart
    <2>1. ControlTypeOK' /\ MemoryTypeOK'
      BY DEF ControlTypeOK, MemoryTypeOK
    <2>2. HistoryTypeOK' /\ InFlightIsNewer'
      BY DEF HistoryTypeOK, InFlightIsNewer
    <2>3. BlocklistIsOneCommit' /\ FreshProcess'
      BY DEF BlocklistIsOneCommit, FreshProcess
    <2>4. NothingLost'
      BY DEF NothingLost, FreshProcess, InFlightIsNewer, HistoryTypeOK
    <2> QED
      BY <2>1, <2>2, <2>3, <2>4
  <1>6. CASE NotifyAtStart
    <2> USE <1>1, <1>6 DEF NotifyAtStart
    <2>1. ControlTypeOK' /\ MemoryTypeOK'
      BY DEF ControlTypeOK, MemoryTypeOK
    <2>2. HistoryTypeOK' /\ InFlightIsNewer'
      BY DEF HistoryTypeOK, InFlightIsNewer
    <2>3. BlocklistIsOneCommit' /\ FreshProcess'
      BY DEF BlocklistIsOneCommit, FreshProcess
    <2>4. NothingLost'
      BY DEF NothingLost, FreshProcess, InFlightIsNewer, HistoryTypeOK
    <2> QED
      BY <2>1, <2>2, <2>3, <2>4
  <1>7. CASE ListenAndSpawn
    <2> USE <1>1, <1>7 DEF ListenAndSpawn
    <2>1. ControlTypeOK' /\ MemoryTypeOK'
      BY DEF ControlTypeOK, MemoryTypeOK
    <2>2. HistoryTypeOK' /\ InFlightIsNewer'
      BY DEF HistoryTypeOK, InFlightIsNewer
    <2>3. BlocklistIsOneCommit' /\ FreshProcess'
      BY DEF BlocklistIsOneCommit, FreshProcess
    <2>4. NothingLost'
      BY DEF NothingLost, FreshProcess, InFlightIsNewer, HistoryTypeOK
    <2> QED
      BY <2>1, <2>2, <2>3, <2>4
  <1>8. CASE Cancel
    <2> USE <1>1, <1>8 DEF Cancel
    <2>1. ControlTypeOK' /\ MemoryTypeOK'
      BY DEF ControlTypeOK, MemoryTypeOK
    <2>2. HistoryTypeOK' /\ InFlightIsNewer'
      BY DEF HistoryTypeOK, InFlightIsNewer
    <2>3. BlocklistIsOneCommit' /\ FreshProcess'
      BY DEF BlocklistIsOneCommit, FreshProcess
    <2>4. NothingLost'
      BY DEF NothingLost, FreshProcess, InFlightIsNewer, HistoryTypeOK
    <2> QED
      BY <2>1, <2>2, <2>3, <2>4
  <1>9. CASE SighupNotified
    <2> USE <1>1, <1>9 DEF SighupNotified
    <2>1. ControlTypeOK' /\ MemoryTypeOK'
      BY DEF ControlTypeOK, MemoryTypeOK
    <2>2. HistoryTypeOK' /\ InFlightIsNewer'
      BY DEF HistoryTypeOK, InFlightIsNewer
    <2>3. BlocklistIsOneCommit' /\ FreshProcess'
      BY DEF BlocklistIsOneCommit, FreshProcess
    <2>4. NothingLost'
      BY DEF NothingLost, FreshProcess, InFlightIsNewer, HistoryTypeOK
    <2> QED
      BY <2>1, <2>2, <2>3, <2>4
  <1>10. CASE UpstreamChanges
    <2> USE <1>1, <1>10 DEF UpstreamChanges
    <2>1. ControlTypeOK' /\ MemoryTypeOK'
      BY DEF ControlTypeOK, MemoryTypeOK
    <2>2. HistoryTypeOK' /\ InFlightIsNewer'
      BY DEF HistoryTypeOK, InFlightIsNewer
    <2>3. BlocklistIsOneCommit' /\ FreshProcess'
      BY DEF BlocklistIsOneCommit, FreshProcess
    <2>4. NothingLost'
      BY DEF NothingLost, FreshProcess, InFlightIsNewer, HistoryTypeOK
    <2> QED
      BY <2>1, <2>2, <2>3, <2>4
  <1>11. CASE ReceiveReload
    <2> USE <1>1, <1>11 DEF ReceiveReload
    <2>1. ControlTypeOK' /\ MemoryTypeOK'
      BY DEF ControlTypeOK, MemoryTypeOK
    <2>2. HistoryTypeOK' /\ InFlightIsNewer'
      BY DEF HistoryTypeOK, InFlightIsNewer
    <2>3. BlocklistIsOneCommit' /\ FreshProcess'
      BY DEF BlocklistIsOneCommit, FreshProcess
    <2>4. NothingLost'
      BY DEF NothingLost, FreshProcess, InFlightIsNewer, HistoryTypeOK
    <2> QED
      BY <2>1, <2>2, <2>3, <2>4
  <1>12. CASE LoadBlockedHashes
    <2> USE <1>1, <1>12 DEF LoadBlockedHashes
    <2>1. ControlTypeOK' /\ MemoryTypeOK'
      BY DEF ControlTypeOK, MemoryTypeOK
    <2>2. HistoryTypeOK' /\ InFlightIsNewer'
      BY DEF HistoryTypeOK, InFlightIsNewer
    <2>3. BlocklistIsOneCommit' /\ FreshProcess'
      BY DEF BlocklistIsOneCommit, FreshProcess
    <2>4. NothingLost'
      BY DEF NothingLost, FreshProcess, InFlightIsNewer, HistoryTypeOK
    <2> QED
      BY <2>1, <2>2, <2>3, <2>4
  <1>13. CASE LoadFails
    <2> USE <1>1, <1>13 DEF LoadFails
    <2>1. ControlTypeOK' /\ MemoryTypeOK'
      BY DEF ControlTypeOK, MemoryTypeOK
    <2>2. HistoryTypeOK' /\ InFlightIsNewer'
      BY DEF HistoryTypeOK, InFlightIsNewer
    <2>3. BlocklistIsOneCommit' /\ FreshProcess'
      BY DEF BlocklistIsOneCommit, FreshProcess
    <2>4. NothingLost'
      BY DEF NothingLost, FreshProcess, InFlightIsNewer, HistoryTypeOK
    <2> QED
      BY <2>1, <2>2, <2>3, <2>4
  <1>14. CASE ApplyBlocklist
    <2> USE <1>1, <1>14 DEF ApplyBlocklist
    <2>1. ControlTypeOK' /\ MemoryTypeOK'
      BY DEF ControlTypeOK, MemoryTypeOK
    <2>2. HistoryTypeOK' /\ InFlightIsNewer'
      BY DEF HistoryTypeOK, InFlightIsNewer
    <2>3. BlocklistIsOneCommit' /\ FreshProcess'
      BY DEF BlocklistIsOneCommit, FreshProcess
    <2>4. NothingLost'
      BY DEF NothingLost, FreshProcess, InFlightIsNewer, HistoryTypeOK
    <2> QED
      BY <2>1, <2>2, <2>3, <2>4
  <1>15. CASE ProbeUpstream
    <2> USE <1>1, <1>15 DEF ProbeUpstream
    <2>1. ControlTypeOK' /\ MemoryTypeOK'
      BY DEF ControlTypeOK, MemoryTypeOK
    <2>2. HistoryTypeOK' /\ InFlightIsNewer'
      BY DEF HistoryTypeOK, InFlightIsNewer
    <2>3. BlocklistIsOneCommit' /\ FreshProcess'
      BY DEF BlocklistIsOneCommit, FreshProcess
    <2>4. NothingLost'
      BY DEF NothingLost, FreshProcess, InFlightIsNewer, HistoryTypeOK
    <2> QED
      BY <2>1, <2>2, <2>3, <2>4
  <1>16. CASE ProbeFails
    <2> USE <1>1, <1>16 DEF ProbeFails
    <2>1. ControlTypeOK' /\ MemoryTypeOK'
      BY DEF ControlTypeOK, MemoryTypeOK
    <2>2. HistoryTypeOK' /\ InFlightIsNewer'
      BY DEF HistoryTypeOK, InFlightIsNewer
    <2>3. BlocklistIsOneCommit' /\ FreshProcess'
      BY DEF BlocklistIsOneCommit, FreshProcess
    <2>4. NothingLost'
      BY DEF NothingLost, FreshProcess, InFlightIsNewer, HistoryTypeOK
    <2> QED
      BY <2>1, <2>2, <2>3, <2>4
  <1>17. CASE StoreBanner
    <2> USE <1>1, <1>17 DEF StoreBanner
    <2>1. ControlTypeOK' /\ MemoryTypeOK'
      BY DEF ControlTypeOK, MemoryTypeOK
    <2>2. HistoryTypeOK' /\ InFlightIsNewer'
      BY DEF HistoryTypeOK, InFlightIsNewer
    <2>3. BlocklistIsOneCommit' /\ FreshProcess'
      BY DEF BlocklistIsOneCommit, FreshProcess
    <2>4. NothingLost'
      BY DEF NothingLost, FreshProcess, InFlightIsNewer, HistoryTypeOK
    <2> QED
      BY <2>1, <2>2, <2>3, <2>4
  <1>18. CASE StopHandler
    <2> USE <1>1, <1>18 DEF StopHandler
    <2>1. ControlTypeOK' /\ MemoryTypeOK'
      BY DEF ControlTypeOK, MemoryTypeOK
    <2>2. HistoryTypeOK' /\ InFlightIsNewer'
      BY DEF HistoryTypeOK, InFlightIsNewer
    <2>3. BlocklistIsOneCommit' /\ FreshProcess'
      BY DEF BlocklistIsOneCommit, FreshProcess
    <2>4. NothingLost'
      BY DEF NothingLost, FreshProcess, InFlightIsNewer, HistoryTypeOK
    <2> QED
      BY <2>1, <2>2, <2>3, <2>4
  <1>19. ASSUME NEW b \in SUBSET Hash, Commit(b) PROVE ReloadIInv'
    <2>1. /\ commits' \in Seq(SUBSET Hash) \ {<<>>}
          /\ Len(commits') = Len(commits) + 1
          /\ \A i \in 1..Len(commits) : commits'[i] = commits[i]
      BY <1>19, AppendCommit DEF Commit, HistoryTypeOK
    <2>2. ControlTypeOK' /\ MemoryTypeOK'
      BY <1>19 DEF Commit, ControlTypeOK, MemoryTypeOK
    <2>3. HistoryTypeOK'
      BY <1>1, <1>19, <2>1 DEF Commit, HistoryTypeOK
    <2>4. BlocklistIsOneCommit'
      BY <1>1, <1>19, <2>1 DEF Commit, BlocklistIsOneCommit, HistoryTypeOK
    <2>5. InFlightIsNewer' /\ FreshProcess' /\ NothingLost'
      BY <1>19 DEF Commit, InFlightIsNewer, FreshProcess, NothingLost
    <2> QED
      BY <2>2, <2>3, <2>4, <2>5
  <1>20. CASE UNCHANGED reloadVars
    BY <1>20 DEF reloadVars, ControlTypeOK, MemoryTypeOK, HistoryTypeOK,
                BlocklistIsOneCommit, InFlightIsNewer, FreshProcess, NothingLost
  <1> QED
    <2>1. \A h \in Hash : Blocked \cup {h} \in SUBSET Hash /\ Blocked \ {h} \in SUBSET Hash
      BY <1>1
    <2>2. ASSUME NEW h \in Hash, BlockHASH(h) \/ UnblockHASH(h) PROVE ReloadIInv'
      BY <1>19, <2>1, <2>2 DEF BlockHASH, UnblockHASH
    <2> QED
      BY <1>2, <1>3, <1>4, <1>5, <1>6, <1>7, <1>8, <1>9, <1>10, <1>11,
         <1>12, <1>13, <1>14, <1>15, <1>16, <1>17, <1>18, <1>20, <2>2
         DEF ReloadNext, Startup, HandleReloads, Outside, Sighup, Crash,
             SighupDefault, Exit

\* The invariant holds in every state of the configuration plane.
THEOREM ReloadInvariance == ReloadSpec => []ReloadIInv
  <1> QED
    BY ReloadInitInv, ReloadStepInv, PTL DEF ReloadSpec

-----------------------------------------------------------------------------
\* Types, and the promise that a process past its first probe always has a
\* banner to greet clients with (NewServer, refreshUpstreamBanner).
THEOREM ReloadTypeCorrect == ReloadSpec => []ReloadTypeOK
  <1>1. ReloadIInv => ReloadTypeOK
    BY DEF ReloadIInv
  <1> QED
    BY <1>1, ReloadInvariance, PTL

\* A process enforces one committed state of the database, whole
\* (reloadBlocklist, BlocklistFilter.Reload).
THEOREM OneCommitEnforced == ReloadSpec => []BlocklistIsOneCommit
  <1>1. ReloadIInv => BlocklistIsOneCommit
    BY DEF ReloadIInv
  <1> QED
    BY <1>1, ReloadInvariance, PTL

\* The one-slot channel of handleReloads loses no SIGHUP.
THEOREM NoSighupLost == ReloadSpec => []NoReloadLost
  <1>1. ReloadIInv => NoReloadLost
    BY DEF ReloadIInv, NothingLost, NoReloadLost, HandlerUp, Notified
  <1> QED
    BY <1>1, ReloadInvariance, PTL

\* Every step keeps enforcement where it is or moves it to a later commit. The
\* steps that move it are the load at startup and the swap of a reload.
LEMMA EnforcementStep ==
  ASSUME ReloadIInv, [ReloadNext]_reloadVars
  PROVE  enforced' >= enforced
  <1> USE DEF ReloadIInv, ReloadTypeOK, HistoryTypeOK, HandlerUp, handlerVars,
              memVars, histVars
  <1>1. enforced \in Nat /\ enforced <= Len(commits) /\ Len(commits) \in Nat
    BY LastCommit
  <1>2. CASE LoadAtStart
    BY <1>1, <1>2 DEF LoadAtStart
  <1>3. CASE ApplyBlocklist
    BY <1>1, <1>3 DEF ApplyBlocklist, InFlightIsNewer
  <1>4. CASE enforced' = enforced
    BY <1>1, <1>4
  <1>5. ASSUME NEW h \in Hash, BlockHASH(h) \/ UnblockHASH(h)
        PROVE  enforced' = enforced
    BY <1>5 DEF BlockHASH, UnblockHASH, Commit
  <1>6. StartProcess \/ ProbeAtStart \/ NotifyAtStart \/ ListenAndSpawn
          => enforced' = enforced
    BY DEF StartProcess, ProbeAtStart, NotifyAtStart, ListenAndSpawn
  <1>7. Crash \/ Exit \/ Sighup \/ Cancel \/ UpstreamChanges
          => enforced' = enforced
    BY DEF Crash, Exit, Sighup, SighupNotified, SighupDefault, Die, Cancel,
           UpstreamChanges
  <1>8. ReceiveReload \/ LoadBlockedHashes \/ LoadFails \/ ProbeUpstream
          \/ ProbeFails \/ StoreBanner \/ StopHandler => enforced' = enforced
    BY DEF ReceiveReload, LoadBlockedHashes, LoadFails, ProbeUpstream,
           ProbeFails, StoreBanner, StopHandler
  <1>9. UNCHANGED reloadVars => enforced' = enforced
    BY DEF reloadVars
  <1> QED
    BY <1>2, <1>3, <1>4, <1>5, <1>6, <1>7, <1>8, <1>9
       DEF ReloadNext, Startup, HandleReloads, Outside

\* Enforcement never goes back to an older state of the database, across crashes
\* and restarts.
THEOREM EnforcementMonotone == ReloadSpec => EnforcementNeverRegresses
  <1>1. ReloadIInv /\ [ReloadNext]_reloadVars
          => [enforced' >= enforced]_reloadVars
    BY EnforcementStep
  <1> QED
    BY <1>1, ReloadInvariance, PTL DEF ReloadSpec, EnforcementNeverRegresses

=============================================================================
