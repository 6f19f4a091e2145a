-------------------------- MODULE RepositoryProofs --------------------------
(***************************************************************************)
(* Proofs about module Repository, for any operations on any values: its   *)
(* type and lock invariant, that what is stored refers to rows that are    *)
(* there, and that the operations implement module Registry.               *)
(***************************************************************************)
EXTENDS Repository, TLAPS

Lookup == {"find", "create", "created", "createCommit", "clash"}
Transaction == {"write", "written", "commit"}

Has(o, t) == Key(o, t) \in rows[t]

\* An operation looks up tables of its own, and has found or created the rows of
\* those behind it.
Progress(o) ==
  /\ pc[o] \in Lookup => request[o].kind \in {"record", "block"}
  /\ pc[o] \in Lookup /\ request[o].kind = "block" => at[o] = 1
  /\ pc[o] = "check" => request[o].kind \in {"block", "unblock"}
  /\ request[o].kind = "record" /\ at[o] > 1 => Has(o, "ip")
  /\ request[o].kind = "record" /\ at[o] > 2 => Has(o, "fp")
  /\ request[o].kind = "record" /\ pc[o] \in Transaction =>
       Has(o, "ip") /\ Has(o, "fp") /\ Has(o, "banner")
  /\ request[o].kind = "block" /\ pc[o] \in Transaction \cup {"check"} => Has(o, "fp")

Resolved ==
  /\ \A o \in recorded : Has(o, "ip") /\ Has(o, "fp") /\ Has(o, "banner")
  /\ blockedSet \subseteq rows.fp

\* The inductive invariant.
RepoInv ==
  /\ RepoTypeOK
  /\ recorded \subseteq Operation
  /\ \A o \in Operation : Progress(o)
  /\ Resolved

-----------------------------------------------------------------------------
\* What an operation looks up, and the keys of its request.
LEMMA LookupFacts ==
  ASSUME RepoTypeOK, NEW o \in Operation
  PROVE  /\ request[o].kind = "record" =>
              /\ Len(Lookups(o)) = 3
              /\ at[o] = 1 => Table(o) = "ip"
              /\ at[o] = 2 => Table(o) = "fp"
              /\ at[o] = 3 => Table(o) = "banner"
         /\ request[o].kind = "block" =>
              /\ Len(Lookups(o)) = 1
              /\ at[o] = 1 => Table(o) = "fp"
         /\ Key(o, "ip") \in Address
         /\ Key(o, "fp") \in Fingerprint
         /\ Key(o, "fp") = request[o].key.fp
         /\ Key(o, "banner") \in Banner
         /\ at[o] \in {1, 2, 3}
         /\ request[o].kind \in {"record", "block", "unblock"}
<1>1. request[o] \in Requests
  BY DEF RepoTypeOK
<1>2. at[o] \in {1, 2, 3}
  BY DEF RepoTypeOK, Tables
<1>3. request[o].kind = "record" => Lookups(o) = <<"ip", "fp", "banner">>
  BY DEF Lookups, Tables
<1>4. request[o].kind = "block" => Lookups(o) = <<"fp">>
  BY DEF Lookups
<1> QED
  BY <1>1, <1>2, <1>3, <1>4 DEF Requests, Keys, Key, Table

\* Operations begin with no lock, at their first lookup or statement.
LEMMA RepoInitInv == RepoInit => RepoInv
<1> SUFFICES ASSUME RepoInit PROVE RepoInv
  OBVIOUS
<1>1. request \in [Operation -> Requests] /\ pc \in [Operation -> {"find", "check"}]
      /\ \A o \in Operation : pc[o] = "check" <=> request[o].kind = "unblock"
  BY DEF RepoInit
<1>2. RepoTypeOK
  BY <1>1, NobodyAssumption DEF RepoInit, RepoTypeOK, Steps, Tables
<1>3. ASSUME NEW o \in Operation PROVE Progress(o)
  BY <1>1 DEF RepoInit, Progress, Lookup, Transaction, Requests
<1>4. Resolved
  BY DEF RepoInit, Resolved
<1> QED
  BY <1>2, <1>3, <1>4 DEF RepoInv, RepoInit

-----------------------------------------------------------------------------
\* No action deletes a row of a lookup table.
RowsGrow == \A t \in {"ip", "fp", "banner"} : rows[t] \subseteq rows'[t]

\* What an action of one operation leaves of the others.
LEMMA OthersProgress ==
  ASSUME RepoInv, NEW o \in Operation, request' = request, RowsGrow,
         \A p \in Operation \ {o} : pc'[p] = pc[p] /\ at'[p] = at[p]
  PROVE  \A p \in Operation \ {o} : Progress(p)'
<1> SUFFICES ASSUME NEW p \in Operation \ {o} PROVE Progress(p)'
  OBVIOUS
<1>1. Progress(p) /\ pc'[p] = pc[p] /\ at'[p] = at[p]
  BY DEF RepoInv
<1>2. \A t \in {"ip", "fp", "banner"} : Has(p, t) => Has(p, t)'
  BY DEF RowsGrow, Has, Key
<1> QED
  BY <1>1, <1>2 DEF Progress, Lookup, Transaction

\* Going on after a lookup, with its row there.
LEMMA AdvanceProgress ==
  ASSUME RepoInv, NEW o \in Operation, pc[o] \in Lookup, request' = request,
         RowsGrow, Key(o, Table(o)) \in rows'[Table(o)], Advance(o)
  PROVE  /\ pc' \in [Operation -> Steps] /\ at' \in [Operation -> 1..Len(Tables)]
         /\ pc'[o] \in {"find", "write", "check"}
         /\ \A p \in Operation \ {o} : pc'[p] = pc[p] /\ at'[p] = at[p]
         /\ Progress(o)'
<1>1. Progress(o) /\ RepoTypeOK
  BY DEF RepoInv
<1>2. request[o].kind \in {"record", "block"}
  BY <1>1 DEF Progress
<1>3. \A t \in {"ip", "fp", "banner"} : Has(o, t) => Has(o, t)'
  BY DEF RowsGrow, Has, Key
<1>4. CASE request[o].kind = "block"
  <2>1. at[o] = 1 /\ Len(Lookups(o)) = 1 /\ Table(o) = "fp"
    BY <1>1, <1>4, LookupFacts DEF Progress
  <2>2. pc' = [pc EXCEPT ![o] = "check"] /\ at' = at
    BY <1>4, <2>1 DEF Advance, Become
  <2>3. Has(o, "fp")'
    BY <2>1 DEF Has, Key
  <2> QED
    BY <1>1, <1>4, <2>1, <2>2, <2>3 DEF Progress, RepoTypeOK, Steps, Lookup, Transaction
<1>5. CASE request[o].kind = "record"
  <2>1. Len(Lookups(o)) = 3 /\ at[o] \in {1, 2, 3}
    BY <1>1, <1>5, LookupFacts
  <2>2. CASE at[o] < 3
    <3>1. pc' = [pc EXCEPT ![o] = "find"] /\ at' = [at EXCEPT ![o] = @ + 1]
      BY <2>1, <2>2 DEF Advance, Become
    <3>2. at'[o] = at[o] + 1 /\ at' \in [Operation -> 1..Len(Tables)]
      BY <1>1, <2>1, <2>2, <3>1 DEF RepoTypeOK, Tables
    <3>3. (at[o] = 1 => Has(o, "ip")') /\ (at[o] = 2 => Has(o, "fp")')
      BY <1>1, <1>5, LookupFacts DEF Has, Key
    <3> QED
      BY <1>1, <1>3, <1>5, <2>1, <2>2, <3>1, <3>2, <3>3
         DEF Progress, RepoTypeOK, Steps, Lookup, Transaction
  <2>3. CASE at[o] = 3
    <3>1. pc' = [pc EXCEPT ![o] = "write"] /\ at' = at
      BY <1>5, <2>1, <2>3 DEF Advance, Become
    <3>2. Has(o, "banner")'
      BY <1>1, <1>5, <2>3, LookupFacts DEF Has, Key
    <3> QED
      BY <1>1, <1>3, <1>5, <2>3, <3>1, <3>2
         DEF Progress, RepoTypeOK, Steps, Lookup, Transaction
  <2> QED
    BY <2>1, <2>2, <2>3
<1> QED
  BY <1>2, <1>4, <1>5

\* What is stored still refers to rows that are there.
LEMMA ResolvedStays ==
  ASSUME RepoInv, RowsGrow, request' = request, recorded' = recorded,
         blockedSet' = blockedSet
  PROVE  Resolved'
<1>1. \A o \in recorded, t \in {"ip", "fp", "banner"} : Has(o, t) => Has(o, t)'
  BY DEF RowsGrow, Has, Key
<1> QED
  BY <1>1 DEF RepoInv, Resolved, RowsGrow

-----------------------------------------------------------------------------
\* The invariant after a step of o, from its parts that concern o.
LEMMA StepOfOne ==
  ASSUME RepoInv, NEW o \in Operation, request' = request, RowsGrow,
         \A p \in Operation \ {o} : pc'[p] = pc[p] /\ at'[p] = at[p],
         RepoTypeOK', Progress(o)', recorded' \subseteq Operation, Resolved'
  PROVE  RepoInv'
<1>1. \A p \in Operation \ {o} : Progress(p)'
  BY OthersProgress
<1> QED
  BY <1>1 DEF RepoInv

\* A failed operation has no locks, and nothing to have progressed to.
LEMMA FailStep ==
  ASSUME RepoInv, NEW o \in Operation, Become(o, "failed"), Release(o),
         UNCHANGED <<request, at, dataVars>>, excused' \subseteq Operation
  PROVE  RepoInv'
<1>1. RepoTypeOK'
  BY NobodyAssumption DEF RepoInv, RepoTypeOK, Become, Release, dataVars, Steps
<1>2. RowsGrow
  BY DEF RowsGrow, dataVars
<1>3. Resolved'
  BY <1>2, ResolvedStays DEF dataVars
<1>4. Progress(o)'
  BY DEF RepoInv, RepoTypeOK, Progress, Become, Lookup, Transaction, Has, Key, dataVars
<1>5. \A p \in Operation \ {o} : pc'[p] = pc[p] /\ at'[p] = at[p]
  BY DEF RepoInv, RepoTypeOK, Become
<1> QED
  BY <1>1, <1>2, <1>3, <1>4, <1>5, StepOfOne DEF RepoInv, dataVars

\* A step that writes no table and leaves o where its progress holds as before.
LEMMA QuietStep ==
  ASSUME RepoInv, NEW o \in Operation, UNCHANGED <<request, at, dataVars>>,
         NEW step \in Steps, Become(o, step), RepoTypeOK',
         \/ step \in Lookup /\ pc[o] \in Lookup
         \/ step \in Transaction /\ pc[o] \in Transaction \cup {"check"}
         \/ step = "done"
  PROVE  RepoInv'
<1>1. RowsGrow
  BY DEF RowsGrow, dataVars
<1>2. Resolved'
  BY <1>1, ResolvedStays DEF dataVars
<1>3. Progress(o) /\ pc'[o] = step
  BY DEF RepoInv, RepoTypeOK, Become
<1>4. Progress(o)'
  BY <1>3 DEF Progress, Lookup, Transaction, Has, Key, dataVars
<1>5. \A p \in Operation \ {o} : pc'[p] = pc[p] /\ at'[p] = at[p]
  BY DEF RepoInv, RepoTypeOK, Become
<1> QED
  BY <1>1, <1>2, <1>4, <1>5, StepOfOne DEF RepoInv, dataVars

\* No step of an operation breaks the invariant.
LEMMA RepoStep ==
  ASSUME RepoInv, [RepoNext]_repoVars
  PROVE  RepoInv'
<1>1. RepoTypeOK
  BY DEF RepoInv
<1>2. CASE UNCHANGED repoVars
  BY <1>2 DEF RepoInv, RepoTypeOK, Progress, Resolved, Has, Key, repoVars, dataVars, lockVars
<1>3. ASSUME NEW o \in Operation, Find(o)
      PROVE  RepoInv'
  <2>1. RowsGrow /\ UNCHANGED <<request, dataVars, lockVars, excused>> /\ pc[o] = "find"
    BY <1>3 DEF Find, RowsGrow, dataVars
  <2>2. CASE Key(o, Table(o)) \in rows[Table(o)]
    <3>1. Advance(o)
      BY <1>3, <2>2 DEF Find
    <3>2. /\ pc' \in [Operation -> Steps] /\ at' \in [Operation -> 1..Len(Tables)]
          /\ pc'[o] \in {"find", "write", "check"}
          /\ \A p \in Operation \ {o} : pc'[p] = pc[p] /\ at'[p] = at[p]
          /\ Progress(o)'
      BY <2>1, <2>2, <3>1, AdvanceProgress DEF Lookup, dataVars
    <3>3. RepoTypeOK'
      BY <1>1, <2>1, <3>2 DEF RepoTypeOK, lockVars, dataVars
    <3> QED
      BY <2>1, <3>2, <3>3, ResolvedStays, StepOfOne DEF RepoInv, dataVars
  <2>3. CASE Key(o, Table(o)) \notin rows[Table(o)]
    <3>1. Become(o, "create") /\ at' = at
      BY <1>3, <2>3 DEF Find
    <3>2. RepoTypeOK'
      BY <1>1, <2>1, <3>1 DEF RepoTypeOK, lockVars, dataVars, Become, Steps
    <3> QED
      BY <2>1, <3>1, <3>2, QuietStep DEF Lookup, Steps
  <2> QED
    BY <2>2, <2>3
<1>4. ASSUME NEW o \in Operation, Create(o)
      PROVE  RepoInv'
  <2> DEFINE step == IF Key(o, Table(o)) \in rows[Table(o)] THEN "clash" ELSE "created"
  <2>1. step \in {"clash", "created"} /\ Become(o, step)
    BY <1>4 DEF Create
  <2> HIDE DEF step
  <2>2. RepoTypeOK'
    BY <1>1, <1>4, <2>1, NobodyAssumption DEF Create, RepoTypeOK, Become, Steps, dataVars
  <2> QED
    BY <1>4, <2>1, <2>2, QuietStep DEF Create, Lookup, Steps
<1>5. ASSUME NEW o \in Operation, CommitCreated(o)
      PROVE  RepoInv'
  <2>1. Table(o) \in {"ip", "fp", "banner"} /\ Key(o, Table(o)) \in
          [ip |-> Address, fp |-> Fingerprint, banner |-> Banner][Table(o)]
    <3>1. Progress(o) /\ pc[o] = "createCommit"
      BY <1>5 DEF RepoInv, CommitCreated
    <3>2. request[o].kind \in {"record", "block"}
      BY <3>1 DEF Progress, Lookup
    <3>3. request[o].kind = "block" => at[o] = 1
      BY <3>1 DEF Progress, Lookup
    <3> QED
      BY <1>1, <3>2, <3>3, LookupFacts
  <2>2. rows' = [rows EXCEPT ![Table(o)] = @ \cup {Key(o, Table(o))}]
    BY <1>5 DEF CommitCreated
  <2>3. RowsGrow /\ Key(o, Table(o)) \in rows'[Table(o)]
    BY <1>1, <2>1, <2>2 DEF RepoTypeOK, RowsGrow
  <2>4. rows' \in [ip : SUBSET Address, fp : SUBSET Fingerprint, banner : SUBSET Banner]
    <3>1. rows \in [ip : SUBSET Address, fp : SUBSET Fingerprint, banner : SUBSET Banner]
      BY <1>1 DEF RepoTypeOK
    <3>2. CASE Table(o) = "ip"
      BY <2>1, <2>2, <3>1, <3>2
    <3>3. CASE Table(o) = "fp"
      BY <2>1, <2>2, <3>1, <3>3
    <3>4. CASE Table(o) = "banner"
      BY <2>1, <2>2, <3>1, <3>4
    <3> QED
      BY <2>1, <3>2, <3>3, <3>4
  <2>5. /\ pc' \in [Operation -> Steps] /\ at' \in [Operation -> 1..Len(Tables)]
        /\ pc'[o] \in {"find", "write", "check"}
        /\ \A p \in Operation \ {o} : pc'[p] = pc[p] /\ at'[p] = at[p]
        /\ Progress(o)'
    BY <1>5, <2>3, AdvanceProgress DEF CommitCreated, Lookup
  <2>6. RepoTypeOK'
    BY <1>1, <1>5, <2>4, <2>5, NobodyAssumption DEF CommitCreated, RepoTypeOK
  <2> QED
    BY <1>5, <2>3, <2>5, <2>6, ResolvedStays, StepOfOne DEF CommitCreated, RepoInv
<1>6. ASSUME NEW o \in Operation, RollBackClash(o)
      PROVE  RepoInv'
  BY <1>1, <1>6, FailStep DEF RollBackClash, RepoTypeOK
<1>7. ASSUME NEW o \in Operation, CheckBlocked(o)
      PROVE  RepoInv'
  <2> DEFINE step == IF Key(o, "fp") \in blockedSet THEN "done" ELSE "write"
  <2>1. step \in {"done", "write"} /\ Become(o, step)
        /\ shared' = IF step = "done" THEN shared \ {o} ELSE shared \cup {o}
    BY <1>7 DEF CheckBlocked
  <2> HIDE DEF step
  <2>2. RepoTypeOK'
    BY <1>1, <1>7, <2>1, NobodyAssumption DEF CheckBlocked, RepoTypeOK, Become, Steps, dataVars
  <2> QED
    BY <1>7, <2>1, <2>2, QuietStep DEF CheckBlocked, Transaction, Steps
<1>8. ASSUME NEW o \in Operation, CheckKnown(o)
      PROVE  RepoInv'
  <2>1. CASE Key(o, "fp") \in rows.fp
    <3>1. Become(o, "write") /\ shared' = shared \cup {o} /\ excused' = excused
      BY <1>8, <2>1 DEF CheckKnown
    <3>2. RepoTypeOK'
      BY <1>1, <1>8, <3>1, NobodyAssumption DEF CheckKnown, RepoTypeOK, Become, Steps, dataVars
    <3> QED
      BY <1>8, <3>1, <3>2, QuietStep DEF CheckKnown, Transaction, Steps
  <2>2. CASE Key(o, "fp") \notin rows.fp
    <3>1. Release(o)
      BY <1>1, <1>8, <2>2 DEF CheckKnown, Release, RepoTypeOK
    <3> QED
      BY <1>1, <1>8, <2>2, <3>1, FailStep DEF CheckKnown, RepoTypeOK
  <2> QED
    BY <2>1, <2>2
<1>9. ASSUME NEW o \in Operation, Write(o)
      PROVE  RepoInv'
  <2>1. RepoTypeOK'
    BY <1>1, <1>9, NobodyAssumption DEF Write, RepoTypeOK, Become, Steps, dataVars
  <2> QED
    BY <1>9, <2>1, QuietStep DEF Write, Transaction, Steps
<1>10. ASSUME NEW o \in Operation, UpgradeRefused(o)
       PROVE  RepoInv'
  BY <1>1, <1>10, FailStep DEF UpgradeRefused, RepoTypeOK
<1>11. ASSUME NEW o \in Operation, StartCommit(o)
       PROVE  RepoInv'
  <2>1. RepoTypeOK'
    BY <1>1, <1>11, NobodyAssumption
       DEF StartCommit, RepoTypeOK, Become, Steps, dataVars, lockVars
  <2>2. CASE pc[o] = "created"
    BY <1>11, <2>1, <2>2, QuietStep DEF StartCommit, Lookup, Steps
  <2>3. CASE pc[o] = "written"
    BY <1>11, <2>1, <2>3, QuietStep DEF StartCommit, Transaction, Steps
  <2> QED
    BY <1>11, <2>2, <2>3 DEF StartCommit
<1>12. ASSUME NEW o \in Operation, Commit(o)
       PROVE  RepoInv'
  <2>1. RepoTypeOK'
    BY <1>1, <1>12, NobodyAssumption DEF Commit, RepoTypeOK, Become, Release, Steps
  <2>2. RowsGrow /\ Progress(o) /\ pc[o] = "commit"
    BY <1>12 DEF Commit, RowsGrow, RepoInv
  <2>3. \A p \in Operation \ {o} : pc'[p] = pc[p] /\ at'[p] = at[p]
    BY <1>1, <1>12 DEF Commit, RepoTypeOK, Become
  <2>4. pc'[o] = "done"
    BY <1>1, <1>12 DEF Commit, RepoTypeOK, Become
  <2>5. Progress(o)'
    BY <1>12, <2>2, <2>4 DEF Commit, Progress, Lookup, Transaction, Has, Key
  <2>6. recorded' \subseteq Operation
        /\ \A p \in recorded' : Has(p, "ip") /\ Has(p, "fp") /\ Has(p, "banner")
    <3>1. CASE request[o].kind = "record"
      BY <1>12, <2>2, <3>1 DEF Commit, Progress, Transaction, RepoInv, Resolved
    <3>2. CASE request[o].kind # "record"
      BY <1>12, <3>2 DEF Commit, RepoInv, Resolved
    <3> QED
      BY <3>1, <3>2
  <2>7. blockedSet' \subseteq rows.fp
    <3>1. blockedSet \subseteq rows.fp
      BY DEF RepoInv, Resolved
    <3>2. CASE request[o].kind = "block"
      BY <1>12, <2>2, <3>1, <3>2 DEF Commit, Progress, Transaction, Has
    <3>3. CASE request[o].kind # "block"
      BY <1>12, <3>1, <3>3 DEF Commit
    <3> QED
      BY <3>2, <3>3
  <2>8. Resolved'
    BY <1>12, <2>6, <2>7 DEF Commit, Resolved, Has, Key
  <2> QED
    BY <1>12, <2>1, <2>2, <2>3, <2>5, <2>6, <2>8, StepOfOne DEF Commit
<1>13. ASSUME NEW o \in Operation, CheckFails(o) \/ Abandon(o)
       PROVE  RepoInv'
  BY <1>1, <1>13, FailStep DEF CheckFails, Abandon, RepoTypeOK
<1> QED
  BY <1>2, <1>3, <1>4, <1>5, <1>6, <1>7, <1>8, <1>9, <1>10, <1>11, <1>12, <1>13
     DEF RepoNext, Statement, AllReturned

-----------------------------------------------------------------------------
\* The inductive invariant holds in every state.
LEMMA RepoInvariance == RepoSpec => []RepoInv
<1> QED
  BY RepoInitInv, RepoStep, PTL DEF RepoSpec

\* The types and the locks: a read lock is held by the statements of BlockHASH and
\* UnblockHASH only, the write lock by the operation whose step says so.
THEOREM RepoTypeCorrect == RepoSpec => []RepoTypeOK
<1>1. RepoInv => RepoTypeOK
  BY DEF RepoInv
<1> QED
  BY <1>1, RepoInvariance, PTL

\* Whatever operations run, interleave and are cut off, a stored connection and a
\* blocked fingerprint refer to rows that are there.
THEOREM ReferencesAlwaysResolve == RepoSpec => []ReferencesResolve
<1>1. ASSUME RepoInv PROVE ReferencesResolve
  <2>1. \A i \in 1..Len(Tables) : Tables[i] \in {"ip", "fp", "banner"}
    BY DEF Tables
  <2>2. Resolved
    BY <1>1 DEF RepoInv
  <2> QED
    BY <2>1, <2>2 DEF Resolved, ReferencesResolve, Has
<1> QED
  BY <1>1, RepoInvariance, PTL

-----------------------------------------------------------------------------
outcomes == [o \in Operation |-> Outcome(o)]

\* What a step of o makes of the outcomes.
LEMMA OutcomeStep ==
  ASSUME RepoInv, NEW o \in Operation, ~Ended(o), pc'[o] \in Steps,
         \A p \in Operation \ {o} : pc'[p] = pc[p]
  PROVE  /\ outcomes[o] = "open"
         /\ pc'[o] \notin {"done", "failed"} => outcomes' = outcomes
         /\ pc'[o] = "done" => outcomes' = [outcomes EXCEPT ![o] = "ok"]
         /\ pc'[o] = "failed" => outcomes' = [outcomes EXCEPT ![o] = "error"]
<1>1. Outcome(o) = "open"
  BY DEF Outcome, Ended
<1>2. \A p \in Operation \ {o} : Outcome(p)' = Outcome(p)
  BY DEF Outcome
<1>3. /\ pc'[o] \notin {"done", "failed"} => Outcome(o)' = "open"
      /\ pc'[o] = "done" => Outcome(o)' = "ok"
      /\ pc'[o] = "failed" => Outcome(o)' = "error"
  BY DEF Outcome
<1> QED
  BY <1>1, <1>2, <1>3 DEF outcomes

\* A step that does not end the operation is none of the registry's.
LEMMA RegistryStutter ==
  ASSUME RepoInv, NEW o \in Operation, NEW step \in Steps \ {"done", "failed"},
         ~Ended(o), Become(o, step), UNCHANGED <<request, blockedSet, recorded>>
  PROVE  UNCHANGED R!registryVars
<1>1. pc'[o] = step /\ \A p \in Operation \ {o} : pc'[p] = pc[p]
  BY DEF RepoInv, RepoTypeOK, Become
<1>2. outcomes' = outcomes
  BY <1>1, OutcomeStep
<1> QED
  BY <1>2 DEF R!registryVars, outcomes

\* An operation that fails has no effect on the list and the connections.
LEMMA RegistryFailure ==
  ASSUME RepoInv, NEW o \in Operation, ~Ended(o), Become(o, "failed"),
         UNCHANGED <<request, blockedSet, recorded>>
  PROVE  R!RegistryNext
<1>1. pc'[o] = "failed" /\ \A p \in Operation \ {o} : pc'[p] = pc[p]
  BY DEF RepoInv, RepoTypeOK, Become
<1>2. outcomes[o] = "open" /\ outcomes' = [outcomes EXCEPT ![o] = "error"]
  BY <1>1, OutcomeStep DEF Steps
<1>3. R!GiveUp(o)
  BY <1>2 DEF R!GiveUp, outcomes
<1> QED
  BY <1>3 DEF R!RegistryNext

\* An operation that succeeds has its whole effect in that step.
LEMMA RegistrySuccess ==
  ASSUME RepoInv, NEW o \in Operation, ~Ended(o), Become(o, "done"),
         UNCHANGED request,
         recorded' = IF request[o].kind = "record" THEN recorded \cup {o} ELSE recorded,
         request[o].kind = "block" => blockedSet' = blockedSet \cup {Key(o, "fp")},
         request[o].kind = "unblock" => blockedSet' = blockedSet \ {Key(o, "fp")},
         request[o].kind = "record" => blockedSet' = blockedSet
  PROVE  R!RegistryNext
<1>1. pc'[o] = "done" /\ \A p \in Operation \ {o} : pc'[p] = pc[p]
  BY DEF RepoInv, RepoTypeOK, Become
<1>2. outcomes[o] = "open" /\ outcomes' = [outcomes EXCEPT ![o] = "ok"]
  BY <1>1, OutcomeStep DEF Steps
<1>3. request[o].kind \in {"record", "block", "unblock"} /\ Key(o, "fp") = request[o].key.fp
  BY LookupFacts DEF RepoInv
<1>4. R!Succeed(o)
  BY <1>2, <1>3 DEF R!Succeed, outcomes
<1> QED
  BY <1>4 DEF R!RegistryNext

\* Each statement is a step of the registry or none.
LEMMA RegistryStep ==
  ASSUME RepoInv, [RepoNext]_repoVars
  PROVE  [R!RegistryNext]_(R!registryVars)
<1>1. CASE UNCHANGED repoVars
  BY <1>1 DEF repoVars, dataVars, lockVars, R!registryVars, Outcome
<1>2. ASSUME NEW o \in Operation, Find(o) \/ CommitCreated(o)
      PROVE  UNCHANGED R!registryVars
  <2>1. UNCHANGED <<request, blockedSet, recorded>> /\ ~Ended(o)
    BY <1>2 DEF Find, CommitCreated, dataVars, Ended
  <2>2. Become(o, "create") \/ Become(o, "find") \/ Become(o, "write") \/ Become(o, "check")
    BY <1>2 DEF Find, CommitCreated, Advance
  <2> QED
    BY <2>1, <2>2, RegistryStutter DEF Steps
<1>3. ASSUME NEW o \in Operation, Create(o) \/ Write(o) \/ StartCommit(o)
      PROVE  UNCHANGED R!registryVars
  <2>1. UNCHANGED <<request, blockedSet, recorded>> /\ ~Ended(o)
    BY <1>3 DEF Create, Write, StartCommit, dataVars, Ended
  <2>2. \/ Become(o, "clash") \/ Become(o, "created") \/ Become(o, "written")
        \/ Become(o, "createCommit") \/ Become(o, "commit")
    BY <1>3 DEF Create, Write, StartCommit
  <2> QED
    BY <2>1, <2>2, RegistryStutter DEF Steps
<1>4. ASSUME NEW o \in Operation,
             RollBackClash(o) \/ UpgradeRefused(o) \/ CheckFails(o) \/ Abandon(o)
      PROVE  R!RegistryNext
  BY <1>4, RegistryFailure
     DEF RollBackClash, UpgradeRefused, CheckFails, Abandon, dataVars, Ended
<1>5. ASSUME NEW o \in Operation, CheckBlocked(o)
      PROVE  [R!RegistryNext]_(R!registryVars)
  <2>1. UNCHANGED <<request, blockedSet, recorded>> /\ ~Ended(o) /\ request[o].kind = "block"
    BY <1>5 DEF CheckBlocked, dataVars, Ended
  <2>2. CASE Key(o, "fp") \in blockedSet
    <3>1. Become(o, "done")
      BY <1>5, <2>2 DEF CheckBlocked
    <3> QED
      BY <2>1, <2>2, <3>1, RegistrySuccess
  <2>3. CASE Key(o, "fp") \notin blockedSet
    <3>1. Become(o, "write")
      BY <1>5, <2>3 DEF CheckBlocked
    <3> QED
      BY <2>1, <3>1, RegistryStutter DEF Steps
  <2> QED
    BY <2>2, <2>3
<1>6. ASSUME NEW o \in Operation, CheckKnown(o)
      PROVE  [R!RegistryNext]_(R!registryVars)
  <2>1. UNCHANGED <<request, blockedSet, recorded>> /\ ~Ended(o)
    BY <1>6 DEF CheckKnown, dataVars, Ended
  <2>2. Become(o, "write") \/ Become(o, "failed")
    BY <1>6 DEF CheckKnown
  <2> QED
    BY <2>1, <2>2, RegistryStutter, RegistryFailure DEF Steps
<1>7. ASSUME NEW o \in Operation, Commit(o)
      PROVE  R!RegistryNext
  <2>1. ~Ended(o) /\ Become(o, "done") /\ UNCHANGED request
    BY <1>7 DEF Commit, Ended
  <2>2. /\ recorded' = IF request[o].kind = "record" THEN recorded \cup {o} ELSE recorded
        /\ request[o].kind = "block" => blockedSet' = blockedSet \cup {Key(o, "fp")}
        /\ request[o].kind = "unblock" => blockedSet' = blockedSet \ {Key(o, "fp")}
        /\ request[o].kind = "record" => blockedSet' = blockedSet
    BY <1>7 DEF Commit
  <2> QED
    BY <2>1, <2>2, RegistrySuccess
<1> QED
  BY <1>1, <1>2, <1>3, <1>4, <1>5, <1>6, <1>7 DEF RepoNext, Statement, AllReturned

\* To its callers the statements and the locks are the list of module Registry: each
\* operation takes effect once and at once, or fails without effect.
THEOREM RegistryImplemented == RepoSpec => ImplementsRegistry
<1>1. RepoInit => R!RegistryInit
  <2> SUFFICES ASSUME RepoInit PROVE R!RegistryInit
    OBVIOUS
  <2>1. \A o \in Operation : Outcome(o) = "open"
    BY DEF RepoInit, Outcome
  <2>2. blockedSet \subseteq Fingerprint
    BY DEF RepoInit
  <2> QED
    BY <2>1, <2>2 DEF RepoInit, R!RegistryInit
<1>2. RepoInv /\ [RepoNext]_repoVars => [R!RegistryNext]_(R!registryVars)
  BY RegistryStep
<1> QED
  BY <1>1, <1>2, RepoInvariance, PTL DEF RepoSpec, ImplementsRegistry, R!RegistrySpec

=============================================================================
