----------------------------- MODULE Repository -----------------------------
(***************************************************************************)
(* Package storage: RecordConnection, BlockHASH and UnblockHASH, statement *)
(* by statement, called at the same time by the recorders of the proxy, by *)
(* sshctl and by its terminal interface.                                   *)
(*                                                                         *)
(* The three lookup tables are read and filled through r.db, so on a       *)
(* connection of their own where every statement is a transaction; only    *)
(* the statements written with tx belong to the transaction of the         *)
(* operation. Of the database engine, SQLite with a rollback journal, the  *)
(* locks are modelled: any number of readers (shared), one writer          *)
(* (reserved) that must see all readers leave before its commit and lets   *)
(* none in meanwhile (pending), a wait for a lock, except that a           *)
(* transaction that has read and wants to write is refused at once.        *)
(***************************************************************************)
EXTENDS Naturals, Sequences, FiniteSets

CONSTANTS
  Operation,    \* the calls
  Address,      \* values of ip_addresses
  Fingerprint,  \* values of hassh_fingerprints
  Banner,       \* values of ssh_client_banners
  Nobody

ASSUME NobodyAssumption == Nobody \notin Operation

Tables == <<"ip", "fp", "banner">>
Keys == [ip : Address, fp : Fingerprint, banner : Banner]
Requests == [kind : {"record", "block", "unblock"}, key : Keys]

VARIABLES
  request,    \* what each operation asks for
  pc,         \* control state of each operation
  at,         \* the lookup table it has come to
  rows,       \* the rows of the lookup tables
  blockedSet, \* the fingerprints with a row in blocked_fingerprints
  recorded,   \* the operations with a row in ssh_connections
  shared,     \* operations whose transaction holds a read lock
  reserved,   \* the operation that holds the write lock
  excused     \* operations ended by the storage, the timeout or a kill

lockVars == <<shared, reserved>>
dataVars == <<rows, blockedSet, recorded>>
repoVars == <<request, pc, at, dataVars, lockVars, excused>>

Steps == {"find", "create", "created", "createCommit", "clash",
          "check", "write", "written", "commit", "done", "failed"}
Ended(o) == pc[o] \in {"done", "failed"}

\* The tables whose rows the operation finds or creates, in order.
Lookups(o) ==
  CASE request[o].kind = "record" -> Tables
    [] request[o].kind = "block" -> <<"fp">>
    [] OTHER -> <<>>

Key(o, t) == request[o].key[t]
Table(o) == Lookups(o)[at[o]]

\* A commit is under way: no reader is let in.
Pending == reserved # Nobody /\ pc[reserved] \in {"createCommit", "commit"}

Release(o) ==
  /\ shared' = shared \ {o}
  /\ reserved' = IF reserved = o THEN Nobody ELSE reserved

RepoInit ==
  /\ request \in [Operation -> Requests]
  /\ pc = [o \in Operation |-> IF request[o].kind = "unblock" THEN "check" ELSE "find"]
  /\ at = [o \in Operation |-> 1]
  /\ rows \in [ip : SUBSET Address, fp : SUBSET Fingerprint, banner : SUBSET Banner]
  /\ blockedSet \in SUBSET rows.fp
  /\ recorded = {}
  /\ shared = {}
  /\ reserved = Nobody
  /\ excused = {}

Become(o, step) == pc' = [pc EXCEPT ![o] = step]

\* On with the next lookup, or with the statements of the transaction.
Advance(o) ==
  IF at[o] < Len(Lookups(o))
  THEN Become(o, "find") /\ at' = [at EXCEPT ![o] = @ + 1]
  ELSE Become(o, IF request[o].kind = "record" THEN "write" ELSE "check") /\ UNCHANGED at

-----------------------------------------------------------------------------
(***************************************************************************)
(* getOrCreateIPAddress, getOrCreateHASSH, getOrCreateBanner               *)
(***************************************************************************)

\* Fault: First is a statement of the transaction, Create is not.
FindInTransaction(o) ==
  /\ pc[o] = "find" /\ ~Pending
  /\ shared' = shared \cup {o}
  /\ IF Key(o, Table(o)) \in rows[Table(o)]
     THEN Advance(o)
     ELSE Become(o, "create") /\ UNCHANGED at
  /\ UNCHANGED <<request, dataVars, reserved, excused>>

\* r.db.Where(...).First.
Find(o) ==
  /\ pc[o] = "find" /\ ~Pending
  /\ IF Key(o, Table(o)) \in rows[Table(o)]
     THEN Advance(o)
     ELSE Become(o, "create") /\ UNCHANGED at
  /\ UNCHANGED <<request, dataVars, lockVars, excused>>

\* The INSERT of r.db.Create. The unique index refuses a row that is there by now.
Create(o) ==
  /\ pc[o] = "create" /\ reserved = Nobody
  /\ reserved' = o
  /\ Become(o, IF Key(o, Table(o)) \in rows[Table(o)] THEN "clash" ELSE "created")
  /\ UNCHANGED <<request, at, dataVars, shared, excused>>

\* The commit of r.db.Create, behind every reader, the own transaction included.
CommitCreated(o) ==
  /\ pc[o] = "createCommit" /\ shared = {}
  /\ rows' = [rows EXCEPT ![Table(o)] = @ \cup {Key(o, Table(o))}]
  /\ reserved' = Nobody
  /\ Advance(o)
  /\ UNCHANGED <<request, blockedSet, recorded, shared, excused>>

\* Both transactions are rolled back, the error is returned.
RollBackClash(o) ==
  /\ pc[o] = "clash"
  /\ Become(o, "failed")
  /\ Release(o)
  /\ UNCHANGED <<request, at, dataVars, excused>>

-----------------------------------------------------------------------------
(***************************************************************************)
(* The statements of the transaction                                       *)
(***************************************************************************)

\* BlockHASH: First(&existing); a fingerprint already blocked is a success.
CheckBlocked(o) ==
  /\ pc[o] = "check" /\ request[o].kind = "block" /\ ~Pending
  /\ IF Key(o, "fp") \in blockedSet
     THEN Become(o, "done") /\ shared' = shared \ {o}
     ELSE Become(o, "write") /\ shared' = shared \cup {o}
  /\ UNCHANGED <<request, at, dataVars, reserved, excused>>

\* Fault: any answer but a record not found counts as already blocked.
CheckErrorIsFound(o) ==
  /\ pc[o] = "check"
  /\ Become(o, "done")
  /\ Release(o)
  /\ excused' = excused \cup {o}
  /\ UNCHANGED <<request, at, dataVars>>

\* The statement fails in the storage, or finds the lock taken for too long.
CheckFails(o) ==
  /\ pc[o] = "check"
  /\ Become(o, "failed")
  /\ Release(o)
  /\ excused' = excused \cup {o}
  /\ UNCHANGED <<request, at, dataVars>>

\* UnblockHASH: First(&hasshRecord); an unknown fingerprint is an error.
CheckKnown(o) ==
  /\ pc[o] = "check" /\ request[o].kind = "unblock" /\ ~Pending
  /\ IF Key(o, "fp") \in rows.fp
     THEN Become(o, "write") /\ shared' = shared \cup {o} /\ UNCHANGED excused
     ELSE Become(o, "failed") /\ shared' = shared \ {o} /\ excused' = excused \cup {o}
  /\ UNCHANGED <<request, at, dataVars, reserved>>

\* The INSERT or DELETE of the transaction.
Write(o) ==
  /\ pc[o] = "write" /\ reserved = Nobody
  /\ reserved' = o
  /\ Become(o, "written")
  /\ UNCHANGED <<request, at, dataVars, shared, excused>>

\* SQLITE_BUSY, at once: this transaction reads what another is about to change.
UpgradeRefused(o) ==
  /\ pc[o] = "write" /\ o \in shared /\ reserved # Nobody
  /\ Become(o, "failed")
  /\ Release(o)
  /\ UNCHANGED <<request, at, dataVars, excused>>

StartCommit(o) ==
  /\ pc[o] \in {"created", "written"}
  /\ Become(o, IF pc[o] = "created" THEN "createCommit" ELSE "commit")
  /\ UNCHANGED <<request, at, dataVars, lockVars, excused>>

\* The operation takes effect.
Commit(o) ==
  /\ pc[o] = "commit" /\ shared \subseteq {o}
  /\ Become(o, "done")
  /\ recorded' = IF request[o].kind = "record" THEN recorded \cup {o} ELSE recorded
  /\ blockedSet' = CASE request[o].kind = "block" -> blockedSet \cup {Key(o, "fp")}
                     [] request[o].kind = "unblock" -> blockedSet \ {Key(o, "fp")}
                     [] OTHER -> blockedSet
  /\ Release(o)
  /\ UNCHANGED <<request, at, rows, excused>>

\* Fault: an error of Create is not looked at.
AbandonButCreate(o) ==
  /\ ~Ended(o) /\ pc[o] # "check"
  /\ Release(o)
  /\ IF pc[o] \in {"create", "created", "createCommit"}
     THEN Advance(o) /\ UNCHANGED excused
     ELSE Become(o, "failed") /\ excused' = excused \cup {o} /\ UNCHANGED at
  /\ UNCHANGED <<request, dataVars>>

\* A storage error, a lock not granted within the busy timeout, or the end of the
\* process: what is not committed is rolled back, what is stays.
Abandon(o) ==
  /\ ~Ended(o) /\ pc[o] # "check"
  /\ Become(o, "failed")
  /\ Release(o)
  /\ excused' = excused \cup {o}
  /\ UNCHANGED <<request, at, dataVars>>

-----------------------------------------------------------------------------
Statement(o) ==
  \/ Find(o) \/ Create(o) \/ CommitCreated(o) \/ RollBackClash(o)
  \/ CheckBlocked(o) \/ CheckKnown(o)
  \/ Write(o) \/ UpgradeRefused(o) \/ StartCommit(o) \/ Commit(o)

AllReturned ==
  (\A o \in Operation : Ended(o)) /\ UNCHANGED repoVars

RepoNext ==
  \/ \E o \in Operation : Statement(o) \/ CheckFails(o) \/ Abandon(o)
  \/ AllReturned

RepoSpec == RepoInit /\ [][RepoNext]_repoVars

\* Every caller goes on with its next statement, or retries a lock it waits for.
FairRepoSpec == RepoSpec /\ \A o \in Operation : WF_repoVars(Statement(o))

-----------------------------------------------------------------------------
(***************************************************************************)
(* Properties                                                              *)
(***************************************************************************)

\* Types, and who may hold which lock: only BlockHASH and UnblockHASH hold a read
\* lock, only between their two statements, and the writer is the operation whose
\* step says so.
RepoTypeOK ==
  /\ request \in [Operation -> Requests]
  /\ pc \in [Operation -> Steps]
  /\ at \in [Operation -> 1..Len(Tables)]
  /\ rows \in [ip : SUBSET Address, fp : SUBSET Fingerprint, banner : SUBSET Banner]
  /\ shared \subseteq {o \in Operation : pc[o] \in {"write", "written", "commit"}}
  /\ reserved \in Operation \cup {Nobody}
  /\ \A o \in Operation :
       reserved = o <=> pc[o] \in {"created", "createCommit", "clash", "written", "commit"}
  /\ excused \subseteq Operation

\* A stored connection, and a blocked fingerprint, refers to rows that are there,
\* although those are written in other transactions and the operation may be killed
\* between any two of them.
ReferencesResolve ==
  /\ \A o \in recorded, i \in 1..Len(Tables) : Key(o, Tables[i]) \in rows[Tables[i]]
  /\ blockedSet \subseteq rows.fp

Outcome(o) ==
  CASE pc[o] = "done" -> "ok"
    [] pc[o] = "failed" -> "error"
    [] OTHER -> "open"

R == INSTANCE Registry WITH outcome <- [o \in Operation |-> Outcome(o)]

\* Each operation takes effect once and at once, or fails without effect on the block
\* list and the recorded connections.
ImplementsRegistry == R!RegistrySpec

\* Operations that wait for each other's locks do not wait for ever, without the help
\* of the busy timeout.
EveryOperationReturns == \A o \in Operation : <>Ended(o)

\* "finds or creates": an operation that looks for a row of a lookup table finds or
\* creates it; only the storage, the timeout or a kill may keep it from that, never
\* another operation that came first with the same value.
LookingUp == {"find", "create", "created", "createCommit", "clash"}
FindsOrCreates ==
  [][\A o \in Operation : pc[o] \in LookingUp /\ pc'[o] = "failed" => o \in excused']_repoVars

=============================================================================
