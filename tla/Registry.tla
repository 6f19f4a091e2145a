------------------------------ MODULE Registry ------------------------------
(***************************************************************************)
(* What package storage promises its callers: a set of blocked             *)
(* fingerprints and a set of recorded connections, changed by operations   *)
(* that each take effect once and at once, or fail without effect.         *)
(***************************************************************************)
CONSTANTS Operation, Fingerprint

VARIABLES
  request,     \* what each operation asks for
  blockedSet,  \* the fingerprints on the block list
  recorded,    \* the record operations whose connection is stored
  outcome      \* "open", then "ok" or "error"

registryVars == <<request, blockedSet, recorded, outcome>>

RegistryInit ==
  /\ blockedSet \subseteq Fingerprint
  /\ recorded = {}
  /\ outcome = [o \in Operation |-> "open"]

Succeed(o) ==
  /\ outcome[o] = "open"
  /\ outcome' = [outcome EXCEPT ![o] = "ok"]
  /\ recorded' = IF request[o].kind = "record" THEN recorded \cup {o} ELSE recorded
  /\ blockedSet' = CASE request[o].kind = "block" -> blockedSet \cup {request[o].key.fp}
                     [] request[o].kind = "unblock" -> blockedSet \ {request[o].key.fp}
                     [] OTHER -> blockedSet
  /\ UNCHANGED request

GiveUp(o) ==
  /\ outcome[o] = "open"
  /\ outcome' = [outcome EXCEPT ![o] = "error"]
  /\ UNCHANGED <<request, blockedSet, recorded>>

RegistryNext == \E o \in Operation : Succeed(o) \/ GiveUp(o)

RegistrySpec == RegistryInit /\ [][RegistryNext]_registryVars
=============================================================================
