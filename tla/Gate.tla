-------------------------------- MODULE Gate --------------------------------
(***************************************************************************)
(* What the proxy promises to an operator who blocks fingerprints: the     *)
(* operator publishes a sequence of policies; the gate applies one of them *)
(* at a time and never an older one than before; every client whose        *)
(* fingerprint is seen is decided by the policy in force at that moment,   *)
(* in one step; the protected server is touched only for clients who have  *)
(* been admitted. A client whose fingerprint cannot be seen is admitted.   *)
(***************************************************************************)
EXTENDS Naturals, Sequences

CONSTANTS Hash, NoHash, Conn

VARIABLES
  policy,   \* the policies published so far
  current,  \* the index of the one in force
  seen,     \* the fingerprint of each client
  fate,     \* what became of each client
  touched   \* clients for whom the protected server was contacted

gateVars == <<policy, current, seen, fate, touched>>

GateInit ==
  /\ policy = <<{}>>
  /\ current = 1
  /\ seen = [c \in Conn |-> NoHash]
  /\ fate = [c \in Conn |-> "out"]
  /\ touched = {}

Publish ==
  /\ \E blocked \in SUBSET Hash : policy' = Append(policy, blocked)
  /\ UNCHANGED <<current, seen, fate, touched>>

Enforce ==
  /\ current' \in current..Len(policy)
  /\ UNCHANGED <<policy, seen, fate, touched>>

Enter(c) ==
  /\ fate[c] = "out"
  /\ fate' = [fate EXCEPT ![c] = "pending"]
  /\ UNCHANGED <<policy, current, seen, touched>>

See(c) ==
  /\ fate[c] = "pending" /\ seen[c] = NoHash
  /\ \E h \in Hash : seen' = [seen EXCEPT ![c] = h]
  /\ UNCHANGED <<policy, current, fate, touched>>

Decide(c) ==
  /\ fate[c] = "pending" /\ seen[c] # NoHash
  /\ fate' = [fate EXCEPT ![c] =
                IF seen[c] \in policy[current] THEN "refused" ELSE "admitted"]
  /\ UNCHANGED <<policy, current, seen, touched>>

Waive(c) ==
  /\ fate[c] = "pending" /\ seen[c] = NoHash
  /\ fate' = [fate EXCEPT ![c] = "admitted"]
  /\ UNCHANGED <<policy, current, seen, touched>>

Touch(c) ==
  /\ fate[c] = "admitted"
  /\ touched' = touched \cup {c}
  /\ UNCHANGED <<policy, current, seen, fate>>

\* Clients leave before they are decided: one by one, or all of them with the
\* process.
Leave(gone) ==
  /\ \A c \in gone : fate[c] = "pending"
  /\ fate' = [c \in Conn |-> IF c \in gone THEN "gone" ELSE fate[c]]
  /\ UNCHANGED <<policy, current, seen, touched>>

GateNext ==
  \/ Publish
  \/ Enforce
  \/ \E c \in Conn : Enter(c) \/ See(c) \/ Decide(c) \/ Waive(c) \/ Touch(c)
  \/ \E gone \in SUBSET Conn : Leave(gone)

GateSpec == GateInit /\ [][GateNext]_gateVars

=============================================================================
