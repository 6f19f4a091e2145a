--------------------------- MODULE BoundedService ---------------------------
(***************************************************************************)
(* What the accept loop promises, without saying how: at most Max          *)
(* connections are being served, a connection is turned away only when     *)
(* that many are, and the service stops only when nobody is being served   *)
(* and serves nobody afterwards.                                           *)
(***************************************************************************)
EXTENDS Naturals, FiniteSets

CONSTANTS Conn, Max

VARIABLES serving, rejected, stopped

serviceVars == <<serving, rejected, stopped>>

ServiceInit == serving = {} /\ rejected = {} /\ stopped = FALSE

Admit(c) ==
  /\ ~stopped /\ c \notin serving \cup rejected
  /\ Cardinality(serving) < Max
  /\ serving' = serving \cup {c}
  /\ UNCHANGED <<rejected, stopped>>

Reject(c) ==
  /\ ~stopped /\ c \notin serving \cup rejected
  /\ Cardinality(serving) = Max
  /\ rejected' = rejected \cup {c}
  /\ UNCHANGED <<serving, stopped>>

Finish(c) ==
  /\ c \in serving
  /\ serving' = serving \ {c}
  /\ UNCHANGED <<rejected, stopped>>

Stop ==
  /\ serving = {} /\ ~stopped
  /\ stopped' = TRUE
  /\ UNCHANGED <<serving, rejected>>

ServiceNext == (\E c \in Conn : Admit(c) \/ Reject(c) \/ Finish(c)) \/ Stop

ServiceSpec == ServiceInit /\ [][ServiceNext]_serviceVars

=============================================================================
