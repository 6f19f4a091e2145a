-------------------------- MODULE AcceptLoopProofs --------------------------
(***************************************************************************)
(* Proofs about module AcceptLoop, for any finite number of connections    *)
(* and any limit: the counters agree with the handlers, a shutdown strands *)
(* at most one accepted connection, and the loop implements module         *)
(* BoundedService.                                                         *)
(***************************************************************************)
EXTENDS AcceptLoop, FiniteSetTheorems, TLAPS

\* The connections that hold a slot of the semaphore, and those the WaitGroup counts.
Serving == In({"session", "handled"}) \cup (IF loop = "spawn" THEN In({"held"}) ELSE {})
Counted == In({"session", "handled", "released"})

ControlOK ==
  /\ cancelled \in BOOLEAN
  /\ loop \in LoopStates
  /\ acceptor \in AcceptorStates
  /\ life \in [Conn -> LifeStates]
  /\ syslog \in {"open", "unavailable", "closed"}
  /\ recorder \in [Conn -> {"none", "running", "ended", "killed"}]

\* The loop holds one connection while it decides about it and none otherwise.
OneHeld ==
  /\ loop \in {"admit", "spawn"} <=> In({"held"}) # {}
  /\ \A c, d \in In({"held"}) : c = d

\* The accepting goroutine is gone while the loop is busy, and its connection is the
\* only accepted one; the loop leaves only once cancelled, and without handlers.
AcceptorOK ==
  /\ \A c \in Conn : life[c] = "accepted" <=> acceptor = c
  /\ loop \in {"top", "admit", "spawn", "returned"} => acceptor = "none"
  /\ loop \in {"drain", "closing", "returned"} => cancelled
  /\ loop \in {"closing", "returned"} => Counted = {}

Counting ==
  /\ sem \in 0..Max
  /\ wg \in Nat
  /\ sem = Cardinality(Serving)
  /\ wg = Cardinality(Counted)

\* The inductive invariant.
LoopIInv == ControlOK /\ OneHeld /\ AcceptorOK /\ Counting

-----------------------------------------------------------------------------
\* The sets that are counted are finite.
LEMMA CountedAreFinite ==
  /\ Serving \subseteq Conn /\ IsFiniteSet(Serving)
  /\ Counted \subseteq Conn /\ IsFiniteSet(Counted)
<1>1. Serving \subseteq Conn /\ Counted \subseteq Conn
  BY DEF Serving, Counted, In
<1> QED
  BY <1>1, ConnAssumption, FS_Subset

\* A counter that follows one element of its set.
LEMMA CountOneMore ==
  ASSUME NEW S, IsFiniteSet(S), NEW c, c \notin S
  PROVE  Cardinality(S \cup {c}) = Cardinality(S) + 1
  BY FS_AddElement

\* The same, of an element that leaves.
LEMMA CountOneLess ==
  ASSUME NEW S, IsFiniteSet(S), NEW c, c \in S
  PROVE  Cardinality(S \ {c}) = Cardinality(S) - 1 /\ Cardinality(S \ {c}) \in Nat
<1>1. Cardinality(S) \in Nat /\ IsFiniteSet(S \ {c})
  BY FS_CardinalityType, FS_RemoveElement
<1> QED
  BY <1>1, FS_RemoveElement, FS_CardinalityType

\* Nothing is counted before the first connection.
LEMMA LoopInitInv == LoopInit => LoopIInv
<1> SUFFICES ASSUME LoopInit PROVE LoopIInv
  OBVIOUS
<1>1. ControlOK
  BY DEF LoopInit, ControlOK, LoopStates, AcceptorStates, LifeStates
<1>2. Serving = {} /\ Counted = {}
  BY DEF LoopInit, Serving, Counted, In
<1>3. OneHeld /\ AcceptorOK
  BY <1>2, ConnAssumption DEF LoopInit, OneHeld, AcceptorOK, In
<1>4. Counting
  BY <1>2, FS_EmptySet, MaxAssumption DEF LoopInit, Counting
<1> QED
  BY <1>1, <1>3, <1>4 DEF LoopIInv

-----------------------------------------------------------------------------
\* Steps that move no connection between the counted sets.
LEMMA SameCounts ==
  ASSUME LoopIInv, UNCHANGED <<sem, wg>>, Serving' = Serving, Counted' = Counted
  PROVE  Counting'
  BY DEF LoopIInv, Counting

\* One step per action of Start, acceptWithContext, the handlers and the shutdown.
LEMMA LoopStep ==
  ASSUME LoopIInv, [LoopNext]_loopVars
  PROVE  LoopIInv'
<1> USE DEF LoopStates, AcceptorStates, LifeStates
<1>1. ControlOK /\ OneHeld /\ AcceptorOK /\ Counting
  BY DEF LoopIInv
<1>2. \A c \in Conn : c \notin {"none", "blocked", "timeout", "error"}
  BY ConnAssumption
<1>3. ASSUME UNCHANGED <<loop, acceptor, life, sem, wg>>,
             cancelled' \in BOOLEAN, cancelled => cancelled', syslog' = syslog,
             recorder' \in [Conn -> {"none", "running", "ended", "killed"}]
      PROVE  LoopIInv'
  <2>1. Serving' = Serving /\ Counted' = Counted
    BY <1>3 DEF Serving, Counted, In
  <2>2. Counting'
    BY <1>3, <2>1, SameCounts
  <2>3. OneHeld' /\ ControlOK' /\ AcceptorOK'
    BY <1>1, <1>3, <2>1 DEF OneHeld, ControlOK, AcceptorOK, In
  <2> QED
    BY <2>2, <2>3 DEF LoopIInv
<1>4. CASE Cancel \/ Ended \/ UNCHANGED loopVars
  BY <1>1, <1>3, <1>4 DEF Cancel, Ended, loopVars, ControlOK
<1>5. ASSUME NEW c \in Conn, SpawnRecorder(c) \/ RecorderEnds(c)
      PROVE  LoopIInv'
  BY <1>1, <1>3, <1>5 DEF SpawnRecorder, RecorderEnds, ControlOK
<1>6. CASE LoopTop \/ SelectDone \/ SelectErr \/ AcceptTimesOut \/ AcceptFails
  <2>1. /\ UNCHANGED <<cancelled, life, sem, wg, syslog, recorder>>
        /\ loop' \in {"select", "drain", "top"} \cup {loop}
        /\ acceptor' \in {"none", "blocked", "timeout", "error"} \cup {acceptor}
    BY <1>6 DEF LoopTop, SelectDone, SelectErr, AcceptTimesOut, AcceptFails
  <2>2. loop \notin {"admit", "spawn"} /\ loop' \notin {"admit", "spawn"}
    BY <1>1, <1>6 DEF LoopTop, SelectDone, SelectErr, AcceptTimesOut, AcceptFails, AcceptorOK
  <2>3. Serving' = Serving /\ Counted' = Counted /\ In({"held"})' = In({"held"})
    BY <2>1, <2>2 DEF Serving, Counted, In
  <2>4. Counting'
    BY <2>1, <2>3, SameCounts
  <2>5. ControlOK' /\ OneHeld'
    BY <1>1, <2>1, <2>2, <2>3 DEF ControlOK, OneHeld
  <2>6. AcceptorOK'
    BY <1>1, <1>2, <1>6, <2>1, <2>2, <2>3
       DEF LoopTop, SelectDone, SelectErr, AcceptTimesOut, AcceptFails, AcceptorOK, ControlOK
  <2> QED
    BY <2>4, <2>5, <2>6 DEF LoopIInv
<1>7. ASSUME NEW c \in Conn, Connect(c) \/ AcceptReturns(c) \/ HandlerReturns(c)
      PROVE  LoopIInv'
  <2>1. /\ UNCHANGED <<cancelled, loop, sem, wg, syslog, recorder>>
        /\ \/ life[c] = "absent" /\ life' = [life EXCEPT ![c] = "backlog"] /\ acceptor' = acceptor
           \/ /\ life[c] = "backlog" /\ life' = [life EXCEPT ![c] = "accepted"]
              /\ acceptor = "blocked" /\ acceptor' = c
           \/ life[c] = "session" /\ life' = [life EXCEPT ![c] = "handled"] /\ acceptor' = acceptor
    BY <1>7 DEF Connect, AcceptReturns, HandlerReturns, Move
  <2>2. Serving' = Serving /\ Counted' = Counted /\ In({"held"})' = In({"held"})
    BY <1>1, <2>1 DEF Serving, Counted, In, ControlOK
  <2>3. Counting'
    BY <2>1, <2>2, SameCounts
  <2>4. ControlOK' /\ OneHeld'
    BY <1>1, <2>1, <2>2 DEF ControlOK, OneHeld
  <2>5. AcceptorOK'
    BY <1>1, <1>2, <2>1, <2>2 DEF AcceptorOK, ControlOK
  <2> QED
    BY <2>3, <2>4, <2>5 DEF LoopIInv
<1>8. ASSUME NEW c \in Conn, SelectConn(c)
      PROVE  LoopIInv'
  <2>1. /\ loop = "select" /\ acceptor = c /\ loop' = "admit" /\ acceptor' = "none"
        /\ life' = [life EXCEPT ![c] = "held"]
        /\ UNCHANGED <<cancelled, sem, wg, syslog, recorder>>
    BY <1>8 DEF SelectConn, Move
  <2>2. life[c] = "accepted" /\ In({"held"}) = {} /\ In({"held"})' = {c}
    BY <1>1, <2>1 DEF AcceptorOK, OneHeld, In, ControlOK
  <2>3. Serving' = Serving /\ Counted' = Counted
    BY <1>1, <2>1, <2>2 DEF Serving, Counted, In, ControlOK
  <2>4. Counting'
    BY <2>1, <2>3, SameCounts
  <2>5. ControlOK' /\ OneHeld'
    BY <1>1, <2>1, <2>2 DEF ControlOK, OneHeld
  <2>6. AcceptorOK'
    BY <1>1, <1>2, <2>1, <2>2 DEF AcceptorOK, ControlOK
  <2> QED
    BY <2>4, <2>5, <2>6 DEF LoopIInv
<1>9. ASSUME NEW c \in Conn, AdmitOrReject(c)
      PROVE  LoopIInv'
  <2>1. /\ loop = "admit" /\ life[c] = "held" /\ In({"held"}) = {c}
        /\ UNCHANGED <<cancelled, acceptor, wg, syslog, recorder>>
    BY <1>1, <1>9 DEF AdmitOrReject, OneHeld, In
  <2>2. CASE sem < Max
    <3>1. sem' = sem + 1 /\ loop' = "spawn" /\ life' = life
      BY <1>9, <2>2 DEF AdmitOrReject
    <3>2. Serving' = Serving \cup {c} /\ c \notin Serving /\ Counted' = Counted
      BY <2>1, <3>1 DEF Serving, Counted, In
    <3>3. Counting'
      BY <1>1, <2>1, <2>2, <3>1, <3>2, CountedAreFinite, CountOneMore, MaxAssumption DEF Counting
    <3>4. ControlOK' /\ OneHeld' /\ AcceptorOK'
      BY <1>1, <2>1, <3>1, <3>2 DEF ControlOK, OneHeld, AcceptorOK, In
    <3> QED
      BY <3>3, <3>4 DEF LoopIInv
  <2>3. CASE ~(sem < Max)
    <3>1. sem' = sem /\ loop' = "top" /\ life' = [life EXCEPT ![c] = "rejected"]
      BY <1>9, <2>3 DEF AdmitOrReject, Move
    <3>2. Serving' = Serving /\ Counted' = Counted /\ In({"held"})' = {}
      BY <1>1, <2>1, <3>1 DEF Serving, Counted, In, ControlOK
    <3>3. Counting'
      BY <2>1, <3>1, <3>2, SameCounts
    <3>4. ControlOK' /\ OneHeld'
      BY <1>1, <2>1, <3>1, <3>2 DEF ControlOK, OneHeld
    <3>5. AcceptorOK'
      BY <1>1, <1>2, <2>1, <3>1, <3>2 DEF AcceptorOK, ControlOK
    <3> QED
      BY <3>3, <3>4, <3>5 DEF LoopIInv
  <2> QED
    BY <2>2, <2>3
<1>10. ASSUME NEW c \in Conn, SpawnHandler(c)
       PROVE  LoopIInv'
  <2>1. /\ loop = "spawn" /\ loop' = "top" /\ life[c] = "held" /\ In({"held"}) = {c}
        /\ wg' = wg + 1 /\ life' = [life EXCEPT ![c] = "session"]
        /\ UNCHANGED <<cancelled, acceptor, sem, syslog, recorder>>
    BY <1>1, <1>10 DEF SpawnHandler, OneHeld, In, Move
  <2>2. Serving' = Serving /\ Counted' = Counted \cup {c} /\ c \notin Counted
        /\ In({"held"})' = {}
    BY <1>1, <2>1 DEF Serving, Counted, In, ControlOK
  <2>3. Counting'
    BY <1>1, <2>1, <2>2, CountedAreFinite, CountOneMore DEF Counting
  <2>4. ControlOK' /\ OneHeld'
    BY <1>1, <2>1, <2>2 DEF ControlOK, OneHeld
  <2>5. AcceptorOK'
    BY <1>1, <1>2, <2>1, <2>2 DEF AcceptorOK, ControlOK
  <2> QED
    BY <2>3, <2>4, <2>5 DEF LoopIInv
<1>11. ASSUME NEW c \in Conn, ReleaseSlot(c)
       PROVE  LoopIInv'
  <2>1. /\ life[c] = "handled" /\ sem' = sem - 1 /\ life' = [life EXCEPT ![c] = "released"]
        /\ UNCHANGED <<cancelled, loop, acceptor, wg, syslog, recorder>>
    BY <1>11 DEF ReleaseSlot, Move
  <2>2. Serving' = Serving \ {c} /\ c \in Serving /\ Counted' = Counted
        /\ In({"held"})' = In({"held"})
    BY <1>1, <2>1 DEF Serving, Counted, In, ControlOK
  <2>3. Counting'
    BY <1>1, <2>1, <2>2, CountedAreFinite, CountOneLess, MaxAssumption DEF Counting
  <2>4. ControlOK' /\ OneHeld'
    BY <1>1, <2>1, <2>2 DEF ControlOK, OneHeld
  <2>5. AcceptorOK'
    BY <1>1, <1>2, <2>1, <2>2 DEF AcceptorOK, ControlOK
  <2> QED
    BY <2>3, <2>4, <2>5 DEF LoopIInv
<1>12. ASSUME NEW c \in Conn, WaitGroupDone(c)
       PROVE  LoopIInv'
  <2>1. /\ life[c] = "released" /\ wg' = wg - 1 /\ life' = [life EXCEPT ![c] = "done"]
        /\ UNCHANGED <<cancelled, loop, acceptor, sem, syslog, recorder>>
    BY <1>12 DEF WaitGroupDone, Move
  <2>2. Serving' = Serving /\ Counted' = Counted \ {c} /\ c \in Counted
        /\ In({"held"})' = In({"held"})
    BY <1>1, <2>1 DEF Serving, Counted, In, ControlOK
  <2>3. Counting'
    BY <1>1, <2>1, <2>2, CountedAreFinite, CountOneLess DEF Counting
  <2>4. ControlOK' /\ OneHeld'
    BY <1>1, <2>1, <2>2 DEF ControlOK, OneHeld
  <2>5. AcceptorOK'
    BY <1>1, <1>2, <2>1, <2>2 DEF AcceptorOK, ControlOK
  <2> QED
    BY <2>3, <2>4, <2>5 DEF LoopIInv
<1>13. CASE CloseSyslog
  <2>1. /\ loop = "drain" /\ loop' = "closing" /\ wg = 0
        /\ syslog' \in {syslog, "closed"}
        /\ UNCHANGED <<cancelled, acceptor, life, sem, wg, recorder>>
    BY <1>13 DEF CloseSyslog
  <2>2. Serving' = Serving /\ Counted' = Counted /\ In({"held"})' = In({"held"})
    BY <2>1 DEF Serving, Counted, In
  <2>3. Counted = {}
    BY <1>1, <2>1, CountedAreFinite, FS_EmptySet DEF Counting
  <2>4. Counting'
    BY <2>1, <2>2, SameCounts
  <2> QED
    BY <1>1, <2>1, <2>2, <2>3, <2>4 DEF LoopIInv, ControlOK, OneHeld, AcceptorOK
<1>14. CASE ReturnFromStart
  <2>1. /\ loop = "closing" /\ loop' = "returned" /\ acceptor' = "none"
        /\ \A c \in Conn : life'[c] = IF life[c] \in {"done", "rejected", "absent"}
                                      THEN life[c] ELSE "reset"
        /\ life' \in [Conn -> LifeStates]
        /\ recorder' \in [Conn -> {"none", "running", "ended", "killed"}]
        /\ UNCHANGED <<cancelled, sem, wg, syslog>>
    BY <1>1, <1>14 DEF ReturnFromStart, ControlOK
  <2>2. Counted = {} /\ Counted' = {} /\ Serving' = {} /\ In({"held"})' = {}
    BY <1>1, <2>1 DEF AcceptorOK, Serving, Counted, In
  <2>3. Serving = {}
    BY <2>1, <2>2 DEF Serving, Counted, In
  <2>4. Counting'
    BY <2>1, <2>2, <2>3, SameCounts
  <2>5. ControlOK' /\ OneHeld'
    BY <1>1, <2>1, <2>2 DEF ControlOK, OneHeld
  <2>6. AcceptorOK'
    BY <1>1, <1>2, <2>1, <2>2 DEF AcceptorOK
  <2> QED
    BY <2>4, <2>5, <2>6 DEF LoopIInv
<1> QED
  BY <1>4, <1>5, <1>6, <1>7, <1>8, <1>9, <1>10, <1>11, <1>12, <1>13, <1>14
     DEF LoopNext, StartStep, Acceptance, Deferred

-----------------------------------------------------------------------------
\* The inductive invariant holds in every state.
LEMMA LoopInvariance == LoopSpec => []LoopIInv
<1> QED
  BY LoopInitInv, LoopStep, PTL DEF LoopSpec

\* Types, the bound of the semaphore, and that the loop holds a connection exactly
\* while it admits or spawns (Start).
THEOREM LoopTypeCorrect == LoopSpec => []LoopTypeOK
<1>1. LoopIInv => LoopTypeOK
  BY DEF LoopIInv, ControlOK, OneHeld, Counting, LoopTypeOK
<1> QED
  BY <1>1, LoopInvariance, PTL

\* The semaphore counts the admitted connections and the WaitGroup the handlers,
\* whatever the order in which handlers end and connections arrive.
THEOREM CountersAlwaysAgree == LoopSpec => []CountersAgree
<1>1. ASSUME LoopIInv PROVE CountersAgree
  <2> DEFINE S == In({"session", "handled"})
  <2>1. S \subseteq Conn /\ IsFiniteSet(S)
    <3>1. S \subseteq Conn
      BY DEF In
    <3> QED
      BY <3>1, ConnAssumption, FS_Subset
  <2>2. CASE loop # "spawn"
    <3>1. Serving = S
      BY <2>2 DEF Serving
    <3>2. Cardinality(S) \in Nat
      BY <2>1, FS_CardinalityType
    <3> QED
      BY <1>1, <2>2, <3>1, <3>2 DEF LoopIInv, Counting, CountersAgree, Counted
  <2>3. CASE loop = "spawn"
    <3>1. PICK c \in In({"held"}) : In({"held"}) = {c}
      BY <1>1, <2>3 DEF LoopIInv, OneHeld
    <3>2. Serving = S \cup {c} /\ c \notin S
      BY <2>3, <3>1 DEF Serving, In
    <3>3. Cardinality(Serving) = Cardinality(S) + 1
      BY <2>1, <3>2, CountOneMore
    <3> QED
      BY <1>1, <2>3, <3>3 DEF LoopIInv, Counting, CountersAgree, Counted
  <2> QED
    BY <2>2, <2>3
<1> QED
  BY <1>1, LoopInvariance, PTL

\* acceptWithContext leaves at most one accepted connection behind, and only at
\* shutdown.
THEOREM AtMostOneStranded == LoopSpec => []OneStrandedAtShutdown
<1>1. ASSUME LoopIInv PROVE OneStrandedAtShutdown
  <2>1. \A c, d \in Stranded : c = d
    BY <1>1 DEF LoopIInv, AcceptorOK, Stranded, In
  <2>2. Stranded # {} => cancelled
    BY <1>1, ConnAssumption DEF LoopIInv, AcceptorOK, ControlOK, LoopStates, Stranded, In
  <2>3. Cardinality(Stranded) <= 1
    <3>1. CASE Stranded = {}
      BY <3>1, FS_EmptySet
    <3>2. CASE Stranded # {}
      <4>1. PICK c \in Stranded : Stranded = {c}
        BY <2>1, <3>2
      <4> QED
        BY <4>1, FS_Singleton
    <3> QED
      BY <3>1, <3>2
  <2> QED
    BY <2>2, <2>3 DEF OneStrandedAtShutdown
<1> QED
  BY <1>1, LoopInvariance, PTL

-----------------------------------------------------------------------------
Rejected == In({"rejected"})
Stopped == loop \in {"closing", "returned"}

\* The instance of BoundedService counts as this module does.
LEMMA SameCardinality == \A S : Service!Cardinality(S) = Cardinality(S)
  BY DEF Service!Cardinality, Cardinality

\* What a step makes of the bounded service.
LEMMA ServiceStep ==
  ASSUME LoopIInv, [LoopNext]_loopVars
  PROVE  [Service!ServiceNext]_(Service!serviceVars)
<1>1. ControlOK /\ OneHeld /\ AcceptorOK /\ Counting
  BY DEF LoopIInv
<1>2. ASSUME Serving' = Serving, Rejected' = Rejected, Stopped' = Stopped
      PROVE  UNCHANGED Service!serviceVars
  BY <1>2 DEF Service!serviceVars, Serving, Rejected, Stopped
<1>3. CASE LoopTop \/ SelectDone \/ SelectErr \/ AcceptTimesOut \/ AcceptFails
  <2>1. life' = life
    BY <1>3 DEF LoopTop, SelectDone, SelectErr, AcceptTimesOut, AcceptFails
  <2>2. /\ loop # "spawn" /\ loop' # "spawn"
        /\ \/ loop' = loop
           \/ loop \notin {"closing", "returned"} /\ loop' \notin {"closing", "returned"}
    BY <1>1, <1>3 DEF LoopTop, SelectDone, SelectErr, AcceptTimesOut, AcceptFails, AcceptorOK
  <2> QED
    BY <1>2, <2>1, <2>2 DEF Serving, Rejected, Stopped, In
<1>4. CASE Cancel \/ Ended \/ UNCHANGED loopVars
  BY <1>2, <1>4 DEF Cancel, Ended, loopVars, Serving, Rejected, Stopped, In
<1>5. ASSUME NEW c \in Conn, SpawnRecorder(c) \/ RecorderEnds(c)
      PROVE  UNCHANGED Service!serviceVars
  BY <1>2, <1>5 DEF SpawnRecorder, RecorderEnds, Serving, Rejected, Stopped, In
<1>6. ASSUME NEW c \in Conn,
             \/ Connect(c) \/ AcceptReturns(c) \/ HandlerReturns(c)
             \/ SelectConn(c) \/ WaitGroupDone(c)
      PROVE  UNCHANGED Service!serviceVars
  <2>1. /\ Stopped' = Stopped
        /\ loop = "spawn" <=> loop' = "spawn"
        /\ \/ life[c] = "absent" /\ life' = [life EXCEPT ![c] = "backlog"]
           \/ life[c] = "backlog" /\ life' = [life EXCEPT ![c] = "accepted"]
           \/ life[c] = "session" /\ life' = [life EXCEPT ![c] = "handled"]
           \/ life[c] = "accepted" /\ loop = "select" /\ life' = [life EXCEPT ![c] = "held"]
           \/ life[c] = "released" /\ life' = [life EXCEPT ![c] = "done"]
    BY <1>1, <1>6
       DEF Connect, AcceptReturns, HandlerReturns, SelectConn, WaitGroupDone, Move,
           Stopped, AcceptorOK
  <2>2. Serving' = Serving /\ Rejected' = Rejected
    BY <1>1, <1>6, <2>1
       DEF Serving, Rejected, In, ControlOK, SelectConn
  <2> QED
    BY <1>2, <2>1, <2>2
<1>7. ASSUME NEW c \in Conn, AdmitOrReject(c)
      PROVE  Service!ServiceNext
  <2>1. /\ loop = "admit" /\ life[c] = "held" /\ In({"held"}) = {c}
        /\ c \notin Serving \cup Rejected /\ ~Stopped
    BY <1>1, <1>7 DEF AdmitOrReject, OneHeld, Serving, Rejected, Stopped, In
  <2>2. CASE sem < Max
    <3>1. loop' = "spawn" /\ life' = life
      BY <1>7, <2>2 DEF AdmitOrReject
    <3>2. Serving' = Serving \cup {c} /\ Rejected' = Rejected /\ Stopped' = Stopped
      BY <2>1, <3>1 DEF Serving, Rejected, Stopped, In
    <3>3. Cardinality(Serving) < Max
      BY <1>1, <2>2 DEF Counting
    <3>4. Service!Admit(c)
      BY <2>1, <3>2, <3>3, SameCardinality DEF Service!Admit, Serving, Rejected, Stopped
    <3> QED
      BY <3>4 DEF Service!ServiceNext
  <2>3. CASE ~(sem < Max)
    <3>1. loop' = "top" /\ life' = [life EXCEPT ![c] = "rejected"]
      BY <1>7, <2>3 DEF AdmitOrReject, Move
    <3>2. Serving' = Serving /\ Rejected' = Rejected \cup {c} /\ Stopped' = Stopped
      BY <1>1, <2>1, <3>1 DEF Serving, Rejected, Stopped, In, ControlOK
    <3>3. Cardinality(Serving) = Max
      BY <1>1, <2>3, MaxAssumption DEF Counting
    <3>4. Service!Reject(c)
      BY <2>1, <3>2, <3>3, SameCardinality DEF Service!Reject, Serving, Rejected, Stopped
    <3> QED
      BY <3>4 DEF Service!ServiceNext
  <2> QED
    BY <2>2, <2>3
<1>8. ASSUME NEW c \in Conn, SpawnHandler(c)
      PROVE  UNCHANGED Service!serviceVars
  <2>1. /\ loop = "spawn" /\ loop' = "top" /\ In({"held"}) = {c}
        /\ life' = [life EXCEPT ![c] = "session"] /\ life[c] = "held"
    BY <1>1, <1>8 DEF SpawnHandler, OneHeld, In, Move
  <2>2. Serving' = Serving /\ Rejected' = Rejected /\ Stopped' = Stopped
    BY <1>1, <2>1 DEF Serving, Rejected, Stopped, In, ControlOK
  <2> QED
    BY <1>2, <2>2
<1>9. ASSUME NEW c \in Conn, ReleaseSlot(c)
      PROVE  Service!ServiceNext
  <2>1. life[c] = "handled" /\ life' = [life EXCEPT ![c] = "released"] /\ loop' = loop
    BY <1>9 DEF ReleaseSlot, Move
  <2>2. c \in Serving /\ Serving' = Serving \ {c} /\ Rejected' = Rejected /\ Stopped' = Stopped
    BY <1>1, <2>1 DEF Serving, Rejected, Stopped, In, ControlOK
  <2>3. Service!Finish(c)
    BY <2>2 DEF Service!Finish, Serving, Rejected, Stopped
  <2> QED
    BY <2>3 DEF Service!ServiceNext
<1>10. CASE CloseSyslog
  <2>1. loop = "drain" /\ loop' = "closing" /\ wg = 0 /\ life' = life
    BY <1>10 DEF CloseSyslog
  <2>2. Counted = {}
    BY <1>1, <2>1, CountedAreFinite, FS_EmptySet DEF Counting
  <2>3. Serving = {} /\ Serving' = {} /\ Rejected' = Rejected /\ ~Stopped /\ Stopped'
    BY <2>1, <2>2 DEF Counted, Serving, Rejected, Stopped, In
  <2>4. Service!Stop
    BY <2>3 DEF Service!Stop, Serving, Rejected, Stopped
  <2> QED
    BY <2>4 DEF Service!ServiceNext
<1>11. CASE ReturnFromStart
  <2>1. /\ loop = "closing" /\ loop' = "returned"
        /\ \A c \in Conn : life'[c] = IF life[c] \in {"done", "rejected", "absent"}
                                      THEN life[c] ELSE "reset"
    BY <1>11 DEF ReturnFromStart
  <2>2. Serving = {} /\ Serving' = {}
    BY <1>1, <2>1 DEF AcceptorOK, Counted, Serving, In
  <2>3. Rejected' = Rejected /\ Stopped' = Stopped
    BY <2>1 DEF Rejected, Stopped, In
  <2> QED
    BY <1>2, <2>2, <2>3
<1> QED
  BY <1>3, <1>4, <1>5, <1>6, <1>7, <1>8, <1>9, <1>10, <1>11
     DEF LoopNext, StartStep, Acceptance, Deferred

\* The loop, its semaphore and its WaitGroup are the service of module
\* BoundedService: never more than Max at once, nobody turned away below that, and
\* no end before the last handler's.
THEOREM ServiceImplemented == LoopSpec => ImplementsService
<1>1. LoopInit => Service!ServiceInit
  BY DEF LoopInit, Service!ServiceInit, In
<1>2. LoopIInv /\ [LoopNext]_loopVars => [Service!ServiceNext]_(Service!serviceVars)
  BY ServiceStep
<1> QED
  BY <1>1, <1>2, LoopInvariance, PTL DEF LoopSpec, ImplementsService, Service!ServiceSpec

=============================================================================
