----------------------------- MODULE AcceptLoop -----------------------------
(***************************************************************************)
(* Server.Start: the accept loop, acceptWithContext and the goroutine it   *)
(* leaves in listener.Accept, the connection semaphore, the WaitGroup      *)
(* activeConns, and the shutdown.                                          *)
(*                                                                         *)
(* A handler is opaque here: it runs, it may spawn the goroutine that      *)
(* records the connection, it returns; module Connection says what it      *)
(* does meanwhile.                                                         *)
(***************************************************************************)
EXTENDS Naturals, FiniteSets

CONSTANTS
  Conn,   \* client connections, each made once
  Max     \* maxConcurrentConnections

ASSUME ConnAssumption ==
  IsFiniteSet(Conn) /\ Conn \cap {"none", "blocked", "timeout", "error"} = {}
ASSUME MaxAssumption == Max \in Nat \ {0}

VARIABLES
  cancelled,  \* ctx
  loop,       \* control state of Start
  acceptor,   \* the goroutine in listener.Accept: its state, or its result
  life,       \* where each connection is
  sem,        \* length of connSemaphore
  wg,         \* counter of activeConns
  syslog,     \* the syslog writer
  recorder    \* the goroutine that runs RecordConnection

loopVars == <<cancelled, loop, acceptor, life, sem, wg, syslog, recorder>>

\* "drain" is activeConns.Wait(), "closing" between the two deferred Close calls.
LoopStates == {"top", "select", "admit", "spawn", "drain", "closing", "returned"}

\* backlog: completed by the kernel; accepted: in connChan; held: in the loop's
\* hands; handled, released: in the deferred function of the handler goroutine.
LifeStates == {"absent", "backlog", "accepted", "held", "session", "handled",
               "released", "done", "rejected", "reset"}

AcceptorStates == {"none", "blocked", "timeout", "error"} \cup Conn

In(states) == {c \in Conn : life[c] \in states}

LoopInit ==
  /\ cancelled = FALSE
  /\ loop = "top"
  /\ acceptor = "none"
  /\ life = [c \in Conn |-> "absent"]
  /\ sem = 0
  /\ wg = 0
  /\ syslog \in {"open", "unavailable"}
  /\ recorder = [c \in Conn |-> "none"]

Move(c, to) == life' = [life EXCEPT ![c] = to]

-----------------------------------------------------------------------------
(***************************************************************************)
(* The environment                                                         *)
(***************************************************************************)

\* The kernel completes connections as long as the socket is open, during the
\* drain too.
Connect(c) ==
  /\ loop # "returned" /\ life[c] = "absent"
  /\ Move(c, "backlog")
  /\ UNCHANGED <<cancelled, loop, acceptor, sem, wg, syslog, recorder>>

Cancel ==
  /\ loop # "returned"
  /\ cancelled' = TRUE
  /\ UNCHANGED <<loop, acceptor, life, sem, wg, syslog, recorder>>

-----------------------------------------------------------------------------
(***************************************************************************)
(* acceptWithContext                                                       *)
(***************************************************************************)

\* The select at the top of the loop prefers ctx.Done(); otherwise the deadline
\* is armed and a goroutine calls Accept.
LoopTop ==
  /\ loop = "top"
  /\ IF cancelled
     THEN loop' = "drain" /\ UNCHANGED acceptor
     ELSE loop' = "select" /\ acceptor' = "blocked"
  /\ UNCHANGED <<cancelled, life, sem, wg, syslog, recorder>>

\* Accept returns a connection, also to a goroutine nobody waits for any more.
AcceptReturns(c) ==
  /\ loop # "returned" /\ acceptor = "blocked" /\ life[c] = "backlog"
  /\ acceptor' = c
  /\ Move(c, "accepted")
  /\ UNCHANGED <<cancelled, loop, sem, wg, syslog, recorder>>

\* The deadline is cleared when acceptWithContext returns.
AcceptTimesOut ==
  /\ loop = "select" /\ acceptor = "blocked"
  /\ acceptor' = "timeout"
  /\ UNCHANGED <<cancelled, loop, life, sem, wg, syslog, recorder>>

\* Out of descriptors, say.
AcceptFails ==
  /\ loop # "returned" /\ acceptor = "blocked"
  /\ acceptor' = "error"
  /\ UNCHANGED <<cancelled, loop, life, sem, wg, syslog, recorder>>

\* ctx.Done() is chosen, whatever the goroutine is doing or has to offer.
SelectDone ==
  /\ loop = "select" /\ cancelled
  /\ loop' = "drain"
  /\ UNCHANGED <<cancelled, acceptor, life, sem, wg, syslog, recorder>>

SelectConn(c) ==
  /\ loop = "select" /\ acceptor = c
  /\ loop' = "admit"
  /\ acceptor' = "none"
  /\ Move(c, "held")
  /\ UNCHANGED <<cancelled, sem, wg, syslog, recorder>>

\* Fault: the wait is cut short by a timer of its own, and the goroutine's result
\* is abandoned.
SelectTimer ==
  /\ loop = "select"
  /\ loop' = IF cancelled THEN "drain" ELSE "top"
  /\ acceptor' = "none"
  /\ UNCHANGED <<cancelled, life, sem, wg, syslog, recorder>>

\* A timeout or another error; Start looks at ctx before it goes on.
SelectErr ==
  /\ loop = "select" /\ acceptor \in {"timeout", "error"}
  /\ loop' = IF cancelled THEN "drain" ELSE "top"
  /\ acceptor' = "none"
  /\ UNCHANGED <<cancelled, life, sem, wg, syslog, recorder>>

-----------------------------------------------------------------------------
(***************************************************************************)
(* The connection limit and the handlers                                   *)
(***************************************************************************)

\* Fault: the limit is off by one.
AdmitOneMore(c) ==
  /\ loop = "admit" /\ life[c] = "held"
  /\ IF sem <= Max
     THEN /\ sem' = sem + 1
          /\ loop' = "spawn"
          /\ UNCHANGED life
     ELSE /\ Move(c, "rejected")
          /\ loop' = "top"
          /\ UNCHANGED sem
  /\ UNCHANGED <<cancelled, acceptor, wg, syslog, recorder>>

\* The non-blocking send to connSemaphore, or Close and continue.
AdmitOrReject(c) ==
  /\ loop = "admit" /\ life[c] = "held"
  /\ IF sem < Max
     THEN /\ sem' = sem + 1
          /\ loop' = "spawn"
          /\ UNCHANGED life
     ELSE /\ Move(c, "rejected")
          /\ loop' = "top"
          /\ UNCHANGED sem
  /\ UNCHANGED <<cancelled, acceptor, wg, syslog, recorder>>

\* activeConns.Add(1) and the go statement.
SpawnHandler(c) ==
  /\ loop = "spawn" /\ life[c] = "held"
  /\ loop' = "top"
  /\ wg' = wg + 1
  /\ Move(c, "session")
  /\ UNCHANGED <<cancelled, acceptor, sem, syslog, recorder>>

\* handleConnection has classified the connection.
SpawnRecorder(c) ==
  /\ life[c] = "session" /\ recorder[c] = "none"
  /\ recorder' = [recorder EXCEPT ![c] = "running"]
  /\ UNCHANGED <<cancelled, loop, acceptor, life, sem, wg, syslog>>

RecorderEnds(c) ==
  /\ loop # "returned" /\ recorder[c] = "running"
  /\ recorder' = [recorder EXCEPT ![c] = "ended"]
  /\ UNCHANGED <<cancelled, loop, acceptor, life, sem, wg, syslog>>

HandlerReturns(c) ==
  /\ life[c] = "session"
  /\ Move(c, "handled")
  /\ UNCHANGED <<cancelled, loop, acceptor, sem, wg, syslog, recorder>>

\* Fault: the handler's deferred function does not give the slot back.
KeepSlot(c) ==
  /\ life[c] = "handled"
  /\ Move(c, "released")
  /\ UNCHANGED <<cancelled, loop, acceptor, sem, wg, syslog, recorder>>

\* <-connSemaphore, then activeConns.Done().
ReleaseSlot(c) ==
  /\ life[c] = "handled"
  /\ sem' = sem - 1
  /\ Move(c, "released")
  /\ UNCHANGED <<cancelled, loop, acceptor, wg, syslog, recorder>>

\* Fault: Done is not deferred, and a handler that returns before it has
\* classified its client skips it.
DoneIfClassified(c) ==
  /\ life[c] = "released"
  /\ wg' = IF recorder[c] = "none" THEN wg ELSE wg - 1
  /\ Move(c, "done")
  /\ UNCHANGED <<cancelled, loop, acceptor, sem, syslog, recorder>>

WaitGroupDone(c) ==
  /\ life[c] = "released"
  /\ wg' = wg - 1
  /\ Move(c, "done")
  /\ UNCHANGED <<cancelled, loop, acceptor, sem, syslog, recorder>>

-----------------------------------------------------------------------------
(***************************************************************************)
(* Shutdown                                                                *)
(***************************************************************************)

\* Fault: Start returns on cancellation without activeConns.Wait().
CloseAtOnce ==
  /\ loop = "drain"
  /\ loop' = "closing"
  /\ syslog' = IF syslog = "open" THEN "closed" ELSE syslog
  /\ UNCHANGED <<cancelled, acceptor, life, sem, wg, recorder>>

\* activeConns.Wait() returns; of the two deferred calls syslog.Close is first.
CloseSyslog ==
  /\ loop = "drain" /\ wg = 0
  /\ loop' = "closing"
  /\ syslog' = IF syslog = "open" THEN "closed" ELSE syslog
  /\ UNCHANGED <<cancelled, acceptor, life, sem, wg, recorder>>

\* listener.Close, Start returns and so does main: what is left is reset.
ReturnFromStart ==
  /\ loop = "closing"
  /\ loop' = "returned"
  /\ acceptor' = "none"
  /\ life' = [c \in Conn |-> IF life[c] \in {"done", "rejected", "absent"}
                             THEN life[c] ELSE "reset"]
  /\ recorder' = [c \in Conn |-> IF recorder[c] = "running" THEN "killed"
                                 ELSE recorder[c]]
  /\ UNCHANGED <<cancelled, sem, wg, syslog>>

\* The process has ended.
Ended == loop = "returned" /\ UNCHANGED loopVars

-----------------------------------------------------------------------------
StartStep ==
  \/ LoopTop
  \/ SelectDone
  \/ \E c \in Conn : SelectConn(c) \/ AdmitOrReject(c) \/ SpawnHandler(c)
  \/ SelectErr
  \/ CloseSyslog
  \/ ReturnFromStart

Acceptance == \E c \in Conn : AcceptReturns(c)

Deferred(c) == ReleaseSlot(c) \/ WaitGroupDone(c)

LoopNext ==
  \/ StartStep
  \/ Acceptance
  \/ AcceptTimesOut
  \/ AcceptFails
  \/ Cancel
  \/ \E c \in Conn : \/ Connect(c)
                     \/ SpawnRecorder(c)
                     \/ RecorderEnds(c)
                     \/ HandlerReturns(c)
                     \/ Deferred(c)
  \/ Ended

LoopSpec == LoopInit /\ [][LoopNext]_loopVars

\* Start and the deferred functions run. The one-second deadline fires, and it
\* is long enough for Accept to return a connection that waits, if Accept is
\* called again and again (the strong fairness). Nothing ends a session.
LoopFairness ==
  /\ WF_loopVars(StartStep)
  /\ SF_loopVars(Acceptance)
  /\ WF_loopVars(AcceptTimesOut)
  /\ \A c \in Conn : WF_loopVars(Deferred(c))

FairLoopSpec == LoopSpec /\ LoopFairness

-----------------------------------------------------------------------------
(***************************************************************************)
(* Properties                                                              *)
(***************************************************************************)

LoopTypeOK ==
  /\ cancelled \in BOOLEAN
  /\ loop \in LoopStates
  /\ acceptor \in AcceptorStates
  /\ life \in [Conn -> LifeStates]
  /\ sem \in 0..Max
  /\ wg \in Nat
  /\ syslog \in {"open", "unavailable", "closed"}
  /\ recorder \in [Conn -> {"none", "running", "ended", "killed"}]
  /\ loop \in {"admit", "spawn"} <=> In({"held"}) # {}

\* The two counters that handlers and the loop change without a common lock say
\* what they are meant to say: a slot is held for each connection from its
\* admission to the end of its handler, and the WaitGroup counts each handler
\* until its very last statement.
CountersAgree ==
  /\ sem = Cardinality(In({"session", "handled"}))
             + (IF loop = "spawn" THEN 1 ELSE 0)
  /\ wg = Cardinality(In({"session", "handled", "released"}))

\* A connection the process has accepted is left without an answer only by a
\* shutdown, and then at most one is: the goroutine that acceptWithContext
\* leaves behind can take one more connection that no handler will ever see.
Stranded == {c \in In({"accepted"}) : loop # "select"}

OneStrandedAtShutdown ==
  /\ Cardinality(Stranded) <= 1
  /\ Stranded # {} => cancelled

\* The accept loop implements the bounded service: admitted from the send to
\* the semaphore to the receive from it, stopped once syslog is closed.
Service == INSTANCE BoundedService WITH
  serving <- In({"session", "handled"})
               \cup (IF loop = "spawn" THEN In({"held"}) ELSE {}),
  rejected <- In({"rejected"}),
  stopped <- loop \in {"closing", "returned"}

ImplementsService == Service!ServiceSpec

\* Once cancelled, Start returns if no session lasts for ever: neither a flood of
\* new connections nor accept errors keep the loop going, and no handler leaves
\* the WaitGroup above zero.
ShutdownCompletes ==
  (<>[](In({"session"}) = {})) => (cancelled ~> loop = "returned")

\* A client that has connected is given to a handler or rejected, if no shutdown
\* begins: its connection is not lost between the kernel, the accepting goroutine
\* and the loop.
ConnectionsAreAnswered ==
  \A c \in Conn :
    life[c] = "backlog" ~>
      cancelled \/ life[c] \in {"session", "handled", "released", "done", "rejected"}

=============================================================================
