---------------------------- MODULE SshctlProofs ----------------------------
(***************************************************************************)
(* Proofs about module Sshctl, for any number of operators, commands of    *)
(* any length and any traffic. SshctlIInv follows each argument from the   *)
(* edit to the report: an edit that is done but not reported yet is        *)
(* protected like one that is.                                             *)
(***************************************************************************)
EXTENDS Sshctl, SequenceTheorems, FiniteSetTheorems, TLAPS

Args(i) == command[i].args

\* t is how s begins.
Begins(t, s) == Len(t) <= Len(s) /\ \A n \in 1..Len(t) : t[n] = s[n]

Typed ==
  /\ command \in [Invocation -> Commands]
  /\ pc \in [Invocation -> States]
  /\ opened \in [Invocation -> Database \cup {Unnamed}]
  /\ changed \in [Invocation -> Seq(Fingerprint)]
  /\ said \in [Invocation -> Seq(Fingerprint)]
  /\ blocked \in [Database -> SUBSET Fingerprint]

\* How far a command is.
Progress(i) ==
  /\ Begins(changed[i], Args(i)) /\ Begins(said[i], changed[i])
  /\ Len(changed[i]) \in {Len(said[i]), Len(said[i]) + 1}
  /\ pc[i] = "start" => changed[i] = <<>>
  /\ pc[i] = "report" => Len(changed[i]) = Len(said[i]) + 1
  /\ pc[i] \notin {"report", "exit1"} => Len(changed[i]) = Len(said[i])
  /\ pc[i] = "exit0" => Len(said[i]) = Len(Args(i))
  /\ pc[i] \in {"edit", "report"} => command[i].kind \in {"block", "unblock"}
  /\ pc[i] \in {"query", "count"} => Args(i) = <<>>
  /\ pc[i] \notin {"start", "exit1"} => opened[i] \in Database
  /\ changed[i] # <<>> => opened[i] \in Database

Unblocked(f) == \E j \in Invocation : command[j].kind = "unblock" /\ f \in ArgsOf(j)

\* A fingerprint that was blocked by a command and that no command unblocks is blocked,
\* reported or not.
Kept ==
  \A i \in Invocation : \A n \in 1..Len(changed[i]) :
    \/ command[i].kind = "unblock"
    \/ Unblocked(changed[i][n])
    \/ changed[i][n] \in blocked[opened[i]]

SshctlIInv == Typed /\ (\A i \in Invocation : Progress(i)) /\ Kept

-----------------------------------------------------------------------------
\* How a sequence begins is one of its subsequences.
LEMMA BeginningIsSubSeq ==
  ASSUME NEW S, NEW s \in Seq(S), NEW t \in Seq(S), Begins(t, s)
  PROVE  t = SubSeq(s, 1, Len(t))
<1> DEFINE k == Len(t)  sub == SubSeq(s, 1, k)
<1>1. k \in Nat /\ Len(s) \in Nat /\ k <= Len(s)
    BY DEF Begins
<1>2. \A n \in 1..k : s[n] \in S
    BY <1>1
<1> HIDE DEF k
<1>3. /\ sub \in Seq(S) /\ Len(sub) = IF 1 <= k THEN k - 1 + 1 ELSE 0
      /\ \A n \in 1..(k - 1 + 1) : sub[n] = s[1 + n - 1]
    BY <1>1, <1>2, SubSeqProperties
<1>4. Len(sub) = k
    BY <1>1, <1>3
<1>5. ASSUME NEW n \in 1..k
      PROVE  sub[n] = t[n]
  <2>1. n \in 1..(k - 1 + 1) /\ 1 + n - 1 = n
      BY <1>1
  <2>2. sub[n] = s[n]
      BY <1>3, <2>1
  <2> QED
      BY <2>2 DEF Begins, k
<1> HIDE DEF sub
<1>6. Len(sub) = Len(t)
    BY <1>4 DEF k
<1>7. \A n \in 1..Len(sub) : sub[n] = t[n]
    BY <1>4, <1>5
<1>8. sub = t
    BY <1>3, <1>6, <1>7, SeqEqual
<1> QED
    BY <1>8 DEF sub, k

\* The arguments of a command are fingerprints.
LEMMA ArgsType ==
  ASSUME Typed, NEW i \in Invocation
  PROVE  /\ Args(i) \in Seq(Fingerprint)
         /\ command[i].kind \notin {"block", "unblock"} => Args(i) = <<>>
<1>1. command[i] \in Commands
    BY DEF Typed
<1>2. CASE command[i] \in Editing
  <2>1. PICK n \in 1..MaxArgs : Args(i) \in [1..n -> Fingerprint]
      BY <1>2 DEF Editing, Arguments, Args
  <2>2. n \in Nat
      BY BoundsAssumption
  <2>3. command[i].kind \in {"block", "unblock"}
      BY <1>2 DEF Editing
  <2> QED
      BY <2>1, <2>2, <2>3
<1>3. CASE command[i] \in Readings
  <2>1. Args(i) = <<>>
      BY <1>3 DEF Readings, Args
  <2> QED
      BY <2>1
<1> QED
    BY <1>1, <1>2, <1>3, ReadingAssumption DEF Commands

\* The invariant holds when no invocation has begun.
LEMMA SshctlInitInv ==
  ASSUME CtlInit
  PROVE  SshctlIInv
<1>1. Typed
  <2>1. <<>> \in Seq(Fingerprint)
      OBVIOUS
  <2> QED
      BY <2>1 DEF CtlInit, Typed, States
<1>2. ASSUME NEW i \in Invocation
      PROVE  Progress(i)
  <2>1. changed[i] = <<>> /\ said[i] = <<>> /\ pc[i] = "start"
      BY DEF CtlInit
  <2>2. Args(i) \in Seq(Fingerprint)
      BY <1>1, ArgsType
  <2> QED
      BY <2>1, <2>2 DEF Progress, Begins
<1>3. Kept
    BY DEF CtlInit, Kept
<1> QED
    BY <1>1, <1>2, <1>3 DEF SshctlIInv

\* A step that edits nothing and reports nothing.
LEMMA QuietStep ==
  ASSUME SshctlIInv, UNCHANGED <<command, changed, said, blocked>>, NEW i \in Invocation,
         NEW state \in States \ {"start", "report"}, Become(i, state),
         opened' = opened \/ (pc[i] = "start" /\ opened' = [opened EXCEPT ![i] = Default]),
         pc[i] = "report" => state = "exit1",
         pc[i] = "start" /\ state # "exit1" => opened'[i] = Default,
         pc[i] \in {"exit0", "exit1"} => state = pc[i],
         state = "exit0" => Len(said[i]) = Len(Args(i)),
         state = "edit" => command[i].kind \in {"block", "unblock"},
         state \in {"query", "count"} => Args(i) = <<>>
  PROVE  SshctlIInv'
<1> USE DEF SshctlIInv
<1>1. Typed'
    BY DatabaseAssumption DEF Typed, Become
<1>2. \A j \in Invocation : Args(j)' = Args(j) /\ ArgsOf(j)' = ArgsOf(j)
    BY DEF Args, ArgsOf
<1>3. ASSUME NEW j \in Invocation
      PROVE  Progress(j)'
  <2>1. Progress(j)
      OBVIOUS
  <2>2. CASE j # i
    <3>1. pc'[j] = pc[j] /\ opened'[j] = opened[j]
        BY <2>2 DEF Become, Typed
    <3> QED
        BY <1>2, <2>1, <3>1 DEF Progress, Begins
  <2>3. CASE j = i
    <3>1. pc'[j] = state
        BY <2>3 DEF Become, Typed
    <3>2. opened'[j] = opened[j] \/ opened'[j] \in Database
        BY <2>3, DatabaseAssumption DEF Typed
    <3>3. state \notin {"start", "exit1"} => opened'[j] \in Database
        BY <2>1, <2>3, <3>2, DatabaseAssumption DEF Progress, Typed, States
    <3>4. changed[j] # <<>> => opened'[j] \in Database
        BY <2>1, <3>2 DEF Progress
    <3>5. state \notin {"report", "exit1"} => Len(changed[j]) = Len(said[j])
        BY <2>1, <2>3 DEF Progress
    <3> QED
        BY <1>2, <2>1, <2>3, <3>1, <3>3, <3>4, <3>5 DEF Progress, Begins
  <2> QED
      BY <2>2, <2>3
<1>4. Kept'
  <2> SUFFICES ASSUME NEW j \in Invocation, NEW n \in 1..Len(changed[j]),
                      command[j].kind # "unblock", ~Unblocked(changed[j][n])
               PROVE  changed[j][n] \in blocked[opened'[j]]
      BY <1>2 DEF Kept, Unblocked
  <2>1. changed[j][n] \in blocked[opened[j]]
      BY DEF Kept
  <2>2. changed[j] # <<>>
      BY DEF Typed
  <2>3. CASE pc[j] = "start"
    <3>1. changed[j] = <<>>
        BY <2>3 DEF Progress
    <3> QED
        BY <2>2, <3>1
  <2>4. CASE pc[j] # "start"
      BY <2>1, <2>4 DEF Typed
  <2> QED
      BY <2>3, <2>4
<1> QED
    BY <1>1, <1>3, <1>4

\* An argument is blocked or unblocked.
LEMMA EditStep ==
  ASSUME SshctlIInv, NEW i \in Invocation, Edit(i)
  PROVE  SshctlIInv'
<1> USE DEF SshctlIInv
<1> DEFINE f == Args(i)[Len(said[i]) + 1]
<1>1. /\ pc[i] = "edit" /\ Len(said[i]) < Len(Args(i)) /\ pc' = [pc EXCEPT ![i] = "report"]
      /\ blocked' = [blocked EXCEPT ![opened[i]] = Edited(command[i].kind, @, f)]
      /\ changed' = [changed EXCEPT ![i] = Append(@, f)]
      /\ UNCHANGED <<command, opened, said>>
    BY DEF Edit, Become, Argument, Args
<1>2. /\ Progress(i) /\ opened[i] \in Database /\ command[i].kind \in {"block", "unblock"}
      /\ Len(changed[i]) = Len(said[i])
    BY <1>1 DEF Progress
<1>3. Args(i) \in Seq(Fingerprint) /\ said[i] \in Seq(Fingerprint) /\ changed[i] \in Seq(Fingerprint)
    BY ArgsType DEF Typed
<1>4. Len(said[i]) \in Nat /\ Len(said[i]) + 1 \in 1..Len(Args(i))
    BY <1>1, <1>3
<1>5. f \in Fingerprint
    BY <1>3, <1>4
<1> HIDE DEF f
<1>6. /\ changed'[i] \in Seq(Fingerprint) /\ Len(changed'[i]) = Len(said[i]) + 1
      /\ \A n \in 1..Len(changed[i]) : changed'[i][n] = changed[i][n]
      /\ changed'[i][Len(said[i]) + 1] = f
  <2>1. changed'[i] = Append(changed[i], f)
      BY <1>1 DEF Typed
  <2> QED
      BY <1>2, <1>3, <1>5, <2>1, AppendProperties
<1>7. Typed'
  <2>1. \A d \in Database : blocked'[d] \in SUBSET Fingerprint
      BY <1>1, <1>2, <1>5 DEF Typed, Edited
  <2>2. blocked' \in [Database -> SUBSET Fingerprint]
      BY <1>1, <2>1 DEF Typed
  <2>3. changed' \in [Invocation -> Seq(Fingerprint)]
      BY <1>1, <1>6 DEF Typed
  <2> QED
      BY <1>1, <2>2, <2>3 DEF Typed, States
<1>8. \A j \in Invocation : Args(j)' = Args(j) /\ ArgsOf(j)' = ArgsOf(j)
    BY <1>1 DEF Args, ArgsOf
<1>9. ASSUME NEW j \in Invocation
      PROVE  Progress(j)'
  <2>1. CASE j # i
    <3>1. pc'[j] = pc[j] /\ changed'[j] = changed[j] /\ Progress(j)
        BY <1>1, <2>1 DEF Typed
    <3> QED
        BY <1>1, <1>8, <3>1 DEF Progress, Begins
  <2>2. CASE j = i
    <3>1. pc'[j] = "report"
        BY <1>1, <2>2 DEF Typed
    <3>2. Begins(changed'[j], Args(j))
      <4>1. Begins(changed[i], Args(i))
          BY <1>2 DEF Progress
      <4>2. ASSUME NEW n \in 1..Len(changed'[i])
            PROVE  changed'[i][n] = Args(i)[n]
        <5>1. n \in 1..Len(changed[i]) \/ n = Len(said[i]) + 1
            BY <1>2, <1>4, <1>6
        <5> QED
            BY <1>6, <4>1, <5>1 DEF Begins, f
      <4> QED
          BY <1>4, <1>6, <2>2, <4>2 DEF Begins
    <3>3. Begins(said'[j], changed'[j])
      <4>1. Begins(said[i], changed[i])
          BY <1>2 DEF Progress
      <4> QED
          BY <1>1, <1>2, <1>4, <1>6, <2>2, <4>1 DEF Begins
    <3> QED
        BY <1>1, <1>2, <1>6, <1>8, <2>2, <3>1, <3>2, <3>3 DEF Progress
  <2> QED
      BY <2>1, <2>2
<1>10. f \in ArgsOf(i)
    BY <1>3, <1>4 DEF ArgsOf, Args, f
<1>11. \A d \in Database, g \in Fingerprint :
         g \in blocked[d] => g \in blocked'[d] \/ (command[i].kind = "unblock" /\ g = f)
  <2> SUFFICES ASSUME NEW d \in Database, NEW g \in Fingerprint, g \in blocked[d]
               PROVE  g \in blocked'[d] \/ (command[i].kind = "unblock" /\ g = f)
      OBVIOUS
  <2>1. CASE d # opened[i]
    <3>1. blocked'[d] = blocked[d]
        BY <1>1, <2>1 DEF Typed
    <3> QED
        BY <3>1
  <2>2. CASE d = opened[i]
    <3>1. blocked'[d] = Edited(command[i].kind, blocked[d], f)
        BY <1>1, <2>2 DEF Typed
    <3>2. CASE command[i].kind = "block"
        BY <3>1, <3>2 DEF Edited
    <3>3. CASE command[i].kind = "unblock"
        BY <3>1, <3>3 DEF Edited
    <3> QED
        BY <1>2, <3>2, <3>3
  <2> QED
      BY <2>1, <2>2
<1>12. command[i].kind = "block" => f \in blocked'[opened[i]]
    BY <1>1, <1>2 DEF Typed, Edited
<1>13. ASSUME NEW j \in Invocation, NEW n \in 1..Len(changed'[j]),
              command[j].kind # "unblock", ~Unblocked(changed'[j][n])
       PROVE  changed'[j][n] \in blocked'[opened[j]]
  <2>1. CASE j = i /\ n = Len(said[i]) + 1
      BY <1>2, <1>6, <1>12, <1>13, <2>1
  <2>2. CASE ~(j = i /\ n = Len(said[i]) + 1)
    <3>1. n \in 1..Len(changed[j]) /\ changed'[j][n] = changed[j][n]
      <4>1. CASE j = i
          BY <1>2, <1>4, <1>6, <2>2, <4>1
      <4>2. CASE j # i
        <5>1. changed'[j] = changed[j]
            BY <1>1, <4>2 DEF Typed
        <5> QED
            BY <5>1
      <4> QED
          BY <4>1, <4>2
    <3>2. changed[j][n] \in blocked[opened[j]] /\ changed[j][n] \in Fingerprint
      <4>1. ~Unblocked(changed[j][n]) /\ command[j].kind # "unblock"
          BY <1>13, <3>1
      <4>2. changed[j] \in Seq(Fingerprint)
          BY DEF Typed
      <4>3. changed[j][n] \in Fingerprint
          BY <3>1, <4>2, ElementOfSeq
      <4> QED
          BY <3>1, <4>1, <4>3 DEF Kept
    <3>3. opened[j] \in Database
      <4>1. changed[j] # <<>>
          BY <3>1
      <4> QED
          BY <4>1 DEF Progress
    <3>4. ~(command[i].kind = "unblock" /\ changed[j][n] = f)
        BY <1>10, <1>13, <3>1 DEF Unblocked
    <3> DEFINE g == changed[j][n]
    <3>5. g \in Fingerprint /\ g \in blocked[opened[j]] /\ ~(command[i].kind = "unblock" /\ g = f)
        BY <3>2, <3>4
    <3> HIDE DEF g
    <3>6. g \in blocked'[opened[j]]
        BY <1>11, <3>3, <3>5
    <3> QED
        BY <3>1, <3>6 DEF g
  <2> QED
      BY <2>1, <2>2
<1>14. Kept'
  <2>1. \A g \in Fingerprint : Unblocked(g)' <=> Unblocked(g)
      BY <1>1, <1>8 DEF Unblocked
  <2>2. \A j \in Invocation : \A n \in 1..Len(changed'[j]) : changed'[j][n] \in Fingerprint
      BY <1>7 DEF Typed
  <2> QED
      BY <1>1, <1>13, <2>1, <2>2 DEF Kept
<1> QED
    BY <1>7, <1>9, <1>14

\* An argument is reported.
LEMMA ReportStep ==
  ASSUME SshctlIInv, NEW i \in Invocation, Report(i)
  PROVE  SshctlIInv'
<1> USE DEF SshctlIInv
<1> DEFINE f == Args(i)[Len(said[i]) + 1]
<1>1. /\ pc[i] = "report" /\ pc' = [pc EXCEPT ![i] = "edit"]
      /\ said' = [said EXCEPT ![i] = Append(@, f)]
      /\ UNCHANGED <<command, opened, changed, blocked>>
    BY DEF Report, Become, Argument, Args, dataVars
<1>2. Progress(i) /\ Len(changed[i]) = Len(said[i]) + 1
    BY <1>1 DEF Progress
<1>3. Args(i) \in Seq(Fingerprint) /\ said[i] \in Seq(Fingerprint) /\ changed[i] \in Seq(Fingerprint)
    BY ArgsType DEF Typed
<1>4. Len(said[i]) \in Nat /\ Len(said[i]) + 1 \in 1..Len(changed[i])
    BY <1>2, <1>3
<1>5. f = changed[i][Len(said[i]) + 1] /\ f \in Fingerprint
    BY <1>2, <1>3, <1>4 DEF Progress, Begins
<1> HIDE DEF f
<1>6. /\ said'[i] \in Seq(Fingerprint) /\ Len(said'[i]) = Len(said[i]) + 1
      /\ \A n \in 1..Len(said[i]) : said'[i][n] = said[i][n]
      /\ said'[i][Len(said[i]) + 1] = f
  <2>1. said'[i] = Append(said[i], f)
      BY <1>1 DEF Typed
  <2> QED
      BY <1>3, <1>5, <2>1, AppendProperties
<1>7. Typed'
    BY <1>1, <1>6 DEF Typed, States
<1>8. \A j \in Invocation : Args(j)' = Args(j) /\ ArgsOf(j)' = ArgsOf(j)
    BY <1>1 DEF Args, ArgsOf
<1>9. ASSUME NEW j \in Invocation
      PROVE  Progress(j)'
  <2>1. CASE j # i
    <3>1. pc'[j] = pc[j] /\ said'[j] = said[j] /\ Progress(j)
        BY <1>1, <2>1 DEF Typed
    <3> QED
        BY <1>1, <1>8, <3>1 DEF Progress, Begins
  <2>2. CASE j = i
    <3>1. pc'[j] = "edit" /\ command[j].kind \in {"block", "unblock"} /\ opened[j] \in Database
        BY <1>1, <1>2, <2>2 DEF Typed, Progress
    <3>2. Begins(said'[j], changed'[j])
      <4>1. ASSUME NEW n \in 1..Len(said'[i])
            PROVE  said'[i][n] = changed[i][n]
        <5>1. n \in 1..Len(said[i]) \/ n = Len(said[i]) + 1
            BY <1>4, <1>6
        <5> QED
            BY <1>2, <1>5, <1>6, <5>1 DEF Progress, Begins
      <4> QED
          BY <1>1, <1>2, <1>6, <2>2, <4>1 DEF Begins
    <3>3. Begins(changed'[j], Args(j)')
        BY <1>1, <1>2, <1>8, <2>2 DEF Progress
    <3> QED
        BY <1>1, <1>2, <1>4, <1>6, <1>8, <2>2, <3>1, <3>2, <3>3 DEF Progress
  <2> QED
      BY <2>1, <2>2
<1>10. Kept'
    BY <1>1, <1>8 DEF Kept, Unblocked
<1> QED
    BY <1>7, <1>9, <1>10

\* A recorder, a statement of stats, a process that is gone.
LEMMA UnmovedStep ==
  ASSUME SshctlIInv, UNCHANGED <<command, pc, opened, changed, said, blocked>>
  PROVE  SshctlIInv'
<1>1. \A j \in Invocation : Args(j)' = Args(j) /\ ArgsOf(j)' = ArgsOf(j)
    BY DEF Args, ArgsOf
<1>2. Typed'
    BY DEF SshctlIInv, Typed
<1>3. \A j \in Invocation : Progress(j)'
    BY <1>1 DEF SshctlIInv, Progress, Begins
<1>4. Kept'
    BY <1>1 DEF SshctlIInv, Kept, Unblocked
<1> QED
    BY <1>2, <1>3, <1>4 DEF SshctlIInv

\* The invariant survives every step of an invocation.
LEMMA InvocationStep ==
  ASSUME SshctlIInv, NEW i \in Invocation,
         \/ OpenDatabase(i) \/ Execute(i) \/ Edit(i) \/ Report(i)
         \/ EditFails(i) \/ Finish(i)
         \/ Query(i) \/ QueryFails(i) \/ Count(i) \/ PrintStatistics(i)
         \/ Interrupt(i)
  PROVE  SshctlIInv'
<1> USE DEF States
<1>1. Progress(i) /\ pc[i] \in States /\ i \in DOMAIN opened
      /\ (command[i].kind \notin {"block", "unblock"} => Args(i) = <<>>)
    BY ArgsType DEF SshctlIInv, Typed
<1>2. CASE OpenDatabase(i)
  <2>1. /\ pc[i] = "start" /\ Become(i, "execute")
        /\ UNCHANGED <<command, changed, said, blocked>>
        /\ opened' = [opened EXCEPT ![i] = Default]
      BY <1>2 DEF OpenDatabase, Lookup, dataVars
  <2>2. opened'[i] = Default
      BY <1>1, <2>1
  <2> QED
      BY <2>1, <2>2, QuietStep
<1>3. CASE Execute(i)
  <2>1. PICK state \in {"query", "count", "edit"} :
          /\ pc[i] = "execute" /\ Become(i, state)
          /\ UNCHANGED <<command, changed, said, blocked, opened>>
          /\ state = "edit" => command[i].kind \notin {"list", "log", "stats"}
          /\ state \in {"query", "count"} => command[i].kind \in {"list", "log", "stats"}
      BY <1>3 DEF Execute, dataVars
  <2>2. command[i].kind \in {"block", "unblock", "list", "log", "stats"}
    <3>1. command[i] \in Commands
        BY DEF SshctlIInv, Typed
    <3> QED
        BY <3>1, ReadingAssumption DEF Commands, Editing, Readings
  <2> QED
      BY <1>1, <2>1, <2>2, QuietStep
<1>4. CASE Edit(i)
    BY <1>4, EditStep
<1>5. CASE Report(i)
    BY <1>5, ReportStep
<1>6. CASE EditFails(i)
  <2>1. /\ pc[i] = "edit" /\ Become(i, "exit1")
        /\ UNCHANGED <<command, changed, said, blocked, opened>>
      BY <1>6 DEF EditFails
  <2> QED
      BY <2>1, QuietStep
<1>7. CASE Finish(i)
  <2>1. /\ pc[i] = "edit" /\ Become(i, "exit0") /\ Len(said[i]) = Len(Args(i))
        /\ UNCHANGED <<command, changed, said, blocked, opened>>
      BY <1>7 DEF Finish, dataVars, Args
  <2> QED
      BY <2>1, QuietStep
<1>8. CASE Query(i) \/ PrintStatistics(i)
  <2>1. /\ pc[i] \in {"query", "count"} /\ Become(i, "exit0")
        /\ UNCHANGED <<command, changed, said, blocked, opened>>
      BY <1>8 DEF Query, PrintStatistics, dataVars
  <2>2. Len(said[i]) = Len(Args(i))
    <3>1. said[i] \in Seq(Fingerprint) /\ changed[i] \in Seq(Fingerprint)
        BY DEF SshctlIInv, Typed
    <3>2. Args(i) = <<>> /\ Len(changed[i]) <= 0 /\ Len(changed[i]) = Len(said[i])
        BY <1>1, <2>1 DEF Progress, Begins
    <3> QED
        BY <3>1, <3>2
  <2> QED
      BY <2>1, <2>2, QuietStep
<1>9. CASE QueryFails(i) \/ Interrupt(i)
  <2>1. /\ pc[i] \notin {"exit0", "exit1"} /\ Become(i, "exit1")
        /\ UNCHANGED <<command, changed, said, blocked, opened>>
      BY <1>9 DEF QueryFails, Interrupt, dataVars
  <2> QED
      BY <2>1, QuietStep
<1>10. CASE Count(i)
  <2>1. UNCHANGED <<command, pc, opened, changed, said, blocked>>
      BY <1>10 DEF Count, dataVars
  <2> QED
      BY <2>1, UnmovedStep
<1> QED
    BY <1>2, <1>3, <1>4, <1>5, <1>6, <1>7, <1>8, <1>9, <1>10

\* The invariant survives every step of the system.
LEMMA SshctlStepInv ==
  ASSUME SshctlIInv, [CtlNext]_ctlVars
  PROVE  SshctlIInv'
<1>1. CASE \E i \in Invocation :
             \/ OpenDatabase(i) \/ Execute(i) \/ Edit(i) \/ Report(i)
             \/ EditFails(i) \/ Finish(i)
             \/ Query(i) \/ QueryFails(i) \/ Count(i) \/ PrintStatistics(i)
             \/ Interrupt(i)
    BY <1>1, InvocationStep
<1>2. CASE \E d \in Database : Record(d)
  <2>1. UNCHANGED <<command, pc, opened, changed, said, blocked>>
      BY <1>2 DEF Record
  <2> QED
      BY <2>1, UnmovedStep
<1>3. CASE AllExited \/ UNCHANGED ctlVars
  <2>1. UNCHANGED <<command, pc, opened, changed, said, blocked>>
      BY <1>3 DEF AllExited, ctlVars, dataVars
  <2> QED
      BY <2>1, UnmovedStep
<1> QED
    BY <1>1, <1>2, <1>3 DEF CtlNext

-----------------------------------------------------------------------------
\* The inductive invariant.
THEOREM SshctlInvariance == CtlSpec => []SshctlIInv
<1>1. CtlInit => SshctlIInv
    BY SshctlInitInv
<1>2. SshctlIInv /\ [CtlNext]_ctlVars => SshctlIInv'
    BY SshctlStepInv
<1> QED
    BY <1>1, <1>2, PTL DEF CtlSpec

\* What block and unblock report is what they have done, for any number of arguments.
THEOREM ReportsAlwaysTrue == CtlSpec => []ReportsAreTrue
<1>1. ASSUME SshctlIInv
      PROVE  ReportsAreTrue
  <2> SUFFICES ASSUME NEW i \in Invocation
               PROVE  /\ Len(changed[i]) <= Len(Args(i))
                      /\ changed[i] = SubSeq(Args(i), 1, Len(changed[i]))
                      /\ Len(said[i]) \in {Len(changed[i]), Len(changed[i]) - 1}
                      /\ said[i] = SubSeq(changed[i], 1, Len(said[i]))
                      /\ pc[i] = "exit0" => said[i] = Args(i)
      BY DEF ReportsAreTrue, Args
  <2>1. /\ Progress(i) /\ Args(i) \in Seq(Fingerprint)
        /\ changed[i] \in Seq(Fingerprint) /\ said[i] \in Seq(Fingerprint)
      BY <1>1, ArgsType DEF SshctlIInv, Typed
  <2>2. Begins(changed[i], Args(i)) /\ Begins(said[i], changed[i])
      BY <2>1 DEF Progress
  <2>3. Len(changed[i]) <= Len(Args(i))
      BY <2>2 DEF Begins
  <2>4. changed[i] = SubSeq(Args(i), 1, Len(changed[i]))
      BY <2>1, <2>2, BeginningIsSubSeq
  <2>5. Len(said[i]) \in {Len(changed[i]), Len(changed[i]) - 1}
      BY <2>1 DEF Progress
  <2>6. said[i] = SubSeq(changed[i], 1, Len(said[i]))
      BY <2>1, <2>2, BeginningIsSubSeq
  <2>7. ASSUME pc[i] = "exit0"
        PROVE  said[i] = Args(i)
    <3>1. Len(said[i]) = Len(Args(i)) /\ Len(said[i]) = Len(changed[i])
        BY <2>1, <2>7 DEF Progress
    <3>2. \A n \in 1..Len(said[i]) : said[i][n] = Args(i)[n]
        BY <2>2, <3>1 DEF Begins
    <3> QED
        BY <2>1, <3>1, <3>2, SeqEqual
  <2> QED
      BY <2>3, <2>4, <2>5, <2>6, <2>7
<1> QED
    BY <1>1, SshctlInvariance, PTL

\* No command undoes the edits of another one, for any number of operators.
THEOREM BlocksAlwaysLast == CtlSpec => []BlocksLast
<1>1. ASSUME SshctlIInv
      PROVE  BlocksLast
  <2>1. ASSUME NEW i \in Invocation, NEW f \in Reported(i)
        PROVE  \/ command[i].kind = "unblock"
               \/ Unblocked(f)
               \/ f \in blocked[opened[i]]
    <3>1. PICK n \in 1..Len(said[i]) : f = said[i][n]
        BY <2>1 DEF Reported
    <3>2. Begins(said[i], changed[i]) /\ Len(changed[i]) \in Nat /\ Len(said[i]) \in Nat
        BY <1>1 DEF SshctlIInv, Typed, Progress
    <3>3. n \in 1..Len(changed[i]) /\ f = changed[i][n]
        BY <3>1, <3>2 DEF Begins
    <3> QED
        BY <1>1, <3>3 DEF SshctlIInv, Kept
  <2> QED
      BY <2>1 DEF BlocksLast, Unblocked
<1> QED
    BY <1>1, SshctlInvariance, PTL

-----------------------------------------------------------------------------
(***************************************************************************)
(* The statistics                                                          *)
(***************************************************************************)

BlockedIn(d) == {n \in DOMAIN log[d] : log[d][n].blocked}

Stored(d) ==
  /\ log[d] \in Seq(Connections)
  /\ IsFiniteSet(rows[d].ip) /\ IsFiniteSet(rows[d].fp) /\ IsFiniteSet(rows[d].banner)

\* What was true when the count began is a lower bound, what is true now an upper one.
Bounded(i) ==
  \A n \in 1..Len(figures[i]) :
    \/ figures[i][n] = 0
    \/ before[i][n] <= figures[i][n] /\ figures[i][n] <= Figures(opened[i])[n]

\* An invocation that has not begun to count has no figure.
Counting(i) ==
  /\ figures[i] \in Seq(Nat) /\ Len(figures[i]) <= 5
  /\ before[i] \in Seq(Nat)
  /\ opened[i] \in Database \cup {Unnamed}
  /\ pc[i] \in {"start", "execute", "edit", "report", "query"} => figures[i] = <<>>
  /\ pc[i] \notin {"start", "exit1"} => opened[i] \in Database
  /\ figures[i] # <<>> => opened[i] \in Database
  /\ pc[i] = "count" =>
       \A n \in 1..5 : before[i][n] \in Nat /\ before[i][n] <= Figures(opened[i])[n]
  /\ Bounded(i)

FiguresIInv ==
  /\ command \in [Invocation -> Commands]
  /\ pc \in [Invocation -> States]
  /\ opened \in [Invocation -> Database \cup {Unnamed}]
  /\ rows \in [Database -> [ip : SUBSET Address, fp : SUBSET Fingerprint,
                            banner : SUBSET Banner]]
  /\ log \in [Database -> Seq(Connections)]
  /\ figures \in [Invocation -> Seq(Nat)]
  /\ before \in [Invocation -> Seq(Nat)]
  /\ \A d \in Database : Stored(d)
  /\ \A i \in Invocation : Counting(i)

\* No step makes a figure of a database smaller.
Grown(d) == \A n \in 1..5 : Figures(d)[n] <= Figures(d)'[n] /\ Figures(d)'[n] \in Nat

\* The figures are five numbers.
LEMMA FiguresType ==
  ASSUME NEW d \in Database, Stored(d)
  PROVE  Figures(d) \in Seq(Nat) /\ Len(Figures(d)) = 5
         /\ \A n \in 1..5 : Figures(d)[n] \in Nat
<1>1. Len(log[d]) \in Nat
    BY DEF Stored
<1>2. IsFiniteSet(BlockedIn(d))
  <2>1. IsFiniteSet(1..Len(log[d]))
      BY <1>1, FS_Interval
  <2>2. BlockedIn(d) \subseteq 1..Len(log[d])
      BY DEF BlockedIn, Stored
  <2> QED
      BY <2>1, <2>2, FS_Subset
<1>3. /\ Cardinality(BlockedIn(d)) \in Nat /\ Cardinality(rows[d].ip) \in Nat
      /\ Cardinality(rows[d].fp) \in Nat /\ Cardinality(rows[d].banner) \in Nat
    BY <1>2, FS_CardinalityType DEF Stored
<1>4. Figures(d) = <<Len(log[d]), Cardinality(BlockedIn(d)), Cardinality(rows[d].ip),
                     Cardinality(rows[d].fp), Cardinality(rows[d].banner)>>
    BY DEF Figures, BlockedIn
<1> HIDE DEF BlockedIn
<1> QED
    BY <1>1, <1>3, <1>4

\* More connections and more rows make no figure smaller.
LEMMA FiguresGrow ==
  ASSUME NEW d \in Database, Stored(d), Stored(d)',
         log'[d] = log[d] \/ \E c \in Connections : log'[d] = Append(log[d], c),
         rows[d].ip \subseteq rows'[d].ip, rows[d].fp \subseteq rows'[d].fp,
         rows[d].banner \subseteq rows'[d].banner
  PROVE  Grown(d)
<1>1. Len(log[d]) <= Len(log'[d]) /\ BlockedIn(d) \subseteq BlockedIn(d)'
  <2>1. CASE log'[d] = log[d]
      BY <2>1 DEF BlockedIn, Stored
  <2>2. CASE \E c \in Connections : log'[d] = Append(log[d], c)
    <3>1. PICK c \in Connections : log'[d] = Append(log[d], c)
        BY <2>2
    <3>2. /\ Len(log'[d]) = Len(log[d]) + 1 /\ Len(log[d]) \in Nat
          /\ \A n \in 1..Len(log[d]) : log'[d][n] = log[d][n]
          /\ DOMAIN log[d] = 1..Len(log[d]) /\ DOMAIN log'[d] = 1..Len(log'[d])
        BY <3>1 DEF Stored
    <3> QED
        BY <3>2 DEF BlockedIn
  <2> QED
      BY <2>1, <2>2
<1>2. IsFiniteSet(BlockedIn(d)')
  <2>1. Len(log'[d]) \in Nat
      BY DEF Stored
  <2>2. IsFiniteSet(1..Len(log'[d]))
      BY <2>1, FS_Interval
  <2>3. BlockedIn(d)' \subseteq 1..Len(log'[d])
      BY DEF BlockedIn, Stored
  <2> QED
      BY <2>2, <2>3, FS_Subset
<1>3. /\ Cardinality(BlockedIn(d)) <= Cardinality(BlockedIn(d)')
      /\ Cardinality(rows[d].ip) <= Cardinality(rows'[d].ip)
      /\ Cardinality(rows[d].fp) <= Cardinality(rows'[d].fp)
      /\ Cardinality(rows[d].banner) <= Cardinality(rows'[d].banner)
    BY <1>1, <1>2, FS_Subset DEF Stored
<1>4. /\ Len(log'[d]) \in Nat
      /\ Cardinality(BlockedIn(d)') \in Nat /\ Cardinality(rows'[d].ip) \in Nat
      /\ Cardinality(rows'[d].fp) \in Nat /\ Cardinality(rows'[d].banner) \in Nat
    BY <1>2, FS_CardinalityType DEF Stored
<1>5. /\ Figures(d) = <<Len(log[d]), Cardinality(BlockedIn(d)), Cardinality(rows[d].ip),
                        Cardinality(rows[d].fp), Cardinality(rows[d].banner)>>
      /\ Figures(d)' = <<Len(log'[d]), Cardinality(BlockedIn(d)'), Cardinality(rows'[d].ip),
                         Cardinality(rows'[d].fp), Cardinality(rows'[d].banner)>>
    BY DEF Figures, BlockedIn
<1> HIDE DEF BlockedIn
<1> QED
    BY <1>1, <1>3, <1>4, <1>5 DEF Grown

\* Before an invocation counts there is no figure to bound.
LEMMA FiguresInitInv ==
  ASSUME CtlInit
  PROVE  FiguresIInv
<1>1. /\ command \in [Invocation -> Commands]
      /\ pc \in [Invocation -> States] /\ \A i \in Invocation : pc[i] = "start"
      /\ opened \in [Invocation -> Database \cup {Unnamed}]
      /\ \A i \in Invocation : figures[i] = <<>> /\ before[i] = <<>>
      /\ rows \in [Database -> [ip : {{}}, fp : SUBSET Fingerprint, banner : {{}}]]
      /\ \A d \in Database : log[d] = <<>>
    BY DEF CtlInit, States
<1>2. figures \in [Invocation -> Seq(Nat)] /\ before \in [Invocation -> Seq(Nat)]
    BY DEF CtlInit
<1>3. log \in [Database -> Seq(Connections)]
    BY DEF CtlInit
<1>4. rows \in [Database -> [ip : SUBSET Address, fp : SUBSET Fingerprint,
                             banner : SUBSET Banner]]
  <2>1. \A d \in Database : rows[d] \in [ip : SUBSET Address, fp : SUBSET Fingerprint,
                                         banner : SUBSET Banner]
      BY <1>1
  <2> QED
      BY <1>1, <2>1
<1>5. ASSUME NEW d \in Database
      PROVE  Stored(d)
  <2>1. rows[d].ip = {} /\ rows[d].banner = {} /\ rows[d].fp \subseteq Fingerprint
      BY <1>1
  <2>2. IsFiniteSet(rows[d].fp)
      BY <2>1, FingerprintAssumption, FS_Subset
  <2> QED
      BY <1>3, <2>1, <2>2, FS_EmptySet DEF Stored
<1>6. ASSUME NEW i \in Invocation
      PROVE  Counting(i)
    BY <1>1, <1>2 DEF Counting, Bounded
<1> QED
    BY <1>1, <1>2, <1>3, <1>4, <1>5, <1>6 DEF FiguresIInv

Tables == [ip : SUBSET Address, fp : SUBSET Fingerprint, banner : SUBSET Banner]

\* After a step that adds to one database, what is stored is of its type, and no figure
\* has become smaller.
LEMMA DataStep ==
  ASSUME FiguresIInv, NEW d \in Database, NEW ips, NEW bs, IsFiniteSet(ips), IsFiniteSet(bs),
         rows' \in [Database -> Tables],
         \A e \in Database : /\ rows'[e].ip \in {rows[e].ip, rows[e].ip \cup ips}
                             /\ rows[e].fp \subseteq rows'[e].fp
                             /\ rows'[e].banner \in {rows[e].banner, rows[e].banner \cup bs},
         log' = log \/ \E c \in Connections : log' = [log EXCEPT ![d] = Append(@, c)]
  PROVE  /\ log' \in [Database -> Seq(Connections)]
         /\ \A e \in Database : Stored(e)' /\ Grown(e)
<1> USE DEF FiguresIInv
<1>1. log' \in [Database -> Seq(Connections)]
  <2>1. CASE log' = log
      BY <2>1
  <2>2. CASE \E c \in Connections : log' = [log EXCEPT ![d] = Append(@, c)]
    <3>1. PICK c \in Connections : log' = [log EXCEPT ![d] = Append(@, c)]
        BY <2>2
    <3>2. Append(log[d], c) \in Seq(Connections)
        OBVIOUS
    <3> QED
        BY <3>1, <3>2
  <2> QED
      BY <2>1, <2>2
<1>2. ASSUME NEW e \in Database
      PROVE  Stored(e)' /\ Grown(e)
  <2>1. Stored(e) /\ rows'[e].fp \subseteq Fingerprint
      BY DEF Tables
  <2>2. IsFiniteSet(rows'[e].fp)
      BY <2>1, FingerprintAssumption, FS_Subset
  <2>3. IsFiniteSet(rows[e].ip \cup ips) /\ IsFiniteSet(rows[e].banner \cup bs)
      BY <2>1, FS_Union DEF Stored
  <2>4. Stored(e)'
    <3>1. IsFiniteSet(rows'[e].ip) /\ IsFiniteSet(rows'[e].banner)
        BY <2>1, <2>3 DEF Stored
    <3> QED
        BY <1>1, <2>2, <3>1 DEF Stored
  <2>5. log'[e] = log[e] \/ \E c \in Connections : log'[e] = Append(log[e], c)
      OBVIOUS
  <2>6. /\ rows[e].ip \subseteq rows'[e].ip /\ rows[e].fp \subseteq rows'[e].fp
        /\ rows[e].banner \subseteq rows'[e].banner
      OBVIOUS
  <2> QED
      BY <2>1, <2>4, <2>5, <2>6, FiguresGrow
<1> QED
    BY <1>1, <1>2

\* A row for a fingerprint.
LEMMA AddFingerprintData ==
  ASSUME FiguresIInv, NEW d \in Database, NEW f \in Fingerprint, AddFingerprint(d, f),
         UNCHANGED log
  PROVE  /\ rows' \in [Database -> Tables]
         /\ log' \in [Database -> Seq(Connections)]
         /\ \A e \in Database : Stored(e)' /\ Grown(e)
<1>1. ASSUME NEW e \in Database
      PROVE  /\ rows'[e] \in Tables /\ rows'[e].ip = rows[e].ip
             /\ rows[e].fp \subseteq rows'[e].fp /\ rows'[e].banner = rows[e].banner
  <2>1. rows[e] \in Tables
      BY DEF FiguresIInv, Tables
  <2>2. CASE e # d
    <3>1. rows'[e] = rows[e]
        BY <2>2 DEF AddFingerprint, FiguresIInv
    <3> QED
        BY <2>1, <3>1
  <2>3. CASE e = d
    <3>1. rows'[e] = [rows[e] EXCEPT !.fp = @ \cup {f}]
        BY <2>3 DEF AddFingerprint, FiguresIInv
    <3> QED
        BY <2>1, <3>1 DEF Tables
  <2> QED
      BY <2>2, <2>3
<1>2. rows' \in [Database -> Tables]
  <2>1. DOMAIN rows' = Database /\ rows' = [e \in Database |-> rows'[e]]
      BY DEF AddFingerprint, FiguresIInv
  <2> QED
      BY <1>1, <2>1
<1> QED
    BY <1>1, <1>2, DataStep, FS_EmptySet

\* A connection, or some of the rows of one.
LEMMA RecordData ==
  ASSUME FiguresIInv, NEW d \in Database, Record(d)
  PROVE  /\ rows' \in [Database -> Tables]
         /\ log' \in [Database -> Seq(Connections)]
         /\ \A e \in Database : Stored(e)' /\ Grown(e)
<1>1. PICK c \in Connections, made \in 1..4 :
        /\ rows' = [rows EXCEPT ![d].ip = @ \cup {c.ip},
                                ![d].fp = IF made > 1 THEN @ \cup {c.fp} ELSE @,
                                ![d].banner = IF made > 2 THEN @ \cup {c.banner} ELSE @]
        /\ log' = IF made = 4 THEN [log EXCEPT ![d] = Append(@, c)] ELSE log
    BY DEF Record
<1>2. c.ip \in Address /\ c.fp \in Fingerprint /\ c.banner \in Banner
    BY DEF Connections
<1>3. ASSUME NEW e \in Database
      PROVE  /\ rows'[e] \in Tables /\ rows'[e].ip \in {rows[e].ip, rows[e].ip \cup {c.ip}}
             /\ rows[e].fp \subseteq rows'[e].fp
             /\ rows'[e].banner \in {rows[e].banner, rows[e].banner \cup {c.banner}}
  <2>1. rows[e] \in Tables
      BY DEF FiguresIInv, Tables
  <2>2. CASE e # d
    <3>1. rows'[e] = rows[e]
        BY <1>1, <2>2 DEF FiguresIInv
    <3> QED
        BY <2>1, <3>1
  <2>3. CASE e = d
    <3>1. rows'[e] = [rows[e] EXCEPT !.ip = @ \cup {c.ip},
                                     !.fp = IF made > 1 THEN @ \cup {c.fp} ELSE @,
                                     !.banner = IF made > 2 THEN @ \cup {c.banner} ELSE @]
        BY <1>1, <2>3 DEF FiguresIInv
    <3> QED
      <4>1. /\ rows'[e].ip = rows[e].ip \cup {c.ip}
            /\ rows'[e].fp \in {rows[e].fp, rows[e].fp \cup {c.fp}}
            /\ rows'[e].banner \in {rows[e].banner, rows[e].banner \cup {c.banner}}
          BY <2>1, <3>1 DEF Tables
      <4>2. rows'[e] = [ip |-> rows'[e].ip, fp |-> rows'[e].fp, banner |-> rows'[e].banner]
          BY <2>1, <3>1 DEF Tables
      <4>3. /\ rows'[e].ip \in SUBSET Address /\ rows'[e].fp \in SUBSET Fingerprint
            /\ rows'[e].banner \in SUBSET Banner
          BY <1>2, <2>1, <4>1 DEF Tables
      <4>4. rows'[e] \in Tables
          BY <4>2, <4>3 DEF Tables
      <4> QED
          BY <4>1, <4>4
  <2> QED
      BY <2>2, <2>3
<1>4. rows' \in [Database -> Tables]
  <2>1. DOMAIN rows' = Database /\ rows' = [e \in Database |-> rows'[e]]
      BY <1>1 DEF FiguresIInv
  <2> QED
      BY <1>3, <2>1
<1>5. log' = log \/ \E k \in Connections : log' = [log EXCEPT ![d] = Append(@, k)]
    BY <1>1
<1>6. IsFiniteSet({c.ip}) /\ IsFiniteSet({c.banner})
    BY FS_Singleton
<1> QED
    BY <1>3, <1>4, <1>5, <1>6, DataStep

\* The figures of an invocation that does not count in a step keep their bounds.
LEMMA Uncounted ==
  ASSUME FiguresIInv, NEW i \in Invocation,
         \A d \in Database : Grown(d),
         figures'[i] = figures[i], opened'[i] \in Database \cup {Unnamed},
         opened'[i] = opened[i] \/ (figures[i] = <<>> /\ opened'[i] \in Database),
         before'[i] = before[i] \/ (figures[i] = <<>> /\ before'[i] \in Seq(Nat)),
         pc'[i] \in {"start", "execute", "edit", "report", "query"} => figures[i] = <<>>,
         pc'[i] \notin {"start", "exit1"} => opened'[i] \in Database,
         pc'[i] = "count" =>
           \A n \in 1..5 : before'[i][n] \in Nat /\ before'[i][n] <= Figures(opened[i])'[n]
  PROVE  Counting(i)'
<1>1. Counting(i) /\ figures[i] \in Seq(Nat) /\ Len(figures[i]) <= 5 /\ before[i] \in Seq(Nat)
    BY DEF FiguresIInv, Counting
<1>2. Bounded(i)'
  <2>1. CASE figures[i] = <<>>
      BY <2>1 DEF Bounded
  <2>2. CASE figures[i] # <<>>
    <3>1. opened[i] \in Database /\ opened'[i] = opened[i] /\ before'[i] = before[i]
        BY <1>1, <2>2 DEF Counting
    <3> DEFINE d == opened[i]
    <3>2. Stored(d) /\ Grown(d)
        BY <3>1 DEF FiguresIInv
    <3>3. \A n \in 1..5 : Figures(d)[n] \in Nat
        BY <3>1, <3>2, FiguresType
    <3>4. ASSUME NEW n \in 1..Len(figures[i]), figures[i][n] # 0
          PROVE  before[i][n] <= figures[i][n] /\ figures[i][n] <= Figures(d)'[n]
      <4>1. n \in 1..5 /\ figures[i][n] \in Nat
          BY <1>1
      <4>2. before[i][n] <= figures[i][n] /\ figures[i][n] <= Figures(d)[n]
          BY <1>1, <3>4 DEF Counting, Bounded
      <4>3. Figures(d)[n] \in Nat /\ Figures(d)'[n] \in Nat /\ Figures(d)[n] <= Figures(d)'[n]
          BY <3>2, <3>3, <4>1 DEF Grown
      <4> QED
          BY <4>1, <4>2, <4>3
    <3>5. Figures(opened[i])' = Figures(d)'
        BY <3>1
    <3> HIDE DEF d
    <3> QED
        BY <3>1, <3>4, <3>5 DEF Bounded
  <2> QED
      BY <2>1, <2>2
<1> QED
    BY <1>1, <1>2 DEF Counting

\* An invocation that stands still while others move.
LEMMA StandingStill ==
  ASSUME FiguresIInv, NEW i \in Invocation, \A d \in Database : Grown(d),
         figures'[i] = figures[i], opened'[i] = opened[i], before'[i] = before[i],
         pc'[i] = pc[i]
  PROVE  Counting(i)'
<1>1. Counting(i) /\ pc[i] \in States
    BY DEF FiguresIInv
<1>2. ASSUME pc[i] = "count", NEW n \in 1..5
      PROVE  before'[i][n] \in Nat /\ before'[i][n] <= Figures(opened[i])'[n]
  <2>1. /\ before[i][n] \in Nat /\ before[i][n] <= Figures(opened[i])[n]
        /\ opened[i] \in Database
      BY <1>1, <1>2 DEF Counting
  <2>2. /\ Figures(opened[i])[n] <= Figures(opened[i])'[n]
        /\ Figures(opened[i])[n] \in Nat /\ Figures(opened[i])'[n] \in Nat
    <3> DEFINE d == opened[i]
    <3>1. Grown(d) /\ Stored(d) /\ d \in Database
        BY <2>1 DEF FiguresIInv
    <3>2. Figures(d)[n] \in Nat
        BY <3>1, FiguresType
    <3>3. Figures(d)[n] <= Figures(d)'[n] /\ Figures(d)'[n] \in Nat
        BY <3>1 DEF Grown
    <3>4. Figures(opened[i])' = Figures(d)'
        OBVIOUS
    <3> QED
        BY <3>2, <3>3, <3>4
  <2> QED
      BY <2>1, <2>2
<1> QED
    BY <1>1, <1>2, Uncounted DEF Counting

\* What a step of an invocation leaves as it is.
OnlyMoves(i) ==
  /\ UNCHANGED command
  /\ pc' \in [Invocation -> States] /\ opened' \in [Invocation -> Database \cup {Unnamed}]
  /\ figures' \in [Invocation -> Seq(Nat)] /\ before' \in [Invocation -> Seq(Nat)]
  /\ \A j \in Invocation \ {i} :
       pc'[j] = pc[j] /\ opened'[j] = opened[j] /\ figures'[j] = figures[j]
         /\ before'[j] = before[j]

\* The invariant survives a step if the moving invocation's part of it does.
LEMMA OneMoves ==
  ASSUME FiguresIInv, NEW i \in Invocation, OnlyMoves(i), Counting(i)',
         rows' \in [Database -> Tables],
         log' \in [Database -> Seq(Connections)],
         \A d \in Database : Stored(d)' /\ Grown(d)
  PROVE  FiguresIInv'
<1>1. ASSUME NEW j \in Invocation
      PROVE  Counting(j)'
  <2>1. CASE j = i
      BY <2>1
  <2>2. CASE j # i
      BY <2>2, StandingStill DEF OnlyMoves
  <2> QED
      BY <2>1, <2>2
<1> QED
    BY <1>1 DEF FiguresIInv, OnlyMoves, Tables

\* Nothing is stored.
LEMMA SameData ==
  ASSUME FiguresIInv, UNCHANGED <<rows, log>>
  PROVE  /\ rows' \in [Database -> Tables]
         /\ log' \in [Database -> Seq(Connections)]
         /\ \A d \in Database : Stored(d)' /\ Grown(d)
<1>1. ASSUME NEW d \in Database
      PROVE  Stored(d)' /\ Grown(d)
  <2>1. Stored(d) /\ Stored(d)'
      BY DEF FiguresIInv, Stored
  <2> QED
      BY <2>1, FiguresGrow
<1> QED
    BY <1>1 DEF FiguresIInv, Tables

\* A step of an invocation that counts nothing and does not begin to.
LEMMA OtherMove ==
  ASSUME FiguresIInv, NEW i \in Invocation, NEW state \in States \ {"start", "count"},
         Become(i, state), UNCHANGED <<command, figures, before>>,
         opened' = opened \/ (pc[i] = "start" /\ opened' = [opened EXCEPT ![i] = Default]),
         opened'[i] \in Database \/ state = "exit1",
         state \in {"execute", "edit", "report", "query"} =>
           pc[i] \in {"start", "execute", "edit", "report", "query"},
         rows' \in [Database -> Tables], log' \in [Database -> Seq(Connections)],
         \A d \in Database : Stored(d)' /\ Grown(d)
  PROVE  FiguresIInv'
<1>1. Counting(i) /\ pc'[i] = state
    BY DEF FiguresIInv, Become
<1>2. opened' \in [Invocation -> Database \cup {Unnamed}]
    BY DatabaseAssumption DEF FiguresIInv
<1>3. opened'[i] = opened[i] \/ (figures[i] = <<>> /\ opened'[i] \in Database)
    BY <1>1, DatabaseAssumption DEF FiguresIInv, Counting
<1>4. state \in {"execute", "edit", "report", "query"} => figures[i] = <<>>
    BY <1>1 DEF Counting
<1>5. figures'[i] = figures[i] /\ before'[i] = before[i]
    OBVIOUS
<1>6. Counting(i)'
    BY <1>1, <1>2, <1>3, <1>4, <1>5, Uncounted
<1>7. OnlyMoves(i)
    BY <1>2 DEF OnlyMoves, FiguresIInv, Become
<1> QED
    BY <1>6, <1>7, OneMoves

\* A process ends, and what it has counted is gone.
LEMMA LastMove ==
  ASSUME FiguresIInv, NEW i \in Invocation, NEW state \in {"exit0", "exit1"},
         Become(i, state), Forget(i), UNCHANGED <<command, opened>>,
         opened[i] \in Database \/ state = "exit1",
         rows' \in [Database -> Tables], log' \in [Database -> Seq(Connections)],
         \A d \in Database : Stored(d)' /\ Grown(d)
  PROVE  FiguresIInv'
<1>1. /\ pc'[i] = state /\ figures'[i] = <<>> /\ before'[i] = <<>>
      /\ opened'[i] = opened[i] /\ opened[i] \in Database \cup {Unnamed}
    BY DEF FiguresIInv, Become, Forget
<1>2. <<>> \in Seq(Nat) /\ Len(<<>>) = 0
    OBVIOUS
<1>3. Counting(i)'
    BY <1>1, <1>2 DEF Counting, Bounded
<1>4. OnlyMoves(i)
    BY <1>2 DEF OnlyMoves, FiguresIInv, Become, Forget, States
<1> QED
    BY <1>3, <1>4, OneMoves

\* The command begins; stats notes the figures.
LEMMA ExecuteFigures ==
  ASSUME FiguresIInv, NEW i \in Invocation, Execute(i)
  PROVE  FiguresIInv'
<1>1. PICK state \in {"query", "count", "edit"} :
        /\ pc[i] = "execute" /\ pc' = [pc EXCEPT ![i] = state]
        /\ state = "count" => command[i].kind = "stats"
        /\ before' = IF command[i].kind = "stats"
                     THEN [before EXCEPT ![i] = Figures(opened[i])] ELSE before
        /\ UNCHANGED <<command, opened, figures, rows, log>>
    BY DEF Execute, Become, dataVars
<1>2. Counting(i) /\ figures[i] = <<>> /\ opened[i] \in Database
    BY <1>1 DEF FiguresIInv, Counting
<1>3. Stored(opened[i])
    BY <1>2 DEF FiguresIInv
<1>4. /\ Figures(opened[i]) \in Seq(Nat)
      /\ \A n \in 1..5 : Figures(opened[i])[n] \in Nat
    BY <1>2, <1>3, FiguresType
<1>5. before' \in [Invocation -> Seq(Nat)] /\ \A j \in Invocation \ {i} : before'[j] = before[j]
  <2>1. CASE command[i].kind = "stats"
      BY <1>1, <1>4, <2>1 DEF FiguresIInv
  <2>2. CASE command[i].kind # "stats"
      BY <1>1, <2>2 DEF FiguresIInv
  <2> QED
      BY <2>1, <2>2
<1>6. Figures(opened[i])' = Figures(opened[i])
    BY <1>1 DEF Figures
<1>7. pc'[i] = state /\ pc' \in [Invocation -> States]
    BY <1>1 DEF FiguresIInv, States
<1>8. ASSUME pc'[i] = "count", NEW n \in 1..5
      PROVE  before'[i][n] \in Nat /\ before'[i][n] <= Figures(opened[i])'[n]
  <2>1. before'[i] = Figures(opened[i])
      BY <1>1, <1>7, <1>8 DEF FiguresIInv
  <2> QED
      BY <1>4, <1>6, <2>1
<1>9. /\ rows' \in [Database -> Tables] /\ log' \in [Database -> Seq(Connections)]
      /\ \A d \in Database : Stored(d)' /\ Grown(d)
    BY <1>1, SameData
<1>10. Counting(i)'
  <2>1. /\ figures'[i] = figures[i] /\ opened'[i] = opened[i] /\ before'[i] \in Seq(Nat)
        /\ opened'[i] \in Database \cup {Unnamed}
      BY <1>1, <1>2, <1>5
  <2> QED
      BY <1>2, <1>7, <1>8, <1>9, <2>1, Uncounted
<1>11. OnlyMoves(i)
    BY <1>1, <1>5, <1>7 DEF OnlyMoves, FiguresIInv
<1> QED
    BY <1>9, <1>10, <1>11, OneMoves

\* One figure more.
LEMMA CountFigures ==
  ASSUME FiguresIInv, NEW i \in Invocation, Count(i)
  PROVE  FiguresIInv'
<1> DEFINE n == Len(figures[i]) + 1
<1>1. PICK figure \in {0, Counted(opened[i], n)} :
        /\ pc[i] = "count" /\ n <= 5
        /\ figures' = [figures EXCEPT ![i] = Append(@, figure)]
        /\ UNCHANGED <<command, pc, opened, before, rows, log>>
    BY DEF Count, dataVars
<1>2. /\ Counting(i) /\ opened[i] \in Database
      /\ figures[i] \in Seq(Nat) /\ n \in 1..5
  <2>1. /\ Counting(i) /\ opened[i] \in Database /\ figures[i] \in Seq(Nat)
      BY <1>1 DEF FiguresIInv, Counting
  <2>2. Len(figures[i]) \in Nat
      BY <2>1
  <2> QED
      BY <1>1, <2>1, <2>2
<1>3. before[i][n] \in Nat /\ before[i][n] <= Figures(opened[i])[n]
    BY <1>1, <1>2 DEF Counting
<1>4. Figures(opened[i])[n] \in Nat
    BY <1>2, FiguresType DEF FiguresIInv
<1>5. figure \in Nat /\ figure \in {0, Figures(opened[i])[n]}
    BY <1>1, <1>4 DEF Counted
<1> HIDE DEF n
<1>6. /\ figures'[i] \in Seq(Nat) /\ Len(figures'[i]) = n
      /\ \A m \in 1..Len(figures[i]) : figures'[i][m] = figures[i][m]
      /\ figures'[i][n] = figure
  <2>1. figures'[i] = Append(figures[i], figure)
      BY <1>1 DEF FiguresIInv
  <2> QED
      BY <1>2, <1>5, <2>1, AppendProperties DEF n
<1>7. Figures(opened[i])' = Figures(opened[i])
    BY <1>1 DEF Figures
<1>8. Bounded(i)'
  <2>1. ASSUME NEW m \in 1..Len(figures'[i])
        PROVE  \/ figures'[i][m] = 0
               \/ before[i][m] <= figures'[i][m] /\ figures'[i][m] <= Figures(opened[i])[m]
    <3>1. CASE m = n
        BY <1>3, <1>4, <1>5, <1>6, <3>1
    <3>2. CASE m # n
      <4>1. m \in 1..Len(figures[i])
          BY <1>2, <1>6, <3>2 DEF n
      <4> QED
          BY <1>2, <1>6, <4>1 DEF Counting, Bounded
    <3> QED
        BY <3>1, <3>2
  <2> QED
      BY <1>1, <1>7, <2>1 DEF Bounded
<1>9. Counting(i)'
  <2>1. /\ pc'[i] = "count" /\ opened'[i] = opened[i] /\ before'[i] = before[i]
        /\ before[i] \in Seq(Nat) /\ Len(figures'[i]) <= 5
      BY <1>1, <1>2, <1>6 DEF Counting
  <2>2. \A k \in 1..5 : before[i][k] \in Nat /\ before[i][k] <= Figures(opened[i])[k]
      BY <1>1, <1>2 DEF Counting
  <2> QED
      BY <1>2, <1>6, <1>7, <1>8, <2>1, <2>2 DEF Counting
<1>10. OnlyMoves(i)
    BY <1>1, <1>6 DEF OnlyMoves, FiguresIInv
<1>11. /\ rows' \in [Database -> Tables] /\ log' \in [Database -> Seq(Connections)]
       /\ \A d \in Database : Stored(d)' /\ Grown(d)
    BY <1>1, SameData
<1> QED
    BY <1>9, <1>10, <1>11, OneMoves

\* The argument at hand is a fingerprint.
LEMMA ArgumentType ==
  ASSUME Typed, NEW i \in Invocation, Len(said[i]) < Len(command[i].args)
  PROVE  Argument(i) \in Fingerprint
<1>1. Args(i) \in Seq(Fingerprint) /\ said[i] \in Seq(Fingerprint)
    BY ArgsType DEF Typed
<1>2. Len(said[i]) + 1 \in 1..Len(Args(i))
    BY <1>1 DEF Args
<1> QED
    BY <1>1, <1>2, ElementOfSeq DEF Argument, Args

\* An edit, done or failed.
LEMMA EditFigures ==
  ASSUME FiguresIInv, Typed, NEW i \in Invocation, Edit(i) \/ EditFails(i)
  PROVE  FiguresIInv'
<1>1. PICK state \in {"report", "exit1"} :
        /\ pc[i] = "edit" /\ Become(i, state) /\ Len(said[i]) < Len(command[i].args)
        /\ UNCHANGED <<command, opened, figures, before, log>>
        /\ UNCHANGED rows \/ AddFingerprint(opened[i], Argument(i))
    BY DEF Edit, EditFails, readVars
<1>2. opened[i] \in Database
    BY <1>1 DEF FiguresIInv, Counting
<1>3. /\ rows' \in [Database -> Tables] /\ log' \in [Database -> Seq(Connections)]
      /\ \A d \in Database : Stored(d)' /\ Grown(d)
  <2>1. CASE UNCHANGED rows
      BY <1>1, <2>1, SameData
  <2>2. CASE AddFingerprint(opened[i], Argument(i))
      BY <1>1, <1>2, <2>2, ArgumentType, AddFingerprintData
  <2> QED
      BY <1>1, <2>1, <2>2
<1> QED
    BY <1>1, <1>2, <1>3, OtherMove DEF States

\* A step that stores nothing.
LEMMA QuietFigures ==
  ASSUME FiguresIInv, NEW i \in Invocation,
         \/ OpenDatabase(i) \/ Report(i) \/ Finish(i)
         \/ Query(i) \/ QueryFails(i) \/ PrintStatistics(i) \/ Interrupt(i)
  PROVE  FiguresIInv'
<1>1. /\ rows' \in [Database -> Tables] /\ log' \in [Database -> Seq(Connections)]
      /\ \A d \in Database : Stored(d)' /\ Grown(d)
  <2>1. UNCHANGED <<rows, log>>
      BY DEF OpenDatabase, Report, Finish, Query, QueryFails, PrintStatistics, Interrupt,
             dataVars
  <2> QED
      BY <2>1, SameData
<1>2. CASE OpenDatabase(i)
  <2>1. /\ pc[i] = "start" /\ Become(i, "execute") /\ UNCHANGED <<command, figures, before>>
        /\ opened' = [opened EXCEPT ![i] = Default]
      BY <1>2 DEF OpenDatabase, Lookup, readVars
  <2>2. opened'[i] \in Database
      BY <2>1, DatabaseAssumption DEF FiguresIInv
  <2> QED
      BY <1>1, <2>1, <2>2, OtherMove DEF States
<1>3. CASE Report(i) \/ Finish(i) \/ Query(i)
  <2>1. PICK state \in {"edit", "exit0"} :
          /\ pc[i] \in {"report", "edit", "query"} /\ Become(i, state)
          /\ state = "edit" => pc[i] = "report"
          /\ UNCHANGED <<command, opened, figures, before>>
      BY <1>3 DEF Report, Finish, Query, readVars
  <2>2. opened[i] \in Database
      BY <2>1 DEF FiguresIInv, Counting
  <2> QED
      BY <1>1, <2>1, <2>2, OtherMove DEF States
<1>4. CASE QueryFails(i)
  <2>1. Become(i, "exit1") /\ UNCHANGED <<command, opened, figures, before>>
      BY <1>4 DEF QueryFails, readVars
  <2> QED
      BY <1>1, <2>1, OtherMove DEF States
<1>5. CASE PrintStatistics(i) \/ Interrupt(i)
  <2>1. PICK state \in {"exit0", "exit1"} :
          /\ Become(i, state) /\ Forget(i) /\ UNCHANGED <<command, opened>>
          /\ state = "exit1" \/ pc[i] = "count"
      BY <1>5 DEF PrintStatistics, Interrupt
  <2>2. opened[i] \in Database \/ state = "exit1"
      BY <2>1 DEF FiguresIInv, Counting
  <2> QED
      BY <1>1, <2>1, <2>2, LastMove
<1> QED
    BY <1>2, <1>3, <1>4, <1>5

\* The bounds of the figures survive every step of the system.
LEMMA FiguresStepInv ==
  ASSUME FiguresIInv, Typed, [CtlNext]_ctlVars
  PROVE  FiguresIInv'
<1>1. ASSUME NEW i \in Invocation,
             \/ OpenDatabase(i) \/ Execute(i) \/ Edit(i) \/ Report(i)
             \/ EditFails(i) \/ Finish(i)
             \/ Query(i) \/ QueryFails(i) \/ Count(i) \/ PrintStatistics(i)
             \/ Interrupt(i)
      PROVE  FiguresIInv'
    BY <1>1, EditFigures, QuietFigures, ExecuteFigures, CountFigures
<1>2. ASSUME NEW d \in Database, Record(d)
      PROVE  FiguresIInv'
  <2>1. UNCHANGED <<command, pc, opened, figures, before>>
      BY <1>2 DEF Record, readVars
  <2>2. /\ rows' \in [Database -> Tables] /\ log' \in [Database -> Seq(Connections)]
        /\ \A e \in Database : Stored(e)' /\ Grown(e)
      BY <1>2, RecordData
  <2>3. \A i \in Invocation : Counting(i)'
      BY <2>1, <2>2, StandingStill
  <2> QED
      BY <2>1, <2>2, <2>3 DEF FiguresIInv, Tables
<1>3. CASE AllExited \/ UNCHANGED ctlVars
  <2>1. UNCHANGED <<command, pc, opened, figures, before, rows, log>>
      BY <1>3 DEF AllExited, ctlVars, dataVars, readVars
  <2>2. /\ rows' \in [Database -> Tables] /\ log' \in [Database -> Seq(Connections)]
        /\ \A e \in Database : Stored(e)' /\ Grown(e)
      BY <2>1, SameData
  <2>3. \A i \in Invocation : Counting(i)'
      BY <2>1, <2>2, StandingStill
  <2> QED
      BY <2>1, <2>2, <2>3 DEF FiguresIInv, Tables
<1> QED
    BY <1>1, <1>2, <1>3 DEF CtlNext

\* The statistics are those of the run of the command, whatever is recorded meanwhile.
THEOREM FiguresAlwaysCurrent == CtlSpec => []FiguresAreCurrent
<1>1. CtlInit => FiguresIInv
    BY FiguresInitInv
<1>2. FiguresIInv /\ SshctlIInv /\ [CtlNext]_ctlVars => FiguresIInv'
    BY FiguresStepInv DEF SshctlIInv
<1>3. ASSUME FiguresIInv
      PROVE  FiguresAreCurrent
  <2>1. ASSUME NEW i \in Invocation
        PROVE  DOMAIN figures[i] = 1..Len(figures[i]) /\ Bounded(i)
      BY <1>3 DEF FiguresIInv, Counting
  <2> QED
      BY <2>1 DEF FiguresAreCurrent, Bounded
<1> QED
    BY <1>1, <1>2, <1>3, SshctlInvariance, PTL DEF CtlSpec

-----------------------------------------------------------------------------
(***************************************************************************)
(* The lists                                                               *)
(***************************************************************************)

Undone(kind, f) ==
  \E j \in Invocation : command[j].kind \in {"block", "unblock"} \ {kind} /\ f \in ArgsOf(j)

\* Whoever lists fingerprints lists them in the database in which they are edited.
OpenedDefault ==
  \A i \in Invocation :
    (pc[i] \notin {"start", "exit1"} \/ changed[i] # <<>>) => opened[i] = Default

\* An edit stands until a command does the opposite, reported or not.
EditsStand ==
  \A i \in Invocation : \A n \in 1..Len(changed[i]) :
    \/ Undone(command[i].kind, changed[i][n])
    \/ changed[i][n] \in blocked[Default] <=> command[i].kind = "block"

ListIInv == OpenedDefault /\ EditsStand

\* A step that edits nothing, and opens no other database than the default.
LEMMA ListQuiet ==
  ASSUME SshctlIInv, ListIInv, UNCHANGED <<command, changed, blocked>>,
         \A i \in Invocation : pc'[i] \notin {"start", "exit1"} =>
           \/ opened'[i] = opened[i] /\ pc[i] \notin {"start", "exit1"}
           \/ opened'[i] = Default,
         \A i \in Invocation : opened'[i] = opened[i] \/ opened'[i] = Default
  PROVE  ListIInv'
<1>1. OpenedDefault'
    BY DEF OpenedDefault, ListIInv
<1>2. EditsStand'
    BY DEF EditsStand, Undone, ArgsOf, ListIInv
<1> QED
    BY <1>1, <1>2 DEF ListIInv

\* One argument more is blocked or unblocked.
LEMMA ListEdit ==
  ASSUME SshctlIInv, ListIInv, NEW i \in Invocation, Edit(i)
  PROVE  ListIInv'
<1>1. /\ pc[i] = "edit" /\ opened[i] = Default
      /\ command[i].kind \in {"block", "unblock"}
      /\ command' = command /\ opened' = opened
    BY DEF Edit, ListIInv, OpenedDefault, SshctlIInv, Progress
<1>2. /\ Argument(i) \in ArgsOf(i)
      /\ changed[i] \in Seq(Fingerprint)
      /\ changed' = [changed EXCEPT ![i] = Append(@, Argument(i))]
      /\ changed \in [Invocation -> Seq(Fingerprint)]
      /\ Argument(i) \in Fingerprint
  <2>1. /\ Args(i) \in Seq(Fingerprint) /\ Len(said[i]) \in Nat
        /\ Len(said[i]) < Len(Args(i))
      BY ArgsType DEF Edit, SshctlIInv, Typed, Args
  <2>2. Len(said[i]) + 1 \in 1..Len(Args(i))
      BY <2>1
  <2>3. Argument(i) \in ArgsOf(i)
      BY <2>2 DEF Argument, ArgsOf, Args
  <2>4. Argument(i) \in Fingerprint
      BY <2>1, <2>2 DEF Argument, Args
  <2> QED
      BY <2>3, <2>4 DEF Edit, SshctlIInv, Typed
<1>3. blocked'[Default] = Edited(command[i].kind, blocked[Default], Argument(i))
    BY <1>1, DatabaseAssumption DEF Edit, SshctlIInv, Typed
<1>4. \A g : g # Argument(i) => (g \in blocked'[Default] <=> g \in blocked[Default])
    BY <1>3 DEF Edited
<1>5. Argument(i) \in blocked'[Default] <=> command[i].kind = "block"
    BY <1>1, <1>3 DEF Edited
<1>6. \A j \in Invocation : pc'[j] = "report" \/ pc'[j] = pc[j]
    BY DEF Edit, Become, SshctlIInv, Typed
<1>7. \A kind, g : Undone(kind, g)' <=> Undone(kind, g)
    BY <1>1 DEF Undone, ArgsOf
<1>8. OpenedDefault'
  <2>1. ASSUME NEW j \in Invocation, j # i
        PROVE  pc'[j] = pc[j] /\ changed'[j] = changed[j]
      BY <1>2, <2>1 DEF Edit, Become, SshctlIInv, Typed
  <2> QED
      BY <1>1, <2>1 DEF OpenedDefault, ListIInv
<1>9. EditsStand'
  <2> SUFFICES ASSUME NEW j \in Invocation, NEW n \in 1..Len(changed'[j]),
                      ~Undone(command[j].kind, changed'[j][n])
               PROVE  changed'[j][n] \in blocked'[Default] <=> command[j].kind = "block"
      BY <1>1, <1>7 DEF EditsStand
  <2>1. ASSUME n \in 1..Len(changed[j]), changed'[j][n] = changed[j][n]
        PROVE  changed'[j][n] \in blocked'[Default] <=> command[j].kind = "block"
    <3>1. changed[j][n] \in blocked[Default] <=> command[j].kind = "block"
        BY <2>1 DEF EditsStand, ListIInv
    <3>2. CASE changed[j][n] # Argument(i)
        BY <1>4, <2>1, <3>1, <3>2
    <3>3. CASE changed[j][n] = Argument(i)
      <4>1. command[j].kind \in {"block", "unblock"}
        <5>1. /\ Progress(j) /\ Args(j) \in Seq(Fingerprint)
              /\ changed[j] \in Seq(Fingerprint) /\ command[j] \in Commands
            BY ArgsType DEF SshctlIInv, Typed
        <5>2. Len(Args(j)) > 0
            BY <2>1, <5>1 DEF Progress, Begins
        <5>3. command[j] \notin Readings
            BY <5>2 DEF Args, Readings
        <5> QED
            BY <5>1, <5>3, ReadingAssumption DEF Commands, Editing
      <4>2. command[j].kind = command[i].kind
          BY <1>1, <1>2, <2>1, <3>3, <4>1 DEF Undone
      <4> QED
          BY <1>5, <2>1, <3>3, <4>2
    <3> QED
        BY <3>2, <3>3
  <2>2. CASE j # i
    <3>1. changed'[j] = changed[j]
        BY <1>2, <2>2
    <3> QED
        BY <2>1, <3>1
  <2>3. CASE j = i
    <3>1. changed'[j] = Append(changed[j], Argument(i)) /\ changed[j] \in Seq(Fingerprint)
        BY <1>2, <2>3
    <3>2. CASE n \in 1..Len(changed[j])
      <4>1. changed'[j][n] = changed[j][n]
          BY <1>2, <3>1, <3>2
      <4> QED
          BY <2>1, <3>2, <4>1
    <3>3. CASE n = Len(changed[j]) + 1
      <4>1. changed'[j][n] = Argument(i)
          BY <1>2, <3>1, <3>3
      <4> QED
          BY <1>5, <2>3, <4>1
    <3>4. n \in 1..Len(changed[j]) \/ n = Len(changed[j]) + 1
        BY <1>2, <3>1
    <3> QED
        BY <3>2, <3>3, <3>4
  <2> QED
      BY <2>2, <2>3
<1> QED
    BY <1>8, <1>9 DEF ListIInv

\* The invariant survives every step of the system.
LEMMA ListStepInv ==
  ASSUME SshctlIInv, ListIInv, [CtlNext]_ctlVars
  PROVE  ListIInv'
<1>1. ASSUME NEW i \in Invocation, OpenDatabase(i)
      PROVE  ListIInv'
  <2>1. /\ UNCHANGED <<command, changed, blocked>>
        /\ opened' = [opened EXCEPT ![i] = Default]
        /\ pc' = [pc EXCEPT ![i] = "execute"]
      BY <1>1 DEF OpenDatabase, Become, Lookup, dataVars
  <2> QED
      BY <2>1, ListQuiet DEF SshctlIInv, Typed, ListIInv, OpenedDefault
<1>2. ASSUME NEW i \in Invocation,
             \/ Execute(i) \/ Report(i) \/ EditFails(i) \/ Finish(i)
             \/ Query(i) \/ QueryFails(i) \/ Count(i) \/ PrintStatistics(i)
      PROVE  ListIInv'
  <2>1. /\ UNCHANGED <<command, changed, blocked, opened>>
        /\ pc[i] \notin {"start", "exit1"}
        /\ pc' = pc \/ \E state : pc' = [pc EXCEPT ![i] = state]
      BY <1>2 DEF Execute, Report, EditFails, Finish, Query, QueryFails, Count,
                  PrintStatistics, Become, dataVars
  <2> QED
      BY <2>1, ListQuiet DEF SshctlIInv, Typed
<1>3. ASSUME NEW i \in Invocation, Interrupt(i)
      PROVE  ListIInv'
  <2>1. /\ UNCHANGED <<command, changed, blocked, opened>>
        /\ pc' = [pc EXCEPT ![i] = "exit1"]
      BY <1>3 DEF Interrupt, Become, dataVars
  <2> QED
      BY <2>1, ListQuiet DEF SshctlIInv, Typed
<1>4. CASE (\E d \in Database : Record(d)) \/ AllExited \/ UNCHANGED ctlVars
  <2>1. UNCHANGED <<command, changed, blocked, opened, pc>>
      BY <1>4 DEF Record, AllExited, ctlVars, dataVars
  <2> QED
      BY <2>1, ListQuiet
<1> QED
    BY <1>1, <1>2, <1>3, <1>4, ListEdit DEF CtlNext

\* A finite set of numbers that is not empty has a greatest.
LEMMA GreatestExists ==
  ASSUME NEW T, IsFiniteSet(T), T \subseteq Nat, T # {}
  PROVE  \E x \in T : \A y \in T : y <= x
<1> DEFINE above(x) == {u \in T : u >= x}
           family == {above(x) : x \in T}
           order == StrictSubsetOrdering(T)
<1>1. IsWellFoundedOn(order, SUBSET T)
    BY FS_StrictSubsetOrderingWellFounded, FS_FiniteSubsetsOfFinite
<1>2. family \subseteq SUBSET T /\ family # {}
    OBVIOUS
<1>3. PICK F \in family : \A G \in family : ~(<<G, F>> \in order)
  <2> HIDE DEF family, order
  <2> QED
      BY <1>1, <1>2, WFMin
<1>4. PICK x \in T : F = above(x)
    OBVIOUS
<1>5. ASSUME NEW y \in T, y > x
      PROVE  FALSE
  <2>1. above(y) \in family /\ above(y) \subseteq above(x)
    <3>1. above(y) \in family
        OBVIOUS
    <3>2. \A u \in T : u >= y => u >= x
        BY <1>5
    <3> QED
        BY <3>1, <3>2
  <2>2. x \in above(x) /\ x \notin above(y)
      BY <1>5
  <2>3. <<above(y), above(x)>> \in order
      BY <2>1, <2>2 DEF StrictSubsetOrdering
  <2> QED
      BY <1>3, <1>4, <2>1, <2>3
<1> QED
    BY <1>5

\* The rows read are a function of the invocation.
Listed == listed = [i \in Invocation |-> listed[i]]

\* A query changes the rows of its invocation.
LEMMA ListedStep ==
  ASSUME Listed, [CtlNext]_ctlVars
  PROVE  Listed'
<1>1. ASSUME NEW i \in Invocation, NEW rowsRead, listed' = [listed EXCEPT ![i] = rowsRead]
      PROVE  Listed'
    BY <1>1 DEF Listed
<1>2. CASE \E i \in Invocation : Query(i)
    BY <1>1, <1>2 DEF Query
<1>3. CASE listed' = listed
    BY <1>3 DEF Listed
<1>4. listed' = listed \/ \E i \in Invocation : Query(i)
    BY DEF CtlNext, OpenDatabase, Execute, Edit, Report, EditFails, Finish, QueryFails, Count,
           PrintStatistics, Interrupt, Record, AllExited, ctlVars, readVars
<1> QED
    BY <1>2, <1>3, <1>4

\* Each connection belongs to a group that is listed under its latest connection.
LEMMA GroupIsListed ==
  ASSUME NEW connections \in Seq(Connections), NEW n \in DOMAIN connections
  PROVE  \E m \in Latest(connections, DOMAIN connections) :
           connections[m].fp = connections[n].fp
<1> DEFINE group == {j \in DOMAIN connections : SameGroup(connections[n], connections[j])}
<1>1. group \subseteq 1..Len(connections) /\ Len(connections) \in Nat /\ n \in group
    BY DEF SameGroup
<1>2. IsFiniteSet(group)
    BY <1>1, FS_Interval, FS_Subset
<1>3. PICK m \in group : \A j \in group : j <= m
  <2>1. group \subseteq Nat /\ group # {}
      BY <1>1
  <2> HIDE DEF group
  <2> QED
      BY <1>2, <2>1, GreatestExists
<1>4. m \in Latest(connections, DOMAIN connections)
    BY <1>3 DEF Latest, SameGroup
<1> QED
    BY <1>3, <1>4 DEF SameGroup

\* A list below its limit holds all it could.
LEMMA ListIsWhole ==
  ASSUME NEW ids, IsFiniteSet(ids), NEW byTime, NEW reverse,
         NEW found \in Ordered(ids, byTime, reverse)
  PROVE  /\ Len(found) \in Nat /\ DOMAIN found = 1..Len(found)
         /\ \A n \in 1..Len(found) : found[n] \in ids
         /\ \/ \A m \in ids : \E n \in 1..Len(found) : found[n] = m
            \/ Limit # 0 /\ Len(found) = Limit
<1> DEFINE size == Cardinality(ids)
           shown == IF Limit = 0 \/ size <= Limit THEN size ELSE Limit
<1>1. size \in Nat /\ shown \in Nat
    BY FS_CardinalityType, LimitAssumption
<1>2. found \in [1..shown -> ids] /\ IsInjective(found)
    BY DEF Ordered
<1>3. Len(found) = shown /\ DOMAIN found = 1..shown
    BY <1>1, <1>2
<1>4. CASE shown = size
  <2>1. Cardinality(1..shown) = size
    <3> HIDE DEF shown, size
    <3>1. Cardinality(1..shown) = IF 1 > shown THEN 0 ELSE shown - 1 + 1
        BY <1>1, FS_Interval
    <3> QED
        BY <1>1, <1>4, <3>1
  <2>2. found \in Injection(1..shown, ids)
      BY <1>2 DEF Injection, IsInjective
  <2>3. found \in Surjection(1..shown, ids)
      BY <2>1, <2>2, FS_Injection
  <2> QED
      BY <1>1, <1>2, <1>3, <2>3 DEF Surjection
<1>5. CASE shown # size
    BY <1>1, <1>2, <1>3, <1>5
<1> QED
    BY <1>4, <1>5

\* A list of fingerprints made after an edit was reported shows it.
LEMMA QueryShowsEdits ==
  ASSUME SshctlIInv, FiguresIInv, ListIInv, Listed, NEW i \in Invocation,
         NEW f \in Fingerprint,
         NEW kind \in {"block", "unblock"}, Query(i), command[i].kind = "list",
         Settled(kind, f)
  PROVE  /\ \A row \in ToSet(listed'[i]) : row.fp = f => row.blocked = (kind = "block")
         /\ Passes(command[i].state, kind = "block") =>
              \/ \E row \in ToSet(listed'[i]) : row.fp = f
              \/ \A n \in DOMAIN log[opened[i]] : log[opened[i]][n].fp # f
              \/ Limit # 0 /\ Len(listed'[i]) = Limit
<1> DEFINE d == opened[i]
           blk == blocked[d]
           lines == log[d]
           ids == {n \in Latest(lines, DOMAIN lines) :
                     Passes(command[i].state, lines[n].fp \in blk)}
<1>1. d = Default /\ lines \in Seq(Connections)
    BY DatabaseAssumption DEF Query, ListIInv, OpenedDefault, FiguresIInv
<1>2. f \in blk <=> kind = "block"
  <2>1. PICK j \in Invocation : command[j].kind = kind /\ f \in Reported(j)
      BY DEF Settled
  <2>2. PICK n \in 1..Len(said[j]) : f = said[j][n]
      BY <2>1 DEF Reported
  <2>3. n \in 1..Len(changed[j]) /\ f = changed[j][n]
    <3>1. Begins(said[j], changed[j]) /\ Len(changed[j]) \in Nat /\ Len(said[j]) \in Nat
        BY DEF SshctlIInv, Typed, Progress
    <3> QED
        BY <2>2, <3>1 DEF Begins
  <2>4. ~Undone(kind, f)
      BY DEF Settled, Undone
  <2> QED
      BY <1>1, <2>1, <2>3, <2>4 DEF ListIInv, EditsStand
<1>3. IsFiniteSet(ids)
  <2>1. ids \subseteq 1..Len(lines) /\ Len(lines) \in Nat
      BY <1>1 DEF Latest
  <2> HIDE DEF ids
  <2>2. IsFiniteSet(1..Len(lines))
      BY <2>1, FS_Interval
  <2> QED
      BY <2>1, <2>2, FS_Subset
<1>4. PICK found \in Ordered(ids, command[i].byTime, command[i].reverse) :
        listed'[i] = [n \in DOMAIN found |-> Summary(lines, blk, found[n])]
  <2>1. PICK answer \in Answers(command[i], lines, blk) :
          listed' = [listed EXCEPT ![i] = answer]
      BY DEF Query
  <2>2. listed'[i] = answer
      BY <2>1 DEF Listed
  <2> QED
      BY <2>1, <2>2 DEF Answers
<1> HIDE DEF ids
<1>5. /\ Len(found) \in Nat /\ DOMAIN found = 1..Len(found)
      /\ \A n \in 1..Len(found) : found[n] \in ids
      /\ \/ \A m \in ids : \E n \in 1..Len(found) : found[n] = m
         \/ Limit # 0 /\ Len(found) = Limit
    BY <1>3, ListIsWhole
<1>6. /\ ToSet(listed'[i]) = {Summary(lines, blk, found[n]) : n \in 1..Len(found)}
      /\ Len(listed'[i]) = Len(found)
    BY <1>4, <1>5 DEF ToSet
<1>7. \A row \in ToSet(listed'[i]) : row.fp = f => row.blocked = (kind = "block")
    BY <1>2, <1>6 DEF Summary
<1>8. ASSUME Passes(command[i].state, kind = "block"), NEW n \in DOMAIN lines, lines[n].fp = f,
             \A m \in ids : \E k \in 1..Len(found) : found[k] = m
      PROVE  \E row \in ToSet(listed'[i]) : row.fp = f
  <2>1. PICK m \in Latest(lines, DOMAIN lines) : lines[m].fp = f
      BY <1>1, <1>8, GroupIsListed
  <2>2. m \in ids
      BY <1>2, <1>8, <2>1 DEF ids, Passes
  <2>3. PICK k \in 1..Len(found) : found[k] = m
      BY <1>8, <2>2
  <2>4. Summary(lines, blk, found[k]).fp = f
      BY <2>1, <2>3 DEF Summary
  <2> QED
      BY <1>6, <2>4
<1> QED
    BY <1>5, <1>6, <1>7, <1>8

\* Whoever lists the fingerprints after an edit was reported sees it, for any number of
\* operators and any traffic.
THEOREM ListsAlwaysShowEdits == CtlSpec => ListShowsEdits
<1> DEFINE Shows(i, f, kind) ==
      command[i].kind = "list" /\ pc[i] = "query" /\ pc'[i] = "exit0" /\ Settled(kind, f) =>
        /\ \A row \in ToSet(listed'[i]) : row.fp = f => row.blocked = (kind = "block")
        /\ Passes(command[i].state, kind = "block") =>
             \/ \E row \in ToSet(listed'[i]) : row.fp = f
             \/ \A n \in DOMAIN log[opened[i]] : log[opened[i]][n].fp # f
             \/ Limit # 0 /\ Len(listed'[i]) = Limit
<1>1. CtlInit => ListIInv /\ Listed /\ FiguresIInv
    BY FiguresInitInv DEF CtlInit, ListIInv, OpenedDefault, EditsStand, Listed
<1>2. SshctlIInv /\ FiguresIInv /\ [CtlNext]_ctlVars => FiguresIInv'
    BY FiguresStepInv DEF SshctlIInv
<1>3. SshctlIInv /\ ListIInv /\ Listed /\ [CtlNext]_ctlVars => ListIInv' /\ Listed'
    BY ListStepInv, ListedStep
<1>4. ASSUME SshctlIInv, FiguresIInv, ListIInv, Listed, [CtlNext]_ctlVars
      PROVE  [\A i \in Invocation, f \in Fingerprint, kind \in {"block", "unblock"} :
                Shows(i, f, kind)]_ctlVars
  <2> SUFFICES ASSUME NEW i \in Invocation, NEW f \in Fingerprint,
                      NEW kind \in {"block", "unblock"}, CtlNext,
                      command[i].kind = "list", pc[i] = "query", pc'[i] = "exit0",
                      Settled(kind, f)
               PROVE  Query(i)
    <3> HIDE DEF ListIInv, FiguresIInv, SshctlIInv
    <3> QED
        BY <1>4, QueryShowsEdits
  <2>1. ASSUME NEW j \in Invocation, j # i,
               \/ OpenDatabase(j) \/ Execute(j) \/ Edit(j) \/ Report(j)
               \/ EditFails(j) \/ Finish(j)
               \/ Query(j) \/ QueryFails(j) \/ Count(j) \/ PrintStatistics(j)
               \/ Interrupt(j)
        PROVE  FALSE
    <3>1. pc' = pc \/ \E state : pc' = [pc EXCEPT ![j] = state]
        BY <2>1 DEF OpenDatabase, Execute, Edit, Report, EditFails, Finish, Query, QueryFails,
                    Count, PrintStatistics, Interrupt, Become
    <3>2. pc'[i] = pc[i]
        BY <1>4, <2>1, <3>1 DEF SshctlIInv, Typed
    <3> QED
        BY <3>2
  <2>2. ~(\E e \in Database : Record(e)) /\ ~AllExited
      BY DEF Record, AllExited, ctlVars
  <2>3. \/ OpenDatabase(i) \/ Execute(i) \/ Edit(i) \/ Report(i)
        \/ EditFails(i) \/ Finish(i)
        \/ Query(i) \/ QueryFails(i) \/ Count(i) \/ PrintStatistics(i)
        \/ Interrupt(i)
      BY <2>1, <2>2 DEF CtlNext
  <2>4. ~QueryFails(i) /\ ~Interrupt(i)
      BY <1>4 DEF QueryFails, Interrupt, Become, SshctlIInv, Typed
  <2> QED
      BY <2>3, <2>4 DEF OpenDatabase, Execute, Edit, Report, EditFails, Finish, Count,
                        PrintStatistics
<1> QED
    BY <1>1, <1>2, <1>3, <1>4, SshctlInvariance, PTL DEF CtlSpec, ListShowsEdits
=============================================================================
