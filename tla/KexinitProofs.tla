---------------------------- MODULE KexinitProofs ---------------------------
(***************************************************************************)
(* Proofs about module Kexinit. What a recursive function computes is      *)
(* shown by induction over a set: that of the numbers, or the sequences,   *)
(* of which the claim holds.                                               *)
(***************************************************************************)
EXTENDS Kexinit, SequenceTheorems, WellFoundedInduction, TLAPS

-----------------------------------------------------------------------------
(***************************************************************************)
(* Induction                                                               *)
(***************************************************************************)

\* Every set of numbers has a least one.
LEMMA Least ==
  ASSUME NEW S \in SUBSET Nat, S # {}
  PROVE  \E m \in S : \A n \in S : m <= n
<1>1. PICK m \in S : \A n \in S : <<n, m>> \notin OpToRel(<, Nat)
  BY WFMin, NatLessThanWellFounded, Zenon
<1>2. \A n \in S : ~(n < m)
  BY <1>1 DEF OpToRel
<1> QED
  BY <1>2

\* A set with 0 and the successor of each of its numbers holds them all.
LEMMA NumberInduction ==
  ASSUME NEW S, 0 \in S, \A n \in Nat : n \in S => n + 1 \in S
  PROVE  \A n \in Nat : n \in S
<1> DEFINE others == {n \in Nat : n \notin S}
<1> SUFFICES ASSUME others # {}
             PROVE  FALSE
  OBVIOUS
<1>1. PICK m \in others : \A n \in others : m <= n
  BY Least
<1>2. m # 0 /\ m - 1 \in Nat
  BY <1>1
<1>3. m - 1 \in S
  BY <1>1, <1>2
<1> QED
  BY <1>1, <1>2, <1>3

\* A set of sequences with the empty one and all that are one longer than one of it.
LEMMA AppendInduction ==
  ASSUME NEW T, NEW P, <<>> \in P,
         \A s \in Seq(T) : s \in P => \A x \in T : Append(s, x) \in P
  PROVE  \A s \in Seq(T) : s \in P
<1> DEFINE ofLength == {n \in Nat : \A s \in Seq(T) : Len(s) = n => s \in P}
<1>1. 0 \in ofLength
  <2>1. \A s \in Seq(T) : Len(s) = 0 => s = <<>>
    BY EmptySeq
  <2> QED
    BY <2>1
<1>2. ASSUME NEW n \in Nat, n \in ofLength
      PROVE  n + 1 \in ofLength
  <2> SUFFICES ASSUME NEW s \in Seq(T), Len(s) = n + 1
               PROVE  s \in P
    OBVIOUS
  <2>1. PICK front \in Seq(T), last \in T : s = Append(front, last)
    <3>1. s # <<>>
      BY EmptySeq
    <3> QED
      BY <3>1, SequenceEmptyOrAppend
  <2>2. Len(front) = n
    BY <2>1, AppendProperties
  <2> QED
    BY <1>2, <2>1, <2>2
<1>3. \A n \in Nat : n \in ofLength
  <2> HIDE DEF ofLength
  <2> QED
    BY <1>1, <1>2, NumberInduction
<1> QED
  BY <1>3, LenProperties

-----------------------------------------------------------------------------
(***************************************************************************)
(* FlattenSeq                                                              *)
(***************************************************************************)

\* The values of the recursive function in FlattenSeq.
Flattening(f, ss) ==
  f = [i \in 1..Len(ss) |-> IF i = 1 THEN ss[i] ELSE f[i - 1] \o ss[i]]

\* A longer recursion does what the shorter one does and then one thing more.
LEMMA FlatteningExtends ==
  ASSUME NEW S, NEW ss \in Seq(Seq(S)), NEW x \in Seq(S),
         NEW f, Flattening(f, ss)
  PROVE  \E g : Flattening(g, Append(ss, x))
<1> DEFINE long == Append(ss, x)
           g == [i \in 1..Len(long) |->
                   IF i <= Len(ss) THEN f[i] ELSE IF i = 1 THEN x ELSE f[i - 1] \o x]
<1>1. /\ Len(ss) \in Nat /\ Len(long) = Len(ss) + 1
      /\ \A i \in 1..Len(ss) : long[i] = ss[i]
      /\ long[Len(ss) + 1] = x
  BY AppendProperties, LenProperties
<1> HIDE DEF long
<1>2. \A i \in 1..Len(ss) : f[i] = IF i = 1 THEN ss[i] ELSE f[i - 1] \o ss[i]
  BY DEF Flattening
<1>3. /\ g = [i \in 1..Len(long) |-> g[i]]
      /\ \A i \in 1..Len(long) :
           g[i] = IF i <= Len(ss) THEN f[i] ELSE IF i = 1 THEN x ELSE f[i - 1] \o x
  OBVIOUS
<1> HIDE DEF g
<1>4. ASSUME NEW i \in 1..Len(long)
      PROVE  g[i] = IF i = 1 THEN long[i] ELSE g[i - 1] \o long[i]
  <2>1. i \in Nat /\ i > 0 /\ i <= Len(ss) + 1
    BY <1>1
  <2>2. i # 1 => i - 1 \in 1..Len(ss) /\ i - 1 \in 1..Len(long)
    BY <1>1, <2>1
  <2>3. i # 1 => g[i - 1] = f[i - 1]
    BY <1>3, <2>2
  <2>4. CASE i <= Len(ss)
    <3>1. i \in 1..Len(ss)
      BY <1>1, <2>1, <2>4
    <3>2. g[i] = f[i] /\ long[i] = ss[i]
      BY <1>1, <1>3, <2>4, <3>1
    <3> QED
      BY <1>2, <2>3, <3>1, <3>2
  <2>5. CASE i = Len(ss) + 1
    <3>1. long[i] = x /\ ~(i <= Len(ss))
      BY <1>1, <2>5
    <3>2. g[i] = IF i = 1 THEN x ELSE f[i - 1] \o x
      BY <1>3, <3>1
    <3> QED
      BY <2>3, <3>1, <3>2
  <2> QED
    BY <1>1, <2>1, <2>4, <2>5
<1>5. Flattening(g, long)
  BY <1>3, <1>4 DEF Flattening
<1> QED
  BY <1>5 DEF long

\* The function exists.
LEMMA FlatteningExists ==
  ASSUME NEW S
  PROVE  \A ss \in Seq(Seq(S)) : \E f : Flattening(f, ss)
<1> DEFINE P == {ss \in Seq(Seq(S)) : \E f : Flattening(f, ss)}
<1>1. <<>> \in P
  <2>1. Flattening(<<>>, <<>>)
    BY DEF Flattening
  <2> QED
    BY <2>1, EmptySeq
<1>2. ASSUME NEW ss \in Seq(Seq(S)), ss \in P, NEW x \in Seq(S)
      PROVE  Append(ss, x) \in P
  BY <1>2, FlatteningExtends, AppendProperties
<1> HIDE DEF P
<1>3. \A ss \in Seq(Seq(S)) : ss \in P
  BY <1>1, <1>2, AppendInduction
<1> QED
  BY <1>3 DEF P

\* So FlattenSeq is the last value of such a function.
LEMMA FlattenIsLast ==
  ASSUME NEW S, NEW ss \in Seq(Seq(S)), Len(ss) # 0
  PROVE  \E f : Flattening(f, ss) /\ FlattenSeq(ss) = f[Len(ss)]
<1> DEFINE f == CHOOSE f : f = [i \in 1..Len(ss) |-> IF i = 1 THEN ss[i] ELSE f[i - 1] \o ss[i]]
<1>1. Flattening(f, ss)
  <2>1. \E g : g = [i \in 1..Len(ss) |-> IF i = 1 THEN ss[i] ELSE g[i - 1] \o ss[i]]
    BY FlatteningExists DEF Flattening
  <2> QED
    BY <2>1 DEF Flattening
<1>2. FlattenSeq(ss) = f[Len(ss)]
  BY DEF FlattenSeq
<1> QED
  BY <1>1, <1>2

\* The functions of a sequence and of a longer one agree.
LEMMA FlatteningsAgree ==
  ASSUME NEW S, NEW ss \in Seq(Seq(S)), NEW x \in Seq(S),
         NEW f, Flattening(f, ss), NEW g, Flattening(g, Append(ss, x))
  PROVE  \A i \in Nat : i \in 1..Len(ss) => f[i] = g[i] /\ f[i] \in Seq(S)
<1> DEFINE long == Append(ss, x)
           P == {i \in Nat : i \in 1..Len(ss) => f[i] = g[i] /\ f[i] \in Seq(S)}
<1>1. /\ Len(ss) \in Nat /\ Len(long) = Len(ss) + 1
      /\ \A i \in 1..Len(ss) : long[i] = ss[i] /\ ss[i] \in Seq(S)
  BY AppendProperties, LenProperties, ElementOfSeq
<1>2. \A i \in 1..Len(ss) : f[i] = IF i = 1 THEN ss[i] ELSE f[i - 1] \o ss[i]
  BY DEF Flattening
<1>3. \A i \in 1..Len(long) : g[i] = IF i = 1 THEN long[i] ELSE g[i - 1] \o long[i]
  BY DEF Flattening
<1>4. 0 \in P
  OBVIOUS
<1>5. ASSUME NEW i \in Nat, i \in P
      PROVE  i + 1 \in P
  <2> SUFFICES ASSUME i + 1 \in 1..Len(ss)
               PROVE  f[i + 1] = g[i + 1] /\ f[i + 1] \in Seq(S)
    OBVIOUS
  <2> HIDE DEF long
  <2>1. CASE i = 0
    <3>1. f[1] = ss[1] /\ g[1] = long[1] /\ long[1] = ss[1] /\ ss[1] \in Seq(S)
      BY <1>1, <1>2, <1>3, <2>1
    <3> QED
      BY <2>1, <3>1
  <2>2. CASE i # 0
    <3>1. f[i] = g[i] /\ f[i] \in Seq(S)
      BY <1>5, <2>2
    <3>2. f[i + 1] = f[i] \o ss[i + 1] /\ g[i + 1] = g[i] \o long[i + 1]
      <4>1. i + 1 \in 1..Len(long) /\ i + 1 # 1 /\ (i + 1) - 1 = i
        BY <1>1, <2>2
      <4>2. f[i + 1] = f[(i + 1) - 1] \o ss[i + 1]
        BY <1>2, <4>1
      <4>3. g[i + 1] = g[(i + 1) - 1] \o long[i + 1]
        BY <1>3, <4>1
      <4> QED
        BY <4>1, <4>2, <4>3
    <3>3. long[i + 1] = ss[i + 1] /\ ss[i + 1] \in Seq(S)
      BY <1>1
    <3> QED
      BY <3>1, <3>2, <3>3, ConcatProperties
  <2> QED
    BY <2>1, <2>2
<1> HIDE DEF P
<1>6. \A i \in Nat : i \in P
  BY <1>4, <1>5, NumberInduction
<1> QED
  BY <1>6 DEF P

\* What FlattenSeq does to a sequence and to one more.
LEMMA FlattenEmpty == FlattenSeq(<<>>) = <<>>
<1>1. Len(<<>>) = 0
  OBVIOUS
<1> QED
  BY <1>1 DEF FlattenSeq

\* Appending a sequence to those that are flattened appends it to the result.
LEMMA FlattenAppend ==
  ASSUME NEW S, NEW ss \in Seq(Seq(S)), NEW x \in Seq(S)
  PROVE  FlattenSeq(Append(ss, x)) = FlattenSeq(ss) \o x
<1> DEFINE long == Append(ss, x)
           last == Len(ss) + 1
<1>1. /\ Len(ss) \in Nat /\ Len(long) = last /\ long[last] = x /\ long \in Seq(Seq(S))
  BY AppendProperties, LenProperties
<1> HIDE DEF long
<1>2. PICK g : Flattening(g, long) /\ FlattenSeq(long) = g[last]
  <2>1. Len(long) # 0
    BY <1>1
  <2>2. \E g : Flattening(g, long) /\ FlattenSeq(long) = g[Len(long)]
    BY <1>1, <2>1, FlattenIsLast
  <2> QED
    BY <1>1, <2>2
<1>3. g[last] = IF last = 1 THEN long[last] ELSE g[last - 1] \o long[last]
  <2>1. last \in 1..Len(long)
    BY <1>1
  <2>2. \A i \in 1..Len(long) : g[i] = IF i = 1 THEN long[i] ELSE g[i - 1] \o long[i]
    BY <1>2 DEF Flattening
  <2> QED
    BY <2>1, <2>2
<1>4. CASE Len(ss) = 0
  <2>1. ss = <<>>
    BY <1>4, EmptySeq
  <2> QED
    BY <1>1, <1>2, <1>3, <1>4, <2>1, FlattenEmpty, ConcatEmptySeq DEF long
<1>5. CASE Len(ss) # 0
  <2>1. PICK f : Flattening(f, ss) /\ FlattenSeq(ss) = f[Len(ss)]
    BY <1>5, FlattenIsLast
  <2>2. f[Len(ss)] = g[Len(ss)]
    BY <1>1, <1>2, <1>5, <2>1, FlatteningsAgree DEF long
  <2>3. last # 1 /\ last - 1 = Len(ss)
    BY <1>1, <1>5
  <2>4. g[last] = g[Len(ss)] \o x
    BY <1>1, <1>3, <2>3
  <2> QED
    BY <1>2, <2>1, <2>2, <2>4 DEF long
<1> QED
  BY <1>4, <1>5

\* It joins sequences of one kind to a sequence of that kind.
LEMMA FlattenType ==
  ASSUME NEW S
  PROVE  \A ss \in Seq(Seq(S)) : FlattenSeq(ss) \in Seq(S)
<1> DEFINE P == {ss \in Seq(Seq(S)) : FlattenSeq(ss) \in Seq(S)}
<1>1. <<>> \in P
  BY FlattenEmpty, EmptySeq
<1>2. ASSUME NEW ss \in Seq(Seq(S)), ss \in P, NEW x \in Seq(S)
      PROVE  Append(ss, x) \in P
  BY <1>2, FlattenAppend, AppendProperties, ConcatProperties
<1> HIDE DEF P
<1>3. \A ss \in Seq(Seq(S)) : ss \in P
  BY <1>1, <1>2, AppendInduction
<1> QED
  BY <1>3 DEF P

\* The first k of a sequence of sequences.
First(ss, k) == SubSeq(ss, 1, k)

\* None of the members of a sequence make the empty one.
LEMMA FirstNone ==
  ASSUME NEW T, NEW ss \in Seq(T)
  PROVE  First(ss, 0) = <<>>
  BY SubSeqEmpty DEF First

\* The first members of a sequence, as many as it has, are all of it.
LEMMA FirstAll ==
  ASSUME NEW T, NEW ss \in Seq(T)
  PROVE  First(ss, Len(ss)) = ss
  BY SubSeqFull DEF First

\* One member more of the first ones is the next member.
LEMMA FirstNext ==
  ASSUME NEW T, NEW ss \in Seq(T), NEW k \in 0..(Len(ss) - 1)
  PROVE  /\ First(ss, k) \in Seq(T)
         /\ First(ss, k + 1) = Append(First(ss, k), ss[k + 1])
         /\ ss[k + 1] \in T
<1>1. Len(ss) \in Nat /\ k + 1 \in 1..Len(ss)
  BY LenProperties
<1>2. ss[k + 1] \in T
  BY <1>1, ElementOfSeq
<1>3. \A n \in 0..Len(ss) :
        /\ First(ss, n) \in Seq(T) /\ Len(First(ss, n)) = n
        /\ \A i \in 1..n : First(ss, n)[i] = ss[i]
  BY <1>1 DEF First
<1>4. k \in 0..Len(ss) /\ k + 1 \in 0..Len(ss)
  BY <1>1
<1>5. /\ Append(First(ss, k), ss[k + 1]) \in Seq(T)
      /\ Len(Append(First(ss, k), ss[k + 1])) = k + 1
  BY <1>2, <1>3, <1>4, AppendProperties
<1>6. \A i \in 1..(k + 1) : First(ss, k + 1)[i] = Append(First(ss, k), ss[k + 1])[i]
  BY <1>2, <1>3, <1>4, AppendProperties
<1> QED
  BY <1>2, <1>3, <1>4, <1>5, <1>6, SeqEqual

\* Whatever comes later, the first k are joined to the beginning of the whole.
LEMMA FlattenBegins ==
  ASSUME NEW S
  PROVE  \A ss \in Seq(Seq(S)) : \A k \in 0..Len(ss) :
           \E rest \in Seq(S) : FlattenSeq(ss) = FlattenSeq(First(ss, k)) \o rest
<1> DEFINE Begins(ss) == \A k \in 0..Len(ss) :
             \E rest \in Seq(S) : FlattenSeq(ss) = FlattenSeq(First(ss, k)) \o rest
           P == {ss \in Seq(Seq(S)) : Begins(ss)}
<1>1. ASSUME NEW ss \in Seq(Seq(S))
      PROVE  \E rest \in Seq(S) : FlattenSeq(ss) = FlattenSeq(First(ss, Len(ss))) \o rest
  <2>1. First(ss, Len(ss)) = ss /\ FlattenSeq(ss) \in Seq(S)
    BY FirstAll, FlattenType
  <2>2. FlattenSeq(ss) \o <<>> = FlattenSeq(ss) /\ <<>> \in Seq(S)
    BY <2>1, ConcatEmptySeq, EmptySeq
  <2> QED
    BY <2>1, <2>2
<1>2. <<>> \in P
  <2>1. <<>> \in Seq(Seq(S)) /\ \A k \in 0..Len(<<>>) : k = Len(<<>>)
    BY EmptySeq
  <2> QED
    BY <1>1, <2>1
<1>3. ASSUME NEW ss \in Seq(Seq(S)), ss \in P, NEW x \in Seq(S)
      PROVE  Append(ss, x) \in P
  <2>1. Append(ss, x) \in Seq(Seq(S)) /\ Len(Append(ss, x)) = Len(ss) + 1 /\ Len(ss) \in Nat
    BY AppendProperties, LenProperties
  <2>2. ASSUME NEW k \in 0..Len(Append(ss, x))
        PROVE  \E rest \in Seq(S) :
                 FlattenSeq(Append(ss, x)) = FlattenSeq(First(Append(ss, x), k)) \o rest
    <3>1. CASE k = Len(ss) + 1
      BY <1>1, <2>1, <3>1
    <3>2. CASE k # Len(ss) + 1
      <4>1. k \in 0..Len(ss)
        BY <2>1, <3>2
      <4>2. PICK rest \in Seq(S) : FlattenSeq(ss) = FlattenSeq(First(ss, k)) \o rest
        BY <1>3, <4>1
      <4>3. First(Append(ss, x), k) = First(ss, k) /\ First(ss, k) \in Seq(Seq(S))
        BY <2>1, <4>1 DEF First
      <4>4. FlattenSeq(Append(ss, x)) = FlattenSeq(First(ss, k)) \o (rest \o x)
        <5>1. FlattenSeq(Append(ss, x)) = (FlattenSeq(First(ss, k)) \o rest) \o x
          BY <4>2, FlattenAppend
        <5>2. FlattenSeq(First(ss, k)) \in Seq(S)
          BY <4>3, FlattenType
        <5> QED
          BY <5>1, <5>2, ConcatAssociative
      <4>5. rest \o x \in Seq(S)
        BY ConcatProperties
      <4> QED
        BY <4>3, <4>4, <4>5
    <3> QED
      BY <3>1, <3>2
  <2> QED
    BY <2>1, <2>2
<1> HIDE DEF P
<1>4. \A ss \in Seq(Seq(S)) : ss \in P
  BY <1>2, <1>3, AppendInduction
<1> QED
  BY <1>4 DEF P

-----------------------------------------------------------------------------
(***************************************************************************)
(* Join                                                                    *)
(***************************************************************************)

Text == Seq(Nat)

Free(text, byte) == \A i \in 1..Len(text) : text[i] # byte
FreeNames(names, byte) == \A n \in 1..Len(names) : Free(names[n], byte)

\* What a name adds to the text of those before it.
Joint(names, name) == IF names = <<>> THEN name ELSE <<Comma>> \o name

\* What a name adds to a joined list is a text.
LEMMA JointType ==
  ASSUME NEW names, NEW name \in Text
  PROVE  Joint(names, name) \in Text
<1>1. <<Comma>> \in Text
  BY DEF Comma, Text
<1> QED
  BY <1>1, ConcatProperties DEF Joint, Text

\* Joining no names, and one name more.
LEMMA JoinEmpty == Join(<<>>) = <<>>
<1>1. [n \in DOMAIN <<>> |-> IF n = 1 THEN <<>>[n] ELSE <<Comma>> \o <<>>[n]] = <<>>
  OBVIOUS
<1> QED
  BY <1>1, FlattenEmpty DEF Join

\* One name more: the comma, unless it is the first, and the name.
LEMMA JoinAppend ==
  ASSUME NEW names \in Seq(Text), NEW name \in Text
  PROVE  Join(Append(names, name)) = Join(names) \o Joint(names, name)
<1> DEFINE long == Append(names, name)
           Texts(list) == [n \in 1..Len(list) |-> Joint(First(list, n - 1), list[n])]
<1>1. ASSUME NEW list \in Seq(Text)
      PROVE  /\ Texts(list) \in Seq(Text) /\ Len(Texts(list)) = Len(list)
             /\ Join(list) = FlattenSeq(Texts(list))
  <2>1. Len(list) \in Nat /\ \A n \in 1..Len(list) : list[n] \in Text
    BY LenProperties, ElementOfSeq
  <2>2. \A n \in 1..Len(list) : First(list, n - 1) = <<>> <=> n = 1
    <3> TAKE n \in 1..Len(list)
    <3>1. n - 1 \in 0..Len(list) /\ First(list, n - 1) \in Seq(Text)
          /\ Len(First(list, n - 1)) = n - 1
      BY <2>1 DEF First
    <3> QED
      BY <2>1, <3>1, EmptySeq
  <2>3. \A n \in 1..Len(list) : Joint(First(list, n - 1), list[n]) \in Text
    BY <2>1, JointType
  <2>4. Texts(list) = [n \in DOMAIN list |-> IF n = 1 THEN list[n] ELSE <<Comma>> \o list[n]]
    BY <2>1, <2>2 DEF Joint
  <2>5. Texts(list) \in Seq(Text) /\ Len(Texts(list)) = Len(list)
    BY <2>1, <2>3
  <2> QED
    BY <2>4, <2>5 DEF Join
<1>2. /\ Len(names) \in Nat /\ Len(long) = Len(names) + 1 /\ long \in Seq(Text)
      /\ long[Len(names) + 1] = name
      /\ \A n \in 1..Len(names) : long[n] = names[n]
  BY AppendProperties, LenProperties
<1>3. \A k \in 0..Len(names) : First(long, k) = First(names, k)
  BY <1>2 DEF First
<1>4. First(names, Len(names)) = names
  BY FirstAll
<1>5. Texts(long) = Append(Texts(names), Joint(names, name))
  <2> DEFINE left == Texts(long)
             right == Append(Texts(names), Joint(names, name))
  <2>1. right \in Seq(Text) /\ left \in Seq(Text) /\ Len(left) = Len(right)
    BY <1>1, <1>2, JointType, AppendProperties
  <2>2. ASSUME NEW n \in 1..Len(left)
        PROVE  left[n] = right[n]
    <3>1. n \in 1..(Len(names) + 1) /\ left[n] = Joint(First(long, n - 1), long[n])
      BY <1>1, <1>2
    <3>2. CASE n = Len(names) + 1
      <4>1. right[n] = Joint(names, name)
        BY <1>1, <3>2, JointType, AppendProperties
      <4>2. n - 1 = Len(names) /\ long[n] = name
        BY <1>2, <3>2
      <4>3. First(long, n - 1) = names
        BY <1>2, <1>3, <1>4, <4>2
      <4> QED
        BY <3>1, <4>1, <4>2, <4>3
    <3>3. CASE n # Len(names) + 1
      <4>1. n \in 1..Len(names) /\ n - 1 \in 0..Len(names)
        BY <1>2, <3>1, <3>3
      <4>2. right[n] = Joint(First(names, n - 1), names[n])
        BY <1>1, <4>1, JointType, AppendProperties
      <4> QED
        BY <1>2, <1>3, <3>1, <4>1, <4>2
    <3> QED
      BY <3>2, <3>3
  <2> HIDE DEF left, right
  <2>3. left = right
    BY <2>1, <2>2, SeqEqual
  <2> QED
    BY <2>3 DEF left, right
<1> HIDE DEF Texts, long
<1>6. FlattenSeq(Texts(long)) = FlattenSeq(Texts(names)) \o Joint(names, name)
  BY <1>1, <1>5, JointType, FlattenAppend DEF Text
<1> QED
  BY <1>1, <1>2, <1>6 DEF long

\* Joined names are a text.
LEMMA JoinType ==
  ASSUME NEW names \in Seq(Text)
  PROVE  Join(names) \in Text
<1> DEFINE P == {list \in Seq(Text) : Join(list) \in Text}
<1>1. <<>> \in P
  BY JoinEmpty, EmptySeq DEF Text
<1>2. ASSUME NEW list \in Seq(Text), list \in P, NEW name \in Text
      PROVE  Append(list, name) \in P
  <2>1. Append(list, name) \in Seq(Text)
    BY AppendProperties
  <2>2. Join(list) \in Text /\ Joint(list, name) \in Text
    BY <1>2, JointType
  <2>3. Join(Append(list, name)) = Join(list) \o Joint(list, name)
    BY JoinAppend
  <2>4. Join(Append(list, name)) \in Text
    BY <2>2, <2>3, ConcatProperties DEF Text
  <2> QED
    BY <2>1, <2>4
<1> HIDE DEF P
<1>3. \A list \in Seq(Text) : list \in P
  BY <1>1, <1>2, AppendInduction
<1> QED
  BY <1>3 DEF P

\* A text with a mark in it.
Marked(a, c, x) == (a \o <<c>>) \o x

MarkedAs(t, a, c, x) ==
  /\ t \in Text /\ Len(a) \in Nat /\ Len(x) \in Nat
  /\ Len(t) = Len(a) + 1 + Len(x)
  /\ \A i \in 1..Len(a) : t[i] = a[i]
  /\ t[Len(a) + 1] = c
  /\ \A i \in 1..Len(x) : t[Len(a) + 1 + i] = x[i]

\* Byte by byte.
LEMMA MarkedBytes ==
  ASSUME NEW c \in Nat, NEW a \in Text, NEW x \in Text
  PROVE  MarkedAs(Marked(a, c, x), a, c, x)
<1> USE DEF Text
<1>1. /\ Len(a) \in Nat /\ Len(x) \in Nat
      /\ <<c>> \in Text /\ Len(<<c>>) = 1 /\ <<c>>[1] = c
  BY LenProperties
<1> DEFINE front == a \o <<c>>
<1>2. /\ front \in Text /\ Len(front) = Len(a) + 1 /\ front[Len(a) + 1] = c
      /\ \A i \in 1..Len(a) : front[i] = a[i]
  BY <1>1, ConcatProperties
<1> HIDE DEF front
<1>3. front \o x \in Text /\ Len(front \o x) = Len(a) + 1 + Len(x)
  <2>1. front \o x \in Text /\ Len(front \o x) = Len(front) + Len(x)
    BY <1>2, ConcatProperties
  <2> QED
    BY <1>2, <2>1
<1>4. \A i \in 1..(Len(a) + 1) : (front \o x)[i] = front[i]
  BY <1>1, <1>2
<1>5. \A i \in 1..Len(x) : (front \o x)[Len(a) + 1 + i] = x[i]
  <2> TAKE i \in 1..Len(x)
  <2>1. Len(a) + 1 + i \in 1..(Len(front) + Len(x)) /\ Len(a) + 1 + i > Len(front)
        /\ (Len(a) + 1 + i) - Len(front) = i
    BY <1>1, <1>2
  <2> QED
    BY <1>2, <2>1
<1>6. Marked(a, c, x) = front \o x
  BY DEF Marked, front
<1>7. (front \o x)[Len(a) + 1] = c /\ \A i \in 1..Len(a) : (front \o x)[i] = a[i]
  <2>1. Len(a) + 1 \in 1..(Len(a) + 1) /\ \A i \in 1..Len(a) : i \in 1..(Len(a) + 1)
    BY <1>1
  <2> QED
    BY <1>2, <1>4, <2>1
<1> QED
  BY <1>1, <1>3, <1>5, <1>6, <1>7 DEF MarkedAs

\* A text marked in two ways, but at one place, is marked in one way.
LEMMA SamePlace ==
  ASSUME NEW t, NEW c \in Nat, NEW a \in Text, NEW b \in Text, NEW x \in Text, NEW y \in Text,
         MarkedAs(t, a, c, x), MarkedAs(t, b, c, y), Len(a) = Len(b)
  PROVE  a = b /\ x = y
<1>1. Len(x) = Len(y)
  BY DEF MarkedAs
<1>2. \A i \in 1..Len(a) : a[i] = b[i]
  BY DEF MarkedAs
<1>3. \A i \in 1..Len(x) : x[i] = y[i]
  <2> TAKE i \in 1..Len(x)
  <2>1. t[Len(a) + 1 + i] = x[i]
    BY DEF MarkedAs
  <2>2. t[Len(b) + 1 + i] = y[i]
    BY <1>1 DEF MarkedAs
  <2> QED
    BY <2>1, <2>2
<1> QED
  BY <1>1, <1>2, <1>3, SeqEqual DEF Text

\* The last comma of a text tells what follows it, if that has none.
LEMMA LastMark ==
  ASSUME NEW c \in Nat, NEW a \in Text, NEW b \in Text, NEW x \in Text, NEW y \in Text,
         Free(x, c), Free(y, c), Marked(a, c, x) = Marked(b, c, y)
  PROVE  a = b /\ x = y
<1>1. ASSUME NEW t, NEW p, NEW q, NEW v, NEW w,
             Free(v, c), MarkedAs(t, p, c, v), MarkedAs(t, q, c, w)
      PROVE  ~(Len(p) < Len(q))
  <2> SUFFICES ASSUME Len(p) < Len(q)
               PROVE  FALSE
    OBVIOUS
  <2> DEFINE n == Len(q) - Len(p)
  <2>1. n \in 1..Len(v) /\ Len(p) + 1 + n = Len(q) + 1
    BY <1>1 DEF MarkedAs
  <2>2. t[Len(p) + 1 + n] = v[n] /\ t[Len(q) + 1] = c
    BY <1>1, <2>1 DEF MarkedAs
  <2> QED
    BY <1>1, <2>1, <2>2 DEF Free
<1>2. MarkedAs(Marked(a, c, x), a, c, x) /\ MarkedAs(Marked(a, c, x), b, c, y)
  BY MarkedBytes
<1>3. ~(Len(a) < Len(b)) /\ ~(Len(b) < Len(a))
  BY <1>1, <1>2
<1>4. Len(a) = Len(b)
  BY <1>3, LenProperties DEF Text
<1> QED
  BY <1>2, <1>4, SamePlace

\* The first semicolon of a text tells what precedes it.
LEMMA FirstMark ==
  ASSUME NEW c \in Nat, NEW a \in Text, NEW b \in Text, NEW x \in Text, NEW y \in Text,
         Free(a, c), Free(b, c), Marked(a, c, x) = Marked(b, c, y)
  PROVE  a = b /\ x = y
<1>1. ASSUME NEW t, NEW p, NEW q, NEW v, NEW w,
             Free(q, c), MarkedAs(t, p, c, v), MarkedAs(t, q, c, w)
      PROVE  ~(Len(p) < Len(q))
  <2> SUFFICES ASSUME Len(p) < Len(q)
               PROVE  FALSE
    OBVIOUS
  <2>1. Len(p) + 1 \in 1..Len(q)
    BY <1>1 DEF MarkedAs
  <2>2. t[Len(p) + 1] = c /\ t[Len(p) + 1] = q[Len(p) + 1]
    BY <1>1, <2>1 DEF MarkedAs
  <2> QED
    BY <1>1, <2>1, <2>2 DEF Free
<1>2. MarkedAs(Marked(a, c, x), a, c, x) /\ MarkedAs(Marked(a, c, x), b, c, y)
  BY MarkedBytes
<1>3. ~(Len(a) < Len(b)) /\ ~(Len(b) < Len(a))
  BY <1>1, <1>2
<1>4. Len(a) = Len(b)
  BY <1>3, LenProperties DEF Text
<1> QED
  BY <1>2, <1>4, SamePlace

\* A text of more than one name is marked by its last comma.
LEMMA JoinMarked ==
  ASSUME NEW names \in Seq(Text), NEW name \in Text, names # <<>>
  PROVE  Join(Append(names, name)) = Marked(Join(names), Comma, name)
<1>1. Join(names) \in Seq(Nat) /\ <<Comma>> \in Seq(Nat) /\ name \in Seq(Nat)
  BY JoinType DEF Text, Comma
<1>2. Join(Append(names, name)) = Join(names) \o (<<Comma>> \o name)
  BY JoinAppend DEF Joint
<1>3. Join(names) \o (<<Comma>> \o name) = (Join(names) \o <<Comma>>) \o name
  BY <1>1, ConcatAssociative
<1> QED
  BY <1>2, <1>3 DEF Marked

\* A single name is joined to itself.
LEMMA JoinOne ==
  ASSUME NEW name \in Text
  PROVE  Join(Append(<<>>, name)) = name
<1>1. <<>> \in Seq(Text)
  BY EmptySeq
<1>2. Join(Append(<<>>, name)) = <<>> \o name
  BY <1>1, JoinAppend, JoinEmpty DEF Joint
<1> QED
  BY <1>2, ConcatEmptySeq DEF Text

\* No name of a longer list has the byte if none of the list has.
LEMMA FreeAppend ==
  ASSUME NEW names \in Seq(Text), NEW name \in Text, NEW byte,
         FreeNames(Append(names, name), byte)
  PROVE  FreeNames(names, byte) /\ Free(name, byte)
<1>1. /\ Len(names) \in Nat /\ Len(Append(names, name)) = Len(names) + 1
      /\ Append(names, name)[Len(names) + 1] = name
      /\ \A n \in 1..Len(names) : Append(names, name)[n] = names[n]
  BY AppendProperties, LenProperties
<1>2. \A n \in 1..(Len(names) + 1) : Free(Append(names, name)[n], byte)
  BY <1>1 DEF FreeNames
<1>3. Free(name, byte)
  <2>1. Len(names) + 1 \in 1..(Len(names) + 1)
    BY <1>1
  <2> QED
    BY <1>1, <1>2, <2>1
<1>4. \A n \in 1..Len(names) : Free(names[n], byte)
  <2> TAKE n \in 1..Len(names)
  <2>1. n \in 1..(Len(names) + 1)
    BY <1>1
  <2> QED
    BY <1>1, <1>2, <2>1
<1> QED
  BY <1>3, <1>4 DEF FreeNames

\* A comma in the text of several names, none in that of one.
LEMMA OneOrMore ==
  ASSUME NEW names \in Seq(Text), NEW name \in Text, NEW text \in Text,
         names # <<>>, Free(text, Comma)
  PROVE  text # Join(Append(names, name))
<1> SUFFICES ASSUME text = Join(Append(names, name))
             PROVE  FALSE
  OBVIOUS
<1>1. text = Marked(Join(names), Comma, name) /\ Join(names) \in Text /\ Comma \in Nat
  BY JoinMarked, JoinType DEF Comma
<1>2. MarkedAs(text, Join(names), Comma, name)
  BY <1>1, MarkedBytes
<1>3. Len(Join(names)) + 1 \in 1..Len(text) /\ text[Len(Join(names)) + 1] = Comma
  BY <1>2 DEF MarkedAs
<1> QED
  BY <1>3 DEF Free

\* Joining tells lists apart that are not empty and have no comma in their names: a text
\* is joined from one such list only.
LEMMA JoinInjective ==
  ASSUME NEW s \in Seq(Text), NEW t \in Seq(Text), s # <<>>, t # <<>>,
         FreeNames(s, Comma), FreeNames(t, Comma), Join(s) = Join(t)
  PROVE  s = t
<1> DEFINE Alone(list) ==
             list # <<>> /\ FreeNames(list, Comma) =>
               \A other \in Seq(Text) :
                 other # <<>> /\ FreeNames(other, Comma) /\ Join(other) = Join(list)
                   => other = list
           P == {list \in Seq(Text) : Alone(list)}
<1>1. <<>> \in P
  BY EmptySeq
<1>2. ASSUME NEW list \in Seq(Text), list \in P, NEW name \in Text
      PROVE  Append(list, name) \in P
  <2>1. Append(list, name) \in Seq(Text)
    BY AppendProperties
  <2> SUFFICES ASSUME FreeNames(Append(list, name), Comma),
                      NEW other \in Seq(Text), other # <<>>, FreeNames(other, Comma),
                      Join(other) = Join(Append(list, name))
               PROVE  other = Append(list, name)
    BY <2>1
  <2>2. PICK front \in Seq(Text), last \in Text : other = Append(front, last)
    BY SequenceEmptyOrAppend
  <2>3. FreeNames(list, Comma) /\ Free(name, Comma)
    BY FreeAppend
  <2>4. FreeNames(front, Comma) /\ Free(last, Comma)
    BY <2>2, FreeAppend
  <2>5. CASE list = <<>> /\ front = <<>>
    BY <2>2, <2>5, JoinOne
  <2>6. CASE list = <<>> /\ front # <<>>
    BY <2>2, <2>3, <2>6, JoinOne, OneOrMore
  <2>7. CASE list # <<>> /\ front = <<>>
    BY <2>2, <2>4, <2>7, JoinOne, OneOrMore
  <2>8. CASE list # <<>> /\ front # <<>>
    <3>1. Marked(Join(front), Comma, last) = Marked(Join(list), Comma, name)
      BY <2>2, <2>8, JoinMarked
    <3>2. Join(front) \in Text /\ Join(list) \in Text /\ Comma \in Nat
      BY JoinType DEF Comma
    <3>3. Join(front) = Join(list) /\ last = name
      BY <2>3, <2>4, <3>1, <3>2, LastMark
    <3>4. front = list
      BY <1>2, <2>3, <2>4, <2>8, <3>3
    <3> QED
      BY <2>2, <3>3, <3>4
  <2> QED
    BY <2>5, <2>6, <2>7, <2>8
<1>3. \A list \in Seq(Text) : list \in P
  <2> HIDE DEF P
  <2> QED
    BY <1>1, <1>2, AppendInduction
<1> QED
  BY <1>3

-----------------------------------------------------------------------------
(***************************************************************************)
(* Split                                                                   *)
(***************************************************************************)

\* The values of the recursive function in Split, up to one of them.
Splitting(f, text, n) ==
  f = [i \in 0..n |-> IF i = 0 THEN << <<>> >> ELSE SplitMore(f[i - 1], text[i])]

\* The values of a splitting function, one byte after the other.
LEMMA SplittingValues ==
  ASSUME NEW text, NEW n \in Nat, NEW f, Splitting(f, text, n)
  PROVE  /\ f[0] = << <<>> >>
         /\ \A i \in 0..(n - 1) : f[i + 1] = SplitMore(f[i], text[i + 1])
<1>1. \A i \in 0..n : f[i] = IF i = 0 THEN << <<>> >> ELSE SplitMore(f[i - 1], text[i])
  BY DEF Splitting
<1>2. f[0] = << <<>> >>
  BY <1>1
<1>3. ASSUME NEW i \in 0..(n - 1)
      PROVE  f[i + 1] = SplitMore(f[i], text[i + 1])
  <2>1. i + 1 \in 0..n /\ i + 1 # 0 /\ (i + 1) - 1 = i
    OBVIOUS
  <2>2. f[i + 1] = SplitMore(f[(i + 1) - 1], text[i + 1])
    BY <1>1, <2>1
  <2> QED
    BY <2>1, <2>2
<1> QED
  BY <1>2, <1>3

\* There is one for texts of every length: by induction on the length.
LEMMA SplittingExists ==
  ASSUME NEW text
  PROVE  \A n \in Nat : \E f : Splitting(f, text, n)
<1> DEFINE P == {n \in Nat : \E f : Splitting(f, text, n)}
<1>1. 0 \in P
  <2>1. Splitting([i \in 0..0 |-> << <<>> >>], text, 0)
    BY DEF Splitting
  <2> QED
    BY <2>1
<1>2. ASSUME NEW n \in Nat, n \in P
      PROVE  n + 1 \in P
  <2>1. PICK f : Splitting(f, text, n)
    BY <1>2
  <2> DEFINE g == [i \in 0..(n + 1) |-> IF i <= n THEN f[i] ELSE SplitMore(f[n], text[n + 1])]
  <2>2. /\ g = [i \in 0..(n + 1) |-> g[i]]
        /\ \A i \in 0..n : g[i] = f[i]
        /\ g[n + 1] = SplitMore(f[n], text[n + 1])
    OBVIOUS
  <2> HIDE DEF g
  <2>3. ASSUME NEW i \in 0..(n + 1)
        PROVE  g[i] = IF i = 0 THEN << <<>> >> ELSE SplitMore(g[i - 1], text[i])
    <3>1. CASE i = 0
      <4>1. f[0] = << <<>> >>
        BY <2>1, SplittingValues
      <4>2. 0 \in 0..n
        OBVIOUS
      <4> QED
        BY <2>2, <3>1, <4>1, <4>2
    <3>2. CASE i = n + 1
      <4>1. i # 0 /\ i - 1 = n /\ n \in 0..n
        BY <3>2
      <4> QED
        BY <2>2, <3>2, <4>1
    <3>3. CASE i # 0 /\ i # n + 1
      <4>1. i - 1 \in 0..(n - 1) /\ i - 1 \in 0..n /\ i \in 0..n /\ (i - 1) + 1 = i
        BY <3>3
      <4>2. f[i] = SplitMore(f[i - 1], text[i])
        BY <2>1, <4>1, SplittingValues
      <4> QED
        BY <2>2, <3>3, <4>1, <4>2
    <3> QED
      BY <3>1, <3>2, <3>3
  <2>4. Splitting(g, text, n + 1)
    BY <2>2, <2>3 DEF Splitting
  <2> QED
    BY <2>4
<1> HIDE DEF P
<1>3. \A n \in Nat : n \in P
  BY <1>1, <1>2, NumberInduction
<1> QED
  BY <1>3 DEF P

\* Split is the last value of such a function.
LEMMA SplitIsLast ==
  ASSUME NEW text \in Text
  PROVE  \E f : Splitting(f, text, Len(text)) /\ Split(text) = f[Len(text)]
<1> DEFINE f == CHOOSE f : f = [i \in 0..Len(text) |->
                  IF i = 0 THEN << <<>> >> ELSE SplitMore(f[i - 1], text[i])]
<1>1. Splitting(f, text, Len(text))
  <2>1. Len(text) \in Nat
    BY LenProperties DEF Text
  <2>2. \E g : g = [i \in 0..Len(text) |->
                  IF i = 0 THEN << <<>> >> ELSE SplitMore(g[i - 1], text[i])]
    BY <2>1, SplittingExists DEF Splitting
  <2> QED
    BY <2>2 DEF Splitting
<1>2. Split(text) = f[Len(text)]
  BY DEF Split
<1> QED
  BY <1>1, <1>2

\* The pieces of a text, without commas, make up the text.
PiecesOf(pieces, text) ==
  /\ pieces \in Seq(Text) /\ pieces # <<>>
  /\ FreeNames(pieces, Comma)
  /\ Join(pieces) = text

\* A list and one name more are free of a byte if both are.
LEMMA AppendFree ==
  ASSUME NEW names \in Seq(Text), NEW name \in Text, NEW byte,
         FreeNames(names, byte), Free(name, byte)
  PROVE  FreeNames(Append(names, name), byte)
<1>1. /\ Len(names) \in Nat /\ Len(Append(names, name)) = Len(names) + 1
      /\ Append(names, name)[Len(names) + 1] = name
      /\ \A n \in 1..Len(names) : Append(names, name)[n] = names[n]
  BY AppendProperties, LenProperties
<1>2. ASSUME NEW n \in 1..(Len(names) + 1)
      PROVE  Free(Append(names, name)[n], byte)
  <2>1. CASE n = Len(names) + 1
    BY <1>1, <2>1
  <2>2. CASE n # Len(names) + 1
    <3>1. n \in 1..Len(names)
      BY <1>1, <2>2
    <3> QED
      BY <1>1, <3>1 DEF FreeNames
  <2> QED
    BY <2>1, <2>2
<1> QED
  BY <1>1, <1>2 DEF FreeNames

\* A text stays free of a byte when another one is appended.
LEMMA AppendFreeByte ==
  ASSUME NEW text \in Text, NEW more \in Nat, NEW byte, Free(text, byte), more # byte
  PROVE  Free(Append(text, more), byte)
<1>1. /\ Len(text) \in Nat /\ Len(Append(text, more)) = Len(text) + 1
      /\ Append(text, more)[Len(text) + 1] = more
      /\ \A n \in 1..Len(text) : Append(text, more)[n] = text[n]
  BY AppendProperties, LenProperties DEF Text
<1>2. ASSUME NEW n \in 1..(Len(text) + 1)
      PROVE  Append(text, more)[n] # byte
  <2>1. CASE n = Len(text) + 1
    BY <1>1, <2>1
  <2>2. CASE n # Len(text) + 1
    <3>1. n \in 1..Len(text)
      BY <1>1, <2>2
    <3> QED
      BY <1>1, <3>1 DEF Free
  <2> QED
    BY <2>1, <2>2
<1> QED
  BY <1>1, <1>2 DEF Free

\* One byte more, of the text and of the pieces.
LEMMA OneByteMore ==
  ASSUME NEW text \in Text, NEW pieces, PiecesOf(pieces, text), NEW byte \in Nat
  PROVE  PiecesOf(SplitMore(pieces, byte), Append(text, byte))
<1>1. CASE byte = Comma
  <2>1. <<>> \in Text /\ Free(<<>>, Comma)
    BY EmptySeq DEF Text, Free
  <2>2. Append(pieces, <<>>) \in Seq(Text) /\ Append(pieces, <<>>) # <<>>
    BY <2>1, AppendProperties DEF PiecesOf
  <2>3. FreeNames(Append(pieces, <<>>), Comma)
    BY <2>1, AppendFree DEF PiecesOf
  <2>4. Join(Append(pieces, <<>>)) = Append(text, Comma)
    <3>1. Join(Append(pieces, <<>>)) = (text \o <<Comma>>) \o <<>>
      BY <2>1, JoinMarked DEF PiecesOf, Marked
    <3>2. text \o <<Comma>> = Append(text, Comma) /\ text \o <<Comma>> \in Seq(Nat)
      BY AppendIsConcat, AppendProperties DEF Text, Comma
    <3> QED
      BY <3>1, <3>2, ConcatEmptySeq
  <2> QED
    BY <1>1, <2>2, <2>3, <2>4 DEF PiecesOf, SplitMore
<1>2. CASE byte # Comma
  <2>1. PICK front \in Seq(Text), last \in Text : pieces = Append(front, last)
    BY SequenceEmptyOrAppend DEF PiecesOf
  <2>2. Front(pieces) = front /\ Last(pieces) = last
    BY <2>1, AppendProperties, LenProperties DEF Front, Last
  <2>3. FreeNames(front, Comma) /\ Free(last, Comma)
    BY <2>1, FreeAppend DEF PiecesOf
  <2> DEFINE longer == Append(last, byte)
  <2>4. longer \in Text /\ Free(longer, Comma)
    BY <1>2, <2>3, AppendFreeByte, AppendProperties DEF Text
  <2>5. Append(front, longer) \in Seq(Text) /\ Append(front, longer) # <<>>
        /\ FreeNames(Append(front, longer), Comma)
    BY <2>3, <2>4, AppendFree, AppendProperties
  <2>6. Join(Append(front, longer)) = Append(text, byte)
    <3>1. longer = last \o <<byte>> /\ <<byte>> \in Seq(Nat)
      BY AppendIsConcat DEF Text
    <3>2. Joint(front, longer) = Joint(front, last) \o <<byte>>
      <4>1. <<Comma>> \in Seq(Nat)
        BY DEF Comma
      <4>2. <<Comma>> \o longer = (<<Comma>> \o last) \o <<byte>>
        BY <3>1, <4>1, ConcatAssociative DEF Text
      <4> QED
        BY <3>1, <4>2 DEF Joint
    <3>3. Join(Append(front, longer)) = Join(front) \o Joint(front, longer)
      BY <2>4, JoinAppend
    <3>4. text = Join(front) \o Joint(front, last)
      BY <2>1, JoinAppend DEF PiecesOf
    <3>5. Join(front) \in Seq(Nat) /\ Joint(front, last) \in Seq(Nat)
      BY JoinType, JointType DEF Text
    <3>6. Join(Append(front, longer)) = text \o <<byte>>
      <4>1. (Join(front) \o Joint(front, last)) \o <<byte>>
              = Join(front) \o (Joint(front, last) \o <<byte>>)
        BY <3>1, <3>5, ConcatAssociative
      <4> QED
        BY <3>2, <3>3, <3>4, <4>1
    <3> QED
      BY <3>6, AppendIsConcat DEF Text
  <2> QED
    BY <1>2, <2>2, <2>5, <2>6 DEF PiecesOf, SplitMore
<1> QED
  BY <1>1, <1>2

\* Split takes a text apart at its commas.
LEMMA SplitPieces ==
  ASSUME NEW text \in Text
  PROVE  PiecesOf(Split(text), text)
<1>1. Len(text) \in Nat /\ text \in Seq(Nat)
  BY LenProperties DEF Text
<1>2. PICK f : Splitting(f, text, Len(text)) /\ Split(text) = f[Len(text)]
  BY SplitIsLast
<1> DEFINE P == {i \in Nat : i <= Len(text) => PiecesOf(f[i], First(text, i))}
<1>3. 0 \in P
  <2>1. f[0] = Append(<<>>, <<>>) /\ First(text, 0) = <<>>
    BY <1>1, <1>2, SplittingValues, FirstNone
  <2>2. <<>> \in Text /\ <<>> \in Seq(Text) /\ Free(<<>>, Comma) /\ FreeNames(<<>>, Comma)
    BY EmptySeq DEF Text, Free, FreeNames
  <2>3. Append(<<>>, <<>>) \in Seq(Text) /\ Append(<<>>, <<>>) # <<>>
        /\ FreeNames(Append(<<>>, <<>>), Comma)
    BY <2>2, AppendFree, AppendProperties
  <2>4. Join(Append(<<>>, <<>>)) = <<>>
    BY <2>2, JoinOne
  <2> QED
    BY <2>1, <2>3, <2>4 DEF PiecesOf
<1>4. ASSUME NEW i \in Nat, i \in P
      PROVE  i + 1 \in P
  <2> SUFFICES ASSUME i + 1 <= Len(text)
               PROVE  PiecesOf(f[i + 1], First(text, i + 1))
    OBVIOUS
  <2>1. i \in 0..(Len(text) - 1)
    BY <1>1
  <2>2. /\ First(text, i) \in Text /\ text[i + 1] \in Nat
        /\ First(text, i + 1) = Append(First(text, i), text[i + 1])
    BY <1>1, <2>1, FirstNext DEF Text
  <2>3. f[i + 1] = SplitMore(f[i], text[i + 1])
    BY <1>1, <1>2, <2>1, SplittingValues
  <2>4. PiecesOf(f[i], First(text, i))
    BY <1>1, <1>4
  <2> QED
    BY <2>2, <2>3, <2>4, OneByteMore
<1>5. \A i \in Nat : i \in P
  <2> HIDE DEF P
  <2> QED
    BY <1>3, <1>4, NumberInduction
<1>6. PiecesOf(f[Len(text)], First(text, Len(text)))
  BY <1>1, <1>5
<1> QED
  BY <1>1, <1>2, <1>6, FirstAll

\* What is joined is split into what it was joined from.
LEMMA SplitJoin ==
  ASSUME NEW names \in Seq(Text), names # <<>>, FreeNames(names, Comma)
  PROVE  Split(Join(names)) = names
<1>1. PiecesOf(Split(Join(names)), Join(names))
  BY JoinType, SplitPieces
<1> QED
  BY <1>1, JoinInjective DEF PiecesOf

-----------------------------------------------------------------------------
(***************************************************************************)
(* What is digested                                                        *)
(***************************************************************************)

\* A byte that is in no name, and no comma, is not in the text of the names.
LEMMA JoinFree ==
  ASSUME NEW byte \in Nat, byte # Comma
  PROVE  \A names \in Seq(Text) : FreeNames(names, byte) => Free(Join(names), byte)
<1> DEFINE P == {names \in Seq(Text) : FreeNames(names, byte) => Free(Join(names), byte)}
<1>1. <<>> \in P
  BY EmptySeq, JoinEmpty DEF Free
<1>2. ASSUME NEW names \in Seq(Text), names \in P, NEW name \in Text
      PROVE  Append(names, name) \in P
  <2> SUFFICES ASSUME FreeNames(Append(names, name), byte)
               PROVE  Free(Join(Append(names, name)), byte)
    BY AppendProperties
  <2>1. FreeNames(names, byte) /\ Free(name, byte) /\ Free(Join(names), byte)
    BY <1>2, FreeAppend
  <2>2. CASE names = <<>>
    BY <2>1, <2>2, JoinOne
  <2>3. CASE names # <<>>
    <3> DEFINE text == Join(Append(names, name))
    <3>1. Join(names) \in Text /\ Comma \in Nat /\ text = Marked(Join(names), Comma, name)
      BY <2>3, JoinType, JoinMarked DEF Comma
    <3>2. MarkedAs(text, Join(names), Comma, name)
      BY <3>1, MarkedBytes
    <3> HIDE DEF text
    <3>3. ASSUME NEW i \in 1..Len(text)
          PROVE  text[i] # byte
      <4>1. CASE i \in 1..Len(Join(names))
        BY <2>1, <3>2, <4>1 DEF MarkedAs, Free
      <4>2. CASE i = Len(Join(names)) + 1
        BY <3>2, <4>2 DEF MarkedAs
      <4>3. CASE i > Len(Join(names)) + 1
        <5> DEFINE j == i - (Len(Join(names)) + 1)
        <5>1. j \in 1..Len(name) /\ i = Len(Join(names)) + 1 + j
          BY <3>2, <4>3 DEF MarkedAs
        <5>2. text[i] = name[j]
          BY <3>2, <5>1 DEF MarkedAs
        <5> QED
          BY <2>1, <5>1, <5>2 DEF Free
      <4> QED
        BY <3>2, <4>1, <4>2, <4>3 DEF MarkedAs
    <3> QED
      BY <3>3 DEF Free, text
  <2> QED
    BY <2>2, <2>3
<1>3. \A names \in Seq(Text) : names \in P
  <2> HIDE DEF P
  <2> QED
    BY <1>1, <1>2, AppendInduction
<1> QED
  BY <1>3

\* The names that are not empty and have no comma in them.
Name == {name \in Text : name # <<>> /\ Free(name, Comma)}

\* A list of such names is a list of texts that can be joined and split again.
LEMMA NamesAreFree ==
  ASSUME NEW names \in Seq(Name)
  PROVE  /\ names \in Seq(Text) /\ FreeNames(names, Comma)
         /\ \A n \in 1..Len(names) : names[n] # <<>>
<1>1. Name \subseteq Text
  BY DEF Name
<1>2. names \in Seq(Text)
  BY <1>1, SeqMonotonic
<1>3. \A n \in 1..Len(names) : names[n] \in Name
  BY ElementOfSeq
<1> QED
  BY <1>2, <1>3 DEF Name, FreeNames

\* Joining tells all lists of such names apart.
LEMMA JoinIdentifies ==
  ASSUME NEW s \in Seq(Name), NEW t \in Seq(Name), Join(s) = Join(t)
  PROVE  s = t
<1>1. ASSUME NEW list \in Seq(Name), list # <<>>
      PROVE  Join(list) # <<>>
  <2>1. list \in Seq(Text) /\ \A n \in 1..Len(list) : list[n] # <<>>
    BY NamesAreFree
  <2>2. PICK front \in Seq(Text), last \in Text : list = Append(front, last)
    BY <1>1, <2>1, SequenceEmptyOrAppend
  <2>3. last # <<>>
    <3>1. Len(front) \in Nat /\ Len(list) = Len(front) + 1 /\ list[Len(front) + 1] = last
      BY <2>2, AppendProperties, LenProperties
    <3> QED
      BY <2>1, <3>1
  <2>4. CASE front = <<>>
    BY <2>2, <2>3, <2>4, JoinOne
  <2>5. CASE front # <<>>
    <3>1. Join(list) = Marked(Join(front), Comma, last) /\ Join(front) \in Text /\ Comma \in Nat
      BY <2>2, <2>5, JoinMarked, JoinType DEF Comma
    <3>2. MarkedAs(Join(list), Join(front), Comma, last)
      BY <3>1, MarkedBytes
    <3>3. Len(Join(list)) > 0
      BY <3>2 DEF MarkedAs
    <3>4. Len(<<>>) = 0
      OBVIOUS
    <3> QED
      BY <3>3, <3>4
  <2> QED
    BY <2>4, <2>5
<1>2. /\ s \in Seq(Text) /\ FreeNames(s, Comma)
      /\ t \in Seq(Text) /\ FreeNames(t, Comma)
  BY NamesAreFree
<1>3. CASE s = <<>> \/ t = <<>>
  BY <1>1, <1>3, JoinEmpty
<1>4. CASE s # <<>> /\ t # <<>>
  BY <1>2, <1>4, JoinInjective
<1> QED
  BY <1>3, <1>4

\* Texts are appended to texts, in any order.
LEMMA ConcatType ==
  ASSUME NEW u \in Text, NEW v \in Text
  PROVE  u \o v \in Text
  BY ConcatProperties DEF Text

\* Concatenation may be bracketed either way.
LEMMA Associative ==
  ASSUME NEW u \in Text, NEW v \in Text, NEW w \in Text
  PROVE  (u \o v) \o w = u \o (v \o w)
  BY ConcatAssociative DEF Text

\* Four lists of names; in all but the last one there are no semicolons.
Quadruple(k, c, m, z) ==
  /\ k \in Seq(Name) /\ c \in Seq(Name) /\ m \in Seq(Name) /\ z \in Seq(Name)
  /\ FreeNames(k, Semicolon) /\ FreeNames(c, Semicolon) /\ FreeNames(m, Semicolon)

\* Two such quadruples have one text only if they are the same.
LEMMA CalculateInjective ==
  ASSUME NEW k, NEW c, NEW m, NEW z, NEW p, NEW q, NEW r, NEW s,
         Quadruple(k, c, m, z), Quadruple(p, q, r, s),
         Calculate(k, c, m, z) = Calculate(p, q, r, s)
  PROVE  k = p /\ c = q /\ m = r /\ z = s
<1> USE DEF Quadruple
<1>1. Semicolon \in Nat /\ Semicolon # Comma /\ <<Semicolon>> \in Seq(Nat)
  BY DEF Semicolon, Comma
<1>2. \A list \in Seq(Name) :
        Join(list) \in Text /\ (FreeNames(list, Semicolon) => Free(Join(list), Semicolon))
  BY <1>1, NamesAreFree, JoinType, JoinFree
<1>3. \A a \in Text, x \in Text : Marked(a, Semicolon, x) \in Text
  BY <1>1, ConcatProperties DEF Marked, Text
<1> DEFINE Nested(a, b, d, e) ==
             Marked(Join(a), Semicolon, Marked(Join(b), Semicolon, Marked(Join(d), Semicolon, Join(e))))
<1>4. ASSUME NEW a \in Seq(Name), NEW b \in Seq(Name), NEW d \in Seq(Name), NEW e \in Seq(Name)
      PROVE  Calculate(a, b, d, e) = Nested(a, b, d, e)
  <2> DEFINE A == Join(a) B == Join(b) D == Join(d) E == Join(e) semi == <<Semicolon>>
  <2>1. A \in Text /\ B \in Text /\ D \in Text /\ E \in Text /\ semi \in Text
    BY <1>1, <1>2 DEF Text
  <2>2. Calculate(a, b, d, e) = (((((A \o semi) \o B) \o semi) \o D) \o semi) \o E
    BY DEF Calculate
  <2> HIDE DEF A, B, D, E, semi
  <2> DEFINE AA == A \o semi BB == B \o semi DD == D \o semi
  <2>3. AA \in Text /\ BB \in Text /\ DD \in Text
    BY <2>1, ConcatType
  <2> HIDE DEF AA, BB, DD
  <2>4. (AA \o B) \o semi = AA \o BB
    <3>1. AA \in Text /\ B \in Text /\ semi \in Text
      BY <2>1, <2>3
    <3>2. (AA \o B) \o semi = AA \o (B \o semi)
      BY <3>1, Associative
    <3> QED
      BY <3>2 DEF BB
  <2> DEFINE AB == AA \o BB
  <2>5. AB \in Text
    BY <2>3, ConcatType
  <2> HIDE DEF AB
  <2>6. (AB \o D) \o semi = AB \o DD
    BY <2>1, <2>5, Associative DEF DD
  <2>7. (AB \o DD) \o E = AB \o (DD \o E) /\ DD \o E \in Text
    <3>1. (AB \o DD) \o E = AB \o (DD \o E)
      BY <2>1, <2>3, <2>5, Associative
    <3>2. DD \o E \in Text
      BY <2>1, <2>3, ConcatType
    <3> QED
      BY <3>1, <3>2
  <2>8. AB \o (DD \o E) = AA \o (BB \o (DD \o E))
    BY <2>3, <2>7, Associative DEF AB
  <2> QED
    BY <2>2, <2>4, <2>6, <2>7, <2>8 DEF Marked, A, B, D, E, semi, AA, BB, DD, AB
<1>5. Nested(k, c, m, z) = Nested(p, q, r, s)
  BY <1>4
<1> DEFINE kex == Marked(Join(c), Semicolon, Marked(Join(m), Semicolon, Join(z)))
           other == Marked(Join(q), Semicolon, Marked(Join(r), Semicolon, Join(s)))
<1>6. kex \in Text /\ other \in Text
  BY <1>2, <1>3
<1>7. Join(k) = Join(p) /\ kex = other
  <2> HIDE DEF kex, other
  <2>1. Marked(Join(k), Semicolon, kex) = Marked(Join(p), Semicolon, other)
    BY <1>5 DEF kex, other
  <2> QED
    BY <1>1, <1>2, <1>6, <2>1, FirstMark
<1> DEFINE ciphers == Marked(Join(m), Semicolon, Join(z))
           others == Marked(Join(r), Semicolon, Join(s))
<1>8. ciphers \in Text /\ others \in Text
  BY <1>2, <1>3
<1>9. Join(c) = Join(q) /\ ciphers = others
  <2> HIDE DEF ciphers, others
  <2>1. Marked(Join(c), Semicolon, ciphers) = Marked(Join(q), Semicolon, others)
    BY <1>7 DEF ciphers, others
  <2> QED
    BY <1>1, <1>2, <1>8, <2>1, FirstMark
<1>10. Join(m) = Join(r) /\ Join(z) = Join(s)
  BY <1>1, <1>2, <1>9, FirstMark
<1> QED
  BY <1>7, <1>9, <1>10, JoinIdentifies

-----------------------------------------------------------------------------
(***************************************************************************)
(* Names                                                                   *)
(***************************************************************************)

\* The limits are numbers of at least one.
LEMMA Limits ==
  /\ MaxPayload \in Nat \ {0} /\ MaxCount \in Nat \ {0} /\ MaxTotal \in Nat \ {0}
  /\ MaxName \in Nat \ {0} /\ MaxPacket \in Nat \ {0} /\ MaxBanner \in Nat \ {0}
  /\ Chunk \in Nat \ {0}
  BY LimitsAssumption, SMT

\* A member that is below all others is the minimum.
LEMMA MinIs ==
  ASSUME NEW S \in SUBSET Nat, NEW m \in S, \A n \in S : m <= n
  PROVE  Min(S) = m
<1> DEFINE x == Min(S)
<1>1. x \in S /\ \A n \in S : x <= n
  BY DEF Min
<1> HIDE DEF x
<1>2. x <= m /\ m <= x /\ x \in Nat /\ m \in Nat
  BY <1>1
<1>3. x = m
  BY <1>2
<1> QED
  BY <1>3 DEF x

\* A member that is above all others is the maximum.
LEMMA MaxIs ==
  ASSUME NEW S \in SUBSET Nat, NEW m \in S, \A n \in S : m >= n
  PROVE  Max(S) = m
<1> DEFINE x == Max(S)
<1>1. x \in S /\ \A n \in S : x >= n
  BY DEF Max
<1> HIDE DEF x
<1>2. x >= m /\ m >= x /\ x \in Nat /\ m \in Nat
  BY <1>1
<1>3. x = m
  BY <1>2
<1> QED
  BY <1>3 DEF x

\* What the members of a spelling are.
LEMMA SpellingParts ==
  ASSUME NEW s \in Spelling
  PROVE  /\ s.raw \in Text /\ s.name \in Text /\ s.valid \in BOOLEAN
         /\ Len(s.raw) \in Nat /\ Len(s.name) \in Nat
         /\ Free(s.raw, Comma)
<1>1. s.raw \in Seq(Ascii \ {Comma}) /\ s.name \in Seq(Ascii) /\ s.valid \in BOOLEAN
  BY DEF Spelling
<1>2. Ascii \ {Comma} \subseteq Nat /\ Ascii \subseteq Nat
  BY DEF Ascii
<1>3. s.raw \in Text /\ s.name \in Text
  BY <1>1, <1>2, SeqMonotonic DEF Text
<1>4. \A i \in 1..Len(s.raw) : s.raw[i] \in Ascii \ {Comma}
  BY <1>1, ElementOfSeq
<1> QED
  BY <1>1, <1>3, <1>4, LenProperties DEF Free, Text

\* Trimming a spelling leaves the name, and nothing in it is a comma.
LEMMA TrimSpelling ==
  ASSUME NEW s \in Spelling, Spells(s)
  PROVE  TrimSpace(s.raw) = s.name /\ Free(s.name, Comma)
<1> DEFINE raw == s.raw
           name == s.name
           inner == {i \in 1..Len(raw) : raw[i] \notin Blank}
<1>1. /\ raw \in Text /\ name \in Text /\ Len(raw) \in Nat /\ Len(name) \in Nat
      /\ Free(raw, Comma) /\ DOMAIN raw = 1..Len(raw)
  BY SpellingParts, LenProperties DEF Text
<1>2. PICK i \in 0..(Len(raw) - Len(name)) :
        /\ name = SubSeq(raw, i + 1, i + Len(name))
        /\ \A j \in DOMAIN raw \ ((i + 1)..(i + Len(name))) : raw[j] \in Blank
  BY DEF Spells
<1>3. name # <<>> => name[1] \notin Blank /\ name[Len(name)] \notin Blank
  BY DEF Spells
<1> HIDE DEF raw, name
<1>4. i \in Nat /\ i + Len(name) <= Len(raw)
  BY <1>1, <1>2
<1>5. \A k \in 1..Len(name) : name[k] = raw[i + k] /\ i + k \in 1..Len(raw)
  BY <1>1, <1>2, <1>4 DEF Text
<1>6. \A j \in inner : j \in (i + 1)..(i + Len(name))
  BY <1>1, <1>2
<1>7. Free(name, Comma)
  BY <1>1, <1>5 DEF Free
<1>8. CASE name = <<>>
  <2>1. Len(name) = 0
    BY <1>8
  <2>2. inner = {}
    BY <1>4, <1>6, <2>1
  <2> QED
    BY <1>1, <1>7, <1>8, <2>2 DEF TrimSpace, raw, name
<1>9. CASE name # <<>>
  <2>1. Len(name) # 0
    BY <1>1, <1>9, EmptySeq DEF Text
  <2>2. 1 \in 1..Len(name) /\ Len(name) \in 1..Len(name)
    BY <1>1, <2>1
  <2>3. i + 1 \in inner /\ i + Len(name) \in inner
    BY <1>3, <1>5, <1>9, <2>2
  <2>4. inner \in SUBSET Nat
    BY <1>1
  <2>5. \A j \in inner : i + 1 <= j /\ i + Len(name) >= j
    BY <1>1, <1>4, <1>6
  <2> HIDE DEF inner
  <2>6. Min(inner) = i + 1 /\ Max(inner) = i + Len(name)
    BY <2>3, <2>4, <2>5, MinIs, MaxIs
  <2>7. TrimSpace(raw) = SubSeq(raw, Min(inner), Max(inner))
    BY <1>1, <2>3 DEF TrimSpace, inner
  <2> QED
    BY <1>2, <1>7, <2>6, <2>7 DEF raw, name
<1> QED
  BY <1>8, <1>9

\* The parser finds a name that is not empty valid if it is, and the empty one is.
LEMMA ValidSpelling ==
  ASSUME NEW s \in Spelling, Spells(s)
  PROVE  /\ s.name # <<>> => (isValidAlgorithmName(s.name) <=> s.valid)
         /\ s.name = <<>> => s.valid
<1> DEFINE name == s.name
<1>1. /\ name \in Text /\ Len(name) \in Nat /\ s.valid \in BOOLEAN
      /\ DOMAIN name = 1..Len(name) /\ Free(name, Comma)
  BY SpellingParts, TrimSpelling, LenProperties DEF Text
<1>2. s.valid <=> Len(name) <= MaxName /\ ToSet(name) \subseteq 33..126
  BY DEF Spells
<1>3. ToSet(name) = {name[i] : i \in 1..Len(name)}
  BY <1>1 DEF ToSet
<1>4. \A i \in 1..Len(name) : name[i] # Comma
  BY <1>1 DEF Free
<1>5. MaxName \in Nat
  BY Limits
<1> HIDE DEF name
<1>6. CASE name = <<>>
  <2>1. Len(name) = 0
    BY <1>6
  <2>2. ToSet(name) = {}
    BY <1>3, <2>1
  <2> QED
    BY <1>2, <1>5, <1>6, <2>1, <2>2 DEF name
<1>7. CASE name # <<>>
  <2>1. Len(name) # 0
    BY <1>1, <1>7, EmptySeq DEF Text
  <2>2. isValidAlgorithmName(name)
          <=> Len(name) <= MaxName /\ \A i \in 1..Len(name) : name[i] \in 33..126
    <3>1. Len(name) \in 1..MaxName <=> Len(name) <= MaxName
      BY <1>1, <1>5, <2>1
    <3>2. \A i \in 1..Len(name) : name[i] \in (33..126) \ {Comma} <=> name[i] \in 33..126
      BY <1>4
    <3> QED
      BY <1>1, <3>1, <3>2 DEF isValidAlgorithmName
  <2>3. ToSet(name) \subseteq 33..126 <=> \A i \in 1..Len(name) : name[i] \in 33..126
    BY <1>3
  <2> QED
    BY <1>2, <1>7, <2>2, <2>3 DEF name
<1> QED
  BY <1>6, <1>7

\* Named, of no name and of one more.
LEMMA KeptType ==
  ASSUME NEW name \in Text
  PROVE  /\ Kept(name) \in Seq(Text)
         /\ Free(name, Comma) => Kept(name) \in Seq(Name)
<1>1. <<name>> \in Seq(Text) /\ <<>> \in Seq(Text) /\ <<>> \in Seq(Name)
  OBVIOUS
<1>2. ASSUME Free(name, Comma), name # <<>>
      PROVE  <<name>> \in Seq(Name)
  <2>1. name \in Name
    BY <1>2 DEF Name
  <2> HIDE DEF Name
  <2> QED
    BY <2>1
<1> QED
  BY <1>1, <1>2 DEF Kept

\* What is kept of a list of names is a list of texts.
LEMMA KeptNames ==
  ASSUME NEW names \in Seq(Text)
  PROVE  /\ [n \in DOMAIN names |-> Kept(names[n])] \in Seq(Seq(Text))
         /\ Named(names) \in Seq(Text)
<1>1. /\ Len(names) \in Nat /\ DOMAIN names = 1..Len(names)
      /\ \A n \in 1..Len(names) : names[n] \in Text
  BY LenProperties, ElementOfSeq
<1>2. [n \in 1..Len(names) |-> Kept(names[n])] \in Seq(Seq(Text))
  <2>1. \A n \in 1..Len(names) : Kept(names[n]) \in Seq(Text)
    BY <1>1, KeptType
  <2> QED
    BY <1>1, <2>1, IsASeq
<1> QED
  BY <1>1, <1>2, FlattenType DEF Named

\* Nothing is kept of an empty list.
LEMMA NamedEmpty == Named(<<>>) = <<>>
<1>1. [n \in DOMAIN <<>> |-> Kept(<<>>[n])] = <<>>
  OBVIOUS
<1> QED
  BY <1>1, FlattenEmpty DEF Named

\* One name more is kept behind the others, if it is not empty.
LEMMA NamedAppend ==
  ASSUME NEW names \in Seq(Text), NEW name \in Text
  PROVE  Named(Append(names, name)) = Named(names) \o Kept(name)
<1> DEFINE long == Append(names, name)
           short == [n \in DOMAIN names |-> Kept(names[n])]
           kept == [n \in DOMAIN long |-> Kept(long[n])]
<1>1. /\ Len(names) \in Nat /\ DOMAIN names = 1..Len(names)
      /\ long \in Seq(Text) /\ Len(long) = Len(names) + 1 /\ DOMAIN long = 1..(Len(names) + 1)
      /\ long[Len(names) + 1] = name
      /\ \A n \in 1..Len(names) : long[n] = names[n]
  BY AppendProperties, LenProperties
<1>2. short \in Seq(Seq(Text)) /\ kept \in Seq(Seq(Text)) /\ Kept(name) \in Seq(Text)
  BY <1>1, KeptNames, KeptType
<1> HIDE DEF long
<1>3. Len(short) = Len(names) /\ Len(kept) = Len(names) + 1
  BY <1>1, <1>2
<1>4. /\ \A n \in 1..(Len(names) + 1) : kept[n] = Kept(long[n])
      /\ \A n \in 1..Len(names) : short[n] = Kept(names[n])
  BY <1>1
<1> HIDE DEF short, kept
<1> DEFINE other == Append(short, Kept(name))
<1>5. /\ other \in Seq(Seq(Text)) /\ Len(other) = Len(names) + 1
      /\ other[Len(names) + 1] = Kept(name)
      /\ \A n \in 1..Len(names) : other[n] = short[n]
  BY <1>2, <1>3, AppendProperties
<1> HIDE DEF other
<1>6. \A n \in 1..Len(kept) : kept[n] = other[n]
  <2> SUFFICES ASSUME NEW n \in 1..(Len(names) + 1)
               PROVE  kept[n] = other[n]
    BY <1>3
  <2>1. CASE n = Len(names) + 1
    BY <1>1, <1>4, <1>5, <2>1
  <2>2. CASE n # Len(names) + 1
    <3>1. n \in 1..Len(names)
      BY <1>1, <2>2
    <3> QED
      BY <1>1, <1>4, <1>5, <3>1
  <2> QED
    BY <2>1, <2>2
<1>7. kept = other
  BY <1>2, <1>3, <1>5, <1>6, SeqEqual
<1>8. FlattenSeq(other) = FlattenSeq(short) \o Kept(name)
  BY <1>2, FlattenAppend DEF other
<1> QED
  BY <1>7, <1>8 DEF Named, kept, short, long

\* The members of a sequence and of one more.
LEMMA AppendMembers ==
  ASSUME NEW S, NEW seq \in Seq(S), NEW x \in S
  PROVE  ToSet(Append(seq, x)) = ToSet(seq) \cup {x}
<1>1. /\ Len(seq) \in Nat /\ DOMAIN seq = 1..Len(seq)
      /\ DOMAIN Append(seq, x) = 1..(Len(seq) + 1)
      /\ Append(seq, x)[Len(seq) + 1] = x
      /\ \A n \in 1..Len(seq) : Append(seq, x)[n] = seq[n]
  BY AppendProperties, LenProperties
<1>2. \A n \in 1..(Len(seq) + 1) : n \in 1..Len(seq) \/ n = Len(seq) + 1
  BY <1>1
<1>3. \A n \in 1..Len(seq) : n \in 1..(Len(seq) + 1)
  BY <1>1
<1>4. Len(seq) + 1 \in 1..(Len(seq) + 1)
  BY <1>1
<1> QED
  BY <1>1, <1>2, <1>3, <1>4 DEF ToSet

\* It leaves out the empty names and no others.
LEMMA NamedHolds ==
  \A names \in Seq(Text) : ToSet(Named(names)) = ToSet(names) \ {<<>>}
<1> DEFINE P == {names \in Seq(Text) : ToSet(Named(names)) = ToSet(names) \ {<<>>}}
<1>1. <<>> \in P
  <2>1. ToSet(<<>>) = {}
    BY DEF ToSet
  <2> QED
    BY <2>1, NamedEmpty, EmptySeq
<1>2. ASSUME NEW names \in Seq(Text), names \in P, NEW name \in Text
      PROVE  Append(names, name) \in P
  <2>1. Append(names, name) \in Seq(Text) /\ Named(names) \in Seq(Text)
    BY AppendProperties, KeptNames
  <2>2. ToSet(Append(names, name)) = ToSet(names) \cup {name}
    BY AppendMembers
  <2>3. Named(Append(names, name)) = IF name = <<>> THEN Named(names)
                                     ELSE Append(Named(names), name)
    <3>1. Named(names) \o <<>> = Named(names)
      BY <2>1, ConcatEmptySeq
    <3>2. Named(names) \o <<name>> = Append(Named(names), name)
      BY <2>1, AppendIsConcat
    <3> QED
      BY <3>1, <3>2, NamedAppend DEF Kept
  <2>4. CASE name = <<>>
    BY <1>2, <2>1, <2>2, <2>3, <2>4
  <2>5. CASE name # <<>>
    <3>1. ToSet(Append(Named(names), name)) = ToSet(Named(names)) \cup {name}
      BY <2>1, AppendMembers
    <3> QED
      BY <1>2, <2>1, <2>2, <2>3, <2>5, <3>1
  <2> QED
    BY <2>4, <2>5
<1>3. \A names \in Seq(Text) : names \in P
  <2> HIDE DEF P
  <2> QED
    BY <1>1, <1>2, AppendInduction
<1> QED
  BY <1>3

-----------------------------------------------------------------------------
(***************************************************************************)
(* Lists of spellings                                                      *)
(***************************************************************************)

Raws(list) == [n \in DOMAIN list |-> list[n].raw]
Meant(list) == [n \in DOMAIN list |-> list[n].name]

\* A list as clients send it.
SentList(list) == list \in Seq(Spelling) /\ \A s \in ToSet(list) : Spells(s)

\* What the parser asks of a list of its own accord.
GoodList(list) == Len(list) <= MaxCount /\ \A s \in ToSet(list) : s.valid

\* The spellings of a list, and the names and texts they stand for.
LEMMA ListParts ==
  ASSUME NEW list, SentList(list)
  PROVE  /\ Len(list) \in Nat /\ DOMAIN list = 1..Len(list)
         /\ ToSet(list) = {list[n] : n \in 1..Len(list)}
         /\ \A n \in 1..Len(list) : list[n] \in Spelling /\ Spells(list[n])
<1>1. list \in Seq(Spelling) /\ \A s \in ToSet(list) : Spells(s)
  BY DEF SentList
<1>2. /\ Len(list) \in Nat /\ DOMAIN list = 1..Len(list)
      /\ \A n \in 1..Len(list) : list[n] \in Spelling
  BY <1>1, LenProperties, ElementOfSeq
<1>3. ToSet(list) = {list[n] : n \in 1..Len(list)}
  BY <1>2 DEF ToSet
<1> QED
  BY <1>1, <1>2, <1>3

\* What is sent of a list: texts without commas, joined.
LEMMA RawsOfList ==
  ASSUME NEW list, SentList(list)
  PROVE  /\ Raws(list) \in Seq(Text) /\ Len(Raws(list)) = Len(list)
         /\ DOMAIN Raws(list) = 1..Len(list)
         /\ FreeNames(Raws(list), Comma)
         /\ Spelled(list) = Join(Raws(list)) /\ Spelled(list) \in Text
<1>1. /\ Len(list) \in Nat /\ DOMAIN list = 1..Len(list)
      /\ \A n \in 1..Len(list) : list[n].raw \in Text /\ Free(list[n].raw, Comma)
  BY ListParts, SpellingParts
<1>2. Raws(list) = [n \in 1..Len(list) |-> list[n].raw]
  BY <1>1 DEF Raws
<1>3. Raws(list) \in Seq(Text) /\ Len(Raws(list)) = Len(list)
  BY <1>1, <1>2, IsASeq
<1>4. FreeNames(Raws(list), Comma)
  BY <1>1, <1>2, <1>3 DEF FreeNames
<1>5. Spelled(list) = Join(Raws(list))
  BY DEF Spelled, Raws
<1> QED
  BY <1>2, <1>3, <1>4, <1>5, JoinType

\* What is meant by a list: the names of its spellings that are not empty.
LEMMA MeantByList ==
  ASSUME NEW list, SentList(list)
  PROVE  /\ Meant(list) \in Seq(Text)
         /\ ToSet(Meant(list)) = {list[n].name : n \in 1..Len(list)}
         /\ Meaning(list) = Named(Meant(list)) /\ Meaning(list) \in Seq(Name)
<1>1. /\ Len(list) \in Nat /\ DOMAIN list = 1..Len(list)
      /\ \A n \in 1..Len(list) : list[n].name \in Text /\ Free(list[n].name, Comma)
  BY ListParts, SpellingParts, TrimSpelling
<1>2. Meant(list) = [n \in 1..Len(list) |-> list[n].name]
  BY <1>1 DEF Meant
<1>3. Meant(list) \in Seq(Text) /\ Len(Meant(list)) = Len(list) /\ DOMAIN Meant(list) = 1..Len(list)
  BY <1>1, <1>2, IsASeq
<1>4. ToSet(Meant(list)) = {list[n].name : n \in 1..Len(list)}
  BY <1>2, <1>3 DEF ToSet
<1>5. Meaning(list) = Named(Meant(list))
  BY DEF Meaning, Meant
<1>6. Named(Meant(list)) \in Seq(Name)
  <2> DEFINE kept == [n \in 1..Len(list) |-> Kept(Meant(list)[n])]
  <2>1. \A n \in 1..Len(list) : Kept(Meant(list)[n]) \in Seq(Name)
    BY <1>1, <1>2, KeptType
  <2>2. kept \in Seq(Seq(Name))
    BY <1>1, <2>1, IsASeq
  <2>3. Named(Meant(list)) = FlattenSeq(kept)
    BY <1>3 DEF Named
  <2> HIDE DEF kept
  <2> QED
    BY <2>2, <2>3, FlattenType
<1> QED
  BY <1>3, <1>4, <1>5, <1>6

\* Trimming what is sent leaves the names that are meant.
LEMMA TrimmedIsMeaning ==
  ASSUME NEW list, SentList(list)
  PROVE  Trimmed(Raws(list)) = Meaning(list)
<1>1. /\ DOMAIN list = 1..Len(list) /\ DOMAIN Raws(list) = 1..Len(list)
      /\ \A n \in 1..Len(list) : Raws(list)[n] = list[n].raw
      /\ \A n \in 1..Len(list) : TrimSpace(list[n].raw) = list[n].name
  BY ListParts, RawsOfList, TrimSpelling DEF Raws
<1>2. [n \in DOMAIN Raws(list) |-> TrimSpace(Raws(list)[n])] = Meant(list)
  BY <1>1 DEF Meant
<1> QED
  BY <1>2 DEF Trimmed, Meaning, Meant

\* The names the parser keeps are valid exactly if all are.
LEMMA ListValid ==
  ASSUME NEW list, SentList(list)
  PROVE  (\A name \in ToSet(Meaning(list)) : isValidAlgorithmName(name))
           <=> \A s \in ToSet(list) : s.valid
<1>1. ToSet(Meaning(list)) = {list[n].name : n \in 1..Len(list)} \ {<<>>}
  BY MeantByList, NamedHolds
<1>2. \A n \in 1..Len(list) :
        /\ list[n].name # <<>> => (isValidAlgorithmName(list[n].name) <=> list[n].valid)
        /\ list[n].name = <<>> => list[n].valid
  BY ListParts, ValidSpelling
<1>3. ToSet(list) = {list[n] : n \in 1..Len(list)}
  BY ListParts
<1> QED
  BY <1>1, <1>2, <1>3

\* A text that is not empty is split into what was sent.
LEMMA SplitSpelled ==
  ASSUME NEW list, SentList(list), Len(Spelled(list)) > 0
  PROVE  Split(Spelled(list)) = Raws(list)
<1>1. Raws(list) # <<>>
  <2>1. Raws(list) = <<>> => Spelled(list) = <<>>
    BY RawsOfList, JoinEmpty
  <2>2. Len(<<>>) = 0
    OBVIOUS
  <2> QED
    BY <2>1, <2>2
<1> QED
  BY <1>1, RawsOfList, SplitJoin

\* An empty text stands for no name at all, and nothing is wrong with that.
LEMMA EmptyText ==
  ASSUME NEW list, SentList(list), Len(Spelled(list)) = 0
  PROVE  Meaning(list) = <<>> /\ GoodList(list)
<1>1. Len(list) \in Nat /\ MaxCount \in Nat /\ MaxCount >= 1
  BY ListParts, Limits
<1>2. ASSUME Len(list) # 0
      PROVE  Len(list) = 1 /\ list[1].name = <<>>
  <2> DEFINE one == Append(<<>>, <<>>)
  <2>1. /\ one \in Seq(Text) /\ Len(one) = 1 /\ one[1] = <<>> /\ one # <<>>
        /\ Join(one) = <<>> /\ FreeNames(one, Comma)
    <3>1. <<>> \in Text /\ <<>> \in Seq(Text) /\ Len(<<>>) = 0
      BY EmptySeq DEF Text
    <3>2. one \in Seq(Text) /\ Len(one) = 1 /\ one[1] = <<>>
      BY <3>1, AppendProperties
    <3>3. Join(one) = <<>>
      BY <3>1, JoinOne
    <3>4. Free(<<>>, Comma) /\ FreeNames(<<>>, Comma)
      BY <3>1 DEF Free, FreeNames
    <3>5. FreeNames(one, Comma)
      BY <3>1, <3>4, AppendFree
    <3> QED
      BY <3>1, <3>2, <3>3, <3>5
  <2> HIDE DEF one
  <2>2. Raws(list) # <<>> /\ Join(Raws(list)) = <<>>
    <3>1. Spelled(list) = <<>>
      BY RawsOfList, EmptySeq DEF Text
    <3>2. Len(Raws(list)) # 0
      BY <1>2, RawsOfList
    <3> QED
      BY <3>1, <3>2, RawsOfList
  <2>3. Raws(list) = one
    BY <2>1, <2>2, RawsOfList, JoinInjective
  <2>4. Len(list) = 1
    BY <2>1, <2>3, RawsOfList
  <2>5. list[1].raw = <<>>
    <3>1. 1 \in DOMAIN list
      BY <2>4, ListParts
    <3>2. Raws(list)[1] = list[1].raw
      BY <3>1 DEF Raws
    <3> QED
      BY <2>1, <2>3, <3>2
  <2>6. TrimSpace(<<>>) = <<>>
    BY DEF TrimSpace
  <2>7. TrimSpace(list[1].raw) = list[1].name
    BY <2>4, ListParts, TrimSpelling
  <2> QED
    BY <2>4, <2>5, <2>6, <2>7
<1>3. ToSet(Meaning(list)) = {list[n].name : n \in 1..Len(list)} \ {<<>>}
  BY MeantByList, NamedHolds
<1>4. ToSet(Meaning(list)) = {}
  <2>1. ASSUME NEW n \in 1..Len(list)
        PROVE  list[n].name = <<>>
    <3>1. Len(list) # 0
      BY <1>1
    <3>2. Len(list) = 1 /\ list[1].name = <<>>
      BY <1>2, <3>1
    <3>3. n \in 1..1
      BY <3>2
    <3>4. n = 1
      BY <3>3
    <3> QED
      BY <3>2, <3>4
  <2>2. \A n \in 1..Len(list) : list[n].name = <<>>
    BY <2>1
  <2> QED
    BY <1>3, <2>2
<1>5. Meaning(list) = <<>>
  <2>1. /\ Meaning(list) \in Seq(Name) /\ Len(Meaning(list)) \in Nat
        /\ DOMAIN Meaning(list) = 1..Len(Meaning(list))
    BY MeantByList, LenProperties
  <2>2. 1 \notin 1..Len(Meaning(list))
    BY <1>4, <2>1 DEF ToSet
  <2>3. Len(Meaning(list)) = 0
    BY <2>1, <2>2
  <2> QED
    BY <2>1, <2>3, EmptySeq
<1>6. \A s \in ToSet(list) : s.valid
  BY <1>4, ListValid
<1>7. Len(list) <= MaxCount
  BY <1>1, <1>2
<1> QED
  BY <1>5, <1>6, <1>7 DEF GoodList

-----------------------------------------------------------------------------
(***************************************************************************)
(* One name-list                                                           *)
(***************************************************************************)

\* A part of a text, behind its first a bytes.
LEMMA PartOf ==
  ASSUME NEW t \in Text, NEW a \in Nat, NEW b \in Nat, a <= b, b <= Len(t)
  PROVE  /\ SubSeq(t, a + 1, b) \in Text /\ Len(SubSeq(t, a + 1, b)) = b - a
         /\ \A i \in 1..(b - a) : SubSeq(t, a + 1, b)[i] = t[a + i]
<1> DEFINE part == SubSeq(t, a + 1, b)
<1>1. Len(t) \in Nat /\ \A i \in 1..Len(t) : t[i] \in Nat
  BY LenProperties, ElementOfSeq DEF Text
<1>2. \A i \in (a + 1)..b : t[i] \in Nat
  BY <1>1
<1>3. /\ part \in Seq(Nat)
      /\ Len(part) = IF a + 1 <= b THEN b - (a + 1) + 1 ELSE 0
      /\ \A i \in 1..(b - (a + 1) + 1) : part[i] = t[(a + 1) + i - 1]
  BY <1>2, SubSeqProperties
<1> HIDE DEF part
<1>4. Len(part) = b - a /\ b - (a + 1) + 1 = b - a
  BY <1>3
<1>5. \A i \in 1..(b - a) : part[i] = t[a + i]
  <2> TAKE i \in 1..(b - a)
  <2>1. (a + 1) + i - 1 = a + i
    OBVIOUS
  <2> QED
    BY <1>3, <1>4, <2>1
<1> QED
  BY <1>3, <1>4, <1>5 DEF part, Text

\* Two texts of one length with the same bytes are one.
LEMMA SameText ==
  ASSUME NEW t \in Text, NEW u \in Text, Len(t) = Len(u), \A i \in 1..Len(t) : t[i] = u[i]
  PROVE  t = u
  BY SeqEqual DEF Text

\* Four bytes hold a length.
LEMMA WordBytes ==
  ASSUME NEW n \in Nat
  PROVE  /\ Word(n) \in Text /\ Len(Word(n)) = 4
         /\ ((Word(n)[1] * 256 + Word(n)[2]) * 256 + Word(n)[3]) * 256 + Word(n)[4] = n
<1> DEFINE a == n \div 16777216
           b == (n \div 65536) % 256
           c == (n \div 256) % 256
           d == n % 256
<1>1. a \in Nat /\ b \in Nat /\ c \in Nat /\ d \in Nat
  OBVIOUS
<1>2. ((a * 256 + b) * 256 + c) * 256 + d = n
  OBVIOUS
<1>3. Word(n) = <<a, b, c, d>>
  BY DEF Word
<1> HIDE DEF a, b, c, d
<1>4. <<a, b, c, d>> \in Text
  BY <1>1 DEF Text
<1> QED
  BY <1>2, <1>3, <1>4

\* Four bytes that are the word of a number are read as that number.
LEMMA Uint32At ==
  ASSUME NEW n \in Nat, NEW data, NEW offset \in Nat,
         \A i \in 1..4 : data[offset + i] = Word(n)[i]
  PROVE  Uint32(data, offset) = n
  BY WordBytes DEF Uint32

\* A list and its length are at an offset of the data, as far as the data goes.
HasField(data, offset, list) ==
  /\ \A i \in 1..4 :
       offset + i <= Len(data) => data[offset + i] = Word(Len(Spelled(list)))[i]
  /\ \A i \in 1..Len(Spelled(list)) :
       offset + 4 + i <= Len(data) => data[offset + 4 + i] = Spelled(list)[i]

\* The parser takes the list if all of it is there and nothing is wrong with it.
LEMMA ParseField ==
  ASSUME NEW data \in Text, NEW offset \in Nat, NEW list, SentList(list),
         HasField(data, offset, list)
  PROVE  parseNameList(data, offset) =
           IF /\ offset + 4 + Len(Spelled(list)) <= Len(data)
              /\ Len(Spelled(list)) <= MaxPayload /\ GoodList(list)
           THEN [ok |-> TRUE, next |-> offset + 4 + Len(Spelled(list)), names |-> Meaning(list)]
           ELSE [ok |-> FALSE, next |-> offset, names |-> <<>>]
<1> DEFINE text == Spelled(list)
           n == Len(text)
           length == Uint32(data, offset)
           names == Split(SubSeq(data, offset + 5, offset + 4 + length))
           sanitized == sanitizeAlgorithmNames(names)
           fits == /\ offset + 4 <= Len(data)
                   /\ length <= MaxPayload /\ length <= Len(data) - (offset + 4)
                   /\ length > 0 => Len(names) <= MaxCount /\ sanitized.ok
           fails == [ok |-> FALSE, next |-> offset, names |-> <<>>]
<1>1. /\ text \in Text /\ n \in Nat /\ Len(data) \in Nat /\ DOMAIN data = 1..Len(data)
      /\ MaxPayload \in Nat /\ MaxCount \in Nat
  BY RawsOfList, LenProperties, Limits DEF Text
<1>2. parseNameList(data, offset) =
        IF fits THEN [ok |-> TRUE, next |-> offset + 4 + length,
                      names |-> IF length = 0 THEN <<>> ELSE sanitized.names]
        ELSE fails
  BY DEF parseNameList
<1>3. /\ \A i \in 1..4 : offset + i <= Len(data) => data[offset + i] = Word(n)[i]
      /\ \A i \in 1..n : offset + 4 + i <= Len(data) => data[offset + 4 + i] = text[i]
  BY DEF HasField
<1>4. CASE offset + 4 > Len(data)
  <2>1. ~fits /\ ~(offset + 4 + n <= Len(data))
    BY <1>1, <1>4
  <2> QED
    BY <1>2, <2>1
<1>5. CASE offset + 4 <= Len(data)
  <2>1. length = n
    <3>1. \A i \in 1..4 : data[offset + i] = Word(n)[i]
      BY <1>1, <1>3, <1>5
    <3> HIDE DEF n
    <3> QED
      BY <1>1, <3>1, Uint32At
  <2> HIDE DEF length
  <2>2. CASE offset + 4 + n > Len(data)
    <3>1. ~fits /\ ~(offset + 4 + n <= Len(data))
      BY <1>1, <2>1, <2>2
    <3> QED
      BY <1>2, <3>1
  <2>3. CASE offset + 4 + n <= Len(data)
    <3>1. SubSeq(data, offset + 5, offset + 4 + length) = text
      <4> DEFINE part == SubSeq(data, offset + 5, offset + 4 + length)
                 start == offset + 4
                 end == offset + 4 + n
      <4> HIDE DEF n
      <4>1. start \in Nat /\ end \in Nat /\ start <= end /\ end <= Len(data) /\ end - start = n
        BY <1>1, <2>3
      <4>2. part = SubSeq(data, start + 1, end)
        <5>1. start + 1 = offset + 5
          OBVIOUS
        <5> QED
          BY <2>1, <5>1
      <4> HIDE DEF start, end, part
      <4>3. part \in Text /\ Len(part) = n /\ \A i \in 1..n : part[i] = data[start + i]
        BY <4>1, <4>2, PartOf
      <4>4. \A i \in 1..n : part[i] = text[i]
        <5> TAKE i \in 1..n
        <5>1. offset + 4 + i <= Len(data) /\ start + i = offset + 4 + i
          BY <1>1, <2>3 DEF start
        <5> QED
          BY <1>3, <4>3, <5>1
      <4> HIDE DEF text
      <4>5. part = text
        BY <1>1, <4>3, <4>4, SameText DEF n
      <4> QED
        BY <4>5 DEF part
    <3>2. CASE n = 0
      <4>1. Meaning(list) = <<>> /\ GoodList(list)
        BY <3>2, EmptyText
      <4>2. fits <=> n <= MaxPayload
        BY <1>1, <1>5, <2>1, <2>3, <3>2
      <4> HIDE DEF fits
      <4> QED
        BY <1>2, <2>1, <2>3, <3>2, <4>1, <4>2
    <3>3. CASE n # 0
      <4>1. n > 0
        BY <1>1, <3>3
      <4>2. names = Raws(list)
        BY <3>1, <4>1, SplitSpelled
      <4> HIDE DEF names
      <4>3. sanitized.names = Meaning(list) /\ Len(names) = Len(list)
        BY <4>2, TrimmedIsMeaning, RawsOfList DEF sanitizeAlgorithmNames
      <4>4. sanitized.ok <=> \A s \in ToSet(list) : s.valid
        BY <4>2, TrimmedIsMeaning, ListValid DEF sanitizeAlgorithmNames
      <4> HIDE DEF sanitized
      <4>5. fits <=> n <= MaxPayload /\ GoodList(list)
        BY <1>1, <1>5, <2>1, <2>3, <4>1, <4>3, <4>4 DEF GoodList
      <4> HIDE DEF fits
      <4> QED
        BY <1>2, <2>1, <2>3, <3>3, <4>3, <4>5
    <3> QED
      BY <3>2, <3>3
  <2> QED
    BY <1>1, <2>2, <2>3
<1> QED
  BY <1>1, <1>4, <1>5

-----------------------------------------------------------------------------
(***************************************************************************)
(* The payload                                                             *)
(***************************************************************************)

\* Two texts, one behind the other.
LEMMA TwoTexts ==
  ASSUME NEW u \in Text, NEW v \in Text
  PROVE  /\ u \o v \in Text /\ Len(u \o v) = Len(u) + Len(v)
         /\ Len(u) \in Nat /\ Len(v) \in Nat
         /\ \A i \in 1..Len(u) : (u \o v)[i] = u[i]
         /\ \A i \in 1..Len(v) : (u \o v)[Len(u) + i] = v[i]
<1>1. u \in Seq(Nat) /\ v \in Seq(Nat) /\ Len(u) \in Nat /\ Len(v) \in Nat
  BY LenProperties DEF Text
<1>2. /\ u \o v \in Seq(Nat) /\ Len(u \o v) = Len(u) + Len(v)
      /\ \A i \in 1..(Len(u) + Len(v)) :
           (u \o v)[i] = IF i <= Len(u) THEN u[i] ELSE v[i - Len(u)]
  BY <1>1, ConcatProperties
<1> DEFINE both == u \o v
<1> HIDE DEF both
<1>3. \A i \in 1..Len(u) : both[i] = u[i]
  BY <1>1, <1>2 DEF both
<1>4. \A i \in 1..Len(v) : both[Len(u) + i] = v[i]
  <2> TAKE i \in 1..Len(v)
  <2> DEFINE j == Len(u) + i
  <2>1. j \in 1..(Len(u) + Len(v)) /\ ~(j <= Len(u)) /\ j - Len(u) = i
    BY <1>1
  <2> HIDE DEF j
  <2>2. both[j] = v[j - Len(u)]
    BY <1>2, <2>1 DEF both
  <2> QED
    BY <2>1, <2>2 DEF j
<1> QED
  BY <1>1, <1>2, <1>3, <1>4 DEF Text, both

\* A hello of the model's clients, and its parts.
SentHello(h) ==
  /\ h \in Hello
  /\ \A i \in 1..10 : \A s \in ToSet(h.lists[i]) : Spells(s)

\* The parts of a hello have the types the parser relies on.
LEMMA HelloParts ==
  ASSUME NEW h, SentHello(h)
  PROVE  /\ h.before \in Text /\ h.line \in Text /\ h.after \in Text
         /\ h.type \in Nat /\ h.cut \in Nat /\ h.padding \in Nat
         /\ \A i \in 1..10 : SentList(h.lists[i])
<1>1. /\ h.before \in Seq(Byte) /\ h.line \in Seq(Byte) /\ h.after \in Seq(Byte)
      /\ h.type \in Byte /\ h.cut \in Nat /\ h.padding \in Byte
      /\ h.lists \in [1..10 -> Seq(Spelling)]
  BY DEF SentHello, Hello
<1>2. Byte \subseteq Nat
  BY DEF Byte
<1>3. h.before \in Text /\ h.line \in Text /\ h.after \in Text
  BY <1>1, <1>2, SeqMonotonic DEF Text
<1>4. \A i \in 1..10 : SentList(h.lists[i])
  BY <1>1 DEF SentHello, SentList
<1> QED
  BY <1>1, <1>2, <1>3, <1>4

Field(list) == Word(Len(Spelled(list))) \o Spelled(list)
Fields(h) == [i \in 1..10 |-> Field(h.lists[i])]

\* Where the lists behind the first i begin.
Offset(h, i) == 17 + Len(FlattenSeq(First(Fields(h), i)))

Whole(h) == (<<h.type>> \o Zeros(16)) \o FlattenSeq(Fields(h)) \o Zeros(5)

\* A field is the word of its length and then its text.
LEMMA FieldBytes ==
  ASSUME NEW list, SentList(list)
  PROVE  /\ Field(list) \in Text /\ Len(Field(list)) = 4 + Len(Spelled(list))
         /\ Len(Spelled(list)) \in Nat
         /\ \A k \in 1..4 : Field(list)[k] = Word(Len(Spelled(list)))[k]
         /\ \A k \in 1..Len(Spelled(list)) : Field(list)[4 + k] = Spelled(list)[k]
<1> DEFINE text == Spelled(list)
           word == Word(Len(text))
<1>1. text \in Text /\ Len(text) \in Nat
  BY RawsOfList, LenProperties DEF Text
<1> HIDE DEF text
<1>2. word \in Text /\ Len(word) = 4
  BY <1>1, WordBytes
<1> HIDE DEF word
<1>3. Field(list) = word \o text
  BY DEF Field, word, text
<1>4. /\ Field(list) \in Text /\ Len(Field(list)) = 4 + Len(text)
      /\ \A k \in 1..4 : Field(list)[k] = word[k]
      /\ \A k \in 1..Len(text) : Field(list)[4 + k] = text[k]
  <2> DEFINE both == word \o text
  <2>1. /\ both \in Text /\ Len(both) = Len(word) + Len(text)
        /\ \A i \in 1..Len(word) : both[i] = word[i]
        /\ \A i \in 1..Len(text) : both[Len(word) + i] = text[i]
    BY <1>1, <1>2, TwoTexts
  <2> HIDE DEF both
  <2>2. Field(list) = both
    BY <1>3 DEF both
  <2> QED
    BY <1>2, <2>1, <2>2
<1> QED
  BY <1>1, <1>4 DEF word, text

\* The ten fields of a hello, and where each begins.
LEMMA FieldsOfHello ==
  ASSUME NEW h, SentHello(h)
  PROVE  /\ Fields(h) \in Seq(Text) /\ Len(Fields(h)) = 10
         /\ FlattenSeq(Fields(h)) \in Text
         /\ \A i \in 1..10 : Fields(h)[i] = Field(h.lists[i])
         /\ \A i \in 0..10 : First(Fields(h), i) \in Seq(Text)
                             /\ FlattenSeq(First(Fields(h), i)) \in Text
                             /\ Offset(h, i) \in Nat
<1>1. \A i \in 1..10 : Field(h.lists[i]) \in Text
  BY HelloParts, FieldBytes
<1>2. Fields(h) \in Seq(Text) /\ Len(Fields(h)) = 10
  BY <1>1, IsASeq DEF Fields
<1>3. \A i \in 1..10 : Fields(h)[i] = Field(h.lists[i])
  BY DEF Fields
<1>4. ASSUME NEW i \in 0..10
      PROVE  First(Fields(h), i) \in Seq(Text)
  <2>1. \A n \in 1..i : Fields(h)[n] \in Text
    BY <1>1, <1>3
  <2> QED
    BY <2>1, SubSeqProperties DEF First
<1>5. \A ss \in Seq(Text) : FlattenSeq(ss) \in Text /\ Len(FlattenSeq(ss)) \in Nat
  BY FlattenType, LenProperties DEF Text
<1>6. ASSUME NEW i \in 0..10
      PROVE  FlattenSeq(First(Fields(h), i)) \in Text /\ Offset(h, i) \in Nat
  <2> DEFINE ss == First(Fields(h), i)
  <2>1. ss \in Seq(Text)
    BY <1>4
  <2> HIDE DEF ss
  <2>2. FlattenSeq(ss) \in Text /\ Len(FlattenSeq(ss)) \in Nat
    BY <1>5, <2>1
  <2> QED
    BY <2>2 DEF Offset, ss
<1> QED
  BY <1>2, <1>3, <1>4, <1>5, <1>6

\* One list follows another.
LEMMA OffsetNext ==
  ASSUME NEW h, SentHello(h)
  PROVE  /\ Offset(h, 0) = 17
         /\ \A i \in 0..9 : /\ Offset(h, i + 1) = Offset(h, i) + 4 + Len(Spelled(h.lists[i + 1]))
                            /\ FlattenSeq(First(Fields(h), i + 1))
                                 = FlattenSeq(First(Fields(h), i)) \o Field(h.lists[i + 1])
<1>1. Offset(h, 0) = 17
  <2>1. First(Fields(h), 0) = <<>> /\ Len(<<>>) = 0
    BY FieldsOfHello, FirstNone
  <2> QED
    BY <2>1, FlattenEmpty DEF Offset
<1>2. ASSUME NEW i \in 0..9
      PROVE  /\ FlattenSeq(First(Fields(h), i + 1))
                  = FlattenSeq(First(Fields(h), i)) \o Field(h.lists[i + 1])
             /\ Offset(h, i + 1) = Offset(h, i) + 4 + Len(Spelled(h.lists[i + 1]))
  <2> DEFINE list == h.lists[i + 1]
             front == FlattenSeq(First(Fields(h), i))
  <2>1. i + 1 \in 1..10 /\ i \in 0..10
    OBVIOUS
  <2>2. /\ First(Fields(h), i) \in Seq(Text) /\ Fields(h)[i + 1] = Field(list)
        /\ First(Fields(h), i + 1) = Append(First(Fields(h), i), Field(list))
    <3> DEFINE all == Fields(h)
    <3>1. all \in Seq(Text) /\ Len(all) = 10 /\ all[i + 1] = Field(list)
      BY <2>1, FieldsOfHello
    <3> HIDE DEF all
    <3>2. i \in 0..(Len(all) - 1)
      BY <3>1
    <3>3. First(all, i) \in Seq(Text) /\ First(all, i + 1) = Append(First(all, i), all[i + 1])
      BY <3>1, <3>2, FirstNext
    <3> QED
      BY <3>1, <3>3 DEF all
  <2>3. Field(list) \in Text /\ Len(Field(list)) = 4 + Len(Spelled(list)) /\ Len(Spelled(list)) \in Nat
    BY <2>1, HelloParts, FieldBytes
  <2>4. FlattenSeq(First(Fields(h), i + 1)) = front \o Field(list)
    BY <2>2, <2>3, FlattenAppend DEF Text
  <2>5. front \in Text
    BY <2>1, FieldsOfHello
  <2>6. Len(front \o Field(list)) = Len(front) + Len(Field(list)) /\ Len(front) \in Nat
    <3> HIDE DEF front, list
    <3> QED
      BY <2>3, <2>5, TwoTexts
  <2>7. Offset(h, i + 1) = 17 + (Len(front) + (4 + Len(Spelled(list)))) /\ Offset(h, i) = 17 + Len(front)
    BY <2>3, <2>4, <2>6 DEF Offset
  <2> HIDE DEF front, list
  <2>8. Offset(h, i + 1) = Offset(h, i) + 4 + Len(Spelled(list))
    BY <2>3, <2>6, <2>7
  <2> QED
    BY <2>4, <2>8 DEF front, list
<1> QED
  BY <1>1, <1>2

\* The bytes that a list takes up among those of all lists.
LEMMA FieldInMiddle ==
  ASSUME NEW h, SentHello(h), NEW i \in 0..9
  PROVE  /\ Offset(h, i + 1) <= 17 + Len(FlattenSeq(Fields(h)))
         /\ \A k \in 1..Len(Field(h.lists[i + 1])) :
              /\ (Offset(h, i) - 17) + k \in 1..Len(FlattenSeq(Fields(h)))
              /\ FlattenSeq(Fields(h))[(Offset(h, i) - 17) + k] = Field(h.lists[i + 1])[k]
<1> DEFINE all == Fields(h)
           front == FlattenSeq(First(all, i))
           field == Field(h.lists[i + 1])
           middle == FlattenSeq(all)
<1>1. i \in 0..10 /\ i + 1 \in 0..10 /\ i + 1 \in 1..10
  OBVIOUS
<1>2. all \in Seq(Text) /\ Len(all) = 10 /\ front \in Text /\ field \in Text /\ middle \in Text
  BY <1>1, FieldsOfHello, HelloParts, FieldBytes
<1>3. PICK rest \in Text : middle = FlattenSeq(First(all, i + 1)) \o rest
  <2> HIDE DEF all
  <2>1. i + 1 \in 0..Len(all)
    BY <1>1, <1>2
  <2> QED
    BY <1>2, <2>1, FlattenBegins DEF Text
<1>4. FlattenSeq(First(all, i + 1)) = front \o field
  BY OffsetNext
<1>5. Offset(h, i) = 17 + Len(front) /\ Offset(h, i + 1) = 17 + Len(front \o field)
  BY <1>4 DEF Offset
<1> HIDE DEF front, field, middle, all
<1> DEFINE both == front \o field
<1>6. /\ both \in Text /\ Len(both) = Len(front) + Len(field)
      /\ Len(front) \in Nat /\ Len(field) \in Nat
      /\ \A k \in 1..Len(field) : both[Len(front) + k] = field[k]
  BY <1>2, TwoTexts
<1> HIDE DEF both
<1>7. /\ Len(middle) = Len(both) + Len(rest) /\ Len(rest) \in Nat
      /\ \A j \in 1..Len(both) : middle[j] = both[j]
  <2>1. middle = both \o rest
    BY <1>3, <1>4 DEF both
  <2> QED
    BY <1>6, <2>1, TwoTexts
<1>8. Offset(h, i) - 17 = Len(front) /\ Offset(h, i + 1) = 17 + Len(both)
  BY <1>5, <1>6 DEF both
<1>9. Offset(h, i + 1) <= 17 + Len(middle)
  BY <1>6, <1>7, <1>8
<1>10. ASSUME NEW k \in 1..Len(field)
       PROVE  /\ (Offset(h, i) - 17) + k \in 1..Len(middle)
              /\ middle[(Offset(h, i) - 17) + k] = field[k]
  <2> DEFINE j == Len(front) + k
  <2>1. j \in 1..Len(both) /\ j \in 1..Len(middle) /\ (Offset(h, i) - 17) + k = j
    <3>1. k \in Nat /\ k >= 1 /\ k <= Len(field)
      BY <1>6
    <3>2. j \in Nat /\ j >= 1 /\ j <= Len(both) /\ Len(both) <= Len(middle) /\ Len(both) \in Nat
          /\ Len(middle) \in Nat
      BY <1>6, <1>7, <3>1
    <3>3. (Offset(h, i) - 17) + k = j
      BY <1>8
    <3> HIDE DEF j
    <3> QED
      BY <3>2, <3>3
  <2>2. both[j] = field[k]
    BY <1>6
  <2> HIDE DEF j
  <2> QED
    BY <1>7, <2>1, <2>2
<1> QED
  BY <1>9, <1>10 DEF middle, all, field

\* Zeros are a text of the length asked for.
LEMMA ZerosText ==
  ASSUME NEW n \in Nat
  PROVE  Zeros(n) \in Text /\ Len(Zeros(n)) = n
  BY IsASeq DEF Zeros, Text

\* The payload as a whole: its type, and where the lists are in it.
LEMMA WholeBytes ==
  ASSUME NEW h, SentHello(h)
  PROVE  /\ Whole(h) \in Text /\ Len(Whole(h)) = Offset(h, 10) + 5
         /\ Whole(h)[1] = h.type
         /\ \A i \in 0..9 :
              /\ Offset(h, i + 1) <= Offset(h, 10)
              /\ \A k \in 1..Len(Field(h.lists[i + 1])) :
                   Whole(h)[Offset(h, i) + k] = Field(h.lists[i + 1])[k]
<1> DEFINE type == <<h.type>>
           zeros == Zeros(16)
           start == type \o zeros
           middle == FlattenSeq(Fields(h))
           end == Zeros(5)
<1>1. /\ type \in Text /\ Len(type) = 1 /\ type[1] = h.type
      /\ zeros \in Text /\ Len(zeros) = 16
      /\ middle \in Text /\ Len(middle) \in Nat
      /\ end \in Text /\ Len(end) = 5
  <2>1. h.type \in Nat
    BY HelloParts
  <2>2. type \in Text
    BY <2>1 DEF Text
  <2>3. middle \in Text
    BY FieldsOfHello
  <2>4. Len(middle) \in Nat
    BY <2>3, LenProperties DEF Text
  <2> HIDE DEF middle
  <2> QED
    BY <2>2, <2>3, <2>4, ZerosText
<1>2. Whole(h) = (start \o middle) \o end
  BY DEF Whole
<1>3. ASSUME NEW i \in 0..9
      PROVE  /\ Offset(h, i + 1) <= 17 + Len(middle) /\ Offset(h, i) \in Nat /\ Offset(h, i) >= 17
             /\ \A k \in 1..Len(Field(h.lists[i + 1])) :
                  /\ (Offset(h, i) - 17) + k \in 1..Len(middle)
                  /\ middle[(Offset(h, i) - 17) + k] = Field(h.lists[i + 1])[k]
  <2>1. Len(FlattenSeq(First(Fields(h), i))) \in Nat
    <3>1. i \in 0..10
      OBVIOUS
    <3>2. FlattenSeq(First(Fields(h), i)) \in Text
      BY <3>1, FieldsOfHello
    <3> QED
      BY <3>2, LenProperties DEF Text
  <2>2. Offset(h, i) \in Nat /\ Offset(h, i) >= 17
    BY <2>1 DEF Offset
  <2> QED
    BY <2>2, FieldInMiddle
<1>4. Offset(h, 10) = 17 + Len(middle)
  <2>1. First(Fields(h), 10) = Fields(h)
    <3> DEFINE all == Fields(h)
    <3>1. all \in Seq(Text) /\ Len(all) = 10
      BY FieldsOfHello
    <3> HIDE DEF all
    <3>2. First(all, 10) = all
      BY <3>1, FirstAll
    <3> QED
      BY <3>2 DEF all
  <2> QED
    BY <2>1 DEF Offset
<1> HIDE DEF type, zeros, middle, end
<1>5. start \in Text /\ Len(start) = 17 /\ start[1] = h.type
  <2>1. 1 \in 1..Len(type)
    BY <1>1
  <2>2. start \in Text /\ Len(start) = Len(type) + Len(zeros) /\ start[1] = type[1]
    BY <1>1, <2>1, TwoTexts
  <2> QED
    BY <1>1, <2>2
<1> HIDE DEF start
<1> DEFINE both == start \o middle
<1>6. /\ both \in Text /\ Len(both) = Len(start) + Len(middle)
      /\ \A j \in 1..Len(start) : both[j] = start[j]
      /\ \A j \in 1..Len(middle) : both[Len(start) + j] = middle[j]
  BY <1>1, <1>5, TwoTexts
<1>7. /\ Whole(h) \in Text /\ Len(Whole(h)) = Len(both) + Len(end)
      /\ \A j \in 1..Len(both) : Whole(h)[j] = both[j]
  <2> HIDE DEF both
  <2>1. /\ both \o end \in Text /\ Len(both \o end) = Len(both) + Len(end)
        /\ \A j \in 1..Len(both) : (both \o end)[j] = both[j]
    BY <1>1, <1>6, TwoTexts
  <2> QED
    BY <1>2, <2>1 DEF both
<1> HIDE DEF both
<1>8. Len(Whole(h)) = Offset(h, 10) + 5
  BY <1>1, <1>4, <1>5, <1>6, <1>7
<1>9. Whole(h)[1] = h.type
  <2>1. 1 \in 1..Len(start) /\ 1 \in 1..Len(both)
    BY <1>1, <1>5, <1>6
  <2> QED
    BY <1>5, <1>6, <1>7, <2>1
<1>10. ASSUME NEW i \in 0..9, NEW k \in 1..Len(Field(h.lists[i + 1]))
       PROVE  Whole(h)[Offset(h, i) + k] = Field(h.lists[i + 1])[k]
  <2> DEFINE j == (Offset(h, i) - 17) + k
  <2>1. k \in Nat /\ Offset(h, i) \in Nat
    <3>1. i + 1 \in 1..10
      OBVIOUS
    <3>2. Field(h.lists[i + 1]) \in Seq(Nat)
      BY <3>1, HelloParts, FieldBytes DEF Text
    <3>3. Len(Field(h.lists[i + 1])) \in Nat
      BY <3>2, LenProperties
    <3>4. k \in Nat
      BY <3>3
    <3> QED
      BY <1>3, <3>4
  <2>2. j \in 1..Len(middle) /\ middle[j] = Field(h.lists[i + 1])[k]
    BY <1>3
  <2>3. Offset(h, i) + k = 17 + j
    BY <2>1
  <2> HIDE DEF j
  <2>4. 17 + j \in 1..Len(both) /\ both[17 + j] = middle[j]
    BY <1>1, <1>5, <1>6, <2>2
  <2> QED
    BY <1>7, <2>2, <2>3, <2>4
<1> QED
  BY <1>3, <1>4, <1>7, <1>8, <1>9, <1>10

\* The payload is the whole, less what is cut off.
LEMMA PayloadBytes ==
  ASSUME NEW h, SentHello(h)
  PROVE  /\ Payload(h) \in Text /\ Len(Payload(h)) \in Nat
         /\ Len(Payload(h)) <= Offset(h, 10) + 5
         /\ Len(Payload(h)) = Offset(h, 10) + 5 <=> h.cut = 0
         /\ \A i \in 1..Len(Payload(h)) : Payload(h)[i] = Whole(h)[i]
<1> DEFINE whole == Whole(h)
           end == Len(whole) - h.cut
<1>1. Payload(h) = SubSeq(whole, 1, end)
  BY DEF Payload, Whole, Fields, Field
<1>2. whole \in Text /\ Len(whole) \in Nat /\ Len(whole) = Offset(h, 10) + 5 /\ h.cut \in Nat
  BY WholeBytes, HelloParts, LenProperties DEF Text
<1>3. Offset(h, 10) \in Nat
  BY FieldsOfHello
<1> HIDE DEF whole
<1>4. CASE end < 0
  <2>1. Payload(h) = <<>>
    BY <1>1, <1>2, <1>4, SubSeqEmpty
  <2>2. Payload(h) \in Text /\ Len(Payload(h)) = 0
    BY <2>1, EmptySeq DEF Text
  <2> QED
    BY <1>2, <1>3, <1>4, <2>2
<1>5. CASE end >= 0
  <2>1. end \in Nat /\ 0 + 1 = 1 /\ end - 0 = end /\ end <= Len(whole)
    BY <1>2, <1>5
  <2> HIDE DEF end
  <2>2. /\ SubSeq(whole, 0 + 1, end) \in Text /\ Len(SubSeq(whole, 0 + 1, end)) = end - 0
        /\ \A i \in 1..(end - 0) : SubSeq(whole, 0 + 1, end)[i] = whole[0 + i]
    BY <1>2, <2>1, PartOf
  <2>3. /\ Payload(h) \in Text /\ Len(Payload(h)) = end
        /\ \A i \in 1..end : Payload(h)[i] = whole[i]
    BY <1>1, <2>1, <2>2
  <2> QED
    BY <1>2, <2>1, <2>3 DEF end, whole
<1> QED
  BY <1>2, <1>4, <1>5

\* Each list is a field of the payload as far as the cut has left it.
LEMMA FieldInPayload ==
  ASSUME NEW h, SentHello(h), NEW i \in 0..9
  PROVE  HasField(Payload(h), Offset(h, i), h.lists[i + 1])
<1> DEFINE text == Spelled(h.lists[i + 1])
           field == Field(h.lists[i + 1])
           data == Payload(h)
           from == Offset(h, i)
<1>1. i + 1 \in 1..10 /\ i \in 0..10
  OBVIOUS
<1>2. /\ field \in Text /\ Len(field) = 4 + Len(text) /\ Len(text) \in Nat
      /\ \A k \in 1..4 : field[k] = Word(Len(text))[k]
      /\ \A k \in 1..Len(text) : field[4 + k] = text[k]
  BY <1>1, HelloParts, FieldBytes
<1>3. from \in Nat
  BY <1>1, FieldsOfHello
<1>4. /\ Len(data) \in Nat
      /\ \A j \in 1..Len(data) : data[j] = Whole(h)[j]
  BY PayloadBytes
<1>5. \A k \in 1..Len(field) : Whole(h)[from + k] = field[k]
  BY WholeBytes
<1> HIDE DEF text, field, data, from
<1>6. ASSUME NEW k \in 1..Len(field), from + k <= Len(data)
      PROVE  data[from + k] = field[k]
  <2>1. from + k \in 1..Len(data)
    BY <1>2, <1>3, <1>4, <1>6
  <2> QED
    BY <1>4, <1>5, <2>1
<1>7. ASSUME NEW k \in 1..4, from + k <= Len(data)
      PROVE  data[from + k] = Word(Len(text))[k]
  <2>1. k \in 1..Len(field)
    BY <1>2
  <2> QED
    BY <1>2, <1>6, <1>7, <2>1
<1>8. ASSUME NEW k \in 1..Len(text), from + 4 + k <= Len(data)
      PROVE  data[from + 4 + k] = text[k]
  <2>1. 4 + k \in 1..Len(field) /\ from + (4 + k) = from + 4 + k
    BY <1>2, <1>3
  <2>2. data[from + (4 + k)] = field[4 + k]
    BY <1>6, <1>8, <2>1
  <2> QED
    BY <1>2, <2>1, <2>2
<1> QED
  BY <1>7, <1>8 DEF HasField, text, data, from

-----------------------------------------------------------------------------
(***************************************************************************)
(* The ten lists                                                           *)
(***************************************************************************)

Start == [ok |-> TRUE, next |-> 17, total |-> 0, lists |-> <<>>]

\* The values of the recursive function in ParseLists, up to one of them.
Parsing(f, payload, n) ==
  f = [field \in 0..n |-> IF field = 0 THEN Start ELSE parseAndTrack(payload, f[field - 1])]

\* The values of such a function, one list after the other.
LEMMA ParsingValues ==
  ASSUME NEW payload, NEW n \in Nat, NEW f, Parsing(f, payload, n)
  PROVE  /\ f[0] = Start
         /\ \A i \in 0..(n - 1) : f[i + 1] = parseAndTrack(payload, f[i])
<1>1. \A i \in 0..n : f[i] = IF i = 0 THEN Start ELSE parseAndTrack(payload, f[i - 1])
  BY DEF Parsing
<1>2. f[0] = Start
  BY <1>1
<1>3. ASSUME NEW i \in 0..(n - 1)
      PROVE  f[i + 1] = parseAndTrack(payload, f[i])
  <2>1. i + 1 \in 0..n /\ i + 1 # 0 /\ (i + 1) - 1 = i
    OBVIOUS
  <2>2. f[i + 1] = parseAndTrack(payload, f[(i + 1) - 1])
    BY <1>1, <2>1
  <2> QED
    BY <2>1, <2>2
<1> QED
  BY <1>2, <1>3

\* There is one for every number of lists: by induction on the number.
LEMMA ParsingExists ==
  ASSUME NEW payload
  PROVE  \A n \in Nat : \E f : Parsing(f, payload, n)
<1> DEFINE P == {n \in Nat : \E f : Parsing(f, payload, n)}
<1>1. 0 \in P
  <2>1. Parsing([i \in 0..0 |-> Start], payload, 0)
    BY DEF Parsing
  <2> QED
    BY <2>1
<1>2. ASSUME NEW n \in Nat, n \in P
      PROVE  n + 1 \in P
  <2>1. PICK f : Parsing(f, payload, n)
    BY <1>2
  <2> DEFINE g == [i \in 0..(n + 1) |-> IF i <= n THEN f[i] ELSE parseAndTrack(payload, f[n])]
  <2>2. /\ g = [i \in 0..(n + 1) |-> g[i]]
        /\ \A i \in 0..n : g[i] = f[i]
        /\ g[n + 1] = parseAndTrack(payload, f[n])
    OBVIOUS
  <2> HIDE DEF g
  <2>3. ASSUME NEW i \in 0..(n + 1)
        PROVE  g[i] = IF i = 0 THEN Start ELSE parseAndTrack(payload, g[i - 1])
    <3>1. CASE i = 0
      <4>1. f[0] = Start
        BY <2>1, ParsingValues
      <4>2. 0 \in 0..n
        OBVIOUS
      <4> QED
        BY <2>2, <3>1, <4>1, <4>2
    <3>2. CASE i = n + 1
      <4>1. i # 0 /\ i - 1 = n /\ n \in 0..n
        BY <3>2
      <4> QED
        BY <2>2, <3>2, <4>1
    <3>3. CASE i # 0 /\ i # n + 1
      <4>1. i - 1 \in 0..(n - 1) /\ i - 1 \in 0..n /\ i \in 0..n /\ (i - 1) + 1 = i
        BY <3>3
      <4>2. f[i] = parseAndTrack(payload, f[i - 1])
        BY <2>1, <4>1, ParsingValues
      <4> QED
        BY <2>2, <3>3, <4>1, <4>2
    <3> QED
      BY <3>1, <3>2, <3>3
  <2>4. Parsing(g, payload, n + 1)
    BY <2>2, <2>3 DEF Parsing
  <2> QED
    BY <2>4
<1> HIDE DEF P
<1>3. \A n \in Nat : n \in P
  BY <1>1, <1>2, NumberInduction
<1> QED
  BY <1>3 DEF P

\* ParseLists is the last value of such a function.
LEMMA ParseIsLast ==
  ASSUME NEW payload
  PROVE  \E f : Parsing(f, payload, 10) /\ ParseLists(payload) = f[10]
<1> DEFINE f == CHOOSE f : f = [field \in 0..10 |->
                  IF field = 0 THEN [ok |-> TRUE, next |-> 17, total |-> 0, lists |-> <<>>]
                  ELSE parseAndTrack(payload, f[field - 1])]
<1>1. Parsing(f, payload, 10)
  <2>1. \E g : Parsing(g, payload, 10)
    BY ParsingExists
  <2>2. \E g : g = [field \in 0..10 |->
                  IF field = 0 THEN [ok |-> TRUE, next |-> 17, total |-> 0, lists |-> <<>>]
                  ELSE parseAndTrack(payload, g[field - 1])]
    BY <2>1 DEF Parsing, Start
  <2> QED
    BY <2>2 DEF Parsing, Start
<1>2. ParseLists(payload) = f[10]
  BY DEF ParseLists
<1> QED
  BY <1>1, <1>2

Meanings(h) == [i \in 1..10 |-> Meaning(h.lists[i])]

\* How many names the first i lists hold.
Total(h, i) == Len(FlattenSeq(First(Meanings(h), i)))

\* One list more adds its names to the total.
LEMMA TotalNext ==
  ASSUME NEW h, SentHello(h)
  PROVE  /\ First(Meanings(h), 0) = <<>> /\ Total(h, 0) = 0
         /\ First(Meanings(h), 10) = Meanings(h)
         /\ \A i \in 0..9 :
              /\ First(Meanings(h), i + 1) = Append(First(Meanings(h), i), Meaning(h.lists[i + 1]))
              /\ Total(h, i + 1) = Total(h, i) + Len(Meaning(h.lists[i + 1]))
              /\ Total(h, i) \in Nat /\ Len(Meaning(h.lists[i + 1])) \in Nat
<1> DEFINE all == Meanings(h)
<1>1. \A i \in 1..10 : all[i] = Meaning(h.lists[i]) /\ Meaning(h.lists[i]) \in Seq(Name)
  BY HelloParts, MeantByList DEF Meanings
<1>2. all \in Seq(Seq(Name)) /\ Len(all) = 10
  BY <1>1, IsASeq DEF Meanings
<1> HIDE DEF all
<1>3. First(all, 0) = <<>> /\ First(all, 10) = all
  BY <1>2, FirstNone, FirstAll
<1>4. Len(FlattenSeq(First(all, 0))) = 0
  BY <1>3, FlattenEmpty
<1>5. ASSUME NEW i \in 0..9
      PROVE  /\ First(all, i + 1) = Append(First(all, i), Meaning(h.lists[i + 1]))
             /\ Len(FlattenSeq(First(all, i + 1)))
                  = Len(FlattenSeq(First(all, i))) + Len(Meaning(h.lists[i + 1]))
             /\ Len(FlattenSeq(First(all, i))) \in Nat /\ Len(Meaning(h.lists[i + 1])) \in Nat
  <2> DEFINE front == First(all, i)
             names == Meaning(h.lists[i + 1])
  <2>1. i + 1 \in 1..10 /\ i \in 0..(Len(all) - 1)
    BY <1>2
  <2>2. names \in Seq(Name) /\ all[i + 1] = names
    BY <1>1, <2>1
  <2>3. front \in Seq(Seq(Name)) /\ First(all, i + 1) = Append(front, names)
    BY <1>2, <2>1, <2>2, FirstNext
  <2> HIDE DEF front, names
  <2>4. FlattenSeq(Append(front, names)) = FlattenSeq(front) \o names
    BY <2>2, <2>3, FlattenAppend
  <2>5. FlattenSeq(front) \in Seq(Name)
    BY <2>3, FlattenType
  <2> DEFINE flat == FlattenSeq(front)
  <2> HIDE DEF flat
  <2>6. Len(flat \o names) = Len(flat) + Len(names) /\ Len(flat) \in Nat /\ Len(names) \in Nat
    BY <2>2, <2>5, ConcatProperties, LenProperties DEF flat
  <2> QED
    BY <2>3, <2>4, <2>6 DEF flat, front, names
<1> QED
  BY <1>3, <1>4, <1>5 DEF all, Total

\* The first i lists are as the parser wants them, and in the payload.
Accepts(h, i) ==
  /\ \A j \in 1..i : GoodList(h.lists[j]) /\ Len(Spelled(h.lists[j])) <= MaxPayload
  /\ Total(h, i) <= MaxTotal
  /\ Offset(h, i) <= Len(Payload(h))

\* The state of the parse behind them.
Behind(h, i) ==
  [ok |-> TRUE, next |-> Offset(h, i), total |-> Total(h, i), lists |-> First(Meanings(h), i)]

ParsedSoFar(h, i, state) ==
  /\ Accepts(h, i) => state = Behind(h, i)
  /\ ~Accepts(h, i) => state.ok = FALSE

\* One list more is accepted if it is good, there, and within the total.
LEMMA AcceptsNext ==
  ASSUME NEW h, SentHello(h), NEW i \in 0..9
  PROVE  Accepts(h, i + 1) <=>
           /\ Accepts(h, i)
           /\ GoodList(h.lists[i + 1]) /\ Len(Spelled(h.lists[i + 1])) <= MaxPayload
           /\ Total(h, i) + Len(Meaning(h.lists[i + 1])) <= MaxTotal
           /\ Offset(h, i) + 4 + Len(Spelled(h.lists[i + 1])) <= Len(Payload(h))
<1> DEFINE n == Len(Spelled(h.lists[i + 1]))
           m == Len(Meaning(h.lists[i + 1]))
           size == Len(Payload(h))
           good(j) == GoodList(h.lists[j]) /\ Len(Spelled(h.lists[j])) <= MaxPayload
<1>1. i + 1 \in 1..10 /\ i \in 0..10
  OBVIOUS
<1>2. n \in Nat
  BY <1>1, HelloParts, FieldBytes
<1>3. m \in Nat /\ Total(h, i) \in Nat /\ Total(h, i + 1) = Total(h, i) + m
  BY TotalNext
<1>4. Offset(h, i) \in Nat
  BY <1>1, FieldsOfHello
<1>5. Offset(h, i + 1) = Offset(h, i) + 4 + n
  BY OffsetNext
<1>6. size \in Nat
  BY PayloadBytes
<1>7. MaxTotal \in Nat
  BY Limits
<1>8. (\A j \in 1..(i + 1) : good(j)) <=> (\A j \in 1..i : good(j)) /\ good(i + 1)
  <2> HIDE DEF good
  <2>1. \A j \in 1..(i + 1) : j \in 1..i \/ j = i + 1
    OBVIOUS
  <2>2. \A j \in 1..i : j \in 1..(i + 1)
    OBVIOUS
  <2>3. i + 1 \in 1..(i + 1)
    OBVIOUS
  <2> QED
    BY <2>1, <2>2, <2>3
<1>9. /\ Accepts(h, i) <=> (\A j \in 1..i : good(j)) /\ Total(h, i) <= MaxTotal /\ Offset(h, i) <= size
      /\ Accepts(h, i + 1) <=> /\ \A j \in 1..(i + 1) : good(j)
                               /\ Total(h, i + 1) <= MaxTotal /\ Offset(h, i + 1) <= size
  BY DEF Accepts
<1>10. good(i + 1) <=> GoodList(h.lists[i + 1]) /\ n <= MaxPayload
  OBVIOUS
<1> HIDE DEF n, m, size, good
<1>11. Total(h, i + 1) <= MaxTotal <=> Total(h, i) <= MaxTotal /\ Total(h, i) + m <= MaxTotal
  BY <1>3, <1>7
<1>12. Offset(h, i + 1) <= size <=> Offset(h, i) <= size /\ Offset(h, i) + 4 + n <= size
  BY <1>2, <1>4, <1>5, <1>6
<1>13. Accepts(h, i + 1) <=>
         Accepts(h, i) /\ good(i + 1) /\ Total(h, i) + m <= MaxTotal /\ Offset(h, i) + 4 + n <= size
  BY <1>8, <1>9, <1>11, <1>12
<1> QED
  BY <1>10, <1>13 DEF n, m, size

\* parseAndTrack takes the state behind i lists to the one behind i + 1.
LEMMA ParseStep ==
  ASSUME NEW h, SentHello(h), NEW i \in 0..9, NEW state, ParsedSoFar(h, i, state)
  PROVE  ParsedSoFar(h, i + 1, parseAndTrack(Payload(h), state))
<1> DEFINE theirs == h.lists[i + 1]
           next == parseAndTrack(Payload(h), state)
           list == parseNameList(Payload(h), state.next)
           fits == /\ Offset(h, i) + 4 + Len(Spelled(theirs)) <= Len(Payload(h))
                   /\ Len(Spelled(theirs)) <= MaxPayload /\ GoodList(theirs)
<1>1. i + 1 \in 1..10 /\ i \in 0..10
  OBVIOUS
<1>2. next = IF ~state.ok THEN state
             ELSE [ok |-> list.ok /\ state.total + Len(list.names) <= MaxTotal,
                   next |-> list.next, total |-> state.total + Len(list.names),
                   lists |-> Append(state.lists, list.names)]
  BY DEF parseAndTrack
<1>3. Accepts(h, i + 1) <=>
        Accepts(h, i) /\ fits /\ Total(h, i) + Len(Meaning(theirs)) <= MaxTotal
  BY AcceptsNext
<1>4. CASE ~Accepts(h, i)
  <2>1. state.ok = FALSE
    BY <1>4 DEF ParsedSoFar
  <2> HIDE DEF next, list, fits
  <2>2. next = state /\ ~Accepts(h, i + 1)
    BY <1>2, <1>3, <1>4, <2>1
  <2> QED
    BY <2>1, <2>2 DEF ParsedSoFar, next
<1>5. CASE Accepts(h, i)
  <2>1. state = Behind(h, i)
    BY <1>5 DEF ParsedSoFar
  <2>2. state.ok = TRUE /\ state.next = Offset(h, i) /\ state.total = Total(h, i)
        /\ state.lists = First(Meanings(h), i)
    BY <2>1 DEF Behind
  <2>3. list = IF fits
               THEN [ok |-> TRUE, next |-> Offset(h, i) + 4 + Len(Spelled(theirs)),
                     names |-> Meaning(theirs)]
               ELSE [ok |-> FALSE, next |-> Offset(h, i), names |-> <<>>]
    <3>1. Payload(h) \in Text /\ Offset(h, i) \in Nat /\ SentList(theirs)
      BY <1>1, PayloadBytes, FieldsOfHello, HelloParts
    <3>2. HasField(Payload(h), Offset(h, i), theirs)
      BY FieldInPayload
    <3> HIDE DEF theirs
    <3>3. parseNameList(Payload(h), Offset(h, i)) =
            IF fits
            THEN [ok |-> TRUE, next |-> Offset(h, i) + 4 + Len(Spelled(theirs)),
                  names |-> Meaning(theirs)]
            ELSE [ok |-> FALSE, next |-> Offset(h, i), names |-> <<>>]
      BY <3>1, <3>2, ParseField
    <3> QED
      BY <2>2, <3>3
  <2> HIDE DEF fits, list, next
  <2>4. CASE ~fits
    <3>1. list.ok = FALSE
      BY <2>3, <2>4
    <3>2. next.ok = FALSE /\ ~Accepts(h, i + 1)
      BY <1>2, <1>3, <2>2, <2>4, <3>1
    <3> QED
      BY <3>2 DEF ParsedSoFar, next
  <2>5. CASE fits
    <3>1. list.ok = TRUE /\ list.next = Offset(h, i) + 4 + Len(Spelled(theirs))
          /\ list.names = Meaning(theirs)
      BY <2>3, <2>5
    <3>2. next = [ok |-> Total(h, i) + Len(Meaning(theirs)) <= MaxTotal,
                  next |-> Offset(h, i) + 4 + Len(Spelled(theirs)),
                  total |-> Total(h, i) + Len(Meaning(theirs)),
                  lists |-> Append(First(Meanings(h), i), Meaning(theirs))]
      BY <1>2, <2>2, <3>1
    <3>3. next = [ok |-> Total(h, i) + Len(Meaning(theirs)) <= MaxTotal,
                  next |-> Offset(h, i + 1), total |-> Total(h, i + 1),
                  lists |-> First(Meanings(h), i + 1)]
      BY <3>2, OffsetNext, TotalNext
    <3>4. Accepts(h, i + 1) <=> Total(h, i) + Len(Meaning(theirs)) <= MaxTotal
      BY <1>3, <1>5, <2>5
    <3>5. CASE Total(h, i) + Len(Meaning(theirs)) <= MaxTotal
      <4>1. (Total(h, i) + Len(Meaning(theirs)) <= MaxTotal) = TRUE
        BY <3>5
      <4>2. next = Behind(h, i + 1)
        BY <3>3, <4>1 DEF Behind
      <4> QED
        BY <3>4, <3>5, <4>2 DEF ParsedSoFar, next
    <3>6. CASE ~(Total(h, i) + Len(Meaning(theirs)) <= MaxTotal)
      <4>1. (Total(h, i) + Len(Meaning(theirs)) <= MaxTotal) = FALSE
        BY <3>6
      <4>2. next.ok = FALSE
        BY <3>3, <4>1
      <4> QED
        BY <3>4, <3>6, <4>2 DEF ParsedSoFar, next
    <3> QED
      BY <3>5, <3>6
  <2> QED
    BY <2>4, <2>5
<1> QED
  BY <1>4, <1>5

\* Behind the ten lists the parse is as it should be.
LEMMA ParseTen ==
  ASSUME NEW h, SentHello(h), Len(Payload(h)) >= 17
  PROVE  ParsedSoFar(h, 10, ParseLists(Payload(h)))
<1>1. PICK f : Parsing(f, Payload(h), 10) /\ ParseLists(Payload(h)) = f[10]
  BY ParseIsLast
<1>2. f[0] = Start /\ \A i \in 0..9 : f[i + 1] = parseAndTrack(Payload(h), f[i])
  <2> DEFINE n == 10
  <2>1. n \in Nat /\ n - 1 = 9 /\ Parsing(f, Payload(h), n)
    BY <1>1
  <2> HIDE DEF n
  <2>2. f[0] = Start /\ \A i \in 0..(n - 1) : f[i + 1] = parseAndTrack(Payload(h), f[i])
    BY <2>1, ParsingValues
  <2> QED
    BY <2>1, <2>2
<1> DEFINE P == {i \in Nat : i <= 10 => ParsedSoFar(h, i, f[i])}
<1>3. 0 \in P
  <2>1. Offset(h, 0) = 17 /\ Total(h, 0) = 0 /\ First(Meanings(h), 0) = <<>> /\ MaxTotal \in Nat
    BY OffsetNext, TotalNext, Limits
  <2>2. f[0] = Behind(h, 0)
    BY <1>2, <2>1 DEF Start, Behind
  <2>3. Accepts(h, 0)
    BY <2>1 DEF Accepts
  <2> QED
    BY <2>2, <2>3 DEF ParsedSoFar
<1>4. ASSUME NEW i \in Nat, i \in P
      PROVE  i + 1 \in P
  <2> SUFFICES ASSUME i + 1 <= 10
               PROVE  ParsedSoFar(h, i + 1, f[i + 1])
    OBVIOUS
  <2>1. i \in 0..9 /\ ParsedSoFar(h, i, f[i])
    BY <1>4
  <2>2. ParsedSoFar(h, i + 1, parseAndTrack(Payload(h), f[i]))
    BY <2>1, ParseStep
  <2> QED
    BY <1>2, <2>1, <2>2
<1>5. \A i \in Nat : i \in P
  <2> HIDE DEF P
  <2> QED
    BY <1>3, <1>4, NumberInduction
<1>6. 10 \in P
  BY <1>5
<1> QED
  BY <1>1, <1>6

\* What the parser wants of a payload, as the client knows it.
Acceptable(h) ==
  /\ h.type = 20 /\ h.cut = 0
  /\ \A i \in 1..10 : GoodList(h.lists[i])
  /\ Len(FlattenSeq(Meanings(h))) <= MaxTotal
  /\ Len(Payload(h)) <= MaxPayload

\* parseKexInitImpl accepts the payload of exactly the acceptable hellos, and finds
\* what their lists mean.
LEMMA ParsesHello ==
  ASSUME NEW h, SentHello(h)
  PROVE  /\ ParsesKexInit(Payload(h), ParseLists(Payload(h))) <=> Acceptable(h)
         /\ Acceptable(h) => /\ ParseLists(Payload(h)).lists = Meanings(h)
                             /\ Len(Payload(h)) >= 17
<1> DEFINE parsed == ParseLists(Payload(h))
           size == Len(Payload(h))
           end == Offset(h, 10)
<1>1. /\ size \in Nat /\ size <= end + 5 /\ (size = end + 5 <=> h.cut = 0)
      /\ \A i \in 1..size : Payload(h)[i] = Whole(h)[i]
  BY PayloadBytes
<1>2. end \in Nat /\ end >= 17
  <2>1. end \in Nat /\ 10 \in 0..10
    BY FieldsOfHello
  <2>2. Offset(h, 0) = 17 /\ Offset(h, 1) >= 17 /\ Offset(h, 1) <= end
    <3>1. 0 \in 0..9 /\ 0 + 1 = 1 /\ 1 \in 1..10
      OBVIOUS
    <3>2. Offset(h, 0) = 17 /\ Offset(h, 1) = Offset(h, 0) + 4 + Len(Spelled(h.lists[1]))
      BY <3>1, OffsetNext
    <3>3. Len(Spelled(h.lists[1])) \in Nat
      BY <3>1, HelloParts, FieldBytes
    <3>4. Offset(h, 1) <= end
      BY <3>1, WholeBytes
    <3> QED
      BY <3>2, <3>3, <3>4
  <2>3. Offset(h, 1) \in Nat
    BY FieldsOfHello
  <2> HIDE DEF end
  <2> QED
    BY <2>1, <2>2, <2>3
<1>3. Payload(h)[1] = h.type \/ size = 0
  <2>1. size # 0 => 1 \in 1..size
    BY <1>1
  <2> QED
    BY <1>1, <2>1, WholeBytes
<1>4. MaxPayload \in Nat
  BY Limits
<1>5. Total(h, 10) = Len(FlattenSeq(Meanings(h))) /\ First(Meanings(h), 10) = Meanings(h)
  BY TotalNext DEF Total
<1>6. ASSUME NEW j \in 1..10
      PROVE  Len(Spelled(h.lists[j])) <= end
  <2> DEFINE i == j - 1
  <2>1. i \in 0..9 /\ i + 1 = j /\ i \in 0..10
    OBVIOUS
  <2> HIDE DEF i
  <2>2. Offset(h, i + 1) = Offset(h, i) + 4 + Len(Spelled(h.lists[i + 1])) /\ Offset(h, i) \in Nat
    BY <2>1, OffsetNext, FieldsOfHello
  <2>3. Offset(h, i + 1) <= end
    BY <2>1, WholeBytes
  <2>4. Len(Spelled(h.lists[j])) \in Nat
    BY HelloParts, FieldBytes
  <2>5. Offset(h, j) = Offset(h, i) + 4 + Len(Spelled(h.lists[j])) /\ Offset(h, j) <= end
    BY <2>1, <2>2, <2>3
  <2> HIDE DEF end
  <2> QED
    BY <1>2, <2>2, <2>4, <2>5
<1>7. ParsesKexInit(Payload(h), parsed) <=>
        /\ size \in 17..MaxPayload /\ Payload(h)[1] = 20
        /\ parsed.ok /\ parsed.next + 1 + 4 <= size
  BY DEF ParsesKexInit
<1>8. Acceptable(h) <=>
        /\ h.type = 20 /\ h.cut = 0 /\ \A i \in 1..10 : GoodList(h.lists[i])
        /\ Total(h, 10) <= MaxTotal /\ size <= MaxPayload
  BY <1>5 DEF Acceptable
<1>9. Accepts(h, 10) <=>
        /\ \A j \in 1..10 : GoodList(h.lists[j]) /\ Len(Spelled(h.lists[j])) <= MaxPayload
        /\ Total(h, 10) <= MaxTotal /\ end <= size
  BY DEF Accepts
<1>10. size >= 17 => ParsedSoFar(h, 10, parsed)
  BY ParseTen
<1> HIDE DEF parsed, size, end
<1>11. ASSUME ParsesKexInit(Payload(h), parsed)
       PROVE  Acceptable(h)
  <2>1. size >= 17 /\ size <= MaxPayload /\ Payload(h)[1] = 20 /\ parsed.ok /\ parsed.next + 1 + 4 <= size
    BY <1>1, <1>4, <1>7, <1>11
  <2>2. Accepts(h, 10) /\ parsed = Behind(h, 10)
    BY <1>10, <2>1 DEF ParsedSoFar
  <2>3. parsed.next = end
    BY <2>2 DEF Behind, end
  <2>4. size = end + 5
    BY <1>1, <1>2, <2>1, <2>3
  <2>5. h.type = 20
    BY <1>1, <1>3, <2>1
  <2> QED
    BY <1>1, <1>8, <1>9, <2>1, <2>2, <2>4, <2>5
<1>12. ASSUME Acceptable(h)
       PROVE  ParsesKexInit(Payload(h), parsed) /\ parsed.lists = Meanings(h) /\ size >= 17
  <2>1. size = end + 5
    BY <1>1, <1>8, <1>12
  <2>2. size >= 17 /\ size \in 17..MaxPayload /\ size # 0
    BY <1>1, <1>2, <1>4, <1>8, <1>12, <2>1
  <2>3. \A j \in 1..10 : Len(Spelled(h.lists[j])) <= MaxPayload
    <3> TAKE j \in 1..10
    <3>1. Len(Spelled(h.lists[j])) \in Nat
      BY HelloParts, FieldBytes
    <3>2. Len(Spelled(h.lists[j])) <= end
      BY <1>6
    <3>3. end <= MaxPayload
      BY <1>2, <1>4, <2>1, <2>2
    <3> QED
      BY <1>2, <1>4, <3>1, <3>2, <3>3
  <2>4. Accepts(h, 10)
    BY <1>2, <1>8, <1>9, <1>12, <2>1, <2>3
  <2>5. parsed = Behind(h, 10)
    BY <1>10, <2>2, <2>4 DEF ParsedSoFar
  <2>6. parsed.ok = TRUE /\ parsed.next = end /\ parsed.lists = Meanings(h)
    BY <1>5, <2>5 DEF Behind, end
  <2>7. Payload(h)[1] = 20 /\ parsed.next + 1 + 4 <= size
    BY <1>2, <1>3, <1>8, <1>12, <2>1, <2>2, <2>6
  <2> QED
    BY <1>7, <2>2, <2>6, <2>7
<1> QED
  BY <1>11, <1>12 DEF parsed, size

-----------------------------------------------------------------------------
(***************************************************************************)
(* The identification line                                                 *)
(***************************************************************************)

\* The minimum of a set of numbers is its least member.
LEMMA MinIn ==
  ASSUME NEW S \in SUBSET Nat, S # {}
  PROVE  Min(S) \in S /\ \A n \in S : Min(S) <= n
<1>1. PICK m \in S : \A n \in S : m <= n
  BY Least
<1>2. Min(S) = m
  BY <1>1, MinIs
<1> QED
  BY <1>1, <1>2

\* The first n bytes of a text.
LEMMA Prefix ==
  ASSUME NEW t \in Text, NEW n \in 0..Len(t)
  PROVE  /\ SubSeq(t, 1, n) \in Text /\ Len(SubSeq(t, 1, n)) = n
         /\ \A i \in 1..n : SubSeq(t, 1, n)[i] = t[i]
         /\ Len(t) \in Nat
<1>1. Len(t) \in Nat
  BY LenProperties DEF Text
<1>2. n \in Nat /\ n <= Len(t) /\ 0 <= n /\ n - 0 = n /\ 0 + 1 = 1
  BY <1>1
<1>3. /\ SubSeq(t, 0 + 1, n) \in Text /\ Len(SubSeq(t, 0 + 1, n)) = n - 0
      /\ \A i \in 1..(n - 0) : SubSeq(t, 0 + 1, n)[i] = t[0 + i]
  BY <1>2, PartOf
<1> DEFINE part == SubSeq(t, 1, n)
<1>4. part \in Text /\ Len(part) = n /\ \A i \in 1..n : part[i] = t[0 + i]
  BY <1>2, <1>3
<1> HIDE DEF part
<1>5. \A i \in 1..n : part[i] = t[i]
  BY <1>2, <1>4
<1> QED
  BY <1>1, <1>4, <1>5 DEF part

\* A pattern is in the first bytes where it is in the whole, as far as they go.
LEMMA PlacesOfPrefix ==
  ASSUME NEW t \in Text, NEW n \in 0..Len(t), NEW pattern \in Text, NEW a \in Nat
  PROVE  Places(SubSeq(t, 1, n), pattern, a) = {i \in Places(t, pattern, a) : i + Len(pattern) <= n}
<1> DEFINE part == SubSeq(t, 1, n)
           k == Len(pattern)
           there(i) == \A m \in DOMAIN pattern : t[i + m] = pattern[m]
<1>1. /\ Len(part) = n /\ \A i \in 1..n : part[i] = t[i]
      /\ Len(t) \in Nat /\ n \in Nat /\ n <= Len(t)
  BY Prefix
<1>2. k \in Nat /\ DOMAIN pattern = 1..k
  BY LenProperties DEF Text
<1>3. /\ Places(t, pattern, a) = {i \in a..(Len(t) - k) : there(i)}
      /\ Places(part, pattern, a)
           = {i \in a..(Len(part) - k) : \A m \in DOMAIN pattern : part[i + m] = pattern[m]}
  BY DEF Places
<1> HIDE DEF part, k
<1>4. ASSUME NEW i \in a..(n - k)
      PROVE  (\A m \in DOMAIN pattern : part[i + m] = pattern[m]) <=> there(i)
  <2>1. \A m \in DOMAIN pattern : part[i + m] = t[i + m]
    <3> TAKE m \in DOMAIN pattern
    <3>1. i + m \in 1..n
      BY <1>1, <1>2
    <3> QED
      BY <1>1, <3>1
  <2> QED
    BY <2>1
<1> HIDE DEF there
<1>5. \A i : i \in a..(n - k) <=> i \in a..(Len(t) - k) /\ i + k <= n
  BY <1>1, <1>2
<1> QED
  BY <1>1, <1>3, <1>4, <1>5 DEF part, k

\* The two patterns, byte by byte.
LEMMA PatternTexts ==
  /\ Marker \in Text /\ Len(Marker) = 4 /\ DOMAIN Marker = 1..4
  /\ Marker[1] = 83 /\ Marker[2] = 83 /\ Marker[3] = 72 /\ Marker[4] = 45
  /\ LineEnd \in Text /\ Len(LineEnd) = 2 /\ DOMAIN LineEnd = 1..2
  /\ LineEnd[1] = 13 /\ LineEnd[2] = 10
<1>1. <<83, 83, 72, 45>> \in Text /\ <<13, 10>> \in Text
  BY DEF Text
<1> QED
  BY <1>1 DEF Marker, LineEnd

\* Where the two patterns are found, byte by byte.
LEMMA PlacesAre ==
  ASSUME NEW t \in Text, NEW a \in Nat
  PROVE  /\ Places(t, Marker, a) \in SUBSET Nat /\ Places(t, LineEnd, a) \in SUBSET Nat
         /\ \A i : i \in Places(t, Marker, a) <=>
              /\ i \in Nat /\ a <= i /\ i + 4 <= Len(t)
              /\ t[i + 1] = 83 /\ t[i + 2] = 83 /\ t[i + 3] = 72 /\ t[i + 4] = 45
         /\ \A i : i \in Places(t, LineEnd, a) <=>
              /\ i \in Nat /\ a <= i /\ i + 2 <= Len(t)
              /\ t[i + 1] = 13 /\ t[i + 2] = 10
<1>1. Len(t) \in Nat
  BY LenProperties DEF Text
<1>2. ASSUME NEW i
      PROVE  /\ i \in Places(t, Marker, a) <=>
                  /\ i \in Nat /\ a <= i /\ i + 4 <= Len(t)
                  /\ t[i + 1] = 83 /\ t[i + 2] = 83 /\ t[i + 3] = 72 /\ t[i + 4] = 45
             /\ i \in Places(t, LineEnd, a) <=>
                  /\ i \in Nat /\ a <= i /\ i + 2 <= Len(t)
                  /\ t[i + 1] = 13 /\ t[i + 2] = 10
  <2>1. i \in Places(t, Marker, a) <=>
          i \in a..(Len(t) - 4) /\ \A m \in 1..4 : t[i + m] = Marker[m]
    BY PatternTexts DEF Places
  <2>2. (\A m \in 1..4 : t[i + m] = Marker[m])
          <=> t[i + 1] = 83 /\ t[i + 2] = 83 /\ t[i + 3] = 72 /\ t[i + 4] = 45
    <3>1. \A m \in 1..4 : m = 1 \/ m = 2 \/ m = 3 \/ m = 4
      OBVIOUS
    <3>2. 1 \in 1..4 /\ 2 \in 1..4 /\ 3 \in 1..4 /\ 4 \in 1..4
      OBVIOUS
    <3> QED
      BY <3>1, <3>2, PatternTexts
  <2>3. i \in Places(t, LineEnd, a) <=>
          i \in a..(Len(t) - 2) /\ \A m \in 1..2 : t[i + m] = LineEnd[m]
    BY PatternTexts DEF Places
  <2>4. (\A m \in 1..2 : t[i + m] = LineEnd[m]) <=> t[i + 1] = 13 /\ t[i + 2] = 10
    <3>1. \A m \in 1..2 : m = 1 \/ m = 2
      OBVIOUS
    <3>2. 1 \in 1..2 /\ 2 \in 1..2
      OBVIOUS
    <3> QED
      BY <3>1, <3>2, PatternTexts
  <2>5. /\ i \in a..(Len(t) - 4) <=> i \in Nat /\ a <= i /\ i + 4 <= Len(t)
        /\ i \in a..(Len(t) - 2) <=> i \in Nat /\ a <= i /\ i + 2 <= Len(t)
    BY <1>1
  <2> QED
    BY <2>1, <2>2, <2>3, <2>4, <2>5
<1>3. Places(t, Marker, a) \in SUBSET Nat /\ Places(t, LineEnd, a) \in SUBSET Nat
  BY <1>2
<1> QED
  BY <1>2, <1>3

IsFirst(m, S) == m \in S /\ \A i \in S : m <= i

\* The first place of a pattern is found as soon as all of the pattern is there.
LEMMA FirstPlace ==
  ASSUME NEW S \in SUBSET Nat, NEW m, IsFirst(m, S), NEW k \in Nat, NEW n \in Nat
  PROVE  IF m + k <= n THEN {i \in S : i + k <= n} # {} /\ Min({i \in S : i + k <= n}) = m
         ELSE {i \in S : i + k <= n} = {}
<1>1. m \in S /\ m \in Nat /\ \A i \in S : m <= i
  BY DEF IsFirst
<1>2. CASE m + k <= n
  <2> DEFINE T == {i \in S : i + k <= n}
  <2>1. T \in SUBSET Nat /\ m \in T /\ \A i \in T : m <= i
    BY <1>1, <1>2
  <2> HIDE DEF T
  <2>2. Min(T) = m /\ T # {}
    BY <2>1, MinIs
  <2> QED
    BY <1>2, <2>2 DEF T
<1>3. CASE ~(m + k <= n)
  <2>1. \A i \in S : ~(i + k <= n)
    BY <1>1, <1>3
  <2> QED
    BY <1>3, <2>1
<1> QED
  BY <1>2, <1>3

\* The first place of a pattern is found in a prefix as soon as all of the pattern is
\* in it, and none is found before.
LEMMA FirstPlaceInPrefix ==
  ASSUME NEW t \in Text, NEW n \in 0..Len(t), NEW pattern \in Text, NEW a \in Nat,
         NEW m, IsFirst(m, Places(t, pattern, a))
  PROVE  IF m + Len(pattern) <= n
         THEN Places(SubSeq(t, 1, n), pattern, a) # {} /\ Min(Places(SubSeq(t, 1, n), pattern, a)) = m
         ELSE Places(SubSeq(t, 1, n), pattern, a) = {}
<1> DEFINE S == Places(t, pattern, a)
           k == Len(pattern)
           T == {i \in S : i + k <= n}
<1>1. k \in Nat /\ n \in Nat /\ Len(t) \in Nat
  BY LenProperties, Prefix DEF Text
<1>2. S \in SUBSET Nat
  BY <1>1 DEF Places
<1>3. Places(SubSeq(t, 1, n), pattern, a) = T
  BY PlacesOfPrefix
<1>4. IF m + k <= n THEN T # {} /\ Min(T) = m ELSE T = {}
  <2> HIDE DEF S, k
  <2> QED
    BY <1>1, <1>2, FirstPlace DEF S
<1> QED
  BY <1>3, <1>4

NoBanner == [ok |-> FALSE, banner |-> <<>>, next |-> 0]

\* The line is found as soon as its end is there.
LEMMA LineFound ==
  ASSUME NEW t \in Text, NEW n \in 0..Len(t), NEW s, NEW e,
         IsFirst(s, Places(t, Marker, 0)), IsFirst(e, Places(t, LineEnd, s))
  PROVE  ParseBanner(SubSeq(t, 1, n)) =
           IF n >= e + 2 /\ n >= 10
           THEN [ok |-> TRUE, next |-> e + 2,
                 banner |-> SubSeq(SubSeq(t, 1, n), s + 1, Min({e, s + MaxBanner}))]
           ELSE NoBanner
<1> DEFINE buf == SubSeq(t, 1, n)
           starts == Places(buf, Marker, 0)
           ends == Places(buf, LineEnd, Min(starts))
<1>1. Len(buf) = n /\ n \in Nat /\ Len(t) \in Nat
  BY Prefix
<1>2. /\ s \in Nat /\ s + 4 <= Len(t)
      /\ t[s + 1] = 83 /\ t[s + 2] = 83 /\ t[s + 3] = 72 /\ t[s + 4] = 45
      /\ Places(t, Marker, 0) \in SUBSET Nat
  BY PlacesAre DEF IsFirst
<1>3. e \in Nat /\ s <= e /\ t[e + 1] = 13 /\ Places(t, LineEnd, s) \in SUBSET Nat
  BY <1>2, PlacesAre DEF IsFirst
<1>4. e >= s + 4
  BY <1>2, <1>3
<1>5. /\ Marker \in Text /\ Len(Marker) = 4
      /\ LineEnd \in Text /\ Len(LineEnd) = 2
  BY PatternTexts
<1>6. IF s + 4 <= n THEN starts # {} /\ Min(starts) = s ELSE starts = {}
  <2>1. IF s + Len(Marker) <= n THEN starts # {} /\ Min(starts) = s ELSE starts = {}
    BY <1>5, FirstPlaceInPrefix
  <2> HIDE DEF starts
  <2> QED
    BY <1>5, <2>1
<1>8. IF e + 2 <= n THEN Places(buf, LineEnd, s) # {} /\ Min(Places(buf, LineEnd, s)) = e
      ELSE Places(buf, LineEnd, s) = {}
  <2> DEFINE found == Places(buf, LineEnd, s)
  <2>1. IF e + Len(LineEnd) <= n THEN found # {} /\ Min(found) = e ELSE found = {}
    <3>1. s \in Nat /\ LineEnd \in Text
      BY <1>2, <1>5
    <3> QED
      BY <3>1, FirstPlaceInPrefix
  <2> HIDE DEF found
  <2>2. IF e + 2 <= n THEN found # {} /\ Min(found) = e ELSE found = {}
    BY <1>5, <2>1
  <2> QED
    BY <2>2 DEF found
<1>9. ParseBanner(buf) =
        IF Len(buf) < 10 \/ starts = {} \/ ends = {} THEN NoBanner
        ELSE [ok |-> TRUE, next |-> Min(ends) + 2,
              banner |-> SubSeq(buf, Min(starts) + 1,
                                Min({Min(ends), Min(starts) + MaxBanner}))]
  BY DEF ParseBanner, NoBanner
<1> HIDE DEF buf, starts
<1>10. CASE n >= e + 2 /\ n >= 10
  <2>1. starts # {} /\ Min(starts) = s
    BY <1>1, <1>2, <1>3, <1>4, <1>6, <1>10
  <2>2. ends # {} /\ Min(ends) = e
    BY <1>1, <1>3, <1>8, <1>10, <2>1
  <2>3. ~(Len(buf) < 10)
    BY <1>1, <1>10
  <2> HIDE DEF ends
  <2> QED
    BY <1>9, <1>10, <2>1, <2>2, <2>3 DEF buf
<1>11. CASE ~(n >= e + 2 /\ n >= 10)
  <2>1. Len(buf) < 10 \/ starts = {} \/ ends = {}
    <3>1. CASE starts = {}
      BY <3>1
    <3>2. CASE starts # {}
      <4>1. Min(starts) = s
        BY <1>6, <3>2
      <4>2. ends = Places(buf, LineEnd, s)
        BY <4>1
      <4> HIDE DEF ends
      <4>3. CASE e + 2 <= n
        BY <1>1, <1>3, <1>11, <4>3
      <4>4. CASE ~(e + 2 <= n)
        BY <1>8, <4>2, <4>4
      <4> QED
        BY <4>3, <4>4
    <3> QED
      BY <3>1, <3>2
  <2> HIDE DEF ends
  <2>2. ParseBanner(buf) = NoBanner
    BY <1>9, <2>1
  <2> QED
    BY <1>11, <2>2 DEF buf
<1> QED
  BY <1>10, <1>11

-----------------------------------------------------------------------------
(***************************************************************************)
(* What the client sends                                                   *)
(***************************************************************************)

\* The packet: the word of its length, the length of the padding, the payload.
LEMMA PacketBytes ==
  ASSUME NEW h, SentHello(h)
  PROVE  /\ PacketLength(h) \in Nat /\ PacketLength(h) = 1 + Len(Payload(h)) + h.padding
         /\ Packet(h) \in Text /\ Len(Packet(h)) = 4 + PacketLength(h)
         /\ \A i \in 1..4 : Packet(h)[i] = Word(PacketLength(h))[i]
         /\ Packet(h)[5] = h.padding
         /\ \A i \in 1..Len(Payload(h)) : Packet(h)[5 + i] = Payload(h)[i]
<1> DEFINE word == Word(PacketLength(h))
           padding == <<h.padding>>
           payload == Payload(h)
           zeros == Zeros(h.padding)
<1>1. h.padding \in Nat /\ payload \in Text /\ Len(payload) \in Nat
  BY HelloParts, PayloadBytes
<1>2. PacketLength(h) \in Nat /\ PacketLength(h) = 1 + Len(payload) + h.padding
  BY <1>1 DEF PacketLength
<1>3. word \in Text /\ Len(word) = 4
  BY <1>2, WordBytes
<1>4. padding \in Text /\ Len(padding) = 1 /\ padding[1] = h.padding
  BY <1>1 DEF Text
<1>5. zeros \in Text /\ Len(zeros) = h.padding
  BY <1>1, ZerosText
<1>6. Packet(h) = ((word \o padding) \o payload) \o zeros
  BY DEF Packet
<1> HIDE DEF word, padding, payload, zeros
<1> DEFINE head == word \o padding
<1>7. /\ head \in Text /\ Len(head) = 5
      /\ \A i \in 1..4 : head[i] = word[i]
      /\ head[5] = h.padding
  <2>1. /\ head \in Text /\ Len(head) = Len(word) + Len(padding)
        /\ \A i \in 1..Len(word) : head[i] = word[i]
        /\ \A i \in 1..Len(padding) : head[Len(word) + i] = padding[i]
    BY <1>3, <1>4, TwoTexts
  <2> HIDE DEF head
  <2>2. head[4 + 1] = padding[1]
    BY <1>3, <1>4, <2>1
  <2> QED
    BY <1>3, <1>4, <2>1, <2>2
<1> HIDE DEF head
<1> DEFINE front == head \o payload
<1>8. /\ front \in Text /\ Len(front) = 5 + Len(payload)
      /\ \A i \in 1..5 : front[i] = head[i]
      /\ \A i \in 1..Len(payload) : front[5 + i] = payload[i]
  <2>1. /\ front \in Text /\ Len(front) = Len(head) + Len(payload)
        /\ \A i \in 1..Len(head) : front[i] = head[i]
        /\ \A i \in 1..Len(payload) : front[Len(head) + i] = payload[i]
    BY <1>1, <1>7, TwoTexts
  <2> HIDE DEF front
  <2> QED
    BY <1>7, <2>1
<1> HIDE DEF front
<1>9. /\ Packet(h) \in Text /\ Len(Packet(h)) = Len(front) + Len(zeros)
      /\ \A i \in 1..Len(front) : Packet(h)[i] = front[i]
  <2> DEFINE all == front \o zeros
  <2>1. /\ all \in Text /\ Len(all) = Len(front) + Len(zeros)
        /\ \A i \in 1..Len(front) : all[i] = front[i]
    BY <1>5, <1>8, TwoTexts
  <2>2. Packet(h) = all
    BY <1>6 DEF front, head
  <2> HIDE DEF all
  <2> QED
    BY <2>1, <2>2
<1>10. Len(Packet(h)) = 4 + PacketLength(h)
  BY <1>1, <1>2, <1>5, <1>8, <1>9
<1>11. \A i \in 1..5 : i \in 1..Len(front) /\ Packet(h)[i] = head[i]
  <2> TAKE i \in 1..5
  <2>1. i \in 1..Len(front)
    BY <1>1, <1>8
  <2> QED
    BY <1>8, <1>9, <2>1
<1>12. \A i \in 1..4 : Packet(h)[i] = word[i]
  <2> TAKE i \in 1..4
  <2>1. i \in 1..5
    OBVIOUS
  <2> QED
    BY <1>7, <1>11, <2>1
<1>13. Packet(h)[5] = h.padding
  BY <1>7, <1>11
<1>14. \A i \in 1..Len(payload) : Packet(h)[5 + i] = payload[i]
  <2> TAKE i \in 1..Len(payload)
  <2>1. 5 + i \in 1..Len(front)
    BY <1>1, <1>8
  <2> QED
    BY <1>8, <1>9, <2>1
<1> QED
  BY <1>2, <1>9, <1>10, <1>12, <1>13, <1>14 DEF word, payload

\* What is sent: what precedes the line, the line and its end, the packet, the rest.
LEMMA BytesOfHello ==
  ASSUME NEW h, SentHello(h)
  PROVE  /\ Bytes(h) \in Text
         /\ Len(Bytes(h)) = Len(h.before) + Len(h.line) + 2 + Len(Packet(h)) + Len(h.after)
         /\ Len(h.before) \in Nat /\ Len(h.line) \in Nat /\ Len(h.after) \in Nat
         /\ \A i \in 1..Len(h.before) : Bytes(h)[i] = h.before[i]
         /\ \A i \in 1..(Len(h.line) + 2) : Bytes(h)[Len(h.before) + i] = (h.line \o LineEnd)[i]
         /\ \A i \in 1..Len(Packet(h)) : Bytes(h)[Len(h.before) + Len(h.line) + 2 + i] = Packet(h)[i]
<1> DEFINE before == h.before
           line == h.line
           packet == Packet(h)
           after == h.after
           whole == line \o LineEnd
           one == before \o line
           two == one \o LineEnd
           three == two \o packet
<1>1. /\ before \in Text /\ line \in Text /\ after \in Text /\ packet \in Text
      /\ LineEnd \in Text /\ Len(LineEnd) = 2
  BY HelloParts, PacketBytes, PatternTexts
<1>2. Bytes(h) = three \o after
  BY DEF Bytes
<1> HIDE DEF before, line, packet, after
<1>3. one \in Text /\ Len(one) = Len(before) + Len(line) /\ Len(before) \in Nat /\ Len(line) \in Nat
  BY <1>1, TwoTexts
<1>4. whole \in Text /\ Len(whole) = Len(line) + 2
  <2>1. line \in Text /\ LineEnd \in Text
    BY <1>1
  <2>2. whole \in Text /\ Len(whole) = Len(line) + Len(LineEnd)
    BY <2>1, TwoTexts
  <2> HIDE DEF whole
  <2> QED
    BY <1>1, <2>2
<1>5. two = before \o whole
  BY <1>1, Associative
<1> HIDE DEF whole, one
<1>6. /\ two \in Text /\ Len(two) = Len(before) + Len(line) + 2
      /\ \A i \in 1..Len(before) : two[i] = before[i]
      /\ \A i \in 1..Len(whole) : two[Len(before) + i] = whole[i]
  <2> DEFINE both == before \o whole
  <2>1. /\ both \in Text /\ Len(both) = Len(before) + Len(whole)
        /\ \A i \in 1..Len(before) : both[i] = before[i]
        /\ \A i \in 1..Len(whole) : both[Len(before) + i] = whole[i]
    BY <1>1, <1>4, TwoTexts
  <2>2. two = both
    BY <1>5
  <2> HIDE DEF both, two
  <2>3. Len(two) = Len(before) + (Len(line) + 2)
    BY <1>4, <2>1, <2>2
  <2>4. Len(two) = Len(before) + Len(line) + 2
    BY <1>3, <2>3
  <2> QED
    BY <2>1, <2>2, <2>4
<1> HIDE DEF two
<1>7. /\ three \in Text /\ Len(three) = Len(two) + Len(packet)
      /\ \A i \in 1..Len(two) : three[i] = two[i]
      /\ \A i \in 1..Len(packet) : three[Len(two) + i] = packet[i]
      /\ Len(packet) \in Nat
  BY <1>1, <1>6, TwoTexts
<1> HIDE DEF three
<1>8. /\ Bytes(h) \in Text /\ Len(Bytes(h)) = Len(three) + Len(after) /\ Len(after) \in Nat
      /\ \A i \in 1..Len(three) : Bytes(h)[i] = three[i]
  <2> DEFINE all == three \o after
  <2>1. /\ all \in Text /\ Len(all) = Len(three) + Len(after) /\ Len(after) \in Nat
        /\ \A i \in 1..Len(three) : all[i] = three[i]
    BY <1>1, <1>7, TwoTexts
  <2>2. Bytes(h) = all
    BY <1>2
  <2> HIDE DEF all
  <2> QED
    BY <2>1, <2>2
<1>9. Len(Bytes(h)) = Len(before) + Len(line) + 2 + Len(packet) + Len(after)
  BY <1>6, <1>7, <1>8
<1>10. \A i \in 1..Len(before) : Bytes(h)[i] = before[i]
  <2> TAKE i \in 1..Len(before)
  <2>1. i \in 1..Len(two) /\ i \in 1..Len(three)
    BY <1>3, <1>6, <1>7
  <2> QED
    BY <1>6, <1>7, <1>8, <2>1
<1>11. \A i \in 1..(Len(line) + 2) : Bytes(h)[Len(before) + i] = whole[i]
  <2> TAKE i \in 1..(Len(line) + 2)
  <2> DEFINE j == Len(before) + i
  <2>1. i \in 1..Len(whole) /\ j \in 1..Len(two) /\ j \in 1..Len(three)
    BY <1>3, <1>4, <1>6, <1>7
  <2>2. two[j] = whole[i]
    BY <1>6, <2>1
  <2> HIDE DEF j
  <2>3. Bytes(h)[j] = whole[i]
    BY <1>7, <1>8, <2>1, <2>2
  <2> QED
    BY <2>3 DEF j
<1>12. \A i \in 1..Len(packet) : Bytes(h)[Len(before) + Len(line) + 2 + i] = packet[i]
  <2> TAKE i \in 1..Len(packet)
  <2> DEFINE j == Len(two) + i
  <2>1. j \in 1..Len(three) /\ j = Len(before) + Len(line) + 2 + i
    BY <1>3, <1>6, <1>7
  <2>2. three[j] = packet[i]
    BY <1>7
  <2> HIDE DEF j
  <2> QED
    BY <1>8, <2>1, <2>2
<1> QED
  BY <1>3, <1>8, <1>9, <1>10, <1>11, <1>12 DEF before, line, packet, after, whole

\* The bytes of the line are all among what is sent.
LEMMA LengthOfBytes ==
  ASSUME NEW h, SentHello(h)
  PROVE  /\ Len(Bytes(h)) \in Nat /\ Len(h.before) \in Nat /\ Len(h.line) \in Nat
         /\ Len(Packet(h)) \in Nat /\ Len(h.after) \in Nat
         /\ Len(h.before) + Len(h.line) + 2 \in Nat
         /\ Len(h.before) + Len(h.line) + 2 <= Len(Bytes(h))
<1> DEFINE b == Len(h.before)
           n == Len(h.line)
           p == Len(Packet(h))
           a == Len(h.after)
           all == Len(Bytes(h))
<1>1. all = b + n + 2 + p + a /\ b \in Nat /\ n \in Nat /\ a \in Nat
  BY BytesOfHello
<1>2. p = 4 + PacketLength(h) /\ PacketLength(h) \in Nat
  BY PacketBytes
<1> HIDE DEF b, n, p, a, all
<1>3. p \in Nat
  BY <1>2
<1>4. all \in Nat /\ b + n + 2 <= all /\ b + n + 2 \in Nat
  BY <1>1, <1>3
<1> QED
  BY <1>1, <1>3, <1>4 DEF b, n, p, a, all

\* With one line, the first marker and the first line end are those of the line.
LEMMA OneLineFirsts ==
  ASSUME NEW h, SentHello(h), OneLine(h)
  PROVE  /\ IsFirst(Len(h.before), Places(Bytes(h), Marker, 0))
         /\ IsFirst(Len(h.before) + Len(h.line), Places(Bytes(h), LineEnd, Len(h.before)))
<1> DEFINE b == Len(h.before)
           n == Len(h.line)
           t == Bytes(h)
           whole == h.line \o LineEnd
<1>1. /\ t \in Text /\ b \in Nat /\ n \in Nat
      /\ \A i \in 1..b : t[i] = h.before[i]
      /\ \A i \in 1..(n + 2) : t[b + i] = whole[i]
  BY BytesOfHello
<1>2. Len(t) \in Nat /\ b + n + 2 <= Len(t)
  BY LengthOfBytes
<1>3. h.before \in Text /\ h.line \in Text /\ Len(h.before) = b /\ Len(h.line) = n
  BY HelloParts
<1>4. whole \in Text /\ Len(whole) = n + 2 /\ whole[n + 1] = 13 /\ whole[n + 2] = 10
      /\ \A i \in 1..n : whole[i] = h.line[i]
  <2>1. LineEnd \in Text /\ Len(LineEnd) = 2 /\ LineEnd[1] = 13 /\ LineEnd[2] = 10
    BY PatternTexts
  <2>2. /\ whole \in Text /\ Len(whole) = n + Len(LineEnd)
        /\ \A i \in 1..n : whole[i] = h.line[i]
        /\ \A i \in 1..Len(LineEnd) : whole[n + i] = LineEnd[i]
    BY <1>3, <2>1, TwoTexts
  <2> HIDE DEF whole, n
  <2>3. whole[n + 1] = LineEnd[1] /\ whole[n + 2] = LineEnd[2] /\ Len(whole) = n + 2
    BY <2>1, <2>2
  <2> QED
    BY <2>1, <2>2, <2>3
<1>5. n >= 4 /\ h.line[1] = 83 /\ h.line[2] = 83 /\ h.line[3] = 72 /\ h.line[4] = 45
  <2>1. Len(Marker) <= n /\ SubSeq(Marker, 1, Len(Marker)) = SubSeq(h.line, 1, Len(Marker))
    BY DEF OneLine, IsPrefix
  <2>2. Marker \in Text /\ Len(Marker) = 4
    BY PatternTexts
  <2>3. n >= 4 /\ 4 \in 0..Len(h.line) /\ 4 \in 0..Len(Marker)
    BY <1>1, <1>3, <2>1, <2>2
  <2>4. SubSeq(Marker, 1, 4) = SubSeq(h.line, 1, 4)
    BY <2>1, <2>2
  <2>5. \A i \in 1..4 : SubSeq(Marker, 1, 4)[i] = Marker[i]
    BY <2>2, <2>3, Prefix
  <2>6. \A i \in 1..4 : SubSeq(h.line, 1, 4)[i] = h.line[i]
    BY <1>3, <2>3, Prefix
  <2>7. \A i \in 1..4 : Marker[i] = h.line[i]
    BY <2>4, <2>5, <2>6
  <2> QED
    BY <2>3, <2>7, PatternTexts
<1>6. t[b + 1] = 83 /\ t[b + 2] = 83 /\ t[b + 3] = 72 /\ t[b + 4] = 45
  <2> HIDE DEF b, n, t, whole
  <2>1. \A i \in 1..4 : i \in 1..(n + 2) /\ i \in 1..n
    BY <1>1, <1>5
  <2>2. \A i \in 1..4 : t[b + i] = h.line[i]
    BY <1>1, <1>4, <2>1
  <2> QED
    BY <1>5, <2>2
<1>7. Places(h.before, Marker, 0) = {} /\ Places(whole, LineEnd, 0) = {n}
  BY DEF OneLine
<1> HIDE DEF b, n, t, whole
<1>8. b \in Places(t, Marker, 0)
  <2>1. b + 4 <= Len(t) /\ 0 <= b
    BY <1>1, <1>2, <1>5
  <2> QED
    BY <1>1, <1>6, <2>1, PlacesAre
<1>9. ASSUME NEW i \in Places(t, Marker, 0)
      PROVE  b <= i
  <2>1. /\ i \in Nat /\ i + 4 <= Len(t)
        /\ t[i + 1] = 83 /\ t[i + 2] = 83 /\ t[i + 3] = 72 /\ t[i + 4] = 45
    BY <1>1, PlacesAre
  <2> SUFFICES ASSUME i < b
               PROVE  FALSE
    BY <1>1, <2>1
  <2>2. i + 4 <= b \/ i + 1 = b \/ i + 2 = b \/ i + 3 = b
    BY <1>1, <2>1
  <2>3. CASE i + 4 <= b
    <3>1. /\ t[i + 1] = h.before[i + 1] /\ t[i + 2] = h.before[i + 2]
          /\ t[i + 3] = h.before[i + 3] /\ t[i + 4] = h.before[i + 4]
      BY <1>1, <2>1, <2>3
    <3>2. i \in Places(h.before, Marker, 0)
      <4> DEFINE u == h.before
      <4>1. /\ u \in Text /\ i \in Nat /\ 0 <= i /\ i + 4 <= Len(u)
            /\ u[i + 1] = 83 /\ u[i + 2] = 83 /\ u[i + 3] = 72 /\ u[i + 4] = 45
        BY <1>3, <2>1, <2>3, <3>1
      <4> HIDE DEF u
      <4>2. i \in Places(u, Marker, 0)
        BY <4>1, PlacesAre
      <4> QED
        BY <4>2 DEF u
    <3> QED
      BY <1>7, <3>2
  <2>4. CASE i + 1 = b
    <3>1. i + 3 = b + 2
      BY <1>1, <2>1, <2>4
    <3> QED
      BY <1>6, <2>1, <3>1
  <2>5. CASE i + 2 = b
    <3>1. i + 3 = b + 1
      BY <1>1, <2>1, <2>5
    <3> QED
      BY <1>6, <2>1, <3>1
  <2>6. CASE i + 3 = b
    <3>1. i + 4 = b + 1
      BY <1>1, <2>1, <2>6
    <3> QED
      BY <1>6, <2>1, <3>1
  <2> QED
    BY <2>2, <2>3, <2>4, <2>5, <2>6
<1>10. b + n \in Places(t, LineEnd, b)
  <2>1. n + 1 \in 1..(n + 2) /\ n + 2 \in 1..(n + 2)
    BY <1>1
  <2>2. t[b + (n + 1)] = 13 /\ t[b + (n + 2)] = 10
    BY <1>1, <1>4, <2>1
  <2>3. b + (n + 1) = (b + n) + 1 /\ b + (n + 2) = (b + n) + 2 /\ b <= b + n /\ b + n \in Nat
    BY <1>1
  <2> DEFINE e == b + n
  <2>4. t[e + 1] = 13 /\ t[e + 2] = 10 /\ b <= e /\ e \in Nat /\ e + 2 <= Len(t)
    BY <1>2, <2>2, <2>3
  <2> HIDE DEF e
  <2>5. e \in Places(t, LineEnd, b)
    BY <1>1, <2>4, PlacesAre
  <2> QED
    BY <2>5 DEF e
<1>11. ASSUME NEW i \in Places(t, LineEnd, b)
       PROVE  b + n <= i
  <2>1. i \in Nat /\ b <= i /\ i + 2 <= Len(t) /\ t[i + 1] = 13 /\ t[i + 2] = 10
    BY <1>1, PlacesAre
  <2> SUFFICES ASSUME i < b + n
               PROVE  FALSE
    BY <1>1, <2>1
  <2> DEFINE k == i - b
  <2>2. k \in Nat /\ k < n /\ b + (k + 1) = i + 1 /\ b + (k + 2) = i + 2
    BY <1>1, <2>1
  <2> HIDE DEF k
  <2>3. k + 1 \in 1..(n + 2) /\ k + 2 \in 1..(n + 2) /\ k + 2 <= n + 2 /\ 0 <= k
    BY <1>1, <2>2
  <2>4. whole[k + 1] = 13 /\ whole[k + 2] = 10
    BY <1>1, <2>1, <2>2, <2>3
  <2>5. k \in Places(whole, LineEnd, 0)
    BY <1>4, <2>2, <2>3, <2>4, PlacesAre
  <2>6. k = n
    BY <1>7, <2>5
  <2> QED
    BY <1>1, <2>2, <2>6
<1> QED
  BY <1>8, <1>9, <1>10, <1>11 DEF IsFirst, b, n, t

\* What precedes the line is the beginning of what is sent.
LEMMA BeforeIsPrefix ==
  ASSUME NEW h, SentHello(h)
  PROVE  /\ Len(h.before) \in 0..Len(Bytes(h))
         /\ SubSeq(Bytes(h), 1, Len(h.before)) = h.before
<1> DEFINE b == Len(h.before)
           t == Bytes(h)
<1>1. /\ t \in Text /\ b \in Nat /\ \A i \in 1..b : t[i] = h.before[i]
  BY BytesOfHello
<1>2. Len(t) \in Nat /\ Len(h.line) \in Nat /\ b + Len(h.line) + 2 <= Len(t)
  BY LengthOfBytes
<1>3. h.before \in Text /\ Len(h.before) = b
  BY HelloParts
<1> HIDE DEF b, t
<1>4. b \in 0..Len(t)
  BY <1>1, <1>2
<1>5. SubSeq(t, 1, b) \in Text /\ Len(SubSeq(t, 1, b)) = b /\ \A i \in 1..b : SubSeq(t, 1, b)[i] = t[i]
  BY <1>1, <1>4, Prefix
<1>6. SubSeq(t, 1, b) = h.before
  <2> DEFINE u == h.before
             v == SubSeq(t, 1, b)
  <2>1. v \in Text /\ u \in Text /\ Len(v) = b /\ Len(u) = b /\ \A i \in 1..b : v[i] = u[i]
    BY <1>1, <1>3, <1>5
  <2> HIDE DEF u, v
  <2>2. v = u
    BY <2>1, SameText
  <2> QED
    BY <2>2 DEF u, v
<1> QED
  BY <1>4, <1>6 DEF b, t

\* With two, the marker and the line end are those of the first.
LEMMA TwoLinesFirsts ==
  ASSUME NEW h, SentHello(h), TwoLines(h)
  PROVE  \E s : /\ IsFirst(s, Places(Bytes(h), Marker, 0))
                /\ IsFirst(Len(h.before) - 2, Places(Bytes(h), LineEnd, s))
<1> DEFINE b == Len(h.before)
           t == Bytes(h)
           first == Places(h.before, Marker, 0)
           s == Min(first)
           ends == Places(h.before, LineEnd, s)
<1>1. t \in Text /\ b \in Nat /\ h.before \in Text /\ b \in 0..Len(t) /\ h.before = SubSeq(t, 1, b)
  BY HelloParts, BytesOfHello, BeforeIsPrefix
<1>2. first # {} /\ ends # {} /\ Min(ends) = b - 2
  BY DEF TwoLines
<1>3. first \in SUBSET Nat
  BY <1>1, PlacesAre
<1>4. s \in first /\ \A i \in first : s <= i
  <2> HIDE DEF first
  <2> QED
    BY <1>2, <1>3, MinIn
<1>5. s \in Nat
  BY <1>3, <1>4
<1>6. ends \in SUBSET Nat
  <2> HIDE DEF s
  <2> QED
    BY <1>1, <1>5, PlacesAre
<1>7. b - 2 \in ends /\ \A i \in ends : b - 2 <= i
  <2> HIDE DEF ends
  <2> QED
    BY <1>2, <1>6, MinIn
<1> HIDE DEF s
<1>8. /\ first = {i \in Places(t, Marker, 0) : i + 4 <= b}
      /\ ends = {i \in Places(t, LineEnd, s) : i + 2 <= b}
  <2>1. Marker \in Text /\ Len(Marker) = 4 /\ LineEnd \in Text /\ Len(LineEnd) = 2
    BY PatternTexts
  <2>2. \A pattern \in Text, a \in Nat :
          Places(h.before, pattern, a) = {i \in Places(t, pattern, a) : i + Len(pattern) <= b}
    <3> HIDE DEF t, b
    <3> TAKE pattern \in Text, a \in Nat
    <3>1. Places(SubSeq(t, 1, b), pattern, a) = {i \in Places(t, pattern, a) : i + Len(pattern) <= b}
      BY <1>1, PlacesOfPrefix
    <3> QED
      BY <1>1, <3>1
  <2>3. /\ first = {i \in Places(t, Marker, 0) : i + Len(Marker) <= b}
        /\ ends = {i \in Places(t, LineEnd, s) : i + Len(LineEnd) <= b}
    BY <1>5, <2>1, <2>2
  <2> HIDE DEF first, ends
  <2> QED
    BY <2>1, <2>2, <2>3
<1>9. Places(t, Marker, 0) \in SUBSET Nat /\ Places(t, LineEnd, s) \in SUBSET Nat
  <2> HIDE DEF t
  <2> QED
    BY <1>1, <1>5, PlacesAre
<1> HIDE DEF first, ends, t, b
<1>10. IsFirst(s, Places(t, Marker, 0))
  <2>1. s \in Places(t, Marker, 0) /\ s + 4 <= b
    BY <1>4, <1>8
  <2>2. ASSUME NEW i \in Places(t, Marker, 0), i < s
        PROVE  FALSE
    <3>1. i \in Nat /\ i + 4 <= b
      BY <1>1, <1>5, <1>9, <2>1, <2>2
    <3>2. i \in first
      BY <1>8, <3>1
    <3> QED
      BY <1>4, <1>5, <2>2, <3>1, <3>2
  <2>3. \A i \in Places(t, Marker, 0) : s <= i
    BY <1>5, <1>9, <2>2
  <2> QED
    BY <2>1, <2>3 DEF IsFirst
<1>11. IsFirst(b - 2, Places(t, LineEnd, s))
  <2>1. b - 2 \in Places(t, LineEnd, s) /\ b - 2 \in Nat
    BY <1>6, <1>7, <1>8
  <2>2. ASSUME NEW i \in Places(t, LineEnd, s), i < b - 2
        PROVE  FALSE
    <3>1. i \in Nat /\ i + 2 <= b
      BY <1>1, <1>9, <2>1, <2>2
    <3>2. i \in ends
      BY <1>8, <3>1
    <3> QED
      BY <1>1, <1>7, <2>2, <3>1, <3>2
  <2>3. \A i \in Places(t, LineEnd, s) : b - 2 <= i
    BY <1>1, <1>9, <2>2
  <2> QED
    BY <2>1, <2>3 DEF IsFirst
<1> QED
  BY <1>10, <1>11 DEF t, b

-----------------------------------------------------------------------------
(***************************************************************************)
(* tryParseHandshake                                                       *)
(***************************************************************************)

\* The smaller of two numbers.
LEMMA MinTwo ==
  ASSUME NEW a \in Nat, NEW b \in Nat
  PROVE  Min({a, b}) = IF a <= b THEN a ELSE b
<1>1. CASE a <= b
  <2>1. {a, b} \in SUBSET Nat /\ a \in {a, b} /\ \A n \in {a, b} : a <= n
    BY <1>1
  <2>2. Min({a, b}) = a
    BY <2>1, MinIs
  <2> QED
    BY <1>1, <2>2
<1>2. CASE ~(a <= b)
  <2>1. {a, b} \in SUBSET Nat /\ b \in {a, b} /\ \A n \in {a, b} : b <= n
    BY <1>2
  <2>2. Min({a, b}) = b
    BY <2>1, MinIs
  <2> QED
    BY <1>2, <2>2
<1> QED
  BY <1>1, <1>2

BannerOf(h) == SubSeq(h.line, 1, Min({Len(h.line), MaxBanner}))

\* The banner is the client's line, cut where the parser cuts it.
LEMMA BannerOfLine ==
  ASSUME NEW h, SentHello(h), NEW n \in 0..Len(Bytes(h)), n >= Len(h.before) + Len(h.line) + 2
  PROVE  SubSeq(SubSeq(Bytes(h), 1, n), Len(h.before) + 1,
                Min({Len(h.before) + Len(h.line), Len(h.before) + MaxBanner})) = BannerOf(h)
<1> DEFINE b == Len(h.before)
           k == Len(h.line)
           t == Bytes(h)
           buf == SubSeq(t, 1, n)
           m == Min({k, MaxBanner})
           line == h.line
           whole == line \o LineEnd
<1>1. /\ t \in Text /\ b \in Nat /\ k \in Nat /\ Len(t) \in Nat /\ MaxBanner \in Nat
      /\ line \in Text /\ Len(line) = k /\ LineEnd \in Text
  BY HelloParts, BytesOfHello, LengthOfBytes, PatternTexts, Limits
<1>2. \A i \in 1..(k + 2) : t[b + i] = whole[i]
  BY BytesOfHello
<1>3. \A i \in 1..k : whole[i] = line[i]
  BY <1>1, TwoTexts
<1>4. buf \in Text /\ Len(buf) = n /\ \A i \in 1..n : buf[i] = t[i]
  BY <1>1, Prefix
<1>5. m = (IF k <= MaxBanner THEN k ELSE MaxBanner)
      /\ Min({b + k, b + MaxBanner}) = (IF b + k <= b + MaxBanner THEN b + k ELSE b + MaxBanner)
  <2> HIDE DEF b, k, t, line
  <2>1. b + k \in Nat /\ b + MaxBanner \in Nat
    BY <1>1
  <2>2. Min({b + k, b + MaxBanner}) = (IF b + k <= b + MaxBanner THEN b + k ELSE b + MaxBanner)
    <3> DEFINE p == b + k
               q == b + MaxBanner
    <3>1. p \in Nat /\ q \in Nat
      BY <2>1
    <3> HIDE DEF p, q
    <3>2. Min({p, q}) = IF p <= q THEN p ELSE q
      BY <3>1, MinTwo
    <3> QED
      BY <3>2 DEF p, q
  <2> QED
    BY <1>1, <2>2, MinTwo
<1>6. n >= b + k + 2
  OBVIOUS
<1> HIDE DEF b, k, t, buf, m, line, whole
<1>7. m \in Nat /\ m <= k /\ Min({b + k, b + MaxBanner}) = b + m
  BY <1>1, <1>5
<1>8. n \in Nat /\ b + m \in Nat /\ b <= b + m /\ b + m <= Len(buf) /\ (b + m) - b = m
  BY <1>1, <1>4, <1>6, <1>7
<1> DEFINE banner == SubSeq(buf, b + 1, b + m)
           other == SubSeq(line, 1, m)
<1>9. banner \in Text /\ Len(banner) = m /\ \A i \in 1..m : banner[i] = buf[b + i]
  BY <1>1, <1>4, <1>8, PartOf
<1>10. other \in Text /\ Len(other) = m /\ \A i \in 1..m : other[i] = line[i]
  <2>1. m \in 0..Len(line)
    BY <1>1, <1>7
  <2> QED
    BY <1>1, <2>1, Prefix
<1> HIDE DEF banner, other
<1>11. \A i \in 1..m : banner[i] = other[i]
  <2> TAKE i \in 1..m
  <2>1. i \in 1..k /\ i \in 1..(k + 2) /\ b + i \in 1..n
    BY <1>1, <1>6, <1>7, <1>8
  <2> QED
    BY <1>2, <1>3, <1>4, <1>9, <1>10, <2>1
<1>12. banner = other
  BY <1>9, <1>10, <1>11, SameText
<1> QED
  BY <1>7, <1>12 DEF BannerOf, banner, other, b, k, t, buf, m, line

\* What there is of the packet in the first n bytes.
LEMMA PacketInPrefix ==
  ASSUME NEW h, SentHello(h), NEW n \in 0..Len(Bytes(h)), n >= Len(h.before) + Len(h.line) + 2,
         NEW packet,
         packet = SubSeq(SubSeq(Bytes(h), 1, n), (Len(h.before) + Len(h.line) + 2) + 1, n)
  PROVE  /\ packet \in Text /\ Len(packet) = n - (Len(h.before) + Len(h.line) + 2)
         /\ \A i \in 1..Len(Packet(h)) : i <= Len(packet) => packet[i] = Packet(h)[i]
<1> DEFINE e == Len(h.before) + Len(h.line) + 2
           t == Bytes(h)
           buf == SubSeq(t, 1, n)
<1>1. t \in Text /\ e \in Nat /\ Len(t) \in Nat /\ Len(Packet(h)) \in Nat
  <2>1. /\ Len(Bytes(h)) \in Nat /\ Len(Packet(h)) \in Nat
        /\ Len(h.before) + Len(h.line) + 2 \in Nat
    BY LengthOfBytes
  <2>2. e \in Nat
    BY <2>1, Zenon
  <2>3. t \in Text
    BY BytesOfHello
  <2> QED
    BY <2>1, <2>2, <2>3
<1>2. \A i \in 1..Len(Packet(h)) : t[e + i] = Packet(h)[i]
  BY BytesOfHello
<1>3. n >= e /\ packet = SubSeq(buf, e + 1, n) /\ n \in 0..Len(t)
  OBVIOUS
<1> HIDE DEF e, t
<1>4. buf \in Text /\ Len(buf) = n /\ \A i \in 1..n : buf[i] = t[i]
  BY <1>1, <1>3, Prefix
<1> HIDE DEF buf
<1>5. n \in Nat /\ e <= n /\ n <= Len(buf)
  BY <1>1, <1>3, <1>4
<1>6. packet \in Text /\ Len(packet) = n - e /\ \A i \in 1..(n - e) : packet[i] = buf[e + i]
  <2>1. buf \in Text /\ e \in Nat /\ n \in Nat /\ e <= n /\ n <= Len(buf)
    BY <1>1, <1>4, <1>5
  <2> DEFINE part == SubSeq(buf, e + 1, n)
  <2>2. part \in Text /\ Len(part) = n - e /\ \A i \in 1..(n - e) : part[i] = buf[e + i]
    BY <2>1, PartOf
  <2>3. packet = part
    BY <1>3
  <2> HIDE DEF part
  <2> QED
    BY <2>2, <2>3
<1>7. ASSUME NEW i \in 1..Len(Packet(h)), i <= Len(packet)
      PROVE  packet[i] = Packet(h)[i]
  <2>1. i \in Nat /\ i >= 1 /\ i <= n - e
    <3>1. i \in Nat /\ i >= 1
      BY <1>1
    <3> QED
      BY <1>6, <1>7, <3>1
  <2>2. i \in 1..(n - e) /\ e + i \in 1..n
    BY <1>1, <1>5, <2>1
  <2> QED
    BY <1>2, <1>4, <1>6, <2>2
<1> QED
  BY <1>6, <1>7 DEF e

\* The packet is taken for complete when it is, unless its lengths make no sense.
LEMMA PacketFound ==
  ASSUME NEW h, SentHello(h), NEW packet \in Text,
         \A i \in 1..Len(Packet(h)) : i <= Len(packet) => packet[i] = Packet(h)[i]
  PROVE  /\ PacketThere(packet) <=>
              /\ PacketLength(h) <= MaxPacket /\ h.padding >= 4 /\ Len(Payload(h)) >= 1
              /\ Len(packet) >= 4 + PacketLength(h)
         /\ PacketThere(packet) => PayloadOf(packet) = Payload(h)
<1> DEFINE size == PacketLength(h)
           payload == Payload(h)
           n == Len(packet)
           p == Packet(h)
<1>1. /\ size \in Nat /\ size = 1 + Len(payload) + h.padding /\ Len(p) = 4 + size
      /\ \A i \in 1..4 : p[i] = Word(size)[i]
      /\ p[5] = h.padding
      /\ \A i \in 1..Len(payload) : p[5 + i] = payload[i]
  BY PacketBytes
<1>2. payload \in Text /\ Len(payload) \in Nat /\ h.padding \in Nat /\ n \in Nat /\ MaxPacket \in Nat
  BY HelloParts, PayloadBytes, LenProperties, Limits DEF Text
<1>3. \A i \in 1..Len(p) : i <= n => packet[i] = p[i]
  OBVIOUS
<1>4. PacketThere(packet) <=>
        /\ n >= 5 /\ Uint32(packet, 0) \in 1..MaxPacket /\ n >= 4 + Uint32(packet, 0)
        /\ packet[5] >= 4 /\ Uint32(packet, 0) - packet[5] > 1
  BY DEF PacketThere
<1>5. PayloadOf(packet) = SubSeq(packet, 6, 4 + Uint32(packet, 0) - packet[5])
  BY DEF PayloadOf
<1> HIDE DEF size, payload, n, p
<1>6. CASE n < 5
  <2>1. ~PacketThere(packet) /\ ~(n >= 4 + size)
    BY <1>1, <1>2, <1>4, <1>6
  <2> QED
    BY <2>1 DEF n, size
<1>7. CASE n >= 5
  <2>1. \A i \in 1..5 : packet[i] = p[i]
    <3> TAKE i \in 1..5
    <3>1. i \in 1..Len(p) /\ i <= n
      BY <1>1, <1>2, <1>7
    <3> QED
      BY <1>3, <3>1
  <2>2. Uint32(packet, 0) = size
    <3>1. \A i \in 1..4 : packet[0 + i] = Word(size)[i]
      <4> TAKE i \in 1..4
      <4>1. i \in 1..5 /\ 0 + i = i
        OBVIOUS
      <4> QED
        BY <1>1, <2>1, <4>1
    <3>2. 0 \in Nat
      OBVIOUS
    <3> QED
      BY <1>1, <3>1, <3>2, Uint32At
  <2>3. packet[5] = h.padding
    BY <1>1, <2>1
  <2>4. PacketThere(packet) <=>
          size <= MaxPacket /\ h.padding >= 4 /\ Len(payload) >= 1 /\ n >= 4 + size
    BY <1>1, <1>2, <1>4, <1>7, <2>2, <2>3
  <2>5. ASSUME PacketThere(packet)
        PROVE  PayloadOf(packet) = payload
    <3> DEFINE end == 5 + Len(payload)
    <3>1. 4 + size - h.padding = end /\ end \in Nat /\ 5 <= end /\ end <= n /\ end - 5 = Len(payload)
      BY <1>1, <1>2, <2>4, <2>5
    <3> HIDE DEF end
    <3> DEFINE part == SubSeq(packet, 5 + 1, end)
    <3>2. PayloadOf(packet) = part
      BY <1>5, <2>2, <2>3, <3>1
    <3>3. part \in Text /\ Len(part) = end - 5 /\ \A i \in 1..(end - 5) : part[i] = packet[5 + i]
      <4> DEFINE a == 5
      <4>1. a \in Nat /\ end \in Nat /\ a <= end /\ end <= Len(packet)
        BY <3>1 DEF n
      <4> HIDE DEF a
      <4>2. /\ SubSeq(packet, a + 1, end) \in Text /\ Len(SubSeq(packet, a + 1, end)) = end - a
            /\ \A i \in 1..(end - a) : SubSeq(packet, a + 1, end)[i] = packet[a + i]
        BY <4>1, PartOf
      <4> QED
        BY <4>2 DEF a
    <3> HIDE DEF part
    <3>4. \A i \in 1..Len(payload) : part[i] = payload[i]
      <4> TAKE i \in 1..Len(payload)
      <4>1. 5 + i \in 1..Len(p) /\ 5 + i <= n
        BY <1>1, <1>2, <2>4, <2>5
      <4> QED
        BY <1>1, <1>3, <3>1, <3>3, <4>1
    <3>5. part = payload
      BY <1>2, <3>1, <3>3, <3>4, SameText
    <3> QED
      BY <3>2, <3>5
  <2> QED
    BY <2>4, <2>5 DEF n, size, payload
<1> QED
  BY <1>2, <1>6, <1>7

\* What the parser answers, given the line it has found.
LEMMA Parsed ==
  ASSUME NEW buf, NEW line, line = ParseBanner(buf),
         NEW packet, packet = SubSeq(buf, line.next + 1, Len(buf)),
         NEW payload, PacketThere(packet) => PayloadOf(packet) = payload
  PROVE  tryParseHandshake(buf) =
           IF line.ok /\ PacketThere(packet) /\ ParsesKexInit(payload, ParseLists(payload))
           THEN FingerprintOf(line.banner, ParseLists(payload).lists)
           ELSE NotYet
<1>1. tryParseHandshake(buf) =
        IF /\ line.ok /\ PacketThere(packet)
           /\ ParsesKexInit(PayloadOf(packet), ParseLists(PayloadOf(packet)))
        THEN FingerprintOf(line.banner, ParseLists(PayloadOf(packet)).lists)
        ELSE NotYet
  BY DEF tryParseHandshake
<1>2. CASE PacketThere(packet)
  <2>1. PayloadOf(packet) = payload
    BY <1>2
  <2> QED
    BY <1>1, <2>1
<1>3. CASE ~PacketThere(packet)
  BY <1>1, <1>3
<1> QED
  BY <1>2, <1>3

\* Without a line there is no answer.
LEMMA NoBannerParsed ==
  ASSUME NEW buf, ParseBanner(buf).ok = FALSE
  PROVE  tryParseHandshake(buf) = NotYet
  BY DEF tryParseHandshake

\* A packet that the parser recognises once it is complete.
Recognisable(h) == Acceptable(h) /\ h.padding >= 4 /\ PacketLength(h) <= MaxPacket

\* With one line, the answer is that to its packet, once all of it has come.
LEMMA OneLineParsed ==
  ASSUME NEW h, SentHello(h), OneLine(h), NEW n \in 0..Len(Bytes(h))
  PROVE  tryParseHandshake(SubSeq(Bytes(h), 1, n)) =
           IF Recognisable(h) /\ n >= Complete(h) THEN FingerprintOf(BannerOf(h), Meanings(h))
           ELSE NotYet
<1> DEFINE b == Len(h.before)
           k == Len(h.line)
           e == b + k
           t == Bytes(h)
           buf == SubSeq(t, 1, n)
           line == ParseBanner(buf)
           size == PacketLength(h)
           packet == SubSeq(buf, line.next + 1, Len(buf))
<1>1. /\ t \in Text /\ Len(t) \in Nat /\ b \in Nat /\ k \in Nat /\ k >= 4
      /\ size \in Nat /\ size >= 1
  <2>1. t \in Text /\ Len(t) \in Nat /\ b \in Nat /\ k \in Nat
    BY BytesOfHello, LengthOfBytes
  <2>2. size \in Nat /\ size = 1 + Len(Payload(h)) + h.padding
        /\ h.padding \in Nat /\ Len(Payload(h)) \in Nat
    BY PacketBytes, HelloParts, PayloadBytes
  <2>3. Len(Marker) <= Len(h.line) /\ Len(Marker) = 4
    BY PatternTexts DEF OneLine, IsPrefix
  <2> HIDE DEF t, b, size
  <2>4. size >= 1
    BY <2>2
  <2> QED
    BY <2>1, <2>2, <2>3, <2>4
<1>2. IsFirst(b, Places(t, Marker, 0)) /\ IsFirst(e, Places(t, LineEnd, b))
  BY OneLineFirsts
<1>3. Complete(h) = e + 6 + size
  BY DEF Complete
<1>4. Len(buf) = n /\ n \in Nat
  BY <1>1, Prefix
<1>5. line = IF n >= e + 2 /\ n >= 10
             THEN [ok |-> TRUE, next |-> e + 2,
                   banner |-> SubSeq(buf, b + 1, Min({e, b + MaxBanner}))]
             ELSE NoBanner
  <2>1. t \in Text /\ n \in 0..Len(t)
    BY <1>1
  <2> HIDE DEF b, t, e
  <2>2. ParseBanner(SubSeq(t, 1, n)) =
          IF n >= e + 2 /\ n >= 10
          THEN [ok |-> TRUE, next |-> e + 2,
                banner |-> SubSeq(SubSeq(t, 1, n), b + 1, Min({e, b + MaxBanner}))]
          ELSE NoBanner
    BY <1>2, <2>1, LineFound
  <2> QED
    BY <2>2
<1>6. n \in 0..Len(Bytes(h)) /\ SentHello(h)
  OBVIOUS
<1>7. CASE ~(n >= e + 2 /\ n >= 10)
  <2>1. line.ok = FALSE
    <3> HIDE DEF line, e, buf, b
    <3>1. line = NoBanner
      BY <1>5, <1>7
    <3> QED
      BY <3>1 DEF NoBanner
  <2>2. tryParseHandshake(buf) = NotYet
    <3> HIDE DEF buf
    <3> QED
      BY <2>1, NoBannerParsed
  <2> HIDE DEF b, k, t, buf, size
  <2>3. ~(n >= Complete(h))
    BY <1>1, <1>3, <1>4, <1>7
  <2> QED
    BY <2>2, <2>3 DEF buf, t
<1>8. CASE n >= e + 2 /\ n >= 10
  <2>1. line.ok = TRUE /\ line.next = e + 2
        /\ line.banner = SubSeq(buf, b + 1, Min({e, b + MaxBanner}))
    <3> HIDE DEF line, e, buf, b
    <3>1. line = [ok |-> TRUE, next |-> e + 2,
                  banner |-> SubSeq(buf, b + 1, Min({e, b + MaxBanner}))]
      BY <1>5, <1>8
    <3> QED
      BY <3>1
  <2>2. line.banner = BannerOf(h)
    BY <1>6, <1>8, <2>1, BannerOfLine
  <2>3. packet = SubSeq(buf, (e + 2) + 1, n)
    BY <1>4, <2>1
  <2> HIDE DEF packet, line
  <2>4. /\ packet \in Text /\ Len(packet) = n - (e + 2)
        /\ \A i \in 1..Len(Packet(h)) : i <= Len(packet) => packet[i] = Packet(h)[i]
    BY <1>6, <1>8, <2>3, PacketInPrefix
  <2>5. /\ PacketThere(packet) <=>
             /\ size <= MaxPacket /\ h.padding >= 4 /\ Len(Payload(h)) >= 1
             /\ Len(packet) >= 4 + size
        /\ PacketThere(packet) => PayloadOf(packet) = Payload(h)
    BY <2>4, PacketFound
  <2> DEFINE parsed == ParseLists(Payload(h))
  <2>6. tryParseHandshake(buf) =
          IF line.ok /\ PacketThere(packet) /\ ParsesKexInit(Payload(h), parsed)
          THEN FingerprintOf(line.banner, parsed.lists) ELSE NotYet
    <3> HIDE DEF buf
    <3> QED
      BY <2>5, Parsed DEF line, packet
  <2>7. /\ ParsesKexInit(Payload(h), parsed) <=> Acceptable(h)
        /\ Acceptable(h) => parsed.lists = Meanings(h) /\ Len(Payload(h)) >= 17
        /\ Len(Payload(h)) \in Nat
    BY ParsesHello, PayloadBytes
  <2> HIDE DEF parsed, b, k, t, buf, size
  <2>8. Len(packet) >= 4 + size <=> n >= Complete(h)
    BY <1>1, <1>3, <1>4, <2>4
  <2>9. PacketThere(packet) /\ Acceptable(h) <=> Recognisable(h) /\ n >= Complete(h)
    BY <2>5, <2>7, <2>8 DEF Recognisable, size
  <2>10. Recognisable(h) /\ n >= Complete(h) => parsed.lists = Meanings(h)
    BY <2>7 DEF Recognisable
  <2>11. tryParseHandshake(buf) =
           IF Recognisable(h) /\ n >= Complete(h) THEN FingerprintOf(BannerOf(h), Meanings(h))
           ELSE NotYet
    BY <2>1, <2>2, <2>6, <2>7, <2>9, <2>10
  <2> QED
    BY <2>11 DEF buf, t
<1> QED
  BY <1>7, <1>8

\* Text in place of the packet has a length that is too large.
LEMMA TextIsNoPacket ==
  ASSUME NEW packet \in Text, packet # <<>>, packet[1] # 0
  PROVE  ~PacketThere(packet)
<1> SUFFICES ASSUME PacketThere(packet)
             PROVE  FALSE
  OBVIOUS
<1>1. Len(packet) >= 5 /\ Uint32(packet, 0) \in 1..MaxPacket
  BY DEF PacketThere
<1>2. Len(packet) \in Nat /\ \A i \in 1..Len(packet) : packet[i] \in Nat
  BY LenProperties, ElementOfSeq DEF Text
<1>3. packet[1] \in Nat /\ packet[2] \in Nat /\ packet[3] \in Nat /\ packet[4] \in Nat
  BY <1>1, <1>2
<1>4. Uint32(packet, 0) = ((packet[1] * 256 + packet[2]) * 256 + packet[3]) * 256 + packet[4]
  BY DEF Uint32
<1>5. MaxPacket < 16777216 /\ MaxPacket \in Nat
  BY LimitsAssumption, SMT
<1> DEFINE p == packet[1]
           q == packet[2]
           r == packet[3]
           s == packet[4]
<1>6. p \in Nat /\ p # 0 /\ q \in Nat /\ r \in Nat /\ s \in Nat
      /\ ((p * 256 + q) * 256 + r) * 256 + s <= MaxPacket
  BY <1>1, <1>3, <1>4, <1>5, SMT
<1> HIDE DEF p, q, r, s
<1> QED
  BY <1>5, <1>6, SMT

\* Behind another line the text of the second is no packet: its first bytes would be
\* the length of one far too long.
LEMMA TwoLinesParsed ==
  ASSUME NEW h, SentHello(h), TwoLines(h), NEW n \in 0..Len(Bytes(h))
  PROVE  tryParseHandshake(SubSeq(Bytes(h), 1, n)) = NotYet
<1> DEFINE b == Len(h.before)
           t == Bytes(h)
           buf == SubSeq(t, 1, n)
           line == ParseBanner(buf)
           packet == SubSeq(buf, line.next + 1, Len(buf))
           e == b - 2
<1>1. PICK s : IsFirst(s, Places(t, Marker, 0)) /\ IsFirst(e, Places(t, LineEnd, s))
  BY TwoLinesFirsts
<1>2. t \in Text /\ Len(t) \in Nat /\ b \in Nat /\ n \in 0..Len(t)
  BY BytesOfHello, LengthOfBytes
<1>3. buf \in Text /\ Len(buf) = n /\ n \in Nat /\ \A i \in 1..n : buf[i] = t[i]
  <2> HIDE DEF t
  <2> QED
    BY <1>2, Prefix
<1>4. line = IF n >= e + 2 /\ n >= 10
             THEN [ok |-> TRUE, next |-> e + 2,
                   banner |-> SubSeq(buf, s + 1, Min({e, s + MaxBanner}))]
             ELSE NoBanner
  <2> HIDE DEF e, t
  <2>1. ParseBanner(SubSeq(t, 1, n)) =
          IF n >= e + 2 /\ n >= 10
          THEN [ok |-> TRUE, next |-> e + 2,
                banner |-> SubSeq(SubSeq(t, 1, n), s + 1, Min({e, s + MaxBanner}))]
          ELSE NoBanner
    BY <1>1, <1>2, LineFound
  <2> QED
    BY <2>1
<1>5. CASE ~(n >= e + 2 /\ n >= 10)
  <2>1. line.ok = FALSE
    <3> HIDE DEF line, e, buf
    <3>1. line = NoBanner
      BY <1>4, <1>5
    <3> QED
      BY <3>1 DEF NoBanner
  <2> HIDE DEF buf
  <2>2. tryParseHandshake(buf) = NotYet
    BY <2>1, NoBannerParsed
  <2> QED
    BY <2>2 DEF buf
<1>6. CASE n >= e + 2 /\ n >= 10
  <2>1. line.next = e + 2
    <3> HIDE DEF line, e, buf
    <3>1. line = [ok |-> TRUE, next |-> e + 2,
                  banner |-> SubSeq(buf, s + 1, Min({e, s + MaxBanner}))]
      BY <1>4, <1>6
    <3> QED
      BY <3>1
  <2>2. e + 2 = b /\ b <= n
    BY <1>2, <1>3, <1>6
  <2>3. packet = SubSeq(buf, b + 1, n)
    <3> HIDE DEF line, buf, e, b
    <3> QED
      BY <1>3, <2>1, <2>2
  <2>4. /\ packet \in Text /\ Len(packet) = n - b
        /\ \A i \in 1..(n - b) : packet[i] = buf[b + i]
    <3> HIDE DEF line, buf, e, b, packet
    <3>1. b \in Nat /\ n \in Nat /\ b <= n /\ n <= Len(buf) /\ buf \in Text
      BY <1>2, <1>3, <2>2
    <3> DEFINE part == SubSeq(buf, b + 1, n)
    <3>2. part \in Text /\ Len(part) = n - b /\ \A i \in 1..(n - b) : part[i] = buf[b + i]
      BY <3>1, PartOf
    <3>3. packet = part
      BY <2>3
    <3> HIDE DEF part
    <3> QED
      BY <3>2, <3>3
  <2>5. t[b + 1] # 0
    <3> DEFINE k == Len(h.line)
               whole == h.line \o LineEnd
    <3>1. h.line # <<>> /\ h.line[1] # 0 /\ h.line \in Text /\ LineEnd \in Text
      BY HelloParts, PatternTexts DEF TwoLines
    <3>2. k \in Nat /\ k # 0
      BY <3>1, EmptySeq, LenProperties DEF Text
    <3>3. \A i \in 1..k : whole[i] = h.line[i]
      BY <3>1, TwoTexts
    <3>4. \A i \in 1..(k + 2) : t[b + i] = whole[i]
      BY BytesOfHello
    <3> HIDE DEF k, whole, t, b
    <3>5. 1 \in 1..k /\ 1 \in 1..(k + 2)
      BY <3>2
    <3> QED
      BY <3>1, <3>3, <3>4, <3>5
  <2>6. ~PacketThere(packet)
    <3> HIDE DEF packet, line, buf, t, b, e
    <3>1. CASE n = b
      <4>1. Len(packet) = 0
        BY <1>2, <2>4, <3>1
      <4> QED
        BY <4>1 DEF PacketThere
    <3>2. CASE n # b
      <4>1. 1 \in 1..(n - b) /\ b + 1 \in 1..n
        BY <1>2, <1>3, <2>2, <3>2
      <4>2. packet[1] = t[b + 1]
        BY <1>3, <2>4, <4>1
      <4>3. packet # <<>>
        <5>1. Len(packet) # 0
          BY <1>2, <1>3, <2>4, <3>2
        <5>2. Len(<<>>) = 0
          OBVIOUS
        <5> QED
          BY <5>1, <5>2
      <4> QED
        BY <2>4, <2>5, <4>2, <4>3, TextIsNoPacket
    <3> QED
      BY <3>1, <3>2
  <2> HIDE DEF packet, line
  <2>7. tryParseHandshake(buf) = NotYet
    <3> HIDE DEF buf
    <3>1. tryParseHandshake(buf) =
            IF line.ok /\ PacketThere(packet) /\ ParsesKexInit(<<>>, ParseLists(<<>>))
            THEN FingerprintOf(line.banner, ParseLists(<<>>).lists)
            ELSE NotYet
      BY <2>6, Parsed DEF line, packet
    <3> QED
      BY <2>6, <3>1
  <2> QED
    BY <2>7 DEF buf
<1> QED
  BY <1>5, <1>6

\* Without a line there is never an answer.
LEMMA NoLineParsed ==
  ASSUME NEW h, SentHello(h), NoLine(h), NEW n \in 0..Len(Bytes(h))
  PROVE  tryParseHandshake(SubSeq(Bytes(h), 1, n)) = NotYet
<1> DEFINE t == Bytes(h)
           buf == SubSeq(t, 1, n)
<1>1. t \in Text /\ n \in 0..Len(t) /\ Places(t, Marker, 0) = {}
  BY BytesOfHello DEF NoLine
<1>2. Places(buf, Marker, 0) = {}
  <2> HIDE DEF t
  <2>1. Marker \in Text /\ 0 \in Nat
    BY PatternTexts
  <2>2. Places(buf, Marker, 0) = {i \in Places(t, Marker, 0) : i + Len(Marker) <= n}
    BY <1>1, <2>1, PlacesOfPrefix
  <2> QED
    BY <1>1, <2>2
<1> HIDE DEF buf
<1>3. ParseBanner(buf) = NoBanner
  BY <1>2 DEF ParseBanner, NoBanner
<1>4. ParseBanner(buf).ok = FALSE
  BY <1>3 DEF NoBanner
<1>5. tryParseHandshake(buf) = NotYet
  BY <1>4, NoBannerParsed
<1> QED
  BY <1>5 DEF buf

\* What conforms is one line and a recognisable packet.
LEMMA ConformantIs ==
  ASSUME NEW h, SentHello(h), OneLine(h) \/ NoLine(h) \/ TwoLines(h)
  PROVE  Conformant(h) <=> OneLine(h) /\ Recognisable(h)
<1> DEFINE lined == IsPrefix(Marker, h.line) /\ Places(h.before, Marker, 0) = {}
<1>1. [i \in 1..10 |-> Meaning(h.lists[i])] = Meanings(h)
  BY DEF Meanings
<1>2. Conformant(h) <=> lined /\ Recognisable(h)
  <2> HIDE DEF lined
  <2>1. Recognisable(h) <=>
          /\ h.type = 20 /\ h.cut = 0 /\ h.padding >= 4
          /\ \A i \in 1..10 : Len(h.lists[i]) <= MaxCount
          /\ \A i \in 1..10 : \A s \in ToSet(h.lists[i]) : s.valid
          /\ Len(FlattenSeq(Meanings(h))) <= MaxTotal
          /\ Len(Payload(h)) <= MaxPayload
          /\ PacketLength(h) <= MaxPacket
    BY DEF Recognisable, Acceptable, GoodList
  <2>2. Conformant(h) <=>
          /\ lined
          /\ h.type = 20 /\ h.padding >= 4 /\ h.cut = 0
          /\ \A i \in 1..10 : Len(h.lists[i]) <= MaxCount
          /\ \A i \in 1..10 : \A s \in ToSet(h.lists[i]) : s.valid
          /\ Len(FlattenSeq(Meanings(h))) <= MaxTotal
          /\ Len(Payload(h)) <= MaxPayload
          /\ PacketLength(h) <= MaxPacket
    BY <1>1 DEF Conformant, lined
  <2> QED
    BY <2>1, <2>2
<1>3. OneLine(h) => lined
  BY DEF OneLine
<1>4. lined => ~TwoLines(h)
  BY DEF TwoLines
<1>5. lined => ~NoLine(h)
  <2> SUFFICES ASSUME lined
               PROVE  Places(Bytes(h), Marker, 0) # {}
    BY DEF NoLine
  <2> DEFINE b == Len(h.before)
             k == Len(h.line)
             t == Bytes(h)
             whole == h.line \o LineEnd
             line == h.line
  <2>1. /\ t \in Text /\ b \in Nat /\ k \in Nat /\ Len(t) \in Nat /\ b + k + 2 <= Len(t)
    BY BytesOfHello, LengthOfBytes
  <2>2. line \in Text /\ LineEnd \in Text /\ Marker \in Text /\ Len(Marker) = 4
        /\ Marker[1] = 83 /\ Marker[2] = 83 /\ Marker[3] = 72 /\ Marker[4] = 45
    BY HelloParts, PatternTexts
  <2>3. \A i \in 1..k : whole[i] = line[i]
    BY <2>2, TwoTexts
  <2>4. \A i \in 1..(k + 2) : t[b + i] = whole[i]
    BY BytesOfHello
  <2>5. 4 <= Len(line) /\ SubSeq(Marker, 1, 4) = SubSeq(line, 1, 4)
    BY <2>2 DEF IsPrefix
  <2>6. k = Len(line)
    OBVIOUS
  <2> HIDE DEF b, k, t, whole, line
  <2>7. \A i \in 1..4 : Marker[i] = line[i]
    <3>1. 4 \in 0..Len(line) /\ 4 \in 0..Len(Marker)
      BY <2>1, <2>2, <2>5, <2>6
    <3>2. \A i \in 1..4 : SubSeq(Marker, 1, 4)[i] = Marker[i]
      BY <2>2, <3>1, Prefix
    <3>3. \A i \in 1..4 : SubSeq(line, 1, 4)[i] = line[i]
      BY <2>2, <3>1, Prefix
    <3> QED
      BY <2>5, <3>2, <3>3
  <2>8. \A i \in 1..4 : t[b + i] = Marker[i]
    <3> TAKE i \in 1..4
    <3>1. i \in 1..k /\ i \in 1..(k + 2)
      BY <2>1, <2>5, <2>6
    <3> QED
      BY <2>3, <2>4, <2>7, <3>1
  <2>9. t[b + 1] = 83 /\ t[b + 2] = 83 /\ t[b + 3] = 72 /\ t[b + 4] = 45
    BY <2>2, <2>8
  <2>10. 0 <= b /\ b + 4 <= Len(t)
    BY <2>1, <2>5, <2>6
  <2>11. b \in Places(t, Marker, 0)
    BY <2>1, <2>9, <2>10, PlacesAre
  <2> QED
    BY <2>11 DEF t
<1> HIDE DEF lined
<1> QED
  BY <1>2, <1>3, <1>4, <1>5

Recognised(h, n) ==
  IF Conformant(h) /\ n >= Complete(h) THEN FingerprintOf(BannerOf(h), Meanings(h)) ELSE NotYet

\* The answer to the first n bytes of what a client sends.
LEMMA HandshakeParsed ==
  ASSUME NEW h \in Hellos, NEW n \in 0..Len(Bytes(h))
  PROVE  tryParseHandshake(SubSeq(Bytes(h), 1, n)) = Recognised(h, n)
<1>1. SentHello(h) /\ (OneLine(h) \/ NoLine(h) \/ TwoLines(h))
  BY HellosAssumption DEF SentHello
<1>2. Conformant(h) <=> OneLine(h) /\ Recognisable(h)
  BY <1>1, ConformantIs
<1>3. CASE OneLine(h)
  BY <1>1, <1>2, <1>3, OneLineParsed DEF Recognised
<1>4. CASE ~OneLine(h)
  <2>1. tryParseHandshake(SubSeq(Bytes(h), 1, n)) = NotYet
    BY <1>1, <1>4, NoLineParsed, TwoLinesParsed
  <2> QED
    BY <1>2, <1>4, <2>1 DEF Recognised
<1> QED
  BY <1>3, <1>4

-----------------------------------------------------------------------------
(***************************************************************************)
(* The theorems                                                            *)
(***************************************************************************)

\* What has been answered is the answer to the bytes read so far, and to nothing else.
KexIInv ==
  /\ hello \in Hellos
  /\ sent = Bytes(hello)
  /\ received \in 0..Len(sent)
  /\ result = Recognised(hello, received)

\* Every hello is one that clients send.
LEMMA HellosAreSent == \A h \in Hellos : SentHello(h)
  BY HellosAssumption DEF SentHello

\* Before the first read nothing is recognised, for no handshake is complete.
LEMMA KexStarts == KexInit => KexIInv
<1> SUFFICES ASSUME KexInit PROVE KexIInv
  OBVIOUS
<1>1. hello \in Hellos /\ sent = Bytes(hello) /\ received = 0 /\ result = NotYet
  BY DEF KexInit
<1>2. SentHello(hello)
  BY <1>1, HellosAreSent
<1>3. received \in 0..Len(sent)
  BY <1>1, <1>2, LengthOfBytes
<1>4. Complete(hello) \in Nat /\ Complete(hello) > 0
  <2> DEFINE b == Len(hello.before)
             n == Len(hello.line)
             p == PacketLength(hello)
  <2>1. b \in Nat /\ n \in Nat
    BY <1>2, LengthOfBytes
  <2>2. p \in Nat
    BY <1>2, PacketBytes
  <2>3. Complete(hello) = b + n + 6 + p
    BY DEF Complete
  <2> HIDE DEF b, n, p
  <2> QED
    BY <2>1, <2>2, <2>3
<1>6. ~(received >= Complete(hello))
  BY <1>1, <1>4
<1>7. result = Recognised(hello, received)
  BY <1>1, <1>6 DEF Recognised
<1> QED
  BY <1>1, <1>3, <1>7 DEF KexIInv

\* Every read is answered like the bytes it leads to.
LEMMA KexStep == KexIInv /\ [KexNext]_kexVars => KexIInv'
<1> SUFFICES ASSUME KexIInv, [KexNext]_kexVars PROVE KexIInv'
  OBVIOUS
<1>1. CASE Capture
  <2>1. hello \in Hellos /\ sent = Bytes(hello) /\ received \in 0..Len(sent)
    BY DEF KexIInv
  <2>2. hello' = hello /\ sent' = sent
    BY <1>1 DEF Capture
  <2>3. Len(sent) \in Nat /\ Chunk \in Nat
    BY <2>1, HellosAreSent, LengthOfBytes, Limits
  <2>4. received' \in 0..Len(sent)
    <3>1. PICK n \in 1..Chunk : received + n <= Len(sent) /\ received' = received + n
      BY <1>1 DEF Capture
    <3> QED
      BY <2>1, <2>3, <3>1
  <2>5. result' = tryParseHandshake(SubSeq(sent, 1, received'))
    BY <1>1 DEF Capture
  <2>6. result' = Recognised(hello, received')
    BY <2>1, <2>4, <2>5, HandshakeParsed
  <2>7. KexIInv' = (/\ hello' \in Hellos /\ sent' = Bytes(hello')
                    /\ received' \in 0..Len(sent') /\ result' = Recognised(hello', received'))
    BY DEF KexIInv
  <2> QED
    BY <2>1, <2>2, <2>4, <2>6, <2>7
<1>2. CASE UNCHANGED kexVars
  BY <1>2 DEF KexIInv, kexVars
<1> QED
  BY <1>1, <1>2 DEF KexNext, Ended

\* The inductive invariant: the answer is a function of the hello and of how much of it
\* has been read.
THEOREM KexInvariance == KexSpec => []KexIInv
  BY KexStarts, KexStep, PTL DEF KexSpec

\* An answer, and whether there is one.
LEMMA AnswerIs ==
  ASSUME KexIInv
  PROVE  /\ result.ok <=> Conformant(hello) /\ received >= Complete(hello)
         /\ result.ok => result = FingerprintOf(BannerOf(hello), Meanings(hello))
<1>1. result = Recognised(hello, received)
  BY DEF KexIInv
<1>2. CASE Conformant(hello) /\ received >= Complete(hello)
  <2>1. result = FingerprintOf(BannerOf(hello), Meanings(hello))
    BY <1>1, <1>2 DEF Recognised
  <2>2. result.ok = TRUE
    BY <2>1 DEF FingerprintOf
  <2> QED
    BY <1>2, <2>1, <2>2
<1>3. CASE ~(Conformant(hello) /\ received >= Complete(hello))
  <2>1. result = NotYet
    BY <1>1, <1>3 DEF Recognised
  <2>2. result.ok = FALSE
    BY <2>1 DEF NotYet
  <2> QED
    BY <1>3, <2>2
<1> QED
  BY <1>2, <1>3

\* A client is recognised exactly if its handshake conforms and has come, for all that
\* clients may send, whatever the limits and however the reads cut it up.
THEOREM HandshakesRecognised == KexSpec => []RecognisedOnceComplete
<1>1. KexIInv => RecognisedOnceComplete
  BY AnswerIs DEF RecognisedOnceComplete
<1> QED
  BY <1>1, KexInvariance, PTL

\* The digest of the meanings is that of the offer.
LEMMA DigestIs ==
  ASSUME NEW h
  PROVE  FingerprintOf(BannerOf(h), Meanings(h)).hash = Digested(Offer(h))
<1>1. \A i \in {1, 3, 5, 7} : Meanings(h)[i] = Meaning(h.lists[i])
  BY DEF Meanings
<1>2. \A i \in {1, 3, 5, 7} : Offer(h)[i] = Meaning(h.lists[i])
  BY DEF Offer
<1> QED
  BY <1>1, <1>2 DEF FingerprintOf, Digested

\* The fingerprint is that of the names the client has sent, and the banner is its line.
THEOREM FingerprintsOfWhatWasSent == KexSpec => []FingerprintOfWhatWasSent
<1>1. ASSUME KexIInv PROVE FingerprintOfWhatWasSent
  <2> SUFFICES ASSUME result.ok
               PROVE  /\ result.hash = Digested(Offer(hello))
                      /\ result.banner = BannerOf(hello)
    BY DEF FingerprintOfWhatWasSent, BannerOf
  <2>1. result = FingerprintOf(BannerOf(hello), Meanings(hello))
    BY <1>1, AnswerIs
  <2>2. result.hash = Digested(Offer(hello))
    BY <2>1, DigestIs
  <2>3. result.banner = BannerOf(hello)
    BY <2>1 DEF FingerprintOf
  <2> QED
    BY <2>2, <2>3
<1> QED
  BY <1>1, KexInvariance, PTL

\* An offer without semicolons: four lists of names in which there are none.
LEMMA PlainOffer ==
  ASSUME NEW offer \in PlainOffers
  PROVE  /\ offer = [i \in {1, 3, 5, 7} |-> offer[i]]
         /\ \A i \in {1, 3, 5, 7} : offer[i] \in Seq(Name) /\ FreeNames(offer[i], Semicolon)
<1>1. PICK h \in Hellos : offer = Offer(h)
  BY DEF PlainOffers
<1>2. offer = [i \in {1, 3, 5, 7} |-> Meaning(h.lists[i])]
  BY <1>1 DEF Offer
<1>3. \A i \in {1, 3, 5, 7} : offer[i] \in Seq(Name)
  <2> TAKE i \in {1, 3, 5, 7}
  <2>1. i \in 1..10
    OBVIOUS
  <2>2. SentList(h.lists[i])
    BY <2>1, HellosAreSent, HelloParts
  <2> QED
    BY <1>2, <2>2, MeantByList
<1>4. \A i \in {1, 3, 5, 7} : FreeNames(offer[i], Semicolon)
  <2> TAKE i \in {1, 3, 5, 7}
  <2>1. \A name \in ToSet(offer[i]) : ~Contains(name, Semicolon)
    BY DEF PlainOffers
  <2> DEFINE names == offer[i]
  <2>2. names \in Seq(Name)
    BY <1>3
  <2> HIDE DEF names
  <2>3. DOMAIN names = 1..Len(names)
    BY <2>2, LenProperties
  <2>4. \A n \in 1..Len(names) : names[n] \in ToSet(names)
    BY <2>3 DEF ToSet
  <2>5. \A n \in 1..Len(names) : ~Contains(names[n], Semicolon)
    BY <2>1, <2>4 DEF names
  <2>6. FreeNames(names, Semicolon)
    BY <2>5 DEF FreeNames, Free, Contains
  <2> QED
    BY <2>6 DEF names
<1> QED
  BY <1>2, <1>3, <1>4

\* The digested text tells all offers without semicolons apart.
LEMMA OffersIdentified ==
  ASSUME NEW one \in PlainOffers, NEW other \in PlainOffers, Digested(one) = Digested(other)
  PROVE  one = other
<1>1. \A i \in {1, 3, 5, 7} :
        /\ one[i] \in Seq(Name) /\ FreeNames(one[i], Semicolon)
        /\ other[i] \in Seq(Name) /\ FreeNames(other[i], Semicolon)
  BY PlainOffer
<1>2. Calculate(one[1], one[3], one[5], one[7]) = Calculate(other[1], other[3], other[5], other[7])
  BY DEF Digested
<1>3. one[1] = other[1] /\ one[3] = other[3] /\ one[5] = other[5] /\ one[7] = other[7]
  <2> DEFINE k == one[1] c == one[3] m == one[5] z == one[7]
             p == other[1] q == other[3] r == other[5] s == other[7]
  <2>1. Quadruple(k, c, m, z) /\ Quadruple(p, q, r, s)
    BY <1>1 DEF Quadruple
  <2>2. Calculate(k, c, m, z) = Calculate(p, q, r, s)
    BY <1>2
  <2> HIDE DEF k, c, m, z, p, q, r, s
  <2>3. k = p /\ c = q /\ m = r /\ z = s
    BY <2>1, <2>2, CalculateInjective
  <2> QED
    BY <2>3 DEF k, c, m, z, p, q, r, s
<1>4. \A i \in {1, 3, 5, 7} : one[i] = other[i]
  BY <1>3
<1>5. one = [i \in {1, 3, 5, 7} |-> one[i]] /\ other = [i \in {1, 3, 5, 7} |-> other[i]]
  BY PlainOffer
<1> QED
  BY <1>4, <1>5

\* Two clients have the same fingerprint exactly if they offer the same names in the same
\* order, as long as no name contains a semicolon.
THEOREM FingerprintsIdentifyOffers == KexSpec => []FingerprintIdentifiesOffer
<1>1. ASSUME KexIInv PROVE FingerprintIdentifiesOffer
  <2> SUFFICES ASSUME result.ok, Offer(hello) \in PlainOffers, NEW other \in PlainOffers
               PROVE  other = Offer(hello) <=> result.hash = Digested(other)
    BY DEF FingerprintIdentifiesOffer
  <2>1. result.hash = Digested(Offer(hello))
    BY <1>1, AnswerIs, DigestIs
  <2>2. Digested(Offer(hello)) = Digested(other) => other = Offer(hello)
    BY OffersIdentified
  <2> QED
    BY <2>1, <2>2
<1> QED
  BY <1>1, KexInvariance, PTL

=============================================================================
