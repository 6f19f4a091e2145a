---------------------------- MODULE StreamProofs ----------------------------
(***************************************************************************)
(* Proofs about module Stream, for streams, budgets and chunks of any      *)
(* size. StreamIInv ties what is buffered, held by a goroutine and         *)
(* received to the position up to which the sender's socket has been read. *)
(***************************************************************************)
EXTENDS Stream, SequenceTheorems, TLAPS

\* The position before the first byte that a peer is to receive.
Offset(s) == IF s = "client" THEN line ELSE 0

\* A peer has received the bytes from its offset to this position.
Reached(s) == Offset(s) + Len(got[s])

Typed ==
  /\ handshake \in Nat /\ line \in Nat
  /\ stage \in Stages
  /\ verdict \in CaptureOutcomes
  /\ sent \in [Peer -> Nat] /\ taken \in [Peer -> Nat]
  /\ \A s \in Peer : taken[s] <= sent[s] /\ sent[s] <= Total
  /\ fin \subseteq Peer /\ broken \subseteq Peer /\ eof \subseteq Peer
  /\ copy \in [Peer -> CopyStates]
  /\ buffered \in Seq(Nat) /\ probe \in Seq(Nat)
  /\ got \in [Peer -> Seq(Nat)] /\ held \in [Peer -> Seq(Nat)]
  /\ unread \in [Peer -> Nat]
  /\ \A s \in Peer : unread[s] <= Len(got[s]) /\ unread[s] <= Window

\* The two buffers begin with the first byte; until the goroutines start they hold
\* all that has been read.
Buffers ==
  /\ buffered = Bytes(0, Len(buffered)) /\ Len(buffered) < MaxCapture + CaptureChunk
  /\ probe = Bytes(0, Len(probe)) /\ Len(probe) < MaxProbe + ProbeChunk
  /\ stage \notin {"relay", "closed"} =>
       /\ taken["client"] = Len(buffered)
       /\ taken["upstream"] = Len(probe)
  /\ stage \in {"replay", "extra"} => LineComplete

\* What a peer has received is a segment of the other's stream.
Segments == \A s \in Peer : got[s] = Bytes(Offset(s), Reached(s))

\* Before the goroutines: who has received what.
Before ==
  /\ stage \in {"capture", "dial", "line"} => got["upstream"] = <<>>
  /\ stage = "replay" => Len(got["upstream"]) <= Len(buffered)
  /\ stage = "extra" => Len(got["upstream"]) = Len(buffered)
  /\ stage \in {"capture", "dial", "line", "replay"} => got["client"] = <<>>
  /\ stage = "extra" => Reached("client") <= Len(probe)
  /\ stage \in {"capture", "dial", "line", "replay", "extra"} =>
       \A s \in Peer : copy[s] = "off"
  /\ stage = "closed" => \A s \in Peer : copy[s] \in {"off", "done"}

\* A goroutine has delivered all it has read but for its chunk, until it ends.
InStep(s) ==
  /\ copy[s] = "read" => Reached(Other(s)) = taken[s]
  /\ copy[s] = "write" =>
       /\ held[s] = Bytes(Reached(Other(s)), taken[s])
       /\ Reached(Other(s)) <= taken[s]
  /\ copy[s] \in {"shut", "done"} =>
       \/ broken # {}
       \/ s \in fin /\ taken[s] = sent[s] /\ Reached(Other(s)) = taken[s]
  /\ s \in eof => copy[Other(s)] = "done"

StreamIInv ==
  Typed /\ Buffers /\ Segments /\ Before /\ (\A s \in Peer : InStep(s)) /\ BudgetDecides

-----------------------------------------------------------------------------
(***************************************************************************)
(* Segments of a stream                                                    *)
(***************************************************************************)

\* A segment holds as many bytes as its ends are apart.
LEMMA BytesType ==
  ASSUME NEW a \in Nat, NEW b \in Nat, a <= b
  PROVE  Bytes(a, b) \in Seq(Nat) /\ Len(Bytes(a, b)) = b - a
<1>1. b - a \in Nat
    OBVIOUS
<1>2. \A i \in 1..(b - a) : a + i \in Nat
    OBVIOUS
<1> QED
    BY <1>1, <1>2 DEF Bytes

\* An empty segment.
LEMMA BytesEmpty ==
  ASSUME NEW a \in Nat
  PROVE  Bytes(a, a) = <<>>
<1>1. Bytes(a, a) \in Seq(Nat) /\ Len(Bytes(a, a)) = 0
    BY BytesType
<1> QED
    BY <1>1

\* The bytes of a segment.
LEMMA BytesElement ==
  ASSUME NEW a \in Nat, NEW b \in Nat, NEW i \in 1..(b - a)
  PROVE  Bytes(a, b)[i] = a + i
BY DEF Bytes

\* Two segments that meet are one.
LEMMA BytesConcat ==
  ASSUME NEW a \in Nat, NEW b \in Nat, NEW c \in Nat, a <= b, b <= c
  PROVE  Bytes(a, b) \o Bytes(b, c) = Bytes(a, c)
<1> DEFINE left == Bytes(a, b)  right == Bytes(b, c)  all == Bytes(a, c)  both == left \o right
<1>1. left \in Seq(Nat) /\ Len(left) = b - a
    BY BytesType
<1>2. right \in Seq(Nat) /\ Len(right) = c - b
    BY BytesType
<1>3. all \in Seq(Nat) /\ Len(all) = c - a
    BY BytesType
<1>4. \A i \in 1..(b - a) : left[i] = a + i
    BY BytesElement
<1>5. \A i \in 1..(c - b) : right[i] = b + i
    BY BytesElement
<1>6. \A i \in 1..(c - a) : all[i] = a + i
    BY BytesElement
<1> HIDE DEF left, right, all
<1>7. /\ both \in Seq(Nat)
      /\ Len(both) = Len(left) + Len(right)
      /\ \A i \in 1..Len(left) + Len(right) :
           both[i] = IF i <= Len(left) THEN left[i] ELSE right[i - Len(left)]
    BY <1>1, <1>2, ConcatProperties
<1> HIDE DEF both
<1>8. \A i \in 1..Len(both) : both[i] = all[i]
    BY <1>1, <1>2, <1>4, <1>5, <1>6, <1>7
<1>9. Len(both) = Len(all)
    BY <1>1, <1>2, <1>3, <1>7
<1>10. both = all
    BY <1>3, <1>7, <1>8, <1>9, SeqEqual
<1> QED
    BY <1>10 DEF both, left, right, all

\* The first k and the first m bytes are two beginnings of the segment from a to b.
Within(a, b, k, m) == a \in Nat /\ b \in Nat /\ k \in Nat /\ m \in Nat /\ k <= m /\ m <= b - a

\* A part of a segment.
LEMMA BytesPart ==
  ASSUME NEW a, NEW b, NEW k, NEW m, Within(a, b, k, m)
  PROVE  SubSeq(Bytes(a, b), k + 1, m) = Bytes(a + k, a + m)
<1> USE DEF Within
<1> DEFINE whole == Bytes(a, b)  part == SubSeq(whole, k + 1, m)
           low == a + k  high == a + m  all == Bytes(low, high)
<1>1. whole \in Seq(Nat) /\ Len(whole) = b - a
  <2>1. a <= b
      OBVIOUS
  <2> QED
      BY <2>1, BytesType
<1>2. low \in Nat /\ high \in Nat /\ low <= high /\ high - low = m - k
    OBVIOUS
<1>3. \A i \in 1..(b - a) : whole[i] = a + i
    BY BytesElement
<1> HIDE DEF whole, low, high
<1>4. all \in Seq(Nat) /\ Len(all) = m - k
    BY <1>2, BytesType
<1>5. \A i \in 1..(m - k) : all[i] = low + i
    BY <1>2, BytesElement
<1> HIDE DEF all
<1>6. /\ part \in Seq(Nat)
      /\ Len(part) = IF k + 1 <= m THEN m - (k + 1) + 1 ELSE 0
      /\ \A i \in 1..(m - (k + 1) + 1) : part[i] = whole[(k + 1) + i - 1]
  <2>1. \A i \in (k + 1)..m : whole[i] \in Nat
      BY <1>3
  <2> QED
      BY <2>1, SubSeqProperties
<1> HIDE DEF part
<1>7. Len(part) = Len(all)
    BY <1>4, <1>6
<1>8. ASSUME NEW i \in 1..Len(part)
      PROVE  part[i] = all[i]
  <2>1. i \in 1..(m - k) /\ k + i \in 1..(b - a)
      BY <1>4, <1>7
  <2>2. i \in 1..(m - (k + 1) + 1) /\ (k + 1) + i - 1 = k + i
      BY <2>1
  <2>3. part[i] = whole[(k + 1) + i - 1]
      BY <1>6, <2>2
  <2>4. part[i] = whole[k + i]
      BY <2>2, <2>3
  <2>5. whole[k + i] = a + (k + i)
      BY <1>3, <2>1
  <2>6. all[i] = low + i
      BY <1>5, <2>1
  <2> QED
      BY <2>1, <2>4, <2>5, <2>6 DEF low
<1>9. part = all
    BY <1>4, <1>6, <1>7, <1>8, SeqEqual
<1> QED
    BY <1>9 DEF part, all, whole, low, high

-----------------------------------------------------------------------------
(***************************************************************************)
(* The invariant                                                           *)
(***************************************************************************)

\* The constants are positive numbers.
LEMMA Sizes ==
  /\ MaxCapture \in Nat /\ CaptureChunk \in Nat /\ MaxCapture > 0 /\ CaptureChunk > 0
  /\ MaxProbe \in Nat /\ ProbeChunk \in Nat /\ MaxProbe > 0 /\ ProbeChunk > 0
  /\ CopyChunk \in Nat /\ Window \in Nat /\ Total \in Nat
BY SizeAssumption

\* The invariant holds when a connection has been accepted.
LEMMA StreamInitInv ==
  ASSUME StreamInit
  PROVE  StreamIInv
<1> USE Sizes DEF StreamInit, Peer
<1>1. Bytes(0, 0) = <<>>
    BY BytesEmpty
<1>2. Typed
    BY DEF Typed, Stages, CaptureOutcomes, CopyStates
<1>3. Buffers
    BY <1>1 DEF Buffers
<1>4. Segments
  <2> SUFFICES ASSUME NEW s \in Peer
               PROVE  got[s] = Bytes(Offset(s), Reached(s))
      BY DEF Segments
  <2>1. Offset(s) \in Nat /\ Reached(s) = Offset(s) /\ got[s] = <<>>
      BY DEF Offset, Reached
  <2> QED
      BY <2>1, BytesEmpty
<1>5. Before
    BY DEF Before
<1>6. \A s \in Peer : InStep(s)
    BY DEF InStep
<1>7. BudgetDecides
    BY DEF BudgetDecides
<1> QED
    BY <1>2, <1>3, <1>4, <1>5, <1>6, <1>7 DEF StreamIInv

\* The positions are numbers.
LEMMA Positions ==
  ASSUME Typed, NEW s \in Peer
  PROVE  /\ Offset(s) \in Nat /\ Len(got[s]) \in Nat
         /\ Reached(s) \in Nat /\ Offset(s) <= Reached(s)
         /\ taken[s] \in Nat /\ sent[s] \in Nat /\ unread[s] \in Nat
         /\ Other(s) \in Peer /\ Other(s) # s /\ Other(Other(s)) = s
         /\ \A t \in Peer : t = s \/ t = Other(s)
<1>1. /\ got[s] \in Seq(Nat) /\ taken[s] \in Nat /\ sent[s] \in Nat /\ unread[s] \in Nat
      /\ line \in Nat
    BY DEF Typed
<1>2. Len(got[s]) \in Nat /\ Offset(s) \in Nat
    BY <1>1 DEF Offset
<1>3. Reached(s) \in Nat /\ Offset(s) <= Reached(s)
    BY <1>2 DEF Reached
<1>4. /\ Other(s) \in Peer /\ Other(s) # s /\ Other(Other(s)) = s
      /\ \A t \in Peer : t = s \/ t = Other(s)
    BY DEF Peer, Other
<1> QED
    BY <1>1, <1>2, <1>3, <1>4

\* Bytes that follow what a peer has received extend its segment, and those there is
\* room for do not exceed the window.
LEMMA Delivered ==
  ASSUME Typed, Segments, NEW s \in Peer, NEW n \in Nat, Reached(s) <= n,
         n - Reached(s) <= Room(s), line' = line, Deliver(s, Bytes(Reached(s), n))
  PROVE  /\ Segments' /\ got' \in [Peer -> Seq(Nat)]
         /\ Reached(s)' = n /\ \A t \in Peer \ {s} : Reached(t)' = Reached(t)
         /\ unread' \in [Peer -> Nat]
         /\ \A t \in Peer : unread'[t] <= Len(got'[t]) /\ unread'[t] <= Window
<1>1. /\ Offset(s) \in Nat /\ Reached(s) \in Nat /\ Offset(s) <= Reached(s)
      /\ Len(got[s]) \in Nat /\ unread[s] \in Nat /\ Reached(s) = Offset(s) + Len(got[s])
    BY Positions DEF Reached
<1>2. \A t \in Peer : Offset(t)' = Offset(t)
    BY DEF Offset
<1>3. got'[s] = got[s] \o Bytes(Reached(s), n)
    BY DEF Typed, Deliver
<1>4. got'[s] = Bytes(Offset(s), n)
  <2>1. Bytes(Offset(s), Reached(s)) \o Bytes(Reached(s), n) = Bytes(Offset(s), n)
      BY <1>1, BytesConcat
  <2> QED
      BY <1>3, <2>1 DEF Segments
<1>5. got'[s] \in Seq(Nat) /\ Len(got'[s]) = n - Offset(s)
  <2>1. Offset(s) <= n
      BY <1>1
  <2> QED
      BY <1>1, <1>4, <2>1, BytesType
<1>6. Reached(s)' = n
    BY <1>1, <1>2, <1>5 DEF Reached
<1>7. \A t \in Peer \ {s} : got'[t] = got[t] /\ unread'[t] = unread[t]
    BY DEF Typed, Deliver
<1>8. \A t \in Peer \ {s} : Reached(t)' = Reached(t)
    BY <1>2, <1>7 DEF Reached
<1>9. Segments'
    BY <1>2, <1>4, <1>6, <1>7, <1>8 DEF Segments
<1>10. got' \in [Peer -> Seq(Nat)]
    BY <1>5 DEF Typed, Deliver
<1>11. unread'[s] = unread[s] + (n - Reached(s)) /\ unread' \in [Peer -> Nat]
  <2>1. Len(Bytes(Reached(s), n)) = n - Reached(s)
      BY <1>1, BytesType
  <2>2. unread' = [unread EXCEPT ![s] = @ + (n - Reached(s))]
      BY <2>1 DEF Deliver
  <2>3. n - Reached(s) \in Nat
      BY <1>1
  <2> QED
      BY <1>1, <2>2, <2>3 DEF Typed
<1>12. unread'[s] <= Len(got'[s]) /\ unread'[s] <= Window
  <2>1. unread[s] <= Len(got[s]) /\ n - Reached(s) <= Window - unread[s]
      BY DEF Typed, Room
  <2> DEFINE u == unread[s]  g == Len(got[s])  o == Offset(s)  r == Reached(s)
  <2>2. /\ u \in Nat /\ g \in Nat /\ o \in Nat /\ r = o + g /\ u <= g /\ n - r <= Window - u
        /\ r <= n /\ Len(got'[s]) = n - o /\ unread'[s] = u + (n - r) /\ Window \in Nat
      BY <1>1, <1>5, <1>11, <2>1, Sizes
  <2> HIDE DEF u, g, o, r
  <2>3. u + (n - r) <= n - o /\ u + (n - r) <= Window
      BY <2>2
  <2> QED
      BY <2>2, <2>3
<1>13. \A t \in Peer \ {s} : unread'[t] <= Len(got'[t]) /\ unread'[t] <= Window
    BY <1>7 DEF Typed
<1> QED
    BY <1>6, <1>8, <1>9, <1>10, <1>11, <1>12, <1>13

\* A peer reads what it was sent.
LEMMA PeerReadStep ==
  ASSUME StreamIInv, NEW p \in Peer, PeerReads(p)
  PROVE  StreamIInv'
<1> USE DEF StreamIInv
<1>1. /\ unread[p] > 0 /\ unread' = [unread EXCEPT ![p] = @ - 1]
      /\ UNCHANGED <<handshake, line, stage, verdict, sent, fin, broken, taken, buffered,
                     probe, got, eof, copy, held>>
    BY DEF PeerReads, peerVars, copyVars
<1>2. Typed'
  <2>1. /\ unread' \in [Peer -> Nat]
        /\ \A s \in Peer : unread'[s] <= unread[s] /\ unread'[s] \in Nat /\ unread[s] \in Nat
      BY <1>1 DEF Typed
  <2>2. \A s \in Peer : Len(got[s]) \in Nat
      BY DEF Typed
  <2>3. \A s \in Peer : unread'[s] <= Len(got[s]) /\ unread'[s] <= Window
      BY <2>1, <2>2, Sizes DEF Typed
  <2> QED
      BY <1>1, <2>1, <2>3 DEF Typed
<1>3. Buffers' /\ Segments' /\ Before' /\ BudgetDecides'
    BY <1>1 DEF Buffers, LineComplete, Segments, Offset, Reached, Before, BudgetDecides
<1>4. \A s \in Peer : InStep(s)'
    BY <1>1 DEF InStep, Offset, Reached
<1> QED
    BY <1>2, <1>3, <1>4

\* What a peer does moves no byte that was read.
LEMMA PeerStep ==
  ASSUME StreamIInv, NEW p \in Peer, PeerSends(p) \/ PeerShutsDown(p) \/ PeerResets(p)
  PROVE  StreamIInv'
<1> USE DEF StreamIInv
<1>1. /\ UNCHANGED <<handshake, line, stage, verdict, taken, buffered, probe, got, unread, eof,
                     copy, held>>
      /\ fin \subseteq fin' /\ broken \subseteq broken'
      /\ \A s \in fin : sent'[s] = sent[s]
    BY DEF PeerSends, PeerShutsDown, PeerResets, copyVars, Typed
<1>2. /\ sent' \in [Peer -> Nat] /\ fin' \subseteq Peer /\ broken' \subseteq Peer
      /\ \A s \in Peer : sent[s] <= sent'[s] /\ sent'[s] <= Total
  <2>1. CASE PeerSends(p)
    <3>1. sent' = [sent EXCEPT ![p] = sent[p] + 1] /\ sent[p] < Total
        BY <2>1 DEF PeerSends
    <3>2. sent' \in [Peer -> Nat]
        BY <3>1 DEF Typed
    <3>3. \A s \in Peer : sent[s] <= sent'[s] /\ sent'[s] <= Total
        BY <3>1, Sizes DEF Typed
    <3> QED
        BY <2>1, <3>2, <3>3 DEF PeerSends, Typed
  <2>2. CASE PeerShutsDown(p) \/ PeerResets(p)
      BY <2>2, Sizes DEF PeerShutsDown, PeerResets, Typed
  <2> QED
      BY <2>1, <2>2
<1>3. Typed'
  <2>1. \A s \in Peer : taken'[s] <= sent'[s]
      BY <1>1, <1>2 DEF Typed
  <2> QED
      BY <1>1, <1>2, <2>1 DEF Typed
<1>4. Buffers'
    BY <1>1 DEF Buffers, LineComplete
<1>5. \A s \in Peer : Offset(s)' = Offset(s) /\ Reached(s)' = Reached(s)
    BY <1>1 DEF Offset, Reached
<1>6. Segments'
    BY <1>1, <1>5 DEF Segments
<1>7. Before'
  <2>1. Reached("client")' = Reached("client")
      BY <1>5 DEF Peer
  <2> QED
      BY <1>1, <2>1 DEF Before
<1>8. ASSUME NEW s \in Peer
      PROVE  InStep(s)'
  <2>1. Reached(Other(s))' = Reached(Other(s))
      BY <1>5, Positions
  <2>2. InStep(s)
      OBVIOUS
  <2> QED
      BY <1>1, <2>1, <2>2 DEF InStep
<1>9. BudgetDecides'
    BY <1>1 DEF BudgetDecides
<1> QED
    BY <1>3, <1>4, <1>6, <1>7, <1>8, <1>9

\* A chunk that follows a buffer of the stream's beginning makes it longer.
LEMMA Longer ==
  ASSUME NEW buffer \in Seq(Nat), buffer = Bytes(0, Len(buffer)), NEW n \in Nat
  PROVE  /\ buffer \o Bytes(Len(buffer), Len(buffer) + n) = Bytes(0, Len(buffer) + n)
         /\ Bytes(0, Len(buffer) + n) \in Seq(Nat)
         /\ Len(Bytes(0, Len(buffer) + n)) = Len(buffer) + n
<1> DEFINE k == Len(buffer)
<1>1. k \in Nat /\ k + n \in Nat /\ 0 <= k /\ k <= k + n /\ 0 <= k + n
    OBVIOUS
<1> HIDE DEF k
<1>2. Bytes(0, k) \o Bytes(k, k + n) = Bytes(0, k + n)
    BY <1>1, BytesConcat
<1>3. Bytes(0, k + n) \in Seq(Nat) /\ Len(Bytes(0, k + n)) = k + n
  <2> DEFINE m == k + n
  <2>1. m \in Nat /\ 0 <= m /\ m - 0 = m
      BY <1>1
  <2> HIDE DEF m
  <2>2. Bytes(0, m) \in Seq(Nat) /\ Len(Bytes(0, m)) = m - 0
      BY <2>1, BytesType
  <2> QED
      BY <2>1, <2>2 DEF m
<1> QED
    BY <1>2, <1>3 DEF k

\* Until the goroutines start they hold no bytes and have passed on no end of stream.
LEMMA NotStarted ==
  ASSUME StreamIInv, stage \in {"capture", "dial", "line", "replay", "extra"}
  PROVE  eof = {} /\ \A s \in Peer : copy[s] = "off"
<1>1. \A s \in Peer : copy[s] = "off"
    BY DEF StreamIInv, Before
<1>2. \A s \in Peer : s \notin eof
  <2> SUFFICES ASSUME NEW s \in Peer, s \in eof
               PROVE  FALSE
      OBVIOUS
  <2>1. copy[Other(s)] = "done"
      BY DEF StreamIInv, InStep
  <2>2. Other(s) \in Peer
      BY DEF Peer, Other
  <2> QED
      BY <1>1, <2>1, <2>2
<1> QED
    BY <1>1, <1>2 DEF StreamIInv, Typed

\* A step before the relay that starts no goroutine leaves them as they are.
LEMMA IdleStep ==
  ASSUME StreamIInv, stage \in {"capture", "dial", "line", "replay", "extra"},
         UNCHANGED <<eof, copy>>
  PROVE  \A s \in Peer : InStep(s)'
<1> SUFFICES ASSUME NEW s \in Peer
             PROVE  InStep(s)'
    OBVIOUS
<1>1. eof' = {} /\ copy'[s] = "off"
    BY NotStarted
<1> QED
    BY <1>1 DEF InStep

\* The capture reads on.
LEMMA CaptureReadStep ==
  ASSUME StreamIInv, CaptureRead
  PROVE  StreamIInv'
<1> USE DEF StreamIInv
<1>1. PICK n \in 1..CaptureChunk :
        /\ n <= Available("client")
        /\ buffered' = buffered \o Bytes(taken["client"], taken["client"] + n)
        /\ taken' = [taken EXCEPT !["client"] = @ + n]
    BY DEF CaptureRead
<1>2. /\ stage = "capture" /\ Len(buffered) < MaxCapture
      /\ UNCHANGED <<handshake, line, stage, verdict, sent, fin, broken, probe, got, unread, eof,
                     copy, held>>
    BY DEF CaptureRead, peerVars, copyVars
<1>3. n \in Nat /\ n <= CaptureChunk /\ "client" \in Peer /\ "upstream" \in Peer
    BY Sizes DEF Peer
<1>4. taken["client"] = Len(buffered) /\ taken["upstream"] = Len(probe)
    BY <1>2 DEF Buffers
<1>5. /\ buffered' \in Seq(Nat) /\ Len(buffered') = Len(buffered) + n
      /\ buffered' = Bytes(0, Len(buffered'))
  <2>1. buffered \in Seq(Nat) /\ buffered = Bytes(0, Len(buffered))
      BY DEF Typed, Buffers
  <2>2. buffered' = buffered \o Bytes(Len(buffered), Len(buffered) + n)
      BY <1>1, <1>4
  <2>3. /\ buffered' = Bytes(0, Len(buffered) + n)
        /\ buffered' \in Seq(Nat) /\ Len(buffered') = Len(buffered) + n
      BY <1>3, <2>1, <2>2, Longer
  <2> QED
      BY <2>3
<1>6. /\ taken' \in [Peer -> Nat] /\ taken'["client"] = taken["client"] + n
      /\ taken'["upstream"] = taken["upstream"]
    BY <1>1, <1>3 DEF Typed
<1>7. taken'["client"] <= sent["client"]
    BY <1>1, <1>3, <1>6 DEF Available, Typed
<1>8. \A s \in Peer : taken'[s] <= sent'[s]
    BY <1>2, <1>6, <1>7 DEF Typed, Peer
<1>9. Typed'
    BY <1>2, <1>5, <1>6, <1>8 DEF Typed
<1>10. Len(buffered') < MaxCapture + CaptureChunk
  <2>1. Len(buffered) \in Nat
      BY DEF Typed
  <2> QED
      BY <1>2, <1>3, <1>5, <2>1, Sizes
<1>11. Buffers'
    BY <1>2, <1>4, <1>5, <1>6, <1>10 DEF Buffers, LineComplete
<1>12. Segments'
    BY <1>2 DEF Segments, Offset, Reached
<1>13. Before'
    BY <1>2 DEF Before
<1>14. \A s \in Peer : InStep(s)'
    BY <1>2, IdleStep
<1>15. BudgetDecides'
    BY <1>2 DEF BudgetDecides
<1> QED
    BY <1>9, <1>11, <1>12, <1>13, <1>14, <1>15

\* The capture ends.
LEMMA CaptureEndStep ==
  ASSUME StreamIInv, CaptureParses \/ CaptureOverBudget \/ CaptureCutShort
  PROVE  StreamIInv'
<1> USE DEF StreamIInv
<1>1. /\ stage = "capture" /\ stage' \in {"dial", "closed"}
      /\ verdict' \in {"fingerprinted", "overBudget", "cutShort"}
      /\ UNCHANGED <<handshake, line, sent, fin, broken, taken, buffered, probe, got, unread, eof,
                     copy, held>>
    BY DEF CaptureParses, CaptureOverBudget, CaptureCutShort, peerVars, copyVars
<1>2. Typed'
    BY <1>1 DEF Typed, Stages, CaptureOutcomes
<1>3. Buffers'
    BY <1>1 DEF Buffers
<1>4. Segments'
    BY <1>1 DEF Segments, Offset, Reached
<1>5. Before'
    BY <1>1 DEF Before
<1>6. \A s \in Peer : InStep(s)'
    BY <1>1, IdleStep
<1>7. BudgetDecides'
  <2>1. /\ Len(buffered) \in Nat /\ Len(buffered) < MaxCapture + CaptureChunk
        /\ handshake \in Nat
      BY DEF Typed, Buffers
  <2>2. CASE CaptureParses
    <3>1. handshake <= Len(buffered) /\ verdict' = "fingerprinted"
        BY <2>2 DEF CaptureParses, Parsed
    <3> QED
        BY <1>1, <2>1, <3>1, Sizes DEF BudgetDecides
  <2>3. CASE CaptureOverBudget
    <3>1. /\ handshake = 0 \/ Len(buffered) < handshake
          /\ Len(buffered) >= MaxCapture /\ verdict' = "overBudget"
        BY <2>1, <2>3 DEF CaptureOverBudget, Parsed
    <3> QED
        BY <1>1, <2>1, <3>1, Sizes DEF BudgetDecides
  <2>4. CASE CaptureCutShort
      BY <2>4 DEF CaptureCutShort, BudgetDecides
  <2> QED
      BY <2>2, <2>3, <2>4
<1> QED
    BY <1>2, <1>3, <1>4, <1>5, <1>6, <1>7

\* The dial, the end of the search for the line, and an early end read nothing.
LEMMA QuietStep ==
  ASSUME StreamIInv, Dial \/ LineMatches \/ Fail
  PROVE  StreamIInv'
<1> USE DEF StreamIInv
<1>1. /\ stage \in {"dial", "line", "replay", "extra"} /\ stage' \in {"line", "replay", "closed"}
      /\ UNCHANGED <<handshake, line, verdict, sent, fin, broken, taken, buffered, probe,
                     got, unread, eof, copy, held>>
    BY DEF Dial, LineMatches, Fail, peerVars, copyVars
<1>2. /\ stage' = "line" => stage = "dial"
      /\ stage' = "replay" => stage = "line" /\ LineComplete
    BY DEF Dial, LineMatches, Fail
<1>3. Typed'
    BY <1>1 DEF Typed, Stages
<1>4. Buffers'
    BY <1>1, <1>2 DEF Buffers, LineComplete
<1>5. Segments'
    BY <1>1 DEF Segments, Offset, Reached
<1>6. Before'
    BY <1>1, <1>2 DEF Before
<1>7. \A s \in Peer : InStep(s)'
    BY <1>1, IdleStep
<1>8. BudgetDecides'
    BY <1>1 DEF BudgetDecides
<1> QED
    BY <1>3, <1>4, <1>5, <1>6, <1>7, <1>8

\* The search for the line reads on.
LEMMA LineReadStep ==
  ASSUME StreamIInv, LineRead
  PROVE  StreamIInv'
<1> USE DEF StreamIInv
<1>1. PICK n \in 1..ProbeChunk :
        /\ n <= Available("upstream")
        /\ probe' = probe \o Bytes(taken["upstream"], taken["upstream"] + n)
        /\ taken' = [taken EXCEPT !["upstream"] = @ + n]
    BY DEF LineRead
<1>2. /\ stage = "line" /\ Len(probe) < MaxProbe
      /\ UNCHANGED <<handshake, line, stage, verdict, sent, fin, broken, buffered, got, unread, eof,
                     copy, held>>
    BY DEF LineRead, peerVars, copyVars
<1>3. n \in Nat /\ n <= ProbeChunk /\ "client" \in Peer /\ "upstream" \in Peer
    BY Sizes DEF Peer
<1>4. taken["client"] = Len(buffered) /\ taken["upstream"] = Len(probe)
    BY <1>2 DEF Buffers
<1>5. /\ probe' \in Seq(Nat) /\ Len(probe') = Len(probe) + n
      /\ probe' = Bytes(0, Len(probe'))
  <2>1. probe \in Seq(Nat) /\ probe = Bytes(0, Len(probe))
      BY DEF Typed, Buffers
  <2>2. probe' = probe \o Bytes(Len(probe), Len(probe) + n)
      BY <1>1, <1>4
  <2>3. /\ probe' = Bytes(0, Len(probe) + n)
        /\ probe' \in Seq(Nat) /\ Len(probe') = Len(probe) + n
      BY <1>3, <2>1, <2>2, Longer
  <2> QED
      BY <2>3
<1>6. /\ taken' \in [Peer -> Nat] /\ taken'["upstream"] = taken["upstream"] + n
      /\ taken'["client"] = taken["client"]
    BY <1>1, <1>3 DEF Typed
<1>7. taken'["upstream"] <= sent["upstream"]
    BY <1>1, <1>3, <1>6 DEF Available, Typed
<1>8. \A s \in Peer : taken'[s] <= sent'[s]
    BY <1>2, <1>6, <1>7 DEF Typed, Peer
<1>9. Typed'
    BY <1>2, <1>5, <1>6, <1>8 DEF Typed
<1>10. Len(probe') < MaxProbe + ProbeChunk
  <2>1. Len(probe) \in Nat
      BY DEF Typed
  <2> QED
      BY <1>2, <1>3, <1>5, <2>1, Sizes
<1>11. Buffers'
    BY <1>2, <1>4, <1>5, <1>6, <1>10 DEF Buffers
<1>12. Segments'
    BY <1>2 DEF Segments, Offset, Reached
<1>13. Before'
    BY <1>2 DEF Before
<1>14. \A s \in Peer : InStep(s)'
    BY <1>2, IdleStep
<1>15. BudgetDecides'
    BY <1>2 DEF BudgetDecides
<1> QED
    BY <1>9, <1>11, <1>12, <1>13, <1>14, <1>15

\* The upstream server receives more of what was buffered.
LEMMA ReplayStep ==
  ASSUME StreamIInv, Replay
  PROVE  StreamIInv'
<1> USE DEF StreamIInv
<1>1. /\ stage = "replay"
      /\ UNCHANGED <<handshake, line, stage, verdict, sent, fin, broken, taken, buffered,
                     probe, eof, copy, held>>
    BY DEF Replay, peerVars, copyVars
<1> DEFINE k == Len(got["upstream"])
<1>2. PICK n \in k + 1..Len(buffered) :
        n - k <= Room("upstream") /\ Deliver("upstream", SubSeq(buffered, k + 1, n))
    BY DEF Replay
<1>3. /\ "upstream" \in Peer /\ "client" \in Peer /\ Len(buffered) \in Nat
      /\ k \in Nat /\ Reached("upstream") = k
  <2>1. "upstream" \in Peer /\ "client" \in Peer /\ Len(buffered) \in Nat /\ k \in Nat
      BY DEF Peer, Typed
  <2> QED
      BY <2>1 DEF Reached, Offset
<1>4. n \in Nat /\ k <= n /\ n <= Len(buffered)
    BY <1>2, <1>3
<1> HIDE DEF k
<1>5. SubSeq(buffered, k + 1, n) = Bytes(k, n)
  <2> DEFINE all == Len(buffered)
  <2>1. all \in Nat /\ n <= all - 0 /\ 0 + k = k /\ 0 + n = n
      BY <1>3, <1>4
  <2> HIDE DEF all
  <2>2. SubSeq(Bytes(0, all), k + 1, n) = Bytes(0 + k, 0 + n)
    <3>1. Within(0, all, k, n)
        BY <1>3, <1>4, <2>1 DEF Within
    <3> QED
        BY <3>1, BytesPart
  <2>3. buffered = Bytes(0, all)
      BY DEF Buffers, all
  <2> QED
      BY <2>1, <2>2, <2>3
<1>6. /\ Segments' /\ got' \in [Peer -> Seq(Nat)]
      /\ Reached("upstream")' = n /\ Reached("client")' = Reached("client")
      /\ unread' \in [Peer -> Nat]
      /\ \A t \in Peer : unread'[t] <= Len(got'[t]) /\ unread'[t] <= Window
  <2>1. Deliver("upstream", Bytes(Reached("upstream"), n)) /\ line' = line
      BY <1>1, <1>2, <1>3, <1>5
  <2>2. n - Reached("upstream") <= Room("upstream") /\ Reached("upstream") <= n
      BY <1>2, <1>3, <1>4
  <2> QED
      BY <1>3, <1>4, <2>1, <2>2, Delivered
<1>7. Typed'
    BY <1>1, <1>6 DEF Typed
<1>8. Buffers'
    BY <1>1 DEF Buffers, LineComplete
<1>9. Before'
  <2>1. Len(got'["upstream"]) = n
      BY <1>3, <1>6 DEF Reached, Offset
  <2>2. got'["client"] = got["client"]
      BY <1>2, <1>3 DEF Deliver, Typed
  <2> QED
      BY <1>1, <1>4, <2>1, <2>2 DEF Before
<1>10. \A s \in Peer : InStep(s)'
    BY <1>1, IdleStep
<1>11. BudgetDecides'
    BY <1>1 DEF BudgetDecides
<1> QED
    BY <1>6, <1>7, <1>8, <1>9, <1>10, <1>11

\* What followed the line is the segment behind it.
LEMMA ExtraIsSegment ==
  ASSUME Typed, Buffers, stage \in {"replay", "extra"}
  PROVE  /\ Extra = Bytes(line, Len(probe)) /\ Len(Extra) = Len(probe) - line
         /\ line \in Nat /\ Len(probe) \in Nat /\ line <= Len(probe)
<1>1. line \in Nat /\ Len(probe) \in Nat /\ line <= Len(probe)
    BY DEF Typed, Buffers, LineComplete
<1> DEFINE n == Len(probe)
<1>2. n \in Nat /\ n <= n - 0 /\ 0 + line = line /\ 0 + n = n /\ line <= n
    BY <1>1
<1>3. Extra = SubSeq(Bytes(0, n), line + 1, n)
    BY DEF Extra, Buffers
<1> HIDE DEF n
<1>4. SubSeq(Bytes(0, n), line + 1, n) = Bytes(0 + line, 0 + n)
  <2>1. Within(0, n, line, n)
      BY <1>1, <1>2 DEF Within
  <2> QED
      BY <2>1, BytesPart
<1>5. Extra = Bytes(line, n)
    BY <1>2, <1>3, <1>4
<1>6. Len(Extra) = n - line
    BY <1>1, <1>2, <1>5, BytesType
<1> QED
    BY <1>1, <1>5, <1>6 DEF n

\* All of what was buffered has been handed over.
LEMMA ReplayedStep ==
  ASSUME StreamIInv, Replayed
  PROVE  StreamIInv'
<1> USE DEF StreamIInv
<1>1. /\ stage = "replay" /\ stage' = "extra" /\ Len(got["upstream"]) = Len(buffered)
      /\ UNCHANGED <<handshake, line, verdict, sent, fin, broken, taken, buffered, probe,
                     got, unread, eof, copy, held>>
    BY DEF Replayed, peerVars, copyVars
<1>2. Typed'
    BY <1>1 DEF Typed, Stages
<1>3. Buffers'
    BY <1>1 DEF Buffers, LineComplete
<1>4. Segments'
    BY <1>1 DEF Segments, Offset, Reached
<1>5. Before'
  <2>1. line \in Nat /\ line <= Len(probe)
      BY <1>1, ExtraIsSegment
  <2>2. Reached("client") = line
      BY <1>1, <2>1 DEF Before, Reached, Offset
  <2>3. Reached("client")' = Reached("client")
      BY <1>1 DEF Reached, Offset
  <2> QED
      BY <1>1, <2>1, <2>2, <2>3 DEF Before
<1>6. \A s \in Peer : InStep(s)'
    BY <1>1, IdleStep
<1>7. BudgetDecides'
    BY <1>1 DEF BudgetDecides
<1> QED
    BY <1>2, <1>3, <1>4, <1>5, <1>6, <1>7

\* The client receives more of what followed the line.
LEMMA RelayExtraStep ==
  ASSUME StreamIInv, RelayExtra
  PROVE  StreamIInv'
<1> USE DEF StreamIInv
<1>1. /\ stage = "extra"
      /\ UNCHANGED <<handshake, line, stage, verdict, sent, fin, broken, taken, buffered,
                     probe, eof, copy, held>>
    BY DEF RelayExtra, peerVars, copyVars
<1> DEFINE k == Len(got["client"])
<1>2. PICK n \in k + 1..Len(Extra) :
        n - k <= Room("client") /\ Deliver("client", SubSeq(Extra, k + 1, n))
    BY DEF RelayExtra
<1>3. /\ Extra = Bytes(line, Len(probe)) /\ Len(Extra) = Len(probe) - line
      /\ line \in Nat /\ Len(probe) \in Nat /\ line <= Len(probe)
    BY <1>1, ExtraIsSegment
<1>4. /\ "upstream" \in Peer /\ "client" \in Peer
      /\ k \in Nat /\ Reached("client") = line + k
  <2>1. "upstream" \in Peer /\ "client" \in Peer /\ k \in Nat
      BY DEF Peer, Typed
  <2> QED
      BY <2>1 DEF Reached, Offset
<1>5. n \in Nat /\ k <= n /\ n <= Len(probe) - line /\ line + n \in Nat
    BY <1>2, <1>3, <1>4
<1> HIDE DEF k
<1>6. SubSeq(Extra, k + 1, n) = Bytes(line + k, line + n)
  <2>1. SubSeq(Bytes(line, Len(probe)), k + 1, n) = Bytes(line + k, line + n)
    <3>1. Within(line, Len(probe), k, n)
        BY <1>3, <1>4, <1>5 DEF Within
    <3> QED
        BY <3>1, BytesPart
  <2> QED
      BY <1>3, <2>1
<1> DEFINE m == line + n
<1>7. /\ m \in Nat /\ Reached("client") <= m /\ m - Reached("client") <= Room("client")
      /\ m <= Len(probe)
  <2>1. m - (line + k) = n - k
      BY <1>3, <1>4, <1>5
  <2> QED
      BY <1>2, <1>3, <1>4, <1>5, <2>1
<1>8. Deliver("client", Bytes(Reached("client"), m)) /\ line' = line
    BY <1>1, <1>2, <1>4, <1>6
<1> HIDE DEF m
<1>9. /\ Segments' /\ got' \in [Peer -> Seq(Nat)]
      /\ Reached("client")' = m /\ Reached("upstream")' = Reached("upstream")
      /\ unread' \in [Peer -> Nat]
      /\ \A t \in Peer : unread'[t] <= Len(got'[t]) /\ unread'[t] <= Window
    BY <1>4, <1>7, <1>8, Delivered
<1>10. Typed'
    BY <1>1, <1>9 DEF Typed
<1>11. Buffers'
    BY <1>1 DEF Buffers, LineComplete
<1>12. Before'
  <2>1. got'["upstream"] = got["upstream"]
      BY <1>4, <1>8 DEF Deliver, Typed
  <2> QED
      BY <1>1, <1>7, <1>9, <2>1 DEF Before
<1>13. \A s \in Peer : InStep(s)'
    BY <1>1, IdleStep
<1>14. BudgetDecides'
    BY <1>1 DEF BudgetDecides
<1> QED
    BY <1>9, <1>10, <1>11, <1>12, <1>13, <1>14

\* The goroutines start where the buffers end.
LEMMA StartRelayStep ==
  ASSUME StreamIInv, StartRelay
  PROVE  StreamIInv'
<1> USE DEF StreamIInv
<1>1. /\ stage = "extra" /\ stage' = "relay" /\ Len(got["client"]) = Len(Extra)
      /\ copy' = [s \in Peer |-> "read"]
      /\ UNCHANGED <<handshake, line, verdict, sent, fin, broken, taken, buffered, probe,
                     got, unread, eof, held>>
    BY DEF StartRelay, peerVars
<1>2. Typed'
    BY <1>1 DEF Typed, Stages, CopyStates
<1>3. Buffers'
    BY <1>1 DEF Buffers
<1>4. Segments'
    BY <1>1 DEF Segments, Offset, Reached
<1>5. Before'
    BY <1>1 DEF Before
<1>6. ASSUME NEW s \in Peer
      PROVE  InStep(s)'
  <2>1. eof' = {} /\ copy'[s] = "read"
      BY <1>1, NotStarted
  <2>2. Len(Extra) = Len(probe) - line /\ line \in Nat /\ Len(probe) \in Nat
      BY <1>1, ExtraIsSegment
  <2>3. Reached("client") = Len(probe)
      BY <1>1, <2>2 DEF Reached, Offset
  <2>4. Len(got["upstream"]) \in Nat /\ Len(got["upstream"]) = Len(buffered)
      BY <1>1 DEF Before, Typed, Peer
  <2>5. Reached("upstream") = Len(buffered)
      BY <2>4 DEF Reached, Offset
  <2>6. Reached(Other(s)) = taken[s]
      BY <1>1, <2>3, <2>5 DEF Buffers, Peer, Other
  <2>7. Reached(Other(s))' = Reached(Other(s)) /\ taken' = taken
      BY <1>1 DEF Reached, Offset
  <2> QED
      BY <2>1, <2>6, <2>7 DEF InStep
<1>7. BudgetDecides'
    BY <1>1 DEF BudgetDecides
<1> QED
    BY <1>2, <1>3, <1>4, <1>5, <1>6, <1>7

\* A goroutine takes a chunk off its source.
LEMMA CopyReadStep ==
  ASSUME StreamIInv, NEW p \in Peer, CopyRead(p)
  PROVE  StreamIInv'
<1> USE DEF StreamIInv
<1>1. PICK n \in 1..CopyChunk :
        /\ n <= Available(p)
        /\ held' = [held EXCEPT ![p] = Bytes(taken[p], taken[p] + n)]
        /\ taken' = [taken EXCEPT ![p] = @ + n]
    BY DEF CopyRead
<1>2. /\ copy[p] = "read" /\ copy' = [copy EXCEPT ![p] = "write"]
      /\ UNCHANGED <<handshake, line, stage, verdict, sent, fin, broken, buffered, probe,
                     got, unread, eof>>
    BY DEF CopyRead, peerVars
<1>3. n \in Nat /\ taken[p] \in Nat /\ sent[p] \in Nat /\ taken[p] <= taken[p] + n
    BY Sizes DEF Typed
<1>4. taken'[p] = taken[p] + n /\ taken' \in [Peer -> Nat]
    BY <1>1, <1>3 DEF Typed
<1>5. held'[p] = Bytes(taken[p], taken[p] + n) /\ held' \in [Peer -> Seq(Nat)]
  <2>1. Bytes(taken[p], taken[p] + n) \in Seq(Nat)
    <3>1. taken[p] + n \in Nat
        BY <1>3
    <3> QED
        BY <1>3, <3>1, BytesType
  <2> QED
      BY <1>1, <2>1 DEF Typed
<1>6. \A s \in Peer : taken'[s] <= sent'[s]
    BY <1>1, <1>2, <1>3, <1>4 DEF Typed, Available
<1>7. Typed'
    BY <1>2, <1>4, <1>5, <1>6 DEF Typed, CopyStates
<1>8. stage \in {"relay", "closed"} /\ stage # "closed"
    BY <1>2 DEF Before, Typed, Stages
<1>9. Buffers'
    BY <1>2, <1>8 DEF Buffers
<1>10. \A s \in Peer : Offset(s)' = Offset(s) /\ Reached(s)' = Reached(s)
    BY <1>2 DEF Offset, Reached
<1>11. Segments'
    BY <1>2, <1>10 DEF Segments
<1>12. Before'
    BY <1>2, <1>8 DEF Before
<1>13. ASSUME NEW s \in Peer
       PROVE  InStep(s)'
  <2>1. Other(s) \in Peer /\ Reached(Other(s))' = Reached(Other(s))
      BY <1>10, Positions
  <2>2. InStep(s)
      OBVIOUS
  <2>3. copy[Other(s)] = "done" => copy'[Other(s)] = "done"
      BY <1>2, <2>1 DEF Typed
  <2>4. CASE s = p
    <3>1. copy'[s] = "write" /\ Reached(Other(s)) = taken[s]
        BY <1>2, <2>2, <2>4 DEF Typed, InStep
    <3>2. held'[s] = Bytes(Reached(Other(s))', taken'[s])
        BY <1>4, <1>5, <2>1, <2>4, <3>1
    <3>3. Reached(Other(s))' <= taken'[s]
        BY <1>3, <1>4, <2>1, <2>4, <3>1
    <3> QED
        BY <1>2, <2>2, <2>3, <3>1, <3>2, <3>3 DEF InStep
  <2>5. CASE s # p
    <3>1. copy'[s] = copy[s] /\ held'[s] = held[s] /\ taken'[s] = taken[s]
        BY <1>1, <1>2, <2>5 DEF Typed
    <3> QED
        BY <1>2, <2>1, <2>2, <2>3, <3>1 DEF InStep
  <2> QED
      BY <2>4, <2>5
<1>14. BudgetDecides'
    BY <1>2 DEF BudgetDecides
<1> QED
    BY <1>7, <1>9, <1>11, <1>12, <1>13, <1>14

\* A goroutine writes some of its chunk.
LEMMA CopyWriteStep ==
  ASSUME StreamIInv, NEW p \in Peer, CopyWrite(p)
  PROVE  StreamIInv'
<1> USE DEF StreamIInv
<1> DEFINE q == Other(p)  r == Reached(q)
<1>1. /\ copy[p] = "write"
      /\ UNCHANGED <<handshake, line, stage, verdict, sent, fin, broken, taken, buffered,
                     probe, eof>>
    BY DEF CopyWrite, peerVars
<1>2. PICK n \in 1..Len(held[p]) :
        /\ n <= Room(q)
        /\ Deliver(q, SubSeq(held[p], 1, n))
        /\ held' = [held EXCEPT ![p] = SubSeq(@, n + 1, Len(@))]
        /\ copy' = [copy EXCEPT ![p] = IF n = Len(held[p]) THEN "read" ELSE "write"]
    BY DEF CopyWrite
<1>3. /\ InStep(p) /\ q \in Peer /\ q # p /\ taken[p] \in Nat /\ r \in Nat
      /\ held[p] \in Seq(Nat)
    BY Positions DEF Typed
<1>4. r <= taken[p] /\ held[p] = Bytes(r, taken[p])
    BY <1>1, <1>3 DEF InStep
<1> HIDE DEF r
<1>5. Len(held[p]) = taken[p] - r
    BY <1>3, <1>4, BytesType
<1> DEFINE m == r + n
<1>6. /\ n \in Nat /\ 1 <= n /\ n <= taken[p] - r /\ m \in Nat /\ m <= taken[p] /\ r <= m
      /\ m - r = n /\ r + 0 = r /\ 0 <= n /\ 0 + 1 = 1 /\ r + (taken[p] - r) = taken[p]
      /\ taken[p] - r \in Nat
    BY <1>2, <1>3, <1>4, <1>5
<1>7. SubSeq(held[p], 1, n) = Bytes(r, m)
  <2>1. SubSeq(Bytes(r, taken[p]), 0 + 1, n) = Bytes(r + 0, r + n)
    <3> DEFINE zero == 0
    <3>1. Within(r, taken[p], zero, n)
        BY <1>3, <1>6 DEF Within
    <3> HIDE DEF zero
    <3>2. SubSeq(Bytes(r, taken[p]), zero + 1, n) = Bytes(r + zero, r + n)
        BY <3>1, BytesPart
    <3> QED
        BY <3>2 DEF zero
  <2> QED
      BY <1>4, <1>6, <2>1
<1>8. SubSeq(held[p], n + 1, Len(held[p])) = Bytes(m, taken[p])
  <2>1. SubSeq(Bytes(r, taken[p]), n + 1, taken[p] - r) = Bytes(r + n, r + (taken[p] - r))
    <3> DEFINE rest == taken[p] - r
    <3>1. Within(r, taken[p], n, rest)
        BY <1>3, <1>6 DEF Within
    <3> HIDE DEF rest
    <3>2. SubSeq(Bytes(r, taken[p]), n + 1, rest) = Bytes(r + n, r + rest)
        BY <3>1, BytesPart
    <3> QED
        BY <3>2 DEF rest
  <2> QED
      BY <1>4, <1>5, <1>6, <2>1
<1> HIDE DEF m
<1>9. /\ Segments' /\ got' \in [Peer -> Seq(Nat)]
      /\ Reached(q)' = m /\ \A s \in Peer \ {q} : Reached(s)' = Reached(s)
      /\ unread' \in [Peer -> Nat]
      /\ \A t \in Peer : unread'[t] <= Len(got'[t]) /\ unread'[t] <= Window
  <2>1. Deliver(q, Bytes(Reached(q), m)) /\ line' = line
      BY <1>1, <1>2, <1>7 DEF r
  <2>2. m - Reached(q) <= Room(q) /\ Reached(q) <= m
      BY <1>2, <1>6 DEF r
  <2> HIDE DEF q
  <2> QED
      BY <1>3, <1>6, <2>1, <2>2, Delivered
<1>10. /\ held'[p] = Bytes(m, taken[p]) /\ \A s \in Peer \ {p} : held'[s] = held[s]
       /\ held' \in [Peer -> Seq(Nat)]
  <2>1. Bytes(m, taken[p]) \in Seq(Nat)
      BY <1>3, <1>6, BytesType
  <2> QED
      BY <1>2, <1>8, <2>1 DEF Typed
<1>11. /\ copy' \in [Peer -> CopyStates] /\ \A s \in Peer \ {p} : copy'[s] = copy[s]
       /\ copy'[p] = IF n = Len(held[p]) THEN "read" ELSE "write"
    BY <1>2 DEF Typed, CopyStates
<1>12. Typed'
    BY <1>1, <1>9, <1>10, <1>11 DEF Typed
<1>13. stage \in {"relay", "closed"} /\ stage # "closed"
    BY <1>1 DEF Before, Typed, Stages
<1>14. Buffers'
    BY <1>1, <1>13 DEF Buffers
<1>15. Before'
    BY <1>1, <1>13 DEF Before
<1>16. ASSUME NEW s \in Peer
       PROVE  InStep(s)'
  <2>1. InStep(s) /\ Other(s) \in Peer /\ Other(Other(p)) = p /\ Other(Other(s)) = s
      BY Positions
  <2>2. copy[Other(s)] = "done" => copy'[Other(s)] = "done"
      BY <1>1, <1>11, <2>1
  <2>3. CASE s = p
    <3>1. copy'[s] \in {"read", "write"} /\ Reached(Other(s))' = m /\ taken'[s] = taken[s]
        BY <1>1, <1>9, <1>11, <2>3
    <3>2. copy'[s] = "read" => m = taken[s]
        BY <1>3, <1>5, <1>6, <1>11, <2>3 DEF m
    <3> QED
        BY <1>1, <1>6, <1>10, <2>1, <2>2, <2>3, <3>1, <3>2 DEF InStep
  <2>4. CASE s # p
    <3>1. copy'[s] = copy[s] /\ held'[s] = held[s]
        BY <1>10, <1>11, <2>4
    <3>2. Reached(Other(s))' = Reached(Other(s))
        BY <1>9, <2>1, <2>4
    <3> QED
        BY <1>1, <2>1, <2>2, <3>1, <3>2 DEF InStep
  <2> QED
      BY <2>3, <2>4
<1>17. BudgetDecides'
    BY <1>1 DEF BudgetDecides
<1> QED
    BY <1>9, <1>12, <1>14, <1>15, <1>16, <1>17

\* A goroutine ends since the other side was reset.
LEMMA CopyFailsStep ==
  ASSUME StreamIInv, NEW p \in Peer, CopyFails(p)
  PROVE  StreamIInv'
<1> USE DEF StreamIInv
<1>1. /\ copy[p] = "write" /\ broken # {}
      /\ copy' = [copy EXCEPT ![p] = "shut"] /\ held' = [held EXCEPT ![p] = <<>>]
      /\ UNCHANGED <<handshake, line, stage, verdict, sent, fin, broken, taken, buffered,
                     probe, got, unread, eof>>
    BY DEF CopyFails, peerVars
<1>2. Typed'
  <2>1. held' \in [Peer -> Seq(Nat)]
    <3>1. <<>> \in Seq(Nat)
        OBVIOUS
    <3> QED
        BY <1>1, <3>1 DEF Typed
  <2>2. copy' \in [Peer -> CopyStates]
      BY <1>1 DEF Typed, CopyStates
  <2> QED
      BY <1>1, <2>1, <2>2 DEF Typed
<1>3. stage \in {"relay", "closed"} /\ stage # "closed"
    BY <1>1 DEF Before, Typed, Stages
<1>4. Buffers'
    BY <1>1, <1>3 DEF Buffers
<1>5. Segments' /\ \A s \in Peer : Reached(s)' = Reached(s)
    BY <1>1 DEF Segments, Reached, Offset
<1>6. Before'
    BY <1>1, <1>3 DEF Before
<1>7. ASSUME NEW s \in Peer
      PROVE  InStep(s)'
  <2>1. /\ InStep(s) /\ Other(s) \in Peer /\ Other(Other(s)) = s
        /\ Reached(Other(s))' = Reached(Other(s))
      BY <1>5, Positions
  <2>2. copy[Other(s)] = "done" => copy'[Other(s)] = "done"
      BY <1>1, <2>1 DEF Typed
  <2>3. CASE s = p
    <3>1. copy'[s] = "shut"
        BY <1>1, <2>3 DEF Typed
    <3> QED
        BY <1>1, <2>1, <2>2, <3>1 DEF InStep
  <2>4. CASE s # p
    <3>1. copy'[s] = copy[s] /\ held'[s] = held[s]
        BY <1>1, <2>4 DEF Typed
    <3> QED
        BY <1>1, <2>1, <2>2, <3>1 DEF InStep
  <2> QED
      BY <2>3, <2>4
<1>8. BudgetDecides'
    BY <1>1 DEF BudgetDecides
<1> QED
    BY <1>2, <1>4, <1>5, <1>6, <1>7, <1>8

\* A goroutine finds the end of its source, or passes it on.
LEMMA CopyEndStep ==
  ASSUME StreamIInv, NEW p \in Peer, CopyEnds(p) \/ ShutWrite(p)
  PROVE  StreamIInv'
<1> USE DEF StreamIInv
<1>1. UNCHANGED <<handshake, line, stage, verdict, sent, fin, broken, taken, buffered, probe,
                  got, unread, held>>
    BY DEF CopyEnds, ShutWrite, peerVars
<1>2. \/ /\ copy[p] = "read" /\ AtEnd(p) /\ eof' = eof
         /\ copy' = [copy EXCEPT ![p] = "shut"]
      \/ /\ copy[p] = "shut" /\ eof' \subseteq eof \cup {Other(p)}
         /\ copy' = [copy EXCEPT ![p] = "done"]
    BY DEF CopyEnds, ShutWrite
<1>3. Other(p) \in Peer
    BY Positions
<1>4. copy' \in [Peer -> CopyStates] /\ eof' \subseteq Peer
    BY <1>2, <1>3 DEF Typed, CopyStates
<1>5. Typed'
    BY <1>1, <1>4 DEF Typed
<1>6. stage \in {"relay", "closed"} /\ stage # "closed"
    BY <1>2 DEF Before, Typed, Stages
<1>7. Buffers'
    BY <1>1, <1>6 DEF Buffers
<1>8. \A s \in Peer : Offset(s)' = Offset(s) /\ Reached(s)' = Reached(s)
    BY <1>1 DEF Offset, Reached
<1>9. Segments'
    BY <1>1, <1>8 DEF Segments
<1>10. Before'
    BY <1>1, <1>6 DEF Before
<1>11. ASSUME NEW s \in Peer
       PROVE  InStep(s)'
  <2>1. /\ InStep(s) /\ Other(s) \in Peer /\ Other(Other(p)) = p /\ Other(Other(s)) = s
        /\ Reached(Other(s))' = Reached(Other(s))
      BY <1>8, Positions
  <2>2. s \in eof' => copy'[Other(s)] = "done"
      BY <1>2, <2>1 DEF Typed, InStep
  <2>3. CASE s = p /\ copy[p] = "read"
    <3>1. \/ broken # {}
          \/ s \in fin /\ taken[s] = sent[s]
        BY <1>2, <2>3 DEF AtEnd, Available, Typed
    <3>2. Reached(Other(s)) = taken[s]
        BY <2>1, <2>3 DEF InStep
    <3>3. copy'[s] = "shut"
        BY <1>2, <2>3 DEF Typed
    <3> QED
        BY <1>1, <2>1, <2>2, <3>1, <3>2, <3>3 DEF InStep
  <2>4. CASE s = p /\ copy[p] = "shut"
    <3>1. copy'[s] = "done"
        BY <1>2, <2>4 DEF Typed
    <3> QED
        BY <1>1, <2>1, <2>2, <2>4, <3>1 DEF InStep
  <2>5. CASE s # p
    <3>1. copy'[s] = copy[s]
        BY <1>2, <2>5 DEF Typed
    <3> QED
        BY <1>1, <2>1, <2>2, <3>1 DEF InStep
  <2> QED
      BY <1>2, <2>3, <2>4, <2>5
<1>12. BudgetDecides'
    BY <1>1 DEF BudgetDecides
<1> QED
    BY <1>5, <1>7, <1>9, <1>10, <1>11, <1>12

\* The handler ends.
LEMMA EndRelayStep ==
  ASSUME StreamIInv, EndRelay
  PROVE  StreamIInv'
<1> USE DEF StreamIInv
<1>1. /\ stage = "relay" /\ stage' = "closed" /\ \A s \in Peer : copy[s] = "done"
      /\ UNCHANGED <<handshake, line, verdict, sent, fin, broken, taken, buffered, probe,
                     got, unread, eof, copy, held>>
    BY DEF EndRelay, peerVars, copyVars
<1>2. Typed'
    BY <1>1 DEF Typed, Stages
<1>3. Buffers'
    BY <1>1 DEF Buffers
<1>4. Segments'
    BY <1>1 DEF Segments, Offset, Reached
<1>5. Before'
    BY <1>1 DEF Before
<1>6. \A s \in Peer : InStep(s)'
    BY <1>1 DEF InStep, Reached, Offset
<1>7. BudgetDecides'
    BY <1>1 DEF BudgetDecides
<1> QED
    BY <1>2, <1>3, <1>4, <1>5, <1>6, <1>7

\* A step that changes nothing.
LEMMA StreamStutter ==
  ASSUME StreamIInv, UNCHANGED streamVars
  PROVE  StreamIInv'
<1>1. UNCHANGED <<handshake, line, stage, verdict, sent, fin, broken, taken, buffered, probe,
                  got, unread, eof, copy, held>>
    BY DEF streamVars, peerVars, copyVars
<1> QED
    BY <1>1 DEF StreamIInv, Typed, Buffers, Segments, Before, InStep, BudgetDecides,
                LineComplete, Offset, Reached

\* The invariant survives every step of the connection.
LEMMA StreamStepInv ==
  ASSUME StreamIInv, [StreamNext]_streamVars
  PROVE  StreamIInv'
<1>1. CASE \E s \in Peer : PeerSends(s) \/ PeerShutsDown(s) \/ PeerResets(s)
    BY <1>1, PeerStep
<1>2. CASE \E s \in Peer : PeerReads(s)
    BY <1>2, PeerReadStep
<1>3. CASE \E s \in Peer : CopyRead(s)
    BY <1>3, CopyReadStep
<1>4. CASE \E s \in Peer : CopyWrite(s)
    BY <1>4, CopyWriteStep
<1>5. CASE \E s \in Peer : CopyFails(s)
    BY <1>5, CopyFailsStep
<1>6. CASE \E s \in Peer : CopyEnds(s) \/ ShutWrite(s)
    BY <1>6, CopyEndStep
<1>7. CASE CaptureRead
    BY <1>7, CaptureReadStep
<1>8. CASE CaptureParses \/ CaptureOverBudget \/ CaptureCutShort
    BY <1>8, CaptureEndStep
<1>9. CASE Dial \/ LineMatches \/ Fail
    BY <1>9, QuietStep
<1>10. CASE LineRead
    BY <1>10, LineReadStep
<1>11. CASE Replay
    BY <1>11, ReplayStep
<1>12. CASE Replayed
    BY <1>12, ReplayedStep
<1>13. CASE RelayExtra
    BY <1>13, RelayExtraStep
<1>14. CASE StartRelay
    BY <1>14, StartRelayStep
<1>15. CASE EndRelay
    BY <1>15, EndRelayStep
<1>16. CASE Ended \/ UNCHANGED streamVars
    BY <1>16, StreamStutter DEF Ended
<1> QED
    BY <1>1, <1>2, <1>3, <1>4, <1>5, <1>6, <1>7, <1>8, <1>9, <1>10, <1>11, <1>12, <1>13,
       <1>14, <1>15, <1>16 DEF StreamNext, Copying

-----------------------------------------------------------------------------
(***************************************************************************)
(* The theorems                                                            *)
(***************************************************************************)

\* The inductive invariant.
THEOREM StreamInvariance == StreamSpec => []StreamIInv
<1>1. StreamInit => StreamIInv
    BY StreamInitInv
<1>2. StreamIInv /\ [StreamNext]_streamVars => StreamIInv'
    BY StreamStepInv
<1> QED
    BY <1>1, <1>2, PTL DEF StreamSpec

\* No buffer holds more than its budget and all but one byte of a chunk.
THEOREM StreamTypeCorrect == StreamSpec => []StreamTypeOK
<1>1. StreamIInv => StreamTypeOK
    BY DEF StreamIInv, Typed, Buffers, StreamTypeOK
<1> QED
    BY <1>1, StreamInvariance, PTL

\* The relay is transparent for the client's stream, for chunks and budgets of any size.
THEOREM UpstreamAlwaysSeesClientStream == StreamSpec => []UpstreamSeesClientStream
<1>1. StreamIInv => UpstreamSeesClientStream
  <2> SUFFICES ASSUME StreamIInv
               PROVE  UpstreamSeesClientStream
      OBVIOUS
  <2>1. "upstream" \in Peer /\ Len(got["upstream"]) \in Nat
      BY DEF StreamIInv, Typed, Peer
  <2>2. Offset("upstream") = 0 /\ Reached("upstream") = Len(got["upstream"])
      BY <2>1 DEF Offset, Reached
  <2> QED
      BY <2>1, <2>2 DEF StreamIInv, Segments, UpstreamSeesClientStream
<1> QED
    BY <1>1, StreamInvariance, PTL

\* The client is sent the live stream from just behind its banner.
THEOREM ClientAlwaysSeesOneBanner == StreamSpec => []ClientSeesOneBanner
<1>1. StreamIInv => ClientSeesOneBanner
    BY DEF StreamIInv, Segments, Peer, Offset, Reached, ClientSeesOneBanner
<1> QED
    BY <1>1, StreamInvariance, PTL

\* The budget, not the chunks, decides which handshakes are classified.
THEOREM BudgetAlwaysDecides == StreamSpec => []BudgetDecides
<1>1. StreamIInv => BudgetDecides
    BY DEF StreamIInv
<1> QED
    BY <1>1, StreamInvariance, PTL

\* An end of stream never overtakes the bytes before it.
THEOREM EofAlwaysAfterAllData == StreamSpec => []EofAfterAllData
<1>1. ASSUME StreamIInv
      PROVE  EofAfterAllData
  <2>1. ASSUME NEW s \in Peer, s \in eof, broken = {}
        PROVE  /\ Other(s) \in fin
               /\ Len(got[s]) = sent[Other(s)] - (IF s = "client" THEN line ELSE 0)
    <3>1. Other(s) \in Peer /\ Other(Other(s)) = s /\ Len(got[s]) \in Nat /\ line \in Nat
      <4>1. Typed
          BY <1>1 DEF StreamIInv
      <4> QED
          BY <4>1, Positions DEF Typed
    <3>2. copy[Other(s)] = "done"
        BY <1>1, <2>1 DEF StreamIInv, InStep
    <3>3. InStep(Other(s))
        BY <1>1, <3>1 DEF StreamIInv
    <3>4. Other(s) \in fin /\ taken[Other(s)] = sent[Other(s)] /\ Reached(s) = taken[Other(s)]
        BY <2>1, <3>1, <3>2, <3>3 DEF InStep
    <3>5. sent[Other(s)] = Offset(s) + Len(got[s])
        BY <3>4 DEF Reached
    <3>6. Offset(s) \in Nat
        BY <3>1 DEF Offset
    <3>7. Len(got[s]) = sent[Other(s)] - Offset(s)
        BY <3>1, <3>5, <3>6
    <3> QED
        BY <3>4, <3>7 DEF Offset
  <2> QED
      BY <2>1 DEF EofAfterAllData
<1> QED
    BY <1>1, StreamInvariance, PTL
=============================================================================
