------------------------------- MODULE Stream -------------------------------
(***************************************************************************)
(* The bytes of one connection: CaptureHandshake buffers the beginning of  *)
(* the client's stream, readIdentificationLine the beginning of the        *)
(* upstream server's, handleConnection replays what was buffered and then  *)
(* two goroutines copy, each until its source ends.                        *)
(*                                                                         *)
(* A stream is known by its positions: byte i of the client's stream is i. *)
(* Of the contents only two positions matter, both chosen by the peers:    *)
(* where the client's handshake becomes parseable, if ever, and where the  *)
(* upstream server's identification line ends, if ever. The parser accepts *)
(* a buffer exactly if it holds the handshake whole, since everything it   *)
(* reads, lengths included, lies before that position.                     *)
(***************************************************************************)
EXTENDS Naturals, Sequences

CONSTANTS
  MaxCapture,   \* maxCaptureSize
  CaptureChunk, \* the chunk of CaptureHandshake
  MaxProbe,     \* maxBannerProbeSize
  ProbeChunk,   \* the chunk of readIdentificationLine
  CopyChunk,    \* the chunk of io.Copy
  Window,       \* the bytes the sockets hold that a peer has not read
  Total         \* bound: the bytes each peer sends at most

ASSUME SizeAssumption ==
  {MaxCapture, CaptureChunk, MaxProbe, ProbeChunk, CopyChunk, Window, Total} \subseteq Nat \ {0}

Peer == {"client", "upstream"}
Other(s) == IF s = "client" THEN "upstream" ELSE "client"

VARIABLES
  handshake,  \* the client's handshake ends here, 0 if never
  line,       \* the upstream server's identification line ends here, 0 if never
  stage,      \* where handleConnection is
  verdict,    \* the outcome of the capture
  sent,       \* bytes each peer has sent
  fin,        \* peers that have shut their sending side down
  broken,     \* peers whose connection was reset
  taken,      \* bytes read from each peer's socket
  buffered,   \* the bytes CaptureHandshake returns
  probe,      \* the bytes readIdentificationLine has read
  got,        \* what each peer's socket has received of the other's stream
  unread,     \* how much of it the peer has not read
  eof,        \* peers that have received an end of stream
  copy,       \* control state of the goroutine that reads from a peer
  held        \* its chunk

peerVars == <<sent, fin, broken>>
copyVars == <<copy, held>>
streamVars == <<handshake, line, stage, verdict, peerVars, taken, buffered, probe,
                got, unread, eof, copyVars>>

Stages == {"capture", "dial", "line", "replay", "extra", "relay", "closed"}
CaptureOutcomes == {"none", "fingerprinted", "overBudget", "cutShort"}
CopyStates == {"off", "read", "write", "shut", "done"}

\* Positions first+1 to last.
Bytes(first, last) == [i \in 1..(last - first) |-> first + i]

Available(s) == sent[s] - taken[s]
Room(s) == Window - unread[s]
AtEnd(s) == s \in broken \/ (s \in fin /\ Available(s) = 0)

StreamInit ==
  /\ handshake \in 0..Total
  /\ line \in 0..Total
  /\ stage = "capture"
  /\ verdict = "none"
  /\ sent = [s \in Peer |-> 0]
  /\ fin = {}
  /\ broken = {}
  /\ taken = [s \in Peer |-> 0]
  /\ buffered = <<>>
  /\ probe = <<>>
  /\ got = [s \in Peer |-> <<>>]
  /\ unread = [s \in Peer |-> 0]
  /\ eof = {}
  /\ copy = [s \in Peer |-> "off"]
  /\ held = [s \in Peer |-> <<>>]

-----------------------------------------------------------------------------
(***************************************************************************)
(* The peers. The upstream server speaks once it is dialed.                *)
(***************************************************************************)

Connected(s) == stage # "closed" /\ (s = "upstream" => stage \notin {"capture", "dial"})

PeerSends(s) ==
  /\ Connected(s) /\ s \notin fin \cup broken /\ sent[s] < Total
  /\ sent' = [sent EXCEPT ![s] = @ + 1]
  /\ UNCHANGED <<handshake, line, stage, verdict, fin, broken, taken, buffered,
                 probe, got, unread, eof, copyVars>>

PeerShutsDown(s) ==
  /\ Connected(s) /\ s \notin fin \cup broken
  /\ fin' = fin \cup {s}
  /\ UNCHANGED <<handshake, line, stage, verdict, sent, broken, taken, buffered,
                 probe, got, unread, eof, copyVars>>

PeerResets(s) ==
  /\ Connected(s) /\ s \notin broken
  /\ broken' = broken \cup {s}
  /\ UNCHANGED <<handshake, line, stage, verdict, sent, fin, taken, buffered,
                 probe, got, unread, eof, copyVars>>

PeerReads(s) ==
  /\ Connected(s) /\ s \notin broken /\ unread[s] > 0
  /\ unread' = [unread EXCEPT ![s] = @ - 1]
  /\ UNCHANGED <<handshake, line, stage, verdict, peerVars, taken, buffered, probe, got,
                 eof, copyVars>>

-----------------------------------------------------------------------------
(***************************************************************************)
(* CaptureHandshake                                                        *)
(***************************************************************************)

\* Fault: a packet that ends where the buffer ends counts as incomplete.
ParsedLate(bytes) == handshake # 0 /\ Len(bytes) > handshake

\* tryParseHandshake.
Parsed(bytes) == handshake # 0 /\ Len(bytes) >= handshake

CaptureRead ==
  /\ stage = "capture" /\ ~Parsed(buffered) /\ Len(buffered) < MaxCapture
  /\ "client" \notin broken
  /\ \E n \in 1..CaptureChunk :
       /\ n <= Available("client")
       /\ buffered' = buffered \o Bytes(taken["client"], taken["client"] + n)
       /\ taken' = [taken EXCEPT !["client"] = @ + n]
  /\ UNCHANGED <<handshake, line, stage, verdict, peerVars, probe, got, unread, eof,
                 copyVars>>

CaptureParses ==
  /\ stage = "capture" /\ Parsed(buffered)
  /\ stage' \in {"dial", "closed"}  \* allowed or blocked
  /\ verdict' = "fingerprinted"
  /\ UNCHANGED <<handshake, line, peerVars, taken, buffered, probe, got, unread, eof,
                 copyVars>>

CaptureOverBudget ==
  /\ stage = "capture" /\ ~Parsed(buffered) /\ Len(buffered) >= MaxCapture
  /\ stage' = "dial"
  /\ verdict' = "overBudget"
  /\ UNCHANGED <<handshake, line, peerVars, taken, buffered, probe, got, unread, eof,
                 copyVars>>

\* Read fails: the deadline, an end of stream or a reset.
CaptureCutShort ==
  /\ stage = "capture" /\ ~Parsed(buffered) /\ Len(buffered) < MaxCapture
  /\ stage' = "dial"
  /\ verdict' = "cutShort"
  /\ UNCHANGED <<handshake, line, peerVars, taken, buffered, probe, got, unread, eof,
                 copyVars>>

-----------------------------------------------------------------------------
(***************************************************************************)
(* The upstream server's identification line                               *)
(***************************************************************************)

Dial ==
  /\ stage = "dial"
  /\ stage' = "line"
  /\ UNCHANGED <<handshake, line, verdict, peerVars, taken, buffered, probe, got, unread,
                 eof, copyVars>>

LineComplete == line # 0 /\ Len(probe) >= line

\* Fault: the search for the end of the line has no budget.
LineReadOn ==
  /\ stage = "line" /\ ~LineComplete
  /\ "upstream" \notin broken
  /\ \E n \in 1..ProbeChunk :
       /\ n <= Available("upstream")
       /\ probe' = probe \o Bytes(taken["upstream"], taken["upstream"] + n)
       /\ taken' = [taken EXCEPT !["upstream"] = @ + n]
  /\ UNCHANGED <<handshake, line, stage, verdict, peerVars, buffered, got, unread, eof,
                 copyVars>>

LineRead ==
  /\ stage = "line" /\ ~LineComplete /\ Len(probe) < MaxProbe
  /\ "upstream" \notin broken
  /\ \E n \in 1..ProbeChunk :
       /\ n <= Available("upstream")
       /\ probe' = probe \o Bytes(taken["upstream"], taken["upstream"] + n)
       /\ taken' = [taken EXCEPT !["upstream"] = @ + n]
  /\ UNCHANGED <<handshake, line, stage, verdict, peerVars, buffered, got, unread, eof,
                 copyVars>>

\* The line is there and equals the cached banner.
LineMatches ==
  /\ stage = "line" /\ LineComplete
  /\ stage' = "replay"
  /\ UNCHANGED <<handshake, line, verdict, peerVars, taken, buffered, probe, got, unread,
                 eof, copyVars>>

\* What trailed the line in the reads that found it.
Extra == SubSeq(probe, line + 1, Len(probe))

\* The connection ends early: a failed dial, a line that is too long, late, cut
\* short or different, a failed write of what was buffered.
Fail ==
  /\ \/ stage \in {"dial", "line"}
     \/ stage = "replay" /\ Len(got["upstream"]) < Len(buffered) /\ "upstream" \in broken
     \/ stage = "extra" /\ Len(got["client"]) < Len(Extra) /\ "client" \in broken
  /\ stage' = "closed"
  /\ UNCHANGED <<handshake, line, verdict, peerVars, taken, buffered, probe, got, unread,
                 eof, copyVars>>

\* What a Write hands to the sockets: it returns once they have taken all of it, and
\* waits, without a deadline, while the peer does not read.
Deliver(s, bytes) ==
  /\ got' = [got EXCEPT ![s] = @ \o bytes]
  /\ unread' = [unread EXCEPT ![s] = @ + Len(bytes)]

\* Fault: the replay begins where the fingerprinted handshake ends.
ReplayRest ==
  /\ stage = "replay" /\ "upstream" \notin broken
  /\ \E n \in Len(got["upstream"]) + 1..Len(buffered) - handshake :
       /\ n - Len(got["upstream"]) <= Room("upstream")
       /\ Deliver("upstream",
                  SubSeq(buffered, handshake + Len(got["upstream"]) + 1, handshake + n))
  /\ UNCHANGED <<handshake, line, stage, verdict, peerVars, taken, buffered, probe, eof,
                 copyVars>>

\* upstreamConn.Write(buffered), as far as the sockets take it.
Replay ==
  /\ stage = "replay" /\ "upstream" \notin broken
  /\ \E n \in Len(got["upstream"]) + 1..Len(buffered) :
       /\ n - Len(got["upstream"]) <= Room("upstream")
       /\ Deliver("upstream", SubSeq(buffered, Len(got["upstream"]) + 1, n))
  /\ UNCHANGED <<handshake, line, stage, verdict, peerVars, taken, buffered, probe, eof,
                 copyVars>>

\* The write has returned, or there was nothing to write.
Replayed ==
  /\ stage = "replay" /\ Len(got["upstream"]) = Len(buffered)
  /\ stage' = "extra"
  /\ UNCHANGED <<handshake, line, verdict, peerVars, taken, buffered, probe, got, unread,
                 eof, copyVars>>

\* clientConn.Write(extra), likewise.
RelayExtra ==
  /\ stage = "extra" /\ "client" \notin broken
  /\ \E n \in Len(got["client"]) + 1..Len(Extra) :
       /\ n - Len(got["client"]) <= Room("client")
       /\ Deliver("client", SubSeq(Extra, Len(got["client"]) + 1, n))
  /\ UNCHANGED <<handshake, line, stage, verdict, peerVars, taken, buffered, probe, eof,
                 copyVars>>

\* Fault: what the probe read past the line is dropped with it.
DropExtra ==
  /\ stage = "extra"
  /\ stage' = "relay"
  /\ copy' = [s \in Peer |-> "read"]
  /\ UNCHANGED <<handshake, line, verdict, peerVars, taken, buffered, probe, got, unread,
                 eof, held>>

StartRelay ==
  /\ stage = "extra" /\ Len(got["client"]) = Len(Extra)
  /\ stage' = "relay"
  /\ copy' = [s \in Peer |-> "read"]
  /\ UNCHANGED <<handshake, line, verdict, peerVars, taken, buffered, probe, got, unread,
                 eof, held>>

-----------------------------------------------------------------------------
(***************************************************************************)
(* io.Copy(Other(s), s) and CloseWrite                                     *)
(***************************************************************************)

CopyRead(s) ==
  /\ copy[s] = "read" /\ s \notin broken
  /\ \E n \in 1..CopyChunk :
       /\ n <= Available(s)
       /\ held' = [held EXCEPT ![s] = Bytes(taken[s], taken[s] + n)]
       /\ taken' = [taken EXCEPT ![s] = @ + n]
  /\ copy' = [copy EXCEPT ![s] = "write"]
  /\ UNCHANGED <<handshake, line, stage, verdict, peerVars, buffered, probe, got,
                 unread, eof>>

\* Write hands over what the sockets of the other side have room for; the goroutine
\* reads again when all of the chunk is gone.
CopyWrite(s) ==
  /\ copy[s] = "write" /\ Other(s) \notin broken
  /\ \E n \in 1..Len(held[s]) :
       /\ n <= Room(Other(s))
       /\ Deliver(Other(s), SubSeq(held[s], 1, n))
       /\ held' = [held EXCEPT ![s] = SubSeq(@, n + 1, Len(@))]
       /\ copy' = [copy EXCEPT ![s] = IF n = Len(held[s]) THEN "read" ELSE "write"]
  /\ UNCHANGED <<handshake, line, stage, verdict, peerVars, taken, buffered, probe, eof>>

\* Fault: a goroutine whose write fails returns at once, without telling.
CopyFailsUntold(s) ==
  /\ copy[s] = "write" /\ Other(s) \in broken
  /\ copy' = [copy EXCEPT ![s] = "off"]
  /\ held' = [held EXCEPT ![s] = <<>>]
  /\ UNCHANGED <<handshake, line, stage, verdict, peerVars, taken, buffered, probe, got,
                 unread, eof>>

\* A write to a connection that was reset fails, a waiting one too, and ends the copy.
CopyFails(s) ==
  /\ copy[s] = "write" /\ Other(s) \in broken
  /\ copy' = [copy EXCEPT ![s] = "shut"]
  /\ held' = [held EXCEPT ![s] = <<>>]
  /\ UNCHANGED <<handshake, line, stage, verdict, peerVars, taken, buffered, probe, got,
                 unread, eof>>

\* Fault: the copy ends when its source has shut down, drained or not.
CopyEndsAtFin(s) ==
  /\ copy[s] = "read" /\ s \in fin \cup broken
  /\ copy' = [copy EXCEPT ![s] = "shut"]
  /\ UNCHANGED <<handshake, line, stage, verdict, peerVars, taken, buffered, probe,
                 got, unread, eof, held>>

CopyEnds(s) ==
  /\ copy[s] = "read" /\ AtEnd(s)
  /\ copy' = [copy EXCEPT ![s] = "shut"]
  /\ UNCHANGED <<handshake, line, stage, verdict, peerVars, taken, buffered, probe,
                 got, unread, eof, held>>

\* CloseWrite, and the send to the done channel, whose two slots never block.
ShutWrite(s) ==
  /\ copy[s] = "shut"
  /\ copy' = [copy EXCEPT ![s] = "done"]
  /\ eof' = eof \cup ({Other(s)} \ broken)
  /\ UNCHANGED <<handshake, line, stage, verdict, peerVars, taken, buffered, probe,
                 got, unread, held>>

\* Fault: the first direction to end ends the connection.
EndAtFirst ==
  /\ stage = "relay" /\ \E s \in Peer : copy[s] = "done"
  /\ stage' = "closed"
  /\ copy' = [s \in Peer |-> "done"]
  /\ UNCHANGED <<handshake, line, verdict, peerVars, taken, buffered, probe, got, unread,
                 eof, held>>

\* Two receives from done, then the deferred Close calls.
EndRelay ==
  /\ stage = "relay" /\ \A s \in Peer : copy[s] = "done"
  /\ stage' = "closed"
  /\ UNCHANGED <<handshake, line, verdict, peerVars, taken, buffered, probe, got, unread,
                 eof, copyVars>>

Ended == stage = "closed" /\ UNCHANGED streamVars

-----------------------------------------------------------------------------
Copying(s) == CopyRead(s) \/ CopyWrite(s) \/ CopyFails(s) \/ CopyEnds(s) \/ ShutWrite(s)

StreamNext ==
  \/ \E s \in Peer : PeerSends(s) \/ PeerShutsDown(s) \/ PeerResets(s) \/ PeerReads(s)
  \/ \E s \in Peer : Copying(s)
  \/ CaptureRead \/ CaptureParses \/ CaptureOverBudget \/ CaptureCutShort
  \/ Dial \/ LineRead \/ LineMatches \/ Fail
  \/ Replay \/ Replayed \/ RelayExtra \/ StartRelay
  \/ EndRelay
  \/ Ended

StreamSpec == StreamInit /\ [][StreamNext]_streamVars

\* The goroutines run: a Write proceeds whenever the sockets have room. Nothing is
\* asked of the peers here; that they read is a premise of the properties that need it.
FairStreamSpec ==
  StreamSpec /\ WF_streamVars(EndRelay) /\ \A s \in Peer : WF_streamVars(Copying(s))

-----------------------------------------------------------------------------
(***************************************************************************)
(* Properties                                                              *)
(***************************************************************************)

\* Types, and what the two buffers really hold at most: a budget is tested before
\* a read, so a buffer can pass it by all but one byte of a chunk.
StreamTypeOK ==
  /\ stage \in Stages
  /\ verdict \in CaptureOutcomes
  /\ \A s \in Peer : taken[s] <= sent[s] /\ sent[s] <= Total
  /\ fin \subseteq Peer /\ broken \subseteq Peer /\ eof \subseteq Peer
  /\ copy \in [Peer -> CopyStates]
  /\ Len(buffered) < MaxCapture + CaptureChunk
  /\ Len(probe) < MaxProbe + ProbeChunk
  /\ \A s \in Peer : unread[s] <= Len(got[s]) /\ unread[s] <= Window

\* "A transparent, byte-level relay": the upstream server receives the client's
\* stream from its first byte, without loss, duplication or reordering, although
\* three readers take it from the socket in turn.
UpstreamSeesClientStream ==
  got["upstream"] = Bytes(0, Len(got["upstream"]))

\* The client, greeted with the cached banner, receives the upstream server's
\* stream from just after its live banner on: neither two identification lines nor
\* a hole after the first.
ClientSeesOneBanner ==
  got["client"] # <<>> => got["client"] = Bytes(line, line + Len(got["client"]))

\* How the client's bytes were chunked does not decide whether it is classified, as
\* long as its handshake fits the budget: a capture that neither times out nor is
\* cut short always finds such a handshake. Beyond the budget and one chunk it
\* never does.
BudgetDecides ==
  /\ verdict = "overBudget" => handshake = 0 \/ handshake > MaxCapture
  /\ verdict = "fingerprinted" => handshake < MaxCapture + CaptureChunk

\* An end of stream is passed on only after everything before it: a peer that has
\* received one, where neither side was reset, has received the whole stream of a
\* peer that did shut down.
EofAfterAllData ==
  \A s \in Peer :
    s \in eof /\ broken = {} =>
      /\ Other(s) \in fin
      /\ Len(got[s]) = sent[Other(s)] - (IF s = "client" THEN line ELSE 0)

\* A peer that reads, or resets its connection: its sockets do not stay full for ever.
\* No write of the relay has a deadline, so whoever depends on one needs this.
Reads(s) == []<>(Room(s) > 0 \/ s \in broken)

\* In the relay a byte sent to a peer that reads is delivered, unless a connection is
\* reset: whether the opposite direction has ended, waits for its own peer to read, or
\* goes on makes no difference.
SentIsDelivered ==
  \A s \in Peer, k \in 1..Total :
    Reads(Other(s)) =>
      (stage = "relay" /\ sent[s] >= k ~>
         \/ Len(got[Other(s)]) + (IF s = "upstream" THEN line ELSE 0) >= k
         \/ broken # {})

\* The handler ends when both peers have ended their streams and go on reading.
RelayEnds ==
  (\A s \in Peer : Reads(s)) =>
    (stage = "relay" /\ fin = Peer ~> stage = "closed")

=============================================================================
