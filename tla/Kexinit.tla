------------------------------ MODULE Kexinit -------------------------------
(***************************************************************************)
(* What the proxy makes of the first bytes a client sends:                 *)
(* tryParseHandshake of package proxy and package hassh, which it calls.   *)
(* CaptureHandshake parses its whole buffer anew after every read, however *)
(* the network has cut the bytes up, until the parser answers.             *)
(*                                                                         *)
(* The first half of the module is the parser, over bytes. The second      *)
(* half states what a client has to send to be recognised and what its     *)
(* fingerprint stands for, over names rather than bytes. The digest is     *)
(* known by the text it is computed from.                                  *)
(***************************************************************************)
EXTENDS Naturals, SequencesExt

CONSTANTS
  MaxPayload,  \* maxPayloadSize and maxNameListLength
  MaxCount,    \* maxAlgorithmCount
  MaxTotal,    \* maxTotalAlgorithms
  MaxName,     \* maxAlgorithmNameLength
  MaxPacket,   \* maxPacketSize
  MaxBanner,   \* maxBannerLength
  Chunk,       \* the chunk of CaptureHandshake
  Hellos       \* bound: what clients may send

\* maxPacketSize is far below 2^24: no text passes for the length of a packet.
ASSUME LimitsAssumption ==
  /\ {MaxPayload, MaxCount, MaxTotal, MaxName, MaxPacket, MaxBanner, Chunk} \subseteq Nat \ {0}
  /\ MaxPacket < 16777216

VARIABLES
  hello,     \* what the client means to send
  sent,      \* the bytes it sends
  received,  \* how many of them CaptureHandshake has read
  result     \* what tryParseHandshake has returned

kexVars == <<hello, sent, received, result>>

Marker == <<83, 83, 72, 45>>  \* "SSH-"
LineEnd == <<13, 10>>
Comma == 44
Semicolon == 59
Blank == (9..13) \cup {32}

-----------------------------------------------------------------------------
(***************************************************************************)
(* Package hassh                                                           *)
(***************************************************************************)

\* The unsigned 32-bit number at an offset, counted from 0.
Uint32(bytes, offset) ==
  ((bytes[offset + 1] * 256 + bytes[offset + 2]) * 256 + bytes[offset + 3]) * 256
    + bytes[offset + 4]

isValidAlgorithmName(name) ==
  /\ Len(name) \in 1..MaxName
  /\ \A i \in DOMAIN name : name[i] \in (33..126) \ {Comma}

\* A comma begins another piece, any other byte ends the last one.
SplitMore(pieces, byte) ==
  IF byte = Comma THEN Append(pieces, <<>>)
  ELSE Append(Front(pieces), Append(Last(pieces), byte))

\* strings.Split(..., ","), byte by byte.
Split(text) ==
  LET pieces[i \in 0..Len(text)] ==
        IF i = 0 THEN << <<>> >> ELSE SplitMore(pieces[i - 1], text[i])
  IN  pieces[Len(text)]

TrimSpace(name) ==
  LET inner == {i \in DOMAIN name : name[i] \notin Blank}
  IN  IF inner = {} THEN <<>> ELSE SubSeq(name, Min(inner), Max(inner))

\* The names of a list that are not empty.
Kept(name) == IF name = <<>> THEN <<>> ELSE <<name>>
Named(names) == FlattenSeq([n \in DOMAIN names |-> Kept(names[n])])

Trimmed(names) == Named([n \in DOMAIN names |-> TrimSpace(names[n])])

\* One invalid name is an error; empty ones are left out.
sanitizeAlgorithmNames(names) ==
  [ok |-> \A name \in ToSet(Trimmed(names)) : isValidAlgorithmName(name),
   names |-> Trimmed(names)]

\* A name-list: its length and its text. "next" is the offset behind it.
parseNameList(data, offset) ==
  LET length == Uint32(data, offset)
      names == Split(SubSeq(data, offset + 5, offset + 4 + length))
      sanitized == sanitizeAlgorithmNames(names)
  IN  IF /\ offset + 4 <= Len(data)
         /\ length <= MaxPayload /\ length <= Len(data) - (offset + 4)
         /\ length > 0 => Len(names) <= MaxCount /\ sanitized.ok
      THEN [ok |-> TRUE, next |-> offset + 4 + length,
            names |-> IF length = 0 THEN <<>> ELSE sanitized.names]
      ELSE [ok |-> FALSE, next |-> offset, names |-> <<>>]

\* The state of the parse behind one list more; once it has failed it stays so.
parseAndTrack(payload, state) ==
  LET list == parseNameList(payload, state.next)
      total == state.total + Len(list.names)
  IN  IF ~state.ok THEN state
      ELSE [ok |-> list.ok /\ total <= MaxTotal, next |-> list.next,
            total |-> total, lists |-> Append(state.lists, list.names)]

\* The ten name-lists in turn.
ParseLists(payload) ==
  LET behind[field \in 0..10] ==
        IF field = 0 THEN [ok |-> TRUE, next |-> 17, total |-> 0, lists |-> <<>>]
        ELSE parseAndTrack(payload, behind[field - 1])
  IN  behind[10]

\* Whether parseKexInitImpl accepts a payload, given its name-lists: behind them are
\* one byte and four more.
ParsesKexInit(payload, parsed) ==
  /\ Len(payload) \in 17..MaxPayload
  /\ payload[1] = 20
  /\ parsed.ok
  /\ parsed.next + 1 + 4 <= Len(payload)

Join(names) ==
  FlattenSeq([n \in DOMAIN names |-> IF n = 1 THEN names[n] ELSE <<Comma>> \o names[n]])

\* Fault: the four lists are joined like the names of one.
CalculateFlat(kex, ciphers, macs, compression) ==
  Join(kex \o ciphers \o macs \o compression)

\* The text the digest is computed from.
Calculate(kex, ciphers, macs, compression) ==
  Join(kex) \o <<Semicolon>> \o Join(ciphers) \o <<Semicolon>> \o
  Join(macs) \o <<Semicolon>> \o Join(compression)

-----------------------------------------------------------------------------
(***************************************************************************)
(* tryParseHandshake                                                       *)
(***************************************************************************)

\* The places where bytes.Index could find a pattern, counted from 0.
Places(bytes, pattern, from) ==
  {i \in from..(Len(bytes) - Len(pattern)) :
     \A n \in DOMAIN pattern : bytes[i + n] = pattern[n]}

\* The identification line: ok only once its end is in the buffer.
ParseBanner(buf) ==
  LET starts == Places(buf, Marker, 0)
      ends == Places(buf, LineEnd, Min(starts))
  IN  IF Len(buf) < 10 \/ starts = {} \/ ends = {}
      THEN [ok |-> FALSE, banner |-> <<>>, next |-> 0]
      ELSE [ok |-> TRUE, next |-> Min(ends) + 2,
            banner |-> SubSeq(buf, Min(starts) + 1,
                              Min({Min(ends), Min(starts) + MaxBanner}))]

\* Fault: the packet is taken for complete before its padding has come.
PayloadThere(packet) ==
  /\ Len(packet) >= 5
  /\ Uint32(packet, 0) \in 1..MaxPacket
  /\ packet[5] >= 4
  /\ Uint32(packet, 0) - packet[5] > 1
  /\ Len(packet) >= 4 + Uint32(packet, 0) - packet[5]

\* The binary packet behind the line is there, and its lengths make sense.
PacketThere(packet) ==
  /\ Len(packet) >= 5
  /\ Uint32(packet, 0) \in 1..MaxPacket
  /\ Len(packet) >= 4 + Uint32(packet, 0)
  /\ packet[5] >= 4
  /\ Uint32(packet, 0) - packet[5] > 1

PayloadOf(packet) == SubSeq(packet, 6, 4 + Uint32(packet, 0) - packet[5])

NotYet == [ok |-> FALSE]

\* Fault: the ciphers of the wrong direction.
FingerprintOfServer(banner, lists) ==
  [ok |-> TRUE, banner |-> banner,
   hash |-> Calculate(lists[1], lists[4], lists[5], lists[7])]

\* Of the ten lists the fingerprint takes those the client sends with.
FingerprintOf(banner, lists) ==
  [ok |-> TRUE, banner |-> banner,
   hash |-> Calculate(lists[1], lists[3], lists[5], lists[7])]

tryParseHandshake(buf) ==
  LET line == ParseBanner(buf)
      packet == SubSeq(buf, line.next + 1, Len(buf))
      parsed == ParseLists(PayloadOf(packet))
  IN  IF line.ok /\ PacketThere(packet) /\ ParsesKexInit(PayloadOf(packet), parsed)
      THEN FingerprintOf(line.banner, parsed.lists)
      ELSE NotYet

-----------------------------------------------------------------------------
(***************************************************************************)
(* The client, a reference for the parser. A hello is described by what    *)
(* precedes the identification line, the line, the message type, ten lists *)
(* of spellings, how many bytes are cut off the payload, the padding and   *)
(* what follows the packet. A spelling is a name as it is sent, together   *)
(* with the name it stands for, if any, and whether that is one.           *)
(***************************************************************************)

Byte == 0..255
Ascii == 0..127

Spelling == [raw : Seq(Ascii \ {Comma}), name : Seq(Ascii), valid : BOOLEAN]
Hello ==
  [before : Seq(Byte), line : Seq(Byte), type : Byte, lists : [1..10 -> Seq(Spelling)],
   cut : Nat, padding : Byte, after : Seq(Byte)]

\* A spelling is its name with blanks around it, and its name is valid if it is made of
\* graphic characters and not too long. Names are ASCII: the spaces of other alphabets,
\* which strings.TrimSpace removes as well, are not sent.
Spells(s) ==
  /\ \E i \in 0..(Len(s.raw) - Len(s.name)) :
       /\ s.name = SubSeq(s.raw, i + 1, i + Len(s.name))
       /\ \A j \in DOMAIN s.raw \ ((i + 1)..(i + Len(s.name))) : s.raw[j] \in Blank
  /\ s.name # <<>> => s.name[1] \notin Blank /\ s.name[Len(s.name)] \notin Blank
  /\ s.valid <=> Len(s.name) <= MaxName /\ ToSet(s.name) \subseteq 33..126

Spelled(list) == Join([n \in DOMAIN list |-> list[n].raw])

Word(n) == <<n \div 16777216, (n \div 65536) % 256, (n \div 256) % 256, n % 256>>
Zeros(n) == [i \in 1..n |-> 0]

Payload(h) ==
  LET whole == <<h.type>> \o Zeros(16)
                 \o FlattenSeq([i \in 1..10 |-> Word(Len(Spelled(h.lists[i])))
                                                  \o Spelled(h.lists[i])])
                 \o Zeros(5)
  IN  SubSeq(whole, 1, Len(whole) - h.cut)

PacketLength(h) == 1 + Len(Payload(h)) + h.padding

Packet(h) == Word(PacketLength(h)) \o <<h.padding>> \o Payload(h) \o Zeros(h.padding)

Bytes(h) == h.before \o h.line \o LineEnd \o Packet(h) \o h.after

\* Where the client's handshake ends in what it sends.
Complete(h) == Len(h.before) + Len(h.line) + 6 + PacketLength(h)

\* The names that a list stands for.
Meaning(list) == Named([n \in DOMAIN list |-> list[n].name])

\* Those that tell clients apart.
Offer(h) == [i \in {1, 3, 5, 7} |-> Meaning(h.lists[i])]

Digested(offer) == Calculate(offer[1], offer[3], offer[5], offer[7])

\* The offers in which no name contains a semicolon.
PlainOffers ==
  {offer \in {Offer(h) : h \in Hellos} :
     \A i \in {1, 3, 5, 7} : \A name \in ToSet(offer[i]) : ~Contains(name, Semicolon)}

\* A handshake to be recognised: an identification line, a packet of the right type
\* with its padding and all its fields, names that are names, and nothing too large.
Conformant(h) ==
  /\ IsPrefix(Marker, h.line) /\ Places(h.before, Marker, 0) = {}
  /\ h.type = 20 /\ h.padding >= 4 /\ h.cut = 0
  /\ \A i \in 1..10 : Len(h.lists[i]) <= MaxCount
  /\ \A i \in 1..10 : \A s \in ToSet(h.lists[i]) : s.valid
  /\ Len(FlattenSeq([i \in 1..10 |-> Meaning(h.lists[i])])) <= MaxTotal
  /\ Len(Payload(h)) <= MaxPayload
  /\ PacketLength(h) <= MaxPacket

\* A client sends an identification line before its packet, or none at all, or one more
\* before it.
OneLine(h) ==
  /\ Places(h.before, Marker, 0) = {}
  /\ IsPrefix(Marker, h.line)
  /\ Places(h.line \o LineEnd, LineEnd, 0) = {Len(h.line)}
NoLine(h) == Places(Bytes(h), Marker, 0) = {}
TwoLines(h) ==
  LET starts == Places(h.before, Marker, 0)
      ends == Places(h.before, LineEnd, Min(starts))
  IN  /\ starts # {} /\ ends # {} /\ Min(ends) = Len(h.before) - 2
      /\ h.line # <<>> /\ h.line[1] # 0

ASSUME HellosAssumption ==
  \A h \in Hellos :
    /\ h \in Hello
    /\ OneLine(h) \/ NoLine(h) \/ TwoLines(h)
    /\ \A i \in 1..10 : \A s \in ToSet(h.lists[i]) : Spells(s)

-----------------------------------------------------------------------------
KexInit ==
  /\ hello \in Hellos
  /\ sent = Bytes(hello)
  /\ received = 0
  /\ result = NotYet

\* One turn of CaptureHandshake's loop: a read, then the parse at its head. The
\* budget and the deadline, which end the loop early, are module Stream's.
Capture ==
  /\ ~result.ok
  /\ \E n \in 1..Chunk :
       /\ received + n <= Len(sent)
       /\ received' = received + n
  /\ result' = tryParseHandshake(SubSeq(sent, 1, received'))
  /\ UNCHANGED <<hello, sent>>

\* The parser has answered, or the client sends nothing more.
Ended == (result.ok \/ received = Len(sent)) /\ UNCHANGED kexVars

KexNext == Capture \/ Ended

KexSpec == KexInit /\ [][KexNext]_kexVars

-----------------------------------------------------------------------------
(***************************************************************************)
(* Properties                                                              *)
(***************************************************************************)

\* Whether a client is classified depends on what it sends and on nothing else: a
\* handshake that conforms is recognised with the read that completes it, not before
\* its last byte and whatever came with it; one that does not conform never is. So
\* the position that module Stream calls handshake is Complete(hello), or 0.
RecognisedOnceComplete ==
  result.ok <=> Conformant(hello) /\ received >= Complete(hello)

\* The fingerprint is that of the names the client has sent, in its order, blanks
\* and empty names apart, and of the four lists it sends with; the banner is its line,
\* no longer than the column that stores it.
FingerprintOfWhatWasSent ==
  result.ok =>
    /\ result.hash = Digested(Offer(hello))
    /\ result.banner = SubSeq(hello.line, 1, Min({Len(hello.line), MaxBanner}))

\* Two clients have the same fingerprint exactly if they offer the same names in the
\* same order, so that the block of one is not the block of another: the text that is
\* digested determines the four lists, as long as no name contains a semicolon.
FingerprintIdentifiesOffer ==
  result.ok /\ Offer(hello) \in PlainOffers =>
    \A other \in PlainOffers : other = Offer(hello) <=> result.hash = Digested(other)

=============================================================================
