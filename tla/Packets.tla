------------------------------- MODULE Packets -------------------------------
(***************************************************************************)
(* The layout of a com packet (ComPacket.hpp, over FlatBinaryArchive): one *)
(* is saved to bytes, and the bytes are loaded by the code's nested loops, *)
(* one header at a time.                                                   *)
(*                                                                         *)
(* Every length is the real one. Of the header fields only those that vary *)
(* are kept by name; the others are zeros of their width.                  *)
(***************************************************************************)
EXTENDS Integers, SequencesExt, Sums

CONSTANTS
  Payloads,      \* payloads of a sub packet, sequences of bytes
  SessionNumbers,
  MaxSubPackets, \* bound: sub packets of a packet
  MaxPackets     \* bound: packets of a com packet


VARIABLES
  input,  \* the com packet that is saved
  bytes,  \* what it was saved to
  rest,   \* bytes the loader has not read
  phase,  \* which load function runs
  com,    \* the com packet being loaded: announced length, offset, packets
  packet  \* the packet being loaded: announced length, offset, sub packets

packetsVars == <<input, bytes, rest, phase, com, packet>>

-----------------------------------------------------------------------------
(* Saving. *)

\* Numbers have four bytes, the most significant first: the lowest byte is taken, and
\* the number shifted.
ToFlatBinary(n) ==
  LET high == (n \div 256) \div 256
  IN  <<(high \div 256) % 256, high % 256, (n \div 256) % 256, n % 256>>

FromFlatBinary(bs) == 256 * (256 * (256 * bs[1] + bs[2]) + bs[3]) + bs[4]

FitsFourBytes(n) == ((n \div 256) \div 256) \div 256 < 256

Zeros(n) == [i \in 1 .. n |-> 0]

PaddedPayloadLength(s) == ((Len(s) + 3) \div 4) * 4

SubHeader == 12
PacketHeader == 24
ComHeader == 20

\* The headers of the sub packets forgotten, for the mutant.
PayloadOnly(p) ==
  Total([i \in DOMAIN p.payload |-> PaddedPayloadLength(p.payload[i])])

PayloadLength(p) ==
  Total([i \in DOMAIN p.payload |-> SubHeader + PaddedPayloadLength(p.payload[i])])

ComPayloadLength(c) ==
  Total([i \in DOMAIN c |-> PacketHeader + PayloadLength(c[i])])

SaveSubPacket(s) ==
  Zeros(8) \o ToFlatBinary(Len(s)) \o s \o Zeros(PaddedPayloadLength(s) - Len(s))

SavePacket(p) ==
  ToFlatBinary(p.tsn) \o Zeros(16) \o ToFlatBinary(PayloadLength(p))
  \o Joined([i \in DOMAIN p.payload |-> SaveSubPacket(p.payload[i])])

SaveComPacket(c) ==
  Zeros(16) \o ToFlatBinary(ComPayloadLength(c))
  \o Joined([i \in DOMAIN c |-> SavePacket(c[i])])

-----------------------------------------------------------------------------
(* Loading. *)

Packet == [tsn : SessionNumbers, payload : BoundedSeq(Payloads, MaxSubPackets)]

\* The fields have four bytes; no com packet is so long that its length needs more.
ASSUME PacketsAssumption ==
  /\ Payloads \subseteq Seq(0 .. 255) /\ SessionNumbers \subseteq Nat
  /\ MaxSubPackets \in Nat /\ MaxPackets \in Nat
  /\ \A t \in SessionNumbers : FitsFourBytes(t)
  /\ \A c \in BoundedSeq(Packet, MaxPackets) : FitsFourBytes(ComPayloadLength(c))

Unread == [length |-> 0, offset |-> 0, tsn |-> 0, payload |-> <<>>]

PacketsInit ==
  /\ input \in BoundedSeq(Packet, MaxPackets)
  /\ bytes = SaveComPacket(input)
  /\ rest = bytes
  /\ phase = "com"
  /\ com = [length |-> 0, offset |-> 0, packets |-> <<>>]
  /\ packet = Unread

\* Extract of n bytes; a short stream is an exception.
Extract(n, loaded) ==
  IF Len(rest) < n
  THEN phase' = "failed" /\ UNCHANGED <<rest, com, packet>>
  ELSE loaded /\ rest' = SubSeq(rest, n + 1, Len(rest))

LengthAt(n) == FromFlatBinary(SubSeq(rest, n - 3, n))

LoadComHeader ==
  /\ phase = "com"
  /\ Extract(ComHeader, /\ com' = [com EXCEPT !.length = LengthAt(ComHeader)]
                        /\ phase' = "packets"
                        /\ UNCHANGED packet)
  /\ UNCHANGED <<input, bytes>>

\* while (offset < length), of the com packet
LoadPacketHeader ==
  /\ phase = "packets" /\ com.offset < com.length
  /\ Extract(PacketHeader,
             /\ packet' = [Unread EXCEPT !.tsn = FromFlatBinary(SubSeq(rest, 1, 4)),
                                         !.length = LengthAt(PacketHeader)]
             /\ phase' = "subpackets"
             /\ UNCHANGED com)
  /\ UNCHANGED <<input, bytes>>

\* while (offset < length), of the packet. The padding is counted into the
\* offset, and stays unread.
LoadSubPacket ==
  /\ phase = "subpackets" /\ packet.offset < packet.length
  /\ IF Len(rest) < SubHeader
     THEN phase' = "failed" /\ UNCHANGED <<rest, com, packet>>
     ELSE LET length == LengthAt(SubHeader)
              end == SubHeader + length
              payload == SubSeq(rest, SubHeader + 1, end)
          IN Extract(end,
                     /\ packet' = [packet EXCEPT
                          !.offset = @ + SubHeader + PaddedPayloadLength(payload),
                          !.payload = Append(@, payload)]
                     /\ UNCHANGED <<com, phase>>)
  /\ UNCHANGED <<input, bytes>>

\* What is read of a packet is what its sub packets take.
PacketDone ==
  /\ phase = "subpackets" /\ packet.offset >= packet.length
  /\ LET read == [tsn |-> packet.tsn, payload |-> packet.payload]
     IN com' = [com EXCEPT !.offset = @ + PacketHeader + PayloadLength(read),
                           !.packets = Append(@, read)]
  /\ phase' = "packets"
  /\ UNCHANGED <<input, bytes, rest, packet>>

ComPacketDone ==
  /\ phase = "packets" /\ com.offset >= com.length
  /\ phase' = "done"
  /\ UNCHANGED <<input, bytes, rest, com, packet>>

PacketsNext ==
  \/ LoadComHeader \/ LoadPacketHeader \/ LoadSubPacket
  \/ PacketDone \/ ComPacketDone

PacketsSpec == PacketsInit /\ [][PacketsNext]_packetsVars

-----------------------------------------------------------------------------
(* Properties. *)

\* Only what comes last on the wire may need padding: it is not skipped.
\* All the host sends (CreatePacket) has one sub packet.
PaddedAtEnd(c) ==
  \A i \in DOMAIN c : \A j \in DOMAIN c[i].payload :
    \/ Len(c[i].payload[j]) % 4 = 0
    \/ i = Len(c) /\ j = Len(c[i].payload)

\* A com packet in which only the end is padded is loaded as
\* it was saved (load and save of ComPacket, Packet and SubPacket agree).
RoundTrip ==
  /\ phase = "done" /\ PaddedAtEnd(input) => com.packets = input
  /\ phase = "failed" => ~PaddedAtEnd(input)

=============================================================================
