-------------------------- MODULE MCPacketExchange --------------------------
(* Instances of PacketExchange for TLC.                                    *)
EXTENDS PacketExchange

CONSTANTS s1, s2, s3, c1, c2, t1, t2

\* s1, s2, s3 are method calls, c1 and c2 communication layer requests.
MCLayers == [c \in Calls |-> IF c \in {c1, c2} THEN "comm" ELSE "session"]

\* All calls through one TPer object, or each kind spread over two of them.
OneTPerObject  == [c \in Calls |-> t1]
TwoTPerObjects == [c \in Calls |-> IF c \in {s1, c1} THEN t1 ELSE t2]

MockDrive == {}
=============================================================================
