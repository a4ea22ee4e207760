-------------------------------- MODULE Tokens --------------------------------
(***************************************************************************)
(* Values, the tokens they are made of and the bytes tokens are written as *)
(* (Value, Token and TokenStream of lib/Messaging).                        *)
(*                                                                         *)
(* A value is a record: an integer keeps its width, sign and big-endian    *)
(* bytes, so that nothing depends on how large TLC's integers are. What    *)
(* reads a prefix of its input returns what it read, with how much of the  *)
(* input is left; an exception is Failure.                                 *)
(***************************************************************************)
EXTENDS Integers, SequencesExt, Sums

CONSTANT MaxDepth   \* bound: how deep values that are sent are nested

ASSUME TokensAssumption == MaxDepth \in Nat

Failure == [ok |-> FALSE]
Read(v, left) == [ok |-> TRUE, value |-> v, left |-> left]
LastOf(s, n) == SubSeq(s, Len(s) - n + 1, Len(s))
NextOf(s, n) == s[Len(s) - n + 1]

-----------------------------------------------------------------------------
(* Tokens and bytes. *)

\* eTag
TinyAtom   == 0
ShortAtom  == 128
MediumAtom == 192
LongAtom   == 224
StartList == 240
EndList   == 241
StartName == 242
EndName   == 243
Call      == 248
EndOfData == 249
Commands  == {Call, EndOfData, 250, 251, 252, 255}

Atoms == {TinyAtom, ShortAtom, MediumAtom, LongAtom}

Atom(tag, isByte, isSigned, data) ==
  [tag |-> tag, isByte |-> isByte, isSigned |-> isSigned, data |-> data]
Control(tag) == Atom(tag, FALSE, FALSE, <<>>)

Bit(b, weight) == IF b THEN weight ELSE 0
HasBit(n, weight) == (n \div weight) % 2 = 1

\* One more byte in a short atom than its header can count, for the mutant.
GetTagShort(length) == IF length <= 16 THEN ShortAtom ELSE MediumAtom

\* Tiny atoms are read, never written.
GetTag(length) ==
  CASE length \in 0 .. 15    -> ShortAtom
    [] length \in 16 .. 2047 -> MediumAtom
    [] OTHER                 -> LongAtom

SerializeToken(t) ==
  LET n == Len(t.data)
  IN (CASE t.tag = ShortAtom  -> <<128 + Bit(t.isByte, 32) + Bit(t.isSigned, 16) + (n % 16)>>
        [] t.tag = MediumAtom -> <<192 + Bit(t.isByte, 16) + Bit(t.isSigned, 8)
                                   + ((n % 2048) \div 256), n % 256>>
        [] t.tag = LongAtom   -> <<224 + Bit(t.isByte, 2) + Bit(t.isSigned, 1),
                                 ((n \div 256) \div 256) % 256, (n \div 256) % 256, n % 256>>
        [] OTHER            -> <<t.tag>>) \o t.data

GetTagFromHeader(header) ==
  CASE header < 128        -> TinyAtom
    [] header \in 128..191 -> ShortAtom
    [] header \in 192..223 -> MediumAtom
    [] header \in 224..231 -> LongAtom
    [] OTHER               -> header

\* The bytes of an atom follow its header, at offset from.
ReadAtom(bytes, tag, isByte, isSigned, from, n) ==
  IF Len(bytes) < from + n THEN Failure
  ELSE Read(Atom(tag, isByte, isSigned, SubSeq(bytes, from + 1, from + n)),
            Len(bytes) - (from + n))

DeSerializeToken(bytes) ==
  LET h == Head(bytes)
      tag == GetTagFromHeader(h)
      signed == h >= 64
      bits == h % 64
  IN CASE tag = TinyAtom   -> Read(Atom(tag, FALSE, signed,
                                   <<IF signed /\ bits >= 32 THEN bits + 192 ELSE bits>>),
                                 Len(bytes) - 1)
       [] tag = ShortAtom  -> ReadAtom(bytes, tag, HasBit(h, 32), HasBit(h, 16), 1, h % 16)
       [] tag = MediumAtom -> IF Len(bytes) < 2 THEN Failure
                            ELSE ReadAtom(bytes, tag, HasBit(h, 16), HasBit(h, 8), 2,
                                          256 * (h % 8) + bytes[2])
       [] tag = LongAtom   -> IF Len(bytes) < 4 THEN Failure
                            ELSE ReadAtom(bytes, tag, HasBit(h, 2), HasBit(h, 1), 4,
                                          256 * (256 * bytes[2] + bytes[3]) + bytes[4])
       [] OTHER          -> Read(Control(tag), Len(bytes) - 1)

SerializeTokens(tokens) == Joined([i \in DOMAIN tokens |-> SerializeToken(tokens[i])])

\* The tokens in the last n bytes, for every n.
DeSerializeTokens(bytes) ==
  LET from[n \in 0 .. Len(bytes)] ==
        LET first == DeSerializeToken(LastOf(bytes, n))
            others == from[first.left]
        IN IF n = 0 THEN Read(<<>>, 0)
           ELSE IF first.ok /\ others.ok THEN Read(<<first.value>> \o others.value, 0)
           ELSE Failure
  IN from[Len(bytes)]

SurroundWithList(tokens) == <<Control(StartList)>> \o tokens \o <<Control(EndList)>>
UnSurroundWithList(tokens) == SubSeq(tokens, 2, Len(tokens) - 1)

-----------------------------------------------------------------------------
(* Values. *)

Empty           == [kind |-> "empty"]
Bool(b)         == [kind |-> "bool", holds |-> b]
Integer(data, sign) == [kind |-> "int", signed |-> sign, data |-> data]
UInt8(n)        == Integer(<<n>>, FALSE)
UInt16(n)       == Integer(<<n \div 256, n % 256>>, FALSE)
Bytes(data)     == [kind |-> "bytes", data |-> data]
List(items)     == [kind |-> "list", items |-> items]
Named(k, v)     == [kind |-> "named", name |-> k, value |-> v]
Command(c)      == [kind |-> "command", command |-> c]

Is(v, kind) == v.kind = kind

\* value.Get<unsigned>() of an integer, as far as TLC can count
Number(v) ==
  LET number[k \in 0 .. Len(v.data)] == IF k = 0 THEN 0 ELSE 256 * number[k - 1] + v.data[k]
  IN  number[Len(v.data)]

\* Atoms carry their bytes unseen: in the texts of ValueJson a whole word is one.
Byte == Nat

\* The lengths an atom can have, of three bytes, and those an integer can.
AtomLengths == {n \in Nat : (n \div 256) \div 256 < 256}
IntegerLengths == 1 .. 8

Scalars ==
  [kind : {"bool"}, holds : BOOLEAN]
  \union [kind : {"int"}, signed : BOOLEAN, data : {d \in Seq(Byte) : Len(d) \in IntegerLengths}]
  \union [kind : {"bytes"}, data : {d \in Seq(Byte) : Len(d) \in AtomLengths}]
  \union [kind : {"command"}, command : Commands]

\* Values made of some others, nested at most n deep.
Nested(scalars) ==
  LET values[n \in 0 .. MaxDepth] ==
        LET inner == values[n - 1]
        IN IF n = 0 THEN scalars
           ELSE inner \union [kind : {"list"}, items : Seq(inner)]
                      \union [kind : {"named"}, name : inner, value : inner]
  IN  values

\* Tokenize throws on a value that holds nothing.
Tokenizables == Nested(Scalars)
Tokenizable(v) == v \in Tokenizables[MaxDepth]

TokenizeScalar(v) ==
  CASE v.kind = "bool"    -> <<Atom(GetTag(1), FALSE, FALSE, <<Bit(v.holds, 1)>>)>>
    [] v.kind = "int"     -> <<Atom(GetTag(Len(v.data)), FALSE, v.signed, v.data)>>
    [] v.kind = "bytes"   -> <<Atom(GetTag(Len(v.data)), TRUE, FALSE, v.data)>>
    [] v.kind = "command" -> <<Control(v.command)>>

\* The tokens of the values nested at most n deep.
TokensOf ==
  LET tokens[n \in 0 .. MaxDepth] ==
        LET inner == tokens[n - 1]
        IN [v \in Tokenizables[n] |->
             CASE v.kind = "list"  ->
                    <<Control(StartList)>> \o Joined([i \in DOMAIN v.items |-> inner[v.items[i]]])
                    \o <<Control(EndList)>>
               [] v.kind = "named" ->
                    <<Control(StartName)>> \o inner[v.name] \o inner[v.value]
                    \o <<Control(EndName)>>
               [] OTHER            -> TokenizeScalar(v)]
  IN  tokens

Tokenize(v) == TokensOf[MaxDepth][v]

\* An integer of 3, or of 5 to 7 bytes becomes one of 4, or of 8, filled up
\* with zeros whatever its sign.
Widen(data) ==
  LET width == CHOOSE w \in {1, 2, 4, 8} :
                 w >= Len(data) /\ \A u \in {1, 2, 4, 8} : u >= Len(data) => w <= u
  IN [i \in 1 .. width - Len(data) |-> 0] \o data

DeTokenizeAtom(t, left) ==
  IF t.isByte
  THEN IF t.isSigned THEN Failure ELSE Read(Bytes(t.data), left)
  ELSE IF Len(t.data) \in IntegerLengths THEN Read(Integer(Widen(t.data), t.isSigned), left)
  ELSE Failure

\* The value at the first of the last n tokens, given what there is at the later ones.
ValueAt(tokens, n, later) ==
  LET t == NextOf(tokens, n)
      items == later[n - 1]["items"]
      name == later[n - 1]["value"]
      value == later[name.left]["value"]
  IN IF n = 0 THEN Read(Empty, 0)
     ELSE CASE t.tag \in Atoms    -> DeTokenizeAtom(t, n - 1)
            [] t.tag = StartList  ->
                 IF items.ok THEN Read(List(items.value), items.left) ELSE Failure
            [] t.tag = StartName  ->
                 IF /\ n > 1 /\ name.ok /\ name.left > 0
                    /\ value.ok /\ value.left > 0
                    /\ NextOf(tokens, value.left).tag = EndName
                 THEN Read(Named(name.value, value.value), value.left - 1)
                 ELSE Failure
            [] t.tag \in Commands -> Read(Command(t.tag), n - 1)
            [] OTHER              -> Failure

\* A list that ends with the tokens, for the mutant.
ItemsToTheEnd(tokens, n, later) ==
  LET next == ValueAt(tokens, n, later)
      others == later[next.left]["items"]
  IN IF n = 0 THEN Read(<<>>, 0)
     ELSE IF NextOf(tokens, n).tag = EndList THEN Read(<<>>, n - 1)
     ELSE IF next.ok /\ others.ok THEN Read(<<next.value>> \o others.value, others.left)
     ELSE Failure

\* The items of a list from there on, to its end.
ItemsAt(tokens, n, later) ==
  LET next == ValueAt(tokens, n, later)
      others == later[next.left]["items"]
  IN IF n = 0 THEN Failure
     ELSE IF NextOf(tokens, n).tag = EndList THEN Read(<<>>, n - 1)
     ELSE IF next.ok /\ others.ok THEN Read(<<next.value>> \o others.value, others.left)
     ELSE Failure

DeTokenize(tokens) ==
  LET from[n \in 0 .. Len(tokens)] ==
        LET later == from
        IN [what \in {"value", "items"} |->
             IF what = "value" THEN ValueAt(tokens, n, later) ELSE ItemsAt(tokens, n, later)]
  IN  from[Len(tokens)]["value"]

===============================================================================
