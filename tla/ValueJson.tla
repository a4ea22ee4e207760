------------------------------- MODULE ValueJson -------------------------------
(***************************************************************************)
(* A value on its way from a drive to the user and back: ValueToJSON shows *)
(* it as JSON by its column's type, the user may type something else, and  *)
(* JSONToValue reads that as the value to be written                       *)
(* (EncryptedDevice/ValueToJSON.cpp, Messaging/Type.hpp and UID.hpp).      *)
(*                                                                         *)
(* A text is the sequence of the codes of its characters; "ref:" and the   *)
(* words that are only ever compared as a whole are one character each. A  *)
(* UID is its eight bytes. An exception is Failure, whatever its message.  *)
(***************************************************************************)
EXTENDS Tokens

CONSTANTS
  Types,        \* the types of columns
  Stored(_),    \* the values a drive holds in a column of a type
  Typed(_),     \* the JSON a user types for a column of a type
  TextUids,     \* the types whose bytes are text
  NameOf        \* the names the modules know, a function on UIDs

VARIABLES type, value, json, meant, at
valuesVars == <<type, value, json, meant, at>>

Ok(v) == [ok |-> TRUE, value |-> v]

-----------------------------------------------------------------------------
(* Types: which class is derived from which, and what an object of it is. *)

ConcreteTypes ==
  [c \in {"UnsignedInt", "SignedInt"} |-> "Integer"]
  @@ [c \in {"CappedBytes", "FixedBytes"} |-> "Bytes"]
CompoundTypes == ("Enumeration" :> "UnsignedInt") @@ ("Set" :> "List")
ReferenceTypes ==
  [c \in {"RestrictedReference", "GeneralReference"} |-> "Reference"]
  @@ [c \in {"RestrictedByteReference", "RestrictedObjectReference"} |-> "RestrictedReference"]
  @@ [c \in {"GeneralByteReference", "GeneralObjectReference", "GeneralTableReference"}
        |-> "GeneralReference"]
  @@ [c \in {"GeneralByteTableReference", "GeneralObjectTableReference"}
        |-> "GeneralTableReference"]
Base == ConcreteTypes @@ CompoundTypes @@ ReferenceTypes

RECURSIVE Derives(_, _)
Derives(class, base) ==
  class = base \/ (class \in DOMAIN Base /\ Derives(Base[class], base))
type_isa(t, class) == Derives(t.class, class)

NoUid == <<>>
Plain(class) == [class |-> class, uid |-> NoUid]
IdentifiedType(t, uid) == [t EXCEPT !.uid = uid]
type_uid(t) == t.uid

IntegerType(width, signedness) ==
  Plain("Integer") @@ [width |-> width, signedness |-> signedness]
BytesType == Plain("Bytes")
EnumerationType(names) ==
  Plain("Enumeration") @@ [width |-> 2, signedness |-> FALSE, byValue |-> names]
AlternativeType(types) == Plain("Alternative") @@ [types |-> types]
ListType(element) == Plain("List") @@ [element |-> element]
SetType(names) == Plain("Set") @@ [element |-> EnumerationType(names)]
StructType(elements) == Plain("Struct") @@ [elements |-> elements]
NameValueUintegerType(name, t) == Plain("NameValue") @@ [name |-> name, of |-> t]

\* What Convert tries, in this order: an enumeration is an integer, too.
Dispatch == <<"Enumeration", "Integer", "Bytes", "Alternative", "List", "Struct",
              "Reference", "NameValue">>
Kind(t) == Dispatch[SelectInSeq(Dispatch, LAMBDA class : type_isa(t, class))]

-----------------------------------------------------------------------------
(* JSON, texts, numbers and UIDs. *)

String(text)    == [json |-> "string", text |-> text]
JNumber(n)      == [json |-> "number", number |-> n]
Array(items)    == [json |-> "array", items |-> items]
Object(members) == [json |-> "object", members |-> members]

RefPrefix == 1000
FieldKey  == <<1001>>
ValueKey  == <<1002>>
NameKey   == <<1003>>
Quote     == 39

Field(key, v)     == Object((FieldKey :> key) @@ (ValueKey :> v))
NameValue(key, v) == Object((NameKey :> key) @@ (ValueKey :> v))
HasKeys(j, keys) == j.json = "object" /\ keys \subseteq DOMAIN j.members

HexDigit(n) == IF n < 10 THEN 48 + n ELSE 55 + n
HexDigits == 48..57 \union 65..70 \union 97..102
DigitOf(c) == CASE c <= 57 -> c - 48 [] c <= 70 -> c - 55 [] OTHER -> c - 87
Hex(b) == <<HexDigit(b \div 16), HexDigit(b % 16)>>
Unhex(text) == 16 * DigitOf(text[1]) + DigitOf(text[2])

ByteAt(n, k) == IF k < 4 THEN (n \div 256^k) % 256 ELSE IF n < 0 THEN 255 ELSE 0

\* Cut off at one byte, for the mutant.
CastNarrow(n, width, signed) == Integer(<<n % 256>>, signed)

\* The number as an integer of so many bytes, or of eight for an odd width;
\* what does not fit is cut off.
Cast(n, width, signed) ==
  LET w == IF width \in {1, 2, 4} THEN width ELSE 8
  IN Integer([i \in 1..w |-> ByteAt(n, w - i)], signed)

NumberOf(v) ==
  LET first == IF v.signed /\ v.data[1] >= 128 THEN v.data[1] - 256 ELSE v.data[1]
  IN FoldLeft(LAMBDA n, b : 256 * n + b, first, Tail(v.data))

UidToString(uid) ==
  FlattenSeq([i \in 1..8 |-> Hex(uid[i]) \o (IF i \in {2, 4, 6} THEN <<Quote>> ELSE <<>>)])

\* The separators are not taken out, for the mutant.
UidParseDigits(text) ==
  IF Len(text) # 16 \/ ~(ToSet(text) \subseteq HexDigits) THEN Failure
  ELSE Ok([i \in 1..8 |-> Unhex(SubSeq(text, 2 * i - 1, 2 * i))])

\* Of what stoull skips in front of the digits (a blank, a sign, 0x) nothing is typed.
UidParse(text) ==
  LET digits == SelectSeq(text, LAMBDA c : c # Quote)
      padded == [i \in 1 .. 16 - Len(digits) |-> 48] \o digits
  IN IF digits = <<>> \/ Len(digits) > 16 \/ ~(ToSet(digits) \subseteq HexDigits)
     THEN Failure
     ELSE Ok([i \in 1..8 |-> Unhex(SubSeq(padded, 2 * i - 1, 2 * i))])

\* How many bytes a UTF-8 character has that begins with b; a word is whole.
\* 0 if none begins like that.
Utf8Length(b) ==
  CASE b < 128 \/ b >= RefPrefix -> 1
    [] b \in 194..223 -> 2
    [] b \in 224..239 -> 3
    [] b \in 240..244 -> 4
    [] OTHER -> 0

\* The second byte, where the first rules out overlong forms, surrogates and
\* what is beyond Unicode; all bytes after it
Utf8Second(b) ==
  CASE b = 224 -> 160..191 [] b = 237 -> 128..159 [] b = 240 -> 144..191
    [] b = 244 -> 128..143 [] OTHER -> 128..191
Utf8Character(s) ==
  /\ Len(s) = Utf8Length(s[1])
  /\ Len(s) > 1 => s[2] \in Utf8Second(s[1])
  /\ \A i \in 3..Len(s) : s[i] \in 128..191

IsUtf8(text) ==
  LET from[i \in 1 .. Len(text) + 4] ==
        \/ i = Len(text) + 1
        \/ /\ i <= Len(text)
           /\ LET next == i + Utf8Length(text[i])
              IN /\ next \in i + 1 .. Len(text) + 1
                 /\ Utf8Character(SubSeq(text, i, next - 1)) /\ from[next]
  IN from[1]

\* Every text of a JSON, keys included
RECURSIVE TextsOf(_)
TextsOf(j) ==
  CASE j.json = "string" -> {j.text}
    [] j.json = "array"  -> UNION {TextsOf(j.items[i]) : i \in DOMAIN j.items}
    [] j.json = "object" -> UNION {{key} \union TextsOf(j.members[key]) : key \in DOMAIN j.members}
    [] OTHER -> {}

\* What dump writes and parse reads: both throw on other text.
Strict(j) == \A text \in TextsOf(j) : IsUtf8(text)

InterpretAsString(t) == type_uid(t) \in TextUids

BytesToJSON(bytes, asString) ==
  String(IF asString THEN bytes
         ELSE FlattenSeq([i \in DOMAIN bytes |->
                Hex(bytes[i]) \o (IF i < Len(bytes) THEN <<Quote>> ELSE <<>>)]))

\* Separators may stand anywhere between two bytes, or be left out.
RECURSIVE HexToBytes(_, _)
HexToBytes(text, bytes) ==
  CASE text = <<>>         -> Ok(Bytes(bytes))
    [] text # <<>> /\ Head(text) = Quote -> HexToBytes(Tail(text), bytes)
    [] OTHER -> IF Len(text) < 2 \/ ~({text[1], text[2]} \subseteq HexDigits) THEN Failure
                ELSE HexToBytes(SubSeq(text, 3, Len(text)), Append(bytes, Unhex(text)))
JSONToBytes(j, asString) ==
  CASE j.json # "string" -> Failure
    [] asString          -> Ok(Bytes(j.text))
    [] OTHER             -> HexToBytes(j.text, <<>>)

-----------------------------------------------------------------------------
(* Both ways through structured types. *)

\* An array or a list of all of them, or the exception of one of them
AllOk(results, of) ==
  IF \A i \in DOMAIN results : results[i].ok
  THEN Ok([of EXCEPT !.items = [i \in DOMAIN results |-> results[i].value]]) ELSE Failure

IsNamed(v) == Is(v, "named")
IsOptionalField(j) == HasKeys(j, {FieldKey, ValueKey})
IsOptionalType(t) == type_isa(t, "NameValue")

\* ReduceStructType
MandatoryFields(t) == SelectSeq(t.elements, LAMBDA e : ~IsOptionalType(e))
OptionalFields(t, key) ==
  {t.elements[i].of : i \in {k \in DOMAIN t.elements :
                               IsOptionalType(t.elements[k]) /\ t.elements[k].name = key}}

Identified(uid, alternatives) == {i \in DOMAIN alternatives : type_uid(alternatives[i]) = uid}
TypeUid(half) == <<0, 0, 0, 5>> \o half

RECURSIVE ValueToJSON(_, _), JSONToValue(_, _)

ReferenceToJSON(uid) ==
  String(<<RefPrefix>> \o (IF uid \in DOMAIN NameOf THEN NameOf[uid] ELSE UidToString(uid)))

AlternativeToJSON(v, t) ==
  LET uid == TypeUid(v.name.data)
      chosen == Identified(uid, t.types)
      shown == ValueToJSON(v.value, t.types[Min(chosen)])
  IN IF ~IsNamed(v) \/ ~Is(v.name, "bytes") \/ chosen = {} \/ ~shown.ok THEN Failure
     ELSE Ok(Object(ReferenceToJSON(uid).text :> shown.value))

StructToJSON(v, t) ==
  LET mandatory == SelectSeq(v.items, LAMBDA e : ~IsNamed(e))
      optional == SelectSeq(v.items, IsNamed)
      types == MandatoryFields(t)
      ShowOptional(e) ==
        LET key == NumberOf(e.name)
            shown == ValueToJSON(e.value, CHOOSE o \in OptionalFields(t, key) : TRUE)
        IN IF ~Is(e.name, "int") \/ OptionalFields(t, key) = {} \/ ~shown.ok THEN Failure
           ELSE Ok(Field(JNumber(key), shown.value))
  IN IF ~Is(v, "list") \/ Len(mandatory) # Len(types) THEN Failure
     ELSE AllOk([i \in DOMAIN types |-> ValueToJSON(mandatory[i], types[i])]
                \o [i \in DOMAIN optional |-> ShowOptional(optional[i])], Array(<<>>))

NameValueToJSON(v, t) ==
  LET shown == ValueToJSON(v.value, t.of)
  IN IF ~IsNamed(v) \/ ~Is(v.name, "int") \/ NumberOf(v.name) % 65536 # t.name \/ ~shown.ok
     THEN Failure ELSE Ok(NameValue(JNumber(t.name), shown.value))

EnumerationToJSON(n, t) ==
  IF n \in DOMAIN t.byValue THEN String(t.byValue[n]) ELSE JNumber(n)

ValueToJSON(v, t) ==
  CASE Kind(t) = "Enumeration" ->
         IF Is(v, "int") THEN Ok(EnumerationToJSON(NumberOf(v) % 65536, t)) ELSE Failure
    [] Kind(t) = "Integer" ->
         IF Is(v, "int") THEN Ok(JNumber(NumberOf(v))) ELSE Failure
    [] Kind(t) = "Bytes" ->
         IF Is(v, "bytes") THEN Ok(BytesToJSON(v.data, InterpretAsString(t))) ELSE Failure
    [] Kind(t) = "Alternative" -> AlternativeToJSON(v, t)
    [] Kind(t) = "List" ->
         IF Is(v, "list")
         THEN AllOk([i \in DOMAIN v.items |-> ValueToJSON(v.items[i], t.element)], Array(<<>>))
         ELSE Failure
    [] Kind(t) = "Struct" -> StructToJSON(v, t)
    [] Kind(t) = "Reference" ->
         IF Is(v, "bytes") /\ Len(v.data) = 8 THEN Ok(ReferenceToJSON(v.data)) ELSE Failure
    [] Kind(t) = "NameValue" -> NameValueToJSON(v, t)

JSONToReference(j) ==
  LET named == {uid \in DOMAIN NameOf : NameOf[uid] = Tail(j.text)}
      parsed == UidParse(Tail(j.text))
  IN CASE j.json # "string" -> Failure
       [] j.json = "string" /\ (j.text = <<>> \/ Head(j.text) # RefPrefix) -> Failure
       [] OTHER -> IF named # {} THEN Ok(Bytes(CHOOSE uid \in named : TRUE))
                   ELSE IF parsed.ok THEN Ok(Bytes(parsed.value)) ELSE Failure

JSONToAlternative(j, t) ==
  LET key == CHOOSE k \in DOMAIN j.members : TRUE
      uid == JSONToReference(String(key))
      chosen == Identified(uid.value.data, t.types)
      entered == JSONToValue(j.members[key], t.types[Min(chosen)])
  IN IF j.json # "object" \/ ~uid.ok \/ chosen = {} \/ ~entered.ok THEN Failure
     ELSE Ok(Named(Bytes(SubSeq(uid.value.data, 5, 8)), entered.value))

JSONToStruct(j, t) ==
  LET mandatory == SelectSeq(j.items, LAMBDA e : ~IsOptionalField(e))
      optional == SelectSeq(j.items, IsOptionalField)
      types == MandatoryFields(t)
      EnterOptional(e) ==
        LET key == e.members[FieldKey].number
            entered == JSONToValue(e.members[ValueKey],
                                   CHOOSE o \in OptionalFields(t, key) : TRUE)
        IN IF e.members[FieldKey].json # "number" \/ OptionalFields(t, key) = {} \/ ~entered.ok
           THEN Failure ELSE Ok(Named(Cast(key, 2, FALSE), entered.value))
  IN IF j.json # "array" \/ Len(mandatory) # Len(types) THEN Failure
     ELSE AllOk([i \in DOMAIN types |-> JSONToValue(mandatory[i], types[i])]
                \o [i \in DOMAIN optional |-> EnterOptional(optional[i])], List(<<>>))

JSONToNameValue(j, t) ==
  LET name == j.members[NameKey]
      entered == JSONToValue(j.members[ValueKey], t.of)
  IN IF ~HasKeys(j, {NameKey, ValueKey}) \/ name.json # "number" \/ ~entered.ok
        \/ name.number % 65536 # t.name
     THEN Failure ELSE Ok(Named(Cast(t.name, 2, FALSE), entered.value))

JSONToEnumeration(j, t) ==
  LET named == {n \in DOMAIN t.byValue : t.byValue[n] = j.text}
  IN CASE j.json = "number" -> Ok(Cast(j.number, 2, FALSE))
       [] j.json = "string" -> IF named = {} THEN Failure ELSE Ok(Cast(Min(named), 2, FALSE))
       [] OTHER -> Failure

JSONToValue(j, t) ==
  CASE Kind(t) = "Enumeration" -> JSONToEnumeration(j, t)
    [] Kind(t) = "Integer" ->
         IF j.json = "number" THEN Ok(Cast(j.number, t.width, t.signedness)) ELSE Failure
    [] Kind(t) = "Bytes" -> JSONToBytes(j, InterpretAsString(t))
    [] Kind(t) = "Alternative" -> JSONToAlternative(j, t)
    [] Kind(t) = "List" ->
         IF j.json = "array"
         THEN AllOk([i \in DOMAIN j.items |-> JSONToValue(j.items[i], t.element)], List(<<>>))
         ELSE Failure
    [] Kind(t) = "Struct" -> JSONToStruct(j, t)
    [] Kind(t) = "Reference" -> JSONToReference(j)
    [] Kind(t) = "NameValue" -> JSONToNameValue(j, t)

-----------------------------------------------------------------------------
(* The round trip. *)

NoJson == [json |-> "none"]

\* What a value says, however wide its integers are
RECURSIVE Meaning(_)
Meaning(v) ==
  CASE Is(v, "int")   -> JNumber(NumberOf(v))
    [] Is(v, "list")  -> List([i \in DOMAIN v.items |-> Meaning(v.items[i])])
    [] Is(v, "named") -> Named(Meaning(v.name), Meaning(v.value))
    [] OTHER          -> v

ValuesInit ==
  /\ type \in Types
  /\ value \in Stored(type) /\ meant = Meaning(value)
  /\ json = NoJson /\ at = "drive"

\* Bytes that are no text are shown all the same, for the mutant.
RenderLax == ValueToJSON(value, type)

\* ValueToJSON and dump
Render ==
  LET shown == ValueToJSON(value, type)
  IN IF shown.ok /\ Strict(shown.value) THEN shown ELSE Failure

\* Whatever bytes are typed are read, for the mutant.
ParseLax == JSONToValue(json, type)

\* parse and JSONToValue
Parse == IF Strict(json) THEN JSONToValue(json, type) ELSE Failure

\* A get, as after every set. In place of what cannot be shown there is an error.
Show ==
  /\ at = "drive"
  /\ LET shown == Render
     IN IF shown.ok THEN json' = shown.value /\ at' = "screen"
        ELSE json' = NoJson /\ at' = "unreadable"
  /\ UNCHANGED <<type, value, meant>>

\* The user types something else, even if he has been shown nothing, or sends
\* what is shown.
Edit ==
  /\ at \in {"screen", "unreadable"}
  /\ json' \in Typed(type) /\ at' = "edited"
  /\ UNCHANGED <<type, value, meant>>
Keep == at = "screen" /\ at' = "kept" /\ UNCHANGED <<type, value, json, meant>>

\* A set: over the tokens to the drive, which stores what it gets. What
\* cannot be read is reported, and nothing is sent.
Write ==
  /\ at \in {"edited", "kept"}
  /\ LET entered == Parse
     IN IF entered.ok
        THEN /\ value' = DeTokenize(Tokenize(entered.value)).value
             /\ meant' = IF at = "edited" THEN Meaning(entered.value) ELSE meant
             /\ at' = "drive"
        ELSE /\ at' = IF at = "edited" THEN "drive" ELSE "refused"
             /\ UNCHANGED <<value, meant>>
  /\ UNCHANGED <<type, json>>

ValuesNext == Show \/ Edit \/ Keep \/ Write
ValuesSpec == ValuesInit /\ [][ValuesNext]_valuesVars

-----------------------------------------------------------------------------
\* Showing a value and sending back what is shown changes nothing: the drive
\* holds what it held, or what the user's text was read as, through every
\* number of gets and sets, over JSON and over the tokens.
Kept == at = "drive" => Meaning(value) = meant

\* The bytes in a value that its type says are text
RECURSIVE TextsIn(_, _)
TextsIn(v, t) ==
  CASE Kind(t) = "Bytes"       -> IF InterpretAsString(t) THEN {v.data} ELSE {}
    [] Kind(t) = "Alternative" ->
         TextsIn(v.value, t.types[Min(Identified(TypeUid(v.name.data), t.types))])
    [] Kind(t) = "List"        -> UNION {TextsIn(v.items[i], t.element) : i \in DOMAIN v.items}
    [] Kind(t) = "Struct"      ->
         LET mandatory == SelectSeq(v.items, LAMBDA e : ~IsNamed(e))
         IN UNION {TextsIn(mandatory[i], MandatoryFields(t)[i]) : i \in DOMAIN mandatory}
            \union UNION {UNION {TextsIn(e.value, o) : o \in OptionalFields(t, NumberOf(e.name))} :
                            e \in {item \in ToSet(v.items) : IsNamed(item)}}
    [] Kind(t) = "NameValue"   -> TextsIn(v.value, t.of)
    [] OTHER -> {}

\* Whatever was accepted from the user can be shown, and so can whatever a
\* drive sends by its column's type, unless it has bytes for text that are not
\* UTF-8, as a password may; and whatever is shown can be sent back.
Readable ==
  /\ at # "refused"
  /\ at = "unreadable" =>
       value \in Stored(type) /\ \E text \in TextsIn(value, type) : ~IsUtf8(text)

\* What is shown can be sent back, and sending it back changes nothing.
Editable == Kept /\ Readable

===============================================================================
