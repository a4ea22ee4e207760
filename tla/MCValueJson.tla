----------------------------- MODULE MCValueJson ------------------------------
EXTENDS ValueJson

UidOf(n) == <<0, 0, 0, 5, 0, 0, 0, n>>
Uint1 == IdentifiedType(IntegerType(1, FALSE), UidOf(1))
Uint4 == IdentifiedType(IntegerType(4, FALSE), UidOf(2))
Int2  == IntegerType(2, TRUE)
Colours == (0 :> <<2000>>) @@ (3 :> <<2003>>)
Colour == EnumerationType(Colours)
Raw == IdentifiedType(BytesType, UidOf(3))
Password == IdentifiedType(BytesType, UidOf(11))
Either == AlternativeType(<<Uint4, Raw>>)
Ref == Plain("GeneralObjectTableReference")
Mixed == StructType(<<Uint1, NameValueUintegerType(0, Raw), Colour,
                      NameValueUintegerType(300, Int2)>>)

MCTypes == {Uint1, Uint4, Int2, Colour, Raw, Password, Either, Ref, Mixed, ListType(Either),
            ListType(Ref), SetType(Colours), ListType(Mixed),
            NameValueUintegerType(300, Password), Plain("SignedInt") @@ [width |-> 3, signedness |-> TRUE]}

Known == <<0, 0, 2, 5, 0, 0, 0, 1>>
Other == <<0, 0, 2, 6, 171, 0, 0, 1>>
MCNameOf == Known :> <<2100>>
MCTextUids == {UidOf(11)}

SampleNumbers(signed) == IF signed THEN {-32768, -2, 0, 255} ELSE {0, 3, 255}
SampleBytes == {<<>>, <<10>>, <<255, 0>>, <<39, 66>>, <<195, 169>>}

RECURSIVE MCStored(_)
MCStored(t) ==
  CASE Kind(t) = "Enumeration" -> {UInt8(0), UInt16(3), UInt16(700)}
    [] Kind(t) = "Integer" -> IF t.signedness THEN {Cast(n, 2, TRUE) : n \in SampleNumbers(TRUE)}
                              ELSE {Cast(n, w, FALSE) : n \in SampleNumbers(FALSE), w \in {1, 2} \cap 1..t.width}
    [] Kind(t) = "Bytes" -> {Bytes(b) : b \in SampleBytes}
    [] Kind(t) = "Alternative" ->
         UNION {{Named(Bytes(SubSeq(t.types[i].uid, 5, 8)), v) : v \in MCStored(t.types[i])} :
                i \in DOMAIN t.types}
    [] Kind(t) = "List" -> {List(<<>>)} \union {List(<<v, w>>) : v, w \in MCStored(t.element)}
    [] Kind(t) = "Struct" ->
         {List(<<a, b>> \o o) : a \in MCStored(Uint1), b \in MCStored(Colour),
                                o \in {<<>>, <<Named(UInt8(0), Bytes(<<10>>))>>,
                                       <<Named(UInt16(300), Cast(-2, 2, TRUE)), Named(UInt8(0), Bytes(<<>>))>>}}
    [] Kind(t) = "Reference" -> {Bytes(Known), Bytes(Other)}
    [] Kind(t) = "NameValue" -> {Named(UInt16(t.name), v) : v \in MCStored(t.of)}

Hex4 == <<65, 98, 39, 49, 50>>
MCTyped(t) ==
  {JNumber(0), JNumber(3), JNumber(70000), JNumber(-1), String(<<>>), String(<<2003>>), String(Hex4),
   String(<<65, 66, 67>>), String(<<226, 130, 172>>), String(<<237, 160, 128>>), String(<<70, 71>>), String(<<RefPrefix>> \o <<50, 48, 53, 39, 49>>),
   String(<<RefPrefix, 2100>>), String(<<RefPrefix>>), Array(<<>>),
   Array(<<JNumber(256), JNumber(3), Field(JNumber(300), JNumber(40000))>>),
   Array(<<Field(JNumber(0), String(Hex4)), JNumber(1), String(<<2000>>)>>),
   Array(<<JNumber(1), JNumber(1), Field(JNumber(1), JNumber(1))>>),
   Array(<<JNumber(1), JNumber(1), Field(String(<<2003>>), JNumber(1))>>),
   Object(UidToString(UidOf(2)) :> JNumber(9)),
   Object((<<RefPrefix>> \o UidToString(UidOf(2))) :> JNumber(9)),
   Object((<<RefPrefix>> \o UidToString(UidOf(9))) :> JNumber(9)),
   NameValue(JNumber(300), String(<<72, 200>>)), NameValue(JNumber(65836), String(<<72>>)),
   NameValue(JNumber(7), String(<<72>>))}
  \ (IF type_isa(t, "Integer") /\ ~t.signedness THEN {JNumber(-1)} ELSE {})
===============================================================================
