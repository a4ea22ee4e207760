---------------------------- MODULE MCConversions ----------------------------
(***************************************************************************)
(* The parts of the program that compute, in one run: com packets, method  *)
(* calls, values and JSON, discovery, names.  They share no state; each    *)
(* behaviour runs one of them, the others stay idle.                       *)
(***************************************************************************)
EXTENDS Packets, MethodCalls, MCValueJson, Discovery, Names

-----------------------------------------------------------------------------
(* Payloads of every length modulo 4, zero included.                       *)

MCPayloads == {<<>>, <<7>>, <<7, 9>>, <<5, 6, 7>>, <<1, 2, 3, 4>>}

-----------------------------------------------------------------------------
(* Calls with integers of every width read differently, bytes around the   *)
(* limits of GetTag, nested lists, names, a value that holds nothing.      *)

MCBytes(n) == [i \in 1 .. n |-> i % 200]

MCArguments ==
  { Bool(TRUE), UInt8(63), UInt16(300), Integer(<<255, 254>>, TRUE),
    Integer(<<1, 2, 3, 4, 5, 6, 7, 8>>, FALSE), Bytes(<<>>), Bytes(MCBytes(15)),
    Bytes(MCBytes(16)), Bytes(MCBytes(2047)), Bytes(MCBytes(2048)), List(<<>>),
    List(<<List(<<UInt8(1)>>), Named(UInt8(3), Bytes(<<240, 241>>))>>), Empty }

MCOptionals == { <<>>, <<Nothing, UInt16(2)>>, <<Bytes(<<9>>), Nothing>> }

MCCalls ==
  [level : {"session", "manager"}, invokingId : {<<0, 0, 8, 2, 0, 0, 0, 1>>},
   methodId : {<<0, 0, 0, 6, 0, 0, 0, 22>>},
   required : {<<>>} \union {<<v>> : v \in MCArguments} \union {<<UInt8(7), Bool(FALSE)>>},
   optional : MCOptionals, results : {0, 1}, optionalResults : {0, 2}]

\* A received integer may have 3 bytes.
MCAnswers ==
  [kind : {"answer"},
   required : {<<>>, <<UInt8(1)>>, <<Integer(<<1, 0, 2>>, FALSE)>>,
               <<List(<<Named(UInt8(5), Bool(TRUE)), List(<<>>)>>)>>},
   optional : MCOptionals, status : {0, 1, 12, 18, 63}]

-----------------------------------------------------------------------------
(* Answers of up to three features out of nine: the descriptors the        *)
(* drives of the code's tests send, a class without a module of its own,   *)
(* an unknown feature, which is empty, one cut short and one left empty.  *)

MCFeature(code, length, bits, id) ==
  [code |-> code, length |-> length, bits |-> bits, baseComId |-> id]

MCFeatures ==
  {MCFeature(TPerCode, 12, 17, 0), MCFeature(TPerCode, 12, 81, 0),
   MCFeature(LockingCode, 12, 2, 0), MCFeature(512, 16, 0, 4096), MCFeature(515, 16, 0, 8192),
   MCFeature(KeyPerIOCode, 8, 0, 12288), MCFeature(49152, 0, 0, 0), MCFeature(512, 8, 0, 4096),
   MCFeature(515, 0, 0, 8192)}

MCFeatureLists == UNION {[1..n -> MCFeatures] : n \in 1..3}

-----------------------------------------------------------------------------
(* Every UID and every name of the modules' lists, the objects at both     *)
(* ends of the numbered sequences and just outside them.                   *)

MCEdges == {0, 1, 2, 32, 33}
MCSequences == Range(AdminSequences) \union Range(LockingSequences)
MCPairs == CorePairs \union PsidPairs \union AdminPairs \union LockingPairs

MCUids == {p[1] : p \in MCPairs}
    \union {<<TableIds[s.table], s.base + i - 1>> : s \in MCSequences, i \in MCEdges}
MCNames == {p[2] : p \in MCPairs}
    \union {<<s.table, s.format, i>> : s \in MCSequences, i \in MCEdges}

-----------------------------------------------------------------------------
(* All of them.                                                            *)

PacketsIdle == input = <<>> /\ bytes = <<>> /\ rest = <<>> /\ phase = "idle" /\ com = <<>> /\ packet = <<>>
MethodsIdle ==
  /\ call = Nothing /\ answer = Nothing /\ stage = "idle"
  /\ wire = <<>> /\ heard = Nothing /\ outcome = Nothing
ValuesIdle == type = <<>> /\ value = Empty /\ json = NoJson /\ meant = Empty /\ at = "idle"
DiscoveryIdle ==
  /\ features = <<>> /\ lengthOfData = 0 /\ offset = 0 /\ step = "idle"
  /\ tperDesc = NoValue /\ lockingDesc = NoValue /\ sscDescs = <<>> /\ comId = NoValue
NamesIdle == hasCore = FALSE /\ sscs = <<>> /\ loaded = <<>> /\ query = Nothing

Init ==
  \/ PacketsInit /\ MethodsIdle /\ ValuesIdle /\ DiscoveryIdle /\ NamesIdle
  \/ MethodsInit /\ PacketsIdle /\ ValuesIdle /\ DiscoveryIdle /\ NamesIdle
  \/ ValuesInit /\ PacketsIdle /\ MethodsIdle /\ DiscoveryIdle /\ NamesIdle
  \/ DiscoveryInit /\ PacketsIdle /\ MethodsIdle /\ ValuesIdle /\ NamesIdle
  \/ NamesInit /\ PacketsIdle /\ MethodsIdle /\ ValuesIdle /\ DiscoveryIdle

vars == <<packetsVars, methodsVars, valuesVars, discoveryVars, namesVars>>

Next ==
  \/ PacketsNext /\ UNCHANGED <<methodsVars, valuesVars, discoveryVars, namesVars>>
  \/ MethodsNext /\ UNCHANGED <<packetsVars, valuesVars, discoveryVars, namesVars>>
  \/ ValuesNext /\ UNCHANGED <<packetsVars, methodsVars, discoveryVars, namesVars>>
  \/ DiscoveryNext /\ UNCHANGED <<packetsVars, methodsVars, valuesVars, namesVars>>
  \/ NamesNext /\ UNCHANGED <<packetsVars, methodsVars, valuesVars, discoveryVars>>

Spec == Init /\ [][Next]_vars

===============================================================================
