------------------------------ MODULE Discovery ------------------------------
(***************************************************************************)
(* Level 0 discovery: what TrustedPeripheral's constructor learns of a     *)
(* drive before anything else is sent to it.  The drive answers one        *)
(* receive command with a header that says how long the answer is and the  *)
(* list of its features, each with a code and the length of its payload;   *)
(* ParseTPerDesc walks that list, and the constructor then takes its ComID *)
(* from it.                                                                *)
(*                                                                         *)
(* A feature is a record: its code, the length it declares, the bit field  *)
(* that starts its payload (TPer and Locking) and its base ComID (the      *)
(* security subsystem classes).  Fields no decision depends on are left    *)
(* out.  The answer is read into a zeroed buffer larger than any answer,   *)
(* so what follows the last feature reads as features of code 0 and length *)
(* 0.                                                                      *)
(***************************************************************************)
EXTENDS Sums

CONSTANTS
    FeatureLists,    \* the lists of features a drive may have
    LengthBias, \* what drives add to the size of their features when they
                \* fill in the length of the answer
    NoValue,       \* no value
    Dynamic     \* a ComID the drive allocated on request

VARIABLES features, lengthOfData, offset, tperDesc, lockingDesc, sscDescs, step, comId

discoveryVars == <<features, lengthOfData, offset, tperDesc, lockingDesc, sscDescs, step, comId>>

TPerCode == 1
LockingCode == 2
KeyPerIOCode == 773
SscCodes == {256, 512, 515, 769, 770, 771, 772, KeyPerIOCode}

Words == 0..65535
Feature == [code : Words, length : 0..255, bits : 0..255, baseComId : Words]

TPerDescs == [comIdMgmtSupported : BOOLEAN, syncSupported : BOOLEAN]
LockingDescs ==
    [mbrSupported : BOOLEAN, mbrDone : BOOLEAN, mbrEnabled : BOOLEAN,
     locked : BOOLEAN, lockingEnabled : BOOLEAN]

FeatureHeaderSize == 4
LengthFieldSize == 4

ASSUME DiscoveryAssumption ==
    /\ FeatureLists \subseteq Seq(Feature)
    /\ LengthBias \subseteq Nat
    /\ NoValue \notin TPerDescs \union LockingDescs

NoFeature == [code |-> 0, length |-> 0, bits |-> 0, baseComId |-> 0]

\* Where the first k features end.
EndOf(k) == Sums([i \in 1 .. Len(features) |-> FeatureHeaderSize + features[i].length])[k]

\* The feature that starts at an offset of the answer: one of the drive's, or the
\* zeros after them.
FeatureAt(o) ==
    LET starting == {k \in DOMAIN features : EndOf(k - 1) = o}
    IN  IF starting = {} THEN NoFeature ELSE features[CHOOSE k \in starting : TRUE]

\* The bytes the description of a code takes from its payload; the archive throws
\* when the payload is shorter.
PayloadRead(code) ==
    CASE code \in {TPerCode, LockingCode} -> 11
      [] code = KeyPerIOCode -> 4
      [] code \in SscCodes -> 16
      [] OTHER -> 0

BitOf(byte, n) == (byte \div 2 ^ n) % 2 = 1

TPerOf(f) == [comIdMgmtSupported |-> BitOf(f.bits, 6), syncSupported |-> BitOf(f.bits, 0)]

LockingOf(f) ==
    [mbrSupported |-> ~BitOf(f.bits, 6), mbrDone |-> BitOf(f.bits, 5), mbrEnabled |-> BitOf(f.bits, 4),
     locked |-> BitOf(f.bits, 2), lockingEnabled |-> BitOf(f.bits, 1)]

SscOf(f) == [featureCode |-> f.code, baseComId |-> f.baseComId]

DiscoveryInit ==
    /\ features \in FeatureLists
    /\ \E b \in LengthBias : lengthOfData = EndOf(Len(features)) + b
    /\ offset = 0
    /\ tperDesc = NoValue
    /\ lockingDesc = NoValue
    /\ sscDescs = <<>>
    /\ step = "parsing"
    /\ comId = NoValue

\* The length is taken to count the whole header, for the mutant.
SizeLessHeader == lengthOfData - 48

\* The loop's bound: the declared length, less only the length field itself.
Size == lengthOfData - LengthFieldSize

ReadFeature ==
    LET f == FeatureAt(offset)
    IN  /\ step = "parsing"
        /\ offset < Size
        /\ f.length >= PayloadRead(f.code)
        /\ tperDesc' = IF f.code = TPerCode THEN TPerOf(f) ELSE tperDesc
        /\ lockingDesc' = IF f.code = LockingCode THEN LockingOf(f) ELSE lockingDesc
        /\ sscDescs' = IF f.code \in SscCodes THEN Append(sscDescs, SscOf(f)) ELSE sscDescs
        /\ offset' = offset + FeatureHeaderSize + f.length
        /\ UNCHANGED <<features, lengthOfData, step, comId>>

\* A payload too short for its description: the parse throws, and the constructor
\* with it.
ReadFails ==
    /\ step = "parsing"
    /\ offset < Size
    /\ FeatureAt(offset).length < PayloadRead(FeatureAt(offset).code)
    /\ step' = "failed"
    /\ UNCHANGED <<features, lengthOfData, offset, tperDesc, lockingDesc, sscDescs, comId>>

EndOfFeatures ==
    /\ step = "parsing"
    /\ offset >= Size
    /\ step' = "parsed"
    /\ UNCHANGED <<features, lengthOfData, offset, tperDesc, lockingDesc, sscDescs, comId>>

Open(id) ==
    /\ step' = "open"
    /\ comId' = id
    /\ UNCHANGED <<features, lengthOfData, offset, tperDesc, lockingDesc, sscDescs>>

\* The drive allocates a ComID, if it manages them at all.
RequestComId == step = "parsed" /\ tperDesc # NoValue /\ tperDesc.comIdMgmtSupported /\ Open(Dynamic)

\* The ComID of the last class, for the mutant.
StaticComIdOfLast ==
    /\ step = "parsed"
    /\ tperDesc # NoValue
    /\ ~tperDesc.comIdMgmtSupported
    /\ sscDescs # <<>>
    /\ Open(sscDescs[Len(sscDescs)].baseComId)

\* Otherwise the first subsystem class's base ComID is used.
StaticComId ==
    /\ step = "parsed"
    /\ tperDesc # NoValue
    /\ ~tperDesc.comIdMgmtSupported
    /\ sscDescs # <<>>
    /\ Open(sscDescs[1].baseComId)

\* Without a TPer description, without any subsystem class, or when the drive
\* refuses the allocation, the constructor throws.
OpenFails ==
    /\ step = "parsed"
    /\ tperDesc # NoValue => tperDesc.comIdMgmtSupported \/ sscDescs = <<>>
    /\ step' = "failed"
    /\ UNCHANGED <<features, lengthOfData, offset, tperDesc, lockingDesc, sscDescs, comId>>

DiscoveryNext == ReadFeature \/ ReadFails \/ EndOfFeatures \/ RequestComId \/ StaticComId \/ OpenFails

DiscoverySpec == DiscoveryInit /\ [][DiscoveryNext]_discoveryVars

-----------------------------------------------------------------------------
(* Properties *)

\* The features of some kind that are as long as their description.
Complete(codes) ==
    {k \in DOMAIN features : features[k].code \in codes
                             /\ features[k].length >= PayloadRead(features[k].code)}

\* Descriptions of just the features in K, in their order.
ListedInOrder(K) ==
    \E from \in [1 .. Len(sscDescs) -> DOMAIN features] :
        /\ {from[i] : i \in 1 .. Len(sscDescs)} = K
        /\ \A i, j \in 1 .. Len(sscDescs) : i < j => from[i] < from[j]
        /\ \A i \in 1 .. Len(sscDescs) : sscDescs[i] = SscOf(features[from[i]])

IsFirst(k, K) == k \in K /\ \A j \in K : k <= j
IsLast(k, K) == k \in K /\ \A j \in K : j <= k

\* A description is that of the last feature in K, if there is one.
IsOfLast(desc, Of(_), K) ==
    IF K = {} THEN desc = NoValue ELSE \E k \in K : IsLast(k, K) /\ desc = Of(features[k])

\* Every recognised feature of the drive is found, in its order, and nothing else is:
\* neither a length that counts only the features (the mock drive's) nor one that
\* counts the header too (the standard's, by which the walk runs on into the zeros)
\* makes the parse lose a feature or invent one (ParseTPerDesc).
FindsEveryFeature ==
    step \in {"parsed", "open"} =>
        /\ ListedInOrder(Complete(SscCodes))
        /\ IsOfLast(tperDesc, TPerOf, Complete({TPerCode}))
        /\ IsOfLast(lockingDesc, LockingOf, Complete({LockingCode}))

\* A drive is only opened with a ComID that is its own: one it allocated, which it does
\* only if it says it can, or the base ComID its own first subsystem class names
\* (TrustedPeripheral's constructor; the com packets of every later call carry it).
ComIdIsTheDrives ==
    step = "open" =>
        \E t \in Complete({TPerCode}) :
            /\ IsLast(t, Complete({TPerCode}))
            /\ IF BitOf(features[t].bits, 6) THEN comId = Dynamic
               ELSE \E k \in Complete(SscCodes) :
                       IsFirst(k, Complete(SscCodes)) /\ comId = features[k].baseComId

\* A drive is described as it is, and opened as itself.
DescribesTheDrive == FindsEveryFeature /\ ComIdIsTheDrives

=============================================================================
