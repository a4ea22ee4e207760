-------------------------- MODULE Conversions_proofs --------------------------
(***************************************************************************)
(* Proofs about the parts of the program that compute.                     *)
(*                                                                         *)
(* Discovery: for every list of features and every length that counts at   *)
(* least the features, the drive is described as it is.  The walk over the *)
(* answer is followed by the number n of features it has read: they end    *)
(* where the walk stands, unless it is in the zeros behind all of them.    *)
(*                                                                         *)
(* Com packets: for any payloads, session numbers and numbers of packets   *)
(* whose lengths fit their fields, a com packet in which only the end is   *)
(* padded is loaded as it was saved.  As long as something remains to be   *)
(* loaded, what is left to read is what was saved of it.                   *)
(*                                                                         *)
(* Names: whatever is looked up, in the modules of whatever drive, an      *)
(* object shown by a name is the object the name stands for.  Each module  *)
(* answers from its lists; that the lists agree is an assumption about     *)
(* them, and all that is needed of them.                                   *)
(***************************************************************************)
EXTENDS Discovery, Packets, Names, SequenceTheorems, FiniteSets, FiniteSetTheorems, TLAPS

-----------------------------------------------------------------------------
(***************************************************************************)
(* Induction and recursion                                                 *)
(***************************************************************************)

\* A set that holds 0, and with every number the next, holds all of them: were x the
\* first number outside it, adding one would map the numbers below x that are in it
\* into themselves without 0, and a finite set has no room for that.
LEMMA SetInduction ==
  ASSUME NEW S, 0 \in S, \A n \in Nat : n \in S => n + 1 \in S
  PROVE  Nat \subseteq S
<1> SUFFICES ASSUME NEW x \in Nat, x \notin S  PROVE FALSE
  OBVIOUS
<1> DEFINE U == {i \in 0 .. x : i \in S}
           g == [i \in U |-> i + 1]
<1>1. IsFiniteSet(U)
  BY FS_Interval, FS_Subset, x \in Int, 0 \in Int
<1>2. 0 \in U /\ \A i \in U : i + 1 \in U \ {0}
  OBVIOUS
<1>3. g \in Injection(U, U \ {0})
  BY <1>2 DEF Injection, IsInjective
<1>4. IsFiniteSet(U \ {0}) /\ Cardinality(U \ {0}) = Cardinality(U) - 1
  <2> HIDE DEF U
  <2> QED BY <1>1, <1>2, FS_RemoveElement
<1>5. Cardinality(U) <= Cardinality(U \ {0})
  <2> HIDE DEF U, g
  <2> QED BY <1>3, <1>4, FS_Injection
<1>6. Cardinality(U) \in Nat
  <2> HIDE DEF U, g
  <2> QED BY <1>1, FS_CardinalityType
<1> QED
  <2> HIDE DEF U
  <2> QED BY <1>4, <1>5, <1>6

\* A function on 0 .. n that starts with base and makes each value by a rule from the value before.
IsRecursive(f, n, T, base, rule) ==
  f \in [0 .. n -> T] /\ f[0] = base /\ \A k \in 1 .. n : f[k] = rule[k][f[k - 1]]

\* There is one for every base and all rules.
LEMMA RecursiveFunction ==
  ASSUME NEW n \in Nat, NEW T, NEW base \in T, NEW rule \in [1 .. n -> [T -> T]]
  PROVE  \E f : IsRecursive(f, n, T, base, rule)
<1> DEFINE S == {m \in Nat : m <= n => \E f : IsRecursive(f, m, T, base, rule)}
<1>1. 0 \in S
  <2> DEFINE f == [k \in 0 .. 0 |-> base]
  <2>1. IsRecursive(f, 0, T, base, rule)
    BY DEF IsRecursive
  <2> QED BY <2>1
<1>2. ASSUME NEW m \in Nat, m \in S  PROVE m + 1 \in S
  <2> SUFFICES ASSUME m + 1 <= n  PROVE \E f : IsRecursive(f, m + 1, T, base, rule)
    OBVIOUS
  <2>1. PICK f : IsRecursive(f, m, T, base, rule)
    BY <1>2
  <2> DEFINE g == [k \in 0 .. m + 1 |-> IF k = m + 1 THEN rule[m + 1][f[m]] ELSE f[k]]
  <2>2. f[m] \in T /\ m + 1 \in 1 .. n
    BY <2>1 DEF IsRecursive
  <2>3. rule[m + 1][f[m]] \in T
    BY <2>2
  <2>4. g \in [0 .. m + 1 -> T] /\ g[0] = base
    BY <2>1, <2>3 DEF IsRecursive
  <2>5. ASSUME NEW k \in 1 .. m + 1  PROVE g[k] = rule[k][g[k - 1]]
    <3>1. CASE k = m + 1
      BY <3>1
    <3>2. CASE k # m + 1
      <4>1. k \in 1 .. m /\ k - 1 \in 0 .. m
        BY <3>2
      <4>2. g[k] = f[k] /\ g[k - 1] = f[k - 1]
        BY <4>1
      <4> QED BY <2>1, <4>1, <4>2 DEF IsRecursive
    <3> QED BY <3>1, <3>2
  <2>6. IsRecursive(g, m + 1, T, base, rule)
    BY <2>4, <2>5 DEF IsRecursive
  <2> QED BY <2>6
<1>3. n \in S
  <2> HIDE DEF S
  <2> QED BY <1>1, <1>2, SetInduction
<1> QED BY <1>3

\* Running totals exist.
LEMMA RunningTotals ==
  ASSUME NEW n \in Nat, NEW a \in [1 .. n -> Nat]
  PROVE  \E f \in [0 .. n -> Nat] : f[0] = 0 /\ \A k \in 1 .. n : f[k] = f[k - 1] + a[k]
<1> DEFINE rule == [k \in 1 .. n |-> [t \in Nat |-> t + a[k]]]
<1>1. rule \in [1 .. n -> [Nat -> Nat]] /\ 0 \in Nat
  OBVIOUS
<1>2. PICK f : IsRecursive(f, n, Nat, 0, rule)
  <2> HIDE DEF rule
  <2> QED BY <1>1, RecursiveFunction
<1>3. ASSUME NEW k \in 1 .. n  PROVE f[k] = f[k - 1] + a[k]
  <2>1. f[k - 1] \in Nat
    BY <1>2 DEF IsRecursive
  <2> QED BY <1>2, <2>1 DEF IsRecursive
<1> QED BY <1>2, <1>3 DEF IsRecursive

\* Running totals begin with 0 and grow by one number at a time.
LEMMA SumsFacts ==
  ASSUME NEW ns \in Seq(Nat)
  PROVE  /\ Sums(ns) \in [0 .. Len(ns) -> Nat]
         /\ Sums(ns)[0] = 0
         /\ \A k \in 1 .. Len(ns) : Sums(ns)[k] = Sums(ns)[k - 1] + ns[k]
<1>1. PICK n \in Nat : n = Len(ns)
  OBVIOUS
<1>2. ns \in [1 .. n -> Nat]
  BY <1>1
<1>3. PICK f \in [0 .. n -> Nat] : f[0] = 0 /\ \A k \in 1 .. n : f[k] = f[k - 1] + ns[k]
  BY <1>2, RunningTotals
<1>4. f = [k \in 0 .. n |-> IF k = 0 THEN 0 ELSE f[k - 1] + ns[k]]
  BY <1>3
<1>5. PICK s : s = Sums(ns)
  OBVIOUS
<1>6. s = [k \in 0 .. n |-> IF k = 0 THEN 0 ELSE s[k - 1] + ns[k]]
  BY <1>1, <1>4, <1>5 DEF Sums
<1>7. s[0] = 0 /\ \A k \in 1 .. n : s[k] = s[k - 1] + ns[k]
  BY <1>6
<1> DEFINE I == {k \in Nat : k <= n => s[k] \in Nat}
<1>8. Nat \subseteq I
  <2>1. 0 \in I
    BY <1>7
  <2>2. ASSUME NEW k \in Nat, k \in I  PROVE k + 1 \in I
    <3> SUFFICES ASSUME k + 1 <= n  PROVE s[k + 1] \in Nat
      OBVIOUS
    <3>1. k + 1 \in 1 .. n /\ (k + 1) - 1 = k
      OBVIOUS
    <3>2. s[k + 1] = s[k] + ns[k + 1]
      BY <1>7, <3>1
    <3>3. s[k] \in Nat /\ ns[k + 1] \in Nat
      BY <2>2, <1>2, <3>1
    <3> QED BY <3>2, <3>3
  <2> HIDE DEF I
  <2> QED BY <2>1, <2>2, SetInduction
<1>9. s \in [0 .. n -> Nat]
  <2>1. ASSUME NEW k \in 0 .. n  PROVE s[k] \in Nat
    BY <1>8
  <2>2. s = [k \in 0 .. n |-> s[k]]
    BY <1>6
  <2> QED BY <2>1, <2>2
<1> QED BY <1>1, <1>5, <1>7, <1>9

\* They never fall: what ends first is not after what ends later.
LEMMA SumsMonotone ==
  ASSUME NEW ns \in Seq(Nat), NEW i \in 0 .. Len(ns), NEW j \in i .. Len(ns)
  PROVE  Sums(ns)[i] <= Sums(ns)[j]
<1>1. PICK n \in Nat : n = Len(ns)
  OBVIOUS
<1>2. PICK s \in [0 .. n -> Nat] : s = Sums(ns)
  BY <1>1, SumsFacts
<1>3. \A k \in 1 .. n : s[k] = s[k - 1] + ns[k]
  BY <1>1, <1>2, SumsFacts
<1> DEFINE I == {d \in Nat : i + d <= n => s[i] <= s[i + d]}
<1>4. 0 \in I
  BY <1>1
<1>5. ASSUME NEW d \in Nat, d \in I  PROVE d + 1 \in I
  <2> SUFFICES ASSUME i + (d + 1) <= n  PROVE s[i] <= s[i + (d + 1)]
    OBVIOUS
  <2>1. i + (d + 1) \in 1 .. n /\ (i + (d + 1)) - 1 = i + d /\ i + d \in 0 .. n /\ i \in 0 .. n
    BY <1>1
  <2>2. s[i + (d + 1)] = s[i + d] + ns[i + (d + 1)] /\ ns[i + (d + 1)] \in Nat
    BY <1>1, <1>3, <2>1
  <2>3. s[i] <= s[i + d] /\ s[i] \in Nat /\ s[i + d] \in Nat
    BY <1>5, <2>1
  <2> QED BY <2>2, <2>3
<1>6. j - i \in I
  <2> HIDE DEF I
  <2>1. Nat \subseteq I
    BY <1>4, <1>5, SetInduction
  <2>2. j - i \in Nat
    BY <1>1
  <2> QED BY <2>1, <2>2
<1>7. i + (j - i) = j /\ j <= n
  BY <1>1
<1> QED BY <1>1, <1>2, <1>6, <1>7

\* Each is at most their total.
LEMMA SumBounds ==
  ASSUME NEW ns \in Seq(Nat), NEW k \in 1 .. Len(ns)
  PROVE  ns[k] <= Total(ns)
<1>1. Len(ns) \in Nat /\ k \in 0 .. Len(ns) /\ Len(ns) \in k .. Len(ns) /\ k - 1 \in 0 .. Len(ns)
  OBVIOUS
<1>2. Sums(ns)[k] <= Sums(ns)[Len(ns)]
  BY <1>1, SumsMonotone
<1>3. Sums(ns)[k] = Sums(ns)[k - 1] + ns[k] /\ Sums(ns)[k - 1] \in Nat
  BY <1>1, SumsFacts
<1>4. Len(ns) \in 0 .. Len(ns)
  BY <1>1
<1>5. Sums(ns)[Len(ns)] \in Nat
  BY <1>4, SumsFacts
<1>6. ns[k] \in Nat
  OBVIOUS
<1> QED BY <1>2, <1>3, <1>5, <1>6 DEF Total

\* Before what takes room the total is not reached.
LEMMA SumsNext ==
  ASSUME NEW ns \in Seq(Nat), NEW k \in Nat, k < Len(ns)
  PROVE  /\ Sums(ns)[k] \in Nat /\ Total(ns) \in Nat
         /\ Sums(ns)[k + 1] = Sums(ns)[k] + ns[k + 1]
         /\ 0 < ns[k + 1] => Sums(ns)[k] < Total(ns)
<1>1. PICK n \in Nat : n = Len(ns)
  OBVIOUS
<1>2. PICK s \in [0 .. n -> Nat] : s = Sums(ns)
  BY <1>1, SumsFacts
<1>3. k + 1 \in 1 .. n /\ k + 1 \in 0 .. n /\ k \in 0 .. n /\ n \in k + 1 .. n /\ n \in 0 .. n
      /\ (k + 1) - 1 = k
  BY <1>1
<1>4. s[k] \in Nat /\ s[k + 1] \in Nat /\ s[n] \in Nat
  BY <1>3
<1>5. s[k + 1] = s[k] + ns[k + 1]
  BY <1>1, <1>2, <1>3, SumsFacts
<1>6. s[k + 1] <= s[n]
  BY <1>1, <1>2, <1>3, SumsMonotone
<1>7. ns[k + 1] \in Nat
  BY <1>1, <1>3
<1>8. 0 < ns[k + 1] => s[k] < s[n]
  BY <1>4, <1>5, <1>6, <1>7
<1> QED BY <1>1, <1>2, <1>4, <1>5, <1>8 DEF Total

\* What is laid out from the k-th piece on begins with that piece.
LEMMA FromFacts ==
  ASSUME NEW S, NEW ss \in Seq(Seq(S))
  PROVE  /\ From(ss) \in [1 .. Len(ss) + 1 -> Seq(S)]
         /\ From(ss)[Len(ss) + 1] = <<>>
         /\ \A k \in 1 .. Len(ss) : From(ss)[k] = ss[k] \o From(ss)[k + 1]
<1>1. PICK n \in Nat : n = Len(ss)
  OBVIOUS
<1>2. PICK T : T = Seq(S)
  OBVIOUS
<1>3. ss \in [1 .. n -> T]
  BY <1>1, <1>2
<1>4. <<>> \in T /\ \A s, t \in T : s \o t \in T
  BY <1>2
<1> DEFINE rule == [j \in 1 .. n |-> [t \in T |-> ss[n + 1 - j] \o t]]
<1>5. rule \in [1 .. n -> [T -> T]]
  BY <1>3, <1>4
<1>6. PICK g : IsRecursive(g, n, T, <<>>, rule)
  <2> HIDE DEF rule
  <2> QED BY <1>4, <1>5, RecursiveFunction
<1> DEFINE f == [k \in 1 .. n + 1 |-> g[n + 1 - k]]
<1>7. f = [k \in 1 .. n + 1 |-> IF k = n + 1 THEN <<>> ELSE ss[k] \o f[k + 1]]
  <2>1. ASSUME NEW k \in 1 .. n + 1
        PROVE  f[k] = IF k = n + 1 THEN <<>> ELSE ss[k] \o f[k + 1]
    <3>1. CASE k = n + 1
      BY <1>6, <3>1 DEF IsRecursive
    <3>2. CASE k # n + 1
      <4>1. PICK j \in 1 .. n : j = n + 1 - k
        BY <3>2
      <4>2. k = n + 1 - j /\ j - 1 = n + 1 - (k + 1) /\ k + 1 \in 1 .. n + 1 /\ j - 1 \in 0 .. n
        BY <3>2, <4>1
      <4>3. f[k] = g[j] /\ f[k + 1] = g[j - 1]
        BY <4>1, <4>2
      <4>4. g[j - 1] \in T /\ g[j] = rule[j][g[j - 1]]
        BY <1>6, <4>2 DEF IsRecursive
      <4>5. g[j] = ss[k] \o g[j - 1]
        BY <4>2, <4>4
      <4> QED BY <3>2, <4>3, <4>5
    <3> QED BY <3>1, <3>2
  <2> QED BY <2>1
<1>8. PICK h : h = From(ss)
  OBVIOUS
<1>9. h = [k \in 1 .. n + 1 |-> IF k = n + 1 THEN <<>> ELSE ss[k] \o h[k + 1]]
  <2> HIDE DEF f
  <2> QED BY <1>1, <1>7, <1>8 DEF From
<1>10. h[n + 1] = <<>> /\ \A k \in 1 .. n : h[k] = ss[k] \o h[k + 1]
  <2>1. \A k \in 1 .. n + 1 : h[k] = IF k = n + 1 THEN <<>> ELSE ss[k] \o h[k + 1]
    BY <1>9
  <2>2. n + 1 \in 1 .. n + 1 /\ \A k \in 1 .. n : k \in 1 .. n + 1 /\ k # n + 1
    OBVIOUS
  <2> QED BY <2>1, <2>2
<1> DEFINE I == {d \in Nat : d <= n => h[n + 1 - d] \in T}
<1>11. Nat \subseteq I
  <2>1. 0 \in I
    BY <1>4, <1>10
  <2>2. ASSUME NEW d \in Nat, d \in I  PROVE d + 1 \in I
    <3> SUFFICES ASSUME d + 1 <= n  PROVE h[n + 1 - (d + 1)] \in T
      OBVIOUS
    <3>1. PICK k \in 1 .. n : k = n + 1 - (d + 1)
      OBVIOUS
    <3>2. k + 1 = n + 1 - d
      BY <3>1
    <3>3. h[k + 1] \in T /\ ss[k] \in T
      BY <1>3, <2>2, <3>2
    <3>4. h[k] \in T
      BY <1>4, <1>10, <3>3
    <3> QED BY <3>1, <3>4
  <2> HIDE DEF I
  <2> QED BY <2>1, <2>2, SetInduction
<1>12. h \in [1 .. n + 1 -> T]
  <2>1. ASSUME NEW k \in 1 .. n + 1  PROVE h[k] \in T
    <3>1. n + 1 - k \in Nat /\ n + 1 - k <= n /\ n + 1 - (n + 1 - k) = k
      OBVIOUS
    <3> QED BY <1>11, <3>1
  <2>2. h = [k \in 1 .. n + 1 |-> h[k]]
    BY <1>9
  <2> QED BY <2>1, <2>2
<1> QED BY <1>1, <1>2, <1>8, <1>10, <1>12

-----------------------------------------------------------------------------
(***************************************************************************)
(* Discovery                                                               *)
(***************************************************************************)

SscDescs == [featureCode : Words, baseComId : Words]

DiscoveryTypeOK ==
  /\ features \in Seq(Feature)
  /\ lengthOfData \in Nat /\ offset \in Nat
  /\ tperDesc \in TPerDescs \union {NoValue}
  /\ lockingDesc \in LockingDescs \union {NoValue}
  /\ sscDescs \in Seq(SscDescs)
  /\ step \in {"parsing", "parsed", "open", "failed"}
  /\ comId \in Words \union {Dynamic, NoValue}

\* Those of the first n features that have one of some codes.
Among(n, codes) == {k \in 1 .. n : features[k].code \in codes}

\* The first n features are read, and the walk stands behind them.
Walked(n) ==
  /\ IF n < Len(features) THEN offset = EndOf(n) ELSE offset >= EndOf(n)
  /\ \A k \in 1 .. n : features[k].length >= PayloadRead(features[k].code)
  /\ ListedInOrder(Among(n, SscCodes))
  /\ IsOfLast(tperDesc, TPerOf, Among(n, {TPerCode}))
  /\ IsOfLast(lockingDesc, LockingOf, Among(n, {LockingCode}))

WalkInv ==
  /\ lengthOfData >= EndOf(Len(features))
  /\ step = "parsing" => \E n \in 0 .. Len(features) : Walked(n)

DiscoveryInv == DiscoveryTypeOK /\ WalkInv /\ DescribesTheDrive

-----------------------------------------------------------------------------
(* Lemmas                                                                  *)

\* What is made of a feature has its type.
LEMMA FieldFacts ==
  \A f \in Feature : /\ f.length \in Nat
                     /\ SscOf(f) \in SscDescs
                     /\ TPerOf(f) \in TPerDescs /\ LockingOf(f) \in LockingDescs
BY DEF SscOf, SscDescs, TPerOf, TPerDescs, LockingOf, LockingDescs, BitOf, Feature

LEMMA FeatureFacts ==
  ASSUME features \in Seq(Feature), NEW k \in 1 .. Len(features)
  PROVE  features[k] \in Feature /\ features[k].length \in Nat
<1>1. features[k] \in Feature
  OBVIOUS
<1> QED BY <1>1, FieldFacts

\* Features lie one behind the other, each with its header.
LEMMA EndFacts ==
  ASSUME features \in Seq(Feature)
  PROVE  /\ \A k \in 0 .. Len(features) : EndOf(k) \in Nat
         /\ EndOf(0) = 0
         /\ \A k \in 1 .. Len(features) : EndOf(k) = EndOf(k - 1) + 4 + features[k].length
         /\ \A i \in 0 .. Len(features) : \A j \in i .. Len(features) : EndOf(i) <= EndOf(j)
<1>1. PICK n \in Nat : n = Len(features)
  OBVIOUS
<1>2. PICK ns : ns = [i \in 1 .. n |-> FeatureHeaderSize + features[i].length]
  OBVIOUS
<1>3. \A i \in 1 .. n : features[i].length \in Nat
  BY <1>1, FeatureFacts
<1>4. ns \in Seq(Nat) /\ Len(ns) = n /\ \A k \in 1 .. n : ns[k] = 4 + features[k].length
  <2>1. \A k \in 1 .. n : ns[k] = 4 + features[k].length /\ ns[k] \in Nat
    BY <1>2, <1>3 DEF FeatureHeaderSize
  <2>2. ns \in [1 .. n -> Nat]
    BY <1>2, <2>1
  <2> QED BY <2>1, <2>2
<1>5. \A k : EndOf(k) = Sums(ns)[k]
  BY <1>1, <1>2 DEF EndOf
<1>6. \A k \in 0 .. n : EndOf(k) \in Nat
  BY <1>4, <1>5, SumsFacts
<1>7. \A k \in 1 .. n : EndOf(k) = EndOf(k - 1) + 4 + features[k].length
  <2> SUFFICES ASSUME NEW k \in 1 .. n  PROVE EndOf(k) = EndOf(k - 1) + 4 + features[k].length
    OBVIOUS
  <2>1. EndOf(k) = EndOf(k - 1) + ns[k]
    BY <1>4, <1>5, SumsFacts
  <2>2. k - 1 \in 0 .. n
    BY <1>1
  <2>3. PICK e \in Nat : e = EndOf(k - 1)
    BY <1>6, <2>2
  <2>4. PICK l \in Nat : l = features[k].length /\ ns[k] = 4 + l
    BY <1>3, <1>4
  <2>5. EndOf(k) = e + (4 + l)
    BY <2>1, <2>3, <2>4
  <2>6. e + (4 + l) = e + 4 + l
    OBVIOUS
  <2> QED BY <2>3, <2>4, <2>5, <2>6
<1>8. EndOf(0) = 0
  BY <1>4, <1>5, SumsFacts
<1>9. \A i \in 0 .. n : \A j \in i .. n : EndOf(i) <= EndOf(j)
  BY <1>4, <1>5, SumsMonotone
<1> QED BY <1>1, <1>6, <1>7, <1>8, <1>9

\* What the walk finds behind the n-th feature: the next, or the zeros.
LEMMA FeatureAtFacts ==
  ASSUME features \in Seq(Feature), NEW n \in 0 .. Len(features)
  PROVE  /\ n < Len(features) => FeatureAt(EndOf(n)) = features[n + 1]
         /\ \A o \in Nat : o >= EndOf(Len(features)) => FeatureAt(o) = NoFeature
<1> DEFINE m == Len(features)
           starting(o) == {k \in DOMAIN features : EndOf(k - 1) = o}
<1>1. m \in Nat /\ DOMAIN features = 1 .. m
  OBVIOUS
<1>2. \A k \in 0 .. m : EndOf(k) \in Nat
  BY EndFacts
<1>3. \A k \in 1 .. m : features[k].length \in Nat /\ EndOf(k) = EndOf(k - 1) + 4 + features[k].length
  BY EndFacts, FeatureFacts
<1>4. \A i \in 0 .. m : \A j \in i .. m : EndOf(i) <= EndOf(j)
  BY EndFacts
<1> HIDE DEF m
<1>5. \A k \in 1 .. m : \A j \in k .. m : EndOf(k - 1) < EndOf(j)
  <2> SUFFICES ASSUME NEW k \in 1 .. m, NEW j \in k .. m  PROVE EndOf(k - 1) < EndOf(j)
    OBVIOUS
  <2>1. k - 1 \in 0 .. m /\ k \in 0 .. m /\ j \in 0 .. m
    BY <1>1
  <2>2. PICK before \in Nat, end \in Nat, later \in Nat :
           before = EndOf(k - 1) /\ end = EndOf(k) /\ later = EndOf(j)
    BY <1>2, <2>1
  <2>3. PICK l \in Nat : l = features[k].length
    BY <1>3
  <2>4. end = before + 4 + l
    BY <1>3, <2>2, <2>3
  <2>5. end <= later
    BY <1>4, <2>1, <2>2
  <2>6. before < later
    BY <2>4, <2>5
  <2> QED BY <2>2, <2>6
<1>6. ASSUME n < m  PROVE FeatureAt(EndOf(n)) = features[n + 1]
  <2>1. n + 1 \in starting(EndOf(n))
    BY <1>1, <1>6 DEF m
  <2>2. ASSUME NEW k \in starting(EndOf(n))  PROVE k = n + 1
    <3>1. k \in 1 .. m /\ EndOf(k - 1) = EndOf(n) /\ EndOf(n) \in Nat
      BY <1>1, <1>2, <1>6 DEF m
    <3>2. ~(k < n + 1)
      <4> SUFFICES ASSUME k < n + 1  PROVE FALSE
        OBVIOUS
      <4>1. n \in k .. m
        BY <1>1, <1>6, <3>1 DEF m
      <4> QED BY <1>5, <3>1, <4>1
    <3>3. ~(n + 1 < k)
      <4> SUFFICES ASSUME n + 1 < k  PROVE FALSE
        OBVIOUS
      <4>1. n + 1 \in 1 .. m /\ k - 1 \in (n + 1) .. m /\ (n + 1) - 1 = n
        BY <1>1, <1>6, <3>1 DEF m
      <4> QED BY <1>5, <3>1, <4>1
    <3> QED BY <3>1, <3>2, <3>3 DEF m
  <2>3. starting(EndOf(n)) = {n + 1}
    BY <2>1, <2>2
  <2> QED BY <2>3 DEF FeatureAt
<1>7. ASSUME NEW o \in Nat, o >= EndOf(m)  PROVE FeatureAt(o) = NoFeature
  <2>1. ASSUME NEW k \in 1 .. m  PROVE EndOf(k - 1) # o
    <3>1. EndOf(k - 1) < EndOf(m) /\ EndOf(k - 1) \in Nat /\ EndOf(m) \in Nat
      BY <1>1, <1>2, <1>5
    <3> QED BY <1>7, <3>1
  <2>2. starting(o) = {}
    BY <1>1, <2>1
  <2> QED BY <2>2 DEF FeatureAt
<1> QED BY <1>6, <1>7 DEF m

\* Every recognised code has a description of some bytes.
LEMMA PayloadReadFacts ==
  /\ \A code : PayloadRead(code) \in Nat
  /\ \A code \in SscCodes \union {TPerCode, LockingCode} : PayloadRead(code) > 0
  /\ PayloadRead(0) = 0
BY DEF PayloadRead, SscCodes, TPerCode, LockingCode, KeyPerIOCode

\* A list of descriptions stays in order when the next feature's is added to it.
LEMMA ListGrows ==
  ASSUME DiscoveryTypeOK, NEW n \in 0 .. Len(features), n < Len(features),
         ListedInOrder(Among(n, SscCodes)),
         features[n + 1].code \in SscCodes,
         features' = features, sscDescs' = Append(sscDescs, SscOf(features[n + 1]))
  PROVE  ListedInOrder(Among(n + 1, SscCodes))'
<1>0. features \in Seq(Feature) /\ sscDescs \in Seq(SscDescs)
  BY DEF DiscoveryTypeOK
<1>1. PICK m \in Nat : m = Len(sscDescs)
  BY <1>0
<1>2. PICK l \in Nat : l = Len(features)
  BY <1>0
<1>3. DOMAIN features = 1 .. l /\ n + 1 \in 1 .. l
  BY <1>0, <1>2
<1>4. PICK from \in [1 .. m -> 1 .. l] :
         /\ {from[i] : i \in 1 .. m} = Among(n, SscCodes)
         /\ \A i, j \in 1 .. m : i < j => from[i] < from[j]
         /\ \A i \in 1 .. m : sscDescs[i] = SscOf(features[from[i]])
  BY <1>1, <1>3 DEF ListedInOrder
<1> DEFINE more == [i \in 1 .. m + 1 |-> IF i = m + 1 THEN n + 1 ELSE from[i]]
<1>5. /\ Len(sscDescs') = m + 1 /\ sscDescs'[m + 1] = SscOf(features[n + 1])
      /\ \A i \in 1 .. m : sscDescs'[i] = sscDescs[i]
  <2>1. features[n + 1] \in Feature
    BY <1>0, <1>2, <1>3
  <2>2. SscOf(features[n + 1]) \in SscDescs
    BY <2>1, FieldFacts
  <2> QED BY <1>0, <1>1, <2>2
<1>6. more \in [1 .. m + 1 -> 1 .. l]
  BY <1>3
<1>7. \A i \in 1 .. m : more[i] = from[i] /\ from[i] \in 1 .. n
  BY <1>4 DEF Among
<1>8. more[m + 1] = n + 1
  OBVIOUS
<1>9. {more[i] : i \in 1 .. m + 1} = Among(n + 1, SscCodes)
  <2> HIDE DEF more
  <2>1. ASSUME NEW i \in 1 .. m + 1  PROVE more[i] \in Among(n + 1, SscCodes)
    <3>1. CASE i = m + 1
      BY <1>8, <3>1 DEF Among
    <3>2. CASE i # m + 1
      <4>1. i \in 1 .. m
        BY <3>2
      <4> QED BY <1>4, <1>7, <4>1 DEF Among
    <3> QED BY <3>1, <3>2
  <2>2. ASSUME NEW k \in Among(n + 1, SscCodes)  PROVE \E i \in 1 .. m + 1 : more[i] = k
    <3>1. CASE k = n + 1
      BY <1>8, <3>1
    <3>2. CASE k # n + 1
      <4>1. k \in Among(n, SscCodes)
        BY <3>2 DEF Among
      <4>2. PICK i \in 1 .. m : from[i] = k
        BY <1>4, <4>1
      <4>3. i \in 1 .. m + 1 /\ more[i] = k
        BY <1>7, <4>2
      <4> QED BY <4>3
    <3> QED BY <3>1, <3>2
  <2> QED BY <2>1, <2>2
<1>10. \A i, j \in 1 .. m + 1 : i < j => more[i] < more[j]
  <2> HIDE DEF more
  <2> SUFFICES ASSUME NEW i \in 1 .. m + 1, NEW j \in 1 .. m + 1, i < j  PROVE more[i] < more[j]
    OBVIOUS
  <2>1. i \in 1 .. m
    OBVIOUS
  <2>2. CASE j = m + 1
    BY <1>7, <1>8, <2>1, <2>2
  <2>3. CASE j # m + 1
    <3>1. j \in 1 .. m
      BY <2>3
    <3> QED BY <1>4, <1>7, <2>1, <3>1
  <2> QED BY <2>2, <2>3
<1>11. \A i \in 1 .. m + 1 : sscDescs'[i] = SscOf(features[more[i]])
  <2> HIDE DEF more
  <2> SUFFICES ASSUME NEW i \in 1 .. m + 1  PROVE sscDescs'[i] = SscOf(features[more[i]])
    OBVIOUS
  <2>1. CASE i = m + 1
    BY <1>5, <1>8, <2>1
  <2>2. CASE i # m + 1
    <3>1. i \in 1 .. m
      BY <2>2
    <3> QED BY <1>4, <1>5, <1>7, <3>1
  <2> QED BY <2>1, <2>2
<1>12. Among(n + 1, SscCodes)' = Among(n + 1, SscCodes)
  BY DEF Among
<1>13. \E new \in [1 .. m + 1 -> 1 .. l] :
         /\ {new[i] : i \in 1 .. m + 1} = Among(n + 1, SscCodes)
         /\ \A i, j \in 1 .. m + 1 : i < j => new[i] < new[j]
         /\ \A i \in 1 .. m + 1 : sscDescs'[i] = SscOf(features[new[i]])
  <2> HIDE DEF more
  <2> QED BY <1>6, <1>9, <1>10, <1>11
<1>14. \E new \in [1 .. Len(sscDescs') -> DOMAIN features'] :
         /\ {new[i] : i \in 1 .. Len(sscDescs')} = Among(n + 1, SscCodes)'
         /\ \A i, j \in 1 .. Len(sscDescs') : i < j => new[i] < new[j]
         /\ \A i \in 1 .. Len(sscDescs') : sscDescs'[i] = SscOf(features'[new[i]])
  <2>1. Len(sscDescs') = m + 1 /\ DOMAIN features' = 1 .. l /\ features' = features
    BY <1>3, <1>5
  <2>2. PICK new \in [1 .. m + 1 -> 1 .. l] :
         /\ {new[i] : i \in 1 .. m + 1} = Among(n + 1, SscCodes)
         /\ \A i, j \in 1 .. m + 1 : i < j => new[i] < new[j]
         /\ \A i \in 1 .. m + 1 : sscDescs'[i] = SscOf(features[new[i]])
    BY <1>13
  <2>3. new \in [1 .. Len(sscDescs') -> DOMAIN features']
    BY <2>1, <2>2
  <2>4. {new[i] : i \in 1 .. Len(sscDescs')} = Among(n + 1, SscCodes)'
    BY <1>12, <2>1, <2>2
  <2>5. \A i, j \in 1 .. Len(sscDescs') : i < j => new[i] < new[j]
    BY <2>1, <2>2
  <2>6. \A i \in 1 .. Len(sscDescs') : sscDescs'[i] = SscOf(features'[new[i]])
    BY <2>1, <2>2
  <2> QED BY <2>3, <2>4, <2>5, <2>6, Zenon
<1> QED BY <1>14 DEF ListedInOrder

\* What the next feature changes: it becomes the last of its code, and none of another.
LEMMA AmongGrows ==
  ASSUME features \in Seq(Feature), NEW n \in 0 .. Len(features), n < Len(features)
  PROVE  /\ \A code : features[n + 1].code = code => IsLast(n + 1, Among(n + 1, {code}))
         /\ \A codes : features[n + 1].code \notin codes => Among(n + 1, codes) = Among(n, codes)
<1>1. \A codes : Among(n + 1, codes) =
        Among(n, codes) \union (IF features[n + 1].code \in codes THEN {n + 1} ELSE {})
  BY DEF Among
<1> QED BY <1>1 DEF IsLast, Among

\* A feature of the drive is read.
LEMMA FeatureRead ==
  ASSUME DiscoveryInv, ReadFeature, NEW n \in 0 .. Len(features), Walked(n), n < Len(features)
  PROVE  Walked(n + 1)'
<1> DEFINE f == features[n + 1]
<1>1. features \in Seq(Feature) /\ n + 1 \in 1 .. Len(features) /\ n \in 0 .. Len(features) /\ (n + 1) - 1 = n
  BY DEF DiscoveryInv, DiscoveryTypeOK
<1>2. offset = EndOf(n) /\ FeatureAt(offset) = f
  BY <1>1, FeatureAtFacts DEF Walked
<1>3. f \in Feature /\ f.length \in Nat
  BY <1>1, FeatureFacts
<1>4. /\ f.length >= PayloadRead(f.code)
      /\ tperDesc' = IF f.code = TPerCode THEN TPerOf(f) ELSE tperDesc
      /\ lockingDesc' = IF f.code = LockingCode THEN LockingOf(f) ELSE lockingDesc
      /\ sscDescs' = IF f.code \in SscCodes THEN Append(sscDescs, SscOf(f)) ELSE sscDescs
      /\ offset' = offset + FeatureHeaderSize + f.length
      /\ features' = features
  BY <1>2 DEF ReadFeature
<1> HIDE DEF f
<1>5. \A k, codes : EndOf(k)' = EndOf(k) /\ Among(k, codes)' = Among(k, codes)
  BY <1>4 DEF EndOf, Among
<1>6. (IF n + 1 < Len(features) THEN offset = EndOf(n + 1) ELSE offset >= EndOf(n + 1))'
  <2>1. EndOf(n + 1) = EndOf(n) + 4 + f.length /\ EndOf(n) \in Nat
    BY <1>1, EndFacts DEF f
  <2>2. offset' = EndOf(n + 1) /\ offset' \in Nat
    BY <1>2, <1>3, <1>4, <2>1 DEF FeatureHeaderSize
  <2>3. EndOf(n + 1)' = EndOf(n + 1)
    BY <1>5
  <2> QED BY <1>4, <2>2, <2>3
<1>7. (\A k \in 1 .. n + 1 : features[k].length >= PayloadRead(features[k].code))'
  <2> SUFFICES ASSUME NEW k \in 1 .. n + 1
               PROVE  features'[k].length >= PayloadRead(features'[k].code)
    OBVIOUS
  <2>1. CASE k = n + 1
    BY <1>4, <2>1 DEF f
  <2>2. CASE k # n + 1
    <3>1. k \in 1 .. n
      BY <2>2
    <3> QED BY <1>4, <3>1 DEF Walked
  <2> QED BY <2>1, <2>2
<1>8. ListedInOrder(Among(n + 1, SscCodes))'
  <2>1. CASE f.code \in SscCodes
    BY <1>4, <2>1, ListGrows DEF f, Walked, DiscoveryInv
  <2>2. CASE f.code \notin SscCodes
    <3>1. Among(n + 1, SscCodes) = Among(n, SscCodes)
      BY <1>1, <2>2, AmongGrows DEF f
    <3>2. sscDescs' = sscDescs
      BY <1>4, <2>2
    <3> QED BY <1>4, <1>5, <3>1, <3>2 DEF Walked, ListedInOrder
  <2> QED BY <2>1, <2>2
<1>9. IsOfLast(tperDesc, TPerOf, Among(n + 1, {TPerCode}))'
  <2>1. CASE f.code = TPerCode
    <3>1. IsLast(n + 1, Among(n + 1, {TPerCode})) /\ tperDesc' = TPerOf(features'[n + 1])
      BY <1>1, <1>4, <2>1, AmongGrows DEF f
    <3> QED BY <1>5, <3>1 DEF IsOfLast, IsLast
  <2>2. CASE f.code # TPerCode
    <3>1. Among(n + 1, {TPerCode}) = Among(n, {TPerCode})
      BY <1>1, <2>2, AmongGrows DEF f
    <3>2. tperDesc' = tperDesc
      BY <1>4, <2>2
    <3> QED BY <1>4, <1>5, <3>1, <3>2 DEF Walked, IsOfLast
  <2> QED BY <2>1, <2>2
<1>10. IsOfLast(lockingDesc, LockingOf, Among(n + 1, {LockingCode}))'
  <2>1. CASE f.code = LockingCode
    <3>1. IsLast(n + 1, Among(n + 1, {LockingCode})) /\ lockingDesc' = LockingOf(features'[n + 1])
      BY <1>1, <1>4, <2>1, AmongGrows DEF f
    <3> QED BY <1>5, <3>1 DEF IsOfLast, IsLast
  <2>2. CASE f.code # LockingCode
    <3>1. Among(n + 1, {LockingCode}) = Among(n, {LockingCode})
      BY <1>1, <2>2, AmongGrows DEF f
    <3>2. lockingDesc' = lockingDesc
      BY <1>4, <2>2
    <3> QED BY <1>4, <1>5, <3>1, <3>2 DEF Walked, IsOfLast
  <2> QED BY <2>1, <2>2
<1> QED BY <1>6, <1>7, <1>8, <1>9, <1>10 DEF Walked

\* Zeros are read: nothing is found in them.
LEMMA ZerosRead ==
  ASSUME DiscoveryInv, ReadFeature, Walked(Len(features))
  PROVE  Walked(Len(features))'
<1>1. features \in Seq(Feature) /\ offset \in Nat /\ Len(features) \in 0 .. Len(features)
  BY DEF DiscoveryInv, DiscoveryTypeOK
<1>2. offset >= EndOf(Len(features)) /\ EndOf(Len(features)) \in Nat
  BY <1>1, EndFacts DEF Walked
<1>3. FeatureAt(offset) = NoFeature
  BY <1>1, <1>2, FeatureAtFacts
<1>4. /\ tperDesc' = tperDesc /\ lockingDesc' = lockingDesc /\ sscDescs' = sscDescs
      /\ offset' = offset + 4 /\ features' = features
  BY <1>1, <1>3 DEF ReadFeature, NoFeature, FeatureHeaderSize, SscCodes, TPerCode, LockingCode, KeyPerIOCode
<1>5. \A k, codes : EndOf(k)' = EndOf(k) /\ Among(k, codes)' = Among(k, codes)
  BY <1>4 DEF EndOf, Among
<1>6. (IF Len(features) < Len(features) THEN offset = EndOf(Len(features)) ELSE offset >= EndOf(Len(features)))'
  BY <1>1, <1>2, <1>4, <1>5
<1> QED BY <1>4, <1>5, <1>6 DEF Walked, ListedInOrder, IsOfLast

\* Reading keeps the types, of whatever it finds.
LEMMA ReadTypes == DiscoveryInv /\ ReadFeature => DiscoveryTypeOK'
<1> SUFFICES ASSUME DiscoveryInv, ReadFeature  PROVE DiscoveryTypeOK'
  OBVIOUS
<1> DEFINE f == FeatureAt(offset)
<1>1. features \in Seq(Feature) /\ offset \in Nat /\ sscDescs \in Seq(SscDescs)
  BY DEF DiscoveryInv, DiscoveryTypeOK
<1>2. f \in Feature
  <2>1. NoFeature \in Feature
    BY DEF NoFeature, Feature, Words
  <2>2. \A k \in DOMAIN features : features[k] \in Feature
    BY <1>1
  <2> QED BY <2>1, <2>2 DEF FeatureAt
<1>3. /\ tperDesc' = IF f.code = TPerCode THEN TPerOf(f) ELSE tperDesc
      /\ lockingDesc' = IF f.code = LockingCode THEN LockingOf(f) ELSE lockingDesc
      /\ sscDescs' = IF f.code \in SscCodes THEN Append(sscDescs, SscOf(f)) ELSE sscDescs
      /\ offset' = offset + 4 + f.length
      /\ UNCHANGED <<features, lengthOfData, step, comId>>
  BY DEF ReadFeature, FeatureHeaderSize
<1> HIDE DEF f
<1>4. f.length \in Nat /\ SscOf(f) \in SscDescs /\ TPerOf(f) \in TPerDescs /\ LockingOf(f) \in LockingDescs
  BY <1>2, FieldFacts
<1>5. offset' \in Nat
  BY <1>1, <1>3, <1>4
<1>6. sscDescs' \in Seq(SscDescs)
  BY <1>1, <1>3, <1>4
<1> QED BY <1>3, <1>4, <1>5, <1>6 DEF DiscoveryInv, DiscoveryTypeOK

LEMMA ReadSteps == DiscoveryInv /\ ReadFeature => DiscoveryInv'
<1> SUFFICES ASSUME DiscoveryInv, ReadFeature  PROVE DiscoveryInv'
  OBVIOUS
<1>1. features \in Seq(Feature) /\ Len(features) \in Nat /\ step = "parsing"
  BY DEF DiscoveryInv, DiscoveryTypeOK, ReadFeature
<1>2. PICK n \in 0 .. Len(features) : Walked(n)
  BY <1>1 DEF DiscoveryInv, WalkInv
<1>3. features' = features /\ lengthOfData' = lengthOfData /\ step' = step
  BY DEF ReadFeature
<1>4. (\E k \in 0 .. Len(features) : Walked(k))'
  <2>1. CASE n < Len(features)
    <3>1. Walked(n + 1)' /\ n + 1 \in 0 .. Len(features)
      BY <1>1, <1>2, <2>1, FeatureRead
    <3> QED BY <1>3, <3>1
  <2>2. CASE n = Len(features)
    <3>1. Walked(Len(features))' /\ Len(features) \in 0 .. Len(features)
      BY <1>1, <1>2, <2>2, ZerosRead
    <3> QED BY <1>3, <3>1
  <2> QED BY <1>1, <2>1, <2>2
<1>5. WalkInv'
  BY <1>3, <1>4 DEF DiscoveryInv, WalkInv, EndOf
<1>6. DescribesTheDrive'
  BY <1>1, <1>3 DEF DescribesTheDrive, FindsEveryFeature, ComIdIsTheDrives
<1> QED BY ReadTypes, <1>5, <1>6 DEF DiscoveryInv

\* When the walk ends, no more than a feature without payload is left, which cannot be
\* one of those that are described.
LEMMA WalkEnds ==
  ASSUME DiscoveryInv, EndOfFeatures, NEW n \in 0 .. Len(features), Walked(n),
         NEW codes, codes \subseteq SscCodes \union {TPerCode, LockingCode}
  PROVE  Complete(codes) = Among(n, codes)
<1> DEFINE m == Len(features)
<1>1. features \in Seq(Feature) /\ m \in Nat /\ DOMAIN features = 1 .. m
  BY DEF DiscoveryInv, DiscoveryTypeOK
<1>2. lengthOfData \in Nat /\ offset \in Nat /\ offset >= lengthOfData - 4 /\ lengthOfData >= EndOf(m)
  BY DEF DiscoveryInv, DiscoveryTypeOK, WalkInv, EndOfFeatures, Size, LengthFieldSize
<1>3. \A k \in 1 .. n : features[k].length >= PayloadRead(features[k].code)
  BY DEF Walked
<1>4. ASSUME NEW k \in 1 .. m, k > n  PROVE features[k].length = 0
  <2>1. n < m /\ offset = EndOf(n)
    BY <1>1, <1>4 DEF Walked
  <2>2. k - 1 \in n .. m /\ k \in 0 .. m /\ k - 1 \in 0 .. m /\ n \in 0 .. m /\ m \in k .. m
    BY <1>1, <1>4
  <2>3. EndOf(n) <= EndOf(k - 1) /\ EndOf(k) = EndOf(k - 1) + 4 + features[k].length /\ EndOf(k) <= EndOf(m)
    <3> HIDE DEF m
    <3> QED BY <1>1, <2>2, EndFacts DEF m
  <2>4. EndOf(n) \in Nat /\ EndOf(k - 1) \in Nat /\ EndOf(k) \in Nat /\ EndOf(m) \in Nat
    BY <1>1, <2>2, EndFacts
  <2>5. features[k].length \in Nat
    BY <1>1, FeatureFacts
  <2> HIDE DEF m
  <2>6. PICK before \in Nat, last \in Nat, end \in Nat, length \in Nat, size \in Nat :
           /\ before = EndOf(n) /\ last = EndOf(k - 1) /\ end = EndOf(m)
           /\ length = features[k].length /\ size = lengthOfData
    BY <1>2, <2>4, <2>5
  <2>7. before >= size - 4 /\ size >= end
    BY <1>2, <2>1, <2>6
  <2>8. before <= last /\ last + 4 + length <= end
    BY <2>3, <2>6
  <2>9. length = 0
    BY <2>7, <2>8
  <2> QED BY <2>6, <2>9
<1>5. ASSUME NEW k \in Complete(codes)  PROVE k \in 1 .. n
  <2>1. k \in 1 .. m /\ features[k].code \in codes /\ features[k].length >= PayloadRead(features[k].code)
    BY <1>1 DEF Complete
  <2>2. features[k].length > 0
    <3>1. PayloadRead(features[k].code) \in Nat /\ PayloadRead(features[k].code) > 0
      BY <2>1, PayloadReadFacts
    <3>2. features[k].length \in Nat
      BY <1>1, <2>1, FeatureFacts
    <3> QED BY <2>1, <3>1, <3>2
  <2> QED BY <1>1, <1>4, <2>1, <2>2
<1>6. Complete(codes) \subseteq Among(n, codes)
  BY <1>5 DEF Complete, Among
<1>7. Among(n, codes) \subseteq Complete(codes)
  BY <1>1, <1>3 DEF Complete, Among
<1> QED BY <1>6, <1>7

\* The drive is described when the walk is over.
LEMMA EndSteps == DiscoveryInv /\ EndOfFeatures => DiscoveryInv'
<1> SUFFICES ASSUME DiscoveryInv, EndOfFeatures  PROVE DiscoveryInv'
  OBVIOUS
<1>1. step = "parsing" /\ step' = "parsed"
      /\ UNCHANGED <<features, lengthOfData, offset, tperDesc, lockingDesc, sscDescs, comId>>
  BY DEF EndOfFeatures
<1>2. PICK n \in 0 .. Len(features) : Walked(n)
  BY <1>1 DEF DiscoveryInv, WalkInv
<1>3. /\ Complete(SscCodes) = Among(n, SscCodes)
      /\ Complete({TPerCode}) = Among(n, {TPerCode})
      /\ Complete({LockingCode}) = Among(n, {LockingCode})
  BY <1>2, WalkEnds
<1>4. /\ ListedInOrder(Complete(SscCodes))
      /\ IsOfLast(tperDesc, TPerOf, Complete({TPerCode}))
      /\ IsOfLast(lockingDesc, LockingOf, Complete({LockingCode}))
  BY <1>2, <1>3 DEF Walked
<1>5. FindsEveryFeature'
  BY <1>1, <1>4 DEF FindsEveryFeature, ListedInOrder, IsOfLast, IsLast, Complete
<1>6. DiscoveryTypeOK' /\ WalkInv' /\ ComIdIsTheDrives'
  BY <1>1 DEF DiscoveryInv, DiscoveryTypeOK, WalkInv, EndOf, ComIdIsTheDrives
<1> QED BY <1>5, <1>6 DEF DiscoveryInv, DescribesTheDrive

\* A step that leaves the descriptions alone, and does not open the drive.
LEMMA FailSteps == DiscoveryInv /\ (ReadFails \/ OpenFails) => DiscoveryInv'
<1> SUFFICES ASSUME DiscoveryInv, ReadFails \/ OpenFails  PROVE DiscoveryInv'
  OBVIOUS
<1>1. step' = "failed"
      /\ UNCHANGED <<features, lengthOfData, offset, tperDesc, lockingDesc, sscDescs, comId>>
  BY DEF ReadFails, OpenFails
<1> QED
  BY <1>1 DEF DiscoveryInv, DiscoveryTypeOK, WalkInv, EndOf,
     DescribesTheDrive, FindsEveryFeature, ComIdIsTheDrives

\* What a drive is opened with: the TPer description is that of its last TPer feature.
LEMMA TPerIsTheLast ==
  ASSUME DiscoveryInv, step = "parsed", tperDesc # NoValue
  PROVE  \E t \in Complete({TPerCode}) :
           /\ IsLast(t, Complete({TPerCode}))
           /\ tperDesc.comIdMgmtSupported <=> BitOf(features[t].bits, 6)
<1>1. IsOfLast(tperDesc, TPerOf, Complete({TPerCode}))
  BY DEF DiscoveryInv, DescribesTheDrive, FindsEveryFeature
<1>2. PICK t \in Complete({TPerCode}) :
         IsLast(t, Complete({TPerCode})) /\ tperDesc = TPerOf(features[t])
  BY <1>1 DEF IsOfLast
<1>3. tperDesc.comIdMgmtSupported = BitOf(features[t].bits, 6)
  BY <1>2 DEF TPerOf
<1> QED BY <1>2, <1>3

\* The first description is that of the first subsystem class.
LEMMA FirstIsTheFirst ==
  ASSUME DiscoveryInv, step = "parsed", sscDescs # <<>>
  PROVE  \E k \in Complete(SscCodes) :
           IsFirst(k, Complete(SscCodes)) /\ sscDescs[1].baseComId = features[k].baseComId
<1>1. ListedInOrder(Complete(SscCodes))
  BY DEF DiscoveryInv, DescribesTheDrive, FindsEveryFeature
<1>2. PICK from \in [1 .. Len(sscDescs) -> DOMAIN features] :
         /\ {from[i] : i \in 1 .. Len(sscDescs)} = Complete(SscCodes)
         /\ \A i, j \in 1 .. Len(sscDescs) : i < j => from[i] < from[j]
         /\ \A i \in 1 .. Len(sscDescs) : sscDescs[i] = SscOf(features[from[i]])
  BY <1>1 DEF ListedInOrder
<1>3. 1 \in 1 .. Len(sscDescs) /\ DOMAIN features \subseteq Nat
  <2>1. sscDescs \in Seq(SscDescs) /\ features \in Seq(Feature)
    BY DEF DiscoveryInv, DiscoveryTypeOK
  <2> QED BY <2>1
<1>4. from[1] \in Complete(SscCodes)
  BY <1>2, <1>3
<1>5. ASSUME NEW k \in Complete(SscCodes)  PROVE from[1] <= k
  <2>1. PICK i \in 1 .. Len(sscDescs) : from[i] = k
    BY <1>2
  <2>2. i = 1 \/ 1 < i
    BY <1>3, <2>1
  <2>3. from[1] \in Nat /\ from[i] \in Nat
    BY <1>2, <1>3
  <2> QED BY <1>2, <1>3, <2>1, <2>2, <2>3
<1>6. sscDescs[1].baseComId = features[from[1]].baseComId
  <2>1. sscDescs[1] = SscOf(features[from[1]])
    BY <1>2, <1>3
  <2> QED BY <2>1 DEF SscOf
<1> QED BY <1>4, <1>5, <1>6 DEF IsFirst

LEMMA OpenSteps == DiscoveryInv /\ (RequestComId \/ StaticComId) => DiscoveryInv'
<1> SUFFICES ASSUME DiscoveryInv, RequestComId \/ StaticComId  PROVE DiscoveryInv'
  OBVIOUS
<1>1. step = "parsed" /\ step' = "open" /\ tperDesc # NoValue
      /\ UNCHANGED <<features, lengthOfData, offset, tperDesc, lockingDesc, sscDescs>>
  BY DEF RequestComId, StaticComId, Open
<1>2. PICK t \in Complete({TPerCode}) :
         /\ IsLast(t, Complete({TPerCode}))
         /\ tperDesc.comIdMgmtSupported <=> BitOf(features[t].bits, 6)
  BY <1>1, TPerIsTheLast
<1>3. IF BitOf(features[t].bits, 6) THEN comId' = Dynamic
      ELSE \E k \in Complete(SscCodes) :
             IsFirst(k, Complete(SscCodes)) /\ comId' = features[k].baseComId
  <2>1. CASE RequestComId
    BY <1>2, <2>1 DEF RequestComId, Open
  <2>2. CASE StaticComId
    <3>1. ~BitOf(features[t].bits, 6) /\ sscDescs # <<>> /\ comId' = sscDescs[1].baseComId
      BY <1>2, <2>2 DEF StaticComId, Open
    <3> QED BY <1>1, <3>1, FirstIsTheFirst
  <2> QED BY <2>1, <2>2
<1>4. Complete({TPerCode})' = Complete({TPerCode}) /\ Complete(SscCodes)' = Complete(SscCodes)
  BY <1>1 DEF Complete
<1>5. ComIdIsTheDrives'
  BY <1>1, <1>2, <1>3, <1>4 DEF ComIdIsTheDrives, IsFirst, IsLast
<1>6. FindsEveryFeature'
  BY <1>1 DEF DiscoveryInv, DescribesTheDrive, FindsEveryFeature, ListedInOrder, IsOfLast, IsLast, Complete
<1>7. comId' \in Words \union {Dynamic}
  <2>1. CASE RequestComId
    BY <2>1 DEF RequestComId, Open
  <2>2. CASE StaticComId
    <3>1. sscDescs # <<>> /\ comId' = sscDescs[1].baseComId
      BY <2>2 DEF StaticComId, Open
    <3>2. sscDescs \in Seq(SscDescs)
      BY DEF DiscoveryInv, DiscoveryTypeOK
    <3>3. sscDescs[1] \in SscDescs
      BY <3>1, <3>2
    <3> QED BY <3>1, <3>3 DEF SscDescs
  <2> QED BY <2>1, <2>2
<1>8. DiscoveryTypeOK' /\ WalkInv'
  BY <1>1, <1>7 DEF DiscoveryInv, DiscoveryTypeOK, WalkInv, EndOf
<1> QED BY <1>5, <1>6, <1>8 DEF DiscoveryInv, DescribesTheDrive

\* Before anything is read nothing is described.
LEMMA DiscoveryInitInvariant == DiscoveryInit => DiscoveryInv
<1> SUFFICES ASSUME DiscoveryInit  PROVE DiscoveryInv
  OBVIOUS
<1>1. features \in Seq(Feature)
  BY DiscoveryAssumption DEF DiscoveryInit
<1>2. Len(features) \in Nat /\ EndOf(0) = 0 /\ EndOf(Len(features)) \in Nat
  BY <1>1, EndFacts
<1>3. PICK b \in LengthBias : lengthOfData = EndOf(Len(features)) + b
  BY DEF DiscoveryInit
<1>4. b \in Nat
  BY <1>3, DiscoveryAssumption
<1>5. /\ offset = 0 /\ tperDesc = NoValue /\ lockingDesc = NoValue /\ sscDescs = <<>>
      /\ step = "parsing" /\ comId = NoValue
  BY DEF DiscoveryInit
<1>6. Among(0, SscCodes) = {} /\ Among(0, {TPerCode}) = {} /\ Among(0, {LockingCode}) = {}
  BY DEF Among
<1>7. ListedInOrder({})
  <2>1. PICK from : from = [i \in 1 .. 0 |-> 1]
    OBVIOUS
  <2>2. from \in [1 .. 0 -> DOMAIN features] /\ {from[i] : i \in 1 .. 0} = {}
    BY <2>1
  <2>3. Len(sscDescs) = 0
    BY <1>5
  <2> QED BY <2>2, <2>3 DEF ListedInOrder
<1>8. Walked(0)
  <2>1. /\ IsOfLast(tperDesc, TPerOf, Among(0, {TPerCode}))
        /\ IsOfLast(lockingDesc, LockingOf, Among(0, {LockingCode}))
    BY <1>5, <1>6, Zenon DEF IsOfLast
  <2>2. \A k \in 1 .. 0 : features[k].length >= PayloadRead(features[k].code)
    OBVIOUS
  <2>3. IF 0 < Len(features) THEN offset = EndOf(0) ELSE offset >= EndOf(0)
    BY <1>2, <1>5
  <2>4. ListedInOrder(Among(0, SscCodes))
    BY <1>6, <1>7, Zenon
  <2> QED BY <2>1, <2>2, <2>3, <2>4, Zenon DEF Walked
<1>9. WalkInv
  BY <1>2, <1>3, <1>4, <1>8 DEF WalkInv
<1>10. DiscoveryTypeOK
  BY <1>1, <1>2, <1>3, <1>4, <1>5 DEF DiscoveryTypeOK
<1> QED BY <1>5, <1>9, <1>10 DEF DiscoveryInv, DescribesTheDrive, FindsEveryFeature, ComIdIsTheDrives

LEMMA DiscoveryInvariant == DiscoverySpec => []DiscoveryInv
<1>1. DiscoveryInv /\ [DiscoveryNext]_discoveryVars => DiscoveryInv'
  <2> SUFFICES ASSUME DiscoveryInv, [DiscoveryNext]_discoveryVars  PROVE DiscoveryInv'
    OBVIOUS
  <2>1. CASE ReadFeature
    BY <2>1, ReadSteps
  <2>2. CASE EndOfFeatures
    BY <2>2, EndSteps
  <2>3. CASE ReadFails \/ OpenFails
    BY <2>3, FailSteps
  <2>4. CASE RequestComId \/ StaticComId
    BY <2>4, OpenSteps
  <2>5. CASE UNCHANGED discoveryVars
    <3>1. UNCHANGED <<features, lengthOfData, offset, tperDesc, lockingDesc, sscDescs, step, comId>>
      BY <2>5 DEF discoveryVars
    <3>2. DiscoveryTypeOK'
      BY <3>1 DEF DiscoveryInv, DiscoveryTypeOK
    <3>3. WalkInv'
      <4>1. \A k, codes : EndOf(k)' = EndOf(k) /\ Among(k, codes)' = Among(k, codes)
        BY <3>1 DEF EndOf, Among
      <4>2. ASSUME NEW n \in 0 .. Len(features), Walked(n)  PROVE Walked(n)'
        BY <3>1, <4>1, <4>2 DEF Walked, ListedInOrder, IsOfLast
      <4> QED BY <3>1, <4>1, <4>2 DEF DiscoveryInv, WalkInv
    <3>4. DescribesTheDrive'
      BY <3>1 DEF DiscoveryInv, DescribesTheDrive, FindsEveryFeature, ComIdIsTheDrives,
         ListedInOrder, IsOfLast, Complete
    <3> QED BY <3>2, <3>3, <3>4 DEF DiscoveryInv
  <2> QED BY <2>1, <2>2, <2>3, <2>4, <2>5 DEF DiscoveryNext
<1> QED BY <1>1, DiscoveryInitInvariant, PTL DEF DiscoverySpec

-----------------------------------------------------------------------------
(* Theorems                                                                *)

\* The variables of the discovery keep their types.
THEOREM DiscoveryTypesHold == DiscoverySpec => []DiscoveryTypeOK
<1>1. DiscoveryInv => DiscoveryTypeOK
  BY DEF DiscoveryInv
<1> QED BY <1>1, DiscoveryInvariant, PTL

\* For every list of features, in any order and of any length, a drive whose answer was
\* parsed is described as it is, and is opened with a ComID of its own.
THEOREM DriveIsDescribed == DiscoverySpec => []DescribesTheDrive
<1>1. DiscoveryInv => DescribesTheDrive
  BY DEF DiscoveryInv
<1> QED BY <1>1, DiscoveryInvariant, PTL

-----------------------------------------------------------------------------
(***************************************************************************)
(* Com packets                                                             *)
(***************************************************************************)

Octet == 0 .. 255
Octets == Seq(Octet)

IsCat(c, s, t) == s \in Octets /\ t \in Octets /\ c = s \o t
Part(s, i, j) == SubSeq(s, i, j)

SubSizes(p) == [j \in DOMAIN p.payload |-> SubHeader + PaddedPayloadLength(p.payload[j])]
Sizes(c) == [i \in DOMAIN c |-> PacketHeader + PayloadLength(c[i])]

SavedSubs(p) == [j \in DOMAIN p.payload |-> SaveSubPacket(p.payload[j])]
Saved(c) == [i \in DOMAIN c |-> SavePacket(c[i])]

\* The com packet when k packets of it are loaded, and its next packet when j sub
\* packets of that are.
ComAfter(k) ==
  com = [length |-> ComPayloadLength(input), offset |-> Sums(Sizes(input))[k],
         packets |-> SubSeq(input, 1, k)]

PacketAfter(p, j) ==
  packet = [length |-> PayloadLength(p), offset |-> Sums(SubSizes(p))[j],
            tsn |-> p.tsn, payload |-> SubSeq(p.payload, 1, j)]

\* As long as there is something to load, what is left to read is what remains saved.
LoadInv ==
  /\ phase \in {"com", "packets", "subpackets", "done"}
  /\ phase = "com" =>
       rest = SaveComPacket(input) /\ com = [length |-> 0, offset |-> 0, packets |-> <<>>]
  /\ phase = "packets" =>
       \E k \in 0 .. Len(input) :
         ComAfter(k) /\ (k < Len(input) => rest = From(Saved(input))[k + 1])
  /\ phase = "subpackets" =>
       \E k \in 0 .. Len(input) - 1 :
         /\ ComAfter(k)
         /\ \E j \in 0 .. Len(input[k + 1].payload) :
              /\ PacketAfter(input[k + 1], j)
              /\ j < Len(input[k + 1].payload) \/ k + 1 < Len(input) =>
                   IsCat(rest, From(SavedSubs(input[k + 1]))[j + 1], From(Saved(input))[k + 2])
  /\ phase = "done" => com.packets = input

PacketsInv ==
  /\ input \in BoundedSeq(Packet, MaxPackets)
  /\ PaddedAtEnd(input) => LoadInv

-----------------------------------------------------------------------------
(* Lemmas                                                                  *)

\* Pieces are found again where they were put.
LEMMA CutFirst ==
  ASSUME NEW S, NEW s \in Seq(S), NEW t \in Seq(S)
  PROVE  SubSeq(s \o t, 1, Len(s)) = s
<1>1. PICK u : u = SubSeq(s \o t, 1, Len(s))
  OBVIOUS
<1>2. Len(s) \in Nat /\ Len(t) \in Nat /\ s \o t \in Seq(S) /\ Len(s \o t) = Len(s) + Len(t)
      /\ \A i \in 1 .. Len(s) : (s \o t)[i] = s[i]
  BY ConcatProperties
<1>3. u \in Seq(S) /\ Len(u) = Len(s) /\ \A i \in 1 .. Len(s) : u[i] = s[i]
  <2>1. \A i \in 1 .. Len(s) : (s \o t)[i] \in S
    BY <1>2
  <2>2. u \in Seq(S) /\ Len(u) = (IF 1 <= Len(s) THEN Len(s) - 1 + 1 ELSE 0)
        /\ \A i \in 1 .. Len(s) - 1 + 1 : u[i] = (s \o t)[1 + i - 1]
    BY <1>1, <1>2, <2>1, SubSeqProperties
  <2> QED BY <1>2, <2>2
<1> QED BY <1>1, <1>3, SeqEqual

LEMMA CutRest ==
  ASSUME NEW S, NEW s \in Seq(S), NEW t \in Seq(S)
  PROVE  SubSeq(s \o t, Len(s) + 1, Len(s \o t)) = t
<1>1. PICK m \in Nat, n \in Nat : m = Len(s) /\ n = Len(t)
  OBVIOUS
<1>2. Len(s \o t) = m + n
  BY <1>1, ConcatProperties
<1>3. CASE n = 0
  <2>1. t = <<>>
    BY <1>1, <1>3, EmptySeq
  <2>2. SubSeq(s \o t, m + 1, m + n) = <<>>
    BY <1>3, SubSeqEmpty
  <2> QED BY <1>1, <1>2, <2>1, <2>2
<1>4. CASE n # 0
  <2>1. m + 1 \in Len(s) + 1 .. Len(s) + Len(t) /\ m + n \in Len(s) + 1 .. Len(s) + Len(t)
        /\ (m + 1) - Len(s) = 1 /\ (m + n) - Len(s) = Len(t)
    BY <1>1, <1>4
  <2>2. SubSeq(s \o t, m + 1, m + n) = SubSeq(t, (m + 1) - Len(s), (m + n) - Len(s))
    BY <2>1, SubSeqOfConcat2
  <2>3. SubSeq(t, 1, Len(t)) = t
    BY SubSeqFull
  <2> QED BY <1>1, <1>2, <2>1, <2>2, <2>3
<1> QED BY <1>3, <1>4

LEMMA CutMiddle ==
  ASSUME NEW S, NEW s \in Seq(S), NEW t \in Seq(S), NEW u \in Seq(S)
  PROVE  SubSeq(s \o (t \o u), Len(s) + 1, Len(s) + Len(t)) = t
<1>1. PICK m \in Nat, n \in Nat : m = Len(s) /\ n = Len(t)
  OBVIOUS
<1>2. t \o u \in Seq(S) /\ Len(t \o u) = n + Len(u) /\ Len(u) \in Nat
  BY <1>1, ConcatProperties
<1>3. CASE n = 0
  <2>1. t = <<>>
    BY <1>1, <1>3, EmptySeq
  <2>2. SubSeq(s \o (t \o u), m + 1, m + n) = <<>>
    BY <1>3, SubSeqEmpty
  <2> QED BY <1>1, <2>1, <2>2
<1>4. CASE n # 0
  <2>1. PICK w \in Seq(S) : w = t \o u
    BY <1>2
  <2>2. m + 1 \in Len(s) + 1 .. Len(s) + Len(w) /\ m + n \in Len(s) + 1 .. Len(s) + Len(w)
        /\ (m + 1) - Len(s) = 1 /\ (m + n) - Len(s) = Len(t)
    BY <1>1, <1>2, <1>4, <2>1
  <2>3. PICK from, to : from = m + 1 /\ to = m + n
    OBVIOUS
  <2>4. from \in Len(s) + 1 .. Len(s) + Len(w) /\ to \in Len(s) + 1 .. Len(s) + Len(w)
    BY <2>2, <2>3
  <2>5. SubSeq(s \o w, from, to) = SubSeq(w, from - Len(s), to - Len(s))
    BY <2>4, SubSeqOfConcat2
  <2>6. SubSeq(w, 1, Len(t)) = t
    BY <2>1, CutFirst
  <2>7. from = Len(s) + 1 /\ to = Len(s) + Len(t) /\ from - Len(s) = 1 /\ to - Len(s) = Len(t)
    BY <1>1, <2>2, <2>3
  <2> QED BY <2>1, <2>5, <2>6, <2>7
<1> QED BY <1>3, <1>4, Zenon

\* A number is read as it was written.
LEMMA ByteSplit ==
  ASSUME NEW n \in Nat
  PROVE  n \div 256 \in Nat /\ n % 256 \in Octet /\ n = 256 * (n \div 256) + (n % 256)
BY DEF Octet

LEMMA FlatBinaryRoundTrip ==
  ASSUME NEW n \in Nat, FitsFourBytes(n)
  PROVE  /\ ToFlatBinary(n) \in Seq(Octet) /\ Len(ToFlatBinary(n)) = 4
         /\ FromFlatBinary(ToFlatBinary(n)) = n
<1>1. PICK a \in Nat, f \in Octet : a = n \div 256 /\ f = n % 256 /\ n = 256 * a + f
  BY ByteSplit
<1>2. PICK b \in Nat, e \in Octet : b = a \div 256 /\ e = a % 256 /\ a = 256 * b + e
  BY ByteSplit
<1>3. PICK c \in Nat, d \in Octet : c = b \div 256 /\ d = b % 256 /\ b = 256 * c + d
  BY ByteSplit
<1>4. c < 256
  BY <1>1, <1>2, <1>3 DEF FitsFourBytes
<1>5. c % 256 = c /\ c \in Octet
  BY <1>4 DEF Octet
<1>6. ToFlatBinary(n) = <<c, d, e, f>>
  BY <1>1, <1>2, <1>3, <1>5 DEF ToFlatBinary
<1>7. FromFlatBinary(<<c, d, e, f>>) = n
  <2>1. FromFlatBinary(<<c, d, e, f>>) = 256 * (256 * (256 * c + d) + e) + f
    BY DEF FromFlatBinary
  <2> QED BY <1>1, <1>2, <1>3, <2>1
<1>8. <<c, d, e, f>> \in Seq(Octet) /\ Len(<<c, d, e, f>>) = 4
  BY <1>5
<1> QED BY <1>6, <1>7, <1>8

\* What is shorter than what fits, fits.
LEMMA ShorterQuotient ==
  ASSUME NEW m \in Nat, NEW n \in Nat, m <= n
  PROVE  m \div 256 \in Nat /\ n \div 256 \in Nat /\ m \div 256 <= n \div 256
OBVIOUS

LEMMA ShorterFits ==
  ASSUME NEW m \in Nat, NEW n \in Nat, m <= n, FitsFourBytes(n)
  PROVE  FitsFourBytes(m)
<1>1. PICK a \in Nat, b \in Nat : a = m \div 256 /\ b = n \div 256 /\ a <= b
  BY ShorterQuotient
<1>2. PICK c \in Nat, d \in Nat : c = a \div 256 /\ d = b \div 256 /\ c <= d
  BY <1>1, ShorterQuotient
<1>3. PICK e \in Nat, f \in Nat : e = c \div 256 /\ f = d \div 256 /\ e <= f
  BY <1>2, ShorterQuotient
<1>4. f < 256
  BY <1>1, <1>2, <1>3 DEF FitsFourBytes
<1>5. e < 256
  BY <1>3, <1>4
<1> QED BY <1>1, <1>2, <1>3, <1>5 DEF FitsFourBytes

LEMMA CutInner ==
  ASSUME NEW S, NEW s \in Seq(S), NEW t \in Seq(S), NEW u \in Seq(S)
  PROVE  SubSeq((s \o t) \o u, Len(s) + 1, Len(s) + Len(t)) = t
BY CutMiddle, ConcatAssociative

\* These facts are all that is used of bytes one behind the other.
LEMMA CatExists ==
  ASSUME NEW s \in Octets, NEW t \in Octets
  PROVE  \E c : IsCat(c, s, t)
<1>1. IsCat(s \o t, s, t)
  BY DEF IsCat
<1> QED BY <1>1

LEMMA CatFacts ==
  ASSUME NEW c, NEW s, NEW t, IsCat(c, s, t)
  PROVE  /\ s \in Octets /\ t \in Octets /\ c \in Octets
         /\ Len(s) \in Nat /\ Len(t) \in Nat /\ Len(c) = Len(s) + Len(t)
         /\ Len(s) = 0 => c = t
         /\ Part(c, 1, Len(s)) = s
         /\ Part(c, Len(s) + 1, Len(c)) = t
<1>1. s \in Seq(Octet) /\ t \in Seq(Octet) /\ c = s \o t
  BY DEF IsCat, Octets
<1>2. s \o t \in Seq(Octet) /\ Len(s \o t) = Len(s) + Len(t)
  BY <1>1, ConcatProperties
<1>3. Len(s) = 0 => s \o t = t
  <2>1. Len(s) = 0 => s = <<>>
    BY <1>1, EmptySeq
  <2>2. <<>> \o t = t
    BY <1>1, ConcatEmptySeq
  <2> QED BY <2>1, <2>2
<1>4. SubSeq(s \o t, 1, Len(s)) = s
  BY <1>1, CutFirst
<1>5. SubSeq(s \o t, Len(s) + 1, Len(s \o t)) = t
  BY <1>1, CutRest
<1>6. Len(s) \in Nat /\ Len(t) \in Nat
  BY <1>1
<1> QED BY <1>1, <1>2, <1>3, <1>4, <1>5, <1>6 DEF Octets, Part

LEMMA CatAssociative ==
  ASSUME NEW s, NEW t, NEW u, NEW v, NEW w, NEW c,
         IsCat(v, s, t), IsCat(c, v, u), IsCat(w, t, u)
  PROVE  IsCat(c, s, w)
<1>1. s \in Seq(Octet) /\ t \in Seq(Octet) /\ u \in Seq(Octet)
  BY DEF IsCat, Octets
<1>2. (s \o t) \o u = s \o (t \o u)
  BY <1>1, ConcatAssociative
<1>3. t \o u \in Seq(Octet)
  BY <1>1, ConcatProperties
<1> QED BY <1>2, <1>3 DEF IsCat, Octets

LEMMA CatMiddle ==
  ASSUME NEW s, NEW t, NEW u, NEW v, NEW c, IsCat(v, s, t), IsCat(c, v, u)
  PROVE  Part(c, Len(s) + 1, Len(v)) = t
<1>1. s \in Seq(Octet) /\ t \in Seq(Octet) /\ u \in Seq(Octet)
  BY DEF IsCat, Octets
<1>2. SubSeq((s \o t) \o u, Len(s) + 1, Len(s) + Len(t)) = t
  BY <1>1, CutInner
<1>3. Len(v) = Len(s) + Len(t)
  BY CatFacts
<1>4. c = (s \o t) \o u
  BY DEF IsCat
<1> QED BY <1>2, <1>3, <1>4 DEF Part

\* A length is read as it was written, wherever it stands.
LEMMA LengthRead ==
  ASSUME NEW z, NEW n \in Nat, FitsFourBytes(n), NEW u,
         NEW v, IsCat(v, z, ToFlatBinary(n)), NEW r, IsCat(r, v, u)
  PROVE  FromFlatBinary(Part(r, Len(z) + 1, Len(v))) = n
<1>1. FromFlatBinary(ToFlatBinary(n)) = n
  BY FlatBinaryRoundTrip
<1>2. Part(r, Len(z) + 1, Len(v)) = ToFlatBinary(n)
  BY CatMiddle
<1> QED BY <1>1, <1>2

LEMMA LengthTaken ==
  ASSUME NEW z, NEW n \in Nat, FitsFourBytes(n), NEW v, IsCat(v, z, ToFlatBinary(n))
  PROVE  Len(v) = Len(z) + 4
<1>1. Len(ToFlatBinary(n)) = 4
  BY FlatBinaryRoundTrip
<1>2. Len(v) = Len(z) + Len(ToFlatBinary(n))
  BY CatFacts
<1> QED BY <1>1, <1>2

LEMMA AppendNext ==
  ASSUME NEW S, NEW s \in Seq(S), NEW k \in Nat, k < Len(s)
  PROVE  Append(SubSeq(s, 1, k), s[k + 1]) = SubSeq(s, 1, k + 1)
<1>1. PICK n \in Nat : n = Len(s)
  OBVIOUS
<1>2. 1 \in 1 .. Len(s) /\ k + 1 \in 1 .. Len(s) /\ (k + 1) - 1 = k
  BY <1>1
<1>3. SubSeq(s, 1, k + 1) = SubSeq(s, 1, (k + 1) - 1) \o <<s[k + 1]>>
  BY <1>2, SubSeqRecursiveSecond
<1>4. \A i \in 1 .. k : s[i] \in S
  BY <1>1
<1>5. SubSeq(s, 1, k) \in Seq(S) /\ s[k + 1] \in S
  BY <1>2, <1>4, SubSeqProperties, ElementOfSeq
<1>6. Append(SubSeq(s, 1, k), s[k + 1]) = SubSeq(s, 1, k) \o <<s[k + 1]>>
  BY <1>5, AppendIsConcat
<1> QED BY <1>2, <1>3, <1>6

\* What com packets, packets and payloads are.
LEMMA BoundedIsSeq ==
  ASSUME NEW S, NEW n \in Nat, NEW s \in BoundedSeq(S, n)
  PROVE  s \in Seq(S)
<1>1. PICK m \in 0 .. n : s \in [1 .. m -> S]
  BY DEF BoundedSeq, SeqOf
<1> QED BY <1>1, SeqDef

LEMMA PacketFacts ==
  ASSUME NEW p \in Packet
  PROVE  /\ p.tsn \in Nat /\ FitsFourBytes(p.tsn) /\ p.payload \in Seq(Payloads)
         /\ p = [tsn |-> p.tsn, payload |-> p.payload]
<1>1. p.tsn \in SessionNumbers /\ p.payload \in BoundedSeq(Payloads, MaxSubPackets)
      /\ p = [tsn |-> p.tsn, payload |-> p.payload]
  BY DEF Packet
<1>2. p.tsn \in Nat /\ FitsFourBytes(p.tsn) /\ MaxSubPackets \in Nat
  BY <1>1, PacketsAssumption
<1>3. p.payload \in Seq(Payloads)
  BY <1>1, <1>2, BoundedIsSeq
<1> QED BY <1>1, <1>2, <1>3

LEMMA PayloadFacts ==
  ASSUME NEW s \in Payloads
  PROVE  /\ s \in Octets /\ Len(s) \in Nat
         /\ PaddedPayloadLength(s) \in Nat /\ Len(s) <= PaddedPayloadLength(s)
         /\ Len(s) % 4 = 0 => PaddedPayloadLength(s) = Len(s)
<1>1. s \in Octets
  BY PacketsAssumption DEF Octet, Octets
<1>2. PICK n \in Nat : n = Len(s)
  BY <1>1 DEF Octets
<1>3. ((n + 3) \div 4) * 4 \in Nat /\ n <= ((n + 3) \div 4) * 4
      /\ ((n % 4 = 0) => ((n + 3) \div 4) * 4 = n)
  OBVIOUS
<1> QED BY <1>1, <1>2, <1>3 DEF PaddedPayloadLength

LEMMA SubSizesFacts ==
  ASSUME NEW p \in Packet
  PROVE  /\ SubSizes(p) \in Seq(Nat) /\ Len(SubSizes(p)) = Len(p.payload)
         /\ \A j \in 1 .. Len(p.payload) :
              SubSizes(p)[j] = 12 + PaddedPayloadLength(p.payload[j])
         /\ PayloadLength(p) = Total(SubSizes(p)) /\ PayloadLength(p) \in Nat
<1>1. PICK n \in Nat : n = Len(p.payload) /\ DOMAIN p.payload = 1 .. n
      /\ \A j \in 1 .. n : p.payload[j] \in Payloads
  BY PacketFacts
<1>2. \A j \in 1 .. n : 12 + PaddedPayloadLength(p.payload[j]) \in Nat
  BY <1>1, PayloadFacts
<1>3. SubSizes(p) = [j \in 1 .. n |-> 12 + PaddedPayloadLength(p.payload[j])]
  BY <1>1 DEF SubSizes, SubHeader
<1>4. SubSizes(p) \in [1 .. n -> Nat]
  BY <1>2, <1>3
<1>5. SubSizes(p) \in Seq(Nat) /\ Len(SubSizes(p)) = n
  BY <1>4
<1>6. PayloadLength(p) = Total(SubSizes(p))
  BY DEF PayloadLength, SubSizes
<1>7. Total(SubSizes(p)) \in Nat
  <2>1. n \in 0 .. n
    OBVIOUS
  <2> QED BY <1>5, <2>1, SumsFacts DEF Total
<1> QED BY <1>1, <1>3, <1>5, <1>6, <1>7

LEMMA SizesFacts ==
  ASSUME NEW c \in Seq(Packet)
  PROVE  /\ Sizes(c) \in Seq(Nat) /\ Len(Sizes(c)) = Len(c)
         /\ \A i \in 1 .. Len(c) : Sizes(c)[i] = 24 + PayloadLength(c[i])
         /\ ComPayloadLength(c) = Total(Sizes(c)) /\ ComPayloadLength(c) \in Nat
<1>1. PICK n \in Nat : n = Len(c) /\ DOMAIN c = 1 .. n /\ \A i \in 1 .. n : c[i] \in Packet
  OBVIOUS
<1>2. ASSUME NEW i \in 1 .. n  PROVE 24 + PayloadLength(c[i]) \in Nat
  <2>1. c[i] \in Packet
    BY <1>1
  <2>2. PayloadLength(c[i]) \in Nat
    BY <2>1, SubSizesFacts
  <2> QED BY <2>2
<1>3. Sizes(c) = [i \in 1 .. n |-> 24 + PayloadLength(c[i])]
  BY <1>1 DEF Sizes, PacketHeader
<1>4. Sizes(c) \in [1 .. n -> Nat]
  BY <1>2, <1>3
<1>5. Sizes(c) \in Seq(Nat) /\ Len(Sizes(c)) = n
  BY <1>4
<1>6. ComPayloadLength(c) = Total(Sizes(c))
  BY DEF ComPayloadLength, Sizes
<1>7. Total(Sizes(c)) \in Nat
  <2>1. n \in 0 .. n
    OBVIOUS
  <2> QED BY <1>5, <2>1, SumsFacts DEF Total
<1> QED BY <1>1, <1>3, <1>5, <1>6, <1>7

\* No length of a part of a com packet needs more than four bytes.
LEMMA PartsFit ==
  ASSUME NEW c \in BoundedSeq(Packet, MaxPackets), NEW i \in 1 .. Len(c)
  PROVE  /\ c \in Seq(Packet) /\ c[i] \in Packet
         /\ FitsFourBytes(ComPayloadLength(c))
         /\ FitsFourBytes(PayloadLength(c[i]))
         /\ \A j \in 1 .. Len(c[i].payload) :
              c[i].payload[j] \in Payloads /\ FitsFourBytes(Len(c[i].payload[j]))
<1>1. MaxPackets \in Nat /\ FitsFourBytes(ComPayloadLength(c))
  BY PacketsAssumption
<1>2. c \in Seq(Packet)
  BY <1>1, BoundedIsSeq
<1>3. PICK p \in Packet : p = c[i]
  BY <1>2
<1>4. PayloadLength(p) \in Nat /\ SubSizes(p) \in Seq(Nat) /\ PayloadLength(p) = Total(SubSizes(p))
  BY SubSizesFacts
<1>5. FitsFourBytes(PayloadLength(p))
  <2>1. Sizes(c) \in Seq(Nat) /\ Len(Sizes(c)) = Len(c) /\ Sizes(c)[i] = 24 + PayloadLength(p)
        /\ ComPayloadLength(c) = Total(Sizes(c)) /\ ComPayloadLength(c) \in Nat
    BY <1>2, <1>3, SizesFacts
  <2>2. Sizes(c)[i] <= Total(Sizes(c))
    BY <2>1, SumBounds
  <2>3. PayloadLength(p) <= ComPayloadLength(c)
    BY <1>4, <2>1, <2>2
  <2> QED BY <1>1, <1>4, <2>1, <2>3, ShorterFits
<1>6. ASSUME NEW j \in 1 .. Len(p.payload)
      PROVE  p.payload[j] \in Payloads /\ FitsFourBytes(Len(p.payload[j]))
  <2>1. PICK s \in Payloads : s = p.payload[j]
    BY PacketFacts
  <2>2. Len(s) \in Nat /\ PaddedPayloadLength(s) \in Nat /\ Len(s) <= PaddedPayloadLength(s)
    BY PayloadFacts
  <2>3. j \in 1 .. Len(SubSizes(p)) /\ SubSizes(p)[j] = 12 + PaddedPayloadLength(s)
    BY <2>1, SubSizesFacts
  <2>4. SubSizes(p)[j] <= Total(SubSizes(p))
    BY <1>4, <2>3, SumBounds
  <2>5. Len(s) <= PayloadLength(p)
    BY <1>4, <2>2, <2>3, <2>4
  <2> QED BY <1>4, <1>5, <2>1, <2>2, <2>5, ShorterFits
<1> QED BY <1>1, <1>2, <1>3, <1>5, <1>6

LEMMA ZerosFacts ==
  ASSUME NEW n \in Nat
  PROVE  Zeros(n) \in Octets /\ Len(Zeros(n)) = n
<1>1. Zeros(n) = [i \in 1 .. n |-> 0] /\ 0 \in Octet
  BY DEF Zeros, Octet
<1>2. Zeros(n) \in [1 .. n -> Octet]
  BY <1>1
<1>3. Zeros(n) \in Seq(Octet) /\ Len(Zeros(n)) = n
  BY <1>2
<1> QED BY <1>3 DEF Octets

\* What a sub packet is saved to: its header, the payload and what it is padded with.
LEMMA SubPacketParts ==
  ASSUME NEW s \in Payloads, FitsFourBytes(Len(s))
  PROVE  \E z, v, h, p :
           /\ Len(z) = 8 /\ IsCat(h, z, ToFlatBinary(Len(s))) /\ IsCat(v, h, s)
           /\ IsCat(SaveSubPacket(s), v, p) /\ (Len(s) % 4 = 0 => Len(p) = 0)
<1>1. s \in Octets /\ Len(s) \in Nat /\ PaddedPayloadLength(s) \in Nat
      /\ Len(s) <= PaddedPayloadLength(s)
      /\ (Len(s) % 4 = 0 => PaddedPayloadLength(s) = Len(s))
  BY PayloadFacts
<1>2. PICK t \in Octets : t = ToFlatBinary(Len(s))
  BY <1>1, FlatBinaryRoundTrip DEF Octets
<1>3. PICK z \in Octets : z = Zeros(8) /\ Len(z) = 8
  BY ZerosFacts
<1>4. PICK p \in Octets :
        p = Zeros(PaddedPayloadLength(s) - Len(s)) /\ (Len(s) % 4 = 0 => Len(p) = 0)
  <2>1. PaddedPayloadLength(s) - Len(s) \in Nat
        /\ (Len(s) % 4 = 0 => PaddedPayloadLength(s) - Len(s) = 0)
    BY <1>1
  <2> QED BY <2>1, ZerosFacts
<1>5. SaveSubPacket(s) = ((z \o t) \o s) \o p
  BY <1>2, <1>3, <1>4 DEF SaveSubPacket
<1>6. PICK h : IsCat(h, z, t)
  BY <1>2, <1>3, CatExists
<1>7. PICK v : IsCat(v, h, s)
  <2>1. h \in Octets
    BY <1>6, CatFacts
  <2> QED BY <1>1, <2>1, CatExists
<1>8. IsCat(SaveSubPacket(s), v, p)
  <2>1. v \in Octets
    BY <1>7, CatFacts
  <2>2. h = z \o t /\ v = h \o s
    BY <1>6, <1>7 DEF IsCat
  <2> QED BY <1>5, <2>1, <2>2 DEF IsCat
<1> QED BY <1>2, <1>3, <1>4, <1>6, <1>7, <1>8

\* A sub packet is read as it was written; what follows it is left, unless it was padded.
LEMMA SubPacketRead ==
  ASSUME NEW s \in Payloads, FitsFourBytes(Len(s)), NEW u,
         NEW r, IsCat(r, SaveSubPacket(s), u)
  PROVE  /\ Len(r) \in Nat /\ 12 + Len(s) <= Len(r)
         /\ FromFlatBinary(Part(r, 9, 12)) = Len(s)
         /\ Part(r, 13, 12 + Len(s)) = s
         /\ Len(s) % 4 = 0 => Part(r, 12 + Len(s) + 1, Len(r)) = u
<1>1. PICK n \in Nat : n = Len(s)
  BY PayloadFacts
<1>2. PICK z, v, h, p :
        /\ Len(z) = 8 /\ IsCat(h, z, ToFlatBinary(n)) /\ IsCat(v, h, s)
        /\ IsCat(SaveSubPacket(s), v, p) /\ (n % 4 = 0 => Len(p) = 0)
  BY <1>1, SubPacketParts
<1>3. IsCat(r, SaveSubPacket(s), u)
  OBVIOUS
<1>4. PICK w : IsCat(w, p, u) /\ IsCat(r, v, w)
  <2>1. p \in Octets /\ u \in Octets
    BY <1>2, <1>3, CatFacts
  <2>2. PICK w : IsCat(w, p, u)
    BY <2>1, CatExists
  <2>3. IsCat(r, v, w)
    BY <1>2, <1>3, <2>2, CatAssociative
  <2> QED BY <2>2, <2>3
<1>5. PICK x : IsCat(x, s, w) /\ IsCat(r, h, x)
  <2>1. s \in Octets /\ w \in Octets
    BY <1>2, <1>4, CatFacts
  <2>2. PICK x : IsCat(x, s, w)
    BY <2>1, CatExists
  <2>3. IsCat(r, h, x)
    BY <1>2, <1>4, <2>2, CatAssociative
  <2> QED BY <2>2, <2>3
<1>6. Len(h) = 12 /\ FromFlatBinary(Part(r, 9, 12)) = n
  <2>1. FitsFourBytes(n) /\ IsCat(h, z, ToFlatBinary(n)) /\ IsCat(r, h, x)
    BY <1>1, <1>2, <1>5
  <2>2. Len(h) = Len(z) + 4
    BY <2>1, LengthTaken
  <2>3. FromFlatBinary(Part(r, Len(z) + 1, Len(h))) = n
    BY <2>1, LengthRead
  <2>4. Len(z) + 1 = 9 /\ Len(h) = 12
    BY <1>2, <2>2
  <2> QED BY <2>3, <2>4
<1>7. Len(v) = 12 + n
  <2>1. Len(v) = Len(h) + Len(s)
    BY <1>2, CatFacts
  <2> QED BY <1>1, <1>6, <2>1
<1>8. Len(r) = Len(v) + Len(w) /\ Len(w) \in Nat
  BY <1>4, CatFacts
<1>9. Part(r, Len(h) + 1, Len(v)) = s
  BY <1>2, <1>4, CatMiddle
<1>10. Part(r, Len(v) + 1, Len(r)) = w
  BY <1>4, CatFacts
<1>11. n % 4 = 0 => w = u
  BY <1>2, <1>4, CatFacts
<1>12. 12 + 1 = 13
  OBVIOUS
<1> QED BY <1>1, <1>6, <1>7, <1>8, <1>9, <1>10, <1>11, <1>12

\* Pieces one behind the other, from the k-th on.
LEMMA FromPieces ==
  ASSUME NEW n \in Nat, NEW ss \in [1 .. n -> Octets]
  PROVE  /\ \A k \in 1 .. n + 1 : From(ss)[k] \in Octets
         /\ From(ss)[n + 1] = <<>>
         /\ \A k \in 1 .. n : IsCat(From(ss)[k], ss[k], From(ss)[k + 1])
<1>1. ss \in Seq(Seq(Octet)) /\ Len(ss) = n
  BY DEF Octets
<1>2. From(ss) \in [1 .. n + 1 -> Seq(Octet)] /\ From(ss)[n + 1] = <<>>
      /\ \A k \in 1 .. n : From(ss)[k] = ss[k] \o From(ss)[k + 1]
  BY <1>1, FromFacts
<1>3. \A k \in 1 .. n + 1 : From(ss)[k] \in Octets
  BY <1>2 DEF Octets
<1>4. ASSUME NEW k \in 1 .. n  PROVE IsCat(From(ss)[k], ss[k], From(ss)[k + 1])
  <2>1. k + 1 \in 1 .. n + 1 /\ ss[k] \in Octets
    OBVIOUS
  <2> QED BY <1>2, <1>3, <2>1 DEF IsCat
<1> QED BY <1>2, <1>3, <1>4

LEMMA SavedSubsFacts ==
  ASSUME NEW p \in Packet,
         \A j \in 1 .. Len(p.payload) :
           p.payload[j] \in Payloads /\ FitsFourBytes(Len(p.payload[j]))
  PROVE  /\ Len(p.payload) \in Nat
         /\ \A j \in 1 .. Len(p.payload) + 1 : From(SavedSubs(p))[j] \in Octets
         /\ From(SavedSubs(p))[Len(p.payload) + 1] = <<>>
         /\ \A j \in 1 .. Len(p.payload) :
              IsCat(From(SavedSubs(p))[j], SaveSubPacket(p.payload[j]), From(SavedSubs(p))[j + 1])
<1>1. PICK n \in Nat : n = Len(p.payload) /\ DOMAIN p.payload = 1 .. n
  BY PacketFacts
<1>2. ASSUME NEW j \in 1 .. n  PROVE SaveSubPacket(p.payload[j]) \in Octets
  <2>1. PICK v, r : IsCat(SaveSubPacket(p.payload[j]), v, r)
    BY <1>1, SubPacketParts
  <2> QED BY <2>1, CatFacts
<1>3. SavedSubs(p) = [j \in 1 .. n |-> SaveSubPacket(p.payload[j])]
  BY <1>1 DEF SavedSubs
<1>4. SavedSubs(p) \in [1 .. n -> Octets]
  BY <1>2, <1>3
<1>5. \A j \in 1 .. n : SavedSubs(p)[j] = SaveSubPacket(p.payload[j])
  BY <1>3
<1>6. /\ \A k \in 1 .. n + 1 : From(SavedSubs(p))[k] \in Octets
      /\ From(SavedSubs(p))[n + 1] = <<>>
      /\ \A k \in 1 .. n : IsCat(From(SavedSubs(p))[k], SavedSubs(p)[k], From(SavedSubs(p))[k + 1])
  BY <1>4, FromPieces
<1> QED BY <1>1, <1>5, <1>6

\* What a packet is saved to: its header and its sub packets.
LEMMA PacketParts ==
  ASSUME NEW p \in Packet, FitsFourBytes(PayloadLength(p)),
         From(SavedSubs(p))[1] \in Octets
  PROVE  \E z, g, h :
           /\ Len(z) = 16 /\ IsCat(g, ToFlatBinary(p.tsn), z)
           /\ IsCat(h, g, ToFlatBinary(PayloadLength(p)))
           /\ IsCat(SavePacket(p), h, From(SavedSubs(p))[1])
<1>1. p.tsn \in Nat /\ FitsFourBytes(p.tsn) /\ PayloadLength(p) \in Nat
  BY PacketFacts, SubSizesFacts
<1>2. PICK t \in Octets : t = ToFlatBinary(p.tsn)
  BY <1>1, FlatBinaryRoundTrip DEF Octets
<1>3. PICK l \in Octets : l = ToFlatBinary(PayloadLength(p))
  BY <1>1, FlatBinaryRoundTrip DEF Octets
<1>4. PICK z \in Octets : z = Zeros(16) /\ Len(z) = 16
  BY ZerosFacts
<1>5. PICK b \in Octets : b = From(SavedSubs(p))[1]
  OBVIOUS
<1>6. SavePacket(p) = ((t \o z) \o l) \o b
  BY <1>2, <1>3, <1>4, <1>5 DEF SavePacket, Joined, SavedSubs
<1>7. PICK g : IsCat(g, t, z)
  BY CatExists
<1>8. PICK h : IsCat(h, g, l)
  <2>1. g \in Octets
    BY <1>7, CatFacts
  <2> QED BY <2>1, CatExists
<1>9. IsCat(SavePacket(p), h, b)
  <2>1. h \in Octets
    BY <1>8, CatFacts
  <2>2. g = t \o z /\ h = g \o l
    BY <1>7, <1>8 DEF IsCat
  <2> QED BY <1>6, <2>1, <2>2 DEF IsCat
<1> QED BY <1>2, <1>3, <1>4, <1>5, <1>7, <1>8, <1>9

\* The header of a packet is read as it was written, and its sub packets are left.
LEMMA PacketRead ==
  ASSUME NEW p \in Packet, FitsFourBytes(PayloadLength(p)),
         From(SavedSubs(p))[1] \in Octets,
         NEW u, NEW r, IsCat(r, SavePacket(p), u)
  PROVE  /\ Len(r) \in Nat /\ 24 <= Len(r)
         /\ FromFlatBinary(Part(r, 1, 4)) = p.tsn
         /\ FromFlatBinary(Part(r, 21, 24)) = PayloadLength(p)
         /\ IsCat(Part(r, 25, Len(r)), From(SavedSubs(p))[1], u)
<1>1. PICK t, l, b : t = p.tsn /\ l = PayloadLength(p) /\ b = From(SavedSubs(p))[1]
  OBVIOUS
<1>2. t \in Nat /\ l \in Nat /\ FitsFourBytes(t) /\ FitsFourBytes(l) /\ b \in Octets
  BY <1>1, PacketFacts, SubSizesFacts
<1>3. PICK z, g, h : /\ Len(z) = 16 /\ IsCat(g, ToFlatBinary(t), z)
                     /\ IsCat(h, g, ToFlatBinary(l)) /\ IsCat(SavePacket(p), h, b)
  BY <1>1, PacketParts
<1>4. IsCat(r, SavePacket(p), u) /\ u \in Octets
  BY CatFacts
<1>5. PICK w : IsCat(w, b, u) /\ IsCat(r, h, w)
  <2>1. PICK w : IsCat(w, b, u)
    BY <1>2, <1>4, CatExists
  <2>2. IsCat(r, h, w)
    BY <1>3, <1>4, <2>1, CatAssociative
  <2> QED BY <2>1, <2>2
<1>6. PICK x : IsCat(x, ToFlatBinary(l), w) /\ IsCat(r, g, x)
  <2>1. ToFlatBinary(l) \in Octets /\ w \in Octets
    BY <1>3, <1>5, CatFacts
  <2>2. PICK x : IsCat(x, ToFlatBinary(l), w)
    BY <2>1, CatExists
  <2>3. IsCat(r, g, x)
    BY <1>3, <1>5, <2>2, CatAssociative
  <2> QED BY <2>2, <2>3
<1>7. PICK y : IsCat(r, ToFlatBinary(t), y)
  <2>1. z \in Octets /\ x \in Octets
    BY <1>3, <1>6, CatFacts
  <2>2. PICK y : IsCat(y, z, x)
    BY <2>1, CatExists
  <2>3. IsCat(r, ToFlatBinary(t), y)
    BY <1>3, <1>6, <2>2, CatAssociative
  <2> QED BY <2>3
<1>8. Len(ToFlatBinary(t)) = 4 /\ FromFlatBinary(ToFlatBinary(t)) = t
  BY <1>2, FlatBinaryRoundTrip
<1>9. Part(r, 1, Len(ToFlatBinary(t))) = ToFlatBinary(t)
  BY <1>7, CatFacts
<1>10. Len(g) = 20
  <2>1. Len(g) = Len(ToFlatBinary(t)) + Len(z)
    BY <1>3, CatFacts
  <2> QED BY <1>3, <1>8, <2>1
<1>11. Len(h) = 24
  <2>1. Len(h) = Len(g) + 4
    BY <1>2, <1>3, LengthTaken
  <2> QED BY <1>10, <2>1
<1>12. FromFlatBinary(Part(r, Len(g) + 1, Len(h))) = l
  BY <1>2, <1>3, <1>5, LengthRead
<1>13. Len(r) = Len(h) + Len(w) /\ Len(w) \in Nat
  BY <1>5, CatFacts
<1>14. Part(r, Len(h) + 1, Len(r)) = w
  BY <1>5, CatFacts
<1>15. 20 + 1 = 21 /\ 24 + 1 = 25
  OBVIOUS
<1>16. Len(r) \in Nat /\ 24 <= Len(r)
  BY <1>11, <1>13
<1>17. FromFlatBinary(Part(r, 1, 4)) = t /\ FromFlatBinary(Part(r, 21, 24)) = l
       /\ Part(r, 25, Len(r)) = w
  BY <1>8, <1>9, <1>10, <1>11, <1>12, <1>14, <1>15
<1> QED BY <1>1, <1>5, <1>16, <1>17

LEMMA SavedFacts ==
  ASSUME NEW c \in BoundedSeq(Packet, MaxPackets)
  PROVE  /\ Len(c) \in Nat
         /\ \A i \in 1 .. Len(c) :
              /\ From(SavedSubs(c[i]))[1] \in Octets
              /\ IsCat(From(Saved(c))[i], SavePacket(c[i]), From(Saved(c))[i + 1])
         /\ \A i \in 1 .. Len(c) + 1 : From(Saved(c))[i] \in Octets
         /\ From(Saved(c))[Len(c) + 1] = <<>>
<1>1. c \in Seq(Packet)
  BY PacketsAssumption, BoundedIsSeq
<1>2. PICK n \in Nat : n = Len(c) /\ DOMAIN c = 1 .. n
  BY <1>1
<1>3. ASSUME NEW i \in 1 .. n
      PROVE  From(SavedSubs(c[i]))[1] \in Octets /\ SavePacket(c[i]) \in Octets
  <2>1. PICK p : p = c[i]
    OBVIOUS
  <2>2. /\ p \in Packet /\ FitsFourBytes(PayloadLength(p))
        /\ \A j \in 1 .. Len(p.payload) :
             p.payload[j] \in Payloads /\ FitsFourBytes(Len(p.payload[j]))
    BY <1>2, <2>1, PartsFit
  <2>3. Len(p.payload) \in Nat /\ \A j \in 1 .. Len(p.payload) + 1 : From(SavedSubs(p))[j] \in Octets
    BY <2>2, SavedSubsFacts
  <2>4. From(SavedSubs(p))[1] \in Octets
    BY <2>3
  <2>5. PICK h : IsCat(SavePacket(p), h, From(SavedSubs(p))[1])
    BY <2>2, <2>4, PacketParts
  <2>6. SavePacket(p) \in Octets
    BY <2>5, CatFacts
  <2> QED BY <2>1, <2>4, <2>6
<1>4. Saved(c) = [i \in 1 .. n |-> SavePacket(c[i])]
  BY <1>2 DEF Saved
<1>5. Saved(c) \in [1 .. n -> Octets] /\ \A i \in 1 .. n : Saved(c)[i] = SavePacket(c[i])
  BY <1>3, <1>4
<1>6. /\ \A k \in 1 .. n + 1 : From(Saved(c))[k] \in Octets
      /\ From(Saved(c))[n + 1] = <<>>
      /\ \A k \in 1 .. n : IsCat(From(Saved(c))[k], Saved(c)[k], From(Saved(c))[k + 1])
  BY <1>5, FromPieces
<1> QED BY <1>2, <1>3, <1>5, <1>6

\* The header of a com packet is read as it was written, and its packets are left.
LEMMA ComRead ==
  ASSUME NEW c \in BoundedSeq(Packet, MaxPackets), NEW r, r = SaveComPacket(c)
  PROVE  /\ Len(r) \in Nat /\ 20 <= Len(r)
         /\ FromFlatBinary(Part(r, 17, 20)) = ComPayloadLength(c)
         /\ Part(r, 21, Len(r)) = From(Saved(c))[1]
<1>1. PICK l, b : l = ComPayloadLength(c) /\ b = From(Saved(c))[1]
  OBVIOUS
<1>2. l \in Nat /\ FitsFourBytes(l)
  <2>1. c \in Seq(Packet) /\ FitsFourBytes(ComPayloadLength(c))
    BY PacketsAssumption, BoundedIsSeq
  <2> QED BY <1>1, <2>1, SizesFacts
<1>3. b \in Octets
  <2>1. 1 \in 1 .. Len(c) + 1
    BY SavedFacts
  <2> QED BY <1>1, <2>1, SavedFacts
<1>4. PICK z \in Octets : z = Zeros(16) /\ Len(z) = 16
  BY ZerosFacts
<1>5. PICK t \in Octets : t = ToFlatBinary(l)
  BY <1>2, FlatBinaryRoundTrip DEF Octets
<1>6. r = (z \o t) \o b
  BY <1>1, <1>4, <1>5 DEF SaveComPacket, Joined, Saved
<1>7. PICK h : IsCat(h, z, t)
  BY CatExists
<1>8. IsCat(r, h, b)
  <2>1. h \in Octets
    BY <1>7, CatFacts
  <2>2. h = z \o t
    BY <1>7 DEF IsCat
  <2> QED BY <1>3, <1>6, <2>1, <2>2 DEF IsCat
<1>9. IsCat(h, z, ToFlatBinary(l))
  BY <1>5, <1>7
<1>10. Len(h) = Len(z) + 4
  BY <1>2, <1>9, LengthTaken
<1>11. Len(z) + 1 = 17 /\ Len(h) = 20 /\ Len(h) + 1 = 21
  <2>1. Len(z) = 16
    BY <1>4
  <2>2. Len(z) + 1 = 17
    BY <2>1
  <2>3. Len(h) = 20
    BY <1>10, <2>1
  <2>4. Len(h) + 1 = 21
    BY <2>3
  <2> QED BY <2>2, <2>3, <2>4
<1>12. FromFlatBinary(Part(r, Len(z) + 1, Len(h))) = l
  BY <1>2, <1>8, <1>9, LengthRead
<1>13. Part(r, Len(h) + 1, Len(r)) = b
  BY <1>8, CatFacts
<1>14. Len(r) = Len(h) + Len(b) /\ Len(b) \in Nat
  BY <1>8, CatFacts
<1>15. Len(r) \in Nat /\ 20 <= Len(r)
  BY <1>11, <1>14
<1> QED BY <1>1, <1>11, <1>12, <1>13, <1>15

\* How far a com packet is loaded is known from how much of it is read, ...
LEMMA ComOffsets ==
  ASSUME NEW c \in Seq(Packet), NEW k \in 0 .. Len(c)
  PROVE  /\ Sums(Sizes(c))[0] = 0
         /\ k = Len(c) => Sums(Sizes(c))[k] = ComPayloadLength(c)
         /\ k < Len(c) =>
              /\ Sums(Sizes(c))[k + 1] = Sums(Sizes(c))[k] + (24 + PayloadLength(c[k + 1]))
              /\ Sums(Sizes(c))[k] \in Nat /\ Sums(Sizes(c))[k] < ComPayloadLength(c)
<1>1. PICK n \in Nat : n = Len(c)
  OBVIOUS
<1>2. PICK ns \in Seq(Nat) : ns = Sizes(c) /\ Len(ns) = n /\ ComPayloadLength(c) = Total(ns)
      /\ \A i \in 1 .. n : ns[i] = 24 + PayloadLength(c[i])
  BY <1>1, SizesFacts
<1>3. Sums(ns)[0] = 0
  BY SumsFacts
<1>4. k = n => Sums(ns)[k] = Total(ns)
  BY <1>2 DEF Total
<1>5. ASSUME k < n
      PROVE  /\ Sums(ns)[k + 1] = Sums(ns)[k] + (24 + PayloadLength(c[k + 1]))
             /\ Sums(ns)[k] \in Nat /\ Sums(ns)[k] < Total(ns)
  <2>1. k \in Nat /\ k + 1 \in 1 .. n
    BY <1>1, <1>5
  <2>2. PICK p \in Packet : p = c[k + 1]
    BY <1>1, <2>1
  <2>3. PayloadLength(p) \in Nat /\ ns[k + 1] = 24 + PayloadLength(p)
    BY <1>2, <2>1, <2>2, SubSizesFacts
  <2>4. 0 < ns[k + 1]
    BY <2>3
  <2>5. Sums(ns)[k + 1] = Sums(ns)[k] + ns[k + 1]
    BY <1>2, <1>5, <2>1, SumsNext
  <2>6. Sums(ns)[k] \in Nat /\ Sums(ns)[k] < Total(ns)
    BY <1>2, <1>5, <2>1, <2>4, SumsNext
  <2> QED BY <2>2, <2>3, <2>5, <2>6
<1> QED BY <1>1, <1>2, <1>3, <1>4, <1>5

\* ... and how far a packet is, likewise.
LEMMA PacketOffsets ==
  ASSUME NEW p \in Packet, NEW j \in 0 .. Len(p.payload)
  PROVE  /\ Sums(SubSizes(p))[0] = 0
         /\ j = Len(p.payload) => Sums(SubSizes(p))[j] = PayloadLength(p)
         /\ j < Len(p.payload) =>
              /\ Sums(SubSizes(p))[j + 1]
                   = Sums(SubSizes(p))[j] + (12 + PaddedPayloadLength(p.payload[j + 1]))
              /\ Sums(SubSizes(p))[j] \in Nat /\ Sums(SubSizes(p))[j] < PayloadLength(p)
<1>1. PICK n \in Nat : n = Len(p.payload)
  BY PacketFacts
<1>2. PICK ns \in Seq(Nat) : ns = SubSizes(p) /\ Len(ns) = n /\ PayloadLength(p) = Total(ns)
      /\ \A i \in 1 .. n : ns[i] = 12 + PaddedPayloadLength(p.payload[i])
  BY <1>1, SubSizesFacts
<1>3. Sums(ns)[0] = 0
  BY SumsFacts
<1>4. j = n => Sums(ns)[j] = Total(ns)
  BY <1>2 DEF Total
<1>5. ASSUME j < n
      PROVE  /\ Sums(ns)[j + 1] = Sums(ns)[j] + (12 + PaddedPayloadLength(p.payload[j + 1]))
             /\ Sums(ns)[j] \in Nat /\ Sums(ns)[j] < Total(ns)
  <2>1. j \in Nat /\ j + 1 \in 1 .. n
    BY <1>1, <1>5
  <2>2. PICK s \in Payloads : s = p.payload[j + 1]
    BY <1>1, <2>1, PacketFacts
  <2>3. PaddedPayloadLength(s) \in Nat /\ ns[j + 1] = 12 + PaddedPayloadLength(s)
    BY <1>2, <2>1, <2>2, PayloadFacts
  <2>4. 0 < ns[j + 1]
    BY <2>3
  <2>5. Sums(ns)[j + 1] = Sums(ns)[j] + ns[j + 1]
    BY <1>2, <1>5, <2>1, SumsNext
  <2>6. Sums(ns)[j] \in Nat /\ Sums(ns)[j] < Total(ns)
    BY <1>2, <1>5, <2>1, <2>4, SumsNext
  <2> QED BY <2>2, <2>3, <2>5, <2>6
<1> QED BY <1>1, <1>2, <1>3, <1>4, <1>5

-----------------------------------------------------------------------------
(* Loading preserves the invariant.                                        *)

LEMMA ComHeaderLoaded ==
  ASSUME PacketsInv, LoadInv, LoadComHeader
  PROVE  LoadInv'
<1>1. input \in BoundedSeq(Packet, MaxPackets) /\ input \in Seq(Packet)
  BY PacketsAssumption, BoundedIsSeq DEF PacketsInv
<1>2. rest = SaveComPacket(input) /\ com = [length |-> 0, offset |-> 0, packets |-> <<>>]
  BY DEF LoadInv, LoadComHeader
<1>3. /\ Len(rest) \in Nat /\ 20 <= Len(rest)
      /\ FromFlatBinary(Part(rest, 17, 20)) = ComPayloadLength(input)
      /\ Part(rest, 21, Len(rest)) = From(Saved(input))[1]
  BY <1>1, <1>2, ComRead
<1>4. LengthAt(20) = FromFlatBinary(Part(rest, 17, 20))
  BY DEF LengthAt, Part
<1>5. /\ com' = [com EXCEPT !.length = LengthAt(20)] /\ phase' = "packets"
      /\ rest' = Part(rest, 21, Len(rest)) /\ input' = input
  BY <1>3 DEF LoadComHeader, Extract, ComHeader, Part
<1>6. com' = [length |-> ComPayloadLength(input), offset |-> 0, packets |-> <<>>]
  BY <1>2, <1>3, <1>4, <1>5
<1>7. ComAfter(0)'
  <2>1. 0 \in 0 .. Len(input)
    BY <1>1
  <2>2. Sums(Sizes(input))[0] = 0
    BY <1>1, <2>1, ComOffsets
  <2>3. SubSeq(input, 1, 0) = <<>>
    BY SubSeqEmpty
  <2> QED BY <1>5, <1>6, <2>2, <2>3 DEF ComAfter
<1>8. \E k \in 0 .. Len(input') :
        ComAfter(k)' /\ (k < Len(input') => rest' = From(Saved(input'))[k + 1])
  <2>1. 0 \in 0 .. Len(input') /\ rest' = From(Saved(input'))[0 + 1]
    BY <1>1, <1>3, <1>5
  <2> QED BY <1>7, <2>1
<1> QED BY <1>5, <1>8 DEF LoadInv

LEMMA PacketHeaderLoaded ==
  ASSUME PacketsInv, LoadInv, LoadPacketHeader
  PROVE  LoadInv'
<1>1. input \in BoundedSeq(Packet, MaxPackets) /\ input \in Seq(Packet)
  BY PacketsAssumption, BoundedIsSeq DEF PacketsInv
<1>2. PICK n \in Nat : n = Len(input)
  BY <1>1
<1>3. PICK k \in 0 .. n : ComAfter(k) /\ (k < n => rest = From(Saved(input))[k + 1])
  BY <1>2 DEF LoadInv, LoadPacketHeader
<1>4. k < n
  <2>1. com.offset < com.length
    BY DEF LoadPacketHeader
  <2>2. com.offset = Sums(Sizes(input))[k] /\ com.length = ComPayloadLength(input)
    BY <1>3 DEF ComAfter
  <2>3. k = n => Sums(Sizes(input))[k] = ComPayloadLength(input)
    BY <1>1, <1>2, ComOffsets
  <2>4. ComPayloadLength(input) \in Nat
    BY <1>1, SizesFacts
  <2>5. k # n
    BY <2>1, <2>2, <2>3, <2>4
  <2> QED BY <2>5
<1>5. k \in 0 .. n - 1 /\ k + 1 \in 1 .. n /\ (k + 1) + 1 = k + 2 /\ k + 2 \in 1 .. n + 1
  BY <1>4
<1>6. PICK p : p = input[k + 1]
  OBVIOUS
<1>7. p \in Packet /\ FitsFourBytes(PayloadLength(p)) /\ From(SavedSubs(p))[1] \in Octets
  BY <1>1, <1>2, <1>5, <1>6, PartsFit, SavedFacts
<1>8. IsCat(rest, SavePacket(p), From(Saved(input))[k + 2])
  BY <1>1, <1>2, <1>3, <1>4, <1>5, <1>6, SavedFacts
<1>9. /\ Len(rest) \in Nat /\ 24 <= Len(rest)
      /\ FromFlatBinary(Part(rest, 1, 4)) = p.tsn
      /\ FromFlatBinary(Part(rest, 21, 24)) = PayloadLength(p)
      /\ IsCat(Part(rest, 25, Len(rest)), From(SavedSubs(p))[1], From(Saved(input))[k + 2])
  BY <1>7, <1>8, PacketRead
<1>10. LengthAt(24) = FromFlatBinary(Part(rest, 21, 24))
       /\ FromFlatBinary(SubSeq(rest, 1, 4)) = FromFlatBinary(Part(rest, 1, 4))
  BY DEF LengthAt, Part
<1>11. /\ packet' = [Unread EXCEPT !.tsn = FromFlatBinary(SubSeq(rest, 1, 4)),
                                   !.length = LengthAt(24)]
       /\ phase' = "subpackets" /\ rest' = Part(rest, 25, Len(rest))
       /\ input' = input /\ com' = com
  BY <1>9 DEF LoadPacketHeader, Extract, PacketHeader, Part
<1>12. packet' = [length |-> PayloadLength(p), offset |-> 0, tsn |-> p.tsn, payload |-> <<>>]
  BY <1>9, <1>10, <1>11 DEF Unread
<1>13. ComAfter(k)'
  BY <1>3, <1>11 DEF ComAfter
<1>14. PacketAfter(p, 0)'
  <2>1. 0 \in 0 .. Len(p.payload)
    BY <1>7, PacketFacts
  <2>2. Sums(SubSizes(p))[0] = 0
    BY <1>7, <2>1, PacketOffsets
  <2>3. SubSeq(p.payload, 1, 0) = <<>>
    BY SubSeqEmpty
  <2> QED BY <1>12, <2>2, <2>3 DEF PacketAfter
<1>15. 0 \in 0 .. Len(p.payload) /\ 0 + 1 = 1
  BY <1>7, PacketFacts
<1>16. IsCat(rest', From(SavedSubs(p))[0 + 1], From(Saved(input))[k + 2])
  BY <1>9, <1>11, <1>15
<1>17. \E i \in 0 .. Len(input') - 1 :
         /\ ComAfter(i)'
         /\ \E j \in 0 .. Len(input'[i + 1].payload) :
              /\ PacketAfter(input[i + 1], j)'
              /\ j < Len(input'[i + 1].payload) \/ i + 1 < Len(input') =>
                   IsCat(rest', From(SavedSubs(input'[i + 1]))[j + 1], From(Saved(input'))[i + 2])
  <2>1. k \in 0 .. Len(input') - 1 /\ input'[k + 1] = p
    BY <1>2, <1>5, <1>6, <1>11
  <2>2. PacketAfter(input[k + 1], 0)'
    BY <2>1, <1>14 DEF PacketAfter
  <2>3. \E j \in 0 .. Len(input'[k + 1].payload) :
          /\ PacketAfter(input[k + 1], j)'
          /\ j < Len(input'[k + 1].payload) \/ k + 1 < Len(input') =>
               IsCat(rest', From(SavedSubs(input'[k + 1]))[j + 1], From(Saved(input'))[k + 2])
    <3>1. 0 \in 0 .. Len(input'[k + 1].payload)
      BY <1>15, <2>1
    <3>2. IsCat(rest', From(SavedSubs(input'[k + 1]))[0 + 1], From(Saved(input'))[k + 2])
      BY <1>11, <1>16, <2>1
    <3> QED BY <2>2, <3>1, <3>2
  <2> QED BY <1>13, <2>1, <2>3
<1>18. phase' = "subpackets"
  BY <1>11
<1> QED BY <1>17, <1>18 DEF LoadInv

LEMMA SubPacketLoaded ==
  ASSUME PacketsInv, LoadInv, PaddedAtEnd(input), LoadSubPacket
  PROVE  LoadInv'
<1>1. input \in BoundedSeq(Packet, MaxPackets) /\ input \in Seq(Packet)
  BY PacketsAssumption, BoundedIsSeq DEF PacketsInv
<1>2. PICK n \in Nat : n = Len(input)
  BY <1>1
<1>3. PICK k \in 0 .. n - 1 :
        /\ ComAfter(k)
        /\ \E j \in 0 .. Len(input[k + 1].payload) :
             /\ PacketAfter(input[k + 1], j)
             /\ j < Len(input[k + 1].payload) \/ k + 1 < n =>
                  IsCat(rest, From(SavedSubs(input[k + 1]))[j + 1], From(Saved(input))[k + 2])
  BY <1>2 DEF LoadInv, LoadSubPacket
<1>4. PICK p : p = input[k + 1]
  OBVIOUS
<1>5. k + 1 \in 1 .. n /\ p \in Packet
  BY <1>1, <1>2, <1>4
<1>6. /\ Len(p.payload) \in Nat /\ p.payload \in Seq(Payloads)
      /\ \A i \in 1 .. Len(p.payload) :
           p.payload[i] \in Payloads /\ FitsFourBytes(Len(p.payload[i]))
  <2>1. k + 1 \in 1 .. Len(input)
    BY <1>2, <1>5
  <2>2. \A i \in 1 .. Len(input[k + 1].payload) :
          input[k + 1].payload[i] \in Payloads /\ FitsFourBytes(Len(input[k + 1].payload[i]))
    BY <1>1, <2>1, PartsFit
  <2>3. p.payload \in Seq(Payloads) /\ p = [tsn |-> p.tsn, payload |-> p.payload]
    BY <1>5, PacketFacts
  <2>4. Len(p.payload) \in Nat
    BY <2>3
  <2> QED BY <1>4, <2>2, <2>3, <2>4
<1>7. PICK m \in Nat : m = Len(p.payload)
  BY <1>6
<1>8. PICK u : u = From(Saved(input))[k + 2]
  OBVIOUS
<1>9. PICK j \in 0 .. m :
        PacketAfter(p, j) /\ (j < m \/ k + 1 < n => IsCat(rest, From(SavedSubs(p))[j + 1], u))
  BY <1>3, <1>4, <1>7, <1>8
<1>10. j < m
  <2>1. packet.offset < packet.length
    BY DEF LoadSubPacket
  <2>2. packet.offset = Sums(SubSizes(p))[j] /\ packet.length = PayloadLength(p)
    BY <1>9 DEF PacketAfter
  <2>3. j = m => Sums(SubSizes(p))[j] = PayloadLength(p)
    BY <1>5, <1>7, PacketOffsets
  <2>4. PayloadLength(p) \in Nat
    BY <1>5, SubSizesFacts
  <2>5. j # m
    BY <2>1, <2>2, <2>3, <2>4
  <2> QED BY <2>5
<1>11. j + 1 \in 1 .. m /\ (j + 1) + 1 = j + 2 /\ j \in 0 .. m /\ j + 1 \in 0 .. m
  BY <1>10
<1>12. PICK s \in Payloads : s = p.payload[j + 1] /\ FitsFourBytes(Len(s))
  BY <1>6, <1>7, <1>11
<1>13. PICK f : f = From(SavedSubs(p))[j + 2]
  OBVIOUS
<1>14. IsCat(From(SavedSubs(p))[j + 1], SaveSubPacket(s), f)
  BY <1>5, <1>6, <1>7, <1>11, <1>12, <1>13, SavedSubsFacts
<1>15. IsCat(rest, From(SavedSubs(p))[j + 1], u)
  BY <1>9, <1>10
<1>16. PICK w : IsCat(w, f, u) /\ IsCat(rest, SaveSubPacket(s), w)
  <2>1. f \in Octets /\ u \in Octets
    BY <1>14, <1>15, CatFacts
  <2>2. PICK w : IsCat(w, f, u)
    BY <2>1, CatExists
  <2>3. IsCat(rest, SaveSubPacket(s), w)
    BY <1>14, <1>15, <2>2, CatAssociative
  <2> QED BY <2>2, <2>3
<1>17. /\ Len(rest) \in Nat /\ 12 + Len(s) <= Len(rest)
       /\ FromFlatBinary(Part(rest, 9, 12)) = Len(s)
       /\ Part(rest, 13, 12 + Len(s)) = s
       /\ Len(s) % 4 = 0 => Part(rest, 12 + Len(s) + 1, Len(rest)) = w
  BY <1>12, <1>16, SubPacketRead
<1>18. Len(s) \in Nat /\ PaddedPayloadLength(s) \in Nat
  BY PayloadFacts
<1>19. LengthAt(12) = Len(s) /\ SubSeq(rest, 12 + 1, 12 + Len(s)) = s
       /\ ~ (Len(rest) < 12) /\ ~ (Len(rest) < 12 + Len(s))
  <2>1. LengthAt(12) = FromFlatBinary(Part(rest, 9, 12))
    BY DEF LengthAt, Part
  <2>2. SubSeq(rest, 13, 12 + Len(s)) = s /\ 12 + 1 = 13
    BY <1>17 DEF Part
  <2>3. ~ (Len(rest) < 12) /\ ~ (Len(rest) < 12 + Len(s))
    BY <1>17, <1>18
  <2> QED BY <1>17, <2>1, <2>2, <2>3
<1>20. /\ packet' = [packet EXCEPT !.offset = @ + 12 + PaddedPayloadLength(s),
                                   !.payload = Append(@, s)]
       /\ rest' = SubSeq(rest, 12 + Len(s) + 1, Len(rest))
       /\ com' = com /\ phase' = phase /\ input' = input /\ phase = "subpackets"
  BY <1>19 DEF LoadSubPacket, Extract, SubHeader
<1>21. packet' = [length |-> PayloadLength(p), offset |-> Sums(SubSizes(p))[j + 1],
                  tsn |-> p.tsn, payload |-> SubSeq(p.payload, 1, j + 1)]
  <2>1. packet = [length |-> PayloadLength(p), offset |-> Sums(SubSizes(p))[j],
                  tsn |-> p.tsn, payload |-> SubSeq(p.payload, 1, j)]
    BY <1>9 DEF PacketAfter
  <2>2. Append(SubSeq(p.payload, 1, j), s) = SubSeq(p.payload, 1, j + 1)
    BY <1>6, <1>7, <1>10, <1>12, AppendNext
  <2>3. Sums(SubSizes(p))[j] \in Nat
        /\ Sums(SubSizes(p))[j + 1] = Sums(SubSizes(p))[j] + (12 + PaddedPayloadLength(s))
    BY <1>5, <1>7, <1>10, <1>12, PacketOffsets
  <2>4. Sums(SubSizes(p))[j] + 12 + PaddedPayloadLength(s) = Sums(SubSizes(p))[j + 1]
    BY <1>18, <2>3
  <2> QED BY <1>20, <2>1, <2>2, <2>4
<1>22. ComAfter(k)'
  BY <1>3, <1>20 DEF ComAfter
<1>23. PacketAfter(p, j + 1)'
  BY <1>21 DEF PacketAfter
<1>24. j + 1 < m \/ k + 1 < n => IsCat(rest', From(SavedSubs(p))[(j + 1) + 1], u)
  <2> SUFFICES ASSUME j + 1 < m \/ k + 1 < n
               PROVE  IsCat(rest', From(SavedSubs(p))[(j + 1) + 1], u)
    OBVIOUS
  <2>1. DOMAIN input = 1 .. n /\ DOMAIN p.payload = 1 .. m
    BY <1>1, <1>2, <1>6, <1>7, LenProperties
  <2>2. k + 1 \in DOMAIN input /\ j + 1 \in DOMAIN input[k + 1].payload
    BY <1>4, <1>5, <1>11, <2>1
  <2>3. \/ Len(input[k + 1].payload[j + 1]) % 4 = 0
        \/ k + 1 = Len(input) /\ j + 1 = Len(input[k + 1].payload)
    <3>1. \A i \in DOMAIN input : \A h \in DOMAIN input[i].payload :
            \/ Len(input[i].payload[h]) % 4 = 0
            \/ i = Len(input) /\ h = Len(input[i].payload)
      BY DEF PaddedAtEnd
    <3> QED BY <2>2, <3>1, Zenon
  <2>4. Len(p.payload[j + 1]) % 4 = 0 \/ (k + 1 = n /\ j + 1 = m)
    BY <1>2, <1>4, <1>7, <2>3
  <2>5. Len(s) % 4 = 0
    <3>1. ~ (k + 1 = n /\ j + 1 = m)
      OBVIOUS
    <3>2. Len(p.payload[j + 1]) % 4 = 0
      BY <2>4, <3>1
    <3> QED BY <1>12, <3>2
  <2>6. rest' = w
    BY <1>17, <1>20, <2>5 DEF Part
  <2> QED BY <1>11, <1>13, <1>16, <2>6
<1>25. \E i \in 0 .. Len(input') - 1 :
         /\ ComAfter(i)'
         /\ \E h \in 0 .. Len(input'[i + 1].payload) :
              /\ PacketAfter(input[i + 1], h)'
              /\ h < Len(input'[i + 1].payload) \/ i + 1 < Len(input') =>
                   IsCat(rest', From(SavedSubs(input'[i + 1]))[h + 1], From(Saved(input'))[i + 2])
  <2>1. k \in 0 .. Len(input') - 1 /\ input'[k + 1] = p /\ Len(input') = n
        /\ From(Saved(input'))[k + 2] = u
    BY <1>2, <1>4, <1>8, <1>20
  <2>2. PacketAfter(input[k + 1], j + 1)'
    BY <2>1, <1>23 DEF PacketAfter
  <2>3. \E h \in 0 .. Len(input'[k + 1].payload) :
          /\ PacketAfter(input[k + 1], h)'
          /\ h < Len(input'[k + 1].payload) \/ k + 1 < Len(input') =>
               IsCat(rest', From(SavedSubs(input'[k + 1]))[h + 1], From(Saved(input'))[k + 2])
    <3>1. j + 1 \in 0 .. Len(input'[k + 1].payload)
      BY <1>7, <1>11, <2>1
    <3>2. j + 1 < Len(input'[k + 1].payload) \/ k + 1 < Len(input') =>
            IsCat(rest', From(SavedSubs(input'[k + 1]))[(j + 1) + 1], From(Saved(input'))[k + 2])
      BY <1>7, <1>24, <2>1
    <3> QED BY <2>2, <3>1, <3>2
  <2> QED BY <1>22, <2>1, <2>3
<1>26. phase' = "subpackets"
  BY <1>20
<1> QED BY <1>25, <1>26 DEF LoadInv

LEMMA PacketLoaded ==
  ASSUME PacketsInv, LoadInv, PacketDone
  PROVE  LoadInv'
<1>1. input \in BoundedSeq(Packet, MaxPackets) /\ input \in Seq(Packet)
  BY PacketsAssumption, BoundedIsSeq DEF PacketsInv
<1>2. PICK n \in Nat : n = Len(input)
  BY <1>1
<1>3. PICK k \in 0 .. n - 1 :
        /\ ComAfter(k)
        /\ \E j \in 0 .. Len(input[k + 1].payload) :
             /\ PacketAfter(input[k + 1], j)
             /\ j < Len(input[k + 1].payload) \/ k + 1 < n =>
                  IsCat(rest, From(SavedSubs(input[k + 1]))[j + 1], From(Saved(input))[k + 2])
  BY <1>2 DEF LoadInv, PacketDone
<1>4. PICK p : p = input[k + 1]
  OBVIOUS
<1>5. k + 1 \in 1 .. n /\ p \in Packet /\ k < n
  BY <1>1, <1>2, <1>4
<1>6. /\ Len(p.payload) \in Nat /\ p.payload \in Seq(Payloads)
      /\ p = [tsn |-> p.tsn, payload |-> p.payload]
      /\ \A i \in 1 .. Len(p.payload) :
           p.payload[i] \in Payloads /\ FitsFourBytes(Len(p.payload[i]))
  <2>1. k + 1 \in 1 .. Len(input)
    BY <1>2, <1>5
  <2>2. \A i \in 1 .. Len(input[k + 1].payload) :
          input[k + 1].payload[i] \in Payloads /\ FitsFourBytes(Len(input[k + 1].payload[i]))
    BY <1>1, <2>1, PartsFit
  <2>3. p.payload \in Seq(Payloads) /\ p = [tsn |-> p.tsn, payload |-> p.payload]
    BY <1>5, PacketFacts
  <2>4. Len(p.payload) \in Nat
    BY <2>3
  <2> QED BY <1>4, <2>2, <2>3, <2>4
<1>7. PICK m \in Nat : m = Len(p.payload)
  BY <1>6
<1>8. PICK u : u = From(Saved(input))[k + 2]
  OBVIOUS
<1>9. PICK j \in 0 .. m :
        PacketAfter(p, j) /\ (j < m \/ k + 1 < n => IsCat(rest, From(SavedSubs(p))[j + 1], u))
  BY <1>3, <1>4, <1>7, <1>8
<1>10. j = m
  <2>1. packet.offset >= packet.length
    BY DEF PacketDone
  <2>2. packet.offset = Sums(SubSizes(p))[j] /\ packet.length = PayloadLength(p)
    BY <1>9 DEF PacketAfter
  <2>3. j < m => Sums(SubSizes(p))[j] \in Nat /\ Sums(SubSizes(p))[j] < PayloadLength(p)
    BY <1>5, <1>7, PacketOffsets
  <2>4. PayloadLength(p) \in Nat
    BY <1>5, SubSizesFacts
  <2>5. ~ (j < m)
    BY <2>1, <2>2, <2>3, <2>4
  <2> QED BY <2>5
<1>11. [tsn |-> packet.tsn, payload |-> packet.payload] = p
  <2>1. packet.tsn = p.tsn /\ packet.payload = SubSeq(p.payload, 1, m)
    BY <1>9, <1>10 DEF PacketAfter
  <2>2. SubSeq(p.payload, 1, m) = p.payload
    BY <1>6, <1>7, SubSeqFull
  <2> QED BY <1>6, <2>1, <2>2
<1>12. /\ com' = [com EXCEPT !.offset = @ + 24 + PayloadLength(p), !.packets = Append(@, p)]
       /\ phase' = "packets" /\ input' = input /\ rest' = rest
  BY <1>11 DEF PacketDone, PacketHeader
<1>13. com' = [length |-> ComPayloadLength(input), offset |-> Sums(Sizes(input))[k + 1],
               packets |-> SubSeq(input, 1, k + 1)]
  <2>1. com = [length |-> ComPayloadLength(input), offset |-> Sums(Sizes(input))[k],
               packets |-> SubSeq(input, 1, k)]
    BY <1>3 DEF ComAfter
  <2>2. Append(SubSeq(input, 1, k), p) = SubSeq(input, 1, k + 1)
    BY <1>1, <1>2, <1>4, <1>5, AppendNext
  <2>3. Sums(Sizes(input))[k] \in Nat
        /\ Sums(Sizes(input))[k + 1] = Sums(Sizes(input))[k] + (24 + PayloadLength(p))
    BY <1>1, <1>2, <1>4, <1>5, ComOffsets
  <2>4. PayloadLength(p) \in Nat
    BY <1>5, SubSizesFacts
  <2>5. Sums(Sizes(input))[k] + 24 + PayloadLength(p) = Sums(Sizes(input))[k + 1]
    BY <2>3, <2>4
  <2> QED BY <1>12, <2>1, <2>2, <2>5
<1>14. ComAfter(k + 1)'
  BY <1>12, <1>13 DEF ComAfter
<1>15. k + 1 < n => rest' = From(Saved(input))[(k + 1) + 1]
  <2> SUFFICES ASSUME k + 1 < n  PROVE rest' = From(Saved(input))[(k + 1) + 1]
    OBVIOUS
  <2>1. IsCat(rest, From(SavedSubs(p))[m + 1], u)
    BY <1>9, <1>10
  <2>2. From(SavedSubs(p))[m + 1] = <<>>
    BY <1>5, <1>6, <1>7, SavedSubsFacts
  <2>3. Len(<<>>) = 0
    OBVIOUS
  <2>4. rest = u
    BY <2>1, <2>2, <2>3, CatFacts
  <2>5. (k + 1) + 1 = k + 2
    OBVIOUS
  <2> QED BY <1>8, <1>12, <2>4, <2>5
<1>16. \E i \in 0 .. Len(input') :
         ComAfter(i)' /\ (i < Len(input') => rest' = From(Saved(input'))[i + 1])
  <2>1. k + 1 \in 0 .. Len(input')
    BY <1>2, <1>5, <1>12
  <2>2. k + 1 < Len(input') => rest' = From(Saved(input'))[(k + 1) + 1]
    BY <1>2, <1>12, <1>15
  <2> QED BY <1>14, <2>1, <2>2
<1> QED BY <1>12, <1>16 DEF LoadInv

LEMMA ComPacketLoaded ==
  ASSUME PacketsInv, LoadInv, ComPacketDone
  PROVE  LoadInv'
<1>1. input \in Seq(Packet)
  BY PacketsAssumption, BoundedIsSeq DEF PacketsInv
<1>2. PICK n \in Nat : n = Len(input)
  BY <1>1
<1>3. PICK k \in 0 .. n : ComAfter(k)
  BY <1>2 DEF LoadInv, ComPacketDone
<1>4. k = n
  <2>1. com.offset >= com.length
    BY DEF ComPacketDone
  <2>2. com.offset = Sums(Sizes(input))[k] /\ com.length = ComPayloadLength(input)
    BY <1>3 DEF ComAfter
  <2>3. k < n => Sums(Sizes(input))[k] \in Nat /\ Sums(Sizes(input))[k] < ComPayloadLength(input)
    BY <1>1, <1>2, ComOffsets
  <2>4. ComPayloadLength(input) \in Nat
    BY <1>1, SizesFacts
  <2>5. ~ (k < n)
    BY <2>1, <2>2, <2>3, <2>4
  <2> QED BY <2>5
<1>5. com.packets = input
  <2>1. com.packets = SubSeq(input, 1, n)
    BY <1>3, <1>4 DEF ComAfter
  <2>2. SubSeq(input, 1, n) = input
    BY <1>1, <1>2, SubSeqFull
  <2> QED BY <2>1, <2>2
<1>6. phase' = "done" /\ com' = com /\ input' = input
  BY DEF ComPacketDone
<1> QED BY <1>5, <1>6 DEF LoadInv

LEMMA PacketsInvariant == PacketsSpec => []PacketsInv
<1>1. PacketsInit => PacketsInv
  BY DEF PacketsInit, PacketsInv, LoadInv
<1>2. ASSUME PacketsInv, [PacketsNext]_packetsVars
      PROVE  PacketsInv'
  <2>1. input' = input
    BY <1>2 DEF PacketsNext, packetsVars, LoadComHeader, LoadPacketHeader, LoadSubPacket,
         PacketDone, ComPacketDone
  <2>2. (input \in BoundedSeq(Packet, MaxPackets))'
    BY <1>2, <2>1 DEF PacketsInv
  <2>3. ASSUME PaddedAtEnd(input)  PROVE LoadInv'
    <3>1. LoadInv
      BY <1>2, <2>3 DEF PacketsInv
    <3>2. CASE LoadComHeader
      BY <1>2, <3>1, <3>2, ComHeaderLoaded
    <3>3. CASE LoadPacketHeader
      BY <1>2, <3>1, <3>3, PacketHeaderLoaded
    <3>4. CASE LoadSubPacket
      BY <1>2, <2>3, <3>1, <3>4, SubPacketLoaded
    <3>5. CASE PacketDone
      BY <1>2, <3>1, <3>5, PacketLoaded
    <3>6. CASE ComPacketDone
      BY <1>2, <3>1, <3>6, ComPacketLoaded
    <3>7. CASE UNCHANGED packetsVars
      BY <3>1, <3>7 DEF LoadInv, ComAfter, PacketAfter, packetsVars
    <3> QED BY <1>2, <3>2, <3>3, <3>4, <3>5, <3>6, <3>7 DEF PacketsNext
  <2>4. PaddedAtEnd(input)' => PaddedAtEnd(input)
    BY <2>1 DEF PaddedAtEnd
  <2> QED BY <2>2, <2>3, <2>4 DEF PacketsInv
<1> QED BY <1>1, <1>2, PTL DEF PacketsSpec

\* For every com packet whose parts fit their length fields, with any number of packets,
\* of sub packets and of bytes: unless something is padded before its end, the nested loops
\* of the loader read it to the end, and what they have read is what was saved.
THEOREM ComPacketsRoundTrip == PacketsSpec => []RoundTrip
<1>1. PacketsInv => RoundTrip
  BY DEF PacketsInv, LoadInv, RoundTrip
<1> QED BY <1>1, PacketsInvariant, PTL

-----------------------------------------------------------------------------
(***************************************************************************)
(* Names                                                                   *)
(***************************************************************************)

\* What is found for x in pairs that map their i-th part to their j-th: something that
\* they say, and whatever they say.
Finds(pairs, i, j, x, found) ==
  /\ found # None => \E p \in pairs : p[i] = x /\ p[j] = found
  /\ \A p \in pairs : p[i] = x => found = p[j]

\* The answers of a module are those of its pairs.
ListOf(m, sp) ==
  IF m = "Core" THEN CorePairs
  ELSE IF m = "PSID" THEN PsidPairs
  ELSE IF sp \in DOMAIN OpalFinders THEN Listed(OpalPairs(sp), OpalSequences(sp))
  ELSE Listed(OpalPairs(None), OpalSequences(None))

Sorted(o) == \A i, j \in DOMAIN o : i < j => ModuleKind(o[i]) <= ModuleKind(o[j])

NamesInv ==
  /\ \E k \in Nat : loaded \in [1 .. k -> Modules]
  /\ Sorted(loaded)
  /\ query # None => Opened
  /\ NamesAgree

LEMMA LeastElement ==
  ASSUME NEW X \in SUBSET Nat, X # {}
  PROVE  Min(X) \in X /\ \A y \in X : Min(X) <= y
<1> DEFINE S == {m \in Nat : (\E y \in X : y <= m) => \E x \in X : \A y \in X : x <= y}
<1>1. 0 \in S
  OBVIOUS
<1>2. ASSUME NEW m \in Nat, m \in S  PROVE m + 1 \in S
  <2>1. CASE \E y \in X : y <= m
    BY <1>2, <2>1
  <2>2. CASE ~\E y \in X : y <= m
    <3>1. \A y \in X : m + 1 <= y
      BY <2>2
    <3> QED BY <3>1
  <2> QED BY <2>1, <2>2
<1>3. Nat \subseteq S
  <2> HIDE DEF S
  <2> QED BY <1>1, <1>2, SetInduction
<1>4. PICK z : z \in X /\ z \in S
  BY <1>3
<1>5. \E x \in X : \A y \in X : x <= y
  BY <1>4
<1> QED BY <1>5 DEF Min

\* The first answer that is one.
LEMMA FirstFoundIs ==
  ASSUME NEW k \in Nat, NEW a, DOMAIN a = 1 .. k
  PROVE  \/ FirstFound(a) = None /\ \A i \in 1 .. k : a[i] = None
         \/ \E i \in 1 .. k : /\ a[i] # None /\ FirstFound(a) = a[i]
                              /\ \A j \in 1 .. k : a[j] # None => i <= j
<1> DEFINE found == {i \in DOMAIN a : a[i] # None}
<1>1. FirstFound(a) = IF found = {} THEN None ELSE a[Min(found)]
  BY DEF FirstFound
<1>2. CASE found = {}
  BY <1>1, <1>2
<1>3. CASE found # {}
  <2>1. found \in SUBSET Nat
    OBVIOUS
  <2>2. Min(found) \in found /\ \A y \in found : Min(found) <= y
    <3> HIDE DEF found
    <3> QED BY <1>3, <2>1, LeastElement
  <2>3. PICK i : i = Min(found)
    OBVIOUS
  <2> QED BY <1>1, <1>3, <2>2, <2>3
<1> QED BY <1>2, <1>3

-----------------------------------------------------------------------------
(* One module's answers *)

\* A numbered object is found in either direction.
LEMMA SequenceFinds ==
  ASSUME NEW s, s.base \in Int
  PROVE  /\ \A u : IsUid(u) => Finds(NumberedPairs(s), 1, 2, u, SequenceName(s, u))
         /\ \A n : IsName(n) => Finds(NumberedPairs(s), 2, 1, n, SequenceUid(s, n))
<1>1. PICK id : id = TableIds[s.table]
  OBVIOUS
<1>2. PICK pairs : /\ pairs = NumberedPairs(s)
                   /\ \A p : p \in pairs <=> \E i \in 0 .. 31 :
                        p = <<<<id, s.base + i>>, <<s.table, s.format, i + 1>>>>
  <2>1. 0 .. PerSequence - 1 = 0 .. 31
    BY DEF PerSequence
  <2>2. NumberedPairs(s) =
          {<<<<id, s.base + i>>, <<s.table, s.format, i + 1>>>> : i \in 0 .. 31}
    BY <1>1, <2>1, Zenon DEF NumberedPairs
  <2> QED BY <2>2, Zenon
<1>3. ASSUME NEW u, IsUid(u)  PROVE Finds(pairs, 1, 2, u, SequenceName(s, u))
  <2>1. PICK a \in Int, b \in Int : u = <<a, b>>
    BY <1>3 DEF IsUid
  <2>2. PICK i \in Int : i = b - s.base
    OBVIOUS
  <2>3. SequenceName(s, u) = IF a = id /\ i \in 0 .. 31 THEN <<s.table, s.format, i + 1>> ELSE None
    BY <1>1, <2>1, <2>2 DEF SequenceName, PerSequence
  <2>4. ASSUME SequenceName(s, u) # None
        PROVE  \E p \in pairs : p[1] = u /\ p[2] = SequenceName(s, u)
    <3>1. a = id /\ i \in 0 .. 31 /\ b = s.base + i
      BY <2>2, <2>3, <2>4
    <3>2. <<<<id, s.base + i>>, <<s.table, s.format, i + 1>>>> \in pairs
      BY <1>2, <3>1
    <3> QED BY <2>1, <2>3, <3>1, <3>2
  <2>5. ASSUME NEW p \in pairs, p[1] = u  PROVE SequenceName(s, u) = p[2]
    <3>1. PICK k \in 0 .. 31 : p = <<<<id, s.base + k>>, <<s.table, s.format, k + 1>>>>
      BY <1>2
    <3>2. a = id /\ b = s.base + k
      BY <2>1, <2>5, <3>1
    <3>3. i = k
      BY <2>2, <3>2
    <3> QED BY <2>3, <3>1, <3>2, <3>3
  <2> QED BY <2>4, <2>5 DEF Finds
<1>4. ASSUME NEW n, IsName(n)  PROVE Finds(pairs, 2, 1, n, SequenceUid(s, n))
  <2>1. SequenceUid(s, n) =
          IF Len(n) = 3 /\ n[1] = s.table /\ n[2] = s.format /\ n[3] - 1 \in 0 .. 31
          THEN <<id, s.base + n[3] - 1>> ELSE None
    BY <1>1 DEF SequenceUid, PerSequence
  <2>2. ASSUME SequenceUid(s, n) # None
        PROVE  \E p \in pairs : p[2] = n /\ p[1] = SequenceUid(s, n)
    <3>1. /\ Len(n) = 3 /\ n[1] = s.table /\ n[2] = s.format /\ n[3] - 1 \in 0 .. 31
          /\ SequenceUid(s, n) = <<id, s.base + n[3] - 1>>
      BY <2>1, <2>2
    <3>2. n = <<s.table, s.format, n[3]>> /\ n[3] \in Int
      BY <1>4, <3>1 DEF IsName
    <3>3. PICK i \in 0 .. 31 : n[3] = i + 1
      BY <3>1, <3>2
    <3>4. <<<<id, s.base + i>>, <<s.table, s.format, i + 1>>>> \in pairs
      BY <1>2
    <3>5. s.base + n[3] - 1 = s.base + i
      BY <3>3
    <3> QED BY <3>1, <3>2, <3>3, <3>4, <3>5
  <2>3. ASSUME NEW p \in pairs, p[2] = n  PROVE SequenceUid(s, n) = p[1]
    <3>1. PICK k \in 0 .. 31 : p = <<<<id, s.base + k>>, <<s.table, s.format, k + 1>>>>
      BY <1>2
    <3>2. n = <<s.table, s.format, k + 1>>
      BY <2>3, <3>1
    <3>3. Len(n) = 3 /\ n[1] = s.table /\ n[2] = s.format /\ n[3] = k + 1
      BY <3>2
    <3>4. s.base + n[3] - 1 = s.base + k /\ n[3] - 1 \in 0 .. 31
      BY <3>3
    <3> QED BY <2>1, <3>1, <3>3, <3>4
  <2> QED BY <2>2, <2>3 DEF Finds
<1> QED BY <1>2, <1>3, <1>4

\* What the numbered objects add to what is listed.
LEMMA FinderFinds ==
  ASSUME NEW pairs, NEW sequences, NEW k \in Nat, DOMAIN sequences = 1 .. k,
         \A i \in 1 .. k : sequences[i].base \in Int,
         NEW all, all = Listed(pairs, sequences), OneUid(all), OneName(all),
         \A p \in all : IsUid(p[1]) /\ IsName(p[2])
  PROVE  /\ \A u : IsUid(u) => Finds(all, 1, 2, u, NameIn(Finder(pairs, sequences), u))
         /\ \A n : IsName(n) => Finds(all, 2, 1, n, UidIn(Finder(pairs, sequences), n))
<1>1. /\ \A p \in pairs : p \in all
      /\ \A i \in 1 .. k : \A p \in NumberedPairs(sequences[i]) : p \in all
      /\ \A p \in all : p \in pairs \/ \E i \in 1 .. k : p \in NumberedPairs(sequences[i])
  BY DEF Listed, Range
<1>2. PICK f : f = Finder(pairs, sequences)
  OBVIOUS
<1>3. /\ DOMAIN f.names = {p[1] : p \in pairs} /\ DOMAIN f.uids = {p[2] : p \in pairs}
      /\ \A u \in {p[1] : p \in pairs} : f.names[u] = (CHOOSE p \in pairs : p[1] = u)[2]
      /\ \A n \in {p[2] : p \in pairs} : f.uids[n] = (CHOOSE p \in pairs : p[2] = n)[1]
      /\ f.sequences = sequences
  BY <1>2 DEF Finder
<1>4. ASSUME NEW u, IsUid(u)  PROVE Finds(all, 1, 2, u, NameIn(f, u))
  <2>1. CASE u \in DOMAIN f.names
    <3>1. PICK p : p = CHOOSE q \in pairs : q[1] = u
      OBVIOUS
    <3>2. \E q \in pairs : q[1] = u
      BY <1>3, <2>1
    <3>3. p \in pairs /\ p[1] = u
      BY <3>1, <3>2
    <3>4. NameIn(f, u) = p[2]
      BY <1>3, <2>1, <3>1 DEF NameIn
    <3> QED BY <1>1, <3>3, <3>4 DEF Finds, OneName
  <2>2. CASE u \notin DOMAIN f.names
    <3>1. \A p \in pairs : p[1] # u
      BY <1>3, <2>2
    <3>2. PICK a : a = [i \in DOMAIN f.sequences |-> SequenceName(f.sequences[i], u)]
      OBVIOUS
    <3>3. /\ DOMAIN a = 1 .. k /\ NameIn(f, u) = FirstFound(a)
          /\ \A i \in 1 .. k : a[i] = SequenceName(sequences[i], u)
      BY <1>3, <2>2, <3>2 DEF NameIn
    <3>4. \A i \in 1 .. k : Finds(NumberedPairs(sequences[i]), 1, 2, u, a[i])
      BY <1>4, <3>3, SequenceFinds
    <3>5. CASE FirstFound(a) = None /\ \A i \in 1 .. k : a[i] = None
      <4>1. ASSUME NEW p \in all, p[1] = u  PROVE FALSE
        <5>1. PICK i \in 1 .. k : p \in NumberedPairs(sequences[i])
          BY <1>1, <3>1, <4>1
        <5>2. p[2] = None
          BY <3>4, <3>5, <4>1, <5>1 DEF Finds
        <5> QED BY <5>2 DEF IsName
      <4> QED BY <3>3, <3>5, <4>1 DEF Finds
    <3>6. CASE \E i \in 1 .. k : a[i] # None /\ FirstFound(a) = a[i]
      <4>1. PICK i \in 1 .. k : a[i] # None /\ FirstFound(a) = a[i]
        BY <3>6
      <4>2. PICK p \in NumberedPairs(sequences[i]) : p[1] = u /\ p[2] = a[i]
        BY <3>4, <4>1 DEF Finds
      <4> QED BY <1>1, <3>3, <4>1, <4>2 DEF Finds, OneName
    <3> QED BY <3>3, <3>5, <3>6, FirstFoundIs
  <2> QED BY <2>1, <2>2
<1>5. ASSUME NEW n, IsName(n)  PROVE Finds(all, 2, 1, n, UidIn(f, n))
  <2>1. CASE n \in DOMAIN f.uids
    <3>1. PICK p : p = CHOOSE q \in pairs : q[2] = n
      OBVIOUS
    <3>2. \E q \in pairs : q[2] = n
      BY <1>3, <2>1
    <3>3. p \in pairs /\ p[2] = n
      BY <3>1, <3>2
    <3>4. UidIn(f, n) = p[1]
      BY <1>3, <2>1, <3>1 DEF UidIn
    <3> QED BY <1>1, <3>3, <3>4 DEF Finds, OneUid
  <2>2. CASE n \notin DOMAIN f.uids
    <3>1. \A p \in pairs : p[2] # n
      BY <1>3, <2>2
    <3>2. PICK a : a = [i \in DOMAIN f.sequences |-> SequenceUid(f.sequences[i], n)]
      OBVIOUS
    <3>3. /\ DOMAIN a = 1 .. k /\ UidIn(f, n) = FirstFound(a)
          /\ \A i \in 1 .. k : a[i] = SequenceUid(sequences[i], n)
      BY <1>3, <2>2, <3>2 DEF UidIn
    <3>4. \A i \in 1 .. k : Finds(NumberedPairs(sequences[i]), 2, 1, n, a[i])
      BY <1>5, <3>3, SequenceFinds
    <3>5. CASE FirstFound(a) = None /\ \A i \in 1 .. k : a[i] = None
      <4>1. ASSUME NEW p \in all, p[2] = n  PROVE FALSE
        <5>1. PICK i \in 1 .. k : p \in NumberedPairs(sequences[i])
          BY <1>1, <3>1, <4>1
        <5>2. p[1] = None /\ IsUid(p[1])
          BY <3>4, <3>5, <4>1, <5>1 DEF Finds
        <5> QED BY <5>2 DEF IsUid, None
      <4> QED BY <3>3, <3>5, <4>1 DEF Finds
    <3>6. CASE \E i \in 1 .. k : a[i] # None /\ FirstFound(a) = a[i]
      <4>1. PICK i \in 1 .. k : a[i] # None /\ FirstFound(a) = a[i]
        BY <3>6
      <4>2. PICK p \in NumberedPairs(sequences[i]) : p[2] = n /\ p[1] = a[i]
        BY <3>4, <4>1 DEF Finds
      <4> QED BY <1>1, <3>3, <4>1, <4>2 DEF Finds, OneUid
    <3> QED BY <3>3, <3>5, <3>6, FirstFoundIs
  <2> QED BY <2>1, <2>2
<1> QED BY <1>2, <1>4, <1>5

\* A list and its numbered objects, in which nothing contradicts.
Consistent(all) ==
  OneUid(all) /\ OneName(all) /\ \A p \in all : IsUid(p[1]) /\ IsName(p[2])

\* What the finder of such a list answers.
AnswersFrom(all, f) ==
  /\ \A u : IsUid(u) => Finds(all, 1, 2, u, NameIn(f, u))
  /\ \A n : IsName(n) => Finds(all, 2, 1, n, UidIn(f, n))

\* The provider whose list an Opal class answers from.
Answering(sp) == IF sp \in DOMAIN OpalFinders THEN sp ELSE None

LEMMA OpalFinderIs ==
  /\ DOMAIN OpalFinders = {None, AdminSP, LockingSP}
  /\ \A sp \in DOMAIN OpalFinders : OpalFinders[sp] = Finder(OpalPairs(sp), OpalSequences(sp))
BY DEF OpalFinders

LEMMA SequencesCounted ==
  ASSUME NEW sp \in DOMAIN OpalFinders
  PROVE  \E k \in Nat : DOMAIN OpalSequences(sp) = 1 .. k
<1>1. None # AdminSP /\ None # LockingSP /\ AdminSP # LockingSP
  BY DEF None, AdminSP, LockingSP
<1>2. CASE sp = None
  BY <1>1, <1>2 DEF OpalSequences
<1>3. CASE sp = AdminSP
  <2>1. OpalSequences(sp) = AdminSequences
    BY <1>1, <1>3 DEF OpalSequences
  <2>2. DOMAIN AdminSequences = 1 .. 2
    BY DEF AdminSequences
  <2> QED BY <2>1, <2>2
<1>4. CASE sp = LockingSP
  <2>1. OpalSequences(sp) = LockingSequences
    BY <1>1, <1>4 DEF OpalSequences
  <2>2. DOMAIN LockingSequences = 1 .. 14
    BY DEF LockingSequences
  <2> QED BY <2>1, <2>2
<1> QED BY <1>2, <1>3, <1>4, OpalFinderIs

\* The lists of the modules agree, in any provider.
LEMMA ListFacts ==
  ASSUME NEW sp
  PROVE  /\ \A m \in Modules : Consistent(ListOf(m, sp))
         /\ \A l, m \in Modules : \A p \in ListOf(l, sp), q \in ListOf(m, sp) :
              p[2] = q[2] => p[1] = q[1]
         /\ \A l, m \in Modules \ {"Core"} : \A p \in ListOf(l, sp), q \in ListOf(m, sp) :
              p[1] = q[1] => p[2] = q[2]
<1>1. PICK o : o = Answering(sp) /\ o \in DOMAIN OpalFinders
  BY OpalFinderIs DEF Answering
<1>2. PICK own : own = Listed(OpalPairs(o), OpalSequences(o))
  OBVIOUS
<1>3. /\ OneUid((PsidPairs \union own) \union CorePairs) /\ OneName(PsidPairs \union own)
      /\ OneName(CorePairs)
      /\ \A p \in (PsidPairs \union own) \union CorePairs : IsUid(p[1]) /\ IsName(p[2])
  BY <1>1, <1>2, ListsAssumption
<1>4. \A m \in Modules \ {"Core"} : ListOf(m, sp) \subseteq PsidPairs \union own
  BY <1>1, <1>2 DEF ListOf, Answering
<1>5. ListOf("Core", sp) = CorePairs
  BY DEF ListOf
<1>6. \A m \in Modules : Consistent(ListOf(m, sp))
  BY <1>3, <1>4, <1>5 DEF Consistent, OneUid, OneName
<1>7. \A l, m \in Modules : \A p \in ListOf(l, sp), q \in ListOf(m, sp) : p[2] = q[2] => p[1] = q[1]
  BY <1>3, <1>4, <1>5 DEF OneUid
<1>8. \A l, m \in Modules \ {"Core"} : \A p \in ListOf(l, sp), q \in ListOf(m, sp) :
        p[1] = q[1] => p[2] = q[2]
  BY <1>3, <1>4 DEF OneName
<1> QED BY <1>6, <1>7, <1>8

\* The finders of the Opal classes answer from their lists.
LEMMA OpalAnswers ==
  ASSUME NEW sp \in DOMAIN OpalFinders
  PROVE  AnswersFrom(Listed(OpalPairs(sp), OpalSequences(sp)), OpalFinders[sp])
<1>1. PICK k \in Nat : DOMAIN OpalSequences(sp) = 1 .. k
  BY SequencesCounted
<1>2. \A i \in 1 .. k : OpalSequences(sp)[i].base \in Int
  BY <1>1, ListsAssumption DEF Range
<1>3. PICK all : all = Listed(OpalPairs(sp), OpalSequences(sp))
  OBVIOUS
<1>4. Consistent(all)
  <2>1. "Opal v1" \in Modules /\ ListOf("Opal v1", sp) = all
    BY <1>3 DEF Modules, Opals, ListOf
  <2> QED BY <2>1, ListFacts
<1>5. AnswersFrom(all, Finder(OpalPairs(sp), OpalSequences(sp)))
  BY <1>1, <1>2, <1>3, <1>4, FinderFinds DEF AnswersFrom, Consistent
<1> QED BY <1>3, <1>5, OpalFinderIs

\* So do those of the modules without numbered objects.
LEMMA PlainAnswers ==
  ASSUME NEW pairs, Consistent(pairs)
  PROVE  AnswersFrom(pairs, Finder(pairs, <<>>))
<1>1. PICK none : none = <<>> /\ DOMAIN none = 1 .. 0
  OBVIOUS
<1>2. Listed(pairs, none) = pairs
  BY <1>1 DEF Listed, Range
<1>3. AnswersFrom(pairs, Finder(pairs, none))
  BY <1>1, <1>2, FinderFinds DEF AnswersFrom, Consistent
<1> QED BY <1>1, <1>3

\* Every module answers from its list.
LEMMA ModuleFinds ==
  ASSUME NEW sp, NEW m \in Modules
  PROVE  /\ \A u : IsUid(u) => Finds(ListOf(m, sp), 1, 2, u, ModuleName(m, u, sp))
         /\ \A n : IsName(n) => Finds(ListOf(m, sp), 2, 1, n, ModuleUid(m, n, sp))
<1>1. CASE m = "Core"
  <2>1. AnswersFrom(CorePairs, CoreFinder)
    BY <1>1, ListFacts, PlainAnswers DEF ListOf, CoreFinder
  <2>2. \A x : ModuleName(m, x, sp) = NameIn(CoreFinder, x) /\ ModuleUid(m, x, sp) = UidIn(CoreFinder, x)
    BY <1>1 DEF ModuleName, ModuleUid, Opals
  <2> QED BY <1>1, <2>1, <2>2 DEF ListOf, AnswersFrom
<1>2. CASE m = "PSID"
  <2>1. AnswersFrom(PsidPairs, PsidFinder)
    BY <1>2, ListFacts, PlainAnswers DEF ListOf, PsidFinder
  <2>2. \A x : ModuleName(m, x, sp) = NameIn(PsidFinder, x) /\ ModuleUid(m, x, sp) = UidIn(PsidFinder, x)
    BY <1>2 DEF ModuleName, ModuleUid, Opals
  <2> QED BY <1>2, <2>1, <2>2 DEF ListOf, AnswersFrom
<1>3. CASE m \in Opals
  <2>1. PICK o : o = Answering(sp) /\ o \in DOMAIN OpalFinders
    BY OpalFinderIs DEF Answering
  <2>2. PICK all : all = ListOf(m, sp) /\ all = Listed(OpalPairs(o), OpalSequences(o))
    BY <1>3, <2>1 DEF ListOf, Answering, Opals
  <2>3. AnswersFrom(all, OpalFinders[o])
    BY <2>1, <2>2, OpalAnswers
  <2>4. PICK global : global = Listed(OpalPairs(None), OpalSequences(None))
    OBVIOUS
  <2>5. AnswersFrom(global, OpalFinders[None])
    BY <2>4, OpalAnswers, OpalFinderIs
  <2>6. global \subseteq all
    <3>1. None # AdminSP /\ None # LockingSP /\ AdminSP # LockingSP
      BY DEF None, AdminSP, LockingSP
    <3>2. OpalPairs(None) = GlobalPairs /\ OpalSequences(None) = <<>>
      BY <3>1 DEF OpalPairs, OpalSequences
    <3>3. GlobalPairs \subseteq OpalPairs(o)
      BY <2>1, <3>1, OpalFinderIs DEF OpalPairs, AdminPairs, LockingPairs
    <3>4. global = GlobalPairs
      BY <2>4, <3>2 DEF Listed, Range
    <3> QED BY <2>2, <3>3, <3>4 DEF Listed
  <2>7. Consistent(all)
    BY <2>2, ListFacts
  <2>8. ASSUME NEW u, IsUid(u)  PROVE Finds(all, 1, 2, u, ModuleName(m, u, sp))
    <3>1. PICK common, own : common = NameIn(OpalFinders[None], u) /\ own = NameIn(OpalFinders[o], u)
      OBVIOUS
    <3>2. Finds(global, 1, 2, u, common) /\ Finds(all, 1, 2, u, own)
      BY <2>3, <2>5, <2>8, <3>1 DEF AnswersFrom
    <3>3. ModuleName(m, u, sp) = IF sp \in DOMAIN OpalFinders /\ own # None THEN own ELSE common
      BY <1>3, <2>1, <3>1 DEF ModuleName, OpalName, Opals, Answering
    <3>4. CASE sp \notin DOMAIN OpalFinders
      BY <2>1, <3>1, <3>2, <3>3, <3>4 DEF Answering
    <3>5. CASE sp \in DOMAIN OpalFinders /\ own # None
      BY <3>2, <3>3, <3>5
    <3>6. CASE sp \in DOMAIN OpalFinders /\ own = None
      <4>1. \A p \in all : p[1] # u
        BY <2>7, <3>2, <3>6 DEF Finds, Consistent, IsName
      <4> QED BY <2>6, <3>2, <3>3, <3>6, <4>1 DEF Finds
    <3> QED BY <3>4, <3>5, <3>6
  <2>9. ASSUME NEW n, IsName(n)  PROVE Finds(all, 2, 1, n, ModuleUid(m, n, sp))
    <3>1. PICK common, own : common = UidIn(OpalFinders[None], n) /\ own = UidIn(OpalFinders[o], n)
      OBVIOUS
    <3>2. Finds(global, 2, 1, n, common) /\ Finds(all, 2, 1, n, own)
      BY <2>3, <2>5, <2>9, <3>1 DEF AnswersFrom
    <3>3. ModuleUid(m, n, sp) = IF sp \in DOMAIN OpalFinders /\ own # None THEN own ELSE common
      BY <1>3, <2>1, <3>1 DEF ModuleUid, OpalUid, Opals, Answering
    <3>4. CASE sp \notin DOMAIN OpalFinders
      BY <2>1, <3>1, <3>2, <3>3, <3>4 DEF Answering
    <3>5. CASE sp \in DOMAIN OpalFinders /\ own # None
      BY <3>2, <3>3, <3>5
    <3>6. CASE sp \in DOMAIN OpalFinders /\ own = None
      <4>1. \A u : IsUid(u) => u # None
        BY DEF IsUid, None
      <4>2. \A p \in all : p[2] # n
        BY <2>7, <3>2, <3>6, <4>1 DEF Finds, Consistent
      <4> QED BY <2>6, <3>2, <3>3, <3>6, <4>2 DEF Finds
    <3> QED BY <3>4, <3>5, <3>6
  <2> QED BY <2>2, <2>8, <2>9
<1> QED BY <1>1, <1>2, <1>3 DEF Modules

-----------------------------------------------------------------------------
(* The collection's answers *)

\* What is found is what the first module says that says something.
IsFirstAnswer(answers, k, found) ==
  \/ found = None /\ \A i \in 1 .. k : answers[i] = None
  \/ \E i \in 1 .. k : /\ answers[i] # None /\ found = answers[i]
                       /\ \A j \in 1 .. k : answers[j] # None => i <= j

LEMMA CollectionFinds ==
  ASSUME NEW k \in Nat, loaded \in [1 .. k -> Modules], NEW sp
  PROVE  /\ \A u : IsFirstAnswer([i \in 1 .. k |-> ModuleName(loaded[i], u, sp)], k, FindName(u, sp))
         /\ \A n : IsFirstAnswer([i \in 1 .. k |-> ModuleUid(loaded[i], n, sp)], k, FindUid(n, sp))
<1>1. DOMAIN loaded = 1 .. k
  OBVIOUS
<1>2. ASSUME NEW u
      PROVE  IsFirstAnswer([i \in 1 .. k |-> ModuleName(loaded[i], u, sp)], k, FindName(u, sp))
  <2>1. PICK a : a = [i \in 1 .. k |-> ModuleName(loaded[i], u, sp)]
    OBVIOUS
  <2>2. DOMAIN a = 1 .. k
    BY <2>1
  <2>3. FindName(u, sp) = FirstFound(a)
    BY <1>1, <2>1 DEF FindName
  <2> QED BY <2>1, <2>2, <2>3, FirstFoundIs DEF IsFirstAnswer
<1>3. ASSUME NEW n
      PROVE  IsFirstAnswer([i \in 1 .. k |-> ModuleUid(loaded[i], n, sp)], k, FindUid(n, sp))
  <2>1. PICK a : a = [i \in 1 .. k |-> ModuleUid(loaded[i], n, sp)]
    OBVIOUS
  <2>2. DOMAIN a = 1 .. k
    BY <2>1
  <2>3. FindUid(n, sp) = FirstFound(a)
    BY <1>1, <2>1 DEF FindUid
  <2> QED BY <2>1, <2>2, <2>3, FirstFoundIs DEF IsFirstAnswer
<1> QED BY <1>2, <1>3

LEMMA UidIsThere ==
  ASSUME NEW u, IsUid(u)
  PROVE  u # None
<1>1. PICK a \in Int, b \in Int : u = <<a, b>>
  BY DEF IsUid
<1>2. 1 \in DOMAIN u /\ 1 \notin DOMAIN None
  BY <1>1 DEF None
<1> QED BY <1>2

\* Only the core is of the last kind.
LEMMA KindFacts ==
  /\ \A m \in Modules : ModuleKind(m) \in 1 .. 3
  /\ \A m \in Modules \ {"Core"} : ModuleKind(m) < 3
  /\ ModuleKind("Core") = 3
<1>1. ModuleKind("PSID") = 1
  BY DEF ModuleKind, Opals
<1>2. \A m \in Opals : ModuleKind(m) = 2
  BY DEF ModuleKind, Opals
<1>3. ModuleKind("Core") = 3
  BY DEF ModuleKind, Opals
<1> QED BY <1>1, <1>2, <1>3 DEF Modules

\* What is shown by a name is what the name stands for.
LEMMA NameComesBack ==
  ASSUME NEW k \in Nat, loaded \in [1 .. k -> Modules], NEW sp, NEW u, IsUid(u),
         FindName(u, sp) # None
  PROVE  FindUid(FindName(u, sp), sp) = u
<1>1. PICK name : name = FindName(u, sp)
  OBVIOUS
<1>2. PICK i \in 1 .. k : ModuleName(loaded[i], u, sp) = name
  <2>1. PICK a : a = [i \in 1 .. k |-> ModuleName(loaded[i], u, sp)] /\ IsFirstAnswer(a, k, name)
    BY <1>1, CollectionFinds
  <2> QED BY <1>1, <2>1 DEF IsFirstAnswer
<1>3. loaded[i] \in Modules
  OBVIOUS
<1>4. PICK p \in ListOf(loaded[i], sp) : p[1] = u /\ p[2] = name
  <2>1. Finds(ListOf(loaded[i], sp), 1, 2, u, ModuleName(loaded[i], u, sp))
    BY <1>3, ModuleFinds
  <2> QED BY <1>1, <1>2, <2>1 DEF Finds
<1>5. IsName(name)
  BY <1>3, <1>4, ListFacts DEF Consistent
<1>6. ModuleUid(loaded[i], name, sp) = u
  <2>1. Finds(ListOf(loaded[i], sp), 2, 1, name, ModuleUid(loaded[i], name, sp))
    BY <1>3, <1>5, ModuleFinds
  <2> QED BY <1>4, <2>1 DEF Finds
<1>7. u # None
  BY UidIsThere
<1>8. PICK j \in 1 .. k : /\ ModuleUid(loaded[j], name, sp) # None
                          /\ FindUid(name, sp) = ModuleUid(loaded[j], name, sp)
  <2>1. PICK a : /\ a = [j \in 1 .. k |-> ModuleUid(loaded[j], name, sp)]
                 /\ IsFirstAnswer(a, k, FindUid(name, sp))
    BY CollectionFinds
  <2> QED BY <1>6, <1>7, <2>1 DEF IsFirstAnswer
<1>9. loaded[j] \in Modules
  OBVIOUS
<1>10. PICK q \in ListOf(loaded[j], sp) : q[2] = name /\ q[1] = FindUid(name, sp)
  <2>1. Finds(ListOf(loaded[j], sp), 2, 1, name, ModuleUid(loaded[j], name, sp))
    BY <1>5, <1>9, ModuleFinds
  <2> QED BY <1>8, <2>1 DEF Finds
<1>11. p[1] = q[1]
  BY <1>3, <1>4, <1>9, <1>10, ListFacts
<1> QED BY <1>1, <1>4, <1>10, <1>11

\* A name that a class or a feature gives an object is the one the object is shown by.
LEMMA SpecificNameShown ==
  ASSUME NEW k \in Nat, loaded \in [1 .. k -> Modules], Sorted(loaded), NEW sp,
         NEW n, IsName(n), NEW m \in Range(loaded) \ {"Core"}, ModuleUid(m, n, sp) # None
  PROVE  FindUid(n, sp) # None /\ FindName(FindUid(n, sp), sp) = n
<1>1. PICK h \in 1 .. k : m = loaded[h] /\ m \in Modules
  BY DEF Range
<1>2. PICK j \in 1 .. k : /\ ModuleUid(loaded[j], n, sp) # None
                          /\ FindUid(n, sp) = ModuleUid(loaded[j], n, sp)
  <2>1. PICK a : /\ a = [j \in 1 .. k |-> ModuleUid(loaded[j], n, sp)]
                 /\ IsFirstAnswer(a, k, FindUid(n, sp))
    BY CollectionFinds
  <2> QED BY <1>1, <2>1 DEF IsFirstAnswer
<1>3. PICK u : u = FindUid(n, sp)
  OBVIOUS
<1>4. loaded[j] \in Modules
  OBVIOUS
<1>5. PICK q \in ListOf(loaded[j], sp) : q[2] = n /\ q[1] = u
  <2>1. Finds(ListOf(loaded[j], sp), 2, 1, n, ModuleUid(loaded[j], n, sp))
    BY <1>4, ModuleFinds
  <2> QED BY <1>2, <1>3, <2>1 DEF Finds
<1>6. PICK p \in ListOf(m, sp) : p[2] = n
  <2>1. Finds(ListOf(m, sp), 2, 1, n, ModuleUid(m, n, sp))
    BY <1>1, ModuleFinds
  <2> QED BY <2>1 DEF Finds
<1>7. p[1] = u /\ IsUid(u)
  BY <1>1, <1>4, <1>5, <1>6, ListFacts DEF Consistent
<1>8. ModuleName(m, u, sp) = n
  <2>1. Finds(ListOf(m, sp), 1, 2, u, ModuleName(m, u, sp))
    BY <1>1, <1>7, ModuleFinds
  <2> QED BY <1>6, <1>7, <2>1 DEF Finds
<1>9. PICK i \in 1 .. k : /\ ModuleName(loaded[i], u, sp) # None
                          /\ FindName(u, sp) = ModuleName(loaded[i], u, sp) /\ i <= h
  <2>1. PICK a : /\ a = [i \in 1 .. k |-> ModuleName(loaded[i], u, sp)]
                 /\ IsFirstAnswer(a, k, FindName(u, sp))
    BY CollectionFinds
  <2>2. a[h] # None
    BY <1>1, <1>8, <2>1 DEF IsName
  <2> QED BY <1>1, <2>1, <2>2 DEF IsFirstAnswer
<1>10. loaded[i] \in Modules \ {"Core"}
  <2>1. DOMAIN loaded = 1 .. k
    OBVIOUS
  <2>2. ModuleKind(loaded[i]) <= ModuleKind(m)
    <3>1. ModuleKind(m) \in Int
      BY <1>1, KindFacts
    <3> QED BY <1>1, <1>9, <2>1, <3>1 DEF Sorted
  <2>3. ModuleKind(m) \in 1 .. 2 /\ ModuleKind("Core") = 3
    BY <1>1, KindFacts
  <2>4. loaded[i] # "Core"
    BY <2>2, <2>3
  <2> QED BY <2>4
<1>11. PICK r \in ListOf(loaded[i], sp) : r[1] = u /\ r[2] = FindName(u, sp)
  <2>1. Finds(ListOf(loaded[i], sp), 1, 2, u, ModuleName(loaded[i], u, sp))
    BY <1>7, <1>10, ModuleFinds
  <2> QED BY <1>9, <2>1 DEF Finds
<1>12. r[2] = p[2]
  BY <1>1, <1>6, <1>7, <1>10, <1>11, ListFacts
<1>13. u # None
  BY <1>7, UidIsThere
<1> QED BY <1>3, <1>6, <1>11, <1>12, <1>13

-----------------------------------------------------------------------------
(* Loading and looking up *)

\* Loading gives modules, sorted by kind.
LEMMA OrdersAreSorted ==
  ASSUME NEW k \in Nat, loaded \in [1 .. k -> Modules], NEW m \in Modules, NEW o \in OrdersWith(m)
  PROVE  Sorted(o) /\ \E l \in Nat : o \in [1 .. l -> Modules]
<1>1. PICK S : S = Range(loaded) \union Features(m) \union {m}
  OBVIOUS
<1>2. S \subseteq Modules
  BY <1>1 DEF Range, Features, Modules
<1>3. IsFiniteSet(S)
  <2>1. IsFiniteSet(Modules)
    <3>1. Modules = {"Core"} \union {"PSID"} \union {"Opal v1"} \union {"Opal v2"}
      BY DEF Modules, Opals
    <3>2. \A x : IsFiniteSet({x})
      BY FS_Singleton
    <3> QED BY <3>1, <3>2, FS_Union
  <2> QED BY <1>2, <2>1, FS_Subset
<1>4. Cardinality(S) \in Nat
  BY <1>3, FS_CardinalityType
<1>5. o \in SetToSeqs(S) /\ Sorted(o)
  BY <1>1 DEF OrdersWith, Sorted
<1>6. o \in [1 .. Cardinality(S) -> S]
  BY <1>5 DEF SetToSeqs
<1> QED BY <1>2, <1>4, <1>5, <1>6

LEMMA NamesInvInit ==
  NamesInit => NamesInv
<1> SUFFICES ASSUME NamesInit  PROVE NamesInv
  OBVIOUS
<1>1. loaded = <<>> /\ query = None
  BY DEF NamesInit
<1>2. loaded \in [1 .. 0 -> Modules] /\ Sorted(loaded)
  BY <1>1 DEF Sorted
<1>3. NamesAgree
  BY <1>1 DEF NamesAgree, ShownNameMeansObject, SpecificNamesWin, None
<1> QED BY <1>1, <1>2, <1>3 DEF NamesInv

\* Modules are loaded before anything is looked up.
LEMMA LoadSteps ==
  ASSUME NamesInv, NEW m \in Modules, loaded' \in OrdersWith(m) \union {loaded},
         UNCHANGED query, ~Opened
  PROVE  NamesInv'
<1>1. query' = None
  BY DEF NamesInv
<1>2. Sorted(loaded') /\ \E k \in Nat : loaded' \in [1 .. k -> Modules]
  BY OrdersAreSorted DEF NamesInv
<1>3. NamesAgree'
  BY <1>1 DEF NamesAgree, ShownNameMeansObject, SpecificNamesWin, None
<1> QED BY <1>1, <1>2, <1>3 DEF NamesInv, Sorted

LEMMA ShowSteps ==
  ASSUME NamesInv, Opened, NEW u \in Asked, NEW sp \in SPs, ShowUid(u, sp)
  PROVE  NamesInv'
<1>1. /\ UNCHANGED <<hasCore, sscs, loaded>>
      /\ query' = [uid |-> u, sp |-> sp, name |-> FindName(u, sp),
                   back |-> IF FindName(u, sp) = None THEN None ELSE FindUid(FindName(u, sp), sp)]
  BY DEF ShowUid
<1>2. PICK k \in Nat : loaded \in [1 .. k -> Modules]
  BY DEF NamesInv
<1>3. FindName(u, sp) # None => FindUid(FindName(u, sp), sp) = u
  BY <1>2, NameComesBack, NamesAssumption
<1>4. ShownNameMeansObject'
  BY <1>1, <1>3 DEF ShownNameMeansObject
<1>5. SpecificNamesWin'
  <2>1. "shown" \notin DOMAIN query'
    BY <1>1
  <2> QED BY <2>1 DEF SpecificNamesWin
<1> QED BY <1>1, <1>4, <1>5 DEF NamesInv, NamesAgree, Opened, Sorted

LEMMA TypeSteps ==
  ASSUME NamesInv, Opened, NEW n \in Sought, NEW sp \in SPs, TypeName(n, sp)
  PROVE  NamesInv'
<1>1. /\ UNCHANGED <<hasCore, sscs, loaded>>
      /\ query' = [name |-> n, sp |-> sp, uid |-> FindUid(n, sp),
                   shown |-> IF FindUid(n, sp) = None THEN None ELSE FindName(FindUid(n, sp), sp)]
  BY DEF TypeName
<1>2. PICK k \in Nat : loaded \in [1 .. k -> Modules] /\ Sorted(loaded)
  BY DEF NamesInv
<1>3. ASSUME NEW m \in Range(loaded) \ {"Core"}, ModuleUid(m, n, sp) # None
      PROVE  FindUid(n, sp) # None /\ FindName(FindUid(n, sp), sp) = n
  BY <1>2, <1>3, SpecificNameShown, NamesAssumption
<1>4. SpecificNamesWin'
  <2>1. query'.name = n /\ query'.sp = sp
    BY <1>1
  <2>2. ASSUME NEW m \in Range(loaded) \ {"Core"}, ModuleUid(m, n, sp) # None
        PROVE  query'.shown = n
    BY <1>1, <1>3, <2>2
  <2> QED BY <1>1, <2>1, <2>2 DEF SpecificNamesWin
<1>5. ShownNameMeansObject'
  <2>1. "back" \notin DOMAIN query'
    BY <1>1
  <2> QED BY <2>1 DEF ShownNameMeansObject
<1> QED BY <1>1, <1>4, <1>5 DEF NamesInv, NamesAgree, Opened, Sorted

LEMMA NamesInvNext ==
  NamesInv /\ [NamesNext]_namesVars => NamesInv'
<1> SUFFICES ASSUME NamesInv, [NamesNext]_namesVars  PROVE NamesInv'
  OBVIOUS
<1>1. CASE LoadCore
  <2>1. "Core" \in Modules
    BY DEF Modules
  <2> QED BY <1>1, <2>1, LoadSteps DEF LoadCore, Opened
<1>2. CASE LoadSsc
  <2>1. CASE Head(sscs) \in Opals
    <3>1. Head(sscs) \in Modules
      BY <2>1 DEF Modules
    <3> QED BY <1>2, <2>1, <3>1, LoadSteps DEF LoadSsc, Opened
  <2>2. CASE Head(sscs) \notin Opals
    <3>1. "Core" \in Modules
      BY DEF Modules
    <3> QED BY <1>2, <2>2, <3>1, LoadSteps DEF LoadSsc, Opened
  <2> QED BY <2>1, <2>2
<1>3. ASSUME LookingUp, NEW sp \in SPs, NEW u \in Asked, ShowUid(u, sp)  PROVE NamesInv'
  BY <1>3, ShowSteps DEF LookingUp
<1>4. ASSUME LookingUp, NEW sp \in SPs, NEW n \in Sought, TypeName(n, sp)  PROVE NamesInv'
  BY <1>4, TypeSteps DEF LookingUp
<1>5. CASE UNCHANGED namesVars
  BY <1>5 DEF namesVars, NamesInv, Sorted, Opened, NamesAgree, ShownNameMeansObject, SpecificNamesWin
<1> QED BY <1>1, <1>2, <1>3, <1>4, <1>5 DEF NamesNext

\* The modules of a drive name its objects without contradiction: whatever is looked up
\* in whatever security provider, with whatever classes in whatever order the unstable
\* sort leaves them, an object shown by a name is the object the name stands for, and the
\* core's names never hide those of a class (ModuleCollection, NameAndUidFinder, NameSequence).
THEOREM NamesNeverContradict ==
  NamesSpec => []NamesAgree
<1>1. NamesInv => NamesAgree
  BY DEF NamesInv
<1> QED BY NamesInvInit, NamesInvNext, <1>1, PTL DEF NamesSpec

===============================================================================
