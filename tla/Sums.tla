--------------------------------- MODULE Sums ---------------------------------
(***************************************************************************)
(* Several pieces laid out one behind the other: where each of them ends,  *)
(* and what they are together.                                             *)
(***************************************************************************)
EXTENDS Integers, Sequences

\* The total of the first k of some numbers, for every k.
Sums(ns) ==
  LET sum[k \in 0 .. Len(ns)] == IF k = 0 THEN 0 ELSE sum[k - 1] + ns[k]
  IN  sum

Total(ns) == Sums(ns)[Len(ns)]

\* Some sequences from the k-th on, one behind the other, for every k.
From(ss) ==
  LET from[k \in 1 .. Len(ss) + 1] == IF k = Len(ss) + 1 THEN <<>> ELSE ss[k] \o from[k + 1]
  IN  from

Joined(ss) == From(ss)[1]

===============================================================================
