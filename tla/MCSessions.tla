------------------------------ MODULE MCSessions ------------------------------
(* Instances of Sessions for TLC.                                            *)
EXTENDS Sessions, TLC

CONSTANTS o1, o2, o3, o4

\* Objects differ only in what the run does with them.
ObjectSymmetry == Permutations(Objects)
===============================================================================
