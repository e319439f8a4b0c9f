---------------------------- MODULE MCGptAdjust ----------------------------
(* An instance of GptAdjust: partitions that touch, overlap, fall short of *)
(* the first usable sector or reach beyond a smaller destination.  The plan*)
(* sorts the entries, so their slots are interchangeable.                  *)
EXTENDS Partitions, TLC

CONSTANTS s1, s2, s3

Part(a, b, k) == [first |-> a, last |-> b, kind |-> k]
SomePartitions ==
  {Part(2, 3, "basic"), Part(3, 5, "basic"), Part(5, 7, "basic"), Part(6, 7, "recovery"),
   Part(8, 9, "basic"), Part(7, 10, "recovery")}

SlotSymmetry == Permutations(Slots)
=============================================================================
