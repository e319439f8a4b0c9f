----------------------------- MODULE MCDeepScan -----------------------------
(* Instances of DeepScan for TLC: two ranges that are apart and end in a    *)
(* short read, candidates at the start of the plan, across two chunks and   *)
(* at the end of a range, across it (which nobody can find), and at the end *)
(* of the plan.                                                             *)
EXTENDS DeepScan

TwoRanges == <<[start |-> 1, size |-> 5], [start |-> 8, size |-> 3]>>
Disk == {[at |-> 1, span |-> 2], [at |-> 4, span |-> 2], [at |-> 5, span |-> 2],
         [at |-> 9, span |-> 2]}

(* More chunks than one worker and its two channels can hold.               *)
OneRange == <<[start |-> 0, size |-> 7]>>
OneCandidate == {[at |-> 3, span |-> 2]}
=============================================================================
