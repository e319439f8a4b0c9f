---------------------------- MODULE MCCloneDisk ----------------------------
(* Instances of CloneDisk for TLC.  Disks are interchangeable, and what is  *)
(* left in the local variables of a call that returned is read by nobody:  *)
(* Load assigns every one of them.                                         *)
EXTENDS CloneRefinement, TLC

CONSTANTS d1, d2

DiskSymmetry == Permutations(Disks)

View == <<file, disk, call, user, count, pc, result,
          IF pc \in {"idle", "load"} THEN <<>> ELSE work>>

(* Where a second disk is used, one session less.                          *)
Used == {target} \cup {d \in Disks : pend[d] # [b \in Blocks |-> {"old"}]}
OneDiskLonger == Cardinality(Used) = 1 \/ sessions < MaxSessions

(* The last session is neither cancelled nor paused.                       *)
LastAlone == sessions = MaxSessions => ~cancel /\ ~paused
=============================================================================
