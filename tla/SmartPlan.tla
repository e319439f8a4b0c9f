------------------------------ MODULE SmartPlan ------------------------------
(***************************************************************************)
(* smart_migration_windows.go: what buildSmartMigrationPlan decides about  *)
(* the partitions of a source that is larger than its destination, and     *)
(* when two plans are the same.                                            *)
(*                                                                         *)
(* Simplifications.                                                        *)
(*  - Sizes count units; Alignment (1 MiB), TailReserve, MinFree and       *)
(*    ResizeBuffer are constants in the same unit, and a sector is a unit. *)
(*  - kind is what the types and the file system of a partition amount to: *)
(*    "recovery" for IsRecovery, "ntfs", or "other".                       *)
(*  - used is VolumeSize - SizeRemaining, or 0 when Windows did not say.   *)
(***************************************************************************)
EXTENDS Naturals, FiniteSets

CONSTANTS Alignment, TailReserve, MinFree, ResizeBuffer

ASSUME SmartAssumption ==
  /\ Alignment \in Nat \ {0} /\ TailReserve \in Nat \ {0}
  /\ MinFree \in Nat /\ ResizeBuffer \in Nat

AlignDown(value) == value - (value % Alignment)
AlignUp(value) == IF value % Alignment = 0 THEN value ELSE value + Alignment - (value % Alignment)
Larger(a, b) == IF a > b THEN a ELSE b

End(p) == p.off + p.size

(* A partition that is beyond the limit may be left out if it is recovery. *)
Droppable(p, limit) == End(p) > limit /\ p.kind = "recovery"

(* The essential partition that ends last; the first of those by offset.   *)
LastOf(parts) ==
  CHOOSE p \in parts : \A q \in parts : End(q) < End(p) \/ (End(q) = End(p) /\ q.off >= p.off)

(* What must remain of a partition: what Windows can shrink it to and a    *)
(* buffer, or what is used and a reserve of free space.                    *)
WrongMinimumSafe(p) == AlignUp(p.min)
MinimumSafe(p) ==
  LET reserve == Larger(MinFree, p.used \div 20)
  IN  AlignUp(Larger(p.min + ResizeBuffer, IF p.used > 0 THEN p.used + reserve ELSE 0))

NoPlan == [copy |-> 0, limit |-> 0, shrink |-> 0, from |-> 0, to |-> 0, min |-> 0,
           dropped |-> {}, source |-> "none"]

(* Why a plan is refused before the sizes are looked at.                   *)
Refused(source, target, layout) ==
  \/ source.slot = target.slot
  \/ ~source.known \/ ~target.known
  \/ source.sector # target.sector
  \/ ~source.system
  \/ layout.style \notin {"GPT", "MBR"}
  \/ layout.parts = {}
  \/ layout.style = "MBR" /\ \E p \in layout.parts : p.num > 4

(* The size a partition is reduced to, and whether it can be.              *)
NewSize(p, limit) == AlignDown(limit - p.off)
Shrinkable(p, limit) ==
  /\ p.kind = "ntfs" /\ p.letter # ""
  /\ limit > p.off
  /\ NewSize(p, limit) \in MinimumSafe(p) .. p.size - 1 \ {0}

(* buildSmartMigrationPlan: the plan, or NoPlan where it returns an error. *)
BuildPlan(source, target, layout) ==
  LET whole == [NoPlan EXCEPT !.copy = source.size, !.limit = source.size, !.source = source.id]
      limit == IF target.size > TailReserve THEN AlignDown(target.size - TailReserve) ELSE 0
      dropped == {p \in layout.parts : Droppable(p, limit)}
      essential == layout.parts \ dropped
      last == LastOf(essential)
      fits == [whole EXCEPT !.copy = target.size, !.limit = limit, !.dropped = dropped]
  IN  IF Refused(source, target, layout) THEN NoPlan
      ELSE IF target.size >= source.size THEN whole
      ELSE IF limit <= Alignment \/ essential = {} THEN NoPlan
      ELSE IF End(last) <= limit THEN fits
      ELSE IF Shrinkable(last, limit)
           THEN [fits EXCEPT !.shrink = last.num, !.from = last.size,
                             !.to = NewSize(last, limit), !.min = MinimumSafe(last)]
           ELSE NoPlan

(* smartPlansEquivalent: what the user confirmed is what was found again.  *)
(* Layout and reduction are not compared, and neither is the used space    *)
(* but for what it makes of the safe minimum.                              *)
PlansEquivalent(a, b) == a = b
=============================================================================
