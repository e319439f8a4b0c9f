----------------------------- MODULE Partitions -----------------------------
(***************************************************************************)
(* recovery/partition.go, DetectPartitions: what this program lists of a   *)
(* disk before a recovery, read from the cells that GptAdjust writes.  It  *)
(* looks at the MBR and the primary table only, and at no checksum.        *)
(*                                                                         *)
(* Simplifications.  A listing is the set of partitions by start and size  *)
(* in sectors; types, names and file systems are left out.  A table that is*)
(* neither an old nor a new one lists anything.                            *)
(***************************************************************************)
EXTENDS GptAdjust

Anything == {[start |-> 0, size |-> 0]}
WholeDisk(count) == {[start |-> 0, size |-> count]}

(* An entry beyond the end of the disk is left out, one across it is cut.  *)
WrongSectors(e) == e.last - e.first
Sectors(e) == e.last - e.first + 1
Cut(e, count) ==
  [start |-> e.first,
   size |-> IF e.first + Sectors(e) > count THEN count - e.first ELSE Sectors(e)]
Clipped(entries, count) ==
  {Cut(e, count) : e \in {p \in entries : p.first < count /\ p.last >= p.first}}

Entries(t) == {t[s] : s \in Used(t)}

(* The entries of the MBR; one that covers the disk stands for the four of *)
(* a full one.                                                             *)
MbrEntries(mbr) ==
  CASE mbr.kind = "parts"            -> Entries(mbr.parts)
    [] mbr.kind = "protective"       -> {[first |-> 1, last |-> mbr.size]}
    [] mbr.kind = "full"             -> {[first |-> 1, last |-> last]}
    [] OTHER                         -> {}

(* detectGPT: nothing where it returns an error.                           *)
DetectGPT(disk, count) ==
  IF disk["ph"].kind # "header" THEN {}
  ELSE IF disk["pe"].kind = "table" THEN Clipped(Entries(disk["pe"].parts), count)
  ELSE Anything

DetectPartitions(disk, count) ==
  LET gpt == IF disk["mbr"].kind = "protective" THEN DetectGPT(disk, count) ELSE {}
      mbr == Clipped(MbrEntries(disk["mbr"]), count)
  IN  IF disk["mbr"].kind = "mixed" THEN Anything
      ELSE IF gpt # {} THEN gpt ELSE IF mbr # {} THEN mbr ELSE WholeDisk(count)

-----------------------------------------------------------------------------
Found == DetectPartitions(cur, last + 1)
Place(p) == [start |-> p.first, size |-> p.last - p.first + 1]

(* The recovery finds what the clone wrote: an adapted table is listed as  *)
(* planned, and before that every partition with data that the destination *)
(* has room for (and that does not end before it begins) is listed,        *)
(* wherever the adjustment was cut short - as long as the table is no      *)
(* mixture of two, there is an MBR that announces it and the disk stored   *)
(* what it was given, which nothing checks of an MBR.                      *)
CloneIsFound ==
  /\ result = "ok" /\ ~lied /\ Used(plan) # {} => Found = {Place(plan[s]) : s \in Used(plan)}
  /\ Found # Anything /\ cur["mbr"].kind = "protective" /\ HasHeader =>
       {Place(source[s]) : s \in {t \in Slots : /\ source[t].kind = "basic"
                                               /\ source[t].first <= source[t].last
                                               /\ source[t].last <= last}} \subseteq Found
=============================================================================
