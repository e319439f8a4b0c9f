---------------------------- MODULE MappedReader ----------------------------
(***************************************************************************)
(* mapped_reader.go: a source of which some ranges are read from snapshots *)
(* and the rest from the disk itself.                                      *)
(*                                                                         *)
(* What a read finds at a unit is the reader it asked and the position it  *)
(* asked it for; "disk" is the disk itself, whose units in Broken do not   *)
(* read.  Snapshots read, and are as long as their ranges.                 *)
(***************************************************************************)
EXTENDS Naturals, Sequences

CONSTANT Broken   \* units of the disk that never read

ASSUME MappedAssumption == Broken \subseteq Nat

Unit(from, at) == [from |-> from, at |-> at]
Zero == Unit("zero", 0)

(* newMappedRangeReader sorts the ranges it is given: sort.Slice leaves    *)
(* them in some order in which none begins before an earlier one.          *)
Orders(ranges) ==
  {p \in [DOMAIN ranges -> DOMAIN ranges] :
     /\ \A i \in DOMAIN ranges : \E j \in DOMAIN ranges : p[j] = i
     /\ \A i, j \in DOMAIN ranges : i < j => ranges[p[i]].start <= ranges[p[j]].start}
WrongSorted(ranges) == ranges
Sorted(ranges) ==
  LET order == CHOOSE p \in Orders(ranges) : TRUE
  IN  [i \in DOMAIN ranges |-> ranges[order[i]]]

(* sort.Search: the first range that ends behind the position.             *)
FirstEndingBehind(ranges, pos) ==
  LET behind == {i \in DOMAIN ranges : ranges[i].end > pos}
  IN  IF behind = {} THEN Len(ranges) + 1
      ELSE CHOOSE i \in behind : \A j \in behind : i <= j

(* Reading the disk stops at a unit that does not read.                    *)
DiskRead(off, len) ==
  LET broken == {u \in off .. off + len - 1 : u \in Broken}
      first == CHOOSE u \in broken : \A v \in broken : u <= v
      count == IF broken = {} THEN len ELSE first - off
  IN  [i \in 1 .. count |-> Unit("disk", off + i - 1)]

(* One turn of the loop of ReadAt: the rest of the buffer, as far as the   *)
(* range that holds the position, or as far as the next one begins.        *)
ReadPiece(ranges, pos, len) ==
  LET i == FirstEndingBehind(ranges, pos)
      Upto(edge) == IF edge - pos < len THEN edge - pos ELSE len
  IN  IF i > Len(ranges) THEN [want |-> len, got |-> DiskRead(pos, len)]
      ELSE IF pos >= ranges[i].start
      THEN LET n == Upto(ranges[i].end)
           IN  [want |-> n, got |-> [k \in 1 .. n |-> Unit(ranges[i].letter, pos + k - 1 - ranges[i].start)]]
      ELSE LET n == Upto(ranges[i].start) IN [want |-> n, got |-> DiskRead(pos, n)]

(* mappedRangeReader.ReadAt: what it read, and whether it failed; rest[n]  *)
(* is what it makes of the last n units of the buffer.                     *)
MappedRead(given, off, len) ==
  LET ranges == Sorted(given)
      Then(piece, after) ==
        IF Len(piece.got) < piece.want THEN [got |-> piece.got, failed |-> TRUE]
        ELSE [got |-> piece.got \o after.got, failed |-> after.failed]
      rest[n \in 0 .. len] ==
        IF n = 0 THEN [got |-> <<>>, failed |-> FALSE]
        ELSE LET piece == ReadPiece(ranges, off + len - n, n)
             IN  Then(piece, rest[n - piece.want])
  IN  rest[len]

(* What a clone makes of a chunk: one that does not read is read again     *)
(* piece by piece, and what still does not is filled with zeros.           *)
ReadChunk(ranges, off, len) ==
  LET chunk == MappedRead(ranges, off, len)
      One(u) == LET r == MappedRead(ranges, u, 1) IN IF r.failed THEN Zero ELSE r.got[1]
  IN  IF ~chunk.failed THEN chunk.got ELSE [k \in 1 .. len |-> One(off + k - 1)]
=============================================================================
