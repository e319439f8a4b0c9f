------------------------------ MODULE Readers ------------------------------
(***************************************************************************)
(* The readers every recovery reads its source through, as functions:      *)
(* recovery/aligned_reader.go turns a read into whole sectors,             *)
(* adaptive_reader.go splits a failing one until only the unreadable blocks*)
(* are left, fills them with zeros and records them, and cached_reader.go  *)
(* keeps a few large blocks.                                               *)
(*                                                                         *)
(* Simplifications.                                                        *)
(*  - What is at position p of the source is the number p itself; Zero is  *)
(*    what a filled byte holds.                                            *)
(*  - fails[p] is how often a read of p still fails, Broken for always.  A *)
(*    failing device read delivers nothing, or what precedes the failure if*)
(*    Prefix.                                                              *)
(*  - A cancel that arrives during a read is a number of waitControl calls *)
(*    it still lets pass; a pause only delays and is left out.             *)
(*  - Callers ask for bytes of the source only, as normalizeRange and the  *)
(*    cache see to.                                                        *)
(***************************************************************************)
EXTENDS Integers, Sequences

CONSTANTS
  SourceSize, Sector,      \* of the source
  Prefix,                  \* what a failing read of the device delivers
  BalancedBlock, FastBlock,\* minBlock of the damage modes
  BlockSize, MaxBlocks     \* of the cache

ASSUME ReaderAssumption ==
  /\ {SourceSize, Sector, BlockSize, MaxBlocks} \subseteq Nat \ {0}
  /\ BalancedBlock \in Nat /\ FastBlock \in Nat \ {0} /\ Prefix \in BOOLEAN

Zero == -1
Broken == 99      \* bound: no other count of failures is as large
Never == 99       \* no cancel

Least(a, b) == IF a < b THEN a ELSE b
Greatest(a, b) == IF a > b THEN a ELSE b

(* n rounds of a loop that does nothing when it has ended.                 *)
Times(n, Round(_), start) ==
  LET after[k \in 0 .. n] == IF k = 0 THEN start ELSE Round(after[k - 1])
  IN  after[n]

Data(off, n) == [i \in 1 .. n |-> off + i - 1]
Zeros(n) == [i \in 1 .. n |-> Zero]
AlignDown(v) == v - (v % Sector)
AlignUp(v) == IF v % Sector = 0 THEN v ELSE v + Sector - (v % Sector)

(* What a read goes through: the device, the cancel, and the adaptive      *)
(* reader's damage mode and record of bad ranges.                          *)
Damages == {"careful", "balanced", "fast"}
Stacks == [fails : [0 .. SourceSize - 1 -> Nat], passes : Nat, damage : Damages,
           bad : Seq([off : Nat, len : Nat])]
Stack(fails, passes, damage) ==
  [fails |-> fails, passes |-> passes, damage |-> damage, bad |-> <<>>]

(* The device itself: os.File.ReadAt of a physical disk or of an image.    *)
DeviceRead(st, off, len) ==
  LET failing == {p \in off .. off + len - 1 : st.fails[p] > 0}
      first == CHOOSE p \in failing : \A q \in failing : p <= q
  IN  IF failing = {} THEN [out |-> Data(off, len), st |-> st]
      ELSE [out |-> IF Prefix THEN Data(off, first - off) ELSE <<>>,
            st |-> [st EXCEPT !.fails[first] = IF @ = Broken THEN @ ELSE @ - 1]]

(* alignedReaderAt.ReadAt: what it copies out of the sectors around the    *)
(* bytes asked for, an error if that is less than asked for.               *)
WrongCopyOut(r, skipped, wanted) ==
  LET out == SubSeq(r.out, 1, Least(Len(r.out), wanted))
  IN  [out |-> out, failed |-> Len(out) < wanted, st |-> r.st]
CopyOut(r, skipped, wanted) ==
  LET out == SubSeq(r.out, skipped + 1, Least(Len(r.out), skipped + wanted))
  IN  [out |-> out, failed |-> Len(out) < wanted, st |-> r.st]
AlignedRead(st, off, len) ==
  LET wanted == Least(len, SourceSize - off)
      whole == off % Sector = 0 /\ wanted % Sector = 0
      end == IF AlignDown(SourceSize) = 0 THEN SourceSize ELSE AlignDown(SourceSize)
      first == IF whole THEN off ELSE AlignDown(off)
      last == IF whole THEN off + wanted ELSE Least(AlignUp(off + wanted), end)
  IN  IF off >= SourceSize \/ last <= first THEN [out |-> <<>>, failed |-> TRUE, st |-> st]
      ELSE CopyOut(DeviceRead(st, first, last - first), off - first, wanted)

-----------------------------------------------------------------------------
(* adaptiveReaderAt.                                                       *)

MinBlock(damage) ==
  CASE damage = "careful"  -> Sector
    [] damage = "balanced" -> Greatest(Sector, BalancedBlock)
    [] damage = "fast"     -> FastBlock
MaxRetries(damage) ==
  CASE damage = "careful" -> 2 [] damage = "balanced" -> 1 [] damage = "fast" -> 0

(* recordBad: a range that continues the last one extends it.              *)
RecordBad(bad, off, len) ==
  IF bad # <<>> /\ bad[Len(bad)].off + bad[Len(bad)].len = off
  THEN [bad EXCEPT ![Len(bad)].len = @ + len]
  ELSE Append(bad, [off |-> off, len |-> len])

(* waitControl.                                                            *)
Cancelled(st) == st.passes = 0
Pass(st) == IF st.passes = Never THEN st ELSE [st EXCEPT !.passes = @ - 1]

JoinReadError(a, b) ==
  IF "cancel" \in {a, b} THEN "cancel" ELSE IF a # "none" THEN a ELSE b

Half(len, min) ==
  LET h == Greatest(AlignDown(len \div 2), min)
  IN  IF h <= 0 \/ h >= len THEN len \div 2 ELSE h

(* The bytes delivered, the error and the state of the stack after.        *)
Then(head, err, rest) ==
  [out |-> head \o rest.out, err |-> JoinReadError(err, rest.err), st |-> rest.st]

(* A block of the smallest size is filled and recorded.                    *)
WrongFillBad(st, off, len) ==
  [out |-> Zeros(len), err |-> "bad", st |-> [st EXCEPT !.bad = RecordBad(@, off, 1)]]
FillBad(st, off, len) ==
  [out |-> Zeros(len), err |-> "bad", st |-> [st EXCEPT !.bad = RecordBad(@, off, len)]]

(* readSplit's loop: a read that delivers nothing is tried again.          *)
Retry(r, attempt, off, len) ==
  IF r.failed /\ r.out = <<>> /\ attempt <= MaxRetries(r.st.damage)
  THEN AlignedRead(r.st, off, len) ELSE r
Attempts(st, off, len) ==
  Retry(Retry(AlignedRead(st, off, len), 1, off, len), 2, off, len)

(* readSplit: what precedes a failure is kept; a block that does not read  *)
(* at all is filled if it is of the smallest size, and halved if not.      *)
ReadSplit[len \in Nat] ==
  [off \in Nat |-> [st \in Stacks |->
     LET r == Attempts(Pass(st), off, len)
         n == Len(r.out)
         half == Half(len, MinBlock(st.damage))
         first == ReadSplit[half][off][r.st]
     IN  IF Cancelled(st) THEN [out |-> <<>>, err |-> "cancel", st |-> st]
         ELSE IF ~r.failed \/ n = len THEN [out |-> r.out, err |-> "none", st |-> r.st]
         ELSE IF n > 0 THEN Then(r.out, "bad", ReadSplit[len - n][off + n][r.st])
         ELSE IF len <= MinBlock(st.damage) THEN FillBad(r.st, off, len)
         ELSE Then(first.out, first.err, ReadSplit[len - half][off + half][first.st])]]

(* adaptiveReaderAt.ReadAt: what precedes a failure is kept.               *)
KeepPrefix(r, off, len) ==
  LET n == Len(r.out) IN
  IF ~r.failed THEN [out |-> r.out, err |-> "none", st |-> r.st]
  ELSE Then(r.out, IF n > 0 THEN "bad" ELSE "none", ReadSplit[len - n][off + n][r.st])
AdaptiveRead(st, off, len) ==
  IF Cancelled(st) THEN [out |-> <<>>, err |-> "cancel", st |-> st]
  ELSE KeepPrefix(AlignedRead(Pass(st), off, len), off, len)

BadUnits(bad) == UNION {b.off .. b.off + b.len - 1 : b \in {bad[i] : i \in DOMAIN bad}}

-----------------------------------------------------------------------------
(* cachedReaderAt over the adaptive reader.  The blocks are kept in the    *)
(* order of their last use, which is what tick and used stand for.         *)

WithCache(st) == [st |-> st, blocks |-> <<>>]

(* The block at start, <<>> if nothing of it could be read: then it is not *)
(* kept.  The one used longest ago makes room.                             *)
Loaded(blocks, start, r) ==
  [out |-> r.out,
   ca |-> [st |-> r.st,
           blocks |-> IF r.out = <<>> THEN blocks
                      ELSE Append(IF Len(blocks) < MaxBlocks THEN blocks ELSE Tail(blocks),
                                  [start |-> start, out |-> r.out])]]
Block(ca, start) ==
  LET hit == {i \in DOMAIN ca.blocks : ca.blocks[i].start = start} IN
  IF hit = {}
  THEN Loaded(ca.blocks, start, AdaptiveRead(ca.st, start, Least(BlockSize, SourceSize - start)))
  ELSE LET b == ca.blocks[CHOOSE i \in hit : TRUE]
           others == SelectSeq(ca.blocks, LAMBDA other : other.start # start)
       IN  [out |-> b.out, ca |-> [ca EXCEPT !.blocks = Append(others, b)]]

(* One block of ReadAt's loop.  One that cannot be read ends it without an  *)
(* error if something was copied before.                                   *)
CopyFrom(l, b, inside, len) ==
  IF b.out = <<>> THEN [l EXCEPT !.ca = b.ca, !.ended = TRUE, !.failed = l.out = <<>>]
  ELSE IF inside >= Len(b.out) THEN [l EXCEPT !.ca = b.ca, !.ended = TRUE, !.failed = TRUE]
  ELSE [l EXCEPT !.ca = b.ca,
                 !.out = @ \o SubSeq(b.out, inside + 1,
                                    Least(Len(b.out), inside + len - Len(@)))]
FillBlock(l, off, len) ==
  LET at == off + Len(l.out)
      inside == at % BlockSize
  IN  IF l.ended \/ Len(l.out) = len THEN l
      ELSE IF at >= SourceSize THEN [l EXCEPT !.ended = TRUE, !.failed = TRUE]
      ELSE CopyFrom(l, Block(l.ca, at - inside), inside, len)
Fill(ca, off, len) ==
  Times(len, LAMBDA l : FillBlock(l, off, len),
        [out |-> <<>>, failed |-> FALSE, ended |-> FALSE, ca |-> ca])

Uncached(ca, r) == [out |-> r.out, failed |-> r.err # "none", ca |-> [ca EXCEPT !.st = r.st]]
CachedRead(ca, off, len) ==
  IF off >= SourceSize THEN [out |-> <<>>, failed |-> TRUE, ca |-> ca]
  ELSE IF len > 4 * BlockSize THEN Uncached(ca, AdaptiveRead(ca.st, off, len))
  ELSE Fill(ca, off, len)
=============================================================================
