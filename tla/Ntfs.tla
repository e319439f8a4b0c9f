-------------------------------- MODULE Ntfs --------------------------------
(***************************************************************************)
(* recovery/ntfs.go as functions: the boot sector, run lists, MFT records, *)
(* streams and paths.                                                      *)
(*                                                                         *)
(* A volume is                                                             *)
(*   boot : [magic, bps, spc, lcn, cpr]  of unit 0; cpr is a signed byte   *)
(*   mft  : function from units to MFT records                             *)
(*   layout, recordAt : what it holds under which path, for the properties *)
(* and an MFT record                                                       *)
(*   [fixed, num, inUse, dir, attrs], fixed when its sectors carry its     *)
(*   sequence number, attrs in the order of the record.                    *)
(* A unit is UnitBytes bytes, the sizes are in units, the volume is the    *)
(* whole source.  What sanitizeName makes of a name is left out.           *)
(***************************************************************************)
EXTENDS Readers, FiniteSets
LOCAL INSTANCE Functions
LOCAL INSTANCE TLC

CONSTANT UnitBytes
ASSUME UnitAssumption == UnitBytes \in Nat \ {0}

(* decodeUnsignedLE and decodeSignedLE, of at most 8 bytes.                *)
Unsigned(b) == SumFunction([i \in DOMAIN b |-> b[i] * 256 ^ (i - 1)])
WrongSigned(b) == Unsigned(b)
Signed(b) ==
  IF b # <<>> /\ b[Len(b)] >= 128 THEN Unsigned(b) - 256^Len(b) ELSE Unsigned(b)

(* decodeRunList: runs of [vcn, lcn, clusters], lcn -1 if sparse; <<>> is  *)
(* its error.                                                              *)
NextRun(d) ==
  LET lenBytes == d.data[1] % 16
      offBytes == d.data[1] \div 16
      clusters == Unsigned(SubSeq(d.data, 2, 1 + lenBytes))
      to == d.lcn + Signed(SubSeq(d.data, 2 + lenBytes, 1 + lenBytes + offBytes))
  IN  IF d.data = <<>> \/ d.data[1] = 0 THEN d
      ELSE IF \/ lenBytes \notin 1 .. 8 \/ offBytes > 8
              \/ 1 + lenBytes + offBytes > Len(d.data)
              \/ clusters <= 0 \/ (offBytes > 0 /\ to < 0)
      THEN [d EXCEPT !.data = <<>>, !.runs = <<>>]
      ELSE [data |-> SubSeq(d.data, 2 + lenBytes + offBytes, Len(d.data)),
            lcn |-> to, vcn |-> d.vcn + clusters,
            runs |-> Append(d.runs, [vcn |-> d.vcn, clusters |-> clusters,
                                     lcn |-> IF offBytes = 0 THEN -1 ELSE to])]
DecodeRunList(data) ==
  Times(Len(data), NextRun, [data |-> data, lcn |-> 0, vcn |-> 0, runs |-> <<>>]).runs

(* parseMFTRecord.  An attribute too long for the record ends it.          *)
NoData == [resident |-> FALSE, value |-> <<>>, runs |-> <<>>, real |-> 0, flags |-> {}]
Rank(namespace) ==
  CASE namespace \in {1, 3} -> 0 [] namespace = 0 -> 1 [] namespace = 2 -> 2 [] OTHER -> 3

ParseFileName(entry, a) ==
  IF Rank(a.namespace) < entry.rank
  THEN [entry EXCEPT !.rank = Rank(a.namespace), !.name = a.name, !.parent = a.parent]
  ELSE entry
WrongParseData(entry, a) ==
  [entry EXCEPT !.data = [resident |-> a.resident, runs |-> DecodeRunList(a.value),
                          flags |-> a.flags, value |-> a.value, real |-> a.real]]
ParseData(entry, a) ==
  LET runs == IF a.resident THEN <<>> ELSE DecodeRunList(a.value) IN
  IF a.named \/ (~a.resident /\ runs = <<>>) THEN entry
  ELSE [entry EXCEPT !.data = [resident |-> a.resident, runs |-> runs, flags |-> a.flags,
                               value |-> IF a.resident THEN a.value ELSE <<>>,
                               real |-> IF a.resident THEN Len(a.value) ELSE a.real]]
ParseAttribute(entry, a) ==
  CASE entry.ended           -> entry
    [] a.type = "broken"     -> [entry EXCEPT !.ended = TRUE]
    [] a.type = "name"       -> ParseFileName(entry, a)
    [] a.type = "data"       -> ParseData(entry, a)

Named(entry) ==
  IF entry.name = "" /\ entry.num < 16 THEN [entry EXCEPT !.name = "$Metarquivo"] ELSE entry
ParseRecord(rec, fallback) ==
  LET parsed[n \in 0 .. Len(rec.attrs)] ==
        IF n = 0
        THEN [num |-> IF rec.num # 0 \/ fallback = 0 THEN rec.num ELSE fallback,
              inUse |-> rec.inUse, dir |-> rec.dir, name |-> "", parent |-> 0, rank |-> 3,
              data |-> NoData, ended |-> FALSE]
        ELSE ParseAttribute(parsed[n - 1], rec.attrs[n])
  IN  Named(parsed[Len(rec.attrs)])

-----------------------------------------------------------------------------
(* openNTFSVolume.  The byte is negated as a byte, where -128 stays -128:  *)
(* no bound refuses it, and the shift by it panics.                        *)
RecordShift(cpr) == IF cpr = -128 THEN -128 ELSE -cpr
Panics(boot) == boot.cpr < 0 /\ RecordShift(boot.cpr) < 0
RecordSize(boot) ==
  IF boot.cpr >= 0 THEN boot.cpr * boot.bps * boot.spc
  ELSE IF RecordShift(boot.cpr) > 30 THEN 0 ELSE 2^RecordShift(boot.cpr)
GeometryOK(boot) == boot.magic /\ boot.spc > 0 /\ \E k \in 9 .. 16 : boot.bps = 2^k

(* The record in what was read: its first unit names it, and the fixup     *)
(* refuses one with a unit missing.                                        *)
NoRecord == [fixed |-> FALSE]
RecordIn(volume, out) ==
  IF out # <<>> /\ out[1] \in DOMAIN volume.mft /\ \A i \in DOMAIN out : out[i] # Zero
  THEN volume.mft[out[1]] ELSE NoRecord
ApplyFixup(rec) == rec.fixed

Cluster(boot) == (boot.bps * boot.spc) \div UnitBytes
Volume(boot, runs, size) ==
  [cluster |-> Cluster(boot), record |-> RecordSize(boot) \div UnitBytes,
   runs |-> runs, size |-> size]

NoVolume == [cluster |-> 0, record |-> 0, runs |-> <<>>, size |-> 0]

(* The volume, or how opening it failed, and the cache after.              *)
Mft(boot, entry) ==
  LET room == SourceSize - boot.lcn * Cluster(boot)
      clusters == room \div Cluster(boot)
  IN  IF entry.data.runs # <<>> /\ entry.data.real > 0
      THEN Volume(boot, entry.data.runs, Least(entry.data.real, SourceSize))
      ELSE Volume(boot, <<[vcn |-> 0, lcn |-> boot.lcn, clusters |-> clusters]>>,
                  clusters * Cluster(boot))
Unopened(how, ca) == [result |-> how, vol |-> NoVolume, ca |-> ca]
ReadRecord0(volume, first) ==
  LET rec == RecordIn(volume, first.out)
      vol == Mft(volume.boot, ParseRecord(rec, 0))
  IN  IF ~ApplyFixup(rec) THEN Unopened("failed", first.ca)
      ELSE IF vol.size < 1 THEN Unopened("failed", first.ca)
      ELSE [result |-> "ok", vol |-> vol, ca |-> first.ca]
ReadBoot(volume, sector) ==
  LET boot == volume.boot IN
  IF sector.failed \/ sector.out[1] = Zero \/ ~GeometryOK(boot)
  THEN Unopened("failed", sector.ca)
  ELSE IF Panics(boot) THEN Unopened("panic", sector.ca)
  ELSE IF RecordSize(boot) \notin 512 .. 65536 \/ boot.lcn <= 0
  THEN Unopened("failed", sector.ca)
  ELSE ReadRecord0(volume, CachedRead(sector.ca, boot.lcn * Cluster(boot),
                                      RecordSize(boot) \div UnitBytes))
OpenNTFSVolume(ca, volume) == ReadBoot(volume, CachedRead(ca, 0, 1))

-----------------------------------------------------------------------------
(* readNTFSStreamAt into the buffer p: the buffer after, and whether the   *)
(* read failed.  A read that delivers less without an error (the cancel    *)
(* came between two blocks of the cache) ends it as a success: cut.        *)
Into(p, written, out) ==
  [i \in DOMAIN p |-> IF i \in written + 1 .. written + Len(out) THEN out[i - written] ELSE p[i]]
ReadRun(s, r, amount) ==
  IF Len(r.out) < amount
  THEN [s EXCEPT !.ended = TRUE, !.out = Into(@, s.written, r.out), !.failed = r.failed,
                 !.cut = ~r.failed, !.ca = r.ca]
  ELSE [s EXCEPT !.written = @ + amount, !.out = Into(@, s.written, r.out), !.ca = r.ca]
Stream(s, vol, runs, off) ==
  LET at == off + s.written
      vcn == at \div vol.cluster
      inCluster == at % vol.cluster
      holds == {i \in DOMAIN runs : vcn \in runs[i].vcn .. runs[i].vcn + runs[i].clusters - 1}
      run == runs[CHOOSE i \in holds : \A j \in holds : i <= j]
      available == (run.vcn + run.clusters - vcn) * vol.cluster - inCluster
      amount == Least(Len(s.out) - s.written, available)
      physical == (run.lcn + (vcn - run.vcn)) * vol.cluster + inCluster
  IN  IF s.ended \/ s.written = Len(s.out) THEN s
      ELSE IF holds = {} THEN [s EXCEPT !.ended = TRUE, !.failed = TRUE]
      ELSE IF run.lcn = -1
           THEN [s EXCEPT !.written = @ + amount, !.out = Into(@, s.written, Zeros(amount))]
      ELSE ReadRun(s, CachedRead(s.ca, physical, amount), amount)
ReadStream(ca, vol, runs, off, p) ==
  Times(Len(p), LAMBDA s : Stream(s, vol, runs, off),
        [out |-> p, written |-> 0, ended |-> FALSE, failed |-> FALSE, cut |-> FALSE, ca |-> ca])

(* buildNTFSPath: up to a record of the system, an unknown one, or one it  *)
(* has seen.                                                               *)
Up(u, byNum) ==
  IF \/ u.parent <= 5 \/ u.parent \in u.seen \/ Cardinality(u.seen) > 64
     \/ u.parent \notin DOMAIN byNum \/ byNum[u.parent].name = ""
  THEN u
  ELSE [parent |-> byNum[u.parent].parent, seen |-> u.seen \cup {u.parent},
        path |-> <<byNum[u.parent].name>> \o u.path]
BuildPath(entry, byNum) ==
  Times(Cardinality(DOMAIN byNum), LAMBDA u : Up(u, byNum),
        [parent |-> entry.parent, seen |-> {entry.num}, path |-> <<entry.name>>]).path
ByRecord(entries) ==
  [num \in {entries[i].num : i \in DOMAIN entries} |->
     entries[CHOOSE i \in DOMAIN entries :
               /\ entries[i].num = num
               /\ \A j \in DOMAIN entries : entries[j].num = num => j <= i]]

(* The deleted files worth recovering, in the order of their records.      *)
Deleted(entries, minSize) ==
  LET byNum == ByRecord(entries)
      wanted == SelectSeq(entries, LAMBDA e : /\ ~e.inUse /\ ~e.dir /\ e.name # ""
                                              /\ e.data.real > 0 /\ e.data.real >= minSize)
      sorted == SortSeq(wanted, LAMBDA a, b : a.num < b.num)
  IN  [i \in DOMAIN sorted |-> [path |-> BuildPath(sorted[i], byNum), data |-> sorted[i].data]]
=============================================================================
