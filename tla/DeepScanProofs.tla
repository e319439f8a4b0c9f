--------------------------- MODULE DeepScanProofs ---------------------------
(***************************************************************************)
(* For any ranges, candidates, chunk size and number of workers: a call    *)
(* whose writes of the candidates file failed never sorts that file; the   *)
(* types; the offset a session says never goes back; a deep scan that is   *)
(* resumed loses no candidate, and the index it extracts from has them all.*)
(***************************************************************************)
EXTENDS DeepScan, TLAPS, Integers, WellFoundedInduction, FiniteSetTheorems, SequenceTheorems

(* The channels, the workers and the collector live inside one call of     *)
(* scanDiskToStore: before and after it nothing is in flight.              *)
Quiet == jobs = <<>> /\ busy = {} /\ results = <<>> /\ col = "recv"
PipeInScan == pc \in {"read", "drain"} \/ Quiet

(* The writer is new when no store is open and sound once it was closed.   *)
WriterGood ==
  writerBad => pc \in {"range", "read", "drain", "close", "fail"}

ScanInv == PipeInScan /\ WriterGood

-----------------------------------------------------------------------------
(* No call runs and no store is open at the start.                         *)
LEMMA InitScanInv == Init => ScanInv
  BY DEF Init, ScanInv, PipeInScan, Quiet, WriterGood

(* A call that returns or dies leaves no writer and nothing in flight.     *)
LEMMA ReturnKeeps == Return => ScanInv'
  BY DEF Return, Goto, ScanInv, PipeInScan, Quiet, WriterGood

(* The steps of the calling goroutine outside scanDiskToStore: only        *)
(* CloseStore touches the writer, and it goes on only when its flush did   *)
(* not fail.                                                               *)
LEMMA CallerKeeps ==
  ASSUME ScanInv, OpenStore \/ ScanRanges \/ Index \/ Finish
  PROVE  ScanInv'
<1> USE DEF ScanInv, PipeInScan, Quiet, WriterGood, Goto, pipe, store, collector
<1>1. CASE OpenStore
  BY <1>1 DEF OpenStore
<1>2. CASE ScanRanges
  BY <1>2 DEF ScanRanges, SkipRange, EnterRange, AllScanned
<1>3. CASE Index
  <2>1. CASE CloseStore
    BY <2>1 DEF CloseStore, Failed
  <2>2. CASE ReportFailure
    BY <2>2, ReturnKeeps DEF ReportFailure
  <2>3. CASE SaveSorting \/ SaveSorted
    BY <2>3 DEF SaveSorting, SaveSorted, SaveThen
  <2>4. CASE Sort \/ SortFails
    BY <2>4 DEF Sort, SortFails
  <2> QED
    BY <1>3, <2>1, <2>2, <2>3, <2>4 DEF Index
<1>4. CASE Finish
  <2>1. CASE NoIndex \/ ExtractCancelled \/ RemoveFiles
    BY <2>1, ReturnKeeps DEF NoIndex, ExtractCancelled, RemoveFiles
  <2>2. CASE Extract \/ SaveCompleted
    BY <2>2 DEF Extract, SaveCompleted, SaveThen
  <2> QED
    BY <1>4, <2>1, <2>2 DEF Finish
<1> QED
  BY <1>1, <1>2, <1>3, <1>4

(* The reader sends only while it reads, and leaves when all is drained.   *)
LEMMA ReadKeeps ==
  ASSUME ScanInv, Read
  PROVE  ScanInv'
<1> USE DEF ScanInv, PipeInScan, Quiet, WriterGood, Goto, pipe, store, collector
<1>1. CASE ReadChunk
  BY <1>1 DEF ReadChunk
<1>2. CASE CutRead \/ ScanCancelled \/ RangeRead
  BY <1>2 DEF CutRead, ScanCancelled, RangeRead
<1>3. CASE Drained
  BY <1>3 DEF Drained
<1> QED
  BY <1>1, <1>2, <1>3 DEF Read

(* Workers and collector act only on what is in flight, so only while the  *)
(* call is in scanDiskToStore; there the writer may fail.                  *)
LEMMA PipelineKeeps ==
  ASSUME ScanInv, Worker \/ Collector
  PROVE  ScanInv'
<1> USE DEF ScanInv, PipeInScan, Quiet, WriterGood
<1>1. CASE Worker
  BY <1>1 DEF Worker, TakeJob, FinishJob, store
<1>2. CASE Collect
  BY <1>2 DEF Collect, Receives
<1>3. CASE Flush
  BY <1>3 DEF Flush
<1>4. CASE SaveProgress
  BY <1>4 DEF SaveProgress, store
<1> QED
  BY <1>1, <1>2, <1>3, <1>4 DEF Collector

(* Starting a call, the user and a kill.                                   *)
LEMMA OutsideKeeps ==
  ASSUME ScanInv, Start \/ Cancel \/ TogglePause \/ Kill \/ UNCHANGED vars
  PROVE  ScanInv'
<1> USE DEF ScanInv, PipeInScan, Quiet, WriterGood, Goto, pipe, store, collector
<1>1. CASE Start
  BY <1>1 DEF Start, StartNew, Resume
<1>2. CASE Cancel \/ TogglePause
  BY <1>2 DEF Cancel, TogglePause
<1>3. CASE Kill
  BY <1>3, ReturnKeeps DEF Kill
<1>4. CASE UNCHANGED vars
  BY <1>4 DEF vars
<1> QED
  BY <1>1, <1>2, <1>3, <1>4

(* store.Append and store.Flush may fail at any time and Flush's error is  *)
(* dropped in the collector; the error that bufio keeps comes back from    *)
(* store.Close, so recoverDeep never sorts or extracts from an index whose *)
(* writes failed in that call.                                             *)
THEOREM WriteErrorsStop == Spec => []WriteErrorReported
<1>1. Init => ScanInv
  BY InitScanInv
<1>2. ScanInv /\ [Next]_vars => ScanInv'
  BY CallerKeeps, ReadKeeps, PipelineKeeps, OutsideKeeps DEF Next, Caller
<1>3. ScanInv => WriteErrorReported
  BY DEF ScanInv, WriterGood, WriteErrorReported
<1> QED
  BY <1>1, <1>2, <1>3, PTL DEF Spec

-----------------------------------------------------------------------------
(* Where the reader is and what is in flight.                              *)

Scanning == pc \in {"read", "drain"}
Stopped == pc = "close" /\ scanErr
Indexing == pc \in {"sorting", "sort", "sorted", "extract", "completed", "remove"}

(* The position in the plan the reader has come to.                        *)
Reached == Before[rng] + offset

Fields ==
  /\ saved \in Session /\ sess \in Session
  /\ pc \in Labels /\ col \in {"recv", "flush", "save"}
  /\ writerBad \in BOOLEAN /\ collectErr \in BOOLEAN /\ due \in BOOLEAN /\ scanErr \in BOOLEAN
  /\ cancel \in BOOLEAN /\ paused \in BOOLEAN /\ finished \in BOOLEAN
  /\ workers \in WorkerChoices /\ harm \subseteq {"kill", "write"}
  /\ rng \in 1 .. Len(Ranges) + 1 /\ resumeAt \in Units

ReaderIn ==
  /\ offset \in Units /\ carry \in 0 .. 1 /\ carry <= offset
  /\ Scanning \/ Stopped =>
       /\ rng \in 1 .. Len(Ranges) /\ offset <= Ranges[rng].size
       /\ carry # 0 => offset >= Sector \/ offset = Ranges[rng].size
  /\ pc = "drain" /\ ~scanErr => offset = Ranges[rng].size
  /\ scanErr => pc \in {"drain", "close", "fail"}
  /\ pc = "close" /\ ~scanErr => rng = Len(Ranges) + 1
  /\ pc \in {"range", "close"} /\ ~scanErr => Before[rng] <= resumeAt

(* A chunk lies in what was read of the range; each one ends behind those  *)
(* that were sent before it.                                               *)
Result == [found : SUBSET Findable, new : 1 .. Chunk]
JobEnd(job) == job.base + job.len
Placed(job) ==
  /\ job \in Job
  /\ Ranges[rng].start <= job.base /\ JobEnd(job) <= Ranges[rng].start + offset

PipeIn ==
  /\ Scanning \/ Quiet
  /\ jobs \in Seq(Job) /\ Len(jobs) <= workers
  /\ IsFiniteSet(busy) /\ Cardinality(busy) <= workers
  /\ results \in Seq(Result) /\ Len(results) <= workers
  /\ \A i \in 1 .. Len(jobs) : Placed(jobs[i])
  /\ \A job \in busy : Placed(job)
  /\ \A i, k \in 1 .. Len(jobs) : i < k => JobEnd(jobs[i]) < JobEnd(jobs[k])
  /\ \A job \in busy : \A i \in 1 .. Len(jobs) : JobEnd(job) < JobEnd(jobs[i])

StoreIn ==
  /\ file \subseteq Findable /\ buf \subseteq Findable
  /\ sorted = NoFile \/ sorted \subseteq Findable
  /\ writerBad \/ collectErr => "write" \in harm
  /\ col = "save" => buf = {} \/ writerBad

(* Every chunk in flight is a whole one, but for the last of a range and   *)
(* for one cut short, after which nothing is read.                         *)
InFlight == Len(jobs) + Cardinality(busy) + Len(results)
JobsWhole == \A i \in 1 .. Len(jobs) : jobs[i].new = Chunk
BusyWhole == \A job \in busy : job.new = Chunk
ResultsWhole == \A i \in 1 .. Len(results) : results[i].new = Chunk
ShortJob(n) ==
  /\ jobs # <<>> /\ jobs[Len(jobs)].new = n
  /\ \A i \in 1 .. Len(jobs) - 1 : jobs[i].new = Chunk
  /\ BusyWhole /\ ResultsWhole
ShortBusy(n) ==
  /\ JobsWhole /\ ResultsWhole
  /\ \E job \in busy : job.new = n /\ \A other \in busy \ {job} : other.new = Chunk
ShortResult(n) ==
  /\ JobsWhole /\ BusyWhole
  /\ \E i \in 1 .. Len(results) :
       results[i].new = n /\ \A k \in 1 .. Len(results) : k # i => results[k].new = Chunk

AllWhole ==
  processed + Chunk * InFlight = Reached /\ JobsWhole /\ BusyWhole /\ ResultsWhole
OneShort ==
  /\ pc = "drain" \/ offset = Ranges[rng].size
  /\ \E n \in 1 .. Chunk - 1 :
       /\ processed + Chunk * InFlight = Reached + Chunk - n
       /\ ShortJob(n) \/ ShortBusy(n) \/ ShortResult(n)
Counted == /\ processed \in Units
           /\ Scanning => AllWhole \/ OneShort

(* What the session files say against how far the scan has come.           *)
OffsetIn ==
  /\ pc = "store" => sess = saved
  /\ col # "recv" =>
       /\ sess.off = processed /\ sess.phase = "scanning"
       /\ saved.off <= processed /\ processed >= 1
  /\ Scanning => saved.off <= processed + 1
  /\ pc = "range" => saved.off <= resumeAt + 1 /\ StartAt(saved.off) <= resumeAt
  /\ Indexing => saved.off <= sess.off
  /\ pc \in {"sorting", "sort"} => sess.phase = "sorting"
  /\ pc = "completed" => sess.phase = "completed"
  /\ saved.phase = "sorted" => pc \in {"idle", "extract", "completed", "remove"}

ScanState == Fields /\ ReaderIn /\ PipeIn /\ StoreIn /\ Counted /\ OffsetIn

-----------------------------------------------------------------------------
(* A set of numbers that is not empty has a least one.                     *)
LEMMA LeastOf ==
  ASSUME NEW T, T \subseteq Nat, T # {}
  PROVE  \E x \in T : \A y \in T : x <= y
<1>1. PICK x \in T : \A y \in T : ~(<<y, x>> \in OpToRel(<, Nat))
  BY NatLessThanWellFounded, WFMin
<1>2. \A y \in T : ~(y < x)
  BY <1>1 DEF OpToRel
<1> QED
  BY <1>2

(* The plan as a list of numbers.                                          *)
LEMMA RangesIn ==
  /\ Len(Ranges) \in Nat /\ Len(Ranges) >= 1
  /\ \A r \in 1 .. Len(Ranges) :
       /\ Ranges[r].start \in Nat /\ Ranges[r].size \in Nat /\ Ranges[r].size >= 1
<1>1. Ranges \in Seq([start : Nat, size : Nat \ {0}]) /\ Ranges # <<>>
  BY ScanAssumption
<1>2. Len(Ranges) \in Nat /\ Len(Ranges) >= 1
  BY <1>1, EmptySeq
<1>3. ASSUME NEW r \in 1 .. Len(Ranges)
      PROVE  /\ Ranges[r].start \in Nat /\ Ranges[r].size \in Nat /\ Ranges[r].size >= 1
  <2>1. Ranges[r] \in [start : Nat, size : Nat \ {0}]
    BY <1>1, ElementOfSeq
  <2> QED
    BY <2>1
<1> QED
  BY <1>2, <1>3

(* The recursive definition of Before has the solution it describes.       *)
LEMMA BeforeStep ==
  /\ Before[1] = 0
  /\ \A r \in 1 .. Len(Ranges) + 1 : Before[r] \in Nat
  /\ \A r \in 1 .. Len(Ranges) : Before[r + 1] = Before[r] + Ranges[r].size
<1> DEFINE L == Len(Ranges) + 1
           Solves(f, n) ==
             /\ f \in [1 .. n -> Nat]
             /\ \A r \in 1 .. n : f[r] = IF r = 1 THEN 0 ELSE f[r - 1] + Ranges[r - 1].size
           Bad == {n \in 1 .. L : ~\E f \in [1 .. n -> Nat] : Solves(f, n)}
<1>0. L \in Nat /\ L >= 2
  BY RangesIn
<1>1. Bad = {}
  <2> SUFFICES ASSUME Bad # {} PROVE FALSE
    OBVIOUS
  <2>1. PICK n \in Bad : \A k \in Bad : n <= k
    <3>1. Bad \subseteq Nat
      BY <1>0
    <3> HIDE DEF Bad
    <3> QED
      BY <3>1, LeastOf
  <2>2. CASE n = 1
    <3>1. [r \in 1 .. 1 |-> 0] \in [1 .. 1 -> Nat] /\ Solves([r \in 1 .. 1 |-> 0], 1)
      OBVIOUS
    <3>2. ~\E f \in [1 .. 1 -> Nat] : Solves(f, 1)
      BY <2>1, <2>2
    <3> HIDE DEF Solves
    <3> QED
      BY <3>1, <3>2
  <2>3. CASE n # 1
    <3>0. n \in 1 .. L
      BY <2>1
    <3>a. n - 1 \in 1 .. L /\ n \in Nat /\ n >= 2 /\ ~(n <= n - 1)
      BY <3>0, <2>3, <1>0
    <3>1. n - 1 \in 1 .. L /\ n - 1 \notin Bad /\ n \in Nat /\ n >= 2
      BY ONLY <2>1, <3>a
    <3>2. PICK f \in [1 .. n - 1 -> Nat] : Solves(f, n - 1)
      <4>1. ~(n - 1 \in 1 .. L /\ ~\E f \in [1 .. n - 1 -> Nat] : Solves(f, n - 1))
        BY <3>1
      <4> QED
        BY <3>1, <4>1
    <3> DEFINE g == [r \in 1 .. n |-> IF r = n THEN f[n - 1] + Ranges[n - 1].size ELSE f[r]]
    <3>3. Ranges[n - 1].size \in Nat
      BY <3>1, RangesIn
    <3>4. g \in [1 .. n -> Nat]
      BY <3>1, <3>2, <3>3
    <3>5. ASSUME NEW r \in 1 .. n
          PROVE  g[r] = IF r = 1 THEN 0 ELSE g[r - 1] + Ranges[r - 1].size
      <4>1. CASE r = n
        BY <4>1, <3>1
      <4>2. CASE r # n
        <5>1. r \in 1 .. n - 1 /\ g[r] = f[r]
          BY <4>2, <3>1
        <5>2. r # 1 => r - 1 \in 1 .. n - 1 /\ g[r - 1] = f[r - 1]
          BY <5>1, <3>1
        <5> QED
          BY <5>1, <5>2, <3>2
      <4> QED
        BY <4>1, <4>2
    <3> QED
      BY <2>1, <3>4, <3>5
  <2> QED
    BY <2>2, <2>3
<1>2. PICK f \in [1 .. L -> Nat] : Solves(f, L)
  <2>1. L \in 1 .. L
    BY <1>0
  <2>2. ~(L \in 1 .. L /\ ~\E f \in [1 .. L -> Nat] : Solves(f, L))
    BY <1>1
  <2> QED
    BY <2>1, <2>2
<1>3. f = [r \in 1 .. L |-> IF r = 1 THEN 0 ELSE f[r - 1] + Ranges[r - 1].size]
  BY <1>2
<1>4. Before = [r \in 1 .. L |-> IF r = 1 THEN 0 ELSE Before[r - 1] + Ranges[r - 1].size]
  BY <1>3 DEF Before
<1>5. Before[1] = 0
  BY <1>0, <1>4
<1>6. \A r \in 1 .. Len(Ranges) : Before[r + 1] = Before[r] + Ranges[r].size
  <2> TAKE r \in 1 .. Len(Ranges)
  <2>1. r + 1 \in 1 .. L /\ r + 1 # 1 /\ r + 1 - 1 = r
    BY <1>0
  <2>2. \A n \in 1 .. L : Before[n] = IF n = 1 THEN 0 ELSE Before[n - 1] + Ranges[n - 1].size
    BY <1>4
  <2>3. Before[r + 1] = Before[(r + 1) - 1] + Ranges[(r + 1) - 1].size
    BY <2>1, <2>2
  <2> QED
    BY <2>1, <2>3
<1>7. {r \in 1 .. L : Before[r] \notin Nat} = {}
  <2> DEFINE T == {r \in 1 .. L : Before[r] \notin Nat}
  <2> SUFFICES ASSUME T # {} PROVE FALSE
    OBVIOUS
  <2>1. PICK n \in T : \A k \in T : n <= k
    <3>1. T \subseteq Nat
      BY <1>0
    <3> HIDE DEF T
    <3> QED
      BY <3>1, LeastOf
  <2>2. n - 1 \in 1 .. Len(Ranges) /\ n - 1 \notin T
    BY <2>1, <1>0, <1>5
  <2>3. Before[n - 1] \in Nat /\ Before[n - 1 + 1] = Before[n - 1] + Ranges[n - 1].size /\ n - 1 + 1 = n
    BY <2>2, <1>0, <1>6
  <2> QED
    BY <2>1, <2>2, <2>3, RangesIn
<1> QED
  BY <1>5, <1>6, <1>7

(* A range begins where the one before it ends.                            *)
LEMMA BeforeMonotone ==
  \A r \in 1 .. Len(Ranges), s \in 1 .. Len(Ranges) + 1 : r < s => Before[r + 1] <= Before[s]
<1> SUFFICES ASSUME NEW r \in 1 .. Len(Ranges)
             PROVE  \A s \in 1 .. Len(Ranges) + 1 : r < s => Before[r + 1] <= Before[s]
  OBVIOUS
<1> DEFINE Bad == {s \in 1 .. Len(Ranges) + 1 : r < s /\ ~(Before[r + 1] <= Before[s])}
<1> SUFFICES ASSUME Bad # {} PROVE FALSE
  OBVIOUS
<1>1. PICK n \in Bad : \A k \in Bad : n <= k
  <2>1. Bad \subseteq Nat
    BY RangesIn
  <2> HIDE DEF Bad
  <2> QED
    BY <2>1, LeastOf
<1>2. n \in Nat /\ r \in Nat /\ n <= Len(Ranges) + 1 /\ r < n /\ ~(Before[r + 1] <= Before[n])
  BY <1>1, RangesIn
<1>3. n # r + 1
  BY <1>2, BeforeStep
<1>4. n - 1 \in 1 .. Len(Ranges) /\ n - 1 \notin Bad /\ r < n - 1 /\ n - 1 + 1 = n
  BY <1>1, <1>2, <1>3, RangesIn
<1>5. Before[r + 1] <= Before[n - 1]
  BY <1>4, RangesIn
<1>6. Before[n - 1 + 1] = Before[n - 1] + Ranges[n - 1].size
  BY <1>4, BeforeStep
<1>7. Before[r + 1] \in Nat /\ Before[n - 1] \in Nat /\ Ranges[n - 1].size \in Nat
  BY <1>4, BeforeStep, RangesIn
<1> QED
  BY <1>2, <1>4, <1>5, <1>6, <1>7

(* The positions of the plan.                                              *)
LEMMA TotalIn ==
  /\ Total \in Nat /\ Total >= 1
  /\ \A r \in 1 .. Len(Ranges) + 1 : Before[r] \in 0 .. Total
  /\ \A r \in 1 .. Len(Ranges) : Before[r] + Ranges[r].size <= Total
<1>1. Total \in Nat
  BY BeforeStep, RangesIn DEF Total
<1>2. ASSUME NEW r \in 1 .. Len(Ranges)
      PROVE  Before[r] + Ranges[r].size <= Total /\ Before[r] \in Nat
  <2>1. Before[r + 1] <= Before[Len(Ranges) + 1]
    <3>1. r < Len(Ranges) + 1 /\ Len(Ranges) + 1 \in 1 .. Len(Ranges) + 1
      BY RangesIn
    <3> QED
      BY <3>1, BeforeMonotone
  <2> QED
    BY <2>1, BeforeStep DEF Total
<1>3. Total >= 1
  <2>1. 1 \in 1 .. Len(Ranges)
    BY RangesIn
  <2> QED
    BY <2>1, <1>1, <1>2, RangesIn
<1>4. \A r \in 1 .. Len(Ranges) + 1 : Before[r] \in 0 .. Total
  <2> TAKE r \in 1 .. Len(Ranges) + 1
  <2>1. CASE r = Len(Ranges) + 1
    BY <2>1, <1>1 DEF Total
  <2>2. CASE r # Len(Ranges) + 1
    <3>1. r \in 1 .. Len(Ranges)
      BY <2>2, RangesIn
    <3> QED
      BY <3>1, <1>1, <1>2, RangesIn
  <2> QED
    BY <2>1, <2>2
<1> QED
  BY <1>1, <1>2, <1>3, <1>4

(* A candidate of a range lies in its part of the plan.                    *)
LEMMA CandidateIn ==
  ASSUME NEW c \in Findable
  PROVE  c.at \in Nat /\ c.span \in 1 .. 2
BY ScanAssumption DEF Findable

(* A candidate lies in one of the ranges, and its position in the part      *)
(* of the plan this range has.                                              *)
LEMMA PositionIn ==
  ASSUME NEW c \in Findable
  PROVE  \E r \in 1 .. Len(Ranges) :
           /\ Within(c, r)
           /\ Position(c) = Before[r] + c.at - Ranges[r].start
           /\ Position(c) \in Nat
           /\ Before[r] <= Position(c) /\ Position(c) + c.span <= Before[r + 1]
<1>1. DOMAIN Ranges = 1 .. Len(Ranges)
  BY ScanAssumption, LenProperties
<1>2. PICK s \in DOMAIN Ranges : Within(c, s)
  BY DEF Findable
<1> DEFINE r == CHOOSE x \in DOMAIN Ranges : Within(c, x)
<1>3. r \in 1 .. Len(Ranges) /\ Within(c, r)
  BY <1>1, <1>2
<1>4. Position(c) = Before[r] + c.at - Ranges[r].start
  BY DEF Position
<1> HIDE DEF r
<1>5. /\ Ranges[r].start \in Nat /\ Ranges[r].size \in Nat /\ Before[r] \in Nat
      /\ Before[r + 1] = Before[r] + Ranges[r].size
  <2>1. r \in 1 .. Len(Ranges) + 1
    BY <1>3, RangesIn
  <2> QED
    BY <1>3, <2>1, RangesIn, BeforeStep
<1>6. /\ Position(c) \in Nat
      /\ Before[r] <= Position(c) /\ Position(c) + c.span <= Before[r + 1]
  <2>1. /\ c.at \in Nat /\ c.span \in Nat
        /\ Ranges[r].start <= c.at /\ c.at + c.span <= Ranges[r].start + Ranges[r].size
    BY <1>3, CandidateIn DEF Within
  <2> QED
    BY <1>4, <1>5, <2>1
<1> QED
  BY <1>3, <1>4, <1>6

(* One that begins and ends in the part of a range is in that range, and   *)
(* none goes across its end.                                               *)
LEMMA PositionPlaces ==
  ASSUME NEW c \in Findable, NEW r \in 1 .. Len(Ranges)
  PROVE  /\ Before[r] <= Position(c) /\ Position(c) + c.span <= Before[r + 1]
            => c.at = Ranges[r].start + Position(c) - Before[r]
         /\ Position(c) + c.span <= Before[r + 1] \/ Position(c) >= Before[r + 1]
<1>1. PICK s \in 1 .. Len(Ranges) :
           /\ Within(c, s)
           /\ Position(c) = Before[s] + c.at - Ranges[s].start
           /\ Position(c) \in Nat
           /\ Before[s] <= Position(c) /\ Position(c) + c.span <= Before[s + 1]
  BY PositionIn
<1>2. /\ r + 1 \in 1 .. Len(Ranges) + 1 /\ s + 1 \in 1 .. Len(Ranges) + 1
      /\ r \in 1 .. Len(Ranges) + 1 /\ s \in 1 .. Len(Ranges) + 1 /\ r \in Nat /\ s \in Nat
  BY RangesIn
<1>3. /\ Before[r] \in Nat /\ Before[r + 1] \in Nat /\ Before[s] \in Nat /\ Before[s + 1] \in Nat
      /\ Before[r] <= Before[r + 1] /\ Before[s] <= Before[s + 1]
  <2>1. ASSUME NEW q \in 1 .. Len(Ranges), q \in 1 .. Len(Ranges) + 1
        PROVE  Before[q] \in Nat /\ Before[q + 1] \in Nat /\ Before[q] <= Before[q + 1]
    <3>1. PICK b \in Nat, z \in Nat : b = Before[q] /\ z = Ranges[q].size
      BY <2>1, BeforeStep, RangesIn
    <3>2. b + z \in Nat /\ b <= b + z
      BY ONLY TRUE
    <3>3. Before[q + 1] = b + z
      BY <3>1, BeforeStep
    <3> QED
      BY <3>1, <3>2, <3>3
  <2> QED
    BY <1>2, <2>1
<1>4. c.at \in Nat /\ c.span \in 1 .. 2 /\ Ranges[s].start \in Nat
  BY CandidateIn, RangesIn
<1>5. CASE s < r
  <2>1. Before[s + 1] <= Before[r]
    BY <1>2, <1>5, BeforeMonotone
  <2>2. /\ Position(c) \in Nat /\ c.span \in Nat /\ c.span >= 1
        /\ Position(c) + c.span <= Before[s + 1]
    BY <1>1, <1>4
  <2> QED
    BY ONLY <1>3, <2>1, <2>2
<1>6. CASE s > r
  <2>1. Before[r + 1] <= Before[s]
    BY <1>2, <1>6, BeforeMonotone
  <2> QED
    BY SMTT(30), <1>1, <1>3, <1>4, <2>1
<1>7. CASE s = r
  BY <1>1, <1>3, <1>4, <1>7
<1> QED
  BY <1>2, <1>5, <1>6, <1>7
-----------------------------------------------------------------------------
(* What the steps do to the sequences and sets of the pipeline.            *)

(* What Append does to a channel ...                                        *)
LEMMA AppendEffect ==
  ASSUME NEW S, NEW s \in Seq(S), NEW e \in S
  PROVE  /\ Append(s, e) \in Seq(S) /\ Len(s) \in Nat /\ Len(Append(s, e)) = Len(s) + 1
         /\ \A i \in 1 .. Len(s) : Append(s, e)[i] = s[i]
         /\ Append(s, e)[Len(s) + 1] = e
BY AppendProperties, LenProperties

(* ... and Tail.                                                            *)
LEMMA TailEffect ==
  ASSUME NEW S, NEW s \in Seq(S), s # <<>>
  PROVE  /\ Tail(s) \in Seq(S) /\ Len(s) \in Nat /\ Len(s) >= 1 /\ Len(Tail(s)) = Len(s) - 1
         /\ Head(s) = s[1] /\ s[1] \in S
         /\ \A i \in 1 .. Len(Tail(s)) : Tail(s)[i] = s[i + 1]
<1>1. Len(s) \in Nat \ {0}
  BY EmptySeq
<1>2. Head(s) = s[1]
  OBVIOUS
<1>3. s[1] \in S
  BY <1>1, ElementOfSeq
<1> QED
  BY <1>1, <1>2, <1>3, HeadTailProperties

(* The sizes the scan works with.                                           *)
LEMMA SizesIn ==
  /\ WorkerChoices \subseteq 1 .. 4 /\ Overlap = 1
  /\ Chunk \in Nat /\ Chunk >= 2 /\ Sector \in Nat /\ Sector >= 2 /\ Sector <= Chunk
BY ScanAssumption

(* One chunk more in flight is Chunk units more.                            *)
LEMMA ChunksAdd ==
  ASSUME NEW m \in Nat
  PROVE  Chunk * m \in Nat /\ Chunk * (m + 1) = Chunk * m + Chunk
BY ScanAssumption

(* A chunk that is sent lies in the range and ends behind the others.      *)
LEMMA SendEffect ==
  ASSUME ScanState, pc = "read", offset < Ranges[rng].size, Len(jobs) < workers,
         NEW n \in 1 .. ToRead, Send(n), UNCHANGED <<rng, busy, workers>>
  PROVE  /\ n \in 1 .. Chunk /\ offset + n <= Ranges[rng].size /\ n <= Ranges[rng].size - offset
         /\ n # Chunk /\ n = ToRead => offset + n = Ranges[rng].size
         /\ offset' = offset + n /\ offset' \in Units /\ carry' = 1
         /\ \E job \in Job :
              /\ job.base = Ranges[rng].start + offset - carry /\ JobEnd(job) = Ranges[rng].start + offset + n
              /\ job.new = n /\ Placed(job)'
              /\ jobs' = Append(jobs, job) /\ jobs' \in Seq(Job) /\ Len(jobs') = Len(jobs) + 1
              /\ \A i \in 1 .. Len(jobs) : jobs'[i] = jobs[i]
              /\ jobs'[Len(jobs) + 1] = job /\ jobs' # <<>>
<1>1. /\ rng \in 1 .. Len(Ranges) /\ Ranges[rng].start \in Nat /\ Ranges[rng].size \in Nat
      /\ offset \in Nat /\ carry \in 0 .. 1 /\ carry <= offset /\ Ranges[rng].size <= Total /\ Total \in Nat
      /\ jobs \in Seq(Job)
  <2>1. rng \in 1 .. Len(Ranges) /\ offset \in 0 .. Total /\ carry \in 0 .. 1 /\ carry <= offset
        /\ jobs \in Seq(Job)
    BY DEF ScanState, ReaderIn, Scanning, Units, PipeIn
  <2>2. rng \in 1 .. Len(Ranges) + 1
    BY <2>1, RangesIn
  <2> QED
    BY SMTT(30), <2>1, <2>2, TotalIn, RangesIn
<1>2. /\ n \in 1 .. Chunk /\ offset + n <= Ranges[rng].size /\ n <= Ranges[rng].size - offset
      /\ n # Chunk /\ n = ToRead => offset + n = Ranges[rng].size
  BY SMTT(30), <1>1, SizesIn DEF ToRead, Min2
<1>3. offset' = offset + n /\ carry' = 1
  BY <1>1, <1>2, SizesIn DEF Send, Min2
<1>4. offset' \in Units
  BY <1>1, <1>2, <1>3 DEF Units
<1>5. PICK job \in Job :
        /\ jobs' = Append(jobs, job)
        /\ job.base = Ranges[rng].start + offset - carry
        /\ job.base + job.len = Ranges[rng].start + offset + n /\ job.new = n
  <2> DEFINE sent == [base |-> Ranges[rng].start + offset - carry, len |-> carry + n, new |-> n]
  <2>1. n \in Nat /\ n >= 1 /\ n <= Chunk /\ Chunk \in Nat
    BY <1>2, SizesIn
  <2>2. carry + n \in 1 .. Chunk + Overlap
    BY <2>1, <1>1, SizesIn
  <2>3. Ranges[rng].start + offset - carry \in Nat
    BY <1>1
  <2>4. (Ranges[rng].start + offset - carry) + (carry + n) = Ranges[rng].start + offset + n
    BY <1>1, <2>1
  <2>5. sent \in Job
    BY <1>2, <2>2, <2>3 DEF Job
  <2>6. jobs' = Append(jobs, sent)
    BY DEF Send
  <2> QED
    BY <2>4, <2>5, <2>6
<1>6. Placed(job)'
  <2>1. /\ Ranges[rng].start <= job.base
        /\ job.base + job.len <= Ranges[rng].start + offset'
    <3>1. job.base = Ranges[rng].start + (offset - carry) /\ offset - carry >= 0
      BY <1>1, <1>5
    <3>2. job.base + job.len = Ranges[rng].start + (offset + n) /\ offset + n \in Nat
      BY <1>1, <1>2, <1>5, SizesIn
    <3> QED
      BY ONLY <1>1, <1>3, <3>1, <3>2
  <2>2. rng' = rng
    OBVIOUS
  <2> QED
    BY <1>5, <2>1, <2>2 DEF Placed, JobEnd
<1>7. /\ jobs' \in Seq(Job) /\ Len(jobs') = Len(jobs) + 1
      /\ \A i \in 1 .. Len(jobs) : jobs'[i] = jobs[i]
      /\ jobs'[Len(jobs) + 1] = job /\ jobs' # <<>>
  BY <1>1, <1>5, AppendProperties
<1> QED
  BY <1>2, <1>3, <1>4, <1>5, <1>6, <1>7 DEF JobEnd

(* A step of the pipeline, or one after which nothing is in flight.        *)
Sends ==
  /\ pc = "read" /\ offset < Ranges[rng].size /\ Len(jobs) < workers
  /\ \E n \in 1 .. ToRead : Send(n) /\ (n = ToRead \/ (pc' = "drain" /\ offset + n >= Sector))
  /\ UNCHANGED <<rng, busy, results, col, processed>>
Holds == UNCHANGED <<jobs, busy, results, rng, offset, carry, processed>> /\ (pc' = pc \/ pc' = "drain")

(* Both ways to read a chunk send it.                                       *)
LEMMA ReadSends ==
  ASSUME ScanState, ReadChunk \/ CutRead
  PROVE  Sends
<1> USE DEF Scanning, Goto, plan, reader, pipe, collector
<1>1. CASE ReadChunk
  <2>1. ToRead \in 1 .. ToRead
    <3>1. rng \in 1 .. Len(Ranges) /\ offset \in Nat
      BY <1>1, TotalIn DEF ReadChunk, ScanState, ReaderIn, Units
    <3>2. Ranges[rng].size \in Nat
      BY <3>1, RangesIn
    <3> QED
      BY <1>1, <3>1, <3>2, SizesIn DEF ReadChunk, ToRead, Min2
  <2> QED
    BY <1>1, <2>1 DEF ReadChunk, Sends
<1>2. CASE CutRead
  <2>1. PICK n \in 1 .. ToRead - 1 : offset + n >= Sector /\ Send(n)
    BY <1>2 DEF CutRead
  <2>2. n \in 1 .. ToRead
    <3>1. rng \in 1 .. Len(Ranges) /\ offset \in Nat
      BY <1>2, TotalIn DEF CutRead, ScanState, ReaderIn, Units
    <3>2. Ranges[rng].size \in Nat
      BY <3>1, RangesIn
    <3> QED
      BY <2>1, <3>1, <3>2, SizesIn DEF ToRead, Min2
  <2> QED
    BY <1>2, <2>1, <2>2 DEF CutRead, Sends
<1> QED
  BY <1>1, <1>2

(* A step leaves nothing in flight outside a scan, or starts the scan of    *)
(* a range, or is one of the pipeline, or leaves the pipeline alone.        *)
LEMMA PipeCases ==
  ASSUME ScanState, [Next]_vars
  PROVE  /\ workers' = workers
         /\ \/ Quiet' /\ ~Scanning' /\ processed' \in {processed, 0}
            \/ EnterRange /\ Quiet' /\ Scanning'
            \/ /\ Scanning /\ Scanning'
               /\ Sends \/ TakeJob \/ (\E job \in busy : FinishJob(job)) \/ Collect \/ Holds
<1> USE DEF Quiet, Scanning, Goto, disk, store, plan, reader, pipe, collector, user, history
<1>1. Scanning \/ Quiet
  BY DEF ScanState, PipeIn
<1>2. CASE Start
  BY <1>1, <1>2 DEF Start, StartNew, Resume
<1>3. CASE OpenStore \/ ScanRanges
  BY <1>1, <1>3 DEF OpenStore, ScanRanges, SkipRange, EnterRange, AllScanned
<1>4. CASE Read
  <2>1. CASE ReadChunk \/ CutRead
    BY <2>1, ReadSends DEF ReadChunk, CutRead
  <2>3. CASE ScanCancelled \/ RangeRead
    BY <2>3 DEF ScanCancelled, RangeRead, Holds
  <2>4. CASE Drained
    BY <2>4 DEF Drained
  <2> QED
    BY <1>4, <2>1, <2>3, <2>4 DEF Read
<1>5. CASE Index
  BY <1>1, <1>5 DEF Index, CloseStore, ReportFailure, SaveSorting, SaveSorted, SaveThen, Sort, SortFails, Return
<1>6. CASE Finish
  BY <1>1, <1>6 DEF Finish, NoIndex, ExtractCancelled, Extract, SaveCompleted, SaveThen, RemoveFiles, Return
<1>7. CASE Worker
  <2>1. CASE TakeJob
    BY <1>1, <2>1 DEF TakeJob
  <2>2. ASSUME NEW job \in busy, FinishJob(job)
        PROVE  workers' = workers /\ Scanning /\ Scanning'
    BY <1>1, <2>2 DEF FinishJob
  <2> QED
    BY <1>7, <2>1, <2>2 DEF Worker
<1>8. CASE Collector
  BY <1>1, <1>8 DEF Collector, Collect, Receives, Flush, SaveProgress, Holds
<1>9. CASE Cancel \/ TogglePause \/ UNCHANGED vars
  BY <1>1, <1>9 DEF Cancel, TogglePause, vars, Holds
<1>10. CASE Kill
  BY <1>10 DEF Kill, Return
<1> QED
  BY <1>2, <1>3, <1>4, <1>5, <1>6, <1>7, <1>8, <1>9, <1>10 DEF Next, Caller

(* A pipeline with nothing in flight is well formed.                        *)
LEMMA QuietPipe ==
  ASSUME ScanState, Quiet', workers' = workers
  PROVE  PipeIn' /\ InFlight' = 0
<1>1. /\ <<>> \in Seq(Job) /\ <<>> \in Seq(Result) /\ Len(<<>>) = 0
      /\ IsFiniteSet({}) /\ Cardinality({}) = 0
  BY EmptySeq, FS_EmptySet
<1>2. workers \in 1 .. 4
  BY SizesIn DEF ScanState, Fields
<1> QED
  BY <1>1, <1>2 DEF PipeIn, Quiet, InFlight

(* What is found in a chunk of the range can be found.                     *)
LEMMA PlacedFinds ==
  ASSUME ScanState, Scanning, NEW job, Placed(job)
  PROVE  ScanChunk(job) \subseteq {c \in Findable : Within(c, rng)}
<1>1. /\ rng \in 1 .. Len(Ranges) /\ Ranges[rng].start \in Nat /\ Ranges[rng].size \in Nat
      /\ offset \in Nat /\ offset <= Ranges[rng].size
  BY RangesIn, TotalIn DEF ScanState, ReaderIn, Units
<1>2. rng \in DOMAIN Ranges
  BY <1>1, ScanAssumption, LenProperties
<1>3. ASSUME NEW c \in ScanChunk(job) PROVE c \in Candidates /\ Within(c, rng)
  <2>1. /\ c \in Candidates /\ job.base \in Nat /\ job.len \in Nat
        /\ job.base <= c.at /\ c.at + c.span <= job.base + job.len
        /\ Ranges[rng].start <= job.base /\ job.base + job.len <= Ranges[rng].start + offset
    BY <1>3, SizesIn DEF ScanChunk, Placed, Job, JobEnd
  <2>2. c.at \in Nat /\ c.span \in Nat
    BY <2>1, ScanAssumption
  <2>3. /\ Ranges[rng].start <= c.at
        /\ c.at + c.span <= Ranges[rng].start + offset
    BY ONLY SMTT(30), <1>1, <2>1, <2>2
  <2>4. c.at + c.span <= Ranges[rng].start + Ranges[rng].size
    BY ONLY <1>1, <2>2, <2>3
  <2> QED
    BY <2>1, <2>3, <2>4 DEF Within
<1> QED
  BY <1>2, <1>3 DEF Findable

(* Chunks in flight stay in what was read, in order, and within the         *)
(* capacities, through every step.                                          *)
LEMMA PipeStep ==
  ASSUME ScanState, [Next]_vars
  PROVE  PipeIn'
<1> USE DEF PipeIn
<1>a. PipeIn /\ workers' = workers /\ workers \in 1 .. 4 /\ offset \in Nat
  BY PipeCases, SizesIn, TotalIn DEF ScanState, Fields, ReaderIn, Units
<1>1. CASE Quiet'
  BY <1>1, <1>a, QuietPipe
<1>2. CASE Sends /\ Scanning'
  <2>1. PICK n \in 1 .. ToRead : Send(n)
    BY <1>2 DEF Sends
  <2>2. UNCHANGED <<rng, busy, workers, results>> /\ rng \in 1 .. Len(Ranges)
    BY <1>2, <1>a DEF Sends, ScanState, ReaderIn, Scanning
  <2>3. PICK job \in Job :
              /\ JobEnd(job) = Ranges[rng].start + offset + n /\ Placed(job)'
              /\ jobs' \in Seq(Job) /\ Len(jobs') = Len(jobs) + 1
              /\ \A i \in 1 .. Len(jobs) : jobs'[i] = jobs[i]
              /\ jobs'[Len(jobs) + 1] = job
    BY <1>2, <2>1, <2>2, SendEffect DEF Sends
  <2>4. offset' = offset + n /\ n \in Nat /\ n >= 1
    BY <1>2, <2>1, <2>2, SendEffect, SizesIn DEF Sends
  <2>5. Len(jobs) \in Nat /\ Ranges[rng].start \in Nat
    BY <1>a, <2>2, LenProperties, RangesIn
  <2>6. ASSUME NEW j, Placed(j)
        PROVE  Placed(j)' /\ JobEnd(j) < JobEnd(job)
    <3>1. /\ j \in Job /\ Ranges[rng].start <= j.base /\ JobEnd(j) <= Ranges[rng].start + offset
          /\ JobEnd(j) \in Nat
      BY <2>6, SizesIn DEF Placed, Job, JobEnd
    <3>2. PICK e \in Nat, s \in Nat, o \in Nat, m \in Nat :
            e = JobEnd(j) /\ s = Ranges[rng].start /\ o = offset /\ m = n
      BY <1>a, <2>4, <2>5, <3>1
    <3>3. e <= s + o /\ m >= 1
      BY <2>4, <3>1, <3>2
    <3>4. e < s + o + m /\ e <= s + (o + m)
      BY ONLY <3>3
    <3>5. JobEnd(j) < JobEnd(job) /\ JobEnd(j) <= Ranges[rng].start + offset'
      BY <2>3, <2>4, <3>2, <3>4
    <3> QED
      BY <2>2, <3>1, <3>5 DEF Placed, JobEnd
  <2>7. ASSUME NEW i \in 1 .. Len(jobs') PROVE Placed(jobs[i])'
    <3>1. CASE i = Len(jobs) + 1
      BY <2>3, <3>1
    <3>2. CASE i # Len(jobs) + 1
      <4>1. i \in 1 .. Len(jobs)
        BY <2>3, <2>5, <3>2
      <4>2. Placed(jobs[i]) /\ jobs'[i] = jobs[i]
        BY <4>1, <2>3, <1>a
      <4>3. Placed(jobs'[i]) => Placed(jobs[i])'
        BY <4>1, <4>2, <2>6
      <4> QED
        BY <4>1, <2>3, <2>6, <1>a
    <3> QED
      BY <3>1, <3>2
  <2>8. ASSUME NEW i \in 1 .. Len(jobs'), NEW k \in 1 .. Len(jobs'), i < k
        PROVE  JobEnd(jobs'[i]) < JobEnd(jobs'[k])
    <3>1. i \in 1 .. Len(jobs)
      BY <2>3, <2>5, <2>8
    <3>2. CASE k = Len(jobs) + 1
      BY <3>1, <3>2, <2>3, <2>6, <1>a
    <3>3. CASE k # Len(jobs) + 1
      <4>1. k \in 1 .. Len(jobs)
        BY <2>3, <2>5, <3>3
      <4> QED
        BY <3>1, <4>1, <2>3, <2>8, <1>a
    <3> QED
      BY <3>2, <3>3
  <2>9. ASSUME NEW j \in busy, NEW i \in 1 .. Len(jobs')
        PROVE  JobEnd(j) < JobEnd(jobs'[i])
    <3>1. CASE i = Len(jobs) + 1
      BY <3>1, <2>3, <2>6, <1>a
    <3>2. CASE i # Len(jobs) + 1
      <4>1. i \in 1 .. Len(jobs)
        BY <2>3, <2>5, <3>2
      <4> QED
        BY <4>1, <2>3, <1>a
    <3> QED
      BY <3>1, <3>2
  <2>10. \A j \in busy : Placed(j)'
    BY <2>6, <1>a
  <2>11. Len(jobs') <= workers
    BY <1>2, <1>a, <2>3, <2>5 DEF Sends
  <2> QED
    BY <1>2, <1>a, <2>2, <2>3, <2>7, <2>8, <2>9, <2>10, <2>11
<1>3. CASE TakeJob /\ Scanning'
  <2>1. /\ jobs # <<>> /\ busy' = busy \cup {jobs[1]} /\ jobs' = Tail(jobs)
        /\ UNCHANGED <<rng, offset, results>> /\ Cardinality(busy) < workers
    BY <1>3, <1>a, TailEffect DEF TakeJob, plan, reader
  <2>2. /\ jobs' \in Seq(Job) /\ Len(jobs) \in Nat /\ Len(jobs) >= 1 /\ Len(jobs') = Len(jobs) - 1
        /\ \A i \in 1 .. Len(jobs') : jobs'[i] = jobs[i + 1] /\ i + 1 \in 1 .. Len(jobs)
    BY <1>a, <2>1, TailEffect
  <2>3. \A j : Placed(j)' <=> Placed(j)
    BY <2>1 DEF Placed, JobEnd
  <2>4. IsFiniteSet(busy') /\ Cardinality(busy') <= workers
    <3>1. /\ IsFiniteSet(busy \cup {jobs[1]}) /\ Cardinality(busy) \in Nat
          /\ \/ Cardinality(busy \cup {jobs[1]}) = Cardinality(busy)
             \/ Cardinality(busy \cup {jobs[1]}) = Cardinality(busy) + 1
      BY <1>a, FS_AddElement, FS_CardinalityType
    <3> QED
      BY <1>a, <2>1, <3>1
  <2>5. ASSUME NEW i \in 1 .. Len(jobs') PROVE Placed(jobs[i])'
    BY <1>a, <2>2, <2>3
  <2>6. \A j \in busy' : Placed(j)'
    BY <1>a, <2>1, <2>2, <2>3
  <2>7. ASSUME NEW i \in 1 .. Len(jobs'), NEW k \in 1 .. Len(jobs'), i < k
        PROVE  JobEnd(jobs'[i]) < JobEnd(jobs'[k])
    <3>1. /\ i + 1 \in 1 .. Len(jobs) /\ k + 1 \in 1 .. Len(jobs) /\ i + 1 < k + 1
          /\ jobs'[i] = jobs[i + 1] /\ jobs'[k] = jobs[k + 1]
      BY <2>2, <2>7
    <3> QED
      BY <1>a, <3>1
  <2>8. ASSUME NEW j \in busy', NEW i \in 1 .. Len(jobs')
        PROVE  JobEnd(j) < JobEnd(jobs'[i])
    <3>1. i + 1 \in 1 .. Len(jobs) /\ jobs'[i] = jobs[i + 1] /\ 1 \in 1 .. Len(jobs) /\ 1 < i + 1
      BY <2>2
    <3> QED
      BY <1>a, <2>1, <3>1
  <2> QED
    BY <1>3, <1>a, <2>1, <2>2, <2>4, <2>5, <2>6, <2>7, <2>8
<1>4. ASSUME NEW job \in busy, FinishJob(job), Scanning'
      PROVE  PipeIn'
  <2>1. /\ busy' = busy \ {job} /\ Len(results) < workers
        /\ results' = Append(results, [found |-> ScanChunk(job), new |-> job.new])
        /\ UNCHANGED <<rng, offset, jobs>>
    BY <1>4 DEF FinishJob, plan, reader
  <2>2. [found |-> ScanChunk(job), new |-> job.new] \in Result
    <3>1. job.new \in 1 .. Chunk
      BY <1>a DEF Placed, Job
    <3>2. ScanChunk(job) \subseteq Findable
      <4>1. Scanning /\ Placed(job)
        BY <1>a, <1>4 DEF Quiet
      <4> QED
        BY <4>1, PlacedFinds
    <3> QED
      BY <3>1, <3>2 DEF Result
  <2>3. results' \in Seq(Result) /\ Len(results') <= workers
    <3>1. Len(results) \in Nat
      BY <1>a, LenProperties
    <3> QED
      BY <1>a, <2>1, <2>2, <3>1, AppendProperties
  <2>4. IsFiniteSet(busy') /\ Cardinality(busy') <= workers
    <3>1. /\ IsFiniteSet(busy \ {job}) /\ Cardinality(busy) \in Nat
          /\ Cardinality(busy \ {job}) = Cardinality(busy) - 1
      BY <1>a, <1>4, FS_RemoveElement, FS_CardinalityType
    <3> QED
      BY <1>a, <2>1, <3>1
  <2>5. \A j : Placed(j)' <=> Placed(j)
    BY <2>1 DEF Placed, JobEnd
  <2> QED
    BY <1>4, <1>a, <2>1, <2>3, <2>4, <2>5
<1>5. CASE Collect /\ Scanning'
  <2>1. /\ results # <<>> /\ results' = Tail(results) /\ UNCHANGED <<rng, offset, jobs, busy>>
    BY <1>5 DEF Collect, Receives, plan, reader
  <2>2. results' \in Seq(Result) /\ Len(results') <= workers
    BY <1>a, <2>1, TailEffect
  <2>3. \A j : Placed(j)' <=> Placed(j)
    BY <2>1 DEF Placed, JobEnd
  <2> QED
    BY <1>5, <1>a, <2>1, <2>2, <2>3
<1>6. CASE Holds /\ Scanning'
  <2>1. \A j : Placed(j)' <=> Placed(j)
    BY <1>6 DEF Placed, JobEnd, Holds
  <2> QED
    BY <1>6, <1>a, <2>1 DEF Holds
<1> QED
  BY <1>1, <1>2, <1>3, <1>4, <1>5, <1>6, PipeCases

(* The counts are numbers of units of the plan.                             *)
LEMMA CountIn ==
  ASSUME ScanState
  PROVE  /\ Len(jobs) \in Nat /\ Cardinality(busy) \in Nat /\ Len(results) \in Nat /\ InFlight \in Nat
         /\ processed \in Nat /\ processed <= Total /\ Total \in Nat
         /\ Scanning \/ Stopped => Reached \in Nat /\ Reached <= Total /\ Before[rng] \in Nat /\ offset \in Nat
<1>1. Len(jobs) \in Nat /\ Cardinality(busy) \in Nat /\ Len(results) \in Nat
  BY LenProperties, FS_CardinalityType DEF ScanState, PipeIn
<1>2. processed \in Nat /\ processed <= Total /\ Total \in Nat
  BY TotalIn DEF ScanState, Counted, Units
<1>3. ASSUME Scanning \/ Stopped PROVE Reached \in Nat /\ Reached <= Total /\ Before[rng] \in Nat /\ offset \in Nat
  <2>1. rng \in 1 .. Len(Ranges) /\ offset \in Nat /\ offset <= Ranges[rng].size
    BY <1>3, TotalIn DEF ScanState, ReaderIn, Units
  <2>2. /\ Ranges[rng].size \in Nat /\ Before[rng] \in Nat
        /\ Before[rng] + Ranges[rng].size <= Total
    <3>1. rng \in 1 .. Len(Ranges) + 1
      BY <2>1, RangesIn
    <3> QED
      BY <2>1, <3>1, TotalIn, RangesIn, BeforeStep
  <2> QED
    BY <2>1, <2>2, <1>2 DEF Reached
<1> QED
  BY <1>1, <1>2, <1>3 DEF InFlight

(* What the collector has received is not more than what was read, and all *)
(* of it when nothing is in flight.                                        *)
LEMMA CountBound ==
  ASSUME ScanState, Scanning
  PROVE  /\ processed <= Reached
         /\ results # <<>> => results[1].new \in 1 .. Chunk /\ processed + results[1].new <= Reached
         /\ Quiet => processed = Reached
<1>1. /\ Len(jobs) \in Nat /\ Cardinality(busy) \in Nat /\ Len(results) \in Nat /\ InFlight \in Nat
      /\ processed \in Nat /\ Reached \in Nat
  BY CountIn
<1>2. /\ Chunk \in Nat /\ Chunk * InFlight \in Nat
  BY <1>1, SizesIn, ChunksAdd
<1>3. ASSUME InFlight >= 1
      PROVE  \E m \in Nat : m = InFlight - 1 /\ Chunk * m \in Nat /\ Chunk * InFlight = Chunk * m + Chunk
  <2>1. InFlight - 1 \in Nat /\ (InFlight - 1) + 1 = InFlight
    BY <1>1, <1>3
  <2> QED
    BY <2>1, ChunksAdd
<1>4. results # <<>> => results[1].new \in 1 .. Chunk /\ Len(results) >= 1 /\ InFlight >= 1
  <2>1. ASSUME results # <<>> PROVE results[1] \in Result /\ Len(results) >= 1
    BY <2>1, TailEffect DEF ScanState, PipeIn
  <2> QED
    BY <1>1, <2>1 DEF InFlight, Result
<1>5. Quiet => InFlight = 0
  BY EmptySeq, FS_EmptySet DEF Quiet, InFlight
<1>6. CASE AllWhole
  <2>1. processed + Chunk * InFlight = Reached /\ ResultsWhole
    BY <1>6 DEF AllWhole
  <2>2. Quiet => processed = Reached
    <3>1. Chunk * 0 = 0
      BY <1>2
    <3> QED
      BY <2>1, <1>1, <1>5, <3>1
  <2>3. ASSUME results # <<>> PROVE processed + results[1].new <= Reached
    <3>1. results[1].new = Chunk
      BY <1>1, <1>4, <2>1, <2>3 DEF ResultsWhole
    <3>2. PICK m \in Nat : Chunk * m \in Nat /\ Chunk * InFlight = Chunk * m + Chunk
      BY <1>3, <1>4, <2>3
    <3> QED
      BY <1>1, <1>2, <2>1, <3>1, <3>2
  <2> QED
    BY <1>1, <1>2, <1>4, <2>1, <2>2, <2>3
<1>7. CASE OneShort
  <2>1. PICK n \in 1 .. Chunk - 1 :
          /\ processed + Chunk * InFlight = Reached + Chunk - n
          /\ ShortJob(n) \/ ShortBusy(n) \/ ShortResult(n)
    BY <1>7 DEF OneShort
  <2>2. InFlight >= 1 /\ ~Quiet
    <3>1. CASE ShortJob(n)
      <4>1. Len(jobs) >= 1
        BY <3>1, EmptySeq DEF ShortJob, ScanState, PipeIn
      <4> QED
        BY <1>1, <4>1, <3>1 DEF InFlight, Quiet, ShortJob
    <3>2. CASE ShortBusy(n)
      <4>1. busy # {}
        BY <3>2 DEF ShortBusy
      <4>2. Cardinality(busy) >= 1
        BY <1>1, <4>1, FS_EmptySet DEF ScanState, PipeIn
      <4> QED
        BY <1>1, <4>1, <4>2 DEF InFlight, Quiet
    <3>3. CASE ShortResult(n)
      <4>1. Len(results) >= 1
        BY <1>1, <3>3 DEF ShortResult
      <4>2. results # <<>>
        BY <4>1, EmptySeq
      <4> QED
        BY <1>1, <4>1, <4>2 DEF InFlight, Quiet
    <3> QED
      BY <2>1, <3>1, <3>2, <3>3
  <2>3. PICK m \in Nat : m = InFlight - 1 /\ Chunk * m \in Nat /\ Chunk * InFlight = Chunk * m + Chunk
    BY <1>3, <2>2
  <2>4. processed + Chunk * m = Reached - n /\ n \in Nat /\ n >= 1
    BY <1>1, <1>2, <2>1, <2>3
  <2>5. processed <= Reached
    BY <1>1, <2>3, <2>4
  <2>6. ASSUME results # <<>> PROVE processed + results[1].new <= Reached
    <3>1. CASE results[1].new = n
      BY <1>1, <2>3, <2>4, <3>1
    <3>2. CASE results[1].new # n
      <4>1. results[1].new = Chunk /\ m >= 1
        <5>1. 1 \in 1 .. Len(results)
          BY <1>1, <1>4, <2>6
        <5>2. CASE ShortJob(n)
          <6>1. Len(jobs) >= 1
            BY <5>2, EmptySeq DEF ShortJob, ScanState, PipeIn
          <6> QED
            BY <5>1, <5>2, <6>1, <1>1, <2>3 DEF ShortJob, ResultsWhole, InFlight
        <5>3. CASE ShortBusy(n)
          <6>1. Cardinality(busy) >= 1
            BY <1>1, <5>3, FS_EmptySet DEF ScanState, PipeIn, ShortBusy
          <6> QED
            BY <5>1, <5>3, <6>1, <1>1, <2>3 DEF ShortBusy, ResultsWhole, InFlight
        <5>4. CASE ShortResult(n)
          <6>1. PICK i \in 1 .. Len(results) : results[i].new = n
                   /\ \A k \in 1 .. Len(results) : k # i => results[k].new = Chunk
            BY <5>4 DEF ShortResult
          <6>2. i # 1 /\ Len(results) >= 2
            BY <1>1, <3>2, <5>1, <6>1
          <6> QED
            BY <1>1, <2>3, <5>1, <6>1, <6>2 DEF InFlight
        <5> QED
          BY <2>1, <5>2, <5>3, <5>4
      <4>2. PICK l \in Nat : l = m - 1 /\ Chunk * l \in Nat /\ Chunk * m = Chunk * l + Chunk
        <5>1. m - 1 \in Nat /\ (m - 1) + 1 = m
          BY <4>1
        <5> QED
          BY <5>1, ChunksAdd
      <4> QED
        BY <1>1, <1>2, <2>3, <2>4, <4>1, <4>2
    <3> QED
      BY <3>1, <3>2
  <2> QED
    BY <1>4, <2>2, <2>5, <2>6
<1> QED
  BY <1>6, <1>7 DEF ScanState, Counted

(* The count of the chunks through every step.                             *)
LEMMA SendCounted ==
  ASSUME ScanState, Sends, Scanning, Scanning', workers' = workers
  PROVE  Counted'
<1>1. PICK n \in 1 .. ToRead : Send(n) /\ (n = ToRead \/ pc' = "drain")
  BY DEF Sends
<1>2. UNCHANGED <<rng, busy, results, processed>> /\ pc = "read" /\ offset < Ranges[rng].size
  BY DEF Sends
<1>3. /\ n \in 1 .. Chunk /\ (n # Chunk /\ n = ToRead => offset + n = Ranges[rng].size)
      /\ offset' = offset + n
  BY <1>1, <1>2, SendEffect DEF Sends
<1>4. /\ jobs' # <<>> /\ Len(jobs') = Len(jobs) + 1
      /\ \A i \in 1 .. Len(jobs) : jobs'[i] = jobs[i]
      /\ jobs'[Len(jobs) + 1].new = n
  BY <1>1, <1>2, SendEffect DEF Sends
<1>5. AllWhole
  <2>1. rng \in 1 .. Len(Ranges) /\ offset \in Nat
    BY TotalIn DEF ScanState, ReaderIn, Units
  <2> QED
    BY <1>2, <2>1, RangesIn DEF ScanState, Counted, OneShort
<1>6. /\ Len(jobs) \in Nat /\ Cardinality(busy) \in Nat /\ Len(results) \in Nat
      /\ processed \in Nat /\ Reached \in Nat /\ Before[rng] \in Nat /\ offset \in Nat
  BY CountIn
<1>7. InFlight \in Nat /\ InFlight' = InFlight + 1
  BY <1>2, <1>4, <1>6 DEF InFlight
<1>8. Chunk \in Nat /\ Chunk * InFlight \in Nat /\ Chunk * InFlight' = Chunk * InFlight + Chunk
  BY <1>7, ChunksAdd, SizesIn
<1>9. Reached' = Reached + n /\ n \in Nat
  BY <1>2, <1>3, <1>6, SizesIn DEF Reached
<1>10. BusyWhole' /\ ResultsWhole'
  BY <1>2, <1>5 DEF AllWhole, BusyWhole, ResultsWhole
<1>11. CASE n = Chunk
  <2>1. JobsWhole'
    BY <1>4, <1>5, <1>6, <1>11 DEF AllWhole, JobsWhole
  <2>2. processed' + Chunk * InFlight' = Reached'
    <3>1. processed + Chunk * InFlight = Reached /\ processed' = processed
      BY <1>2, <1>5 DEF AllWhole
    <3>2. processed \in Nat /\ Reached \in Nat
      BY <1>6
    <3> QED
      BY ONLY <1>8, <1>9, <1>11, <3>1, <3>2
  <2> QED
    BY <1>2, <1>10, <2>1, <2>2 DEF Counted, AllWhole, ScanState
<1>12. CASE n # Chunk
  <2>1. n \in 1 .. Chunk - 1
    BY <1>3, <1>8, <1>12
  <2>2. pc' = "drain" \/ offset' = Ranges[rng'].size
    BY <1>1, <1>2, <1>3, <1>12
  <2>3. processed' + Chunk * InFlight' = Reached' + Chunk - n
    <3>1. processed + Chunk * InFlight = Reached /\ processed' = processed
      BY <1>2, <1>5 DEF AllWhole
    <3>2. processed \in Nat /\ Reached \in Nat
      BY <1>6
    <3> QED
      BY ONLY <1>8, <1>9, <3>1, <3>2
  <2>4. ShortJob(n)'
    BY <1>4, <1>5, <1>6, <1>10 DEF AllWhole, JobsWhole, ShortJob
  <2> QED
    BY <1>2, <2>1, <2>2, <2>3, <2>4 DEF Counted, OneShort, ScanState
<1> QED
  BY <1>11, <1>12

(* The same: a worker takes a chunk, ...                                    *)
LEMMA TakeCounted ==
  ASSUME ScanState, TakeJob, Scanning, Scanning', workers' = workers
  PROVE  Counted'
<1>1. jobs \in Seq(Job) /\ IsFiniteSet(busy)
  BY DEF ScanState, PipeIn
<1>2. /\ jobs # <<>> /\ jobs' = Tail(jobs) /\ busy' = busy \cup {jobs[1]}
      /\ UNCHANGED <<results, processed, rng, offset, pc>>
  BY <1>1, TailEffect DEF TakeJob, plan, reader, collector
<1>3. /\ Len(jobs) \in Nat /\ Len(jobs) >= 1 /\ Len(jobs') = Len(jobs) - 1
      /\ \A i \in 1 .. Len(jobs') : jobs'[i] = jobs[i + 1]
  BY <1>1, <1>2, TailEffect
<1>4. jobs[1] \notin busy
  <2>1. 1 \in 1 .. Len(jobs)
    BY <1>3
  <2>2. \A job \in busy : JobEnd(job) < JobEnd(jobs[1])
    BY <2>1 DEF ScanState, PipeIn
  <2>3. jobs[1] \in Job
    BY <1>1, <2>1, ElementOfSeq
  <2>4. JobEnd(jobs[1]) \in Nat
    <3>1. jobs[1].base \in Nat /\ jobs[1].len \in 1 .. Chunk + Overlap
      BY <2>3 DEF Job
    <3> QED
      BY <3>1, SizesIn DEF JobEnd
  <2>5. ~(JobEnd(jobs[1]) < JobEnd(jobs[1]))
    BY <2>4
  <2> QED
    BY <2>2, <2>5
<1>5. Cardinality(busy') = Cardinality(busy) + 1 /\ Cardinality(busy) \in Nat
  BY <1>1, <1>2, <1>4, FS_AddElement, FS_CardinalityType
<1>6. InFlight' = InFlight /\ Reached' = Reached
  BY <1>2, <1>3, <1>5, CountIn DEF InFlight, Reached
<1>7. ResultsWhole' <=> ResultsWhole
  BY <1>2 DEF ResultsWhole
<1>8. CASE AllWhole
  <2>1. JobsWhole' /\ BusyWhole'
    BY <1>2, <1>3, <1>8 DEF AllWhole, JobsWhole, BusyWhole
  <2> QED
    BY <1>2, <1>6, <1>7, <1>8, <2>1 DEF AllWhole, Counted, ScanState
<1>9. CASE OneShort
  <2>1. PICK n \in 1 .. Chunk - 1 :
          /\ processed + Chunk * InFlight = Reached + Chunk - n
          /\ ShortJob(n) \/ ShortBusy(n) \/ ShortResult(n)
    BY <1>9 DEF OneShort
  <2>2. ASSUME ShortJob(n), Len(jobs) = 1 PROVE ShortBusy(n)'
    <3>1. jobs[1].new = n /\ BusyWhole /\ ResultsWhole
      BY <2>2 DEF ShortJob
    <3>2. JobsWhole'
      BY <1>3, <2>2 DEF JobsWhole
    <3>3. jobs[1] \in busy' /\ \A other \in busy' \ {jobs[1]} : other.new = Chunk
      BY <1>2, <3>1 DEF BusyWhole
    <3> QED
      BY <1>7, <3>1, <3>2, <3>3 DEF ShortBusy
  <2>3. ASSUME ShortJob(n), Len(jobs) # 1 PROVE ShortJob(n)'
    <3>1. jobs[1].new = Chunk /\ BusyWhole /\ ResultsWhole
      BY <1>3, <2>3 DEF ShortJob
    <3>2. jobs' # <<>> /\ jobs'[Len(jobs')].new = n
      <4>1. Len(jobs') \in 1 .. Len(jobs') /\ Len(jobs') + 1 = Len(jobs) /\ Len(jobs') # 0
        BY <1>3, <2>3
      <4>2. jobs' # <<>>
        BY <4>1, EmptySeq
      <4> QED
        BY <1>3, <2>3, <4>1, <4>2 DEF ShortJob
    <3>3. \A i \in 1 .. Len(jobs') - 1 : jobs'[i].new = Chunk
      <4> TAKE i \in 1 .. Len(jobs') - 1
      <4>1. i \in 1 .. Len(jobs') /\ i + 1 \in 1 .. Len(jobs) - 1
        BY <1>3
      <4> QED
        BY <1>3, <2>3, <4>1 DEF ShortJob
    <3>4. BusyWhole'
      BY <1>2, <3>1 DEF BusyWhole
    <3> QED
      BY <1>7, <3>1, <3>2, <3>3, <3>4 DEF ShortJob
  <2>4. ASSUME ShortBusy(n) PROVE ShortBusy(n)'
    <3>1. JobsWhole /\ ResultsWhole
      BY <2>4 DEF ShortBusy
    <3>2. PICK job \in busy : job.new = n /\ \A other \in busy \ {job} : other.new = Chunk
      BY <2>4 DEF ShortBusy
    <3>3. jobs[1].new = Chunk /\ JobsWhole'
      BY <1>3, <3>1 DEF JobsWhole
    <3> QED
      BY <1>2, <1>7, <3>1, <3>2, <3>3 DEF ShortBusy
  <2>5. ASSUME ShortResult(n) PROVE ShortResult(n)'
    <3>1. JobsWhole' /\ BusyWhole'
      BY <1>2, <1>3, <2>5 DEF ShortResult, JobsWhole, BusyWhole
    <3> QED
      BY <1>2, <2>5, <3>1 DEF ShortResult
  <2>6. \E k \in 1 .. Chunk - 1 :
          /\ processed' + Chunk * InFlight' = Reached' + Chunk - k
          /\ ShortJob(k)' \/ ShortBusy(k)' \/ ShortResult(k)'
    BY <1>2, <1>6, <2>1, <2>2, <2>3, <2>4, <2>5
  <2> QED
    BY <1>2, <1>9, <2>6 DEF OneShort, Counted, ScanState
<1> QED
  BY <1>8, <1>9 DEF ScanState, Counted

(* ... hands in its result, ...                                             *)
LEMMA FinishCounted ==
  ASSUME ScanState, NEW job \in busy, FinishJob(job), Scanning, Scanning', workers' = workers
  PROVE  Counted'
<1>1. results \in Seq(Result) /\ IsFiniteSet(busy) /\ PipeIn'
  <2>1. PipeIn'
    BY PipeStep DEF Next, Worker
  <2> QED
    BY <2>1 DEF ScanState, PipeIn
<1>2. /\ busy' = busy \ {job}
      /\ results' = Append(results, [found |-> ScanChunk(job), new |-> job.new])
      /\ UNCHANGED <<jobs, processed, rng, offset, pc>>
  BY DEF FinishJob, plan, reader, collector
<1>3. /\ Len(results) \in Nat /\ Len(results') = Len(results) + 1
      /\ \A i \in 1 .. Len(results) : results'[i] = results[i]
      /\ results'[Len(results) + 1].new = job.new
  <2>1. job.new \in 1 .. Chunk /\ ScanChunk(job) \subseteq Findable
    BY PlacedFinds DEF ScanState, PipeIn, Placed, Job
  <2>2. [found |-> ScanChunk(job), new |-> job.new] \in Result
    BY <2>1 DEF Result
  <2> QED
    BY <1>1, <1>2, <2>2, AppendEffect
<1>5. Cardinality(busy') = Cardinality(busy) - 1 /\ Cardinality(busy) \in Nat
  BY <1>1, <1>2, FS_RemoveElement, FS_CardinalityType
<1>6. InFlight' = InFlight /\ Reached' = Reached
  BY SMTT(30), <1>2, <1>3, <1>5, CountIn DEF InFlight, Reached
<1>7. JobsWhole' <=> JobsWhole
  BY <1>2 DEF JobsWhole
<1>8. CASE AllWhole
  <2>1. ResultsWhole' /\ BusyWhole'
    BY <1>2, <1>3, <1>8 DEF AllWhole, ResultsWhole, BusyWhole
  <2> QED
    BY <1>2, <1>6, <1>7, <1>8, <2>1 DEF AllWhole, Counted, ScanState
<1>9. CASE OneShort
  <2>1. PICK n \in 1 .. Chunk - 1 :
          /\ processed + Chunk * InFlight = Reached + Chunk - n
          /\ ShortJob(n) \/ ShortBusy(n) \/ ShortResult(n)
    BY <1>9 DEF OneShort
  <2>2. ASSUME ShortJob(n) PROVE ShortJob(n)'
    <3>1. BusyWhole' /\ ResultsWhole'
      BY <1>2, <1>3, <2>2 DEF ShortJob, BusyWhole, ResultsWhole
    <3> QED
      BY <1>2, <2>2, <3>1 DEF ShortJob
  <2>3. ASSUME ShortBusy(n) PROVE ShortBusy(n)' \/ ShortResult(n)'
    <3>1. JobsWhole /\ ResultsWhole
      BY <2>3 DEF ShortBusy
    <3>2. PICK short \in busy : short.new = n /\ \A other \in busy \ {short} : other.new = Chunk
      BY <2>3 DEF ShortBusy
    <3>3. CASE short = job
      <4>1. BusyWhole'
        BY <1>2, <3>2, <3>3 DEF BusyWhole
      <4>2. /\ Len(results) + 1 \in 1 .. Len(results') /\ results'[Len(results) + 1].new = n
            /\ \A k \in 1 .. Len(results') : k # Len(results) + 1 => results'[k].new = Chunk
        BY <1>3, <3>1, <3>2, <3>3 DEF ResultsWhole
      <4> QED
        BY <1>7, <3>1, <4>1, <4>2 DEF ShortResult
    <3>4. CASE short # job
      <4>1. ResultsWhole'
        BY <1>3, <3>1, <3>2, <3>4 DEF ResultsWhole
      <4>2. short \in busy' /\ \A other \in busy' \ {short} : other.new = Chunk
        BY <1>2, <3>2, <3>4
      <4> QED
        BY <1>7, <3>1, <3>2, <4>1, <4>2 DEF ShortBusy
    <3> QED
      BY <3>3, <3>4
  <2>4. ASSUME ShortResult(n) PROVE ShortResult(n)'
    <3>1. PICK i \in 1 .. Len(results) : results[i].new = n
             /\ \A k \in 1 .. Len(results) : k # i => results[k].new = Chunk
      BY <2>4 DEF ShortResult
    <3>2. JobsWhole' /\ BusyWhole' /\ job.new = Chunk
      BY <1>2, <1>7, <2>4 DEF ShortResult, BusyWhole
    <3>3. i \in 1 .. Len(results') /\ results'[i].new = n
          /\ \A k \in 1 .. Len(results') : k # i => results'[k].new = Chunk
      BY <1>3, <3>1, <3>2
    <3> QED
      BY <3>2, <3>3 DEF ShortResult
  <2>6. \E k \in 1 .. Chunk - 1 :
          /\ processed' + Chunk * InFlight' = Reached' + Chunk - k
          /\ ShortJob(k)' \/ ShortBusy(k)' \/ ShortResult(k)'
    BY <1>2, <1>6, <2>1, <2>2, <2>3, <2>4
  <2> QED
    BY <1>2, <1>9, <2>6 DEF OneShort, Counted, ScanState
<1> QED
  BY <1>8, <1>9 DEF ScanState, Counted

(* ... which the collector receives ...                                     *)
LEMMA CollectCounted ==
  ASSUME ScanState, Collect, Scanning, Scanning'
  PROVE  Counted'
<1>1. /\ results \in Seq(Result) /\ results # <<>> /\ results' = Tail(results)
      /\ processed' = processed + results[1].new
      /\ UNCHANGED <<jobs, busy, rng, offset, pc>>
  BY TailEffect DEF ScanState, PipeIn, Collect, Receives, plan, reader
<1>2. /\ Len(results) \in Nat /\ Len(results) >= 1 /\ Len(results') = Len(results) - 1
      /\ \A i \in 1 .. Len(results') : results'[i] = results[i + 1]
      /\ 1 \in 1 .. Len(results)
  BY <1>1, TailEffect
<1>3. /\ Len(jobs) \in Nat /\ Cardinality(busy) \in Nat /\ InFlight \in Nat
      /\ processed \in Nat /\ Reached \in Nat /\ Reached <= Total /\ Total \in Nat
  BY CountIn
<1>4. results[1].new \in 1 .. Chunk /\ processed + results[1].new <= Reached /\ Chunk \in Nat
  BY <1>1, CountBound, SizesIn
<1>5. processed' \in Units
  <2>1. results[1].new \in Nat
    BY <1>4
  <2> QED
    BY <1>1, <1>3, <1>4, <2>1 DEF Units
<1>6. Reached' = Reached
  BY <1>1 DEF Reached
<1>7. InFlight' \in Nat /\ InFlight = InFlight' + 1
  BY <1>1, <1>2, <1>3 DEF InFlight
<1>8. Chunk * InFlight' \in Nat /\ Chunk * InFlight = Chunk * InFlight' + Chunk
  BY <1>7, ChunksAdd
<1>9. (JobsWhole' <=> JobsWhole) /\ (BusyWhole' <=> BusyWhole)
  BY <1>1 DEF JobsWhole, BusyWhole
<1>10. ResultsWhole => ResultsWhole' /\ results[1].new = Chunk
  BY <1>2 DEF ResultsWhole
<1>11. CASE AllWhole
  <2>1. processed + Chunk * InFlight = Reached /\ results[1].new = Chunk
    BY <1>10, <1>11 DEF AllWhole
  <2>2. processed' + Chunk * InFlight' = Reached'
    BY ONLY SMTT(30), <1>1, <1>3, <1>4, <1>6, <1>8, <2>1
  <2> QED
    BY <1>5, <1>9, <1>10, <1>11, <2>2 DEF AllWhole, Counted
<1>12. CASE OneShort
  <2>1. PICK n \in 1 .. Chunk - 1 :
          /\ processed + Chunk * InFlight = Reached + Chunk - n
          /\ ShortJob(n) \/ ShortBusy(n) \/ ShortResult(n)
    BY <1>12 DEF OneShort
  <2>2. n \in Nat
    OBVIOUS
  <2>3. ASSUME results[1].new = Chunk
        PROVE  processed' + Chunk * InFlight' = Reached' + Chunk - n
    BY ONLY SMTT(30), <1>1, <1>3, <1>4, <1>6, <1>8, <2>1, <2>2, <2>3
  <2>4. ASSUME results[1].new = n
        PROVE  processed' + Chunk * InFlight' = Reached'
    <3>1. processed' = processed + n
      BY <1>1, <2>4
    <3>2. processed + (Chunk * InFlight' + Chunk) = Reached + Chunk - n
      BY <1>8, <2>1
    <3>3. PICK rest \in Nat : rest = Chunk * InFlight'
      BY <1>8
    <3>4. processed \in Nat /\ Reached \in Nat /\ Chunk \in Nat
      BY <1>3, <1>4
    <3>5. processed + n + rest = Reached
      BY ONLY <2>2, <3>2, <3>3, <3>4
    <3> QED
      BY ONLY <1>6, <3>1, <3>3, <3>5
  <2>5. ASSUME ShortJob(n) PROVE ShortJob(n)' /\ results[1].new = Chunk
    <3>1. ResultsWhole' /\ BusyWhole' /\ results[1].new = Chunk
      BY <1>9, <1>10, <2>5 DEF ShortJob
    <3> QED
      BY <1>1, <2>5, <3>1 DEF ShortJob
  <2>6. ASSUME ShortBusy(n) PROVE ShortBusy(n)' /\ results[1].new = Chunk
    <3>1. ResultsWhole' /\ JobsWhole' /\ results[1].new = Chunk
      BY <1>9, <1>10, <2>6 DEF ShortBusy
    <3> QED
      BY <1>1, <2>6, <3>1 DEF ShortBusy
  <2>7. ASSUME ShortResult(n)
        PROVE  \/ ShortResult(n)' /\ results[1].new = Chunk
               \/ JobsWhole' /\ BusyWhole' /\ ResultsWhole' /\ results[1].new = n
    <3>1. PICK i \in 1 .. Len(results) : results[i].new = n
             /\ \A k \in 1 .. Len(results) : k # i => results[k].new = Chunk
      BY <2>7 DEF ShortResult
    <3>2. JobsWhole' /\ BusyWhole'
      BY <1>9, <2>7 DEF ShortResult
    <3>3. CASE i = 1
      <4>1. ASSUME NEW k \in 1 .. Len(results') PROVE results'[k].new = Chunk
        <5>1. k + 1 \in 1 .. Len(results) /\ k + 1 # i
          BY <1>2, <3>3
        <5> QED
          BY <1>2, <3>1, <5>1
      <4> QED
        BY <3>1, <3>2, <3>3, <4>1 DEF ResultsWhole
    <3>4. CASE i # 1
      <4>1. i - 1 \in 1 .. Len(results') /\ (i - 1) + 1 = i
        BY <1>2, <3>4
      <4>2. results'[i - 1].new = n
        BY <1>2, <3>1, <4>1
      <4>3. ASSUME NEW k \in 1 .. Len(results'), k # i - 1 PROVE results'[k].new = Chunk
        <5>1. k + 1 \in 1 .. Len(results) /\ k + 1 # i
          BY <1>2, <4>1, <4>3
        <5> QED
          BY <1>2, <3>1, <5>1
      <4>4. results[1].new = Chunk
        BY <1>2, <3>1, <3>4
      <4>5. ShortResult(n)'
        BY <3>2, <4>1, <4>2, <4>3 DEF ShortResult
      <4> QED
        BY <4>4, <4>5
    <3> QED
      BY <3>3, <3>4
  <2>8. pc' = "drain" \/ offset' = Ranges[rng'].size
    BY <1>1, <1>12 DEF OneShort
  <2>9. AllWhole' \/ OneShort'
    <3>1. CASE ShortJob(n)
      BY <2>3, <2>5, <2>8, <3>1 DEF OneShort
    <3>2. CASE ShortBusy(n)
      BY <2>3, <2>6, <2>8, <3>2 DEF OneShort
    <3>3. CASE ShortResult(n)
      BY <2>3, <2>4, <2>7, <2>8, <3>3 DEF OneShort, AllWhole
    <3> QED
      BY <2>1, <3>1, <3>2, <3>3
  <2> QED
    BY <1>5, <2>9 DEF Counted
<1> QED
  BY <1>11, <1>12 DEF ScanState, Counted

(* ... or nothing of it moves.                                              *)
LEMMA HoldsCounted ==
  ASSUME ScanState, Holds, Scanning, Scanning'
  PROVE  Counted'
<1>1. InFlight' = InFlight /\ Reached' = Reached
  BY DEF Holds, InFlight, Reached
<1>2. (JobsWhole' <=> JobsWhole) /\ (BusyWhole' <=> BusyWhole) /\ (ResultsWhole' <=> ResultsWhole)
  BY DEF Holds, JobsWhole, BusyWhole, ResultsWhole
<1>3. CASE AllWhole
  BY <1>1, <1>2, <1>3 DEF AllWhole, Counted, Holds, ScanState
<1>4. CASE OneShort
  <2>1. \A n : (ShortJob(n)' <=> ShortJob(n)) /\ (ShortBusy(n)' <=> ShortBusy(n)) /\ (ShortResult(n)' <=> ShortResult(n))
    BY <1>2 DEF ShortJob, ShortBusy, ShortResult, Holds
  <2> QED
    BY <1>1, <1>4, <2>1 DEF OneShort, Counted, Holds, ScanState
<1> QED
  BY <1>3, <1>4 DEF ScanState, Counted

(* Where the scan of a range begins.                                        *)
LEMMA EnterEffect ==
  ASSUME ScanState, EnterRange
  PROVE  /\ pc = "range" /\ pc' = "read" /\ rng \in 1 .. Len(Ranges) /\ rng' = rng
         /\ Before[rng] \in Nat /\ Before[rng + 1] = Before[rng] + Ranges[rng].size
         /\ Before[rng + 1] <= Total
         /\ resumeAt \in Nat /\ resumeAt < Before[rng + 1] /\ Before[rng] <= resumeAt
         /\ offset' = resumeAt - Before[rng] /\ carry' = 0 /\ offset' \in Nat
         /\ offset' < Ranges[rng].size /\ Ranges[rng].size \in Nat
         /\ processed' = resumeAt /\ Reached' = resumeAt /\ resumeAt \in Units
         /\ UNCHANGED <<sess, saved, file, buf, sorted, col, scanErr, resumeAt, history, jobs, busy, results>>
<1>1. /\ pc = "range" /\ pc' = "read" /\ rng <= Len(Ranges) /\ resumeAt < Before[rng + 1]
      /\ offset' = (IF resumeAt > Before[rng] THEN resumeAt - Before[rng] ELSE 0)
      /\ processed' = Progress(offset') /\ carry' = 0
      /\ UNCHANGED <<rng, sess, saved, file, buf, sorted, col, scanErr, resumeAt, history, jobs, busy, results>>
  BY DEF EnterRange, Goto, plan, disk, store, history, pipe
<1>2. rng \in 1 .. Len(Ranges) /\ resumeAt \in Nat /\ resumeAt \in Units /\ Before[rng] <= resumeAt
  BY <1>1, RangesIn, TotalIn DEF ScanState, Fields, ReaderIn, Units
<1>3. /\ Before[rng] \in Nat /\ Before[rng + 1] = Before[rng] + Ranges[rng].size
      /\ Before[rng + 1] <= Total /\ Ranges[rng].size \in Nat
  <2>1. rng \in 1 .. Len(Ranges) + 1
    BY <1>2, RangesIn
  <2> QED
    BY <1>2, <2>1, BeforeStep, TotalIn, RangesIn
<1>4. offset' = resumeAt - Before[rng]
  BY <1>1, <1>2, <1>3
<1>5. processed' = resumeAt /\ Reached' = resumeAt
  BY <1>1, <1>2, <1>3, <1>4 DEF Progress, Reached
<1> QED
  BY <1>1, <1>2, <1>3, <1>4, <1>5

(* The account of the units through every step.                             *)
LEMMA CountStep ==
  ASSUME ScanState, [Next]_vars
  PROVE  Counted'
<1>0. processed \in Units /\ 0 \in Units
  BY TotalIn DEF ScanState, Counted, Units
<1>1. CASE Quiet' /\ ~Scanning' /\ processed' \in {processed, 0}
  BY <1>0, <1>1 DEF Counted
<1>2. CASE EnterRange /\ Quiet' /\ Scanning'
  <2>1. InFlight' = 0 /\ Chunk * InFlight' = 0
    <3>1. workers' = workers
      BY <1>2 DEF EnterRange, history
    <3>2. InFlight' = 0
      BY <1>2, <3>1, QuietPipe
    <3>3. Chunk * 0 = 0
      BY SizesIn
    <3> QED
      BY <3>2, <3>3
  <2>2. JobsWhole' /\ BusyWhole' /\ ResultsWhole'
    BY <1>2 DEF Quiet, JobsWhole, BusyWhole, ResultsWhole
  <2>3. processed' = Reached' /\ processed' \in Nat /\ processed' \in Units
    BY <1>2, EnterEffect
  <2> QED
    BY <2>1, <2>2, <2>3 DEF Counted, AllWhole
<1>3. CASE Scanning /\ Scanning' /\ (Sends \/ TakeJob \/ (\E job \in busy : FinishJob(job)) \/ Collect \/ Holds)
  <2>1. workers' = workers
    BY PipeCases
  <2> QED
    BY <1>3, <2>1, SendCounted, TakeCounted, FinishCounted, CollectCounted, HoldsCounted
<1> QED
  BY <1>1, <1>2, <1>3, PipeCases

(* What a call starts from.                                                 *)
LEMMA InitialValues ==
  /\ NoSession \in Session /\ 0 \in Units /\ Total \in Units
  /\ 1 \in 1 .. Len(Ranges) + 1 /\ "idle" \in Labels
<1>1. 0 \in Units /\ Total \in Units
  BY TotalIn DEF Units
<1>2. NoSession \in Session
  BY <1>1 DEF NoSession, Session
<1> QED
  BY <1>1, <1>2, RangesIn DEF Labels

(* A scan is resumed at most one unit before the offset it had.             *)
LEMMA StartAtIn ==
  ASSUME NEW off \in Units
  PROVE  /\ StartAt(off) \in Units /\ StartAt(off) <= off /\ off <= StartAt(off) + 1
         /\ \A x \in Nat : off <= x + 1 /\ x >= 1 => StartAt(off) <= x
BY TotalIn, SizesIn DEF StartAt, Units

(* Sessions, flags and positions keep their types.                          *)
LEMMA FieldsStep ==
  ASSUME ScanState, [Next]_vars, Counted'
  PROVE  Fields'
<1> USE DEF Fields, Goto, disk, store, plan, reader, pipe, collector, user, history
<1>1. Fields /\ rng \in Nat
  BY RangesIn DEF ScanState
<1>2. CASE Start
  <2>1. [phase |-> "created", off |-> 0, completed |-> FALSE] \in Session
    BY InitialValues DEF Session
  <2> QED
    BY ZenonT(60), <1>1, <1>2, <2>1 DEF Start, StartNew, Resume, Labels
<1>3. CASE OpenStore
  <2>1. sess.off \in Units
    BY <1>1 DEF Session
  <2> QED
    BY <1>1, <1>3, <2>1, StartAtIn, InitialValues DEF OpenStore, Labels
<1>4. CASE ScanRanges
  <2>1. rng <= Len(Ranges) => rng + 1 \in 1 .. Len(Ranges) + 1
    BY <1>1, RangesIn
  <2>2. CASE SkipRange
    BY <1>1, <2>1, <2>2 DEF SkipRange
  <2>3. CASE EnterRange
    BY <1>1, <2>3 DEF EnterRange, Labels
  <2>4. CASE AllScanned
    BY <1>1, <2>4 DEF AllScanned, Labels
  <2> QED
    BY <1>4, <2>2, <2>3, <2>4 DEF ScanRanges
<1>5. CASE ReadChunk \/ CutRead \/ ScanCancelled \/ RangeRead
  BY ZenonT(60), <1>1, <1>5 DEF ReadChunk, CutRead, ScanCancelled, RangeRead, Labels
<1>6. CASE Drained
  <2>1. rng \in 1 .. Len(Ranges)
    BY <1>6 DEF Drained, ScanState, ReaderIn, Scanning
  <2>2. rng + 1 \in 1 .. Len(Ranges) + 1
    BY <2>1, RangesIn
  <2>3. Before[rng + 1] \in Units
    BY <2>2, TotalIn DEF Units
  <2> QED
    BY <1>1, <1>6, <2>2, <2>3 DEF Drained, Labels
<1>7. CASE CloseStore
  <2>1. [sess EXCEPT !.phase = "sorting", !.off = Total] \in Session
    BY <1>1, InitialValues DEF Session
  <2>2. harm' = harm \/ harm' = harm \cup {"write"}
    BY <1>7 DEF CloseStore, WriteOut
  <2>3. writerBad' \in BOOLEAN
    BY <1>1, <1>7 DEF CloseStore, WriteOut
  <2>4. sess' \in Session /\ pc' \in Labels
    BY <1>1, <1>7, <2>1 DEF CloseStore, Labels
  <2> QED
    BY <1>1, <1>7, <2>2, <2>3, <2>4 DEF CloseStore
<1>8. CASE SaveSorting \/ SaveSorted \/ SaveCompleted
  <2>1. ASSUME NEW here, NEW next \in Labels, SaveThen(here, next) PROVE Fields'
    BY <1>1, <2>1 DEF SaveThen, SaveSession
  <2> QED
    BY <1>8, <2>1 DEF SaveSorting, SaveSorted, SaveCompleted, Labels
<1>9. CASE Sort \/ SortFails
  <2>1. [sess EXCEPT !.phase = "sorted"] \in Session
    BY <1>1 DEF Session
  <2> QED
    BY <1>1, <1>9, <2>1 DEF Sort, SortFails, Labels
<1>10. CASE ReportFailure \/ NoIndex \/ ExtractCancelled \/ RemoveFiles
  BY <1>1, <1>10, InitialValues DEF ReportFailure, NoIndex, ExtractCancelled, RemoveFiles, Return
<1>11. CASE Extract
  <2>1. [phase |-> "completed", off |-> sess.off, completed |-> TRUE] \in Session
    BY <1>1 DEF Session
  <2> QED
    BY <1>1, <1>11, <2>1 DEF Extract, Labels
<1>12. CASE Worker
  BY ZenonT(60), <1>1, <1>12 DEF Worker, TakeJob, FinishJob
<1>13. CASE Collect
  <2>1. processed' \in Units
    BY DEF Counted
  <2>2. [sess EXCEPT !.phase = "scanning", !.off = processed'] \in Session
    BY <1>1, <2>1 DEF Session
  <2>3. sess' \in Session /\ col' \in {"recv", "flush", "save"} /\ due' \in BOOLEAN
    BY <1>1, <1>13, <2>2 DEF Collect
  <2>4. /\ harm' \subseteq {"kill", "write"} /\ writerBad' \in BOOLEAN /\ collectErr' \in BOOLEAN
    BY <1>1, <1>13 DEF Collect, AppendFound
  <2> QED
    BY <1>1, <1>13, <2>3, <2>4 DEF Collect
<1>14. CASE Flush
  BY <1>1, <1>14 DEF Flush, WriteOut
<1>15. CASE SaveProgress
  BY <1>1, <1>15 DEF SaveProgress, SaveSession
<1>16. CASE Cancel \/ TogglePause \/ UNCHANGED vars
  BY ZenonT(60), <1>1, <1>16 DEF Cancel, TogglePause, vars
<1>17. CASE Kill
  BY <1>1, <1>17, InitialValues DEF Kill, Return
<1> QED
  BY <1>2, <1>3, <1>4, <1>5, <1>6, <1>7, <1>8, <1>9, <1>10, <1>11, <1>12, <1>13, <1>14, <1>15, <1>16, <1>17
     DEF Next, Caller, Read, Index, Finish, Collector

(* Where the reader is, through every step.                                 *)
LEMMA ReaderStep ==
  ASSUME ScanState, [Next]_vars
  PROVE  ReaderIn'
<1> USE DEF ReaderIn, Scanning, Stopped, Goto, disk, store, plan, reader, pipe, collector, user, history
<1>1. ReaderIn /\ rng \in 1 .. Len(Ranges) + 1 /\ (rng \in 1 .. Len(Ranges) => rng + 1 \in 1 .. Len(Ranges) + 1)
      /\ Len(Ranges) \in Nat
  BY RangesIn DEF ScanState, Fields
<1>2. CASE Start \/ Extract \/ SaveSorting \/ SaveSorted \/ SaveCompleted \/ Sort \/ SortFails
  BY <1>1, <1>2 DEF Start, StartNew, Resume, Extract, SaveSorting, SaveSorted, SaveCompleted, SaveThen, Sort, SortFails
<1>3. CASE OpenStore
  <2>1. resumeAt' \in Nat /\ rng' = 1 /\ Before[1] = 0
    <3>1. sess.off \in Units
      BY DEF ScanState, Fields, Session
    <3> QED
      BY SMTT(30), <1>3, <3>1, StartAtIn, BeforeStep, TotalIn DEF OpenStore, Units
  <2> QED
    BY <1>1, <1>3, <2>1 DEF OpenStore
<1>4. CASE SkipRange \/ AllScanned
  BY <1>1, <1>4 DEF SkipRange, AllScanned
<1>5. CASE EnterRange
  <2>1. offset' \in Units
    BY <1>5, EnterEffect, TotalIn DEF Units
  <2>2. /\ carry' = 0 /\ 0 <= offset' /\ rng' \in 1 .. Len(Ranges) /\ offset' <= Ranges[rng'].size
        /\ pc' = "read" /\ scanErr' = scanErr /\ pc = "range"
    BY <1>5, EnterEffect
  <2> QED
    BY <1>1, <2>1, <2>2
<1>6. CASE ReadChunk \/ CutRead
  <2>1. Sends
    BY <1>6, ReadSends
  <2>2. PICK n \in 1 .. ToRead : Send(n) /\ (n = ToRead \/ (pc' = "drain" /\ offset + n >= Sector))
    BY <2>1 DEF Sends
  <2>3. UNCHANGED <<rng, busy, workers>> /\ pc = "read" /\ offset < Ranges[rng].size /\ Len(jobs) < workers
        /\ rng \in 1 .. Len(Ranges)
    BY <1>1, <1>6, <2>1 DEF Sends, ReadChunk, CutRead
  <2>4. /\ n \in 1 .. Chunk /\ offset + n <= Ranges[rng].size
        /\ n # Chunk /\ n = ToRead => offset + n = Ranges[rng].size
        /\ offset' = offset + n /\ offset' \in Units /\ carry' = 1
    BY <2>2, <2>3, SendEffect
  <2>5. offset \in Nat /\ Sector \in Nat /\ Chunk \in Nat /\ Sector <= Chunk
    BY <1>1, TotalIn, SizesIn DEF Units
  <2>6. offset' >= Sector \/ offset' = Ranges[rng].size
    <3>1. CASE n = ToRead /\ n = Chunk
      BY <2>4, <2>5, <3>1
    <3>2. CASE n = ToRead /\ n # Chunk
      BY <2>4, <3>2
    <3>3. CASE offset + n >= Sector
      BY <2>4, <3>3
    <3> QED
      BY <2>2, <3>1, <3>2, <3>3
  <2>7. 1 <= offset'
    BY <2>4, <2>5
  <2>8. (pc' = "read" /\ ~scanErr') \/ (pc' = "drain" /\ scanErr')
    <3>1. CASE ReadChunk
      <4>1. pc' = "read" /\ scanErr' = scanErr /\ ~scanErr
        BY <1>1, <3>1 DEF ReadChunk
      <4> QED
        BY <4>1
    <3>2. CASE CutRead
      BY <3>2 DEF CutRead
    <3> QED
      BY <1>6, <3>1, <3>2
  <2>9. /\ rng' \in 1 .. Len(Ranges) /\ offset' <= Ranges[rng'].size /\ carry' <= offset'
        /\ carry' \in 0 .. 1 /\ (offset' >= Sector \/ offset' = Ranges[rng'].size)
    BY <2>3, <2>4, <2>6, <2>7
  <2> QED
    BY <2>4, <2>8, <2>9
<1>7. CASE ScanCancelled \/ RangeRead
  <2>1. offset \in Nat
    BY <1>1, TotalIn DEF Units
  <2>2. rng \in 1 .. Len(Ranges) => Ranges[rng].size \in Nat
    BY RangesIn
  <2> QED
    BY <1>1, <1>7, <2>1, <2>2 DEF ScanCancelled, RangeRead
<1>8. CASE Drained
  <2>1. Before[rng + 1] \in Nat
    BY <1>1, <1>8, BeforeStep DEF Drained
  <2> QED
    BY <1>1, <1>8, <2>1 DEF Drained
<1>9. CASE CloseStore
  BY <1>1, <1>9 DEF CloseStore, Failed
<1>10. CASE ReportFailure \/ NoIndex \/ ExtractCancelled \/ RemoveFiles \/ Kill
  BY <1>1, <1>10, InitialValues DEF ReportFailure, NoIndex, ExtractCancelled, RemoveFiles, Kill, Return
<1>11. CASE Worker \/ Collector
  <2>1. UNCHANGED <<rng, resumeAt, offset, carry, pc, scanErr>>
    <3>1. CASE Worker
      BY <3>1 DEF Worker, TakeJob, FinishJob
    <3>2. CASE Collector
      BY <3>2 DEF Collector, Collect, Flush, SaveProgress
    <3> QED
      BY <1>11, <3>1, <3>2
  <2> QED
    BY <1>1, <2>1
<1>12. CASE Cancel \/ TogglePause \/ UNCHANGED vars
  BY <1>1, <1>12 DEF Cancel, TogglePause, vars
<1> QED
  BY <1>2, <1>3, <1>4, <1>5, <1>6, <1>7, <1>8, <1>9, <1>10, <1>11, <1>12
     DEF Next, Caller, Read, ScanRanges, Index, Finish

(* Only candidates of the ranges are stored, and an error of the writer is  *)
(* remembered in the history.                                               *)
LEMMA StoreStep ==
  ASSUME ScanState, [Next]_vars
  PROVE  StoreIn'
<1> USE DEF StoreIn, Goto, disk, store, plan, reader, pipe, collector, user, history
<1>1. StoreIn /\ (col # "recv" => Scanning) /\ harm \subseteq harm \cup {"kill"}
  BY DEF ScanState, PipeIn, Quiet
<1>2. CASE Start
  BY <1>1, <1>2 DEF Start, StartNew, Resume
<1>3. CASE OpenStore \/ ScanRanges
  BY <1>1, <1>3 DEF OpenStore, ScanRanges, SkipRange, EnterRange, AllScanned
<1>4. CASE Read
  BY <1>1, <1>4 DEF Read, ReadChunk, CutRead, ScanCancelled, RangeRead, Drained
<1>5. ASSUME WriteOut, UNCHANGED <<sorted, collectErr>>, col # "save"
      PROVE  StoreIn'
  BY <1>1, <1>5 DEF WriteOut
<1>6. CASE CloseStore
  <2>1. col # "save"
    BY <1>1, <1>6 DEF CloseStore, Scanning
  <2> QED
    BY <1>6, <1>5, <2>1 DEF CloseStore
<1>7. CASE SaveSorting \/ SaveSorted \/ SaveCompleted \/ Extract
  BY <1>1, <1>7 DEF SaveSorting, SaveSorted, SaveCompleted, SaveThen, Extract
<1>8. Unfinished \subseteq {NoFile} \cup SUBSET Findable
  BY <1>1 DEF Unfinished
<1>9. CASE Sort \/ SortFails
  BY <1>1, <1>8, <1>9 DEF Sort, SortFails
<1>10. CASE ReportFailure \/ NoIndex \/ ExtractCancelled \/ RemoveFiles
  BY <1>1, <1>10 DEF ReportFailure, NoIndex, ExtractCancelled, RemoveFiles, Return
<1>11. CASE Worker
  <2>1. UNCHANGED <<file, buf, sorted, writerBad, collectErr, harm, col>>
    BY <1>11 DEF Worker, TakeJob, FinishJob
  <2> QED
    BY <1>1, <2>1
<1>12. CASE Collect
  <2>1. Head(results).found \subseteq Findable
    <3>1. results \in Seq(Result) /\ results # <<>>
      BY <1>12 DEF Collect, Receives, ScanState, PipeIn
    <3>2. Head(results) \in Result
      BY <3>1, TailEffect
    <3> QED
      BY <3>2 DEF Result
  <2>2. file' \subseteq Findable /\ buf' \subseteq Findable /\ sorted' = sorted
    BY <1>1, <1>12, <2>1 DEF Collect, AppendFound
  <2>3. (writerBad' \/ collectErr' => "write" \in harm') /\ col' # "save"
    BY <1>1, <1>12 DEF Collect, Receives
  <2> QED
    BY <1>1, <2>2, <2>3
<1>13. CASE Flush
  <2>1. WriteOut /\ UNCHANGED <<sorted, collectErr>> /\ col # "save"
    BY <1>13 DEF Flush
  <2>2. buf' = {} \/ writerBad'
    BY <2>1 DEF WriteOut
  <2> QED
    BY <1>5, <2>1, <2>2
<1>14. CASE SaveProgress
  BY <1>1, <1>14 DEF SaveProgress
<1>15. CASE Cancel \/ TogglePause \/ UNCHANGED vars
  BY <1>1, <1>15 DEF Cancel, TogglePause, vars
<1>16. CASE Kill
  <2>1. sorted' = NoFile \/ sorted' \subseteq Findable
    BY <1>1, <1>8, <1>16 DEF Kill
  <2> QED
    BY <1>1, <1>16, <2>1 DEF Kill, Return
<1> QED
  BY <1>2, <1>3, <1>4, <1>6, <1>7, <1>9, <1>10, <1>11, <1>12, <1>13, <1>14, <1>15, <1>16
     DEF Next, Caller, Index, Finish, Collector

(* A range that was read without error: everything of it was received.     *)
LEMMA DrainedEffect ==
  ASSUME ScanState, Drained
  PROVE  /\ processed = Reached /\ rng \in 1 .. Len(Ranges)
         /\ Quiet /\ Scanning
         /\ ~scanErr /\ ~collectErr =>
              /\ Reached = Before[rng + 1] /\ processed >= 1
              /\ rng' = rng + 1 /\ resumeAt' = processed /\ pc' = "range" /\ ~scanErr'
         /\ scanErr \/ collectErr => rng' = rng /\ pc' = "close" /\ scanErr'
         /\ pc' # "range" => scanErr \/ collectErr
         /\ UNCHANGED <<saved, file, sorted, sess, buf, writerBad, offset, carry, jobs, busy, results,
                        col, processed, collectErr, harm, finished, workers>>
<1>1. Quiet /\ Scanning /\ pc = "drain"
  BY DEF Drained, Quiet, Scanning
<1>2. processed = Reached
  BY <1>1, CountBound
<1>3. rng \in 1 .. Len(Ranges)
  BY <1>1 DEF ScanState, ReaderIn
<1>4. ASSUME ~scanErr, ~collectErr
      PROVE  /\ Reached = Before[rng + 1] /\ processed >= 1
             /\ rng' = rng + 1 /\ resumeAt' = processed /\ pc' = "range" /\ ~scanErr'
  <2>1. offset = Ranges[rng].size
    BY <1>1, <1>4 DEF ScanState, ReaderIn
  <2>2. Before[rng] \in Nat /\ Ranges[rng].size \in Nat /\ Ranges[rng].size >= 1
        /\ Before[rng + 1] = Before[rng] + Ranges[rng].size
    <3>1. rng \in 1 .. Len(Ranges) + 1
      BY <1>3, RangesIn
    <3> QED
      BY <1>3, <3>1, BeforeStep, RangesIn
  <2>3. Reached = Before[rng + 1] /\ processed >= 1
    BY <1>2, <2>1, <2>2 DEF Reached
  <2>4. rng' = rng + 1 /\ resumeAt' = Before[rng + 1] /\ pc' = "range" /\ ~scanErr'
    BY <1>4 DEF Drained, Goto
  <2> QED
    BY <1>2, <2>3, <2>4
<1>5. scanErr \/ collectErr => rng' = rng /\ pc' = "close" /\ scanErr'
  BY DEF Drained, Goto, plan
<1>6. UNCHANGED <<saved, file, sorted, sess, buf, writerBad, offset, carry, jobs, busy, results,
                  col, processed, collectErr, harm, finished, workers>>
  BY DEF Drained, disk, store, reader, pipe, collector, history
<1> QED
  BY <1>1, <1>2, <1>3, <1>4, <1>5, <1>6

(* The collector receives no more than what was read.                       *)
LEMMA CollectEffect ==
  ASSUME ScanState, Collect
  PROVE  /\ Scanning /\ results # <<>> /\ results' = Tail(results) /\ col = "recv"
         /\ results[1].new \in 1 .. Chunk /\ processed' = processed + results[1].new
         /\ processed' <= Reached /\ processed' \in Nat /\ processed' > processed /\ processed \in Nat
         /\ col' # "recv" => col' = "flush" /\ sess'.off = processed' /\ sess'.phase = "scanning"
         /\ col' = "recv" => sess' = sess
         /\ UNCHANGED <<saved, sorted, pc, rng, resumeAt, offset, carry, jobs, busy, scanErr, workers, finished>>
<1>1. Scanning /\ results # <<>> /\ col = "recv" /\ results \in Seq(Result)
  BY DEF ScanState, PipeIn, Quiet, Collect, Receives
<1>2. Head(results) = results[1] /\ results' = Tail(results) /\ processed' = processed + results[1].new
  BY <1>1, TailEffect DEF Collect
<1>3. results[1].new \in 1 .. Chunk /\ processed + results[1].new <= Reached
  BY <1>1, CountBound
<1>4. processed \in Nat /\ Chunk \in Nat
  BY CountIn, SizesIn
<1>5. processed' \in Nat /\ processed' > processed
  <2>1. results[1].new \in Nat /\ results[1].new >= 1
    BY <1>3, <1>4
  <2> QED
    BY ONLY <1>2, <1>4, <2>1
<1>6. sess \in Session
  BY DEF ScanState, Fields
<1>7. /\ col' # "recv" => col' = "flush" /\ sess'.off = processed' /\ sess'.phase = "scanning"
      /\ col' = "recv" => sess' = sess
  BY <1>1, <1>6 DEF Collect, Session
<1>8. UNCHANGED <<saved, sorted, pc, rng, resumeAt, offset, carry, jobs, busy, scanErr, workers, finished>>
  BY DEF Collect, plan, reader
<1>9. processed' <= Reached
  BY <1>2, <1>3
<1> QED
  BY <1>1, <1>2, <1>3, <1>4, <1>5, <1>7, <1>8, <1>9

(* What the session says keeps up with what is scanned.                    *)
LEMMA OffsetStep ==
  ASSUME ScanState, [Next]_vars, Counted', Fields'
  PROVE  OffsetIn' /\ saved'.off >= saved.off
<1> USE DEF OffsetIn, Goto, disk, store, plan, reader, pipe, collector, user, history
<1>1. OffsetIn /\ (col # "recv" => Scanning)
  BY DEF ScanState, PipeIn, Quiet
<1>2. saved.off \in Nat /\ sess.off \in Nat /\ saved.off \in Units /\ sess.off \in Units
      /\ saved.off <= Total /\ processed \in Nat /\ Total \in Nat
  BY CountIn, TotalIn DEF ScanState, Fields, Session, Units
<1>3. CASE StartNew
  <2>1. saved.off = 0 /\ saved'.off = 0 /\ sess' = saved' /\ saved'.phase = "created"
        /\ pc' = "store" /\ pc = "idle" /\ col' = col
    BY <1>3 DEF StartNew, NoSession
  <2>2. col = "recv"
    BY <1>1, <2>1 DEF Scanning
  <2> QED
    BY <1>1, <2>1, <2>2 DEF Scanning, Indexing
<1>4. CASE Resume
  <2>1. saved' = saved /\ sess' = saved /\ col' = col /\ pc = "idle"
        /\ pc' = IF saved.phase = "sorted" THEN "extract" ELSE "store"
    BY <1>4 DEF Resume
  <2>2. col = "recv"
    BY <1>1, <2>1 DEF Scanning
  <2> QED
    BY <1>1, <1>2, <2>1, <2>2 DEF Scanning, Indexing
<1>5. CASE OpenStore
  <2>1. saved' = saved /\ sess' = sess /\ col' = col /\ pc = "store" /\ pc' = "range"
        /\ resumeAt' = StartAt(sess.off) /\ sess = saved
    BY <1>1, <1>5 DEF OpenStore
  <2>2. col = "recv"
    BY <1>1, <2>1 DEF Scanning
  <2>3. saved.off <= StartAt(saved.off) + 1 /\ StartAt(saved.off) \in Nat
    <3>1. StartAt(saved.off) \in Units /\ saved.off <= StartAt(saved.off) + 1
      BY <1>2, StartAtIn
    <3> QED
      BY <1>2, <3>1 DEF Units
  <2> QED
    BY <1>1, <1>2, <2>1, <2>2, <2>3 DEF Scanning, Indexing
<1>6. CASE SkipRange \/ AllScanned
  <2>1. UNCHANGED <<saved, sess, col, resumeAt>> /\ pc = "range" /\ pc' \in {"range", "close"}
    BY <1>6 DEF SkipRange, AllScanned
  <2>2. col = "recv"
    BY <1>1, <2>1 DEF Scanning
  <2> QED
    BY <1>1, <1>2, <2>1, <2>2 DEF Scanning, Indexing
<1>7. CASE EnterRange
  <2>1. UNCHANGED <<saved, sess, col>> /\ pc = "range" /\ pc' = "read" /\ processed' = resumeAt
    BY <1>7, EnterEffect
  <2>2. col = "recv"
    BY <1>1, <2>1 DEF Scanning
  <2> QED
    BY <1>1, <1>2, <2>1, <2>2 DEF Scanning, Indexing
<1>8. CASE ReadChunk \/ CutRead \/ ScanCancelled \/ RangeRead
  <2>1. UNCHANGED <<saved, sess, col, processed>> /\ pc = "read" /\ pc' \in {"read", "drain"}
    BY <1>8 DEF ReadChunk, CutRead, ScanCancelled, RangeRead
  <2> QED
    BY <1>1, <1>2, <2>1 DEF Scanning, Indexing
<1>9. CASE Drained
  <2>1. /\ Scanning /\ col = "recv" /\ UNCHANGED <<saved, sess, col>>
        /\ pc' = "range" => resumeAt' = processed /\ processed >= 1
        /\ pc' = "range" \/ pc' = "close"
    BY <1>9, DrainedEffect DEF Quiet
  <2>2. pc' = "range" => saved.off <= processed + 1 /\ StartAt(saved.off) <= processed
    BY <1>1, <1>2, <2>1, StartAtIn
  <2>3. saved.phase # "sorted"
    BY <1>1, <2>1 DEF Scanning
  <2> QED
    BY <1>2, <2>1, <2>2, <2>3 DEF Scanning, Indexing
<1>10. CASE CloseStore
  <2>1. /\ saved' = saved /\ col' = col /\ pc = "close"
        /\ \/ pc' = "fail"
           \/ pc' = "sorting" /\ sess'.off = Total /\ sess'.phase = "sorting"
    BY ZenonT(60), <1>10 DEF CloseStore, ScanState, Fields, Session
  <2>2. col = "recv"
    BY <1>1, <2>1 DEF Scanning
  <2> QED
    BY <1>1, <1>2, <2>1, <2>2 DEF Scanning, Indexing
<1>11. ASSUME NEW here \in {"sorting", "sorted", "completed"}, NEW next \in {"sort", "extract", "remove"},
              SaveThen(here, next), here = "sorting" <=> next = "sort"
       PROVE  OffsetIn' /\ saved'.off >= saved.off
  <2>1. /\ saved' = sess \/ saved' = saved
        /\ sess' = sess /\ col' = col /\ pc = here /\ pc' = next
    BY <1>11 DEF SaveThen, SaveSession
  <2>2. col = "recv" /\ saved.off <= sess.off /\ Indexing /\ Indexing'
    BY <1>1, <2>1 DEF Scanning, Indexing
  <2>3. pc' = "sort" => sess.phase = "sorting" /\ saved'.phase # "sorted"
    BY <1>1, <1>11, <2>1
  <2> QED
    BY <1>1, <1>2, <2>1, <2>2, <2>3 DEF Scanning
<1>12. CASE SaveSorting \/ SaveSorted \/ SaveCompleted
  BY <1>11, <1>12 DEF SaveSorting, SaveSorted, SaveCompleted
<1>13. CASE Sort
  <2>1. /\ saved' = saved /\ col' = col /\ pc = "sort" /\ pc' = "sorted" /\ sess'.off = sess.off
    BY <1>13 DEF Sort, ScanState, Fields, Session
  <2>2. col = "recv"
    BY <1>1, <2>1 DEF Scanning
  <2> QED
    BY <1>1, <1>2, <2>1, <2>2 DEF Scanning, Indexing
<1>14. CASE SortFails
  <2>1. /\ saved' = saved /\ col' = col /\ pc = "sort" /\ pc' = "fail" /\ sess' = sess
    BY <1>14 DEF SortFails
  <2>2. col = "recv"
    BY <1>1, <2>1 DEF Scanning
  <2> QED
    BY <1>1, <1>2, <2>1, <2>2 DEF Scanning, Indexing
<1>15. CASE Extract
  <2>1. /\ saved' = saved /\ col' = col /\ pc = "extract" /\ pc' = "completed" /\ sess'.off = sess.off
        /\ sess'.phase = "completed"
    BY <1>15 DEF Extract
  <2>2. col = "recv"
    BY <1>1, <2>1 DEF Scanning
  <2> QED
    BY <1>1, <1>2, <2>1, <2>2 DEF Scanning, Indexing
<1>16. CASE ReportFailure \/ NoIndex \/ ExtractCancelled \/ RemoveFiles \/ Kill
  <2>1. saved' = saved /\ col' = "recv" /\ pc' = "idle"
    BY <1>16 DEF ReportFailure, NoIndex, ExtractCancelled, RemoveFiles, Kill, Return
  <2> QED
    BY <1>2, <2>1 DEF Scanning, Indexing
<1>17. CASE Collect
  <2>1. Scanning /\ UNCHANGED <<saved, pc, resumeAt>> /\ processed' \in Nat /\ processed' > processed
        /\ (col' # "recv" => sess'.off = processed' /\ sess'.phase = "scanning")
    BY <1>17, CollectEffect
  <2>2. saved.off <= processed' /\ processed' >= 1
    BY <1>1, <1>2, <2>1
  <2> QED
    BY <1>1, <1>2, <2>1, <2>2 DEF Scanning, Indexing
<1>18. CASE Worker \/ Flush \/ Cancel \/ TogglePause \/ UNCHANGED vars
  <2>1. UNCHANGED <<saved, sess, pc, resumeAt, processed>> /\ (col' # "recv" => col # "recv")
    <3>1. CASE Worker
      BY <3>1 DEF Worker, TakeJob, FinishJob
    <3>2. CASE Flush
      BY <3>2 DEF Flush
    <3>3. CASE Cancel \/ TogglePause \/ UNCHANGED vars
      BY <3>3 DEF Cancel, TogglePause, vars
    <3> QED
      BY <1>18, <3>1, <3>2, <3>3
  <2> QED
    BY <1>1, <1>2, <2>1 DEF Scanning, Indexing
<1>19. CASE SaveProgress
  <2>1. /\ col = "save" /\ col' = "recv" /\ UNCHANGED <<sess, pc, resumeAt, processed>>
        /\ saved' = sess \/ saved' = saved
    BY <1>19 DEF SaveProgress, SaveSession
  <2>2. Scanning /\ sess.off = processed /\ sess.phase = "scanning" /\ saved.off <= processed
    BY <1>1, <2>1
  <2>3. saved'.phase # "sorted"
    BY <1>1, <2>1, <2>2 DEF Scanning
  <2>4. saved'.off >= saved.off /\ saved'.off <= processed + 1
    BY <1>2, <2>1, <2>2
  <2> QED
    BY <2>1, <2>2, <2>3, <2>4 DEF Scanning, Indexing
<1> QED
  BY <1>3, <1>4, <1>5, <1>6, <1>7, <1>8, <1>9, <1>10, <1>12, <1>13, <1>14, <1>15, <1>16, <1>17, <1>18, <1>19
     DEF Next, Start, Caller, ScanRanges, Read, Index, Finish, Collector

(* The invariant at the start ...                                           *)
LEMMA ScanStateInit == Init => ScanState
<1> SUFFICES ASSUME Init PROVE ScanState
  OBVIOUS
<1> USE DEF Init
<1>1. /\ <<>> \in Seq(Job) /\ <<>> \in Seq(Result) /\ Len(<<>>) = 0
      /\ IsFiniteSet({}) /\ Cardinality({}) = 0
  BY EmptySeq, FS_EmptySet
<1>2. workers \in 1 .. 4
  BY SizesIn
<1>3. Fields
  BY InitialValues DEF Fields
<1>4. ReaderIn
  BY InitialValues DEF ReaderIn, Scanning, Stopped
<1>5. PipeIn
  BY <1>1, <1>2 DEF PipeIn, Quiet
<1>6. StoreIn
  BY DEF StoreIn
<1>7. Counted /\ OffsetIn
  BY InitialValues DEF Counted, OffsetIn, Scanning, Indexing, NoSession
<1> QED
  BY <1>3, <1>4, <1>5, <1>6, <1>7 DEF ScanState

(* ... and through every step.                                              *)
LEMMA ScanStateStep == ScanState /\ [Next]_vars => ScanState'
<1> SUFFICES ASSUME ScanState, [Next]_vars PROVE ScanState'
  OBVIOUS
<1>1. PipeIn' /\ Counted' /\ StoreIn' /\ ReaderIn'
  BY PipeStep, CountStep, StoreStep, ReaderStep
<1>2. Fields'
  BY <1>1, FieldsStep
<1>3. OffsetIn'
  BY <1>1, <1>2, OffsetStep
<1> QED
  BY <1>1, <1>2, <1>3 DEF ScanState

(* The invariant of the scan: where the reader is, what is in flight, and   *)
(* how far the session says the scan has come (deep.go:259-381).            *)
THEOREM ScanInvariant == Spec => []ScanState
<1> QED
  BY ScanStateInit, ScanStateStep, PTL DEF Spec

(* The invariant has the types and capacities.                              *)
LEMMA ScanStateTypes == ScanState => TypeOK
<1> SUFFICES ASSUME ScanState PROVE TypeOK
  OBVIOUS
<1> USE DEF ScanState
<1>1. Findable \subseteq Candidates
  BY DEF Findable
<1>2. busy \subseteq Job
  BY DEF PipeIn, Placed
<1>3. carry \in 0 .. Overlap
  BY SizesIn DEF ReaderIn
<1> QED
  BY <1>1, <1>2, <1>3 DEF Fields, ReaderIn, PipeIn, StoreIn, Counted, TypeOK

(* Types, and the capacities of the channels and of the worker pool: the    *)
(* jobs and results of scanDiskToStore never exceed what make(chan) gives   *)
(* them.                                                                    *)
THEOREM TypeCorrect == Spec => []TypeOK
<1> QED
  BY ScanInvariant, ScanStateTypes, PTL

(* What a resumed scan saves is never behind what the session had,          *)
(* though it starts one overlap before it.                                  *)
THEOREM OffsetMonotone == Spec => OffsetNeverBack
<1>1. ScanState /\ [Next]_vars => [saved'.off >= saved.off]_vars
  <2> SUFFICES ASSUME ScanState, [Next]_vars PROVE saved'.off >= saved.off
    OBVIOUS
  <2>1. Counted' /\ Fields'
    BY ScanStateStep DEF ScanState
  <2> QED
    BY <2>1, OffsetStep
<1> QED
  BY ScanInvariant, <1>1, PTL DEF Spec, OffsetNeverBack
-----------------------------------------------------------------------------
(* Where the candidates are.                                               *)
Stored == file \cup buf
InJobs(c) == \E i \in 1 .. Len(jobs) : c \in ScanChunk(jobs[i])
InBusy(c) == \E job \in busy : c \in ScanChunk(job)
InResults(c) == \E i \in 1 .. Len(results) : c \in results[i].found

(* What no chunk has had whole: it ends behind what is read, and begins in *)
(* it no further back than what is kept for the next chunk.                *)
Ahead(c) == Position(c) + c.span > Reached /\ Position(c) + carry >= Reached
Covers(off, S) == \A c \in Findable : c \in S \/ Position(c) >= StartAt(off)

(* The sessions SessionSafe and IndexComplete are about.                   *)
Good == /\ ~finished /\ "write" \notin harm
        /\ workers = 1 \/ "kill" \notin harm
InScan == pc \in {"range", "read", "drain", "close"}

AheadIn == Scanning \/ Stopped =>
             \A c \in Findable : Ahead(c) => Position(c) >= StartAt(saved.off)
CoverIn == Good =>
  /\ pc = "range" => \A c \in Findable : c \in Stored \/ Position(c) >= resumeAt
  /\ Scanning => \A c \in Findable :
       c \in Stored \/ InJobs(c) \/ InBusy(c) \/ InResults(c) \/ Ahead(c)
  /\ Stopped => \A c \in Findable : c \in Stored \/ Ahead(c)
  /\ pc = "close" /\ ~scanErr => Stored = Findable

(* With one worker the chunks come in in the order they were read: r units *)
(* of the result that waits, b of the chunk that is searched and j of the  *)
(* one in the channel lie one behind the other.                            *)
FoundR == {c \in Findable : InResults(c)}
FoundB == {c \in Findable : InBusy(c)}
InOrder(r, b, j) ==
  /\ processed + r + b + j = Reached
  /\ results = <<>> => r = 0
  /\ results # <<>> => r = results[1].new
  /\ busy = {} => b = 0
  /\ \A job \in busy : job.new = b
  /\ jobs = <<>> => j = 0
  /\ jobs # <<>> => j = jobs[1].new
  /\ Covers(processed, Stored)
  /\ Covers(processed + r, Stored \cup FoundR)
  /\ Covers(processed + r + b, Stored \cup FoundR \cup FoundB)
Serial == Good /\ workers = 1 /\ Scanning => \E r, b, j \in Nat : InOrder(r, b, j)

IndexIn == Good =>
  /\ Indexing => file = Findable
  /\ pc \in {"sorted", "extract", "completed", "remove"} => sorted = Findable
Safe == IF saved.phase = "sorted" THEN sorted = Findable /\ file = Findable
                                  ELSE Covers(saved.off, file)
SafeIn == Good /\ (workers = 1 \/ ~InScan) => Safe

CoverState == AheadIn /\ CoverIn /\ Serial /\ IndexIn /\ SafeIn

-----------------------------------------------------------------------------
(* Faults are not forgotten, and the number of workers stays.               *)
LEMMA HistoryGrows ==
  ASSUME [Next]_vars
  PROVE  harm \subseteq harm' /\ workers' = workers /\ (finished => finished')
<1> USE DEF history, user, collector, disk, store
<1>1. CASE Start \/ OpenStore \/ ScanRanges
  BY <1>1 DEF Start, StartNew, Resume, OpenStore, ScanRanges, SkipRange, EnterRange, AllScanned
<1>2. CASE Read
  BY <1>2 DEF Read, ReadChunk, CutRead, ScanCancelled, RangeRead, Drained
<1>3. CASE Index
  BY <1>3 DEF Index, CloseStore, WriteOut, ReportFailure, SaveSorting, SaveSorted, SaveThen, Sort, SortFails
<1>4. CASE Finish
  BY <1>4 DEF Finish, NoIndex, ExtractCancelled, Extract, SaveCompleted, SaveThen, RemoveFiles
<1>5. CASE Worker
  <2>1. UNCHANGED <<harm, workers, finished>>
    BY <1>5 DEF Worker, TakeJob, FinishJob
  <2> QED
    BY <2>1
<1>6. CASE Collector
  <2>1. CASE Collect
    BY <2>1 DEF Collect
  <2>2. CASE Flush
    BY <2>2 DEF Flush, WriteOut
  <2>3. CASE SaveProgress
    BY <2>3 DEF SaveProgress
  <2> QED
    BY <1>6, <2>1, <2>2, <2>3 DEF Collector
<1>7. CASE Cancel \/ TogglePause \/ Kill \/ UNCHANGED vars
  BY <1>7 DEF Cancel, TogglePause, Kill, vars
<1> QED
  BY <1>1, <1>2, <1>3, <1>4, <1>5, <1>6, <1>7 DEF Next, Caller

(* A session that is good was good.                                         *)
LEMMA GoodBefore ==
  ASSUME [Next]_vars, Good'
  PROVE  Good
BY HistoryGrows DEF Good

(* In a good session no write has failed.                                   *)
LEMMA GoodWrites ==
  ASSUME ScanState, Good
  PROVE  ~writerBad /\ ~collectErr
BY DEF ScanState, StoreIn, Good

(* The steps of a scan that goes on.                                       *)
Rests ==
  /\ UNCHANGED <<saved, file, buf, sess, rng, resumeAt, offset, carry, jobs, busy, results, processed, col>>
  /\ \/ pc' = pc /\ scanErr' = scanErr
     \/ pc = "read" /\ pc' = "drain"

(* The steps of a scan that goes on.                                        *)
LEMMA ScanCases ==
  ASSUME ScanState, [Next]_vars, InScan'
  PROVE  \/ OpenStore \/ SkipRange \/ AllScanned \/ EnterRange \/ Drained
         \/ Sends /\ Scanning /\ Scanning' /\ UNCHANGED <<saved, file, buf, sess, resumeAt>>
         \/ TakeJob \/ (\E job \in busy : FinishJob(job)) \/ Collect \/ Flush \/ SaveProgress
         \/ Rests
<1> USE DEF InScan, Goto, disk, store, plan, reader, pipe, collector, user, history
<1>1. CASE Start
  BY <1>1 DEF Start, StartNew, Resume
<1>2. CASE ReadChunk \/ CutRead
  <2>1. Sends
    BY <1>2, ReadSends
  <2> QED
    BY <1>2, <2>1 DEF ReadChunk, CutRead, Scanning
<1>3. CASE ScanCancelled \/ RangeRead
  BY <1>3 DEF ScanCancelled, RangeRead, Rests
<1>4. CASE Index
  BY <1>4 DEF Index, CloseStore, ReportFailure, SaveSorting, SaveSorted, SaveThen, Sort, SortFails, Return
<1>5. CASE Finish
  BY <1>5 DEF Finish, NoIndex, ExtractCancelled, Extract, SaveCompleted, SaveThen, RemoveFiles, Return
<1>6. CASE Cancel \/ TogglePause \/ UNCHANGED vars
  BY <1>6 DEF Cancel, TogglePause, vars, Rests
<1>7. CASE Kill
  BY <1>7 DEF Kill, Return
<1> QED
  BY <1>1, <1>2, <1>3, <1>4, <1>5, <1>6, <1>7 DEF Next, Caller, ScanRanges, Read, Worker, Collector

(* A flush that does not fail moves what is buffered to the file.           *)
LEMMA WriteOutEffect ==
  ASSUME WriteOut, ~writerBad'
  PROVE  file' = Stored /\ buf' = {} /\ Stored' = Stored
BY DEF WriteOut, Stored, store

(* In a good session the collector stores all that is in a result.          *)
LEMMA CollectStores ==
  ASSUME ScanState, Collect, Good'
  PROVE  Stored' = Stored \cup results[1].found /\ file \subseteq file'
<1>1. ~collectErr
  <2>1. Good
    BY GoodBefore DEF Next, Collector
  <2> QED
    BY <2>1, GoodWrites
<1>2. Head(results) = results[1]
  BY TailEffect DEF Collect, Receives, ScanState, PipeIn
<1>3. "write" \notin harm'
  BY DEF Good
<1> QED
  BY <1>1, <1>2, <1>3 DEF Collect, AppendFound, Stored

(* A candidate that is still ahead lies where a scan resumed from an       *)
(* offset that was reached looks again.                                    *)
LEMMA AheadSafe ==
  ASSUME ScanState, Scanning \/ Stopped, NEW c \in Findable, Ahead(c), NEW off \in Nat, off <= Reached
  PROVE  Position(c) >= StartAt(off)
<1>1. /\ rng \in 1 .. Len(Ranges) /\ offset <= Ranges[rng].size /\ carry \in 0 .. 1
      /\ carry # 0 => offset >= Sector \/ offset = Ranges[rng].size
  BY DEF ScanState, ReaderIn
<1>2. /\ Reached \in Nat /\ Before[rng] \in Nat /\ offset \in Nat /\ Reached = Before[rng] + offset
  BY CountIn DEF Reached
<1>3. Position(c) \in Nat /\ c.span \in 1 .. 2
  BY PositionIn, CandidateIn
<1>4. /\ Before[rng + 1] = Before[rng] + Ranges[rng].size /\ Ranges[rng].size \in Nat
      /\ Position(c) + c.span <= Before[rng + 1] \/ Position(c) >= Before[rng + 1]
  BY <1>1, BeforeStep, RangesIn, PositionPlaces
<1>5. Position(c) + c.span > Reached /\ Position(c) + carry >= Reached
  BY DEF Ahead
<1>6. CASE off > 1
  <2>1. StartAt(off) = off - 1
    BY <1>6, SizesIn DEF StartAt
  <2> QED
    BY <1>1, <1>2, <1>3, <1>5, <2>1
<1>7. CASE off = 0
  <2>1. StartAt(off) = 0
    BY <1>7, SizesIn DEF StartAt
  <2> QED
    BY <1>3, <2>1
<1>8. CASE off = 1
  <2>1. StartAt(off) = 1
    BY <1>8, SizesIn DEF StartAt
  <2>2. CASE carry = 0 \/ Reached >= 2
    BY <1>1, <1>2, <1>3, <1>5, <1>8, <2>1, <2>2
  <2>3. CASE carry # 0 /\ Reached < 2
    <3>1. Reached = 1
      BY <1>2, <1>8, <2>3
    <3>2. carry <= offset /\ carry = 1
      BY <1>1, <2>3 DEF ScanState, ReaderIn
    <3>3. Before[rng] = 0 /\ offset = 1
      BY <1>2, <3>1, <3>2
    <3>4. Ranges[rng].size = 1
      BY <1>1, <1>4, <2>3, <3>3, SizesIn
    <3>5. Before[rng + 1] = 1
      BY <1>4, <3>3, <3>4
    <3> QED
      BY <1>3, <1>4, <1>5, <2>1, <3>1, <3>5
  <2> QED
    BY <1>2, <2>2, <2>3
<1> QED
  BY <1>6, <1>7, <1>8

(* What is ahead of the reader is ahead of the saved session.               *)
LEMMA AheadStep ==
  ASSUME ScanState, AheadIn, [Next]_vars, ScanState'
  PROVE  AheadIn'
<1> USE DEF InScan
<1>0. CASE ~(Scanning \/ Stopped)'
  BY <1>0 DEF AheadIn
<1> SUFFICES ASSUME (Scanning \/ Stopped)', NEW c \in Findable, Ahead(c)'
             PROVE  Position(c) >= StartAt(saved'.off)
  BY <1>0 DEF AheadIn
<1>a. InScan' /\ Position(c) \in Nat /\ c.span \in 1 .. 2
  BY PositionIn, CandidateIn DEF Scanning, Stopped
<1>b. ASSUME (Scanning \/ Stopped), UNCHANGED <<saved, rng, offset, carry>>
      PROVE  Position(c) >= StartAt(saved'.off)
  BY <1>b DEF AheadIn, Ahead, Reached
<1>1. CASE OpenStore \/ SkipRange \/ AllScanned
  BY <1>1 DEF OpenStore, SkipRange, AllScanned, Goto, Scanning, Stopped, ScanState, ReaderIn
<1>2. CASE EnterRange
  <2>1. saved' = saved /\ carry' = 0 /\ Reached' = resumeAt /\ resumeAt \in Nat /\ pc = "range"
    BY <1>2, EnterEffect
  <2>2. StartAt(saved.off) <= resumeAt /\ StartAt(saved.off) \in Nat
    <3>1. saved.off \in Units
      BY DEF ScanState, Fields, Session
    <3> QED
      BY <2>1, <3>1, StartAtIn, TotalIn DEF ScanState, OffsetIn, Units
  <2> QED
    BY <1>a, <2>1, <2>2 DEF Ahead
<1>3. CASE Drained
  BY <1>b, <1>3, DrainedEffect DEF Scanning, Stopped
<1>4. CASE Sends /\ Scanning /\ UNCHANGED <<saved, file, buf, sess, resumeAt>>
  <2>1. PICK n \in 1 .. ToRead : Send(n)
    BY <1>4 DEF Sends
  <2>2. workers' = workers
    BY HistoryGrows
  <2>3. n \in Nat /\ n >= 1 /\ offset' = offset + n /\ carry' = 1 /\ rng' = rng
    <3>1. UNCHANGED <<rng, busy, workers>> /\ pc = "read" /\ offset < Ranges[rng].size /\ Len(jobs) < workers
      BY <1>4, <2>2 DEF Sends
    <3>2. n \in 1 .. Chunk /\ offset' = offset + n /\ carry' = 1
      BY <2>1, <3>1, SendEffect
    <3> QED
      BY <3>1, <3>2, SizesIn
  <2>4. Reached' = Reached + n /\ Reached \in Nat
    <3>1. Before[rng] \in Nat /\ offset \in Nat /\ Reached \in Nat
      BY <1>4, CountIn
    <3> QED
      BY <2>3, <3>1 DEF Reached
  <2>5. carry \in Nat
    BY DEF ScanState, ReaderIn
  <2>6. Ahead(c)
    BY <1>a, <2>3, <2>4, <2>5 DEF Ahead
  <2> QED
    BY <1>4, <2>6 DEF AheadIn
<1>5. CASE SaveProgress
  <2>1. /\ col = "save" /\ UNCHANGED <<rng, offset, carry, pc, scanErr>>
        /\ saved' = sess \/ saved' = saved
    BY <1>5 DEF SaveProgress, SaveSession, plan, reader
  <2>2. Scanning /\ sess.off = processed
    BY <2>1 DEF ScanState, PipeIn, Quiet, OffsetIn
  <2>3. Ahead(c)
    BY <2>1 DEF Ahead, Reached
  <2>4. processed \in Nat /\ processed <= Reached
    BY <2>2, CountIn, CountBound
  <2>5. CASE saved' = sess
    BY <2>2, <2>3, <2>4, <2>5, AheadSafe
  <2>6. CASE saved' = saved
    BY <2>2, <2>3, <2>6 DEF AheadIn
  <2> QED
    BY <2>1, <2>5, <2>6
<1>6. CASE TakeJob \/ (\E job \in busy : FinishJob(job)) \/ Collect \/ Flush
  <2>1. UNCHANGED <<saved, rng, offset, carry, pc, scanErr>>
    BY <1>6 DEF TakeJob, FinishJob, Collect, Flush, disk, plan, reader
  <2> QED
    BY <1>b, <2>1 DEF Scanning, Stopped
<1>7. CASE Rests
  <2>1. UNCHANGED <<saved, rng, offset, carry>> /\ (Scanning \/ Stopped)
    BY <1>7 DEF Rests, Scanning, Stopped
  <2> QED
    BY <1>b, <2>1
<1> QED
  BY <1>a, <1>1, <1>2, <1>3, <1>4, <1>5, <1>6, <1>7, ScanCases

(* A worker takes the first chunk of the channel.                           *)
LEMMA TakeEffect ==
  ASSUME ScanState, TakeJob
  PROVE  /\ Scanning /\ jobs # <<>> /\ busy' = busy \cup {jobs[1]}
         /\ Len(jobs) \in Nat /\ Len(jobs) >= 1 /\ Len(jobs') = Len(jobs) - 1
         /\ \A i \in 1 .. Len(jobs') : jobs'[i] = jobs[i + 1]
         /\ jobs' = Tail(jobs)
         /\ UNCHANGED <<results, processed, rng, offset, carry, pc, scanErr, file, buf, saved>>
<1>1. jobs \in Seq(Job) /\ jobs # <<>> /\ Scanning
  BY DEF ScanState, PipeIn, Quiet, TakeJob
<1> QED
  BY <1>1, TailEffect DEF TakeJob, plan, reader, collector, disk, store

(* A worker hands in what it found in its chunk.                            *)
LEMMA FinishEffect ==
  ASSUME ScanState, NEW job \in busy, FinishJob(job)
  PROVE  /\ Scanning /\ busy' = busy \ {job} /\ Len(results) < workers
         /\ Len(results) \in Nat /\ Len(results') = Len(results) + 1
         /\ \A i \in 1 .. Len(results) : results'[i] = results[i]
         /\ results'[Len(results) + 1].new = job.new
         /\ results'[Len(results) + 1].found = ScanChunk(job)
         /\ results' # <<>> /\ results \in Seq(Result)
         /\ UNCHANGED <<jobs, processed, rng, offset, carry, pc, scanErr, file, buf, saved>>
<1>1. Scanning /\ results \in Seq(Result) /\ Placed(job)
  BY DEF ScanState, PipeIn, Quiet
<1>2. [found |-> ScanChunk(job), new |-> job.new] \in Result
  <2>1. job.new \in 1 .. Chunk
    BY <1>1 DEF Placed, Job
  <2>2. ScanChunk(job) \subseteq Findable
    BY <1>1, PlacedFinds
  <2> QED
    BY <2>1, <2>2 DEF Result
<1>3. /\ busy' = busy \ {job} /\ Len(results) < workers
      /\ results' = Append(results, [found |-> ScanChunk(job), new |-> job.new])
      /\ UNCHANGED <<jobs, processed, rng, offset, carry, pc, scanErr, file, buf, saved>>
  BY DEF FinishJob, plan, reader, collector, disk, store
<1>4. /\ Len(results) \in Nat /\ Len(results') = Len(results) + 1
      /\ \A i \in 1 .. Len(results) : results'[i] = results[i]
      /\ results'[Len(results) + 1] = [found |-> ScanChunk(job), new |-> job.new]
  BY <1>1, <1>2, <1>3, AppendEffect
<1>5. results' # <<>>
  BY <1>4, EmptySeq
<1> QED
  BY <1>1, <1>3, <1>4, <1>5

(* A chunk that is sent takes what it has whole of what was ahead.         *)
LEMMA SendCovers ==
  ASSUME ScanState, Sends, Scanning, workers' = workers, NEW c \in Findable, Ahead(c)
  PROVE  Ahead(c)' \/ InJobs(c)'
<1>1. PICK n \in 1 .. ToRead : Send(n)
  BY DEF Sends
<1>2. UNCHANGED <<rng, busy, workers>> /\ pc = "read" /\ offset < Ranges[rng].size /\ Len(jobs) < workers
  BY DEF Sends
<1>3. PICK job \in Job :
        /\ job.base = Ranges[rng].start + offset - carry /\ JobEnd(job) = Ranges[rng].start + offset + n
        /\ Len(jobs') = Len(jobs) + 1 /\ jobs'[Len(jobs) + 1] = job
  BY <1>1, <1>2, SendEffect
<1>4. /\ n \in Nat /\ n >= 1 /\ offset + n <= Ranges[rng].size /\ offset' = offset + n /\ carry' = 1
  <2>1. n \in 1 .. Chunk /\ offset + n <= Ranges[rng].size /\ offset' = offset + n /\ carry' = 1
    BY <1>1, <1>2, SendEffect
  <2> QED
    BY <2>1, SizesIn
<1>5. /\ rng \in 1 .. Len(Ranges) /\ carry \in 0 .. 1 /\ carry <= offset /\ offset \in Nat
      /\ Before[rng] \in Nat /\ Reached = Before[rng] + offset /\ Len(jobs) \in Nat
  BY CountIn DEF ScanState, ReaderIn, Reached
<1>6. /\ Before[rng + 1] = Before[rng] + Ranges[rng].size /\ Ranges[rng].size \in Nat /\ Ranges[rng].start \in Nat
  BY <1>5, BeforeStep, RangesIn
<1>7. Position(c) \in Nat /\ c.span \in 1 .. 2 /\ c.at \in Nat /\ c \in Candidates
  BY PositionIn, CandidateIn DEF Findable
<1>8. Reached' = Reached + n
  BY <1>2, <1>4, <1>5 DEF Reached
<1>9. Position(c) + c.span > Reached /\ Position(c) + carry >= Reached
  BY DEF Ahead
<1>10. PICK p \in Nat, s \in Nat, k \in Nat, o \in Nat, b \in Nat, z \in Nat, t \in Nat, m \in Nat :
         /\ p = Position(c) /\ s = c.span /\ k = carry /\ o = offset /\ b = Before[rng]
         /\ z = Ranges[rng].size /\ t = Ranges[rng].start /\ m = n
  <2>1. c.span \in Nat /\ carry \in Nat
    BY <1>5, <1>7
  <2> QED
    BY <1>4, <1>5, <1>6, <1>7, <2>1
<1>11. /\ p + s > b + o /\ p + k >= b + o /\ k <= o /\ k <= 1 /\ s <= 2
       /\ o + m <= z /\ m >= 1
  <2>1. p + s > b + o /\ p + k >= b + o
    BY <1>5, <1>9, <1>10
  <2>2. k <= o /\ k <= 1
    BY <1>5, <1>10
  <2>4. s <= 2
    BY <1>7, <1>10
  <2>3. o + m <= z /\ m >= 1
    BY <1>4, <1>10
  <2> QED
    BY <2>1, <2>2, <2>3, <2>4
<1>12. b <= p
  BY ONLY <1>11
<1>13. CASE p + s <= b + o + m
  <2>1. p + s <= b + z
    BY ONLY <1>11, <1>13
  <2>2. c.at = t + p - b
    <3>1. Before[rng] <= Position(c)
      BY <1>10, <1>12
    <3>2. Position(c) + c.span <= Before[rng + 1]
      BY <1>6, <1>10, <2>1
    <3> QED
      BY <1>5, <1>10, <3>1, <3>2, PositionPlaces
  <2>3. t + o - k <= t + p - b
    BY ONLY <1>11
  <2>4. (t + p - b) + s <= t + o + m
    BY ONLY <1>13
  <2>5. job.base <= c.at
    BY <1>3, <1>10, <2>2, <2>3
  <2>6. c.at + c.span <= job.base + job.len
    BY <1>3, <1>10, <2>2, <2>4 DEF JobEnd
  <2>7. c \in ScanChunk(job)
    BY <1>7, <2>5, <2>6 DEF ScanChunk
  <2>8. Len(jobs) + 1 \in 1 .. Len(jobs')
    BY <1>3, <1>5
  <2>9. c \in ScanChunk(jobs'[Len(jobs) + 1])
    BY <1>3, <2>7
  <2> QED
    BY <2>8, <2>9 DEF InJobs, ScanChunk
<1>14. CASE ~(p + s <= b + o + m)
  <2>1. p + s > (b + o) + m /\ p + 1 >= (b + o) + m
    BY ONLY <1>11, <1>14
  <2>2. Reached' = (b + o) + m
    BY <1>5, <1>8, <1>10
  <2> QED
    BY <1>4, <1>10, <2>1, <2>2 DEF Ahead
<1> QED
  BY <1>13, <1>14

(* A chunk that is sent takes the place of no other.                        *)
LEMMA SendKeepsJobs ==
  ASSUME ScanState, Sends, Scanning, workers' = workers, NEW c, InJobs(c)
  PROVE  InJobs(c)'
<1>1. PICK n \in 1 .. ToRead : Send(n)
  BY DEF Sends
<1>2. UNCHANGED <<rng, busy, workers>> /\ pc = "read" /\ offset < Ranges[rng].size /\ Len(jobs) < workers
  BY DEF Sends
<1>3. Len(jobs') = Len(jobs) + 1 /\ \A i \in 1 .. Len(jobs) : jobs'[i] = jobs[i]
  BY <1>1, <1>2, SendEffect
<1>4. PICK i \in 1 .. Len(jobs) : c \in ScanChunk(jobs[i])
  BY DEF InJobs
<1>5. Len(jobs) \in Nat
  BY CountIn
<1>6. i \in 1 .. Len(jobs') /\ jobs'[i] = jobs[i]
  BY <1>3, <1>5
<1> QED
  BY <1>4, <1>6 DEF InJobs, ScanChunk

(* No candidate gets lost between the ranges, the reader, the channels,     *)
(* the workers and the store.                                               *)
LEMMA CoverStep ==
  ASSUME ScanState, AheadIn, CoverIn, SafeIn, [Next]_vars, ScanState'
  PROVE  CoverIn'
<1> SUFFICES ASSUME Good' PROVE CoverIn'
  BY DEF CoverIn
<1>a. Good /\ workers' = workers /\ ~writerBad /\ ~collectErr /\ ~writerBad'
  <2>1. Good
    BY GoodBefore
  <2>2. ~writerBad'
    BY DEF Good, ScanState, StoreIn
  <2> QED
    BY <2>1, <2>2, GoodWrites, HistoryGrows
<1>0. CASE ~InScan'
  BY <1>0 DEF CoverIn, InScan, Scanning, Stopped
<1>b. \A c \in Findable : Position(c) \in Nat /\ c.span \in Nat /\ c.span >= 1
  BY PositionIn, CandidateIn
<1>1. CASE OpenStore
  <2>1. /\ pc = "store" /\ pc' = "range" /\ buf' = buf /\ saved' = saved
        /\ file' = (IF sess.off > 0 THEN file ELSE {}) /\ resumeAt' = StartAt(sess.off)
    BY <1>1 DEF OpenStore, Goto, store
  <2>2. sess = saved /\ saved.phase # "sorted" /\ saved.off \in Nat
    BY <2>1, TotalIn DEF ScanState, OffsetIn, Fields, Session, Units
  <2>3. Covers(saved.off, file)
    BY <1>a, <2>1, <2>2 DEF SafeIn, Safe, InScan
  <2>4. saved.off = 0 => resumeAt' = 0
    BY <2>1, <2>2, SizesIn DEF StartAt
  <2>5. \A c \in Findable : c \in Stored' \/ Position(c) >= resumeAt'
    <3> TAKE c \in Findable
    <3>1. CASE saved.off = 0
      BY <1>b, <2>4, <3>1
    <3>2. CASE saved.off # 0
      BY <2>1, <2>2, <2>3, <3>2 DEF Covers, Stored
    <3> QED
      BY <3>1, <3>2
  <2> QED
    BY <2>1, <2>5 DEF CoverIn, Scanning, Stopped
<1>2. CASE SkipRange
  <2>1. pc = "range" /\ pc' = "range" /\ UNCHANGED <<file, buf, resumeAt>>
    BY <1>2 DEF SkipRange, disk, store
  <2>2. \A c \in Findable : c \in Stored' \/ Position(c) >= resumeAt'
    BY <1>a, <2>1 DEF CoverIn, Stored
  <2> QED
    BY <2>1, <2>2 DEF CoverIn, Scanning, Stopped
<1>3. CASE AllScanned
  <2>1. pc = "range" /\ pc' = "close" /\ UNCHANGED <<file, buf, resumeAt, rng, scanErr>> /\ rng > Len(Ranges)
    BY <1>3 DEF AllScanned, disk, store, plan, Goto
  <2>2. ~scanErr /\ rng = Len(Ranges) + 1
    BY <2>1, RangesIn DEF ScanState, ReaderIn, Fields
  <2>3. Total <= resumeAt /\ resumeAt \in Nat /\ Total \in Nat
    BY <2>1, <2>2, TotalIn DEF ScanState, ReaderIn, Fields, Units, Total
  <2>4. ASSUME NEW c \in Findable PROVE ~(Position(c) >= resumeAt)
    <3>1. PICK r \in 1 .. Len(Ranges) : Position(c) + c.span <= Before[r + 1]
      BY PositionIn
    <3>2. Before[r + 1] <= Total /\ Before[r + 1] \in Nat
      <4>1. r + 1 \in 1 .. Len(Ranges) + 1
        BY <3>1, RangesIn
      <4> QED
        BY <4>1, TotalIn
    <3>3. Position(c) \in Nat /\ c.span \in Nat /\ c.span >= 1
      BY <1>b
    <3> QED
      BY ONLY <2>3, <3>1, <3>2, <3>3
  <2>5. \A c \in Findable : c \in Stored
    BY <1>a, <2>1, <2>4 DEF CoverIn
  <2>6. Stored \subseteq Findable
    BY DEF ScanState, StoreIn, Stored
  <2>7. Stored' = Findable
    BY <2>1, <2>5, <2>6 DEF Stored
  <2> QED
    BY <2>1, <2>2, <2>7 DEF CoverIn, Scanning, Stopped
<1>4. CASE EnterRange
  <2>1. pc = "range" /\ pc' = "read" /\ UNCHANGED <<file, buf>> /\ carry' = 0 /\ Reached' = resumeAt /\ resumeAt \in Nat
    BY <1>4, EnterEffect
  <2>2. ASSUME NEW c \in Findable PROVE c \in Stored' \/ Ahead(c)'
    <3>1. c \in Stored \/ Position(c) >= resumeAt
      BY <1>a, <2>1 DEF CoverIn
    <3>2. CASE Position(c) >= resumeAt
      <4>1. Position(c) + c.span > resumeAt /\ Position(c) + 0 >= resumeAt
        BY <1>b, <2>1, <3>2
      <4> QED
        BY <2>1, <4>1 DEF Ahead
    <3> QED
      BY <2>1, <3>1, <3>2 DEF Stored
  <2> QED
    BY <2>1, <2>2 DEF CoverIn, Scanning, Stopped
<1>5. CASE Drained
  <2>1. /\ Scanning /\ Quiet /\ UNCHANGED <<file, buf, offset, carry>>
        /\ processed = Reached /\ rng \in 1 .. Len(Ranges)
    BY <1>5, DrainedEffect
  <2>2. \A c \in Findable : c \in Stored \/ Ahead(c)
    <3>1. \A c : ~InJobs(c) /\ ~InBusy(c) /\ ~InResults(c)
      <4>1. Len(jobs) = 0 /\ Len(results) = 0
        BY <2>1, EmptySeq DEF Quiet
      <4> QED
        BY <2>1, <4>1 DEF Quiet, InJobs, InBusy, InResults
    <3> QED
      BY <1>a, <2>1, <3>1 DEF CoverIn
  <2>3. CASE scanErr \/ collectErr
    <3>1. rng' = rng /\ pc' = "close" /\ scanErr'
      BY <1>5, <2>3, DrainedEffect
    <3>2. \A c \in Findable : c \in Stored' \/ Ahead(c)'
      BY <2>1, <2>2, <3>1 DEF Stored, Ahead, Reached
    <3> QED
      BY <3>1, <3>2 DEF CoverIn, Scanning, Stopped
  <2>4. CASE ~scanErr /\ ~collectErr
    <3>1. Reached = Before[rng + 1] /\ resumeAt' = Reached /\ pc' = "range"
      BY <1>5, <2>1, <2>4, DrainedEffect
    <3>2. ASSUME NEW c \in Findable PROVE c \in Stored' \/ Position(c) >= resumeAt'
      <4>1. CASE Ahead(c)
        <5>1. Position(c) + c.span > Before[rng + 1]
          BY <3>1, <4>1 DEF Ahead
        <5>2. Position(c) + c.span <= Before[rng + 1] \/ Position(c) >= Before[rng + 1]
          BY <2>1, PositionPlaces
        <5>3. Before[rng + 1] \in Nat
          BY <2>1, <3>1, CountIn
        <5> QED
          BY <1>b, <3>1, <5>1, <5>2, <5>3
      <4> QED
        BY <2>1, <2>2, <4>1 DEF Stored
    <3> QED
      BY <3>1, <3>2 DEF CoverIn, Scanning, Stopped
  <2> QED
    BY <2>3, <2>4
<1>c. ASSUME Scanning, Scanning', \A c \in Findable :
               /\ c \in Stored => c \in Stored'
               /\ InJobs(c) => InJobs(c)' \/ InBusy(c)'
               /\ InBusy(c) => InBusy(c)' \/ InResults(c)'
               /\ InResults(c) => InResults(c)' \/ c \in Stored'
               /\ Ahead(c) => Ahead(c)' \/ InJobs(c)'
      PROVE  CoverIn'
  <2>1. \A c \in Findable : c \in Stored \/ InJobs(c) \/ InBusy(c) \/ InResults(c) \/ Ahead(c)
    BY <1>a, <1>c DEF CoverIn
  <2>2. \A c \in Findable : c \in Stored' \/ InJobs(c)' \/ InBusy(c)' \/ InResults(c)' \/ Ahead(c)'
    BY <2>1, <1>c
  <2>3. pc' # "range" /\ pc' # "close" /\ ~Stopped'
    BY <1>c DEF Scanning, Stopped
  <2> QED
    BY <2>2, <2>3 DEF CoverIn
<1>6. CASE Sends /\ Scanning /\ Scanning' /\ UNCHANGED <<saved, file, buf, sess, resumeAt>>
  <2>1. UNCHANGED <<file, buf, busy, results>>
    BY <1>6 DEF Sends
  <2>2. \A c \in Findable : Ahead(c) => Ahead(c)' \/ InJobs(c)'
    BY <1>6, <1>a, SendCovers
  <2>3. \A c \in Findable : InJobs(c) => InJobs(c)'
    BY <1>6, <1>a, SendKeepsJobs
  <2>4. \A c \in Findable : /\ (c \in Stored => c \in Stored') /\ (InBusy(c) => InBusy(c)')
                            /\ InResults(c) => InResults(c)'
    BY <2>1 DEF Stored, InBusy, InResults, ScanChunk
  <2> QED
    BY <1>6, <1>c, <2>2, <2>3, <2>4
<1>7. CASE TakeJob
  <2>1. /\ Scanning /\ jobs # <<>> /\ busy' = busy \cup {jobs[1]}
        /\ Len(jobs) \in Nat /\ Len(jobs) >= 1 /\ Len(jobs') = Len(jobs) - 1
        /\ \A i \in 1 .. Len(jobs') : jobs'[i] = jobs[i + 1]
        /\ UNCHANGED <<results, rng, offset, carry, pc, file, buf>>
    BY <1>7, TakeEffect
  <2>2. ASSUME NEW c \in Findable, InJobs(c) PROVE InJobs(c)' \/ InBusy(c)'
    <3>1. PICK i \in 1 .. Len(jobs) : c \in ScanChunk(jobs[i])
      BY <2>2 DEF InJobs
    <3>2. CASE i = 1
      BY <2>1, <3>1, <3>2 DEF InBusy, ScanChunk
    <3>3. CASE i # 1
      <4>1. i - 1 \in 1 .. Len(jobs') /\ jobs'[i - 1] = jobs[i]
        <5>1. i - 1 \in 1 .. Len(jobs') /\ (i - 1) + 1 = i
          BY <2>1, <3>3
        <5> QED
          BY <2>1, <5>1
      <4>2. c \in ScanChunk(jobs'[i - 1])
        BY <3>1, <4>1
      <4> QED
        BY <4>1, <4>2 DEF InJobs, ScanChunk
    <3> QED
      BY <3>2, <3>3
  <2>3. \A c \in Findable : /\ (c \in Stored => c \in Stored') /\ (InBusy(c) => InBusy(c)')
                            /\ (InResults(c) => InResults(c)') /\ (Ahead(c) => Ahead(c)')
    <3>1. \A c \in Findable : InBusy(c) => InBusy(c)'
      BY <2>1 DEF InBusy, ScanChunk
    <3>2. \A c \in Findable : (c \in Stored => c \in Stored') /\ (InResults(c) => InResults(c)')
      BY <2>1 DEF Stored, InResults
    <3>3. \A c \in Findable : Ahead(c) => Ahead(c)'
      BY <2>1 DEF Ahead, Reached
    <3> QED
      BY <3>1, <3>2, <3>3
  <2>4. Scanning'
    BY <2>1 DEF Scanning
  <2> QED
    BY <1>c, <2>1, <2>2, <2>3, <2>4
<1>8. ASSUME NEW job \in busy, FinishJob(job) PROVE CoverIn'
  <2>1. /\ Scanning /\ busy' = busy \ {job} /\ Len(results) \in Nat /\ Len(results') = Len(results) + 1
        /\ \A i \in 1 .. Len(results) : results'[i] = results[i]
        /\ results'[Len(results) + 1].found = ScanChunk(job)
        /\ UNCHANGED <<jobs, rng, offset, carry, pc, file, buf>>
    BY <1>8, FinishEffect
  <2>2. ASSUME NEW c \in Findable, InBusy(c) PROVE InBusy(c)' \/ InResults(c)'
    <3>1. PICK other \in busy : c \in ScanChunk(other)
      BY <2>2 DEF InBusy
    <3>2. CASE other = job
      <4>1. Len(results) + 1 \in 1 .. Len(results')
        BY <2>1
      <4> QED
        BY <2>1, <3>1, <3>2, <4>1 DEF InResults
    <3>3. CASE other # job
      BY <2>1, <3>1, <3>3 DEF InBusy, ScanChunk
    <3> QED
      BY <3>2, <3>3
  <2>3. ASSUME NEW c \in Findable, InResults(c) PROVE InResults(c)'
    <3>1. PICK i \in 1 .. Len(results) : c \in results[i].found
      BY <2>3 DEF InResults
    <3>2. i \in 1 .. Len(results') /\ results'[i] = results[i]
      BY <2>1
    <3> QED
      BY <3>1, <3>2 DEF InResults
  <2>4. \A c \in Findable : /\ (c \in Stored => c \in Stored') /\ (InJobs(c) => InJobs(c)')
                            /\ Ahead(c) => Ahead(c)'
    <3>1. \A c \in Findable : (c \in Stored => c \in Stored') /\ (InJobs(c) => InJobs(c)')
      BY <2>1 DEF Stored, InJobs, ScanChunk
    <3>2. \A c \in Findable : Ahead(c) => Ahead(c)'
      BY <2>1 DEF Ahead, Reached
    <3> QED
      BY <3>1, <3>2
  <2>5. Scanning'
    BY <2>1 DEF Scanning
  <2> QED
    BY <1>c, <2>1, <2>2, <2>3, <2>4, <2>5
<1>9. CASE Collect
  <2>1. /\ Scanning /\ results # <<>> /\ results' = Tail(results)
        /\ UNCHANGED <<jobs, busy, rng, offset, carry, pc>>
    BY <1>9, CollectEffect
  <2>2. Stored' = Stored \cup results[1].found
    BY <1>9, CollectStores
  <2>3. /\ Len(results) \in Nat /\ Len(results) >= 1 /\ Len(results') = Len(results) - 1
        /\ \A i \in 1 .. Len(results') : results'[i] = results[i + 1]
    BY <2>1, TailEffect DEF ScanState, PipeIn
  <2>4. ASSUME NEW c \in Findable, InResults(c) PROVE InResults(c)' \/ c \in Stored'
    <3>1. PICK i \in 1 .. Len(results) : c \in results[i].found
      BY <2>4 DEF InResults
    <3>2. CASE i = 1
      BY <2>2, <3>1, <3>2
    <3>3. CASE i # 1
      <4>1. i - 1 \in 1 .. Len(results') /\ (i - 1) + 1 = i
        BY <2>3, <3>3
      <4>2. results'[i - 1] = results[i]
        BY <2>3, <4>1
      <4> QED
        BY <3>1, <4>1, <4>2 DEF InResults
    <3> QED
      BY <3>2, <3>3
  <2>5. \A c \in Findable : /\ c \in Stored => c \in Stored'
                            /\ (InJobs(c) => InJobs(c)') /\ (InBusy(c) => InBusy(c)')
    BY <2>1, <2>2 DEF InJobs, InBusy, ScanChunk
  <2>6. \A c \in Findable : Ahead(c) => Ahead(c)'
    BY <2>1 DEF Ahead, Reached
  <2>7. Scanning'
    BY <2>1 DEF Scanning
  <2> QED
    BY <1>c, <2>1, <2>4, <2>5, <2>6, <2>7
<1>d. ASSUME Stored' = Stored, UNCHANGED <<rng, resumeAt, offset, carry, jobs, busy, results>>,
             (pc' = pc /\ scanErr' = scanErr) \/ (pc = "read" /\ pc' = "drain")
      PROVE  CoverIn'
  <2>1. \A c \in Findable : /\ Ahead(c)' <=> Ahead(c)
    BY <1>d DEF Ahead, Reached
  <2>2. \A c \in Findable : (InJobs(c)' <=> InJobs(c)) /\ (InBusy(c)' <=> InBusy(c))
    BY <1>d DEF InJobs, InBusy, ScanChunk
  <2>3. \A c \in Findable : InResults(c)' <=> InResults(c)
    BY <1>d DEF InResults
  <2>4. CASE Scanning
    <3>1. Scanning'
      BY <1>d, <2>4 DEF Scanning
    <3> QED
      BY <1>c, <1>d, <2>1, <2>2, <2>3, <2>4, <3>1
  <2>5. CASE ~Scanning
    <3>1. pc' = pc /\ scanErr' = scanErr /\ ~Scanning' /\ (Stopped' <=> Stopped)
      BY <1>d, <2>5 DEF Scanning, Stopped
    <3>2. pc' = "range" => \A c \in Findable : c \in Stored' \/ Position(c) >= resumeAt'
      BY <1>a, <1>d, <3>1 DEF CoverIn
    <3>3. Stopped' => \A c \in Findable : c \in Stored' \/ Ahead(c)'
      BY <1>a, <1>d, <2>1, <3>1 DEF CoverIn
    <3>4. pc' = "close" /\ ~scanErr' => Stored' = Findable
      BY <1>a, <1>d, <3>1 DEF CoverIn
    <3> QED
      BY <3>1, <3>2, <3>3, <3>4 DEF CoverIn
  <2> QED
    BY <2>4, <2>5
<1>10. CASE Flush
  <2>1. Stored' = Stored
    BY <1>10, <1>a, WriteOutEffect DEF Flush
  <2>2. UNCHANGED <<rng, resumeAt, offset, carry, jobs, busy, results, pc, scanErr>>
    BY <1>10 DEF Flush, plan, reader, pipe
  <2> QED
    BY <1>d, <2>1, <2>2
<1>11. CASE SaveProgress
  <2>1. UNCHANGED <<file, buf, rng, resumeAt, offset, carry, jobs, busy, results, pc, scanErr>>
    BY <1>11 DEF SaveProgress, plan, reader, pipe, store
  <2> QED
    BY <1>d, <2>1 DEF Stored
<1>12. CASE Rests
  <2>1. Stored' = Stored
    BY <1>12 DEF Rests, Stored
  <2> QED
    BY <1>d, <1>12, <2>1 DEF Rests
<1> QED
  BY <1>0, <1>1, <1>2, <1>3, <1>4, <1>5, <1>6, <1>7, <1>8, <1>9, <1>10, <1>11, <1>12, ScanCases

(* Everything up to where the reader is was stored, is in flight or will   *)
(* be looked at again.                                                     *)
LEMMA ReachedCovered ==
  ASSUME ScanState, CoverIn, Good, Scanning, NEW S,
         \A c \in Findable : c \in Stored \/ InJobs(c) \/ InBusy(c) \/ InResults(c) => c \in S
  PROVE  Covers(Reached, S)
<1>1. Reached \in Nat
  BY CountIn
<1>2. ASSUME NEW c \in Findable PROVE c \in S \/ Position(c) >= StartAt(Reached)
  <2>1. CASE Ahead(c)
    BY <1>1, <2>1, AheadSafe
  <2> QED
    BY <2>1 DEF CoverIn
<1> QED
  BY <1>2 DEF Covers

(* With one worker there is at most one chunk in each place.                *)
LEMMA OneWorker ==
  ASSUME ScanState, workers = 1
  PROVE  /\ \A a \in busy, b \in busy : a = b
         /\ busy # {} => ~(Cardinality(busy) < workers)
         /\ jobs # <<>> => Len(jobs) = 1
         /\ results # <<>> => Len(results) = 1
<1>1. /\ IsFiniteSet(busy) /\ Cardinality(busy) <= 1 /\ Cardinality(busy) \in Nat
      /\ jobs \in Seq(Job) /\ Len(jobs) <= 1 /\ results \in Seq(Result) /\ Len(results) <= 1
  BY FS_CardinalityType DEF ScanState, PipeIn
<1>2. busy # {} => Cardinality(busy) = 1
  BY <1>1, FS_EmptySet
<1>3. ASSUME NEW a \in busy, NEW b \in busy PROVE a = b
  <2>1. Cardinality(busy) = 1
    BY <1>2
  <2>2. PICK x : busy = {x}
    BY <1>1, <2>1, FS_Singleton
  <2> QED
    BY <2>2
<1>4. (jobs # <<>> => Len(jobs) = 1) /\ (results # <<>> => Len(results) = 1)
  <2>1. Len(jobs) \in Nat /\ Len(results) \in Nat
    BY <1>1, LenProperties
  <2>2. (jobs # <<>> => Len(jobs) # 0) /\ (results # <<>> => Len(results) # 0)
    BY <1>1, EmptySeq
  <2>3. Len(jobs) <= 1 /\ Len(results) <= 1
    BY <1>1
  <2>4. ASSUME jobs # <<>> PROVE Len(jobs) = 1
    <3>1. PICK k \in Nat : k = Len(jobs)
      BY <2>1
    <3>2. k # 0 /\ k <= 1
      BY <2>2, <2>3, <2>4, <3>1
    <3>3. k = 1
      BY ONLY <3>2
    <3> QED
      BY <3>1, <3>3
  <2>5. ASSUME results # <<>> PROVE Len(results) = 1
    <3>1. PICK k \in Nat : k = Len(results)
      BY <2>1
    <3>2. k # 0 /\ k <= 1
      BY <2>2, <2>3, <2>5, <3>1
    <3>3. k = 1
      BY ONLY <3>2
    <3> QED
      BY <3>1, <3>3
  <2> QED
    BY <2>4, <2>5
<1> QED
  BY <1>1, <1>2, <1>3, <1>4

(* With one worker everything before what the collector received is         *)
(* stored.                                                                  *)
LEMMA SerialStep ==
  ASSUME ScanState, CoverIn, Serial, [Next]_vars, ScanState'
  PROVE  Serial'
<1> SUFFICES ASSUME Good', workers' = 1, Scanning'
             PROVE  \E r, b, j \in Nat : InOrder(r, b, j)'
  BY DEF Serial
<1>a. Good /\ workers = 1 /\ InScan' /\ workers' = workers
  BY GoodBefore, HistoryGrows DEF InScan, Scanning
<1>1. CASE EnterRange
  <2>1. pc = "range" /\ UNCHANGED <<file, buf>> /\ Reached' = resumeAt /\ processed' = resumeAt
        /\ resumeAt \in Nat /\ resumeAt \in Units
    BY <1>1, EnterEffect
  <2>2. Quiet'
    <3>1. Quiet
      BY <2>1 DEF ScanState, PipeIn, Scanning
    <3> QED
      BY <1>1, <3>1, EnterEffect DEF Quiet
  <2>3. \A c \in Findable : c \in Stored \/ Position(c) >= resumeAt
    BY <1>a, <2>1 DEF CoverIn
  <2>4. StartAt(resumeAt) \in Nat /\ StartAt(resumeAt) <= resumeAt
    BY <2>1, StartAtIn, TotalIn DEF Units
  <2>5. Covers(resumeAt, Stored')
    <3>1. ASSUME NEW c \in Findable PROVE c \in Stored' \/ Position(c) >= StartAt(resumeAt)
      <4>1. Position(c) \in Nat
        BY PositionIn
      <4>2. c \in Stored' \/ Position(c) >= resumeAt
        BY <2>1, <2>3 DEF Stored
      <4> QED
        BY <2>1, <2>4, <4>1, <4>2
    <3> QED
      BY <3>1 DEF Covers
  <2>6. processed' + 0 = resumeAt /\ processed' + 0 + 0 = resumeAt /\ processed' + 0 + 0 + 0 = resumeAt
    BY <2>1
  <2>7. Covers(resumeAt, Stored' \cup FoundR') /\ Covers(resumeAt, Stored' \cup FoundR' \cup FoundB')
    BY <2>5 DEF Covers
  <2>8. InOrder(0, 0, 0)'
    BY <2>1, <2>2, <2>5, <2>6, <2>7 DEF InOrder, Quiet
  <2> QED
    BY <2>8
<1> SUFFICES ASSUME ~EnterRange PROVE \E r, b, j \in Nat : InOrder(r, b, j)'
  BY <1>1
<1>b. ASSUME Scanning PROVE \E r, b, j \in Nat : InOrder(r, b, j)
  BY <1>a, <1>b DEF Serial
<1>2. CASE OpenStore \/ SkipRange \/ AllScanned
  BY <1>2 DEF OpenStore, SkipRange, AllScanned, Goto, Scanning
<1>3. CASE Drained
  BY <1>3 DEF Drained, Goto, Scanning
<1>4. CASE Sends /\ Scanning /\ Scanning' /\ UNCHANGED <<saved, file, buf, sess, resumeAt>>
  <2>1. PICK n \in 1 .. ToRead : Send(n)
    BY <1>4 DEF Sends
  <2>2. UNCHANGED <<rng, busy, workers, results, processed, file, buf>> /\ pc = "read"
        /\ offset < Ranges[rng].size /\ Len(jobs) < workers
    BY <1>4, <1>a DEF Sends
  <2>3. /\ n \in 1 .. Chunk /\ offset' = offset + n
        /\ jobs' # <<>> /\ jobs'[Len(jobs) + 1].new = n
    BY <2>1, <2>2, SendEffect
  <2>4. jobs = <<>> /\ Len(jobs) = 0
    BY <1>a, <2>2, OneWorker, EmptySeq
  <2>5. PICK r \in Nat, b \in Nat, j \in Nat : InOrder(r, b, j)
    BY <1>4, <1>b
  <2>6. n \in Nat /\ Reached' = Reached + n /\ Reached \in Nat /\ processed \in Nat
    <3>1. Before[rng] \in Nat /\ offset \in Nat /\ Reached \in Nat /\ processed \in Nat
      BY <1>4, CountIn
    <3> QED
      BY <2>2, <2>3, <3>1, SizesIn DEF Reached
  <2>7. processed + r + b + j = Reached /\ j = 0
    BY <2>4, <2>5 DEF InOrder
  <2>8. processed' + r + b + n = Reached'
    BY <2>2, <2>6, <2>7
  <2>9. FoundR' = FoundR /\ FoundB' = FoundB /\ Stored' = Stored
    BY <2>2 DEF FoundR, FoundB, InResults, InBusy, ScanChunk, Stored
  <2>10. jobs'[1].new = n
    BY <2>3, <2>4
  <2>11. InOrder(r, b, n)'
    BY <2>2, <2>3, <2>5, <2>8, <2>9, <2>10 DEF InOrder, Covers
  <2> QED
    BY <2>6, <2>11
<1>5. CASE TakeJob
  <2>1. /\ Scanning /\ jobs # <<>> /\ busy' = busy \cup {jobs[1]} /\ Len(jobs') = Len(jobs) - 1
        /\ jobs' = Tail(jobs)
        /\ UNCHANGED <<results, processed, rng, offset, file, buf>>
    BY <1>5, TakeEffect
  <2>2. Len(jobs) = 1 /\ busy = {}
    BY <1>5, <1>a, <2>1, OneWorker DEF TakeJob
  <2>3. jobs' = <<>>
    <3>1. jobs' \in Seq(Job) /\ Len(jobs') = 0
      BY <2>1, <2>2 DEF ScanState, PipeIn
    <3> QED
      BY <3>1, EmptySeq
  <2>4. PICK r \in Nat, b \in Nat, j \in Nat : InOrder(r, b, j)
    BY <2>1, <1>b
  <2>5. b = 0 /\ j = jobs[1].new /\ processed + r + b + j = Reached /\ processed \in Nat
    BY <2>1, <2>2, <2>4, CountIn DEF InOrder
  <2>6. processed + r + j = Reached /\ Reached' = Reached
    BY <2>1, <2>5 DEF Reached
  <2>7. FoundR' = FoundR /\ Stored' = Stored
    BY <2>1 DEF FoundR, InResults, Stored
  <2>8. Covers(Reached, Stored' \cup FoundR' \cup FoundB')
    <3>1. ASSUME NEW c \in Findable, c \in Stored \/ InJobs(c) \/ InBusy(c) \/ InResults(c)
          PROVE  c \in Stored' \cup FoundR' \cup FoundB'
      <4>1. CASE InJobs(c)
        <5>1. c \in ScanChunk(jobs[1])
          BY <2>2, <4>1 DEF InJobs
        <5> QED
          BY <2>1, <5>1 DEF FoundB, InBusy, ScanChunk
      <4>2. CASE InBusy(c)
        BY <2>2, <4>2 DEF InBusy
      <4>3. CASE InResults(c)
        BY <2>7, <4>3 DEF FoundR
      <4> QED
        BY <3>1, <2>7, <4>1, <4>2, <4>3
    <3> HIDE DEF FoundR, FoundB
    <3> QED
      BY <1>a, <2>1, <3>1, ReachedCovered
  <2>9. InOrder(r, j, 0)'
    <3>1. processed' + r + j + 0 = Reached' /\ processed' + r + j = Reached
      BY <2>1, <2>5, <2>6
    <3>2. /\ results' = <<>> => r = 0 /\ TRUE
          /\ results' # <<>> => r = results'[1].new
          /\ Covers(processed', Stored') /\ Covers(processed' + r, Stored' \cup FoundR')
      BY <2>1, <2>4, <2>7 DEF InOrder
    <3>3. busy' # {} /\ \A job \in busy' : job.new = j
      BY <2>1, <2>2, <2>5
    <3> QED
      BY <2>3, <2>8, <3>1, <3>2, <3>3 DEF InOrder, Covers
  <2> QED
    BY <2>9
<1>6. ASSUME NEW job \in busy, FinishJob(job) PROVE \E r, b, j \in Nat : InOrder(r, b, j)'
  <2>1. /\ Scanning /\ busy' = busy \ {job} /\ Len(results) < workers
        /\ Len(results) \in Nat /\ Len(results') = Len(results) + 1
        /\ results'[Len(results) + 1].new = job.new
        /\ results'[Len(results) + 1].found = ScanChunk(job)
        /\ results' # <<>> /\ results \in Seq(Result)
        /\ UNCHANGED <<jobs, processed, rng, offset, file, buf>>
    BY <1>6, FinishEffect
  <2>2. Len(results) = 0 /\ results = <<>>
    BY <1>a, <2>1, OneWorker, EmptySeq
  <2>3. busy = {job} /\ busy' = {}
    BY <1>a, <2>1, OneWorker
  <2>4. PICK r \in Nat, b \in Nat, j \in Nat : InOrder(r, b, j)
    BY <2>1, <1>b
  <2>5. r = 0 /\ b = job.new /\ processed + r + b + j = Reached /\ processed \in Nat
    BY <2>1, <2>2, <2>4, CountIn DEF InOrder
  <2>6. processed + b + 0 + j = Reached /\ processed + b + 0 = processed + b
        /\ processed + r + b = processed + b /\ Reached' = Reached
    BY <2>1, <2>5 DEF Reached
  <2>7. FoundR = {} /\ FoundB' = {} /\ Stored' = Stored /\ FoundB \subseteq FoundR'
    <3>1. FoundR = {} /\ FoundB' = {} /\ Stored' = Stored
      BY <2>1, <2>2, <2>3 DEF FoundR, FoundB, InResults, InBusy, Stored
    <3>2. ASSUME NEW c \in FoundB PROVE c \in FoundR'
      <4>1. c \in ScanChunk(job) /\ c \in Findable
        BY <2>3 DEF FoundB, InBusy
      <4>2. 1 \in 1 .. Len(results') /\ results'[1].found = ScanChunk(job)
        BY <2>1, <2>2
      <4> QED
        BY <4>1, <4>2 DEF FoundR, InResults
    <3> QED
      BY <3>1, <3>2
  <2>8. Covers(processed, Stored) /\ Covers(processed + b, Stored \cup FoundB)
    BY <2>4, <2>6, <2>7 DEF InOrder
  <2>9. Covers(processed', Stored') /\ Covers(processed' + b, Stored' \cup FoundR')
        /\ Covers(processed' + b + 0, Stored' \cup FoundR' \cup FoundB')
    <3>1. Covers(processed + b, Stored \cup FoundR')
      BY <2>7, <2>8 DEF Covers
    <3> QED
      BY <2>1, <2>6, <2>7, <2>8, <3>1
  <2>10. results'[1].new = b /\ (jobs = <<>> => j = 0) /\ (jobs # <<>> => j = jobs[1].new)
    BY <2>1, <2>2, <2>4, <2>5 DEF InOrder
  <2>11. InOrder(b, 0, j)'
    <3>1. processed' + b + 0 + j = Reached'
      BY <2>1, <2>6
    <3> QED
      BY <2>1, <2>3, <2>9, <2>10, <3>1 DEF InOrder, Covers
  <2> QED
    BY <2>11
<1>7. CASE Collect
  <2>1. /\ Scanning /\ results # <<>> /\ results' = Tail(results) /\ processed' = processed + results[1].new
        /\ UNCHANGED <<jobs, busy, rng, offset>>
    BY <1>7, CollectEffect
  <2>2. Stored' = Stored \cup results[1].found
    BY <1>7, CollectStores
  <2>3. results \in Seq(Result) /\ results' \in Seq(Result)
    BY DEF ScanState, PipeIn
  <2>4. Len(results) = 1 /\ Len(results') = 0 /\ results' = <<>>
    <3>1. Len(results) = 1
      BY <1>a, <2>1, OneWorker
    <3>2. Len(results') = 0
      BY <2>1, <2>3, <3>1, TailEffect
    <3> QED
      BY <2>3, <3>1, <3>2, EmptySeq
  <2>5. PICK r \in Nat, b \in Nat, j \in Nat : InOrder(r, b, j)
    BY <2>1, <1>b
  <2>6. r = results[1].new /\ processed + r + b + j = Reached /\ processed \in Nat
    BY <2>1, <2>5, CountIn DEF InOrder
  <2>7. processed' = processed + r /\ processed' + 0 = processed + r /\ processed' + 0 + b = processed + r + b
        /\ processed' + 0 + b + j = Reached' /\ Reached' = Reached
    BY <2>1, <2>6 DEF Reached
  <2>8. FoundR \subseteq Stored' /\ FoundB' = FoundB /\ Stored \subseteq Stored'
    <3>1. FoundR \subseteq results[1].found
      BY <2>4 DEF FoundR, InResults
    <3>2. FoundB' = FoundB
      BY <2>1 DEF FoundB, InBusy, ScanChunk
    <3> QED
      BY <2>2, <3>1, <3>2
  <2>9. Covers(processed + r, Stored') /\ Covers(processed + r, Stored' \cup FoundR')
        /\ Covers(processed + r + b, Stored' \cup FoundR' \cup FoundB')
    <3>1. Covers(processed + r, Stored \cup FoundR) /\ Covers(processed + r + b, Stored \cup FoundR \cup FoundB)
      BY <2>5 DEF InOrder
    <3> QED
      BY <2>8, <3>1 DEF Covers
  <2>10. /\ busy' = {} => b = 0
         /\ \A job \in busy' : job.new = b
         /\ jobs' = <<>> => j = 0
         /\ jobs' # <<>> => j = jobs'[1].new
    BY <2>1, <2>5 DEF InOrder
  <2>11. InOrder(0, b, j)'
    BY <2>4, <2>7, <2>9, <2>10 DEF InOrder, Covers
  <2> QED
    BY <2>11
<1>8. CASE Flush \/ SaveProgress \/ Rests
  <2>1. UNCHANGED <<rng, offset, jobs, busy, results, processed>> /\ Scanning
    <3>1. CASE Flush
      BY <3>1 DEF Flush, plan, reader, pipe, Scanning
    <3>2. CASE SaveProgress
      BY <3>2 DEF SaveProgress, plan, reader, pipe, Scanning
    <3>3. CASE Rests
      BY <3>3 DEF Rests, Scanning
    <3> QED
      BY <1>8, <3>1, <3>2, <3>3
  <2>2. Stored' = Stored
    <3>1. CASE Flush
      <4>1. ~writerBad'
        BY DEF Good, ScanState, StoreIn
      <4> QED
        BY <3>1, <4>1, WriteOutEffect DEF Flush
    <3>2. CASE SaveProgress
      BY <3>2 DEF SaveProgress, store, Stored
    <3>3. CASE Rests
      BY <3>3 DEF Rests, Stored
    <3> QED
      BY <1>8, <3>1, <3>2, <3>3
  <2>3. FoundR' = FoundR /\ FoundB' = FoundB /\ Reached' = Reached
    BY <2>1 DEF FoundR, FoundB, InResults, InBusy, ScanChunk, Reached
  <2>4. PICK r \in Nat, b \in Nat, j \in Nat : InOrder(r, b, j)
    BY <2>1, <1>b
  <2>5. InOrder(r, b, j)'
    BY <2>1, <2>2, <2>3, <2>4 DEF InOrder, Covers
  <2> QED
    BY <2>5
<1> QED
  BY <1>a, <1>2, <1>3, <1>4, <1>5, <1>6, <1>7, <1>8, ScanCases

(* What closing the store leaves in the file.                              *)
LEMMA CloseEffect ==
  ASSUME ScanState, CoverIn, Good', [Next]_vars, ScanState', CloseStore
  PROVE  /\ file' = Stored /\ UNCHANGED <<saved, sorted>> /\ saved.phase # "sorted" /\ pc = "close"
         /\ scanErr => pc' = "fail"
         /\ ~scanErr => Stored = Findable
         /\ pc' # "fail" => pc' = "sorting" /\ ~scanErr
<1>1. Good /\ ~writerBad'
  <2>1. Good
    BY GoodBefore
  <2>2. ~writerBad'
    BY DEF Good, ScanState, StoreIn
  <2> QED
    BY <2>1, <2>2
<1>2. file' = Stored
  BY <1>1, WriteOutEffect DEF CloseStore
<1>3. UNCHANGED <<saved, sorted>> /\ pc = "close" /\ (pc' = "fail" \/ (pc' = "sorting" /\ ~scanErr))
      /\ (scanErr => pc' = "fail")
  <2>1. UNCHANGED <<saved, sorted>> /\ pc = "close" /\ (Failed => pc' = "fail") /\ (~Failed => pc' = "sorting")
    BY DEF CloseStore, Goto
  <2>2. scanErr => Failed
    BY DEF Failed
  <2> QED
    BY <2>1, <2>2
<1>4. saved.phase # "sorted"
  BY <1>3 DEF ScanState, OffsetIn
<1>5. ~scanErr => Stored = Findable
  BY <1>1, <1>3 DEF CoverIn
<1> QED
  BY <1>2, <1>3, <1>4, <1>5

(* What is sorted is complete.                                              *)
LEMMA IndexStep ==
  ASSUME ScanState, CoverIn, IndexIn, SafeIn, [Next]_vars, ScanState'
  PROVE  IndexIn'
<1> SUFFICES ASSUME Good' PROVE IndexIn'
  BY DEF IndexIn
<1>a. Good
  BY GoodBefore
<1> USE DEF Goto, disk
<1>1. CASE Resume
  <2>1. pc = "idle" /\ UNCHANGED <<file, sorted, saved>>
        /\ pc' = (IF saved.phase = "sorted" THEN "extract" ELSE "store")
    BY <1>1 DEF Resume
  <2>2. Safe
    BY <1>a, <2>1 DEF SafeIn, InScan
  <2> QED
    BY <2>1, <2>2 DEF IndexIn, Indexing, Safe
<1>2. CASE StartNew \/ OpenStore \/ ScanRanges \/ Read
  <2>1. pc' \in {"store", "range", "read", "drain", "close"}
    <3>1. CASE StartNew \/ OpenStore
      BY <3>1 DEF StartNew, OpenStore
    <3>2. CASE ScanRanges
      BY <3>2 DEF ScanRanges, SkipRange, EnterRange, AllScanned
    <3>3. CASE Read
      BY <3>3 DEF Read, ReadChunk, CutRead, ScanCancelled, RangeRead, Drained
    <3> QED
      BY <1>2, <3>1, <3>2, <3>3
  <2> QED
    BY <2>1 DEF IndexIn, Indexing
<1>3. CASE CloseStore
  <2>1. /\ file' = Stored
        /\ pc' # "fail" => pc' = "sorting" /\ Stored = Findable
    <3>1. /\ file' = Stored
          /\ ~scanErr => Stored = Findable
          /\ pc' # "fail" => pc' = "sorting" /\ ~scanErr
      BY <1>3, CloseEffect
    <3> QED
      BY <3>1
  <2> QED
    BY <2>1 DEF IndexIn, Indexing
<1>4. CASE SaveSorting \/ SaveSorted \/ SaveCompleted
  <2>1. /\ UNCHANGED <<file, sorted>>
        /\ \/ pc = "sorting" /\ pc' = "sort"
           \/ pc = "sorted" /\ pc' = "extract"
           \/ pc = "completed" /\ pc' = "remove"
    <3>1. CASE SaveSorting
      BY <3>1 DEF SaveSorting, SaveThen
    <3>2. CASE SaveSorted
      BY <3>2 DEF SaveSorted, SaveThen
    <3>3. CASE SaveCompleted
      BY <3>3 DEF SaveCompleted, SaveThen
    <3> QED
      BY <1>4, <3>1, <3>2, <3>3
  <2> QED
    BY <1>a, <2>1 DEF IndexIn, Indexing
<1>5. CASE Sort \/ SortFails
  BY <1>a, <1>5 DEF Sort, SortFails, IndexIn, Indexing
<1>6. CASE Extract
  BY <1>a, <1>6 DEF Extract, IndexIn, Indexing
<1>7. CASE ReportFailure \/ NoIndex \/ ExtractCancelled \/ RemoveFiles \/ Kill
  <2>1. pc' = "idle"
    BY <1>7 DEF ReportFailure, NoIndex, ExtractCancelled, RemoveFiles, Kill, Return
  <2> QED
    BY <2>1 DEF IndexIn, Indexing
<1>8. CASE Worker \/ Collector
  <2>1. pc' = pc /\ Scanning
    <3>1. CASE Worker
      <4>1. pc' = pc /\ (jobs # <<>> \/ busy # {})
        BY <3>1 DEF Worker, TakeJob, FinishJob
      <4> QED
        BY <4>1 DEF ScanState, PipeIn, Quiet
    <3>2. CASE Collector
      <4>1. pc' = pc /\ (results # <<>> \/ col # "recv")
        BY <3>2 DEF Collector, Collect, Receives, Flush, SaveProgress
      <4> QED
        BY <4>1 DEF ScanState, PipeIn, Quiet
    <3> QED
      BY <1>8, <3>1, <3>2
  <2> QED
    BY <2>1 DEF IndexIn, Indexing, Scanning
<1>9. CASE Cancel \/ TogglePause \/ UNCHANGED vars
  <2>1. UNCHANGED <<pc, file, sorted>>
    BY <1>9 DEF Cancel, TogglePause, vars
  <2> QED
    BY <1>a, <2>1 DEF IndexIn, Indexing
<1> QED
  BY <1>1, <1>2, <1>3, <1>4, <1>5, <1>6, <1>7, <1>8, <1>9 DEF Next, Start, Caller, Index, Finish

(* What is on disk is safe to resume.                                       *)
LEMMA SafeStep ==
  ASSUME ScanState, CoverState, [Next]_vars, ScanState'
  PROVE  SafeIn'
<1> SUFFICES ASSUME Good', workers' = 1 \/ ~InScan' PROVE Safe'
  BY DEF SafeIn
<1>a. Good /\ workers' = workers /\ ~writerBad'
  <2>1. ~writerBad'
    BY DEF Good, ScanState, StoreIn
  <2> QED
    BY <2>1, GoodBefore, HistoryGrows
<1>b. AheadIn /\ CoverIn /\ Serial /\ IndexIn /\ SafeIn
  BY DEF CoverState
<1>c. \A c \in Findable : Position(c) \in Nat
  BY PositionIn
<1> USE DEF Goto, disk
<1>d. ASSUME workers = 1 \/ ~InScan, UNCHANGED <<saved, file, sorted>> PROVE Safe'
  BY <1>a, <1>b, <1>d DEF SafeIn, Safe, Covers
<1>1. CASE StartNew
  <2>1. saved'.phase = "created" /\ saved'.off = 0
    BY <1>1 DEF StartNew
  <2>2. StartAt(0) = 0
    BY SizesIn DEF StartAt
  <2> QED
    BY <1>c, <2>1, <2>2 DEF Safe, Covers
<1>2. CASE Resume
  BY <1>2, <1>d DEF Resume, InScan
<1>3. CASE OpenStore
  <2>1. /\ pc = "store" /\ UNCHANGED <<saved, sorted>>
        /\ file' = (IF sess.off > 0 THEN file ELSE {})
    BY <1>3 DEF OpenStore
  <2>2. sess = saved /\ saved.phase # "sorted" /\ saved.off \in Nat
    BY <2>1, TotalIn DEF ScanState, OffsetIn, Fields, Session, Units
  <2>3. CASE saved.off > 0
    BY <1>d, <2>1, <2>2, <2>3 DEF InScan
  <2>4. CASE ~(saved.off > 0)
    <3>1. StartAt(saved.off) = 0
      BY <2>2, <2>4, SizesIn DEF StartAt
    <3> QED
      BY <1>c, <2>1, <2>2, <3>1 DEF Safe, Covers
  <2> QED
    BY <2>3, <2>4
<1>4. CASE ScanRanges \/ Read
  <2>1. InScan' /\ UNCHANGED <<saved, file, sorted>>
    <3>1. CASE ScanRanges
      BY <3>1 DEF ScanRanges, SkipRange, EnterRange, AllScanned, InScan
    <3>2. CASE Read
      BY <3>2 DEF Read, ReadChunk, CutRead, ScanCancelled, RangeRead, Drained, InScan
    <3> QED
      BY <1>4, <3>1, <3>2
  <2> QED
    BY <1>a, <1>d, <2>1
<1>5. CASE CloseStore
  <2>1. /\ file' = Stored /\ UNCHANGED <<saved, sorted>> /\ saved.phase # "sorted" /\ pc = "close"
        /\ ~scanErr => Stored = Findable
    BY <1>b, <1>5, CloseEffect
  <2>2. ASSUME NEW c \in Findable PROVE c \in Stored \/ Position(c) >= StartAt(saved.off)
    <3>1. CASE scanErr
      BY <1>a, <1>b, <2>1, <3>1 DEF CoverIn, AheadIn, Stopped
    <3>2. CASE ~scanErr
      BY <2>1, <3>2
    <3> QED
      BY <3>1, <3>2
  <2> QED
    BY <2>1, <2>2 DEF Safe, Covers
<1>6. CASE SaveSorting
  <2>1. pc = "sorting" /\ file' = file /\ (saved' = sess \/ saved' = saved)
    BY <1>6 DEF SaveSorting, SaveThen, SaveSession
  <2>2. file = Findable /\ sess.phase # "sorted" /\ saved.phase # "sorted"
    BY <1>a, <1>b, <2>1 DEF IndexIn, Indexing, ScanState, OffsetIn
  <2> QED
    BY <2>1, <2>2 DEF Safe, Covers
<1>7. CASE SaveSorted \/ SaveCompleted
  <2>1. pc \in {"sorted", "completed"} /\ file' = file /\ sorted' = sorted
    BY <1>7 DEF SaveSorted, SaveCompleted, SaveThen
  <2>2. file = Findable /\ sorted = Findable
    BY <1>a, <1>b, <2>1 DEF IndexIn, Indexing
  <2> QED
    BY <2>1, <2>2 DEF Safe, Covers
<1>8. CASE Sort \/ SortFails
  <2>1. pc = "sort" /\ UNCHANGED <<saved, file>>
    BY <1>8 DEF Sort, SortFails
  <2>2. file = Findable /\ saved.phase # "sorted"
    BY <1>a, <1>b, <2>1 DEF IndexIn, Indexing, ScanState, OffsetIn
  <2> QED
    BY <2>1, <2>2 DEF Safe, Covers
<1>9. CASE Extract \/ ReportFailure \/ NoIndex \/ ExtractCancelled
  <2>1. UNCHANGED <<saved, file, sorted>> /\ ~InScan
    BY <1>9 DEF Extract, ReportFailure, NoIndex, ExtractCancelled, InScan
  <2> QED
    BY <1>d, <2>1
<1>10. CASE RemoveFiles
  BY <1>10 DEF RemoveFiles, Good
<1>11. CASE Kill
  <2>1. UNCHANGED <<saved, file>> /\ "kill" \in harm'
    BY <1>11 DEF Kill
  <2>2. workers = 1
    BY <1>a, <2>1 DEF Good
  <2>3. CASE pc = "sort"
    <3>1. file = Findable /\ saved.phase # "sorted"
      BY <1>a, <1>b, <2>3 DEF IndexIn, Indexing, ScanState, OffsetIn
    <3> QED
      BY <2>1, <3>1 DEF Safe, Covers
  <2>4. CASE pc # "sort"
    BY <1>11, <1>d, <2>1, <2>2, <2>4 DEF Kill
  <2> QED
    BY <2>3, <2>4
<1>12. CASE Worker
  <2>1. InScan' /\ UNCHANGED <<saved, file, sorted>>
    <3>1. pc' = pc /\ (jobs # <<>> \/ busy # {}) /\ UNCHANGED <<saved, file, sorted>>
      BY <1>12 DEF Worker, TakeJob, FinishJob
    <3> QED
      BY <3>1 DEF ScanState, PipeIn, Quiet, Scanning, InScan
  <2> QED
    BY <1>a, <1>d, <2>1
<1>13. CASE Collector
  <2>1. InScan /\ InScan' /\ Scanning /\ pc' = pc
    <3>1. pc' = pc /\ (results # <<>> \/ col # "recv")
      BY <1>13 DEF Collector, Collect, Receives, Flush, SaveProgress
    <3> QED
      BY <3>1 DEF ScanState, PipeIn, Quiet, Scanning, InScan
  <2>2. workers = 1 /\ Safe /\ saved.phase # "sorted"
    BY <1>a, <1>b, <2>1 DEF SafeIn, ScanState, OffsetIn, Scanning
  <2>3. Covers(saved.off, file)
    BY <2>2 DEF Safe
  <2>4. CASE Collect
    <3>1. saved' = saved /\ file \subseteq file'
      BY <2>4, CollectEffect, CollectStores
    <3> QED
      BY <2>2, <2>3, <3>1 DEF Safe, Covers
  <2>5. CASE Flush
    <3>1. saved' = saved /\ file \subseteq file'
      BY <1>a, <2>5, WriteOutEffect DEF Flush, Stored
    <3> QED
      BY <2>2, <2>3, <3>1 DEF Safe, Covers
  <2>6. CASE SaveProgress
    <3>1. col = "save" /\ file' = file /\ (saved' = sess \/ saved' = saved)
      BY <2>6 DEF SaveProgress, SaveSession
    <3>2. sess.off = processed /\ sess.phase = "scanning" /\ buf = {}
      BY <1>a, <3>1, GoodWrites DEF ScanState, OffsetIn, StoreIn
    <3>3. Covers(processed, file)
      <4>1. PICK r \in Nat, b \in Nat, j \in Nat : InOrder(r, b, j)
        BY <1>a, <1>b, <2>1, <2>2 DEF Serial
      <4>2. Covers(processed, Stored)
        BY <4>1 DEF InOrder
      <4> QED
        BY <3>2, <4>2 DEF Stored
    <3>4. Covers(saved'.off, file)
      BY <2>3, <3>1, <3>2, <3>3
    <3>5. saved'.phase # "sorted"
      BY <2>2, <3>1, <3>2
    <3> QED
      BY <3>1, <3>4, <3>5 DEF Safe, Covers
  <2> QED
    BY <1>13, <2>4, <2>5, <2>6 DEF Collector
<1>14. CASE Cancel \/ TogglePause \/ UNCHANGED vars
  <2>1. UNCHANGED <<saved, file, sorted, pc>>
    BY <1>14 DEF Cancel, TogglePause, vars
  <2> QED
    BY <1>a, <1>d, <2>1 DEF InScan
<1> QED
  BY <1>1, <1>2, <1>3, <1>4, <1>5, <1>6, <1>7, <1>8, <1>9, <1>10, <1>11, <1>12, <1>13, <1>14
     DEF Next, Start, Caller, Index, Finish

(* The invariant at the start ...                                           *)
LEMMA CoverStateInit == Init => CoverState
<1> SUFFICES ASSUME Init PROVE CoverState
  OBVIOUS
<1>1. pc = "idle" /\ saved = NoSession
  BY DEF Init
<1>2. StartAt(0) = 0 /\ \A c \in Findable : Position(c) \in Nat
  BY SizesIn, PositionIn DEF StartAt
<1>3. Safe
  BY <1>1, <1>2 DEF Safe, Covers, NoSession
<1> QED
  BY <1>1, <1>3 DEF CoverState, AheadIn, CoverIn, Serial, IndexIn, SafeIn, Scanning, Stopped, Indexing

(* ... and through every step.                                              *)
LEMMA CoverStateStep == ScanState /\ CoverState /\ [Next]_vars /\ ScanState' => CoverState'
<1> SUFFICES ASSUME ScanState, CoverState, [Next]_vars, ScanState' PROVE CoverState'
  OBVIOUS
<1>1. AheadIn /\ CoverIn /\ Serial /\ IndexIn /\ SafeIn
  BY DEF CoverState
<1>2. AheadIn' /\ CoverIn'
  BY <1>1, AheadStep, CoverStep
<1>3. Serial' /\ IndexIn' /\ SafeIn'
  BY <1>1, SerialStep, IndexStep, SafeStep
<1> QED
  BY <1>2, <1>3 DEF CoverState

(* The invariant of what is stored, in flight and ahead.                    *)
THEOREM CoverInvariant == Spec => []CoverState
<1> QED
  BY ScanInvariant, CoverStateInit, CoverStateStep, PTL DEF Spec

(* A session is safe to resume at every instant with one worker, and with   *)
(* several whenever no call runs and none was killed: each candidate of     *)
(* the ranges is in the file or behind the offset the next call starts at   *)
(* (deep.go:69-85, 259-381).                                                *)
THEOREM ResumeIsSafe == Spec => []SessionSafe
<1>1. ScanState /\ CoverState => SessionSafe
  <2> SUFFICES ASSUME ScanState, CoverState, ~finished, "write" \notin harm,
                      workers = 1 \/ (pc = "idle" /\ "kill" \notin harm)
               PROVE  NothingLost
    BY DEF SessionSafe
  <2>1. Good /\ (workers = 1 \/ ~InScan)
    BY DEF Good, InScan
  <2>2. Safe
    BY <2>1 DEF CoverState, SafeIn
  <2>3. CASE saved.phase = "sorted"
    BY <2>2, <2>3 DEF Safe, NothingLost
  <2>4. CASE saved.phase # "sorted"
    <3>1. saved.off \in Nat /\ (~(saved.off > 0) => StartAt(saved.off) = 0)
      BY TotalIn, SizesIn DEF ScanState, Fields, Session, Units, StartAt
    <3>2. ASSUME NEW c \in Findable
          PROVE  (c \in file /\ saved.off > 0) \/ Position(c) >= StartAt(saved.off)
      <4>1. Position(c) \in Nat
        BY PositionIn
      <4> QED
        BY <2>2, <2>4, <3>1, <4>1 DEF Safe, Covers
    <3> QED
      BY <2>4, <3>2 DEF NothingLost
  <2> QED
    BY <2>3, <2>4
<1> QED
  BY <1>1, ScanInvariant, CoverInvariant, PTL

(* An index that is extracted from has every candidate of the ranges.       *)
THEOREM IndexIsComplete == Spec => []IndexComplete
<1>1. CoverState => IndexComplete
  BY DEF CoverState, IndexIn, Good, IndexComplete
<1> QED
  BY <1>1, CoverInvariant, PTL
=============================================================================
