------------------------------ MODULE DeepScan ------------------------------
(***************************************************************************)
(* recovery/deep.go, recoverDeep as far as the sorted index: the disk is   *)
(* read in chunks by one goroutine, searched for signatures by several,    *)
(* and one collector appends what they find to the candidates file and     *)
(* saves in the session how far the scan has come.  The session is resumed *)
(* by a later call.                                                        *)
(*                                                                         *)
(* Simplifications.                                                        *)
(*  - The unit is the overlap of two reads (128 bytes); the file signature *)
(*    of a candidate is what it takes for detect to accept it: span units  *)
(*    from its offset.                                                     *)
(*  - The candidates file is the set of its records: the sort drops the    *)
(*    equal ones.  A record cut in two by a failing write is left out.     *)
(*  - One session: a call that does not resume works in a new directory    *)
(*    and touches nothing of an older session.                             *)
(*  - saveSession replaces the session file in one durable step or fails.  *)
(*  - The extraction that follows the index (deep.go:123-242) is one step  *)
(*    that only reads it.                                                  *)
(***************************************************************************)
EXTENDS Naturals, Sequences, FiniteSets

CONSTANTS
  Ranges,         \* scanRanges: a sequence of [start, size], in units
  Candidates,     \* what the disk holds: a set of [at, span]
  Chunk,          \* chunkSize
  Overlap,        \* overlap, 1 unit
  Sector,         \* the least a device delivers, 4 units or more
  WorkerChoices,  \* numbers of workers performanceSettings may choose
  Faults          \* what may go wrong: a subset of FaultKinds

FaultKinds ==
  {"kill",     \* the process dies
   "cancel", "pause",
   "write",    \* a write of the candidates file fails
   "save"}     \* the session file cannot be replaced

ASSUME ScanAssumption ==
  /\ Ranges \in Seq([start : Nat, size : Nat \ {0}]) /\ Ranges # <<>>
  /\ \A r \in 1 .. Len(Ranges) - 1 :
       Ranges[r].start + Ranges[r].size <= Ranges[r + 1].start
  /\ Candidates \subseteq [at : Nat, span : 1 .. Overlap + 1]
  /\ Overlap = 1 /\ Sector \in Nat /\ Chunk \in Nat
  /\ Overlap < Sector /\ Sector <= Chunk
  /\ WorkerChoices \subseteq 1 .. 4 /\ WorkerChoices # {}
  /\ Faults \subseteq FaultKinds

VARIABLES
  saved,       \* the session file, or NoSession
  file,        \* records in the candidates file
  sorted,      \* the sorted index, or NoFile
  sess,        \* recoverDeep's variable session
  buf,         \* records in the bufio.Writer of the candidate store
  writerBad,   \* the writer holds a write error, which bufio keeps
  pc,          \* where recoverDeep is; "idle" when it is not running
  rng,         \* the range being scanned
  resumeAt,    \* position in the plan the scan of rng starts at
  offset,      \* the reader's offset inside the range
  carry,       \* units of the last read kept in front of the next
  jobs,        \* channel of read chunks
  busy,        \* chunks the workers are searching
  results,     \* channel of searched chunks
  col,         \* where the collector is
  processed,   \* units whose results the collector has received
  collectErr,  \* store.Append failed
  due,         \* two seconds have passed since session.LastUpdate
  scanErr,     \* what scanDiskToStore returned is an error
  workers,     \* number of workers, fixed by the options of the session
  cancel, paused,
  harm,        \* history: the faults this session went through
  finished     \* history: a call of this session has completed

disk == <<saved, file, sorted>>
store == <<buf, writerBad>>
plan == <<rng, resumeAt>>
reader == <<offset, carry>>
pipe == <<jobs, busy, results>>
collector == <<col, processed, collectErr, due>>
user == <<cancel, paused>>
history == <<harm, finished, workers>>
vars == <<disk, sess, store, pc, plan, reader, pipe, collector, scanErr, user,
          history>>

NoSession == [phase |-> "none", off |-> 0, completed |-> FALSE]
NoFile == {[at |-> 0, span |-> 0]}   \* no candidate has span 0
Labels == {"idle", "store", "range", "read", "drain", "close", "sorting",
           "fail", "sort", "sorted", "extract", "completed", "remove"}
May(fault) == fault \in Faults
Goto(label) == pc' = label
Min2(a, b) == IF a < b THEN a ELSE b

(* Positions in the plan: the ranges laid end to end.                      *)
Before[r \in 1 .. Len(Ranges) + 1] ==
  IF r = 1 THEN 0 ELSE Before[r - 1] + Ranges[r - 1].size
Total == Before[Len(Ranges) + 1]
Within(c, r) == /\ Ranges[r].start <= c.at
                /\ c.at + c.span <= Ranges[r].start + Ranges[r].size
Findable == {c \in Candidates : \E r \in DOMAIN Ranges : Within(c, r)}
Position(c) == LET r == CHOOSE s \in DOMAIN Ranges : Within(c, s)
               IN  Before[r] + c.at - Ranges[r].start

(* scanChunk: the candidates whose signature lies wholly in the data.      *)
ScanChunk(job) ==
  {c \in Candidates : job.base <= c.at /\ c.at + c.span <= job.base + job.len}

(* Where a scan that starts from a session begins.  (Definitions named     *)
(* Wrong... are slips a change of the code could make; each one breaks a   *)
(* property below.)                                                        *)
WrongStartAt(off) == off
StartAt(off) == IF off > Overlap THEN off - Overlap ELSE off

-----------------------------------------------------------------------------
Init ==
  /\ saved = NoSession /\ file = {} /\ sorted = NoFile
  /\ sess = NoSession /\ buf = {} /\ writerBad = FALSE
  /\ pc = "idle" /\ rng = 1 /\ resumeAt = 0 /\ offset = 0 /\ carry = 0
  /\ jobs = <<>> /\ busy = {} /\ results = <<>>
  /\ col = "recv" /\ processed = 0 /\ collectErr = FALSE /\ due = FALSE
  /\ scanErr = FALSE /\ cancel = FALSE /\ paused = FALSE
  /\ workers \in WorkerChoices /\ harm = {} /\ finished = FALSE

(* The call ends: nothing of its memory is left.                           *)
Return ==
  /\ Goto("idle")
  /\ sess' = NoSession /\ buf' = {} /\ writerBad' = FALSE
  /\ rng' = 1 /\ resumeAt' = 0 /\ offset' = 0 /\ carry' = 0
  /\ jobs' = <<>> /\ busy' = {} /\ results' = <<>>
  /\ col' = "recv" /\ processed' = 0 /\ collectErr' = FALSE /\ due' = FALSE
  /\ scanErr' = FALSE /\ cancel' = FALSE /\ paused' = FALSE

(* saveSession; all of its callers ignore the error.                       *)
SaveSession ==
  \/ saved' = sess
  \/ May("save") /\ UNCHANGED saved

(* prepareSession with no session to resume: a failing save ends the call. *)
StartNew ==
  /\ pc = "idle" /\ saved = NoSession
  /\ saved' = [phase |-> "created", off |-> 0, completed |-> FALSE]
  /\ sess' = saved' /\ due' = TRUE                \* LastUpdate is zero
  /\ Goto("store")
  /\ UNCHANGED <<file, sorted, store, plan, reader, pipe, col, processed,
                 collectErr, scanErr, user, history>>

(* prepareSession finds the session, which was not completed.              *)
Resume ==
  /\ pc = "idle" /\ saved # NoSession /\ ~saved.completed
  /\ sess' = saved
  /\ IF saved.phase = "sorted" THEN Goto("extract") ELSE Goto("store")
  /\ UNCHANGED <<disk, store, plan, reader, pipe, collector, scanErr, user, history>>

(* openCandidateStore: truncated unless a resumed session has an offset.   *)
(* A new session has none, and no candidates file.                         *)
OpenStore ==
  /\ pc = "store"
  /\ file' = IF sess.off > 0 THEN file ELSE {}
  /\ resumeAt' = StartAt(sess.off) /\ rng' = 1
  /\ Goto("range")
  /\ UNCHANGED <<saved, sorted, sess, store, reader, pipe, collector, scanErr,
                 user, history>>

(* progressBase + resumeAt.                                                *)
WrongProgress(local) == local
Progress(local) == Before[rng] + local

(* scanRangesToStore: skip the ranges already scanned, start workers and   *)
(* collector for the next one, or return.                                  *)
SkipRange ==
  /\ pc = "range" /\ rng <= Len(Ranges) /\ resumeAt >= Before[rng + 1]
  /\ rng' = rng + 1
  /\ UNCHANGED <<disk, sess, store, pc, resumeAt, reader, pipe, collector,
                 scanErr, user, history>>

EnterRange ==
  /\ pc = "range" /\ rng <= Len(Ranges) /\ resumeAt < Before[rng + 1]
  /\ LET local == IF resumeAt > Before[rng] THEN resumeAt - Before[rng] ELSE 0
     IN  offset' = local /\ processed' = Progress(local)
  /\ carry' = 0
  /\ Goto("read")
  /\ UNCHANGED <<disk, sess, store, plan, pipe, col, collectErr, due, scanErr,
                 user, history>>

AllScanned ==
  /\ pc = "range" /\ rng > Len(Ranges)
  /\ Goto("close")
  /\ UNCHANGED <<disk, sess, store, plan, reader, pipe, collector, scanErr,
                 user, history>>

-----------------------------------------------------------------------------
(* scanDiskToStore, the reader.                                            *)

ToRead == Min2(Chunk, Ranges[rng].size - offset)

(* One chunk with the end of the one before it in front; its own end is   *)
(* kept for the next.                                                      *)
WrongSend(n) ==
  /\ jobs' = Append(jobs, [base |-> Ranges[rng].start + offset - carry,
                           len |-> carry + n, new |-> n])
  /\ offset' = offset + n /\ carry' = carry + n
Send(n) ==
  /\ jobs' = Append(jobs, [base |-> Ranges[rng].start + offset - carry,
                           len |-> carry + n, new |-> n])
  /\ offset' = offset + n /\ carry' = Min2(Overlap, carry + n)

ReadChunk ==
  /\ pc = "read" /\ offset < Ranges[rng].size /\ ~cancel /\ ~paused
  /\ Len(jobs) < workers
  /\ Send(ToRead)
  /\ UNCHANGED <<disk, sess, store, pc, plan, busy, results, collector, scanErr,
                 user, history>>

(* The adaptive reader, splitting a bad range, sees the cancel half way;   *)
(* the loop sees it next.  From the start of a range it delivers whole     *)
(* sectors; a scan resumed Overlap before an offset is not aligned.        *)
CutRead ==
  /\ pc = "read" /\ offset < Ranges[rng].size /\ cancel
  /\ Len(jobs) < workers
  /\ \E n \in 1 .. ToRead - 1 : offset + n >= Sector /\ Send(n)
  /\ scanErr' = TRUE
  /\ Goto("drain")
  /\ UNCHANGED <<disk, sess, store, plan, busy, results, collector, user, history>>

WrongScanCancelled ==
  /\ pc = "read" /\ offset < Ranges[rng].size /\ cancel /\ ~paused
  /\ scanErr' = TRUE
  /\ Goto("drain")
  /\ UNCHANGED <<disk, sess, store, plan, reader, pipe, collector, user, history>>
ScanCancelled ==
  /\ pc = "read" /\ offset < Ranges[rng].size /\ cancel
  /\ scanErr' = TRUE
  /\ Goto("drain")
  /\ UNCHANGED <<disk, sess, store, plan, reader, pipe, collector, user, history>>

RangeRead ==
  /\ pc = "read" /\ offset >= Ranges[rng].size
  /\ Goto("drain")
  /\ UNCHANGED <<disk, sess, store, plan, reader, pipe, collector, scanErr,
                 user, history>>

(* The jobs are closed, the workers done and the collector has ended.      *)
Drained ==
  /\ pc = "drain" /\ jobs = <<>> /\ busy = {} /\ results = <<>> /\ col = "recv"
  /\ IF scanErr \/ collectErr
     THEN scanErr' = TRUE /\ Goto("close") /\ UNCHANGED plan
     ELSE /\ rng' = rng + 1 /\ resumeAt' = Before[rng + 1]
          /\ Goto("range") /\ UNCHANGED scanErr
  /\ UNCHANGED <<disk, sess, store, reader, pipe, collector, user, history>>

-----------------------------------------------------------------------------
(* scanDiskToStore, the workers.                                           *)

TakeJob ==
  /\ jobs # <<>> /\ Cardinality(busy) < workers
  /\ busy' = busy \cup {Head(jobs)} /\ jobs' = Tail(jobs)
  /\ UNCHANGED <<disk, sess, store, pc, plan, reader, results, collector,
                 scanErr, user, history>>

FinishJob(job) ==
  /\ job \in busy /\ Len(results) < workers
  /\ busy' = busy \ {job}
  /\ results' = Append(results, [found |-> ScanChunk(job), new |-> job.new])
  /\ UNCHANGED <<disk, sess, store, pc, plan, reader, jobs, collector, scanErr,
                 user, history>>

-----------------------------------------------------------------------------
(* scanDiskToStore, the collector.                                         *)

(* store.Append, which writes what came first when the buffer is full.     *)
AppendFound(found) ==
  \E spilled \in SUBSET (buf \cup found) :
    /\ spilled # {} => buf \subseteq spilled
    /\ file' = file \cup spilled /\ buf' = (buf \cup found) \ spilled

(* One result: the candidates unless an append failed before, the offset   *)
(* reached, and the session in memory if it is time to save it.            *)
WrongReceives == col = "recv" /\ results # <<>> /\ ~collectErr
Receives == col = "recv" /\ results # <<>>

Collect ==
  /\ Receives
  /\ LET result == Head(results) IN
     /\ results' = Tail(results)
     /\ processed' = processed + result.new
     /\ \/ /\ collectErr
           /\ UNCHANGED <<file, store, collectErr, harm>>
        \/ /\ ~collectErr /\ (~writerBad \/ result.found = {})
           /\ AppendFound(result.found) /\ UNCHANGED <<collectErr, writerBad, harm>>
        \/ /\ ~collectErr /\ result.found # {} /\ (writerBad \/ May("write"))
           /\ collectErr' = TRUE /\ writerBad' = TRUE
           /\ harm' = harm \cup {"write"} /\ UNCHANGED <<file, buf>>
  /\ due' \in (IF due THEN {TRUE} ELSE BOOLEAN)
  /\ IF due' \/ processed' >= Total
     THEN /\ sess' = [sess EXCEPT !.phase = "scanning", !.off = processed']
          /\ col' = "flush"
     ELSE UNCHANGED <<sess, col>>
  /\ UNCHANGED <<saved, sorted, pc, plan, reader, jobs, busy, scanErr, user,
                 workers, finished>>

(* bufio.Writer.Flush: everything, or a part of it and an error it keeps.  *)
WriteOut ==
  \/ /\ ~writerBad
     /\ file' = file \cup buf /\ buf' = {}
     /\ UNCHANGED <<writerBad, harm>>
  \/ /\ ~writerBad /\ buf # {} /\ May("write")
     /\ \E written \in SUBSET buf :
          /\ written # buf
          /\ file' = file \cup written /\ buf' = buf \ written
     /\ writerBad' = TRUE /\ harm' = harm \cup {"write"}
  \/ writerBad /\ UNCHANGED <<file, store, harm>>

(* store.Flush, whose error is ignored.                                    *)
WrongFlush ==
  /\ col = "flush" /\ col' = "save"
  /\ UNCHANGED <<file, store, harm>>
  /\ UNCHANGED <<saved, sorted, sess, pc, plan, reader, pipe, processed,
                 collectErr, due, scanErr, user, workers, finished>>
Flush ==
  /\ col = "flush" /\ col' = "save"
  /\ WriteOut
  /\ UNCHANGED <<saved, sorted, sess, pc, plan, reader, pipe, processed,
                 collectErr, due, scanErr, user, workers, finished>>

SaveProgress ==
  /\ col = "save" /\ col' = "recv"
  /\ SaveSession
  /\ UNCHANGED <<file, sorted, sess, store, pc, plan, reader, pipe, processed,
                 collectErr, due, scanErr, user, history>>

-----------------------------------------------------------------------------
(* recoverDeep after the scan.                                             *)

(* store.Close: an error of the scan or of the last flush ends the call.   *)
WrongFailed == scanErr
Failed == scanErr \/ writerBad'

CloseStore ==
  /\ pc = "close"
  /\ WriteOut
  /\ IF Failed
     THEN Goto("fail") /\ UNCHANGED sess
     ELSE /\ sess' = [sess EXCEPT !.phase = "sorting", !.off = Total]
          /\ Goto("sorting")
  /\ UNCHANGED <<saved, sorted, plan, reader, pipe, collector, scanErr, user,
                 workers, finished>>

ReportFailure == pc = "fail" /\ Return /\ UNCHANGED <<disk, history>>

(* saveSession, before the sort, after it and at the end.                  *)
SaveThen(here, next) ==
  /\ pc = here /\ Goto(next)
  /\ SaveSession
  /\ UNCHANGED <<file, sorted, sess, store, plan, reader, pipe, collector,
                 scanErr, user, history>>
SaveSorting == SaveThen("sorting", "sort")
SaveSorted == SaveThen("sorted", "extract")
SaveCompleted == SaveThen("completed", "remove")

(* sortCandidateFile.  One that stops leaves no output, or the beginning   *)
(* of it.                                                                  *)
Unfinished == {NoFile} \cup {{c \in file : c.at < d.at} : d \in file}

Sort ==
  /\ pc = "sort" /\ (file = {} \/ ~paused)
  /\ sorted' = file
  /\ sess' = [sess EXCEPT !.phase = "sorted"]
  /\ Goto("sorted")
  /\ UNCHANGED <<saved, file, store, plan, reader, pipe, collector, scanErr,
                 user, history>>

SortFails ==
  /\ pc = "sort" /\ file # {} /\ (cancel \/ May("write"))
  /\ sorted' \in Unfinished
  /\ Goto("fail")
  /\ UNCHANGED <<saved, file, sess, store, plan, reader, pipe, collector,
                 scanErr, user, history>>

(* openCandidateIterator.                                                  *)
NoIndex == pc = "extract" /\ sorted = NoFile /\ Return /\ UNCHANGED <<disk, history>>

ExtractCancelled ==
  pc = "extract" /\ sorted # NoFile /\ cancel /\ Return /\ UNCHANGED <<disk, history>>

Extract ==
  /\ pc = "extract" /\ sorted # NoFile /\ ~paused
  /\ sess' = [phase |-> "completed", off |-> sess.off, completed |-> TRUE]
  /\ Goto("completed")
  /\ UNCHANGED <<disk, store, plan, reader, pipe, collector, scanErr, user, history>>

(* The files go even if the session could not be saved as completed.       *)
RemoveFiles ==
  /\ pc = "remove"
  /\ file' = {} /\ sorted' = NoFile /\ finished' = TRUE
  /\ Return /\ UNCHANGED <<saved, harm, workers>>

-----------------------------------------------------------------------------
(* The user and the machine.                                               *)

Cancel ==
  /\ May("cancel") /\ pc # "idle" /\ ~cancel
  /\ cancel' = TRUE
  /\ UNCHANGED <<disk, sess, store, pc, plan, reader, pipe, collector, scanErr,
                 paused, history>>

TogglePause ==
  /\ May("pause") /\ pc # "idle"
  /\ paused' = ~paused
  /\ UNCHANGED <<disk, sess, store, pc, plan, reader, pipe, collector, scanErr,
                 cancel, history>>

(* What bufio holds is lost, what was written to a file is not.            *)
Kill ==
  /\ May("kill") /\ pc # "idle"
  /\ harm' = harm \cup {"kill"}
  /\ sorted' \in (IF pc = "sort" THEN Unfinished ELSE {sorted})
  /\ Return
  /\ UNCHANGED <<saved, file, workers, finished>>

-----------------------------------------------------------------------------
Start == StartNew \/ Resume
ScanRanges == SkipRange \/ EnterRange \/ AllScanned
Read == ReadChunk \/ CutRead \/ ScanCancelled \/ RangeRead \/ Drained
Index == CloseStore \/ ReportFailure \/ SaveSorting \/ Sort \/ SortFails \/ SaveSorted
Finish == NoIndex \/ ExtractCancelled \/ Extract \/ SaveCompleted \/ RemoveFiles
Caller == OpenStore \/ ScanRanges \/ Read \/ Index \/ Finish
Worker == TakeJob \/ \E job \in busy : FinishJob(job)
Collector == Collect \/ Flush \/ SaveProgress

Next == Start \/ Caller \/ Worker \/ Collector \/ Cancel \/ TogglePause \/ Kill

Spec == Init /\ [][Next]_vars

(* Goroutines run and device calls return; the user and faults need not.   *)
FairSpec == Spec /\ WF_vars(Caller) /\ WF_vars(Worker) /\ WF_vars(Collector)

-----------------------------------------------------------------------------
Units == 0 .. Total
Job == [base : Nat, len : 1 .. Chunk + Overlap, new : 1 .. Chunk]
Session == [phase : {"none", "created", "scanning", "sorting", "sorted", "completed"},
            off : Units, completed : BOOLEAN]

(* Types, and the capacities of the two channels and of the workers.       *)
TypeOK ==
  /\ saved \in Session /\ sess \in Session
  /\ file \subseteq Candidates /\ buf \subseteq Candidates
  /\ sorted = NoFile \/ sorted \subseteq Candidates
  /\ pc \in Labels /\ col \in {"recv", "flush", "save"}
  /\ rng \in 1 .. Len(Ranges) + 1 /\ resumeAt \in Units /\ offset \in Units
  /\ carry \in 0 .. Overlap /\ processed \in Units
  /\ jobs \in Seq(Job) /\ Len(jobs) <= workers
  /\ busy \subseteq Job /\ Cardinality(busy) <= workers
  /\ Len(results) <= workers
  /\ {writerBad, collectErr, due, scanErr, cancel, paused, finished} \subseteq BOOLEAN
  /\ workers \in WorkerChoices /\ harm \subseteq {"kill", "write"}

(* What is on disk lets the next call find every candidate: the index has  *)
(* them all, or each one is in the candidates file or in what is scanned   *)
(* again.                                                                  *)
NothingLost ==
  IF saved.phase = "sorted" THEN sorted = Findable
  ELSE \A c \in Findable : \/ c \in file /\ saved.off > 0
                           \/ Position(c) >= StartAt(saved.off)

(* The session is safe to resume at every instant when one worker searches *)
(* the chunks, and with several whenever no call runs and none was killed  *)
(* (so also after a cancel, in whatever order the results came in): unless *)
(* a write of the candidates failed, or the files are gone because the     *)
(* recovery has finished.                                                  *)
SessionSafe ==
  /\ saved # NoSession /\ ~finished /\ "write" \notin harm
  /\ workers = 1 \/ (pc = "idle" /\ "kill" \notin harm)
  => NothingLost

(* An index that is extracted from has every candidate of the ranges, and  *)
(* no other, however often the scan was cancelled, and with one worker     *)
(* killed; a call whose writes failed does not get there.                  *)
IndexComplete ==
  /\ pc \in {"sorted", "extract"} /\ sorted # NoFile /\ ~finished
  /\ "write" \notin harm /\ (workers = 1 \/ "kill" \notin harm)
  => sorted = Findable

(* A call in which a write of the candidates failed, in the collector or   *)
(* in the last flush, ends without sorting what is there.                  *)
WriteErrorReported == writerBad => pc \notin {"sorting", "sort", "sorted", "extract"}

(* What a resumed scan saves is never behind what the session had, though  *)
(* it starts Overlap before it and may be cancelled after a short read.    *)
OffsetNeverBack == [][saved'.off >= saved.off]_vars

(* A call that is cancelled returns, even while paused: reader, workers    *)
(* and collector do not wait for each other.                               *)
CancelEnds == cancel ~> pc = "idle"

(* A call that is not left paused returns, also when appends fail.         *)
ScanEnds == <>[]~paused => [](pc # "idle" => <>(pc = "idle"))

-----------------------------------------------------------------------------
(* Statements of the program that the code does not keep.                  *)

(* deep.go:69 tells the user that the scan goes on from the last safe      *)
(* point.  The offset saved is the number of bytes whose results came in,  *)
(* and with several workers they come in in any order: a scan killed while *)
(* an earlier chunk is being searched is resumed behind that chunk.        *)
ResumesAtSafePoint ==
  pc = "idle" /\ saved # NoSession /\ ~finished => NothingLost
=============================================================================
