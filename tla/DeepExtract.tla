----------------------------- MODULE DeepExtract -----------------------------
(***************************************************************************)
(* recovery/deep.go from the sorted index on: every candidate is carved,   *)
(* copied to a .part file, renamed and listed, and the session and the     *)
(* report are saved after it.  A resumed extraction skips the candidates   *)
(* the session counts and takes the files it knows of from the report.     *)
(*                                                                         *)
(* Simplifications.                                                        *)
(*  - What a carver finds depends on the offset only.  A copy is one step: *)
(*    complete, or ended by a failure or the cancel with its .part removed.*)
(*  - The adaptive reader is DiskImage's; here the source reads well.      *)
(***************************************************************************)
EXTENDS RecoverCall

CONSTANTS
  Carved,       \* per offset: how long a file the carver finds, 0 for none
  Contents,     \* per offset: what is there, for the hash
  MinFileSize,
  KindCount,    \* kinds that are enabled
  RangeEnd      \* the range is 0 .. RangeEnd - 1

ASSUME ExtractAssumption ==
  /\ {MinFileSize, KindCount, RangeEnd} \subseteq Nat
  /\ Carved \in [0 .. RangeEnd - 1 -> Nat]

(* copyRangeHashed and the name of the file.                               *)
Body(c) == [i \in 1 .. Carved[c.off] |-> Contents[c.off + i - 1]]
Candidate == index[at + 1]
WorthCarving(c) ==
  /\ c.kind \in 0 .. KindCount - 1 /\ c.off \in 0 .. RangeEnd - 1 /\ c.off >= skip
  /\ Carved[c.off] > 0 /\ Carved[c.off] >= MinFileSize

(* loadPreviousRecovered: nothing from a report that does not parse.       *)
WrongLoadPrevious == <<>>
LoadPrevious == IF report.state = "ok" THEN report.items ELSE <<>>

OpenIndex ==
  /\ mode = "deep" /\ pc = "open" /\ index # NoIndex
  /\ at' = Least(sess.processed, Len(index)) /\ found' = sess.found
  /\ recovered' = LoadPrevious
  /\ Goto("deep")
  /\ UNCHANGED <<onDisk, sess, skip, current, bad, quick, next, cancel, history, options>>

IndexMissing ==
  /\ mode = "deep" /\ pc = "open" /\ index = NoIndex
  /\ Return("failed")
  /\ UNCHANGED <<onDisk, startAt, harm, resumes, crashes, options>>

DeepCancelled ==
  /\ mode = "deep" /\ pc = "deep" /\ cancel
  /\ next' = "cancelled" /\ Goto("report")
  /\ UNCHANGED <<onDisk, memory, cancel, history, options>>

SkipCandidate ==
  /\ mode = "deep" /\ pc = "deep" /\ ~cancel /\ at < Len(index)
  /\ ~WorthCarving(Candidate)
  /\ at' = at + 1
  /\ UNCHANGED <<onDisk, sess, found, skip, recovered, current, bad, quick, pc, next,
                 cancel, history, options>>

CarveCandidate ==
  /\ mode = "deep" /\ pc = "deep" /\ ~cancel /\ at < Len(index)
  /\ WorthCarving(Candidate)
  /\ at' = at + 1
  /\ current' = [Nothing EXCEPT !.body = Body(Candidate)]
  /\ Goto("deepCopy")
  /\ UNCHANGED <<onDisk, sess, found, skip, recovered, bad, quick, next, cancel,
                 history, options>>

(* The copy fails, or the rename: the loop goes on to the next candidate.  *)
CopyFails ==
  /\ pc = "deepCopy"
  /\ \/ cancel /\ UNCHANGED harm
     \/ May("write") /\ harm' = harm \cup {"write"}
  /\ current' = Nothing /\ Goto("deep")
  /\ UNCHANGED <<onDisk, sess, at, found, skip, recovered, bad, quick, next, cancel,
                 result, startAt, resumes, crashes, options>>

(* The candidate is done: it is renamed or dropped as a duplicate.         *)
WrongProcessed == [sess EXCEPT !.phase = "extracting", !.processed = at + 1, !.found = found']
Processed == [sess EXCEPT !.phase = "extracting", !.processed = at, !.found = found']

CopyDone ==
  LET c == index[at]
      file == [current EXCEPT !.name = UniquePath(<<found + 1, c.off>>)]
  IN  /\ pc = "deepCopy"
      /\ Keep(file)
      /\ skip' = Greatest(skip, c.off + Len(current.body))
      /\ sess' = Processed
      /\ current' = Nothing
      /\ Goto(IF at % SaveEvery = 0 \/ ~Duplicate(file.body) THEN "deepSave" ELSE "deep")
      /\ UNCHANGED <<fails, saved, index, report, image, badMap, at, bad, quick, next,
                     cancel, history, options>>

(* The session first, then the report.                                     *)
SaveDeep ==
  /\ pc = "deepSave"
  /\ SaveSession(sess)
  /\ next' = "deep" /\ Goto("report")
  /\ UNCHANGED <<fails, index, files, report, image, badMap, memory, cancel, result,
                 startAt, resumes, crashes, options>>

CompleteDeep ==
  /\ mode = "deep" /\ pc = "deep" /\ ~cancel /\ at = Len(index)
  /\ sess' = [sess EXCEPT !.phase = "completed", !.processed = Len(index),
                          !.found = found, !.done = TRUE]
  /\ SaveSession(sess')
  /\ next' = "finished" /\ Goto("report")
  /\ UNCHANGED <<fails, index, files, report, image, badMap, at, found, skip, recovered,
                 current, bad, quick, cancel, result, startAt, resumes, crashes, options>>

DeepNext == OpenIndex \/ IndexMissing \/ DeepCancelled \/ SkipCandidate \/ CarveCandidate
            \/ CopyFails \/ CopyDone \/ SaveDeep \/ CompleteDeep

-----------------------------------------------------------------------------
Elements(s) == {s[i] : i \in DOMAIN s}
DeepDone == mode = "deep" /\ result = "ok" /\ pc = "idle"

(* What a run that nothing disturbs recovers: the candidates in order, less*)
(* those that begin inside a file recovered before.                        *)
Undisturbed ==
  LET all == SortCandidates(given)
      Worth(c, skipped) ==
        c.kind < KindCount /\ c.off < RangeEnd /\ c.off >= skipped
        /\ Carved[c.off] > 0 /\ Carved[c.off] >= MinFileSize
      after[n \in 0 .. Len(all)] ==
        IF n = 0 THEN [skip |-> 0, bodies |-> {}]
        ELSE IF ~Worth(all[n], after[n - 1].skip) THEN after[n - 1]
        ELSE [skip |-> Greatest(after[n - 1].skip, all[n].off + Carved[all[n].off]),
              bodies |-> after[n - 1].bodies \cup {Body(all[n])}]
  IN  after

(* The index has every candidate of the scan, once and in order.           *)
IndexExact ==
  index # NoIndex =>
    /\ Elements(index) = Elements(given)
    /\ \A i, j \in DOMAIN index : i < j => Before(index[i], index[j])

(* Candidates whose files overlap without one inside the other.            *)
Crossing ==
  \E c, d \in Elements(given) :
    c.off < d.off /\ d.off < c.off + Carved[c.off]
    /\ c.off + Carved[c.off] < d.off + Carved[d.off]

(* An extraction that ends has recovered what an undisturbed one recovers, *)
(* however often it was cancelled or killed before and went on from the    *)
(* session.  Only crossing candidates need an undisturbed run: the end of  *)
(* the last file is not in the session.  Write errors are passed over.     *)
NothingMissed ==
  DeepDone /\ "write" \notin harm /\ (resumes = 0 \/ ~Crossing) =>
    \A body \in Undisturbed[Len(SortCandidates(given))].bodies :
      \E f \in files : f.body = body

(* A file that was recovered is listed in the report of the call that ends *)
(* the extraction, but for one per kill, between its rename and its report;*)
(* a kill while the report is written loses what it listed.                *)
Unlisted == {f \in files : ~\E i \in DOMAIN report.items : report.items[i].name = f.name}
ReportComplete ==
  DeepDone /\ harm \cap {"write", "torn"} = {} => Cardinality(Unlisted) <= crashes

(* With SkipDuplicates the same contents are stored once, and once more for*)
(* each kill.                                                              *)
NoCopyTwice ==
  mode = "deep" /\ SkipDuplicates /\ harm \cap {"write", "torn"} = {} =>
    Cardinality(files) - Cardinality({f.body : f \in files}) <= crashes

(* An interrupted session finds its index: it goes with the session that   *)
(* needs it no more.                                                       *)
SessionHasIndex ==
  mode = "deep" /\ saved # NoSession /\ ~saved.done /\ "save" \notin harm => index # NoIndex
=============================================================================
