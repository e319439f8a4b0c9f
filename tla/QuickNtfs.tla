------------------------------ MODULE QuickNtfs ------------------------------
(***************************************************************************)
(* recovery/ntfs.go, recoverQuickNTFS: the MFT is read record by record,   *)
(* then every deleted file is copied from its runs and renamed, all of it  *)
(* through the cached reader.  A resumed call starts over in the directory *)
(* of the one before, whose report it does not read.                       *)
(*                                                                         *)
(* Simplifications.                                                        *)
(*  - The reports, written by recoverQuickNTFS and once more by Recover    *)
(*    with the same contents, are written once.                            *)
(*  - What the session says before it is completed is not read back and    *)
(*    left out.  The categories let every name pass.                       *)
(***************************************************************************)
EXTENDS RecoverCall

CONSTANTS
  CopyBuffer,   \* of writeNTFSData
  MinSize,      \* the option MinFileSize
  QuickPoints   \* waitControl calls a read may pass before it sees a cancel

ASSUME QuickAssumption ==
  CopyBuffer \in Nat \ {0} /\ MinSize \in Nat /\ QuickPoints \subseteq Nat

(* The cached reader as this call has it, and what a read leaves of it.    *)
Cache(passes) ==
  [st |-> [Stack(fails, passes, damage) EXCEPT !.bad = bad], blocks |-> blocks]
CancelMoments == {Never} \cup (IF "cancel" \in Faults THEN QuickPoints ELSE {})
After(ca) ==
  /\ fails' = ca.st.fails /\ bad' = ca.st.bad /\ blocks' = ca.blocks
  /\ cancel' = Cancelled(ca.st)

(* An error: Recover writes the reports.                                   *)
Report(then) == next' = then /\ Goto("report")
ReturnFailed ==
  /\ pc = "failed" /\ Return("failed")
  /\ UNCHANGED <<onDisk, startAt, harm, resumes, crashes, options>>

OpenVolume ==
  /\ mode = "quick" /\ pc = "open"
  /\ \E passes \in CancelMoments :
       LET r == OpenNTFSVolume(Cache(passes), volume) IN
       /\ After(r.ca) /\ vol' = r.vol
       /\ \/ r.result = "ok" /\ Goto("mft") /\ UNCHANGED next
          \/ r.result = "failed" /\ Report("failed")
  /\ UNCHANGED <<saved, index, files, report, image, badMap, sess, at, found, skip,
                 recovered, current, entries, history, options>>

(* The goroutine of the caller ends, with an error shown to the user.      *)
OpenPanics ==
  /\ mode = "quick" /\ pc = "open"
  /\ OpenNTFSVolume(Cache(Never), volume).result = "panic"
  /\ Return("panic")
  /\ UNCHANGED <<onDisk, startAt, harm, resumes, crashes, options>>

(* scanMFT, one record.                                                    *)
Records == vol.size \div vol.record
ScanRecord ==
  /\ pc = "mft" /\ ~cancel /\ at < Records
  /\ \E passes \in CancelMoments :
       LET r == ReadStream(Cache(passes), vol, vol.runs, at * vol.record, Zeros(vol.record))
           rec == RecordIn(volume, r.out)
       IN  /\ After(r.ca)
           /\ entries' = IF r.failed \/ ~ApplyFixup(rec) THEN entries
                         ELSE Append(entries, ParseRecord(rec, at))
  /\ at' = at + 1
  /\ UNCHANGED <<saved, index, files, report, image, badMap, sess, found, skip, recovered,
                 current, vol, pc, next, history, options>>

QuickCancelled ==
  /\ mode = "quick" /\ cancel
  /\ \/ pc = "mft" /\ at < Records
     \/ pc = "quick" /\ at < Len(entries)
  /\ Report("cancelled")
  /\ UNCHANGED <<onDisk, memory, cancel, history, options>>

ListDeleted ==
  /\ pc = "mft" /\ at >= Records
  /\ entries' = Deleted(entries, MinSize)
  /\ at' = 0 /\ Goto("quick")
  /\ UNCHANGED <<onDisk, sess, found, skip, recovered, current, bad, blocks, vol, next,
                 cancel, history, options>>

(* writeNTFSData: what it refuses, what is in the record, what is in runs. *)
FileData == entries[at].data
StartFile ==
  /\ pc = "quick" /\ at < Len(entries) /\ ~cancel
  /\ at' = at + 1
  /\ LET data == entries[at + 1].data IN
     IF data.flags # {} \/ (~data.resident /\ data.runs = <<>>)
     THEN UNCHANGED <<current, pc>>
     ELSE /\ current' = [name |-> entries[at + 1].path, cut |-> FALSE,
                         body |-> IF data.resident THEN data.value ELSE <<>>]
          /\ Goto("quickCopy")
  /\ UNCHANGED <<onDisk, sess, found, skip, recovered, bad, quick, next, cancel, history,
                 options>>

(* The buffer still holds the chunk before.                                *)
Copied == FileData.resident \/ Len(current.body) >= FileData.real
Buffer(want) ==
  IF current.body = <<>> THEN Zeros(want)
  ELSE SubSeq(current.body, Len(current.body) - CopyBuffer + 1,
              Len(current.body) - CopyBuffer + want)

(* A file that fails is removed and the next one is tried.                 *)
DropFile == current' = Nothing /\ Goto("quick")

CopyChunk ==
  /\ pc = "quickCopy" /\ ~Copied /\ ~cancel
  /\ \E passes \in CancelMoments :
       LET want == Least(CopyBuffer, FileData.real - Len(current.body))
           r == ReadStream(Cache(passes), vol, FileData.runs, Len(current.body), Buffer(want))
       IN  /\ After(r.ca)
           /\ \/ r.failed /\ DropFile
              \/ ~r.failed /\ UNCHANGED pc
                 /\ current' = [current EXCEPT !.body = @ \o r.out, !.cut = @ \/ r.cut]
  /\ UNCHANGED <<saved, index, files, report, image, badMap, sess, at, found, skip,
                 recovered, vol, entries, next, history, options>>

CopyStops ==
  /\ pc = "quickCopy"
  /\ \/ cancel /\ ~Copied /\ UNCHANGED harm
     \/ \E fault \in {"write", "sync"} : May(fault) /\ harm' = harm \cup {fault}
  /\ DropFile
  /\ UNCHANGED <<onDisk, sess, at, found, skip, recovered, bad, quick, next, cancel,
                 result, startAt, resumes, crashes, options>>

KeepFile ==
  /\ pc = "quickCopy" /\ Copied
  /\ Keep([current EXCEPT !.name = UniquePath(current.name)])
  /\ current' = Nothing /\ Goto("quick")
  /\ UNCHANGED <<fails, saved, index, report, image, badMap, sess, at, skip, bad, quick,
                 next, cancel, history, options>>

CompleteQuick ==
  /\ pc = "quick" /\ at = Len(entries)
  /\ sess' = [sess EXCEPT !.phase = "completed", !.done = TRUE]
  /\ SaveSession(sess')
  /\ Report("finished")
  /\ UNCHANGED <<fails, index, files, report, image, badMap, at, found, skip, recovered,
                 current, bad, quick, cancel, result, startAt, resumes, crashes, options>>

QuickNext == OpenVolume \/ OpenPanics \/ ScanRecord \/ QuickCancelled \/ ListDeleted
             \/ StartFile \/ CopyChunk \/ CopyStops \/ KeepFile \/ CompleteQuick
             \/ ReturnFailed

-----------------------------------------------------------------------------
(* A file stored by the quick mode is, under the path its directories had, *)
(* what the volume held: with zeros only where units near it would not be  *)
(* read.  A file that the cancel cut is not: the end of its last chunk is  *)
(* what the buffer held before.                                            *)
QuickFaithful ==
  mode = "quick" =>
    \A f \in files : ~f.cut =>
      /\ f.name[1] \in DOMAIN volume.layout
      /\ LET truth == volume.layout[f.name[1]] IN
         /\ Len(f.body) = Len(truth)
         /\ \A i \in DOMAIN truth :
              f.body[i] = truth[i] \/ (f.body[i] = Zero /\ NearWeak(truth[i]))

(* A call that ends well has every deleted file of the volume whose record *)
(* could be read, as a file or as a duplicate of one, whatever calls were  *)
(* cancelled or killed before it.                                          *)
QuickComplete ==
  mode = "quick" /\ result = "ok" /\ pc = "idle" /\ harm \cap {"write", "sync"} = {} =>
    \A path \in DOMAIN volume.layout :
      \/ NearWeak(volume.recordAt[path])
      \/ \E f \in files : f.name[1] = path
      \/ SkipDuplicates /\ \E f \in files :
           f.name[1] # path /\ f.name[1] \in DOMAIN volume.layout
           /\ volume.layout[f.name[1]] = volume.layout[path]
=============================================================================
