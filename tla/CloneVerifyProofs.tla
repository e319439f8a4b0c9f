------------------------- MODULE CloneVerifyProofs -------------------------
(***************************************************************************)
(* What CloneDisk says of a clone - verified, table adapted - for every    *)
(* number of blocks, disks, sessions and crashes, and whatever fails: also *)
(* a destination that stores other bytes than it was given.                *)
(***************************************************************************)
EXTENDS CloneDiskProofs

(* A disk holds the lines of the manifest, its table perhaps written again;*)
(* its table is adapted; or it holds the lines and a table that is not half*)
(* written.  The contents are arguments: they speak of the next state too. *)
Adapted(b) == IF b \in GptBlocks THEN {"gpt"} ELSE {}
HoldsManifest(held, lines, d) == \A b \in Blocks : held[d][b] \subseteq {lines[b]} \cup Table(b)
TableAdapted(held, d) == \A b \in GptBlocks : held[d][b] = {"gpt"}
Approved(held, lines, d) == \A b \in Blocks : held[d][b] \subseteq {lines[b]} \cup Adapted(b)

(* The steps after the copy run with every block copied and every line of  *)
(* the manifest durable.                                                   *)
AfterCopy == {"finalSync", "markCompleted", "verify", "verified", "adjust",
              "adjustSync", "saveGpt", "report"}
CopyEnded ==
  /\ pc \in {"discard", "truncate", "writeback", "checkLast", "open", "copy", "write",
             "append"} => ~forced
  /\ pc \in {"ckManifest", "ckDest", "ckSave"} /\ forced /\ ~failed => offset = N
  /\ pc \in {"ckDest", "ckSave"} => manDur = manLen
  /\ pc \in AfterCopy => offset = N /\ manLen = N /\ manDur = N
  /\ pc \notin AfterCopy \cup {"idle", "load"} \/ pc \in {"finalSync", "markCompleted"} => vpos = 0
  /\ pc \in AfterCopy \ {"finalSync", "markCompleted"} => completed

(* The verification compares what the last sync made durable.              *)
Compared ==
  /\ pc \in {"markCompleted", "verify", "verified", "adjust"} =>
       \A b \in Blocks : pend[target][b] = {cur[target][b]}
  /\ pc = "verify" /\ ~vbad => \A b \in Blocks : b < vpos => cur[target][b] = man[b]
  /\ (pc = "verified" /\ verified) \/ (pc = "adjust" /\ opt.verify) =>
       \A b \in Blocks : cur[target][b] = man[b]
  /\ pc = "adjustSync" /\ opt.verify =>
       \A b \in Blocks : b \notin GptBlocks => cur[target][b] = man[b]
  /\ pc = "adjustSync" => \A b \in GptBlocks : cur[target][b] = "gpt"
  /\ pc \in {"saveGpt", "report"} /\ opt.verify => Approved(pend, man, target)

CompareInv == ReadIsPending /\ CopyEnded /\ Compared
-----------------------------------------------------------------------------
(* The manifest of a complete session keeps all its lines: a crash does not*)
(* take them once they are synced, and what is lost of a rewriting makes it*)
(* "cut".                                                                  *)
LinesKept == (pc # "writeback" => manLen = N) /\ (rewrite = "no" => manDur = N)

(* As long as no rewriting was cut, a session file that says verified or   *)
(* adapted is complete, and so is its manifest; what it says of the disk   *)
(* stays true.                                                             *)
Resumed == pc \in {"truncate", "writeback", "checkLast"}
SavedFinal ==
  saved # NoState /\ rewrite # "cut" =>
    /\ saved.verified \/ saved.gpt => saved.off = N /\ LinesKept
    /\ saved.verified => HoldsManifest(pend, man, saved.disk)
    /\ saved.gpt =>
         /\ saved.completed /\ TableAdapted(pend, saved.disk)
         /\ pc \in {"idle", "load", "discard", "truncate", "writeback", "checkLast", "report"}
    /\ pc \notin {"idle", "load", "discard"} =>
         saved.disk = target /\ (saved.verified \/ saved.gpt => offset = N)

MemoryFinal ==
  rewrite # "cut" =>
    /\ Resumed => /\ saved # NoState
                  /\ completed = saved.completed /\ verified = saved.verified /\ gpt = saved.gpt
    /\ pc \notin {"idle", "load"} /\ verified =>
         offset = N /\ LinesKept /\ HoldsManifest(pend, man, target)
    /\ pc \notin {"idle", "load"} /\ gpt =>
         Resumed \/ (pc \in {"saveGpt", "report"} /\ TableAdapted(pend, target))

ResultFinal ==
  result.kind = "ok" =>
    /\ pc = "idle"
    /\ rewrite # "cut" =>
         /\ result.gpt => TableAdapted(pend, target)
         /\ result.verified => Approved(pend, man, target)

FinalInv == SavedFinal /\ MemoryFinal /\ ResultFinal
-----------------------------------------------------------------------------
(* What the steps that reach the destination leave there.                  *)

(* A block is written over by c, and nothing else on any disk.             *)
Overwrites(at, c, left) ==
  \A d \in Disks, b \in Blocks :
    /\ cur'[d][b] = IF d = target /\ b = at THEN c ELSE cur[d][b]
    /\ pend'[d][b] = IF d = target /\ b = at THEN left ELSE pend[d][b]

(* A sync leaves what is read, and nothing else pending.                   *)
LEMMA SyncEffect ==
  ASSUME TypeInv, SyncDestination
  PROVE  \A d \in Disks, b \in Blocks :
           pend'[d][b] = IF d = target THEN {cur[d][b]} ELSE pend[d][b]
BY DEF SyncDestination, TypeInv, TypeOK, DiskOK, DataOK

(* A written block holds what was written, or may hold it.                 *)
LEMMA WriteEffect ==
  ASSUME TypeInv, WriteBlock
  PROVE  /\ offset \in Blocks
         /\ \E c \in {buf} \cup (IF May("corrupt") THEN {"torn"} ELSE {}) :
              Overwrites(offset, c, AfterWrite(pend[target][offset], c, "torn"))
<1>1. offset \in Blocks /\ target \in Disks
  BY AtOffset DEF WriteBlock, TypeInv, TypeOK, DataOK
<1>2. PICK c \in {buf} \cup (IF May("corrupt") THEN {"torn"} ELSE {}) :
        /\ cur' = [cur EXCEPT ![target][offset] = c]
        /\ pend' = [pend EXCEPT ![target][offset] = AfterWrite(@, c, "torn")]
  BY DEF WriteBlock
<1>3. Overwrites(offset, c, AfterWrite(pend[target][offset], c, "torn"))
  BY <1>1, <1>2 DEF Overwrites, TypeInv, TypeOK, DiskOK
<1> QED
  BY <1>1, <1>2, <1>3

(* A write cut short leaves something it may leave.                        *)
LEMMA PartialEffect ==
  ASSUME TypeInv, pc = "write", PartialWrite
  PROVE  /\ offset \in Blocks
         /\ \E c \in AfterWrite(pend[target][offset], buf, "torn") :
              Overwrites(offset, c, AfterWrite(pend[target][offset], buf, "torn"))
<1>1. offset \in Blocks /\ target \in Disks
  BY AtOffset DEF TypeInv, TypeOK, DataOK
<1>2. PICK c \in AfterWrite(pend[target][offset], buf, "torn") :
        cur' = [cur EXCEPT ![target][offset] = c]
  BY DEF PartialWrite
<1>3. pend' = [pend EXCEPT ![target][offset] = AfterWrite(@, buf, "torn")]
  BY DEF PartialWrite
<1>4. Overwrites(offset, c, AfterWrite(pend[target][offset], buf, "torn"))
  BY <1>1, <1>2, <1>3 DEF Overwrites, TypeInv, TypeOK, DiskOK
<1> QED
  BY <1>1, <1>2, <1>4

(* So does a rewriting of the table.                                       *)
LEMMA RewriteEffect ==
  ASSUME TypeInv, NEW g \in GptBlocks, NEW c, Rewrite(g, c)
  PROVE  /\ g \in Blocks
         /\ Overwrites(g, c, AfterWrite(pend[target][g], "gpt", "gptmix"))
<1>1. g \in Blocks /\ target \in Disks
  BY CloneAssumption DEF Blocks, TypeInv, TypeOK, DataOK
<1> QED
  BY <1>1 DEF Rewrite, Overwrites, TypeInv, TypeOK, DiskOK

(* A power loss settles every block on something it could leave there.     *)
LEMMA PowerEffect ==
  ASSUME TypeInv, ReadIsPending, PowerLoss
  PROVE  \A d \in Disks, b \in Blocks :
           cur'[d][b] \in pend[d][b] /\ pend'[d][b] = {cur'[d][b]}
<1> DEFINE unsynced == {p \in Disks \X Blocks : pend[p[1]][p[2]] # {cur[p[1]][p[2]]}}
<1>1. PICK left \in [unsynced -> Content] :
        /\ \A p \in unsynced : left[p] \in pend[p[1]][p[2]]
        /\ cur' = [d \in Disks |-> [b \in Blocks |->
                     IF <<d, b>> \in unsynced THEN left[<<d, b>>] ELSE cur[d][b]]]
  BY DEF PowerLoss
<1> SUFFICES ASSUME NEW d \in Disks, NEW b \in Blocks
             PROVE  cur'[d][b] \in pend[d][b] /\ pend'[d][b] = {cur'[d][b]}
  OBVIOUS
<1>2. pend' = [e \in Disks |-> [x \in Blocks |-> {cur'[e][x]}]]
  BY DEF PowerLoss
<1>3. <<d, b>> \in unsynced <=> pend[d][b] # {cur[d][b]}
  OBVIOUS
<1>4. cur'[d][b] = IF <<d, b>> \in unsynced THEN left[<<d, b>>] ELSE cur[d][b]
  <2> HIDE DEF unsynced
  <2> QED
    BY <1>1
<1>5. <<d, b>> \in unsynced => left[<<d, b>>] \in pend[d][b]
  BY <1>1
<1>6. cur[d][b] \in pend[d][b]
  BY DEF ReadIsPending
<1> QED
  BY <1>2, <1>3, <1>4, <1>5, <1>6

(* Every write leaves what is read among what may be left.                 *)
LEMMA ReadStep ==
  ASSUME TypeInv, ReadIsPending, [Next]_vars
  PROVE  ReadIsPending'
<1>1. CASE UNCHANGED disk
  BY <1>1 DEF disk, ReadIsPending
<1>2. CASE SyncDestination /\ UNCHANGED cur
  BY <1>2, SyncEffect DEF ReadIsPending
<1>3. CASE WriteBlock
  BY ZenonT(60), <1>3, WriteEffect DEF ReadIsPending, Overwrites, AfterWrite
<1>4. CASE pc = "write" /\ PartialWrite
  BY <1>4, PartialEffect DEF ReadIsPending, Overwrites
<1>5. CASE PowerLoss
  BY <1>5, PowerEffect DEF ReadIsPending
<1>6. ASSUME NEW g \in GptBlocks, NEW c \in AfterWrite({cur[target][g]}, "gpt", "gptmix") \cup {"gpt"},
             Rewrite(g, c)
      PROVE  ReadIsPending'
  <2>1. c \in AfterWrite(pend[target][g], "gpt", "gptmix")
    <3>1. cur[target][g] \in pend[target][g]
      BY CloneAssumption DEF ReadIsPending, TypeInv, TypeOK, DataOK, Blocks
    <3> QED
      BY <1>6, <3>1 DEF AfterWrite
  <2> QED
    BY <1>6, <2>1, RewriteEffect DEF ReadIsPending, Overwrites
<1>7. CASE AdjustTable
  <2>1. \E g \in GptBlocks :
          \E c \in AfterWrite({cur[target][g]}, "gpt", "gptmix") \cup {"gpt"} : Rewrite(g, c)
    BY <1>7 DEF AdjustTable
  <2> QED
    BY <1>6, <2>1
<1>8. CASE Kill
  <2>1. CASE \E b \in GptBlocks : cur[target][b] \in {"data", "gptmix"} /\ Rewrite(b, "gptmix")
    <3>1. PICK g \in GptBlocks : cur[target][g] \in {"data", "gptmix"} /\ Rewrite(g, "gptmix")
      BY <2>1
    <3>2. "gptmix" \in AfterWrite({cur[target][g]}, "gpt", "gptmix")
      <4>1. {cur[target][g]} # {"gpt"}
        BY <3>1
      <4> QED
        BY <4>1 DEF AfterWrite
    <3> QED
      BY <1>6, <3>1, <3>2
  <2> QED
    BY <1>1, <1>4, <1>8, <2>1 DEF Kill
<1> USE DEF disk, file, work, stv, call, user, count
<1>9. CASE Open
  BY <1>1, <1>9 DEF Open, Load, Discard, TruncateManifest, WriteBackManifest, CheckLastBlock,
     OpenManifest
<1>10. CASE Copy
  BY <1>1, <1>3, <1>4, <1>10 DEF Copy, ReadBlock, CopyCancelled, CopyDone, WriteBlockFails,
     AppendManifest
<1>11. CASE Checkpoint
  BY <1>1, <1>2, <1>11 DEF Checkpoint, CheckpointManifest, CheckpointDestination,
     CheckpointSave, ManifestCloseFails, SaveInterrupted
<1>12. CASE Finish
  BY <1>1, <1>2, <1>7, <1>12 DEF Finish, FinalSync, MarkCompleted, VerifyStops, VerifyBlock,
     VerifyDone, VerifyResult, NoTable, TableRefused, AdjustSync, SaveAdjusted, WriteReports
<1>13. CASE Begin \/ Cancel \/ TogglePause
  BY <1>1, <1>13 DEF Begin, Start, Cancel, TogglePause
<1>14. CASE UNCHANGED vars
  BY <1>1, <1>14 DEF vars
<1> QED
  BY <1>5, <1>8, <1>9, <1>10, <1>11, <1>12, <1>13, <1>14 DEF Next, Engine
-----------------------------------------------------------------------------
(* Where the copy stands: the steps after it have all blocks and all lines.*)

(* CopyEnded through every step.                                           *)
LEMMA EndedStep ==
  ASSUME TypeInv, CopyEnded, [Next]_vars
  PROVE  CopyEnded'
<1> USE CloneAssumption
    DEF CopyEnded, AfterCopy, TypeInv, TypeOK, DataOK, InRange, Goto, Fail, Return,
        file, disk, work, stv, call, user, count
<1>1. CASE Open
  <2>1. CASE Load
    BY <2>1 DEF Load, LoadCloneManifest, CloneStateMatches, Min2
  <2>2. CASE Discard
    BY <2>2 DEF Discard
  <2>3. CASE TruncateManifest
    BY <2>3 DEF TruncateManifest
  <2>4. CASE WriteBackManifest
    BY <2>4 DEF WriteBackManifest
  <2>5. CASE CheckLastBlock
    BY <2>5 DEF CheckLastBlock
  <2>6. CASE OpenManifest
    BY <2>6 DEF OpenManifest
  <2> QED
    BY <1>1, <2>1, <2>2, <2>3, <2>4, <2>5, <2>6 DEF Open
<1>2. CASE Copy
  <2>1. CASE ReadBlock
    BY <2>1 DEF ReadBlock
  <2>2. CASE CopyCancelled
    BY <2>2 DEF CopyCancelled
  <2>3. CASE CopyDone
    BY <2>3 DEF CopyDone
  <2>4. CASE WriteBlock
    BY <2>4 DEF WriteBlock
  <2>5. CASE WriteBlockFails
    BY <2>5 DEF WriteBlockFails, PartialWrite
  <2>6. CASE AppendManifest
    BY <2>6 DEF AppendManifest
  <2> QED
    BY <1>2, <2>1, <2>2, <2>3, <2>4, <2>5, <2>6 DEF Copy
<1>3. CASE Checkpoint
  <2>1. CASE CheckpointManifest
    BY <2>1 DEF CheckpointManifest, CheckpointFails
  <2>2. CASE CheckpointDestination
    BY <2>2 DEF CheckpointDestination, CheckpointFails
  <2>3. CASE CheckpointSave
    BY <2>3 DEF CheckpointSave, CheckpointFails, Snapshot
  <2>4. CASE ManifestCloseFails
    BY <2>4 DEF ManifestCloseFails
  <2>5. CASE SaveInterrupted
    BY <2>5 DEF SaveInterrupted, Snapshot
  <2> QED
    BY <1>3, <2>1, <2>2, <2>3, <2>4, <2>5 DEF Checkpoint
<1>4. CASE Finish
  <2>1. CASE FinalSync
    BY <2>1 DEF FinalSync
  <2>2. CASE MarkCompleted
    BY <2>2 DEF MarkCompleted, SaveThenGoto, Snapshot
  <2>3. CASE VerifyStops
    BY <2>3 DEF VerifyStops
  <2>4. CASE VerifyBlock
    BY <2>4 DEF VerifyBlock, LoadCloneManifest, Min2
  <2>5. CASE VerifyDone
    BY <2>5 DEF VerifyDone, SaveThenGoto, Snapshot, LoadCloneManifest, Min2
  <2>6. CASE VerifyResult
    BY <2>6 DEF VerifyResult
  <2>7. CASE AdjustTable
    BY <2>7 DEF AdjustTable
  <2>8. CASE NoTable
    BY <2>8 DEF NoTable
  <2>9. CASE TableRefused
    BY <2>9 DEF TableRefused
  <2>10. CASE AdjustSync
    BY <2>10 DEF AdjustSync
  <2>11. CASE SaveAdjusted
    BY <2>11 DEF SaveAdjusted, SaveThenGoto, Snapshot
  <2>12. CASE WriteReports
    BY <2>12 DEF WriteReports
  <2> QED
    BY <1>4, <2>1, <2>2, <2>3, <2>4, <2>5, <2>6, <2>7, <2>8, <2>9, <2>10, <2>11, <2>12 DEF Finish
<1>5. CASE Begin \/ Cancel \/ TogglePause
  BY <1>5 DEF Begin, Start, Cancel, TogglePause
<1>6. CASE Kill
  BY <1>6 DEF Kill, Crash
<1>7. CASE PowerLoss
  <2>1. pc' = "idle" /\ UNCHANGED work
    BY <1>7 DEF PowerLoss, Crash
  <2> QED
    BY <2>1
<1>8. CASE UNCHANGED vars
  BY <1>8 DEF vars
<1> QED
  BY <1>1, <1>2, <1>3, <1>4, <1>5, <1>6, <1>7, <1>8 DEF Next, Engine
-----------------------------------------------------------------------------
(* What the verification compared stays as it was compared.                *)

(* Compared through every step.                                            *)
LEMMA ComparedStep ==
  ASSUME TypeInv, CopyEnded, Compared, [Next]_vars
  PROVE  Compared'
<1> USE CloneAssumption
    DEF Compared, CopyEnded, AfterCopy, TypeInv, TypeOK, DataOK, InRange, Approved, Adapted, Blocks,
        Goto, Fail, Return, file, disk, work, stv, call, user, count
<1>1. CASE Open
  <2>1. CASE Load
    BY <2>1 DEF Load, LoadCloneManifest, CloneStateMatches, Min2
  <2>2. CASE Discard
    BY <2>2 DEF Discard
  <2>3. CASE TruncateManifest
    BY <2>3 DEF TruncateManifest
  <2>4. CASE WriteBackManifest
    BY <2>4 DEF WriteBackManifest
  <2>5. CASE CheckLastBlock
    BY <2>5 DEF CheckLastBlock
  <2>6. CASE OpenManifest
    BY <2>6 DEF OpenManifest
  <2> QED
    BY <1>1, <2>1, <2>2, <2>3, <2>4, <2>5, <2>6 DEF Open
<1>2. CASE Copy
  <2>1. CASE ReadBlock
    BY <2>1 DEF ReadBlock
  <2>2. CASE CopyCancelled
    BY <2>2 DEF CopyCancelled
  <2>3. CASE CopyDone
    BY <2>3 DEF CopyDone
  <2>4. CASE WriteBlock
    BY <2>4 DEF WriteBlock
  <2>5. CASE WriteBlockFails
    BY <2>5 DEF WriteBlockFails, PartialWrite
  <2>6. CASE AppendManifest
    BY <2>6 DEF AppendManifest
  <2> QED
    BY <1>2, <2>1, <2>2, <2>3, <2>4, <2>5, <2>6 DEF Copy
<1>3. CASE Checkpoint
  <2>1. CASE CheckpointManifest
    BY <2>1 DEF CheckpointManifest, CheckpointFails
  <2>2. CASE CheckpointDestination
    BY <2>2 DEF CheckpointDestination, CheckpointFails
  <2>3. CASE CheckpointSave
    BY <2>3 DEF CheckpointSave, CheckpointFails, Snapshot
  <2>4. CASE ManifestCloseFails
    BY <2>4 DEF ManifestCloseFails
  <2>5. CASE SaveInterrupted
    BY <2>5 DEF SaveInterrupted, Snapshot
  <2> QED
    BY <1>3, <2>1, <2>2, <2>3, <2>4, <2>5 DEF Checkpoint
<1>4. CASE Finish
  <2>1. CASE FinalSync
    <3>1. CASE SyncDestination
      BY <2>1, <3>1, SyncEffect DEF FinalSync
    <3>2. CASE ~SyncDestination
      BY <2>1, <3>2 DEF FinalSync
    <3> QED
      BY <3>1, <3>2
  <2>2. CASE MarkCompleted
    <3>1. pc' \in {"idle", "verify", "adjust"} /\ UNCHANGED <<cur, pend, man, opt, target, vpos>>
      BY <2>2 DEF MarkCompleted, SaveThenGoto, Snapshot
    <3>2. pc = "markCompleted" /\ (pc' = "verify" => opt.verify) /\ (pc' = "adjust" => ~opt.verify)
      BY <2>2 DEF MarkCompleted, SaveThenGoto
    <3>3. vpos' = 0
      BY <3>1, <3>2
    <3> QED
      BY <3>1, <3>2, <3>3
  <2>3. CASE VerifyStops
    BY <2>3 DEF VerifyStops
  <2>4. CASE VerifyBlock
    <3>1. pc' \in {"verify"} /\ UNCHANGED <<cur, pend, man, opt, target>>
      BY <2>4 DEF VerifyBlock, LoadCloneManifest, Min2
    <3>2. /\ pc = "verify" /\ vpos < N /\ vpos' = vpos + 1
          /\ ~vbad' => ~vbad /\ cur[target][vpos] = man[vpos]
      BY <2>4 DEF VerifyBlock, LoadCloneManifest, Min2, FlagsOK
    <3>3. ASSUME ~vbad', NEW b \in Blocks, b < vpos'
          PROVE  cur[target][b] = man[b]
      BY <3>2, <3>3
    <3> QED
      BY <3>1, <3>2, <3>3
  <2>5. CASE VerifyDone
    <3>1. pc' \in {"idle", "verified"} /\ UNCHANGED <<cur, pend, man, opt, target>>
      BY <2>5 DEF VerifyDone, SaveThenGoto, Snapshot, LoadCloneManifest, Min2
    <3>2. pc = "verify" /\ (verified' => ~vbad /\ vpos >= N)
      BY <2>5 DEF VerifyDone, SaveThenGoto
    <3> QED
      BY <3>1, <3>2
  <2>6. CASE VerifyResult
    BY <2>6 DEF VerifyResult
  <2>7. CASE AdjustTable
    <3>1. PICK g \in GptBlocks :
            Rewrite(g, "gpt") \/ (pc' = "idle" /\ \E c \in AfterWrite({cur[target][g]}, "gpt", "gptmix") : Rewrite(g, c))
      BY <2>7 DEF AdjustTable
    <3>2. \A b \in GptBlocks : b = g
      BY ONLY g \in GptBlocks, CloneAssumption DEF CloneAssumption
    <3>3. PICK c : Rewrite(g, c) /\ (c = "gpt" \/ pc' = "idle")
      BY <3>1
    <3>4. Overwrites(g, c, AfterWrite(pend[target][g], "gpt", "gptmix"))
      BY <3>3, RewriteEffect
    <3>5. pc' \in {"idle", "adjustSync"} /\ UNCHANGED <<man, opt, target>> /\ pc = "adjust"
      BY <2>7 DEF AdjustTable
    <3>6. CASE pc' = "idle"
      BY <3>6
    <3>7. CASE pc' = "adjustSync"
      BY <3>2, <3>3, <3>4, <3>5, <3>7 DEF Overwrites
    <3> QED
      BY <3>5, <3>6, <3>7
  <2>8. CASE NoTable
    BY <2>8 DEF NoTable
  <2>9. CASE TableRefused
    BY <2>9 DEF TableRefused
  <2>10. CASE AdjustSync
    <3>1. CASE pc' = "idle"
      BY <3>1
    <3>2. CASE pc' # "idle"
      <4>1. /\ pc = "adjustSync" /\ pc' = "saveGpt" /\ SyncDestination
            /\ UNCHANGED <<cur, man, opt, target>>
        BY <2>10, <3>2 DEF AdjustSync
      <4>2. ASSUME opt.verify, NEW b \in Blocks
            PROVE  pend'[target][b] \subseteq {man[b]} \cup Adapted(b)
        <5>2. CASE b \in GptBlocks
          <6>1. pend'[target][b] = {cur[target][b]} /\ cur[target][b] = "gpt"
            BY <4>1, <5>2, SyncEffect
          <6> QED
            BY <5>2, <6>1
        <5>3. CASE b \notin GptBlocks
          <6>1. pend'[target][b] = {cur[target][b]} /\ cur[target][b] = man[b]
            BY <4>1, <4>2, <5>3, SyncEffect
          <6> QED
            BY <6>1
        <5> QED
          BY <5>2, <5>3
      <4> QED
        BY <4>1, <4>2
    <3> QED
      BY <3>1, <3>2
  <2>11. CASE SaveAdjusted
    BY <2>11 DEF SaveAdjusted, SaveThenGoto, Snapshot
  <2>12. CASE WriteReports
    BY <2>12 DEF WriteReports
  <2> QED
    BY <1>4, <2>1, <2>2, <2>3, <2>4, <2>5, <2>6, <2>7, <2>8, <2>9, <2>10, <2>11, <2>12 DEF Finish
<1>5. CASE Begin \/ Cancel \/ TogglePause
  <2>1. CASE Begin
    BY <2>1 DEF Begin, Start
  <2>2. CASE Cancel \/ TogglePause
    BY <2>2 DEF Cancel, TogglePause
  <2> QED
    BY <1>5, <2>1, <2>2
<1>6. CASE Kill \/ PowerLoss
  <2>1. pc' = "idle"
    BY <1>6 DEF Kill, PowerLoss, Crash
  <2> QED
    BY <2>1
<1>7. CASE UNCHANGED vars
  BY <1>7 DEF vars
<1> QED
  BY <1>1, <1>2, <1>3, <1>4, <1>5, <1>6, <1>7 DEF Next, Engine
-----------------------------------------------------------------------------
(* What a disk holds once it is copied.                                    *)

(* A disk that holds its manifest keeps it, and an adapted table stays     *)
(* adapted, when no block is being copied.                                 *)
LEMMA DiskKept ==
  ASSUME TypeInv, ReadIsPending, [Next]_vars, pc \notin {"write", "append"}, NEW d \in Disks
  PROVE  /\ HoldsManifest(pend, man, d) => HoldsManifest(pend', man', d)
         /\ TableAdapted(pend, d) => TableAdapted(pend', d)
<1> USE DEF HoldsManifest, TableAdapted, Table, file, disk, work, stv, call, user, count
<1>1. GptBlocks \subseteq Blocks
  BY CloneAssumption DEF Blocks
<1>2. UNCHANGED man
  <2>1. CASE Open
    BY <2>1 DEF Open, Load, Discard, TruncateManifest, WriteBackManifest, CheckLastBlock,
       OpenManifest
  <2>2. CASE Copy
    BY <2>2 DEF Copy, ReadBlock, CopyCancelled, CopyDone, WriteBlock, WriteBlockFails,
       AppendManifest
  <2>3. CASE Checkpoint
    BY <2>3 DEF Checkpoint, CheckpointManifest, CheckpointDestination, CheckpointSave,
       ManifestCloseFails, SaveInterrupted
  <2>4. CASE Finish
    BY <2>4 DEF Finish, FinalSync, MarkCompleted, VerifyStops, VerifyBlock, VerifyDone,
       VerifyResult, AdjustTable, NoTable, TableRefused, AdjustSync, SaveAdjusted, WriteReports
  <2>5. CASE Begin \/ Cancel \/ TogglePause \/ Kill \/ PowerLoss
    BY <2>5 DEF Begin, Start, Cancel, TogglePause, Kill, PowerLoss, Crash
  <2>6. CASE UNCHANGED vars
    BY <2>6 DEF vars
  <2> QED
    BY <2>1, <2>2, <2>3, <2>4, <2>5, <2>6 DEF Next, Engine
<1>3. CASE UNCHANGED disk
  BY <1>2, <1>3
<1>4. CASE SyncDestination \/ PowerLoss
  <2>1. ASSUME NEW b \in Blocks PROVE pend'[d][b] \subseteq pend[d][b] /\ pend'[d][b] # {}
    <3>1. cur[d][b] \in pend[d][b]
      BY DEF ReadIsPending
    <3>2. CASE SyncDestination
      <4>1. pend'[d][b] = IF d = target THEN {cur[d][b]} ELSE pend[d][b]
        BY <3>2, SyncEffect
      <4> QED
        BY <3>1, <4>1
    <3>3. CASE PowerLoss
      <4>1. cur'[d][b] \in pend[d][b] /\ pend'[d][b] = {cur'[d][b]}
        BY <3>3, PowerEffect
      <4> QED
        BY <4>1
    <3> QED
      BY <1>4, <3>2, <3>3
  <2> QED
    BY <1>1, <1>2, <2>1
<1>5. ASSUME NEW g \in GptBlocks, NEW c, Rewrite(g, c)
      PROVE  /\ HoldsManifest(pend, man, d) => HoldsManifest(pend', man', d)
             /\ TableAdapted(pend, d) => TableAdapted(pend', d)
  <2>1. Overwrites(g, c, AfterWrite(pend[target][g], "gpt", "gptmix"))
    BY <1>5, RewriteEffect
  <2>2. ASSUME NEW b \in Blocks
        PROVE  pend'[d][b] = pend[d][b] \/ (/\ b = g /\ pend[d][b] # {"gpt"}
                     /\ pend'[d][b] = pend[d][b] \cup {"gpt", "gptmix"})
    BY <2>1 DEF Overwrites, AfterWrite
  <2> QED
    BY <1>1, <1>2, <2>2
<1>6. UNCHANGED disk \/ SyncDestination \/ PowerLoss \/ \E g \in GptBlocks : \E c \in Content : Rewrite(g, c)
  <2>1. CASE Open
    BY <2>1 DEF Open, Load, Discard, TruncateManifest, WriteBackManifest, CheckLastBlock,
       OpenManifest
  <2>2. CASE Copy
    BY <2>2 DEF Copy, ReadBlock, CopyCancelled, CopyDone, WriteBlock, WriteBlockFails,
       AppendManifest
  <2>3. CASE Checkpoint
    BY <2>3 DEF Checkpoint, CheckpointManifest, CheckpointDestination, CheckpointSave,
       ManifestCloseFails, SaveInterrupted
  <2>4. CASE AdjustTable
    <3>1. PICK g \in GptBlocks :
            Rewrite(g, "gpt") \/ \E c \in AfterWrite({cur[target][g]}, "gpt", "gptmix") : Rewrite(g, c)
      BY <2>4 DEF AdjustTable
    <3>2. AfterWrite({cur[target][g]}, "gpt", "gptmix") \subseteq Content /\ "gpt" \in Content
      <4>1. cur[target][g] \in Content
        BY <1>1 DEF TypeInv, TypeOK, DiskOK, DataOK
      <4> QED
        BY <4>1 DEF AfterWrite, Content
    <3> QED
      BY <3>1, <3>2
  <2>5. CASE Finish
    BY <2>4, <2>5 DEF Finish, FinalSync, MarkCompleted, VerifyStops, VerifyBlock, VerifyDone,
       VerifyResult, NoTable, TableRefused, AdjustSync, SaveAdjusted, WriteReports
  <2>6. CASE Begin \/ Cancel \/ TogglePause
    BY <2>6 DEF Begin, Start, Cancel, TogglePause
  <2>7. CASE Kill
    BY <2>7 DEF Kill, Content
  <2>8. CASE UNCHANGED vars
    BY <2>8 DEF vars
  <2> QED
    BY <2>1, <2>2, <2>3, <2>5, <2>6, <2>7, <2>8 DEF Next, Engine
<1> QED
  BY <1>3, <1>4, <1>5, <1>6

(* A disk that holds its manifest and an adapted table is as approved.     *)
LEMMA ApprovedFrom ==
  ASSUME NEW d \in Disks, HoldsManifest(pend, man, d), TableAdapted(pend, d)
  PROVE  Approved(pend, man, d)
BY DEF HoldsManifest, TableAdapted, Approved, Table, Adapted

(* An approved disk holds its manifest.                                    *)
LEMMA HoldsFrom ==
  ASSUME NEW d \in Disks, Approved(pend, man, d)
  PROVE  HoldsManifest(pend, man, d)
BY DEF HoldsManifest, Approved, Table, Adapted
-----------------------------------------------------------------------------
(* What the session file, the call and its result say of the disk.         *)

(* A session file counts as a state of the model.                          *)
LEMMA SavedIn ==
  ASSUME TypeInv, saved # NoState
  PROVE  /\ saved.disk \in Disks /\ saved.off \in 0 .. N /\ saved.bad \subseteq Blocks
         /\ saved.verified \in BOOLEAN /\ saved.gpt \in BOOLEAN /\ saved.completed \in BOOLEAN
BY DEF TypeInv, TypeOK, RecordsOK, State

(* What a successful save leaves in the session file.                      *)
Saves(c, v) ==
  /\ saved'.disk = target /\ saved'.off = offset /\ saved'.completed = c
  /\ saved'.verified = v /\ saved'.gpt = gpt /\ saved'.bad = bad /\ saved' # NoState

(* A save that succeeds goes on, one that fails ends the call.             *)
LEMMA SaveEffect ==
  ASSUME NEW c, NEW v, NEW label \in Labels \ {"idle"},
         SaveThenGoto(c, v, label)
  PROVE  /\ pc' \in {"idle", label}
         /\ pc' = "idle" => saved' = saved /\ result'.kind = "error"
         /\ pc' = label => result' = result /\ Saves(c, v)
<1>1. CASE saved' = Snapshot(c, v) /\ Goto(label) /\ UNCHANGED result
  <2>1. saved' = Snapshot(c, v)
    BY <1>1
  <2>2. saved'.verified = v /\ saved'.disk = target /\ saved'.off = offset
    BY <2>1 DEF Snapshot
  <2>3. saved'.completed = c /\ saved'.gpt = gpt /\ saved'.bad = bad
    BY <2>1 DEF Snapshot
  <2>4. saved' # NoState
    <3>1. "off" \in DOMAIN saved' /\ "off" \notin DOMAIN NoState
      BY <2>1 DEF Snapshot, NoState
    <3> QED
      BY <3>1
  <2> QED
    BY <1>1, <2>2, <2>3, <2>4 DEF Goto, Saves
<1>2. CASE May("save") /\ UNCHANGED saved /\ Fail
  BY <1>2 DEF Fail, Return, Goto
<1> QED
  BY <1>1, <1>2 DEF SaveThenGoto

(* FinalInv through the steps of Open. *)
LEMMA FinalOpen ==
  ASSUME TypeInv, CompareInv, FinalInv, Open
  PROVE  FinalInv'
<1> USE CloneAssumption
    DEF May, LinesKept, RewriteIs, Rewrites, CopyEnded, AfterCopy, SavedFinal, MemoryFinal, ResultFinal, FinalInv, Resumed,
        DataOK, FlagsOK, InRange, Goto, Fail, Return, NoResult, file, disk, work, stv, call, user, count
<1>a. /\ DataOK /\ FlagsOK /\ InRange /\ CopyEnded
  BY DEF TypeInv, TypeOK, CompareInv
<1>b. ASSUME pc \notin {"write", "append"}, NEW d \in Disks
      PROVE  /\ HoldsManifest(pend, man, d) => HoldsManifest(pend', man', d)
             /\ TableAdapted(pend, d) => TableAdapted(pend', d)
  BY <1>b, DiskKept DEF CompareInv, Next, Engine
<1>c. saved # NoState =>
        /\ saved.disk \in Disks /\ saved.off \in 0 .. N
        /\ saved.verified \in BOOLEAN /\ saved.gpt \in BOOLEAN /\ saved.completed \in BOOLEAN
  BY SavedIn
<1>1. CASE Load
  <2>1. SavedFinal'
    BY <1>a, <1>b, <1>c, <1>1 DEF Load, LoadCloneManifest, CloneStateMatches, Min2
  <2>2. MemoryFinal'
    BY <1>a, <1>b, <1>c, <1>1 DEF Load, LoadCloneManifest, CloneStateMatches, Min2
  <2>3. ResultFinal'
    BY <1>a, <1>b, <1>c, <1>1 DEF Load, LoadCloneManifest, CloneStateMatches, Min2
  <2> QED
    BY <2>1, <2>2, <2>3
<1>2. CASE Discard
  <2>1. SavedFinal'
    BY <1>a, <1>b, <1>c, <1>2 DEF Discard
  <2>2. MemoryFinal'
    BY <1>a, <1>b, <1>c, <1>2 DEF Discard
  <2>3. ResultFinal'
    BY <1>a, <1>b, <1>c, <1>2 DEF Discard
  <2> QED
    BY <2>1, <2>2, <2>3
<1>3. CASE TruncateManifest
  <2>1. SavedFinal'
    BY <1>a, <1>b, <1>c, <1>3 DEF TruncateManifest
  <2>2. MemoryFinal'
    BY <1>a, <1>b, <1>c, <1>3 DEF TruncateManifest
  <2>3. ResultFinal'
    BY <1>a, <1>b, <1>c, <1>3 DEF TruncateManifest
  <2> QED
    BY <2>1, <2>2, <2>3
<1>4. CASE WriteBackManifest
  <2>1. SavedFinal'
    <3>1. /\ pc = "writeback" /\ manDur' = 0 /\ rewrite # "no"
          /\ UNCHANGED <<saved, pend, man, target, offset>>
          /\ pc' \in {"checkLast", "idle"}
      BY <1>a, <1>4 DEF WriteBackManifest
    <3>2. pc' = "checkLast" => manLen' = offset /\ rewrite' = rewrite
      BY <1>4 DEF WriteBackManifest
    <3>3. pc' = "idle" => MayCut
      BY <1>4 DEF WriteBackManifest
    <3>4. manLen' \in 0 .. N
      <4>1. TypeInv'
        BY <1>4, TypeOpen DEF Open
      <4> QED
        BY <4>1 DEF TypeInv, TypeOK
    <3>5. /\ rewrite' # "no" /\ (rewrite' # "cut" => rewrite # "cut")
          /\ pc' = "idle" /\ rewrite' # "cut" /\ saved # NoState => manLen' >= saved.off
      <4>1. CASE pc' = "checkLast"
        BY <3>1, <3>2, <4>1
      <4>2. CASE pc' = "idle"
        BY <1>a, <1>c, <3>1, <3>3, <3>4, <4>2 DEF MayCut, ManifestShort
      <4> QED
        BY <3>1, <4>1, <4>2
    <3>6. CASE saved # NoState /\ rewrite # "cut"
      BY <1>a, <1>c, <3>1, <3>2, <3>4, <3>5, <3>6
    <3> QED
      BY <3>1, <3>5, <3>6
  <2>2. MemoryFinal'
    BY <1>a, <1>b, <1>c, <1>4 DEF WriteBackManifest
  <2>3. ResultFinal'
    BY <1>a, <1>b, <1>c, <1>4 DEF WriteBackManifest
  <2> QED
    BY <2>1, <2>2, <2>3
<1>5. CASE CheckLastBlock
  <2>1. SavedFinal' /\ MemoryFinal'
    BY <1>a, <1>b, <1>c, <1>5 DEF CheckLastBlock
  <2>2. ASSUME result'.kind = "ok" PROVE ResultFinal'
    <3>1. /\ Resumed /\ pc' = "idle" /\ gpt /\ result'.gpt = TRUE /\ result'.verified = verified
          /\ UNCHANGED <<pend, man, target, rewrite>> /\ target \in Disks
      BY <1>a, <1>5, <2>2 DEF CheckLastBlock
    <3>2. rewrite # "cut" => TableAdapted(pend, target)
      BY <1>a, <1>c, <3>1
    <3>3. rewrite # "cut" /\ verified => Approved(pend, man, target)
      BY <1>a, <3>1, <3>2, ApprovedFrom
    <3> QED
      BY <3>1, <3>2, <3>3
  <2>3. ASSUME result'.kind # "ok" PROVE ResultFinal'
    BY <2>3
  <2> QED
    BY <2>1, <2>2, <2>3
<1>6. CASE OpenManifest
  <2>1. SavedFinal'
    BY <1>a, <1>b, <1>c, <1>6 DEF OpenManifest
  <2>2. MemoryFinal'
    BY <1>a, <1>b, <1>c, <1>6 DEF OpenManifest
  <2>3. ResultFinal'
    BY <1>a, <1>b, <1>c, <1>6 DEF OpenManifest
  <2> QED
    BY <2>1, <2>2, <2>3
<1> QED
  BY <1>1, <1>2, <1>3, <1>4, <1>5, <1>6 DEF Open

(* FinalInv through the steps of Copy. *)
LEMMA FinalCopy ==
  ASSUME TypeInv, CompareInv, FinalInv, Copy
  PROVE  FinalInv'
<1> USE CloneAssumption
    DEF May, LinesKept, RewriteIs, Rewrites, CopyEnded, AfterCopy, SavedFinal, MemoryFinal, ResultFinal, FinalInv, Resumed,
        DataOK, FlagsOK, InRange, Goto, Fail, Return, NoResult, file, disk, work, stv, call, user, count
<1>a. /\ DataOK /\ FlagsOK /\ InRange /\ CopyEnded
  BY DEF TypeInv, TypeOK, CompareInv
<1>b. ASSUME pc \notin {"write", "append"}, NEW d \in Disks
      PROVE  /\ HoldsManifest(pend, man, d) => HoldsManifest(pend', man', d)
             /\ TableAdapted(pend, d) => TableAdapted(pend', d)
  BY <1>b, DiskKept DEF CompareInv, Next, Engine
<1>c. saved # NoState =>
        /\ saved.disk \in Disks /\ saved.off \in 0 .. N
        /\ saved.verified \in BOOLEAN /\ saved.gpt \in BOOLEAN /\ saved.completed \in BOOLEAN
  BY SavedIn
<1>1. CASE ReadBlock
  <2>1. SavedFinal'
    BY <1>a, <1>b, <1>c, <1>1 DEF ReadBlock
  <2>2. MemoryFinal'
    BY <1>a, <1>b, <1>c, <1>1 DEF ReadBlock
  <2>3. ResultFinal'
    BY <1>a, <1>b, <1>c, <1>1 DEF ReadBlock
  <2> QED
    BY <2>1, <2>2, <2>3
<1>2. CASE CopyCancelled
  <2>1. SavedFinal'
    BY <1>a, <1>b, <1>c, <1>2 DEF CopyCancelled
  <2>2. MemoryFinal'
    BY <1>a, <1>b, <1>c, <1>2 DEF CopyCancelled
  <2>3. ResultFinal'
    BY <1>a, <1>b, <1>c, <1>2 DEF CopyCancelled
  <2> QED
    BY <2>1, <2>2, <2>3
<1>3. CASE CopyDone
  <2>1. SavedFinal'
    BY <1>a, <1>b, <1>c, <1>3 DEF CopyDone
  <2>2. MemoryFinal'
    BY <1>a, <1>b, <1>c, <1>3 DEF CopyDone
  <2>3. ResultFinal'
    BY <1>a, <1>b, <1>c, <1>3 DEF CopyDone
  <2> QED
    BY <2>1, <2>2, <2>3
<1>4. CASE WriteBlock
  <2>1. SavedFinal'
    BY <1>a, <1>b, <1>c, <1>4 DEF WriteBlock
  <2>2. MemoryFinal'
    BY <1>a, <1>b, <1>c, <1>4 DEF WriteBlock
  <2>3. ResultFinal'
    BY <1>a, <1>b, <1>c, <1>4 DEF WriteBlock
  <2> QED
    BY <2>1, <2>2, <2>3
<1>5. CASE WriteBlockFails
  <2>1. SavedFinal'
    BY <1>a, <1>b, <1>c, <1>5 DEF WriteBlockFails, PartialWrite
  <2>2. MemoryFinal'
    BY <1>a, <1>b, <1>c, <1>5 DEF WriteBlockFails, PartialWrite
  <2>3. ResultFinal'
    BY <1>a, <1>b, <1>c, <1>5 DEF WriteBlockFails, PartialWrite
  <2> QED
    BY <2>1, <2>2, <2>3
<1>6. CASE AppendManifest
  <2>1. SavedFinal'
    BY <1>a, <1>b, <1>c, <1>6 DEF AppendManifest
  <2>2. MemoryFinal'
    BY <1>a, <1>b, <1>c, <1>6 DEF AppendManifest
  <2>3. ResultFinal'
    BY <1>a, <1>b, <1>c, <1>6 DEF AppendManifest
  <2> QED
    BY <2>1, <2>2, <2>3
<1> QED
  BY <1>1, <1>2, <1>3, <1>4, <1>5, <1>6 DEF Copy

(* FinalInv through the steps of Checkpoint. *)
LEMMA FinalCheckpoint ==
  ASSUME TypeInv, CompareInv, FinalInv, Checkpoint
  PROVE  FinalInv'
<1> USE CloneAssumption
    DEF May, LinesKept, RewriteIs, Rewrites, CopyEnded, AfterCopy, SavedFinal, MemoryFinal, ResultFinal, FinalInv, Resumed,
        DataOK, FlagsOK, InRange, Goto, Fail, Return, NoResult, file, disk, work, stv, call, user, count
<1>a. /\ DataOK /\ FlagsOK /\ InRange /\ CopyEnded
  BY DEF TypeInv, TypeOK, CompareInv
<1>b. ASSUME pc \notin {"write", "append"}, NEW d \in Disks
      PROVE  /\ HoldsManifest(pend, man, d) => HoldsManifest(pend', man', d)
             /\ TableAdapted(pend, d) => TableAdapted(pend', d)
  BY <1>b, DiskKept DEF CompareInv, Next, Engine
<1>c. saved # NoState =>
        /\ saved.disk \in Disks /\ saved.off \in 0 .. N
        /\ saved.verified \in BOOLEAN /\ saved.gpt \in BOOLEAN /\ saved.completed \in BOOLEAN
  BY SavedIn
<1>1. CASE CheckpointManifest
  <2>1. SavedFinal'
    BY <1>a, <1>b, <1>c, <1>1 DEF CheckpointManifest, CheckpointFails
  <2>2. MemoryFinal'
    BY <1>a, <1>b, <1>c, <1>1 DEF CheckpointManifest, CheckpointFails
  <2>3. ResultFinal'
    BY <1>a, <1>b, <1>c, <1>1 DEF CheckpointManifest, CheckpointFails
  <2> QED
    BY <2>1, <2>2, <2>3
<1>2. CASE CheckpointDestination
  <2>1. SavedFinal'
    BY <1>a, <1>b, <1>c, <1>2 DEF CheckpointDestination, CheckpointFails
  <2>2. MemoryFinal'
    BY <1>a, <1>b, <1>c, <1>2 DEF CheckpointDestination, CheckpointFails
  <2>3. ResultFinal'
    BY <1>a, <1>b, <1>c, <1>2 DEF CheckpointDestination, CheckpointFails
  <2> QED
    BY <2>1, <2>2, <2>3
<1>3. CASE CheckpointSave
  <2>1. SavedFinal'
    BY <1>a, <1>b, <1>c, <1>3 DEF CheckpointSave, CheckpointFails, Snapshot
  <2>2. MemoryFinal'
    BY <1>a, <1>b, <1>c, <1>3 DEF CheckpointSave, CheckpointFails, Snapshot
  <2>3. ResultFinal'
    BY <1>a, <1>b, <1>c, <1>3 DEF CheckpointSave, CheckpointFails, Snapshot
  <2> QED
    BY <2>1, <2>2, <2>3
<1>4. CASE ManifestCloseFails
  <2>1. SavedFinal'
    BY <1>a, <1>b, <1>c, <1>4 DEF ManifestCloseFails
  <2>2. MemoryFinal'
    BY <1>a, <1>b, <1>c, <1>4 DEF ManifestCloseFails
  <2>3. ResultFinal'
    BY <1>a, <1>b, <1>c, <1>4 DEF ManifestCloseFails
  <2> QED
    BY <2>1, <2>2, <2>3
<1>5. CASE SaveInterrupted
  <2>1. SavedFinal'
    BY <1>a, <1>b, <1>c, <1>5 DEF SaveInterrupted, Snapshot
  <2>2. MemoryFinal'
    BY <1>a, <1>b, <1>c, <1>5 DEF SaveInterrupted, Snapshot
  <2>3. ResultFinal'
    BY <1>a, <1>b, <1>c, <1>5 DEF SaveInterrupted, Snapshot
  <2> QED
    BY <2>1, <2>2, <2>3
<1> QED
  BY <1>1, <1>2, <1>3, <1>4, <1>5 DEF Checkpoint

(* FinalInv through the steps of Finish. *)
LEMMA FinalFinish ==
  ASSUME TypeInv, CompareInv, FinalInv, Finish
  PROVE  FinalInv'
<1> USE CloneAssumption
    DEF May, LinesKept, RewriteIs, Rewrites, CopyEnded, AfterCopy, SavedFinal, MemoryFinal, ResultFinal, FinalInv, Resumed,
        DataOK, FlagsOK, InRange, Goto, Fail, Return, NoResult, file, disk, work, stv, call, user, count
<1>a. /\ DataOK /\ FlagsOK /\ InRange /\ CopyEnded
  BY DEF TypeInv, TypeOK, CompareInv
<1>b. ASSUME pc \notin {"write", "append"}, NEW d \in Disks
      PROVE  /\ HoldsManifest(pend, man, d) => HoldsManifest(pend', man', d)
             /\ TableAdapted(pend, d) => TableAdapted(pend', d)
  BY <1>b, DiskKept DEF CompareInv, Next, Engine
<1>c. saved # NoState =>
        /\ saved.disk \in Disks /\ saved.off \in 0 .. N
        /\ saved.verified \in BOOLEAN /\ saved.gpt \in BOOLEAN /\ saved.completed \in BOOLEAN
  BY SavedIn
<1>1. CASE FinalSync
  <2>1. SavedFinal'
    BY <1>a, <1>b, <1>c, <1>1 DEF FinalSync
  <2>2. MemoryFinal'
    BY <1>a, <1>b, <1>c, <1>1 DEF FinalSync
  <2>3. ResultFinal'
    BY <1>a, <1>b, <1>c, <1>1 DEF FinalSync
  <2> QED
    BY <2>1, <2>2, <2>3
<1>2. CASE MarkCompleted
  <2>1. SavedFinal'
    BY <1>a, <1>b, <1>c, <1>2 DEF MarkCompleted, SaveThenGoto, Snapshot
  <2>2. MemoryFinal'
    BY <1>a, <1>b, <1>c, <1>2 DEF MarkCompleted, SaveThenGoto, Snapshot
  <2>3. ResultFinal'
    BY <1>a, <1>b, <1>c, <1>2 DEF MarkCompleted, SaveThenGoto, Snapshot
  <2> QED
    BY <2>1, <2>2, <2>3
<1>3. CASE VerifyStops
  <2>1. SavedFinal'
    BY <1>a, <1>b, <1>c, <1>3 DEF VerifyStops
  <2>2. MemoryFinal'
    BY <1>a, <1>b, <1>c, <1>3 DEF VerifyStops
  <2>3. ResultFinal'
    BY <1>a, <1>b, <1>c, <1>3 DEF VerifyStops
  <2> QED
    BY <2>1, <2>2, <2>3
<1>4. CASE VerifyBlock
  <2>1. SavedFinal'
    BY <1>a, <1>b, <1>c, <1>4 DEF VerifyBlock, LoadCloneManifest, Min2
  <2>2. MemoryFinal'
    BY <1>a, <1>b, <1>c, <1>4 DEF VerifyBlock, LoadCloneManifest, Min2
  <2>3. ResultFinal'
    BY <1>a, <1>b, <1>c, <1>4 DEF VerifyBlock, LoadCloneManifest, Min2
  <2> QED
    BY <2>1, <2>2, <2>3
<1>5. CASE VerifyDone
  <2>1. /\ pc = "verify" /\ pc' \in {"idle", "verified"} /\ offset = N /\ manLen = N /\ manDur = N
        /\ UNCHANGED <<pend, man, manLen, manDur, rewrite, target, completed, gpt, offset>>
        /\ pc' = "idle" => saved' = saved /\ result'.kind = "error"
        /\ pc' = "verified" => result' = result /\ Saves(completed, verified')
    <3>1. /\ pc = "verify" /\ UNCHANGED <<pend, man, manLen, manDur, rewrite, target, completed, gpt, offset>>
          /\ SaveThenGoto(completed, verified', "verified")
      BY <1>5 DEF VerifyDone
    <3> QED
      BY <1>a, <3>1, SaveEffect DEF Labels
  <2>2. verified' => HoldsManifest(pend, man, target)
    <3>1. verified' => ~vbad /\ vpos >= N
      BY <1>5 DEF VerifyDone
    <3>2. verified' => Approved(pend, man, target)
      BY <1>a, <2>1, <3>1 DEF CompareInv, Compared, Approved, Blocks
    <3> QED
      BY <1>a, <3>2, HoldsFrom
  <2>3. rewrite # "cut" => ~gpt
    BY <1>a, <2>1
  <2>4. SavedFinal'
    <3>1. CASE pc' = "idle"
      BY <1>a, <2>1, <3>1
    <3>2. CASE pc' = "verified"
      BY <1>a, <2>1, <2>2, <2>3, <3>2 DEF Saves
    <3> QED
      BY <2>1, <3>1, <3>2
  <2>5. MemoryFinal'
    BY <1>a, <2>1, <2>2, <2>3
  <2>6. ResultFinal'
    BY <1>a, <2>1
  <2> QED
    BY <2>4, <2>5, <2>6
<1>6. CASE VerifyResult
  <2>1. SavedFinal'
    BY <1>a, <1>b, <1>c, <1>6 DEF VerifyResult
  <2>2. MemoryFinal'
    BY <1>a, <1>b, <1>c, <1>6 DEF VerifyResult
  <2>3. ResultFinal'
    BY <1>a, <1>b, <1>c, <1>6 DEF VerifyResult
  <2> QED
    BY <2>1, <2>2, <2>3
<1>7. CASE AdjustTable
  <2>1. SavedFinal'
    BY <1>a, <1>b, <1>c, <1>7 DEF AdjustTable
  <2>2. MemoryFinal'
    BY <1>a, <1>b, <1>c, <1>7 DEF AdjustTable
  <2>3. ResultFinal'
    BY <1>a, <1>b, <1>c, <1>7 DEF AdjustTable
  <2> QED
    BY <2>1, <2>2, <2>3
<1>8. CASE NoTable
  <2>1. SavedFinal'
    BY <1>a, <1>b, <1>c, <1>8 DEF NoTable
  <2>2. MemoryFinal'
    BY <1>a, <1>b, <1>c, <1>8 DEF NoTable
  <2>3. ResultFinal'
    BY <1>a, <1>b, <1>c, <1>8 DEF NoTable
  <2> QED
    BY <2>1, <2>2, <2>3
<1>9. CASE TableRefused
  <2>1. SavedFinal'
    BY <1>a, <1>b, <1>c, <1>9 DEF TableRefused
  <2>2. MemoryFinal'
    BY <1>a, <1>b, <1>c, <1>9 DEF TableRefused
  <2>3. ResultFinal'
    BY <1>a, <1>b, <1>c, <1>9 DEF TableRefused
  <2> QED
    BY <2>1, <2>2, <2>3
<1>10. CASE AdjustSync
  <2>1. SavedFinal'
    BY <1>a, <1>b, <1>c, <1>10 DEF AdjustSync
  <2>2. /\ pc = "adjustSync" /\ pc' \in {"idle", "saveGpt"} /\ UNCHANGED <<verified, offset, manLen, manDur, rewrite, target, man>>
    BY <1>a, <1>10 DEF AdjustSync
  <2>3. pc' = "saveGpt" => TableAdapted(pend', target)
    <3>1. pc' = "saveGpt" => SyncDestination
      BY <1>10, <2>2 DEF AdjustSync
    <3>2. \A g \in GptBlocks : g \in Blocks /\ cur[target][g] = "gpt"
      BY <2>2 DEF CompareInv, Compared, Blocks
    <3>3. ASSUME pc' = "saveGpt", NEW g \in GptBlocks PROVE pend'[target][g] = {"gpt"}
      <4>1. target \in Disks /\ g \in Blocks /\ cur[target][g] = "gpt"
        BY <1>a, <3>2, <3>3
      <4>2. pend'[target][g] = {cur[target][g]}
        BY ONLY TypeInv, <3>1, <3>3, <4>1, SyncEffect
      <4> QED
        BY <4>1, <4>2
    <3> QED
      BY <3>3 DEF TableAdapted
  <2>4. rewrite # "cut" /\ verified => HoldsManifest(pend', man', target)
    BY <1>a, <1>b, <2>2
  <2>5. MemoryFinal'
    BY <1>a, <2>2, <2>3, <2>4
  <2>6. ResultFinal'
    BY <1>a, <1>b, <1>c, <1>10 DEF AdjustSync
  <2> QED
    BY <2>1, <2>5, <2>6
<1>11. CASE SaveAdjusted
  <2>1. /\ pc = "saveGpt" /\ pc' \in {"idle", "report"} /\ offset = N /\ manLen = N /\ manDur = N
        /\ UNCHANGED <<pend, man, manLen, manDur, rewrite, target, completed, verified, gpt, offset>>
        /\ pc' = "idle" => saved' = saved /\ result'.kind = "error"
        /\ pc' = "report" => result' = result /\ Saves(completed, verified)
    <3>1. /\ pc = "saveGpt" /\ UNCHANGED <<pend, man, manLen, manDur, rewrite, target, completed, verified, gpt, offset>>
          /\ SaveThenGoto(completed, verified, "report")
      BY <1>11 DEF SaveAdjusted
    <3> QED
      BY <1>a, <3>1, SaveEffect DEF Labels
  <2>2. SavedFinal'
    <3>1. CASE pc' = "idle"
      BY <1>a, <2>1, <3>1
    <3>2. CASE pc' = "report"
      BY <1>a, <2>1, <3>2 DEF Saves
    <3> QED
      BY <2>1, <3>1, <3>2
  <2>3. MemoryFinal'
    BY <1>a, <2>1
  <2>4. ResultFinal'
    BY <1>a, <2>1
  <2> QED
    BY <2>2, <2>3, <2>4
<1>12. CASE WriteReports
  <2>1. SavedFinal' /\ MemoryFinal'
    BY <1>a, <1>b, <1>c, <1>12 DEF WriteReports
  <2>2. /\ pc = "report" /\ pc' = "idle" /\ UNCHANGED <<pend, man, target, rewrite>>
        /\ result'.kind = "ok" => result'.verified = opt.verify /\ result'.gpt = gpt
    BY <1>a, <1>12 DEF WriteReports
  <2>3. opt.verify => Approved(pend, man, target)
    BY <2>2 DEF CompareInv, Compared
  <2>4. ResultFinal'
    BY <1>a, <2>2, <2>3
  <2> QED
    BY <2>1, <2>4
<1> QED
  BY <1>1, <1>2, <1>3, <1>4, <1>5, <1>6, <1>7, <1>8, <1>9, <1>10, <1>11, <1>12 DEF Finish

(* FinalInv through what the user does and what a crash leaves.            *)
LEMMA FinalEnvironment ==
  ASSUME TypeInv, CompareInv, FinalInv,
         Begin \/ Cancel \/ TogglePause \/ Kill \/ PowerLoss
  PROVE  FinalInv'
<1> USE CloneAssumption
    DEF May, LinesKept, RewriteIs, Rewrites, SavedFinal, MemoryFinal, ResultFinal, FinalInv, Resumed,
        DataOK, FlagsOK, InRange, Goto, NoResult, file, disk, work, stv, call, user, count
<1>a. /\ DataOK /\ FlagsOK /\ InRange
  BY DEF TypeInv, TypeOK
<1>b. ASSUME pc \notin {"write", "append"}, NEW d \in Disks
      PROVE  /\ HoldsManifest(pend, man, d) => HoldsManifest(pend', man', d)
             /\ TableAdapted(pend, d) => TableAdapted(pend', d)
  BY <1>b, DiskKept DEF CompareInv, Next
<1>c. saved # NoState =>
        /\ saved.disk \in Disks /\ saved.off \in 0 .. N
        /\ saved.verified \in BOOLEAN /\ saved.gpt \in BOOLEAN /\ saved.completed \in BOOLEAN
  BY SavedIn
<1>1. CASE Begin
  BY <1>a, <1>b, <1>c, <1>1 DEF Begin, Start
<1>2. CASE Cancel
  BY <1>a, <1>b, <1>c, <1>2 DEF Cancel
<1>3. CASE TogglePause
  BY <1>a, <1>b, <1>c, <1>3 DEF TogglePause
<1>4. CASE Kill \/ PowerLoss
  <2>1. /\ pc' = "idle" /\ result' = NoResult /\ UNCHANGED saved /\ MayCut
        /\ TypeInv'
    <3>1. Crash /\ UNCHANGED saved
      BY <1>4 DEF Kill, PowerLoss
    <3> QED
      BY <1>4, <3>1, TypeEnvironment DEF Crash
  <2>2. /\ rewrite' # "cut" => rewrite # "cut" /\ rewrite' = rewrite
        /\ rewrite' = "unsynced" /\ saved # NoState => manLen' >= saved.off
        /\ rewrite = "no" => pc # "writeback"
    BY <1>a, <1>c, <2>1 DEF MayCut, ManifestShort, TypeInv, TypeOK
  <2>3. rewrite' # "cut" /\ saved # NoState /\ (saved.verified \/ saved.gpt) =>
          saved.off = N /\ manLen' = N /\ (rewrite' = "no" => manDur' = N)
    <3>1. manDur' >= manDur /\ manDur' <= manLen' /\ manLen' \in 0 .. N /\ manDur' \in 0 .. N
      <4>1. manDur' >= manDur
        BY <1>a, <1>4, <2>1, CrashKeepsSynced DEF TypeInv, TypeOK
      <4> QED
        BY <2>1, <4>1 DEF TypeInv, TypeOK
    <3> QED
      BY <1>a, <1>c, <2>2, <3>1
  <2>4. rewrite # "cut" /\ saved # NoState /\ pc \in {"write", "append"} =>
          ~saved.verified /\ ~saved.gpt
    BY <1>a, <1>c
  <2>5. SavedFinal'
    <3>1. CASE saved = NoState \/ rewrite' = "cut"
      BY <2>1, <3>1
    <3>2. CASE saved # NoState /\ rewrite' # "cut"
      <4>1. saved.disk \in Disks /\ saved' = saved /\ rewrite # "cut"
        BY <1>c, <2>1, <2>2, <3>2
      <4>2. saved.verified \/ saved.gpt => saved.off = N /\ LinesKept'
        BY <2>3, <3>2
      <4>3. saved.verified => HoldsManifest(pend', man', saved.disk)
        BY <1>b, <2>4, <3>2, <4>1
      <4>4. saved.gpt => saved.completed /\ TableAdapted(pend', saved.disk)
        BY <1>b, <2>4, <3>2, <4>1
      <4> QED
        BY <2>1, <4>1, <4>2, <4>3, <4>4
    <3> QED
      BY <3>1, <3>2
  <2> QED
    BY <2>1, <2>5
<1> QED
  BY <1>1, <1>2, <1>3, <1>4

(* FinalInv holds before the first call.                                   *)
LEMMA FinalInit == Init => CompareInv /\ FinalInv
BY DEF Init, CompareInv, ReadIsPending, CopyEnded, Compared, AfterCopy, FinalInv, SavedFinal, MemoryFinal,
       ResultFinal, Resumed, NoResult

(* The comparison is right whatever fails ...                              *)
LEMMA CompareStep == TypeInv /\ CompareInv /\ [Next]_vars => CompareInv'
BY ReadStep, EndedStep, ComparedStep DEF CompareInv

(* ... and so is what is kept of it.                                       *)
LEMMA FinalStep ==
  TypeInv /\ CompareInv /\ FinalInv /\ [Next]_vars => FinalInv'
<1>1. ASSUME FinalInv, UNCHANGED vars PROVE FinalInv'
  BY <1>1 DEF FinalInv, LinesKept, SavedFinal, MemoryFinal, ResultFinal, Resumed, vars, file, disk, work, stv, call,
     user, count
<1> QED
  BY <1>1, FinalOpen, FinalCopy, FinalCheckpoint, FinalFinish, FinalEnvironment DEF Next, Engine

(* The inductive invariant of the verification: a sync comes before it,    *)
(* and nothing but the table is written after it.                          *)
THEOREM CompareInvariant == Spec => []CompareInv
BY TypeInvariant, TypeInit, FinalInit, CompareStep, PTL DEF Spec

(* The inductive invariant of what is remembered of it across calls.       *)
THEOREM FinalInvariant == Spec => []FinalInv
BY TypeInvariant, CompareInvariant, TypeInit, FinalInit, FinalStep, PTL DEF Spec

(* A call that verified its clone and is about to report it (clone.go:374) *)
(* leaves every block durably as it was read from the source, the adapted  *)
(* table apart: whatever failed on the way, and also on a destination that *)
(* stores other bytes than it is given.                                    *)
THEOREM VerifiedIsCopied == Spec => []VerifiedHere
<1>1. ASSUME CompareInv PROVE VerifiedHere
  BY <1>1 DEF CompareInv, Compared, VerifiedHere, Approved, Adapted
<1> QED
  BY <1>1, CompareInvariant, PTL

(* A call that reports a clone as verified, also one that an earlier call  *)
(* verified (clone.go:217), speaks the truth whatever fails, as long as no *)
(* crash or failing write cut the manifest being written back; what an     *)
(* earlier call verified is then believed of blocks copied again after it. *)
THEOREM VerifiedStays == Spec => []VerifiedKept
<1>1. ASSUME FinalInv PROVE VerifiedKept
  BY <1>1 DEF FinalInv, ResultFinal, VerifiedKept, Approved, Adapted
<1> QED
  BY <1>1, FinalInvariant, PTL

(* A call that says the partition table is adapted to the destination has  *)
(* adapted it durably, or an earlier one has, with the same exception: the *)
(* run clone_stale_adjusted.                                               *)
THEOREM AdaptedStays ==
  Spec => []AdjustedMeansAdjusted
<1>1. ASSUME FinalInv PROVE AdjustedMeansAdjusted
  BY <1>1 DEF FinalInv, ResultFinal, AdjustedMeansAdjusted, TableAdapted
<1> QED
  BY <1>1, FinalInvariant, PTL
=============================================================================
