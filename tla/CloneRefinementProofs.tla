----------------------- MODULE CloneRefinementProofs -----------------------
(***************************************************************************)
(* CloneDisk keeps the promise of ResumableCopy across kills, power losses,*)
(* cancels, failing reads, writes and saves, for every number of blocks,   *)
(* disks, sessions and crashes and also when sectors read now and then.    *)
(* A crash that cuts the manifest while it is written back is among them:  *)
(* it ends what is promised of that session, and no more than that.        *)
(***************************************************************************)
EXTENDS CloneRefinement, CloneVerifyProofs

(* The hardware keeps its word: the destination stores what it is given,   *)
(* and neither a sync nor a write of the manifest fails.  Without it the   *)
(* run of CloneUnsynced.cfg shows what is lost.                            *)
Intact == Faults \cap {"manifest", "sync", "corrupt"} = {}

(* What the manifest says of a block: its data, or zeros that are reported *)
(* where the source does not read.                                         *)
Line(b, reported) ==
  {"data"} \cup (IF b \in reported \cap (Unreadable \cup Flaky) THEN {"zero"} ELSE {})
LinesRight(lines, off, reported) ==
  \A b \in Blocks : b < off => lines[b] \in Line(b, reported)

(* A disk holds its lines up to an offset; the table is written again only *)
(* when all is copied.                                                     *)
Rest(b, off) == IF off = N THEN Table(b) ELSE {}
HeldUpTo(held, lines, off, d) ==
  \A b \in Blocks : b < off => held[d][b] \subseteq {lines[b]} \cup Rest(b, off)

(* As long as no rewriting was cut, the session file is never ahead of the *)
(* manifest or the disk, and the copy never falls behind the session file. *)
Uncut == rewrite # "cut"
SavedWhole ==
  Uncut =>
    /\ saved # NoState =>
         /\ pc # "writeback" => saved.off <= manLen
         /\ rewrite = "no" => saved.off <= manDur
         /\ LinesRight(man, saved.off, saved.bad)
         /\ HeldUpTo(pend, man, saved.off, saved.disk)
         /\ pc \notin {"idle", "load", "discard"} =>
              saved.disk = target /\ saved.off <= offset /\ saved.bad \subseteq bad
         /\ pc = "discard" => ~opt.resume \/ saved.disk # target \/ saved.off = 0
    /\ Resumed => saved # NoState /\ offset = saved.off /\ offset # 0
    /\ pc \in AfterCopy => saved # NoState /\ saved.off = N

CopiedWhole ==
  Uncut /\ pc \notin {"idle", "load"} =>
    /\ LinesRight(man, offset, bad)
    /\ \A b \in Blocks : b < offset => cur[target][b] \in {man[b]} \cup Rest(b, offset)

BufferWhole ==
  /\ pc \in {"write", "append"} =>
       buf = "data" \/ (buf = "zero" /\ offset \in Unreadable \cup Flaky)
  /\ pc = "append" => cur[target][offset] = buf
  /\ pc \notin {"idle", "load"} => ~manBroken

(* From the sync of a checkpoint on, what is copied is durable.            *)
Durable == {"ckSave", "saveError"} \cup AfterCopy
DurableWhole ==
  Uncut =>
    /\ pc \in Durable => offset <= manDur /\ HeldUpTo(pend, man, offset, target)
    /\ pc \in {"saveGpt", "report"} => TableAdapted(pend, target)

ResultWhole ==
  result.kind = "ok" =>
    /\ pc = "idle"
    /\ Uncut => \A b \in Blocks : pend[target][b] \subseteq Line(b, result.bad) \cup Adapted(b)

WholeInv == SavedWhole /\ CopiedWhole /\ BufferWhole /\ DurableWhole /\ ResultWhole
-----------------------------------------------------------------------------
(* What the steps leave of what was copied.                                *)

(* Only a manifest line being appended changes what the manifest says.     *)
LEMMA ManifestStep ==
  ASSUME [Next]_vars
  PROVE  UNCHANGED man \/ (pc = "append" /\ man' = [man EXCEPT ![offset] = buf])
<1> USE DEF file, disk, work, stv, call, user, count
<1>1. CASE Open
  BY <1>1 DEF Open, Load, Discard, TruncateManifest, WriteBackManifest, CheckLastBlock,
     OpenManifest
<1>2. CASE Copy
  BY <1>2 DEF Copy, ReadBlock, CopyCancelled, CopyDone, WriteBlock, WriteBlockFails,
     AppendManifest
<1>3. CASE Checkpoint
  BY <1>3 DEF Checkpoint, CheckpointManifest, CheckpointDestination, CheckpointSave,
     ManifestCloseFails, SaveInterrupted
<1>4. CASE Finish
  BY <1>4 DEF Finish, FinalSync, MarkCompleted, VerifyStops, VerifyBlock, VerifyDone,
     VerifyResult, AdjustTable, NoTable, TableRefused, AdjustSync, SaveAdjusted, WriteReports
<1>5. CASE Begin \/ Cancel \/ TogglePause \/ Kill \/ PowerLoss
  BY <1>5 DEF Begin, Start, Cancel, TogglePause, Kill, PowerLoss, Crash
<1>6. CASE UNCHANGED vars
  BY <1>6 DEF vars
<1> QED
  BY <1>1, <1>2, <1>3, <1>4, <1>5, <1>6 DEF Next, Engine

(* What may be left of a block grows only where it is written, or where the*)
(* table is.                                                               *)
LEMMA PendStep ==
  ASSUME TypeInv, ReadIsPending, [Next]_vars, NEW d \in Disks, NEW b \in Blocks
  PROVE  /\ pend'[d][b] # {}
         /\ \/ pend'[d][b] \subseteq pend[d][b]
            \/ /\ pc = "write" /\ d = target /\ b = offset
               /\ \E c \in {buf} \cup (IF May("corrupt") THEN {"torn"} ELSE {}) :
                    pend'[d][b] = AfterWrite(pend[d][b], c, "torn")
            \/ /\ pc = "adjust" /\ d = target /\ b \in GptBlocks
               /\ pend'[d][b] \subseteq pend[d][b] \cup {"gpt", "gptmix"}
<1> USE DEF file, disk, work, stv, call, user, count
<1>0. cur'[d][b] \in pend'[d][b] /\ cur[d][b] \in pend[d][b]
  BY ReadStep DEF ReadIsPending
<1>1. CASE UNCHANGED pend
  BY <1>0, <1>1
<1>2. CASE SyncDestination
  <2>1. pend'[d][b] = IF d = target THEN {cur[d][b]} ELSE pend[d][b]
    BY <1>2, SyncEffect
  <2> QED
    BY <1>0, <2>1
<1>3. CASE PowerLoss
  <2>1. cur'[d][b] \in pend[d][b] /\ pend'[d][b] = {cur'[d][b]}
    BY <1>3, PowerEffect
  <2> QED
    BY <2>1
<1>4. CASE WriteBlock
  <2>1. pc = "write"
    BY <1>4 DEF WriteBlock
  <2>2. PICK c \in {buf} \cup (IF May("corrupt") THEN {"torn"} ELSE {}) :
          Overwrites(offset, c, AfterWrite(pend[target][offset], c, "torn"))
    BY <1>4, WriteEffect
  <2>3. pend'[d][b] = IF d = target /\ b = offset
                        THEN AfterWrite(pend[target][offset], c, "torn") ELSE pend[d][b]
    BY <2>2 DEF Overwrites
  <2> QED
    BY <1>0, <2>1, <2>3
<1>5. CASE pc = "write" /\ PartialWrite
  <2>1. PICK c : Overwrites(offset, c, AfterWrite(pend[target][offset], buf, "torn"))
    BY <1>5, PartialEffect
  <2>2. pend'[d][b] = IF d = target /\ b = offset
                        THEN AfterWrite(pend[target][offset], buf, "torn") ELSE pend[d][b]
    BY <2>1 DEF Overwrites
  <2> QED
    BY <1>0, <1>5, <2>2
<1>6. ASSUME NEW g \in GptBlocks, NEW c, Rewrite(g, c), pc = "adjust"
      PROVE  pend'[d][b] \subseteq pend[d][b] \/
               (d = target /\ b \in GptBlocks /\ pend'[d][b] \subseteq pend[d][b] \cup {"gpt", "gptmix"})
  <2>1. Overwrites(g, c, AfterWrite(pend[target][g], "gpt", "gptmix"))
    BY <1>6, RewriteEffect
  <2>2. pend'[d][b] = IF d = target /\ b = g
                        THEN AfterWrite(pend[target][g], "gpt", "gptmix") ELSE pend[d][b]
    BY <2>1 DEF Overwrites
  <2> QED
    BY <2>2 DEF AfterWrite
<1>7. CASE Open
  BY <1>1, <1>7 DEF Open, Load, Discard, TruncateManifest, WriteBackManifest, CheckLastBlock,
     OpenManifest
<1>8. CASE Copy
  BY <1>1, <1>4, <1>5, <1>8 DEF Copy, ReadBlock, CopyCancelled, CopyDone, WriteBlockFails,
     AppendManifest
<1>9. CASE Checkpoint
  BY <1>1, <1>2, <1>9 DEF Checkpoint, CheckpointManifest, CheckpointDestination, CheckpointSave,
     ManifestCloseFails, SaveInterrupted
<1>10. CASE AdjustTable
  <2>1. pc = "adjust" /\ \E g \in GptBlocks : \E c : Rewrite(g, c)
    BY <1>10 DEF AdjustTable
  <2> QED
    BY <1>0, <1>6, <2>1
<1>11. CASE Finish
  BY <1>1, <1>2, <1>10, <1>11 DEF Finish, FinalSync, MarkCompleted, VerifyStops, VerifyBlock,
     VerifyDone, VerifyResult, NoTable, TableRefused, AdjustSync, SaveAdjusted, WriteReports
<1>12. CASE Begin \/ Cancel \/ TogglePause
  BY <1>1, <1>12 DEF Begin, Start, Cancel, TogglePause
<1>13. CASE Kill
  <2>1. CASE pc = "adjust" /\ \E g \in GptBlocks : \E c : Rewrite(g, c)
    BY <1>0, <1>6, <2>1
  <2> QED
    BY <1>1, <1>5, <1>13, <2>1 DEF Kill
<1>14. CASE UNCHANGED vars
  BY <1>1, <1>14 DEF vars
<1> QED
  BY <1>3, <1>7, <1>8, <1>9, <1>11, <1>12, <1>13, <1>14 DEF Next, Engine

(* What a disk holds of its manifest, it goes on holding: the copy writes  *)
(* further on, and the table changes when all is copied.                   *)
LEMMA HeldKept ==
  ASSUME TypeInv, ReadIsPending, [Next]_vars, NEW d \in Disks, NEW off \in 0 .. N,
         pc \in {"write", "append"} => off <= offset,
         pc = "adjust" /\ d = target => off = N,
         HeldUpTo(pend, man, off, d)
  PROVE  HeldUpTo(pend', man', off, d)
<1> SUFFICES ASSUME NEW b \in Blocks, b < off
             PROVE  pend'[d][b] \subseteq {man'[b]} \cup Rest(b, off)
  BY DEF HeldUpTo
<1>1. pend[d][b] \subseteq {man[b]} \cup Rest(b, off)
  BY DEF HeldUpTo
<1>2. pc \in {"write", "append"} => b # offset
  BY DEF TypeInv, TypeOK, DataOK, Blocks
<1>3. man'[b] = man[b]
  BY <1>2, ManifestStep DEF TypeInv, TypeOK, DataOK, Blocks
<1>4. CASE pend'[d][b] \subseteq pend[d][b]
  BY <1>1, <1>3, <1>4
<1>5. CASE pc = "adjust" /\ d = target /\ b \in GptBlocks
             /\ pend'[d][b] \subseteq pend[d][b] \cup {"gpt", "gptmix"}
  <2>1. Rest(b, off) = {"gpt", "gptmix"}
    BY <1>5 DEF Rest, Table
  <2> QED
    BY <1>1, <1>3, <1>5, <2>1
<1> QED
  BY <1>2, <1>4, <1>5, PendStep

(* What the manifest says of the blocks copied, it goes on saying.         *)
LEMMA LinesStay ==
  ASSUME TypeInv, [Next]_vars, NEW off \in 0 .. N, NEW reported,
         pc = "append" => off <= offset, LinesRight(man, off, reported)
  PROVE  LinesRight(man', off, reported)
<1>1. ASSUME NEW b \in Blocks, b < off PROVE man'[b] = man[b]
  <2>1. pc = "append" => b # offset
    BY <1>1 DEF TypeInv, TypeOK, DataOK, Blocks
  <2> QED
    BY <2>1, ManifestStep DEF TypeInv, TypeOK, DataOK, Blocks
<1> QED
  BY <1>1 DEF LinesRight
(* A report with more blocks says as much.                                 *)
LEMMA LinesMore ==
  ASSUME NEW lines, NEW off, NEW r1, NEW r2, r1 \subseteq r2, LinesRight(lines, off, r1)
  PROVE  LinesRight(lines, off, r2)
BY DEF LinesRight, Line

(* A disk that holds every line and an adapted table is as promised.       *)
LEMMA WholeFrom ==
  ASSUME NEW d, NEW r, LinesRight(man, N, r), HeldUpTo(pend, man, N, d), TableAdapted(pend, d)
  PROVE  \A b \in Blocks : pend[d][b] \subseteq Line(b, r) \cup Adapted(b)
<1> SUFFICES ASSUME NEW b \in Blocks PROVE pend[d][b] \subseteq Line(b, r) \cup Adapted(b)
  OBVIOUS
<1>1. b < N
  BY CloneAssumption DEF Blocks
<1>2. man[b] \in Line(b, r)
  BY <1>1 DEF LinesRight
<1>3. CASE b \in GptBlocks
  BY <1>3 DEF TableAdapted, Adapted
<1>4. CASE b \notin GptBlocks
  <2>1. pend[d][b] \subseteq {man[b]}
    BY <1>1, <1>4 DEF HeldUpTo, Rest, Table
  <2> QED
    BY <1>2, <2>1
<1> QED
  BY <1>3, <1>4

(* A session that is saved when what is copied is durable is whole.        *)
LEMMA SavesWhole ==
  ASSUME TypeInv, NEW c, NEW v, Saves(c, v), pc \in Durable, DurableWhole, CopiedWhole,
         UNCHANGED <<man, manLen, manDur, rewrite, pend, target, offset, bad>>,
         pc' \notin {"discard", "truncate", "writeback", "checkLast"},
         pc' \in AfterCopy => offset = N
  PROVE  SavedWhole'
<1> SUFFICES ASSUME Uncut' PROVE SavedWhole'
  BY DEF SavedWhole
<1>0. Uncut /\ manDur <= manLen /\ manDur \in 0 .. N /\ manLen \in 0 .. N
  BY DEF Uncut, TypeInv, TypeOK, DataOK
<1>1. /\ offset <= manDur /\ HeldUpTo(pend, man, offset, target)
      /\ LinesRight(man, offset, bad)
  BY <1>0 DEF DurableWhole, CopiedWhole, Durable, AfterCopy
<1>2. /\ saved'.off = offset /\ saved'.disk = target /\ saved'.bad = bad
      /\ saved' # NoState
  BY DEF Saves
<1>3. /\ HeldUpTo(pend', man', saved'.off, saved'.disk)
      /\ LinesRight(man', saved'.off, saved'.bad)
  BY <1>1, <1>2
<1>4. /\ saved'.disk = target' /\ saved'.off <= offset' /\ saved'.bad \subseteq bad'
      /\ saved'.off <= manDur' /\ saved'.off <= manLen'
  BY <1>0, <1>1, <1>2 DEF TypeInv, TypeOK, DataOK
<1>5. pc' \in AfterCopy => saved'.off = N
  BY <1>2
<1>6. ~Resumed' /\ pc' # "discard"
  BY DEF Resumed
<1> QED
  BY <1>2, <1>3, <1>4, <1>5, <1>6 DEF SavedWhole

(* A session that is saved has the fields of the call.                     *)
LEMMA SnapshotSaves ==
  ASSUME NEW c, NEW v, saved' = Snapshot(c, v)
  PROVE  Saves(c, v)
<1>1. saved'.verified = v /\ saved'.disk = target /\ saved'.off = offset
  BY DEF Snapshot
<1>2. saved'.completed = c /\ saved'.gpt = gpt /\ saved'.bad = bad
  BY DEF Snapshot
<1>3. "off" \in DOMAIN saved' /\ "off" \notin DOMAIN NoState
  BY DEF Snapshot, NoState
<1> QED
  BY <1>1, <1>2, <1>3 DEF Saves
-----------------------------------------------------------------------------
(* WholeInv through every step.                                            *)

(* WholeInv through the steps of Open. *)
LEMMA WholeOpen ==
  ASSUME Intact, TypeInv, CompareInv, FinalInv, WholeInv, Open
  PROVE  WholeInv'
<1> USE CloneAssumption
    DEF Intact, Uncut, RewriteIs, May, CopyEnded, AfterCopy, Durable, SavedWhole, CopiedWhole, BufferWhole,
        DurableWhole, ResultWhole, WholeInv, Resumed, DataOK, FlagsOK, InRange, Goto, Fail, Return,
        NoResult, file, disk, work, stv, call, user, count
<1>a. /\ DataOK /\ FlagsOK /\ InRange /\ CopyEnded
  BY DEF TypeInv, TypeOK, CompareInv
<1>b. ASSUME NEW d \in Disks, NEW off \in 0 .. N,
             pc \in {"write", "append"} => off <= offset, pc = "adjust" /\ d = target => off = N
      PROVE  HeldUpTo(pend, man, off, d) => HeldUpTo(pend', man', off, d)
  BY <1>b, HeldKept DEF CompareInv, Next, Engine
<1>c. ASSUME NEW off \in 0 .. N, NEW reported, pc = "append" => off <= offset
      PROVE  LinesRight(man, off, reported) => LinesRight(man', off, reported)
  BY <1>c, LinesStay DEF Next, Engine
<1>d. saved # NoState => saved.disk \in Disks /\ saved.off \in 0 .. N /\ saved.bad \subseteq Blocks
  BY SavedIn
<1>1. CASE Load
  <2>1. SavedWhole'
    BY <1>a, <1>b, <1>c, <1>d, <1>1 DEF Load, LoadCloneManifest, CloneStateMatches, Min2
  <2>2. CopiedWhole'
    <3> SUFFICES ASSUME Uncut' PROVE CopiedWhole'
      OBVIOUS
    <3> Uncut
      BY <1>1 DEF Load
    <3>1. UNCHANGED <<man, cur, pend, target>> /\ target \in Disks
      BY <1>a, <1>1 DEF Load
    <3>2. CASE offset' = 0
      BY <3>2 DEF LinesRight, Blocks
    <3>3. CASE offset' # 0
      <4>1. saved # NoState /\ saved.disk = target /\ offset' = saved.off /\ bad' = saved.bad
        BY <1>a, <1>d, <1>1, <3>3 DEF Load, LoadCloneManifest, CloneStateMatches, Min2
      <4>2. ASSUME NEW b \in Blocks, b < offset'
            PROVE  cur[target][b] \in {man[b]} \cup Rest(b, offset')
        <5>1. cur[target][b] \in pend[target][b]
          BY <3>1 DEF CompareInv, ReadIsPending
        <5> QED
          BY <4>1, <4>2, <5>1 DEF HeldUpTo
      <4>3. LinesRight(man, offset', bad')
        BY <4>1
      <4> QED
        BY <3>1, <4>2, <4>3
    <3> QED
      BY <3>2, <3>3
  <2>3. BufferWhole'
    BY <1>a, <1>b, <1>c, <1>d, <1>1 DEF Load, LoadCloneManifest, CloneStateMatches, Min2
  <2>4. DurableWhole'
    BY <1>a, <1>b, <1>c, <1>d, <1>1 DEF Load, LoadCloneManifest, CloneStateMatches, Min2
  <2>5. ResultWhole'
    BY <1>a, <1>b, <1>c, <1>d, <1>1 DEF Load, LoadCloneManifest, CloneStateMatches, Min2
  <2> QED
    BY <2>1, <2>2, <2>3, <2>4, <2>5
<1>2. CASE Discard
  <2>1. SavedWhole'
    BY <1>a, <1>b, <1>c, <1>d, <1>2 DEF Discard
  <2>2. CopiedWhole'
    BY <1>a, <1>2 DEF Discard, LinesRight, Blocks
  <2>3. BufferWhole'
    BY <1>a, <1>b, <1>c, <1>d, <1>2 DEF Discard
  <2>4. DurableWhole'
    BY <1>a, <1>b, <1>c, <1>d, <1>2 DEF Discard
  <2>5. ResultWhole'
    BY <1>a, <1>b, <1>c, <1>d, <1>2 DEF Discard
  <2> QED
    BY <2>1, <2>2, <2>3, <2>4, <2>5
<1>3. CASE TruncateManifest
  <2>1. SavedWhole'
    BY <1>a, <1>b, <1>c, <1>d, <1>3 DEF TruncateManifest
  <2>2. CopiedWhole'
    BY <1>a, <1>b, <1>c, <1>d, <1>3 DEF TruncateManifest
  <2>3. BufferWhole'
    BY <1>a, <1>b, <1>c, <1>d, <1>3 DEF TruncateManifest
  <2>4. DurableWhole'
    BY <1>a, <1>b, <1>c, <1>d, <1>3 DEF TruncateManifest
  <2>5. ResultWhole'
    BY <1>a, <1>b, <1>c, <1>d, <1>3 DEF TruncateManifest
  <2> QED
    BY <2>1, <2>2, <2>3, <2>4, <2>5
<1>4. CASE WriteBackManifest
  <2>1. SavedWhole'
    BY <1>a, <1>b, <1>c, <1>d, <1>4 DEF WriteBackManifest
  <2>2. CopiedWhole'
    BY <1>a, <1>b, <1>c, <1>d, <1>4 DEF WriteBackManifest
  <2>3. BufferWhole'
    BY <1>a, <1>b, <1>c, <1>d, <1>4 DEF WriteBackManifest
  <2>4. DurableWhole'
    BY <1>a, <1>b, <1>c, <1>d, <1>4 DEF WriteBackManifest
  <2>5. ResultWhole'
    BY <1>a, <1>b, <1>c, <1>d, <1>4 DEF WriteBackManifest
  <2> QED
    BY <2>1, <2>2, <2>3, <2>4, <2>5
<1>5. CASE CheckLastBlock
  <2>1. SavedWhole'
    BY <1>a, <1>b, <1>c, <1>d, <1>5 DEF CheckLastBlock
  <2>2. CopiedWhole'
    BY <1>a, <1>b, <1>c, <1>d, <1>5 DEF CheckLastBlock
  <2>3. BufferWhole'
    BY <1>a, <1>b, <1>c, <1>d, <1>5 DEF CheckLastBlock
  <2>4. DurableWhole'
    BY <1>a, <1>b, <1>c, <1>d, <1>5 DEF CheckLastBlock
  <2>5. ResultWhole'
    <3>1. ASSUME result'.kind = "ok", Uncut' PROVE ResultWhole'
      <4> Uncut
        BY <1>5, <3>1 DEF CheckLastBlock
      <4>1. /\ Resumed /\ pc' = "idle" /\ gpt /\ offset = N /\ result'.bad = bad
            /\ pc = "checkLast" /\ UNCHANGED <<pend, man, target>> /\ target \in Disks
        BY <1>a, <1>5, <3>1 DEF CheckLastBlock
      <4>2. /\ saved # NoState /\ saved.disk = target /\ saved.off = N /\ saved.bad \subseteq bad
            /\ LinesRight(man, N, saved.bad) /\ HeldUpTo(pend, man, N, target)
        BY <4>1
      <4>3. TableAdapted(pend, target)
        BY <4>1, <4>2 DEF FinalInv, SavedFinal, MemoryFinal
      <4>4. LinesRight(man, N, bad)
        BY <4>2, LinesMore
      <4>5. \A b \in Blocks : pend[target][b] \subseteq Line(b, bad) \cup Adapted(b)
        BY <4>1, <4>2, <4>3, <4>4, WholeFrom
      <4> QED
        BY <4>1, <4>5
    <3>2. result'.kind = "ok" => pc' = "idle"
      BY <1>a, <1>5 DEF CheckLastBlock
    <3> QED
      BY <3>1, <3>2
  <2> QED
    BY <2>1, <2>2, <2>3, <2>4, <2>5
<1>6. CASE OpenManifest
  <2>1. SavedWhole'
    BY <1>a, <1>b, <1>c, <1>d, <1>6 DEF OpenManifest
  <2>2. CopiedWhole'
    BY <1>a, <1>b, <1>c, <1>d, <1>6 DEF OpenManifest
  <2>3. BufferWhole'
    BY <1>a, <1>b, <1>c, <1>d, <1>6 DEF OpenManifest
  <2>4. DurableWhole'
    BY <1>a, <1>b, <1>c, <1>d, <1>6 DEF OpenManifest
  <2>5. ResultWhole'
    BY <1>a, <1>b, <1>c, <1>d, <1>6 DEF OpenManifest
  <2> QED
    BY <2>1, <2>2, <2>3, <2>4, <2>5
<1> QED
  BY <1>1, <1>2, <1>3, <1>4, <1>5, <1>6 DEF Open

(* WholeInv through the steps of Copy. *)
LEMMA WholeCopy ==
  ASSUME Intact, TypeInv, CompareInv, FinalInv, WholeInv, Copy
  PROVE  WholeInv'
<1> USE CloneAssumption
    DEF Intact, Uncut, RewriteIs, May, CopyEnded, AfterCopy, Durable, SavedWhole, CopiedWhole, BufferWhole,
        DurableWhole, ResultWhole, WholeInv, Resumed, DataOK, FlagsOK, InRange, Goto, Fail, Return,
        NoResult, file, disk, work, stv, call, user, count
<1>a. /\ DataOK /\ FlagsOK /\ InRange /\ CopyEnded
  BY DEF TypeInv, TypeOK, CompareInv
<1>b. ASSUME NEW d \in Disks, NEW off \in 0 .. N,
             pc \in {"write", "append"} => off <= offset, pc = "adjust" /\ d = target => off = N
      PROVE  HeldUpTo(pend, man, off, d) => HeldUpTo(pend', man', off, d)
  BY <1>b, HeldKept DEF CompareInv, Next, Engine
<1>c. ASSUME NEW off \in 0 .. N, NEW reported, pc = "append" => off <= offset
      PROVE  LinesRight(man, off, reported) => LinesRight(man', off, reported)
  BY <1>c, LinesStay DEF Next, Engine
<1>d. saved # NoState => saved.disk \in Disks /\ saved.off \in 0 .. N /\ saved.bad \subseteq Blocks
  BY SavedIn
<1>1. CASE ReadBlock
  <2>1. SavedWhole'
    BY <1>a, <1>b, <1>c, <1>d, <1>1 DEF ReadBlock
  <2>2. CopiedWhole'
    BY <1>a, <1>b, <1>c, <1>d, <1>1 DEF ReadBlock
  <2>3. BufferWhole'
    BY <1>a, <1>b, <1>c, <1>d, <1>1 DEF ReadBlock
  <2>4. DurableWhole'
    BY <1>a, <1>b, <1>c, <1>d, <1>1 DEF ReadBlock
  <2>5. ResultWhole'
    BY <1>a, <1>b, <1>c, <1>d, <1>1 DEF ReadBlock
  <2> QED
    BY <2>1, <2>2, <2>3, <2>4, <2>5
<1>2. CASE CopyCancelled
  <2>1. SavedWhole'
    BY <1>a, <1>b, <1>c, <1>d, <1>2 DEF CopyCancelled
  <2>2. CopiedWhole'
    BY <1>a, <1>b, <1>c, <1>d, <1>2 DEF CopyCancelled
  <2>3. BufferWhole'
    BY <1>a, <1>b, <1>c, <1>d, <1>2 DEF CopyCancelled
  <2>4. DurableWhole'
    BY <1>a, <1>b, <1>c, <1>d, <1>2 DEF CopyCancelled
  <2>5. ResultWhole'
    BY <1>a, <1>b, <1>c, <1>d, <1>2 DEF CopyCancelled
  <2> QED
    BY <2>1, <2>2, <2>3, <2>4, <2>5
<1>3. CASE CopyDone
  <2>1. SavedWhole'
    BY <1>a, <1>b, <1>c, <1>d, <1>3 DEF CopyDone
  <2>2. CopiedWhole'
    BY <1>a, <1>b, <1>c, <1>d, <1>3 DEF CopyDone
  <2>3. BufferWhole'
    BY <1>a, <1>b, <1>c, <1>d, <1>3 DEF CopyDone
  <2>4. DurableWhole'
    BY <1>a, <1>b, <1>c, <1>d, <1>3 DEF CopyDone
  <2>5. ResultWhole'
    BY <1>a, <1>b, <1>c, <1>d, <1>3 DEF CopyDone
  <2> QED
    BY <2>1, <2>2, <2>3, <2>4, <2>5
<1>4. CASE WriteBlock
  <2>1. SavedWhole'
    BY <1>a, <1>b, <1>c, <1>d, <1>4 DEF WriteBlock
  <2>2. CopiedWhole'
    BY <1>a, <1>b, <1>c, <1>d, <1>4 DEF WriteBlock
  <2>3. BufferWhole'
    <3>1. /\ pc = "write" /\ pc' = "append" /\ UNCHANGED <<buf, offset, target, manBroken>>
          /\ target \in Disks
      BY <1>a, <1>4 DEF WriteBlock
    <3>2. PICK c \in {buf} \cup (IF May("corrupt") THEN {"torn"} ELSE {}) :
            Overwrites(offset, c, AfterWrite(pend[target][offset], c, "torn"))
      BY <1>4, WriteEffect
    <3>3. c = buf
      BY <3>2
    <3>4. cur'[target][offset] = buf
      BY <3>1, <3>2, <3>3, WriteEffect, <1>4 DEF Overwrites
    <3> QED
      BY <3>1, <3>4
  <2>4. DurableWhole'
    BY <1>a, <1>b, <1>c, <1>d, <1>4 DEF WriteBlock
  <2>5. ResultWhole'
    BY <1>a, <1>b, <1>c, <1>d, <1>4 DEF WriteBlock
  <2> QED
    BY <2>1, <2>2, <2>3, <2>4, <2>5
<1>5. CASE WriteBlockFails
  <2>1. SavedWhole'
    BY <1>a, <1>b, <1>c, <1>d, <1>5 DEF WriteBlockFails, PartialWrite
  <2>2. CopiedWhole'
    BY <1>a, <1>b, <1>c, <1>d, <1>5 DEF WriteBlockFails, PartialWrite
  <2>3. BufferWhole'
    BY <1>a, <1>b, <1>c, <1>d, <1>5 DEF WriteBlockFails, PartialWrite
  <2>4. DurableWhole'
    BY <1>a, <1>b, <1>c, <1>d, <1>5 DEF WriteBlockFails, PartialWrite
  <2>5. ResultWhole'
    BY <1>a, <1>b, <1>c, <1>d, <1>5 DEF WriteBlockFails, PartialWrite
  <2> QED
    BY <2>1, <2>2, <2>3, <2>4, <2>5
<1>6. CASE AppendManifest
  <2>1. SavedWhole'
    BY <1>a, <1>b, <1>c, <1>d, <1>6 DEF AppendManifest
  <2>2. CopiedWhole'
    <3> SUFFICES ASSUME Uncut' PROVE CopiedWhole'
      OBVIOUS
    <3> Uncut
      BY <1>6 DEF AppendManifest
    <3>1. /\ pc = "append" /\ offset' = offset + 1 /\ man' = [man EXCEPT ![offset] = buf]
          /\ bad' = bad \cup (IF buf = "zero" THEN {offset} ELSE {})
          /\ UNCHANGED <<cur, target>> /\ offset \in Blocks /\ offset < N
      BY <1>a, <1>6 DEF AppendManifest, Blocks
    <3>2. ASSUME NEW b \in Blocks, b < offset'
          PROVE  man'[b] \in Line(b, bad') /\ cur[target][b] \in {man'[b]} \cup Rest(b, offset')
      <4>1. CASE b = offset
        <5>1. man'[b] = buf /\ cur[target][b] = buf
          BY <1>a, <3>1, <4>1
        <5>2. buf = "data" \/ (buf = "zero" /\ b \in bad' \cap (Unreadable \cup Flaky))
          BY <3>1, <4>1
        <5> QED
          BY <5>1, <5>2 DEF Line
      <4>2. CASE b # offset
        <5>1. man'[b] = man[b] /\ b < offset
          BY <1>a, <3>1, <3>2, <4>2 DEF Blocks
        <5>2. man[b] \in Line(b, bad) /\ cur[target][b] \in {man[b]} \cup Rest(b, offset)
          BY <3>1, <5>1 DEF LinesRight
        <5>3. Rest(b, offset) = {} /\ bad \subseteq bad'
          BY <3>1 DEF Rest
        <5> QED
          BY <5>1, <5>2, <5>3 DEF Line
      <4> QED
        BY <4>1, <4>2
    <3> QED
      BY <3>1, <3>2 DEF LinesRight
  <2>3. BufferWhole'
    BY <1>a, <1>b, <1>c, <1>d, <1>6 DEF AppendManifest
  <2>4. DurableWhole'
    BY <1>a, <1>b, <1>c, <1>d, <1>6 DEF AppendManifest
  <2>5. ResultWhole'
    BY <1>a, <1>b, <1>c, <1>d, <1>6 DEF AppendManifest
  <2> QED
    BY <2>1, <2>2, <2>3, <2>4, <2>5
<1> QED
  BY <1>1, <1>2, <1>3, <1>4, <1>5, <1>6 DEF Copy

(* WholeInv through the steps of Checkpoint. *)
LEMMA WholeCheckpoint ==
  ASSUME Intact, TypeInv, CompareInv, FinalInv, WholeInv, Checkpoint
  PROVE  WholeInv'
<1> USE CloneAssumption
    DEF Intact, Uncut, RewriteIs, May, CopyEnded, AfterCopy, Durable, SavedWhole, CopiedWhole, BufferWhole,
        DurableWhole, ResultWhole, WholeInv, Resumed, DataOK, FlagsOK, InRange, Goto, Fail, Return,
        NoResult, file, disk, work, stv, call, user, count
<1>a. /\ DataOK /\ FlagsOK /\ InRange /\ CopyEnded
  BY DEF TypeInv, TypeOK, CompareInv
<1>b. ASSUME NEW d \in Disks, NEW off \in 0 .. N,
             pc \in {"write", "append"} => off <= offset, pc = "adjust" /\ d = target => off = N
      PROVE  HeldUpTo(pend, man, off, d) => HeldUpTo(pend', man', off, d)
  BY <1>b, HeldKept DEF CompareInv, Next, Engine
<1>c. ASSUME NEW off \in 0 .. N, NEW reported, pc = "append" => off <= offset
      PROVE  LinesRight(man, off, reported) => LinesRight(man', off, reported)
  BY <1>c, LinesStay DEF Next, Engine
<1>d. saved # NoState => saved.disk \in Disks /\ saved.off \in 0 .. N /\ saved.bad \subseteq Blocks
  BY SavedIn
<1>1. CASE CheckpointManifest
  <2>1. SavedWhole'
    BY <1>a, <1>b, <1>c, <1>d, <1>1 DEF CheckpointManifest, CheckpointFails
  <2>2. CopiedWhole'
    BY <1>a, <1>b, <1>c, <1>d, <1>1 DEF CheckpointManifest, CheckpointFails
  <2>3. BufferWhole'
    BY <1>a, <1>b, <1>c, <1>d, <1>1 DEF CheckpointManifest, CheckpointFails
  <2>4. DurableWhole'
    BY <1>a, <1>b, <1>c, <1>d, <1>1 DEF CheckpointManifest, CheckpointFails
  <2>5. ResultWhole'
    BY <1>a, <1>b, <1>c, <1>d, <1>1 DEF CheckpointManifest, CheckpointFails
  <2> QED
    BY <2>1, <2>2, <2>3, <2>4, <2>5
<1>2. CASE CheckpointDestination
  <2>1. SavedWhole'
    BY <1>a, <1>b, <1>c, <1>d, <1>2 DEF CheckpointDestination, CheckpointFails
  <2>2. CopiedWhole'
    BY <1>a, <1>b, <1>c, <1>d, <1>2 DEF CheckpointDestination, CheckpointFails
  <2>3. BufferWhole'
    BY <1>a, <1>b, <1>c, <1>d, <1>2 DEF CheckpointDestination, CheckpointFails
  <2>4. DurableWhole'
    <3> SUFFICES ASSUME Uncut' PROVE DurableWhole'
      OBVIOUS
    <3> Uncut
      BY <1>2 DEF CheckpointDestination
    <3>1. /\ pc = "ckDest" /\ pc' = "ckSave" /\ SyncDestination /\ target \in Disks
          /\ UNCHANGED <<cur, man, manDur, offset, target>> /\ offset <= manDur
      BY <1>a, <1>2 DEF CheckpointDestination
    <3>2. ASSUME NEW b \in Blocks, b < offset
          PROVE  pend'[target][b] \subseteq {man[b]} \cup Rest(b, offset)
      <4>1. pend'[target][b] = {cur[target][b]}
        BY <3>1, SyncEffect
      <4>2. cur[target][b] \in {man[b]} \cup Rest(b, offset)
        BY <3>1, <3>2
      <4> QED
        BY <4>1, <4>2
    <3> QED
      BY <3>1, <3>2 DEF HeldUpTo
  <2>5. ResultWhole'
    BY <1>a, <1>b, <1>c, <1>d, <1>2 DEF CheckpointDestination, CheckpointFails
  <2> QED
    BY <2>1, <2>2, <2>3, <2>4, <2>5
<1>3. CASE CheckpointSave
  <2>1. SavedWhole'
    <3>1. CASE CheckpointFails /\ UNCHANGED saved
      BY <1>a, <1>b, <1>c, <1>d, <1>3, <3>1 DEF CheckpointSave, CheckpointFails
    <3>2. CASE /\ saved' = Snapshot(completed, verified)
               /\ Goto(IF ~forced THEN "copy" ELSE IF failed THEN "saveError" ELSE "finalSync")
      <4>1. Saves(completed, verified)
        BY <3>2, SnapshotSaves
      <4>2. /\ pc \in Durable /\ UNCHANGED <<man, manLen, manDur, rewrite, pend, target, offset, bad>>
            /\ pc' \in {"idle", "copy"} \cup Durable /\ (pc' \in AfterCopy => offset = N)
        BY <1>a, <1>3, <3>2 DEF CheckpointSave
      <4> QED
        BY <4>1, <4>2, SavesWhole
    <3> QED
      BY <1>3, <3>1, <3>2 DEF CheckpointSave
  <2>2. CopiedWhole'
    BY <1>a, <1>b, <1>c, <1>d, <1>3 DEF CheckpointSave, CheckpointFails, Snapshot
  <2>3. BufferWhole'
    BY <1>a, <1>b, <1>c, <1>d, <1>3 DEF CheckpointSave, CheckpointFails, Snapshot
  <2>4. DurableWhole'
    BY <1>a, <1>b, <1>c, <1>d, <1>3 DEF CheckpointSave, CheckpointFails, Snapshot
  <2>5. ResultWhole'
    BY <1>a, <1>b, <1>c, <1>d, <1>3 DEF CheckpointSave, CheckpointFails, Snapshot
  <2> QED
    BY <2>1, <2>2, <2>3, <2>4, <2>5
<1>4. CASE ManifestCloseFails
  <2>1. SavedWhole'
    BY <1>a, <1>b, <1>c, <1>d, <1>4 DEF ManifestCloseFails
  <2>2. CopiedWhole'
    BY <1>a, <1>b, <1>c, <1>d, <1>4 DEF ManifestCloseFails
  <2>3. BufferWhole'
    BY <1>a, <1>b, <1>c, <1>d, <1>4 DEF ManifestCloseFails
  <2>4. DurableWhole'
    BY <1>a, <1>b, <1>c, <1>d, <1>4 DEF ManifestCloseFails
  <2>5. ResultWhole'
    BY <1>a, <1>b, <1>c, <1>d, <1>4 DEF ManifestCloseFails
  <2> QED
    BY <2>1, <2>2, <2>3, <2>4, <2>5
<1>5. CASE SaveInterrupted
  <2>1. SavedWhole'
    BY <1>a, <1>b, <1>c, <1>d, <1>5 DEF SaveInterrupted, Snapshot
  <2>2. CopiedWhole'
    BY <1>a, <1>b, <1>c, <1>d, <1>5 DEF SaveInterrupted, Snapshot
  <2>3. BufferWhole'
    BY <1>a, <1>b, <1>c, <1>d, <1>5 DEF SaveInterrupted, Snapshot
  <2>4. DurableWhole'
    BY <1>a, <1>b, <1>c, <1>d, <1>5 DEF SaveInterrupted, Snapshot
  <2>5. ResultWhole'
    BY <1>a, <1>b, <1>c, <1>d, <1>5 DEF SaveInterrupted, Snapshot
  <2> QED
    BY <2>1, <2>2, <2>3, <2>4, <2>5
<1> QED
  BY <1>1, <1>2, <1>3, <1>4, <1>5 DEF Checkpoint

(* WholeInv through the steps of Finish. *)
LEMMA WholeFinish ==
  ASSUME Intact, TypeInv, CompareInv, FinalInv, WholeInv, Finish
  PROVE  WholeInv'
<1> USE CloneAssumption
    DEF Intact, Uncut, RewriteIs, May, CopyEnded, AfterCopy, Durable, SavedWhole, CopiedWhole, BufferWhole,
        DurableWhole, ResultWhole, WholeInv, Resumed, DataOK, FlagsOK, InRange, Goto, Fail, Return,
        NoResult, file, disk, work, stv, call, user, count
<1>a. /\ DataOK /\ FlagsOK /\ InRange /\ CopyEnded
  BY DEF TypeInv, TypeOK, CompareInv
<1>b. ASSUME NEW d \in Disks, NEW off \in 0 .. N,
             pc \in {"write", "append"} => off <= offset, pc = "adjust" /\ d = target => off = N
      PROVE  HeldUpTo(pend, man, off, d) => HeldUpTo(pend', man', off, d)
  BY <1>b, HeldKept DEF CompareInv, Next, Engine
<1>c. ASSUME NEW off \in 0 .. N, NEW reported, pc = "append" => off <= offset
      PROVE  LinesRight(man, off, reported) => LinesRight(man', off, reported)
  BY <1>c, LinesStay DEF Next, Engine
<1>d. saved # NoState => saved.disk \in Disks /\ saved.off \in 0 .. N /\ saved.bad \subseteq Blocks
  BY SavedIn
<1>1. CASE FinalSync
  <2>1. SavedWhole'
    BY <1>a, <1>b, <1>c, <1>d, <1>1 DEF FinalSync
  <2>2. CopiedWhole'
    BY <1>a, <1>b, <1>c, <1>d, <1>1 DEF FinalSync
  <2>3. BufferWhole'
    BY <1>a, <1>b, <1>c, <1>d, <1>1 DEF FinalSync
  <2>4. DurableWhole'
    BY <1>a, <1>b, <1>c, <1>d, <1>1 DEF FinalSync
  <2>5. ResultWhole'
    BY <1>a, <1>b, <1>c, <1>d, <1>1 DEF FinalSync
  <2> QED
    BY <2>1, <2>2, <2>3, <2>4, <2>5
<1>2. CASE MarkCompleted
  <2>1. SavedWhole'
    <3>1. CASE saved' = saved
      BY <1>a, <1>b, <1>c, <1>d, <1>2, <3>1 DEF MarkCompleted, SaveThenGoto
    <3>2. CASE saved' # saved
      <4>1. Saves(TRUE, verified)
        BY <1>a, <1>2, <3>2, SaveEffect DEF MarkCompleted, Labels
      <4>2. /\ pc \in Durable /\ UNCHANGED <<man, manLen, manDur, rewrite, pend, target, offset, bad>>
            /\ pc' \in {"idle", "copy"} \cup Durable /\ (pc' \in AfterCopy => offset = N)
        BY <1>a, <1>2, <3>2 DEF MarkCompleted, SaveThenGoto
      <4> QED
        BY <4>1, <4>2, SavesWhole
    <3> QED
      BY <3>1, <3>2
  <2>2. CopiedWhole'
    BY <1>a, <1>b, <1>c, <1>d, <1>2 DEF MarkCompleted, SaveThenGoto, Snapshot
  <2>3. BufferWhole'
    BY <1>a, <1>b, <1>c, <1>d, <1>2 DEF MarkCompleted, SaveThenGoto, Snapshot
  <2>4. DurableWhole'
    BY <1>a, <1>b, <1>c, <1>d, <1>2 DEF MarkCompleted, SaveThenGoto, Snapshot
  <2>5. ResultWhole'
    BY <1>a, <1>b, <1>c, <1>d, <1>2 DEF MarkCompleted, SaveThenGoto, Snapshot
  <2> QED
    BY <2>1, <2>2, <2>3, <2>4, <2>5
<1>3. CASE VerifyStops
  <2>1. SavedWhole'
    BY <1>a, <1>b, <1>c, <1>d, <1>3 DEF VerifyStops
  <2>2. CopiedWhole'
    BY <1>a, <1>b, <1>c, <1>d, <1>3 DEF VerifyStops
  <2>3. BufferWhole'
    BY <1>a, <1>b, <1>c, <1>d, <1>3 DEF VerifyStops
  <2>4. DurableWhole'
    BY <1>a, <1>b, <1>c, <1>d, <1>3 DEF VerifyStops
  <2>5. ResultWhole'
    BY <1>a, <1>b, <1>c, <1>d, <1>3 DEF VerifyStops
  <2> QED
    BY <2>1, <2>2, <2>3, <2>4, <2>5
<1>4. CASE VerifyBlock
  <2>1. SavedWhole'
    BY <1>a, <1>b, <1>c, <1>d, <1>4 DEF VerifyBlock, LoadCloneManifest, Min2
  <2>2. CopiedWhole'
    BY <1>a, <1>b, <1>c, <1>d, <1>4 DEF VerifyBlock, LoadCloneManifest, Min2
  <2>3. BufferWhole'
    BY <1>a, <1>b, <1>c, <1>d, <1>4 DEF VerifyBlock, LoadCloneManifest, Min2
  <2>4. DurableWhole'
    BY <1>a, <1>b, <1>c, <1>d, <1>4 DEF VerifyBlock, LoadCloneManifest, Min2
  <2>5. ResultWhole'
    BY <1>a, <1>b, <1>c, <1>d, <1>4 DEF VerifyBlock, LoadCloneManifest, Min2
  <2> QED
    BY <2>1, <2>2, <2>3, <2>4, <2>5
<1>5. CASE VerifyDone
  <2>1. SavedWhole'
    <3>1. CASE saved' = saved
      BY <1>a, <1>b, <1>c, <1>d, <1>5, <3>1 DEF VerifyDone, SaveThenGoto
    <3>2. CASE saved' # saved
      <4>1. Saves(completed, verified')
        BY <1>a, <1>5, <3>2, SaveEffect DEF VerifyDone, Labels
      <4>2. /\ pc \in Durable /\ UNCHANGED <<man, manLen, manDur, rewrite, pend, target, offset, bad>>
            /\ pc' \in {"idle", "copy"} \cup Durable /\ (pc' \in AfterCopy => offset = N)
        BY <1>a, <1>5, <3>2 DEF VerifyDone, SaveThenGoto
      <4> QED
        BY <4>1, <4>2, SavesWhole
    <3> QED
      BY <3>1, <3>2
  <2>2. CopiedWhole'
    BY <1>a, <1>b, <1>c, <1>d, <1>5 DEF VerifyDone, SaveThenGoto, Snapshot, LoadCloneManifest, Min2
  <2>3. BufferWhole'
    BY <1>a, <1>b, <1>c, <1>d, <1>5 DEF VerifyDone, SaveThenGoto, Snapshot, LoadCloneManifest, Min2
  <2>4. DurableWhole'
    BY <1>a, <1>b, <1>c, <1>d, <1>5 DEF VerifyDone, SaveThenGoto, Snapshot, LoadCloneManifest, Min2
  <2>5. ResultWhole'
    <3>1. result'.kind = "ok" => result' = result
      BY <1>5 DEF VerifyDone, SaveThenGoto
    <3>2. pc # "idle"
      BY <1>5 DEF VerifyDone
    <3> QED
      BY <3>1, <3>2
  <2> QED
    BY <2>1, <2>2, <2>3, <2>4, <2>5
<1>6. CASE VerifyResult
  <2>1. SavedWhole'
    BY <1>a, <1>b, <1>c, <1>d, <1>6 DEF VerifyResult
  <2>2. CopiedWhole'
    BY <1>a, <1>b, <1>c, <1>d, <1>6 DEF VerifyResult
  <2>3. BufferWhole'
    BY <1>a, <1>b, <1>c, <1>d, <1>6 DEF VerifyResult
  <2>4. DurableWhole'
    BY <1>a, <1>b, <1>c, <1>d, <1>6 DEF VerifyResult
  <2>5. ResultWhole'
    BY <1>a, <1>b, <1>c, <1>d, <1>6 DEF VerifyResult
  <2> QED
    BY <2>1, <2>2, <2>3, <2>4, <2>5
<1>7. CASE AdjustTable
  <2>1. SavedWhole'
    BY <1>a, <1>b, <1>c, <1>d, <1>7 DEF AdjustTable
  <2>2. CopiedWhole'
    <3> SUFFICES ASSUME Uncut' PROVE CopiedWhole'
      OBVIOUS
    <3> Uncut
      BY <1>7 DEF AdjustTable
    <3>1. pc = "adjust" /\ UNCHANGED <<man, target, offset, bad>> /\ offset = N /\ target \in Disks
      BY <1>a, <1>7 DEF AdjustTable
    <3>2. PICK g \in GptBlocks : Rewrite(g, "gpt") \/ pc' = "idle"
      BY <1>7 DEF AdjustTable
    <3>3. CASE Rewrite(g, "gpt")
      <4>1. Overwrites(g, "gpt", AfterWrite(pend[target][g], "gpt", "gptmix"))
        BY <3>3, RewriteEffect
      <4>2. ASSUME NEW b \in Blocks, b < offset
            PROVE  cur'[target][b] \in {man[b]} \cup Rest(b, offset)
        <5>1. cur'[target][b] = cur[target][b] \/ (b \in GptBlocks /\ cur'[target][b] = "gpt")
          BY <3>1, <4>1 DEF Overwrites
        <5>2. b \in GptBlocks => "gpt" \in Rest(b, offset)
          BY <3>1 DEF Rest, Table
        <5> QED
          BY <3>1, <4>2, <5>1, <5>2
      <4> QED
        BY <3>1, <4>2
    <3> QED
      BY <3>2, <3>3
  <2>3. BufferWhole'
    BY <1>a, <1>b, <1>c, <1>d, <1>7 DEF AdjustTable
  <2>4. DurableWhole'
    BY <1>a, <1>b, <1>c, <1>d, <1>7 DEF AdjustTable
  <2>5. ResultWhole'
    BY <1>a, <1>b, <1>c, <1>d, <1>7 DEF AdjustTable
  <2> QED
    BY <2>1, <2>2, <2>3, <2>4, <2>5
<1>8. CASE NoTable
  <2>1. SavedWhole'
    BY <1>a, <1>b, <1>c, <1>d, <1>8 DEF NoTable
  <2>2. CopiedWhole'
    BY <1>a, <1>b, <1>c, <1>d, <1>8 DEF NoTable
  <2>3. BufferWhole'
    BY <1>a, <1>b, <1>c, <1>d, <1>8 DEF NoTable
  <2>4. DurableWhole'
    <3> SUFFICES ASSUME Uncut' PROVE DurableWhole'
      OBVIOUS
    <3> Uncut
      BY <1>8 DEF NoTable
    <3>1. /\ pc = "adjust" /\ pc' = "saveGpt" /\ UNCHANGED <<pend, man, manDur, offset, target>>
          /\ GptBlocks = {} \/ \E b \in GptBlocks : cur[target][b] \notin {"data", "gpt", "gptmix"}
      BY <1>a, <1>8 DEF NoTable, TableBlocksHold
    <3>2. GptBlocks = {}
      <4>1. ASSUME NEW b \in GptBlocks PROVE cur[target][b] \in {"data", "gpt", "gptmix"}
        <5>1. b \in Blocks /\ b < offset
          BY <1>a, <3>1 DEF Blocks
        <5>2. man[b] = "data"
          BY <3>1, <5>1 DEF LinesRight, Line
        <5> QED
          BY <3>1, <5>1, <5>2 DEF Rest, Table
      <4> QED
        BY <3>1, <4>1
    <3>3. HeldUpTo(pend, man, offset, target) /\ offset <= manDur
      BY <3>1
    <3> QED
      BY <3>1, <3>2, <3>3 DEF TableAdapted
  <2>5. ResultWhole'
    BY <1>a, <1>b, <1>c, <1>d, <1>8 DEF NoTable
  <2> QED
    BY <2>1, <2>2, <2>3, <2>4, <2>5
<1>9. CASE TableRefused
  <2>1. SavedWhole'
    BY <1>a, <1>b, <1>c, <1>d, <1>9 DEF TableRefused
  <2>2. CopiedWhole'
    BY <1>a, <1>b, <1>c, <1>d, <1>9 DEF TableRefused
  <2>3. BufferWhole'
    BY <1>a, <1>b, <1>c, <1>d, <1>9 DEF TableRefused
  <2>4. DurableWhole'
    BY <1>a, <1>b, <1>c, <1>d, <1>9 DEF TableRefused
  <2>5. ResultWhole'
    BY <1>a, <1>b, <1>c, <1>d, <1>9 DEF TableRefused
  <2> QED
    BY <2>1, <2>2, <2>3, <2>4, <2>5
<1>10. CASE AdjustSync
  <2>1. SavedWhole'
    BY <1>a, <1>b, <1>c, <1>d, <1>10 DEF AdjustSync
  <2>2. CopiedWhole'
    BY <1>a, <1>b, <1>c, <1>d, <1>10 DEF AdjustSync
  <2>3. BufferWhole'
    BY <1>a, <1>b, <1>c, <1>d, <1>10 DEF AdjustSync
  <2>4. DurableWhole'
    <3> SUFFICES ASSUME Uncut' PROVE DurableWhole'
      OBVIOUS
    <3> Uncut
      BY <1>10 DEF AdjustSync
    <3>1. CASE pc' = "idle"
      BY <3>1
    <3>2. CASE pc' # "idle"
      <4>1. /\ pc = "adjustSync" /\ pc' = "saveGpt" /\ SyncDestination
            /\ UNCHANGED <<cur, man, manDur, offset, target>> /\ target \in Disks
        BY <1>a, <1>10, <3>2 DEF AdjustSync
      <4>2. ASSUME NEW g \in GptBlocks PROVE pend'[target][g] = {"gpt"}
        <5>1. g \in Blocks
          BY ONLY CloneAssumption, g \in GptBlocks DEF CloneAssumption, Blocks
        <5>2. cur[target][g] = "gpt"
          BY <4>1 DEF CompareInv, Compared
        <5>3. target \in Disks /\ SyncDestination
          BY <4>1
        <5>4. pend'[target][g] = {cur[target][g]}
          BY ONLY TypeInv, <5>1, <5>3, SyncEffect
        <5> QED
          BY <5>2, <5>4
      <4>3. TableAdapted(pend', target)
        BY <4>2 DEF TableAdapted
      <4>4. HeldUpTo(pend', man', offset, target) /\ offset <= manDur
        BY <1>a, <1>b, <4>1
      <4> QED
        BY <4>1, <4>3, <4>4
    <3> QED
      BY <3>1, <3>2
  <2>5. ResultWhole'
    BY <1>a, <1>b, <1>c, <1>d, <1>10 DEF AdjustSync
  <2> QED
    BY <2>1, <2>2, <2>3, <2>4, <2>5
<1>11. CASE SaveAdjusted
  <2>1. SavedWhole'
    <3>1. CASE saved' = saved
      BY <1>a, <1>b, <1>c, <1>d, <1>11, <3>1 DEF SaveAdjusted, SaveThenGoto
    <3>2. CASE saved' # saved
      <4>1. Saves(completed, verified)
        BY <1>a, <1>11, <3>2, SaveEffect DEF SaveAdjusted, Labels
      <4>2. /\ pc \in Durable /\ UNCHANGED <<man, manLen, manDur, rewrite, pend, target, offset, bad>>
            /\ pc' \in {"idle", "copy"} \cup Durable /\ (pc' \in AfterCopy => offset = N)
        BY <1>a, <1>11, <3>2 DEF SaveAdjusted, SaveThenGoto
      <4> QED
        BY <4>1, <4>2, SavesWhole
    <3> QED
      BY <3>1, <3>2
  <2>2. CopiedWhole'
    BY <1>a, <1>b, <1>c, <1>d, <1>11 DEF SaveAdjusted, SaveThenGoto, Snapshot
  <2>3. BufferWhole'
    BY <1>a, <1>b, <1>c, <1>d, <1>11 DEF SaveAdjusted, SaveThenGoto, Snapshot
  <2>4. DurableWhole'
    BY <1>a, <1>b, <1>c, <1>d, <1>11 DEF SaveAdjusted, SaveThenGoto, Snapshot
  <2>5. ResultWhole'
    <3>1. result'.kind = "ok" => result' = result
      BY <1>11 DEF SaveAdjusted, SaveThenGoto
    <3>2. pc # "idle"
      BY <1>11 DEF SaveAdjusted
    <3> QED
      BY <3>1, <3>2
  <2> QED
    BY <2>1, <2>2, <2>3, <2>4, <2>5
<1>12. CASE WriteReports
  <2>1. SavedWhole'
    BY <1>a, <1>b, <1>c, <1>d, <1>12 DEF WriteReports
  <2>2. CopiedWhole'
    BY <1>a, <1>b, <1>c, <1>d, <1>12 DEF WriteReports
  <2>3. BufferWhole'
    BY <1>a, <1>b, <1>c, <1>d, <1>12 DEF WriteReports
  <2>4. DurableWhole'
    BY <1>a, <1>b, <1>c, <1>d, <1>12 DEF WriteReports
  <2>5. ResultWhole'
    <3>1. ASSUME result'.kind = "ok", Uncut' PROVE ResultWhole'
      <4> Uncut
        BY <1>12, <3>1 DEF WriteReports
      <4>1. /\ pc = "report" /\ pc' = "idle" /\ result'.bad = bad /\ offset = N
            /\ UNCHANGED <<pend, man, target>> /\ target \in Disks
        BY <1>a, <1>12, <3>1 DEF WriteReports
      <4>2. LinesRight(man, N, bad) /\ HeldUpTo(pend, man, N, target) /\ TableAdapted(pend, target)
        BY <4>1
      <4>3. \A b \in Blocks : pend[target][b] \subseteq Line(b, bad) \cup Adapted(b)
        BY <4>1, <4>2, WholeFrom
      <4> QED
        BY <4>1, <4>3
    <3>2. result'.kind = "ok" => pc' = "idle"
      BY <1>a, <1>12 DEF WriteReports
    <3> QED
      BY <3>1, <3>2
  <2> QED
    BY <2>1, <2>2, <2>3, <2>4, <2>5
<1> QED
  BY <1>1, <1>2, <1>3, <1>4, <1>5, <1>6, <1>7, <1>8, <1>9, <1>10, <1>11, <1>12 DEF Finish

(* WholeInv through what the user does and what a crash leaves. *)
LEMMA WholeEnvironment ==
  ASSUME Intact, TypeInv, CompareInv, FinalInv, WholeInv,
         Begin \/ Cancel \/ TogglePause \/ Kill \/ PowerLoss
  PROVE  WholeInv'
<1> USE CloneAssumption
    DEF Intact, Uncut, RewriteIs, May, AfterCopy, Durable, SavedWhole, CopiedWhole, BufferWhole,
        DurableWhole, ResultWhole, WholeInv, Resumed, DataOK, FlagsOK, InRange, Goto,
        NoResult, file, disk, work, stv, call, user, count
<1>a. /\ DataOK /\ FlagsOK /\ InRange
  BY DEF TypeInv, TypeOK
<1>b. ASSUME NEW d \in Disks, NEW off \in 0 .. N,
             pc \in {"write", "append"} => off <= offset, pc = "adjust" /\ d = target => off = N
      PROVE  HeldUpTo(pend, man, off, d) => HeldUpTo(pend', man', off, d)
  BY <1>b, HeldKept DEF CompareInv, Next
<1>c. ASSUME NEW off \in 0 .. N, NEW reported, pc = "append" => off <= offset
      PROVE  LinesRight(man, off, reported) => LinesRight(man', off, reported)
  BY <1>c, LinesStay DEF Next
<1>d. saved # NoState => saved.disk \in Disks /\ saved.off \in 0 .. N /\ saved.bad \subseteq Blocks
  BY SavedIn
<1>1. CASE Begin
  BY <1>a, <1>b, <1>c, <1>d, <1>1 DEF Begin, Start
<1>2. CASE Cancel
  BY <1>a, <1>2 DEF Cancel
<1>3. CASE TogglePause
  BY <1>a, <1>3 DEF TogglePause
<1>4. CASE Kill \/ PowerLoss
  <2>1. /\ pc' = "idle" /\ result' = NoResult /\ UNCHANGED saved /\ MayCut
        /\ TypeInv'
    <3>1. Crash /\ UNCHANGED saved
      BY <1>4 DEF Kill, PowerLoss
    <3> QED
      BY <1>4, <3>1, TypeEnvironment DEF Crash
  <2>2. /\ rewrite' # "cut" => rewrite # "cut" /\ rewrite' = rewrite
        /\ rewrite' = "unsynced" /\ saved # NoState => manLen' >= saved.off
        /\ rewrite = "no" => pc # "writeback"
    BY <1>a, <1>d, <2>1 DEF MayCut, ManifestShort, TypeInv, TypeOK, Rewrites
  <2>3. Uncut' /\ saved # NoState =>
          saved.off <= manLen' /\ (rewrite' = "no" => saved.off <= manDur')
    <3>1. manDur' >= manDur /\ manDur' <= manLen' /\ manLen' \in 0 .. N /\ manDur' \in 0 .. N
      <4>1. manDur' >= manDur
        BY <1>a, <1>4, <2>1, CrashKeepsSynced DEF TypeInv, TypeOK
      <4> QED
        BY <2>1, <4>1 DEF TypeInv, TypeOK
    <3> QED
      BY <1>a, <1>d, <2>2, <3>1 DEF Rewrites
  <2>4. SavedWhole'
    BY <1>a, <1>b, <1>c, <1>d, <2>1, <2>2, <2>3
  <2> QED
    BY <2>1, <2>4
<1> QED
  BY <1>1, <1>2, <1>3, <1>4

(* WholeInv holds before the first call.                                   *)
LEMMA WholeInit == Init => WholeInv
BY DEF Init, WholeInv, SavedWhole, CopiedWhole, BufferWhole, DurableWhole, ResultWhole,
       Resumed, AfterCopy, Durable, NoResult

(* Every step keeps it as long as the hardware keeps its word.             *)
LEMMA WholeStep ==
  ASSUME Intact
  PROVE  TypeInv /\ CompareInv /\ FinalInv /\ WholeInv /\ [Next]_vars => WholeInv'
<1>1. ASSUME WholeInv, UNCHANGED vars PROVE WholeInv'
  BY <1>1 DEF WholeInv, SavedWhole, CopiedWhole, BufferWhole, DurableWhole, ResultWhole,
     Resumed, Uncut, vars, file, disk, work, stv, call, user, count
<1> QED
  BY <1>1, WholeOpen, WholeCopy, WholeCheckpoint, WholeFinish, WholeEnvironment
     DEF Next, Engine

(* The inductive invariant: the session file, the manifest and the disk    *)
(* agree on every block that is counted as copied, until a crash cuts the  *)
(* manifest while it is written back.                                      *)
THEOREM WholeInvariant ==
  ASSUME Intact
  PROVE  Spec => []WholeInv
BY FinalInvariant, TypeInvariant, CompareInvariant, WholeInit, WholeStep, PTL DEF Spec

(* A call that returns without an error leaves an exact clone which a power*)
(* loss no longer takes away, every block filled with zeros in its report  *)
(* and its table not half adapted, also when it was resumed across crashes *)
(* and sectors read on some attempts only - unless a crash cut the manifest*)
(* while it was written back (clone.go:540): of the calls after that,      *)
(* CopyFaithful says what holds.                                           *)
THEOREM CloneIsFaithful ==
  ASSUME Intact
  PROVE  Spec => []CloneFaithful
<1>1. ASSUME WholeInv PROVE CloneFaithful
  BY <1>1 DEF WholeInv, ResultWhole, Uncut, CloneFaithful, Faithful, Line, Adapted
<1> QED
  BY <1>1, WholeInvariant, PTL

(* The check of the last block (clone.go:201) never locks an interrupted   *)
(* clone out of its destination, unless its only block is the one with the *)
(* partition table or a crash left no more than that one of its manifest.  *)
THEOREM ResumeAccepted ==
  ASSUME Intact, N > 1
  PROVE  Spec => []ResumeNeverRefused
<1>1. ASSUME TypeInv, CompareInv, WholeInv PROVE ResumeNeverRefused
  <2>1. SUFFICES ASSUME Uncut, pc = "checkLast" PROVE cur[target][offset-1] = man[offset-1]
    BY DEF Uncut, ResumeNeverRefused
  <2>2. /\ saved # NoState /\ saved.disk = target /\ offset = saved.off
        /\ offset \in 1 .. N /\ target \in Disks
    BY <1>1, <2>1 DEF WholeInv, SavedWhole, Resumed, TypeInv, TypeOK, DataOK
  <2>3. offset - 1 \in Blocks /\ offset - 1 < offset
    BY <2>2, CloneAssumption DEF Blocks
  <2>4. cur[target][offset-1] \in pend[target][offset-1]
    BY <1>1, <2>2, <2>3 DEF CompareInv, ReadIsPending
  <2>5. pend[target][offset-1] \subseteq {man[offset-1]} \cup Rest(offset-1, offset)
    BY <1>1, <2>1, <2>2, <2>3 DEF WholeInv, SavedWhole, HeldUpTo
  <2>6. Rest(offset-1, offset) = {}
    BY <2>2, CloneAssumption DEF Rest, Table
  <2> QED
    BY <2>4, <2>5, <2>6
<1> QED
  BY <1>1, TypeInvariant, CompareInvariant, WholeInvariant, PTL
-----------------------------------------------------------------------------
(* The steps of CloneDisk as steps of ResumableCopy.                       *)

Kept == TypeInv /\ CompareInv /\ FinalInv /\ WholeInv

(* Nothing is confirmed exactly while there is no session file.            *)
LEMMA MarkIs ==
  /\ Mark = Promise!NoMark <=> saved = NoState
  /\ saved # NoState => Mark.disk = saved.disk /\ Mark.off = saved.off /\ Mark.bad = saved.bad
<1>1. [disk |-> saved.disk, off |-> saved.off, bad |-> saved.bad] # [disk |-> "none"]
  <2>1. "off" \in DOMAIN [disk |-> saved.disk, off |-> saved.off, bad |-> saved.bad]
    OBVIOUS
  <2>2. "off" \notin DOMAIN [disk |-> "none"]
    OBVIOUS
  <2> QED
    BY <2>1, <2>2
<1> QED
  BY <1>1 DEF Mark, NoState, Promise!NoMark

(* No step raises a doubt about another disk, or about a block that is     *)
(* confirmed, but what the table may hold.                                 *)
LEMMA CarefulStep ==
  ASSUME Kept, [Next]_vars
  PROVE  Promise!Careful
<1> SUFFICES ASSUME NEW d \in Disks, NEW b \in Blocks
             PROVE  /\ pend'[d][b] # {}
                    /\ \/ pend'[d][b] \subseteq pend[d][b]
                       \/ d = target /\ (~Promise!Confirmed(d, b) \/ ~Uncut)
                       \/ d = target /\ b \in GptBlocks
                            /\ pend'[d][b] \subseteq Promise!Settled(b, Mark.bad)
  BY DEF Promise!Careful, Promise!Blocks, Blocks, Uncut
<1>1. TypeInv /\ ReadIsPending
  BY DEF Kept, CompareInv
<1>0. CASE ~Uncut
  BY <1>0, <1>1, PendStep
<1>2. CASE Uncut /\ pc = "write" /\ d = target /\ b = offset
  <2>1. saved # NoState => saved.off \in 0 .. N /\ saved.off <= offset
    BY <1>1, <1>2, SavedIn DEF Kept, WholeInv, SavedWhole
  <2>2. ~Promise!Confirmed(d, b)
    BY <1>1, <1>2, <2>1, MarkIs DEF Promise!Confirmed, TypeInv, TypeOK, DataOK
  <2> QED
    BY <1>1, <1>2, <2>2, PendStep
<1>3. CASE Uncut /\ pc = "adjust" /\ d = target /\ b \in GptBlocks
             /\ pend'[d][b] \subseteq pend[d][b] \cup {"gpt", "gptmix"}
  <2>1. offset = N /\ b < offset
    BY <1>3, CloneAssumption DEF Kept, CompareInv, CopyEnded, AfterCopy, Blocks
  <2>2. man[b] = "data"
    BY <1>3, <2>1, CloneAssumption DEF Kept, WholeInv, CopiedWhole, LinesRight, Line
  <2>3. pend[d][b] \subseteq {"data", "gpt", "gptmix"}
    BY <1>3, <2>1, <2>2 DEF Kept, WholeInv, DurableWhole, Durable, AfterCopy, HeldUpTo, Rest, Table
  <2>4. {"data", "gpt", "gptmix"} \subseteq Promise!Settled(b, Mark.bad)
    BY <1>3 DEF Promise!Settled, Faithful
  <2> QED
    BY <1>1, <1>3, <2>3, <2>4, PendStep
<1> QED
  BY <1>0, <1>1, <1>2, <1>3, PendStep

(* A step of a running call that saves nothing.                            *)
LEMMA RunningStep ==
  ASSUME Kept, [Next]_vars, pc # "idle", pc' # "idle", UNCHANGED <<saved, target, opt, result, Uncut>>
  PROVE  Promise!Write
<1>1. Mark' = Mark
  BY DEF Mark
<1> QED
  BY <1>1, CarefulStep DEF Promise!Write, Uncut

(* A call that ends with an error and saves nothing.                       *)
LEMMA FailingStep ==
  ASSUME Kept, [Next]_vars, pc # "idle", pc' = "idle", UNCHANGED <<saved, target, opt, Uncut>>,
         result'.kind = "error", result'.bad \subseteq Blocks
  PROVE  Promise!GiveUp
<1>1. Mark' = Mark
  BY DEF Mark
<1> QED
  BY <1>1, CarefulStep DEF Promise!GiveUp, Promise!MayLose, Promise!Blocks, Blocks, Uncut

(* A session saved when what is copied is durable confirms it.             *)
LEMMA SavingConfirms ==
  ASSUME Kept, pc \in Durable, NEW c, NEW v, Saves(c, v)
  PROVE  Promise!Confirms
<1>0. Mark'.disk = target /\ Mark'.off = offset /\ Mark'.bad = bad /\ offset \in 0 .. N
  BY DEF Kept, TypeInv, TypeOK, DataOK, Saves, Mark
<1> SUFFICES ASSUME Uncut PROVE Promise!Confirms
  BY <1>0 DEF Promise!Confirms, Uncut
<1>1. /\ offset \in 0 .. N /\ target \in Disks
      /\ LinesRight(man, offset, bad) /\ HeldUpTo(pend, man, offset, target)
  BY DEF Kept, TypeInv, TypeOK, DataOK, WholeInv, CopiedWhole, DurableWhole, Durable, AfterCopy
<1>3. ASSUME NEW b \in 0 .. offset - 1
      PROVE  pend[target][b] \subseteq Promise!Settled(b, bad)
  <2>1. b \in Blocks /\ b < offset
    BY <1>1, CloneAssumption DEF Blocks
  <2>2. man[b] \in Line(b, bad) /\ pend[target][b] \subseteq {man[b]} \cup Rest(b, offset)
    BY <1>1, <2>1 DEF LinesRight, HeldUpTo
  <2> QED
    BY <2>2 DEF Line, Rest, Table, Promise!Settled, Faithful
<1>4. saved # NoState => saved.disk = target /\ saved.off <= offset /\ saved.bad \subseteq bad
  BY DEF Kept, WholeInv, SavedWhole, Durable, AfterCopy
<1>5. Mark # Promise!NoMark =>
        Mark.disk = target /\ offset >= Mark.off /\ Mark.bad \subseteq bad
  <2>1. saved # NoState => saved.off \in 0 .. N
    BY SavedIn DEF Kept
  <2> QED
    BY <1>1, <1>4, <2>1, MarkIs
<1> QED
  BY <1>0, <1>1, <1>3, <1>5 DEF Promise!Confirms

(* A save in a running call.                                               *)
LEMMA SavingStep ==
  ASSUME Kept, pc \in Durable, NEW c, NEW v, Saves(c, v), pc' # "idle",
         UNCHANGED <<pend, target, opt, result, Uncut>>
  PROVE  Promise!Confirm
<1>1. pc # "idle"
  BY DEF Durable, AfterCopy
<1> QED
  BY <1>1, SavingConfirms DEF Promise!Confirm, Uncut

(* The last save of a call that ends with an error.                        *)
LEMMA LastSave ==
  ASSUME Kept, pc \in Durable, NEW c, NEW v, Saves(c, v), pc' = "idle",
         UNCHANGED <<pend, target, opt, Uncut>>, result'.kind = "error", result'.bad \subseteq Blocks
  PROVE  Promise!GiveUp
<1>1. pc # "idle"
  BY DEF Durable, AfterCopy
<1> QED
  BY <1>1, SavingConfirms DEF Promise!GiveUp, Promise!Blocks, Blocks, Uncut

(* A call that returns without an error.                                   *)
LEMMA SucceedingStep ==
  ASSUME WholeInv', pc # "idle", pc' = "idle", result'.kind = "ok",
         UNCHANGED <<pend, saved, target, opt, Uncut>>
  PROVE  Promise!Succeed
<1>1. ASSUME Uncut, NEW b \in Blocks PROVE pend[target][b] \subseteq Faithful(b, result'.bad)
  BY <1>1 DEF WholeInv, ResultWhole, Line, Adapted, Faithful
<1>2. Mark' = Mark
  BY DEF Mark
<1> QED
  BY <1>1, <1>2 DEF Promise!Succeed, Promise!Blocks, Blocks, Uncut

(* The program or the machine stops.                                       *)
LEMMA StoppingStep ==
  ASSUME Kept, TypeInv', [Next]_vars, pc' = "idle", result' = NoResult, MayCut,
         UNCHANGED <<saved, target, opt>>
  PROVE  Promise!Stop
<1>1. Mark' = Mark
  BY DEF Mark
<1>2. ASSUME Uncut' = Uncut PROVE Promise!MayLose
  BY <1>1, <1>2 DEF Promise!MayLose, Uncut
<1>3. ASSUME Uncut' # Uncut PROVE Promise!MayLose
  <2>1. Uncut /\ ~Uncut' /\ saved # NoState /\ manLen' < saved.off
    BY <1>3 DEF Uncut, MayCut, ManifestShort
  <2>2. manLen' \in 0 .. N /\ saved.off \in 0 .. N
    BY <2>1, SavedIn DEF Kept, TypeInv, TypeOK, DataOK
  <2>3. Mark # Promise!NoMark /\ Mark.off # 0
    BY <2>1, <2>2, MarkIs
  <2> QED
    BY <1>1, <2>1, <2>3 DEF Promise!MayLose, Uncut
<1> QED
  BY <1>1, <1>2, <1>3, CarefulStep DEF Promise!Stop, NoResult

(* Opening a session: only the discarding of one it is not to resume shows.*)
LEMMA PromiseOpen ==
  ASSUME Intact, Kept, Kept', Open
  PROVE  Promise!Next
<1> USE DEF Uncut, RewriteIs, Goto, Fail, Return, file, disk, work, stv, call, user, count
<1>0. [Next]_vars /\ bad \subseteq Blocks
  BY DEF Next, Engine, Kept, TypeInv, TypeOK, DataOK
<1>1. CASE Load
  <2>1. pc # "idle" /\ pc' # "idle" /\ UNCHANGED <<saved, target, opt, result, Uncut>>
    BY <1>1 DEF Load
  <2> QED
    BY <1>0, <2>1, RunningStep DEF Promise!Next
<1>2. CASE Discard
  <2>1. /\ pc = "discard" /\ pc' = "open" /\ saved' = NoState /\ UNCHANGED <<pend, target, opt, result>>
        /\ Uncut => Uncut'
    BY <1>2 DEF Discard
  <2>2. Mark' = Promise!NoMark
    BY <2>1 DEF Mark, NoState, Promise!NoMark
  <2>3. CASE Uncut /\ saved = NoState
    BY <1>0, <2>1, <2>3, RunningStep DEF Promise!Next
  <2>4. CASE Uncut /\ saved # NoState
    <3>1. ~opt.resume \/ saved.disk # target \/ saved.off = 0
      BY <2>1, <2>4 DEF Kept, WholeInv, SavedWhole
    <3> QED
      BY <2>1, <2>2, <2>4, <3>1, MarkIs DEF Promise!Withdraw, Promise!Next
  <2>5. CASE ~Uncut
    BY <2>1, <2>2, <2>5 DEF Promise!Withdraw, Promise!Next
  <2> QED
    BY <2>3, <2>4, <2>5
<1>3. CASE TruncateManifest
  <2>1. pc # "idle" /\ pc' # "idle" /\ UNCHANGED <<saved, target, opt, result, Uncut>>
    BY <1>3 DEF TruncateManifest
  <2> QED
    BY <1>0, <2>1, RunningStep DEF Promise!Next
<1>4. CASE WriteBackManifest
  <2>1. pc # "idle" /\ pc' # "idle" /\ UNCHANGED <<saved, target, opt, result, Uncut>>
    BY <1>4 DEF WriteBackManifest, Intact, May
  <2> QED
    BY <1>0, <2>1, RunningStep DEF Promise!Next
<1>5. CASE CheckLastBlock
  <2>1. pc # "idle" /\ UNCHANGED <<pend, saved, target, opt, Uncut>>
    BY <1>5 DEF CheckLastBlock
  <2>2. CASE pc' # "idle"
    <3>1. UNCHANGED result
      BY <1>5, <2>2 DEF CheckLastBlock
    <3> QED
      BY <1>0, <2>1, <2>2, <3>1, RunningStep DEF Promise!Next
  <2>3. CASE pc' = "idle" /\ result'.kind = "ok"
    BY <2>1, <2>3, SucceedingStep DEF Kept, Promise!Next
  <2>4. CASE pc' = "idle" /\ result'.kind # "ok"
    <3>1. result'.kind = "error" /\ result'.bad = bad
      BY <1>5, <2>4 DEF CheckLastBlock
    <3> QED
      BY <1>0, <2>1, <2>4, <3>1, FailingStep DEF Promise!Next
  <2> QED
    BY <2>2, <2>3, <2>4
<1>6. CASE OpenManifest
  <2>1. pc # "idle" /\ pc' # "idle" /\ UNCHANGED <<saved, target, opt, result, Uncut>>
    BY <1>6 DEF OpenManifest, Intact, May
  <2> QED
    BY <1>0, <2>1, RunningStep DEF Promise!Next
<1> QED
  BY <1>1, <1>2, <1>3, <1>4, <1>5, <1>6 DEF Open

(* The copy loop confirms nothing.                                         *)
LEMMA PromiseCopy ==
  ASSUME Kept, Copy
  PROVE  Promise!Next
<1>1. pc # "idle" /\ pc' # "idle" /\ UNCHANGED <<saved, target, opt, result, Uncut>>
  BY DEF Copy, ReadBlock, CopyCancelled, CopyDone, WriteBlock, WriteBlockFails, AppendManifest,
     Uncut, Goto, file, disk, work, stv, call, user, count
<1>2. [Next]_vars
  BY DEF Next, Engine
<1> QED
  BY <1>1, <1>2, RunningStep DEF Promise!Next

(* A step of a call that saves nothing and goes on or ends with an error.  *)
LEMMA QuietStep ==
  ASSUME Kept, [Next]_vars, pc # "idle", UNCHANGED <<saved, target, opt, Uncut>>,
         \/ pc' # "idle" /\ UNCHANGED result
         \/ pc' = "idle" /\ result'.kind = "error" /\ result'.bad \subseteq Blocks
  PROVE  Promise!Next
BY RunningStep, FailingStep DEF Promise!Next

(* A later save goes on, or fails and ends the call.                       *)
LEMMA SaveOrFail ==
  ASSUME Kept, [Next]_vars, pc \in Durable, UNCHANGED <<pend, target, opt, Uncut>>,
         NEW c, NEW v, NEW label \in Labels \ {"idle"}, SaveThenGoto(c, v, label)
  PROVE  Promise!Next
<1>1. bad \subseteq Blocks /\ pc # "idle"
  BY DEF Kept, TypeInv, TypeOK, DataOK, Durable, AfterCopy
<1>2. CASE pc' = "idle"
  <2>1. saved' = saved /\ result'.kind = "error"
    BY <1>2, SaveEffect
  <2>2. result'.bad = bad
    BY <1>2 DEF SaveThenGoto, Goto, Fail, Return
  <2> QED
    BY <1>1, <1>2, <2>1, <2>2, QuietStep
<1>3. CASE pc' # "idle"
  <2>1. result' = result /\ Saves(c, v)
    BY <1>3, SaveEffect
  <2> QED
    BY <1>3, <2>1, SavingStep DEF Promise!Next
<1> QED
  BY <1>2, <1>3

(* A checkpoint confirms what is copied when its last step succeeds.       *)
LEMMA PromiseCheckpoint ==
  ASSUME Kept, Checkpoint
  PROVE  Promise!Next
<1> USE DEF Uncut, RewriteIs, Goto, Fail, Return, file, disk, work, stv, call, user, count
<1>0. [Next]_vars /\ bad \subseteq Blocks
  BY DEF Next, Engine, Kept, TypeInv, TypeOK, DataOK
<1>1. CASE CheckpointManifest
  <2>1. pc # "idle" /\ pc' # "idle" /\ UNCHANGED <<saved, target, opt, result, Uncut>>
    BY <1>1 DEF CheckpointManifest, CheckpointFails
  <2> QED
    BY <1>0, <2>1, QuietStep
<1>2. CASE CheckpointDestination
  <2>1. pc # "idle" /\ pc' # "idle" /\ UNCHANGED <<saved, target, opt, result, Uncut>>
    BY <1>2 DEF CheckpointDestination, CheckpointFails
  <2> QED
    BY <1>0, <2>1, QuietStep
<1>3. CASE CheckpointSave
  <2>1. pc = "ckSave" /\ pc' # "idle" /\ UNCHANGED <<pend, target, opt, result, Uncut>>
    BY <1>3 DEF CheckpointSave, CheckpointFails
  <2>2. CASE saved' = Snapshot(completed, verified)
    <3>1. Saves(completed, verified)
      BY <2>2, SnapshotSaves
    <3>2. pc \in Durable
      BY <2>1 DEF Durable
    <3> QED
      BY <2>1, <3>1, <3>2, SavingStep DEF Promise!Next
  <2>3. CASE UNCHANGED saved
    BY <1>0, <2>1, <2>3, QuietStep
  <2> QED
    BY <1>3, <2>2, <2>3 DEF CheckpointSave
<1>4. CASE ManifestCloseFails
  <2>1. pc # "idle" /\ pc' # "idle" /\ UNCHANGED <<saved, target, opt, result, Uncut>>
    BY <1>4 DEF ManifestCloseFails
  <2> QED
    BY <1>0, <2>1, QuietStep
<1>5. CASE SaveInterrupted
  <2>1. /\ pc = "saveError" /\ pc' = "idle" /\ UNCHANGED <<pend, target, opt, Uncut>>
        /\ result'.kind = "error" /\ result'.bad = bad
    BY <1>5 DEF SaveInterrupted
  <2>2. CASE saved' = Snapshot(FALSE, verified)
    <3>1. Saves(FALSE, verified)
      BY <2>2, SnapshotSaves
    <3>2. pc \in Durable
      BY <2>1 DEF Durable
    <3> QED
      BY <1>0, <2>1, <3>1, <3>2, LastSave DEF Promise!Next
  <2>3. CASE UNCHANGED saved
    BY <1>0, <2>1, <2>3, QuietStep
  <2> QED
    BY <1>5, <2>2, <2>3 DEF SaveInterrupted
<1> QED
  BY <1>1, <1>2, <1>3, <1>4, <1>5 DEF Checkpoint

(* After the copy every save confirms all of it, and the call that returns *)
(* without an error has it all.                                            *)
LEMMA PromiseFinish ==
  ASSUME Kept, Kept', Finish
  PROVE  Promise!Next
<1> USE DEF Uncut, RewriteIs, Goto, Fail, Return, file, disk, work, stv, call, user, count
<1>0. [Next]_vars /\ bad \subseteq Blocks
  BY DEF Next, Engine, Kept, TypeInv, TypeOK, DataOK
<1>1. CASE FinalSync \/ VerifyStops \/ VerifyBlock \/ VerifyResult \/ NoTable \/ TableRefused
           \/ AdjustTable \/ AdjustSync
  <2>1. pc # "idle" /\ UNCHANGED <<saved, target, opt, Uncut>>
    BY <1>1 DEF FinalSync, VerifyStops, VerifyBlock, VerifyResult, NoTable, TableRefused,
       AdjustTable, AdjustSync
  <2>2. \/ pc' # "idle" /\ UNCHANGED result
        \/ pc' = "idle" /\ result'.kind = "error" /\ result'.bad = bad
    <3>1. CASE FinalSync \/ VerifyStops \/ VerifyBlock \/ VerifyResult
      BY <3>1 DEF FinalSync, VerifyStops, VerifyBlock, VerifyResult
    <3>2. CASE NoTable \/ TableRefused \/ AdjustSync
      BY <3>2 DEF NoTable, TableRefused, AdjustSync
    <3>3. CASE AdjustTable
      BY <3>3 DEF AdjustTable
    <3> QED
      BY <1>1, <3>1, <3>2, <3>3
  <2> QED
    BY <1>0, <2>1, <2>2, QuietStep
<1>2. CASE MarkCompleted
  <2>1. pc \in Durable /\ UNCHANGED <<pend, target, opt, Uncut>>
    BY <1>2 DEF MarkCompleted, Durable, AfterCopy
  <2>2. PICK label \in {"verify", "adjust"} : SaveThenGoto(TRUE, verified, label)
    BY <1>2 DEF MarkCompleted
  <2>3. label \in Labels \ {"idle"}
    BY DEF Labels
  <2> QED
    BY <1>0, <2>1, <2>2, <2>3, SaveOrFail
<1>3. CASE VerifyDone
  <2>1. pc \in Durable /\ UNCHANGED <<pend, target, opt, Uncut>> /\ "verified" \in Labels \ {"idle"}
    BY <1>3 DEF VerifyDone, Durable, AfterCopy, Labels
  <2>2. SaveThenGoto(completed, verified', "verified")
    BY <1>3 DEF VerifyDone
  <2> QED
    BY <1>0, <2>1, <2>2, SaveOrFail
<1>4. CASE SaveAdjusted
  <2>1. pc \in Durable /\ UNCHANGED <<pend, target, opt, Uncut>> /\ "report" \in Labels \ {"idle"}
    BY <1>4 DEF SaveAdjusted, Durable, AfterCopy, Labels
  <2>2. SaveThenGoto(completed, verified, "report")
    BY <1>4 DEF SaveAdjusted
  <2> QED
    BY <1>0, <2>1, <2>2, SaveOrFail
<1>5. CASE WriteReports
  <2>1. pc # "idle" /\ pc' = "idle" /\ UNCHANGED <<pend, saved, target, opt, Uncut>>
    BY <1>5 DEF WriteReports
  <2>2. CASE result'.kind = "ok"
    BY <2>1, <2>2, SucceedingStep DEF Kept, Promise!Next
  <2>3. CASE result'.kind # "ok"
    <3>1. result'.kind = "error" /\ result'.bad = bad
      BY <1>5, <2>3 DEF WriteReports
    <3> QED
      BY <1>0, <2>1, <3>1, QuietStep
  <2> QED
    BY <2>2, <2>3
<1> QED
  BY <1>1, <1>2, <1>3, <1>4, <1>5 DEF Finish

(* What the user does and a crash leaves.                                  *)
LEMMA PromiseEnvironment ==
  ASSUME Kept, Begin \/ Cancel \/ TogglePause \/ Kill \/ PowerLoss
  PROVE  Promise!Next
<1> USE DEF Uncut, RewriteIs, Goto, file, disk, work, stv, call, user, count
<1>0. [Next]_vars
  BY DEF Next
<1>1. CASE Begin
  <2>1. PICK d \in Disks, o \in [resume : BOOLEAN, verify : BOOLEAN] : Start(d, o)
    BY <1>1 DEF Begin
  <2>2. /\ pc = "idle" /\ pc' = "load" /\ target' = d /\ opt' = o /\ result' = NoResult
        /\ UNCHANGED <<pend, saved, rewrite>>
    BY <2>1 DEF Start
  <2>3. result.kind # "running" /\ o.resume \in BOOLEAN
    BY DEF Kept, TypeInv, TypeOK, RecordsOK, Result
  <2>4. Promise!Order(d, o.resume)
    BY <2>2, <2>3 DEF Promise!Order, Mark, NoResult
  <2> QED
    BY <2>3, <2>4 DEF Promise!Next
<1>2. CASE Cancel \/ TogglePause
  <2>1. pc # "idle" /\ pc' # "idle" /\ UNCHANGED <<saved, target, opt, result, Uncut>>
    BY <1>2 DEF Cancel, TogglePause
  <2> QED
    BY <1>0, <2>1, QuietStep
<1>3. CASE Kill \/ PowerLoss
  <2>1. pc' = "idle" /\ result' = NoResult /\ MayCut /\ UNCHANGED <<saved, target, opt>>
    BY <1>3 DEF Kill, PowerLoss, Crash
  <2>2. TypeInv'
    BY <1>3, TypeEnvironment DEF Kept
  <2> QED
    BY <1>0, <2>1, <2>2, StoppingStep DEF Promise!Next
<1> QED
  BY <1>1, <1>2, <1>3

(* The first state is one of the promise ...                               *)
LEMMA PromiseInit == Init => Promise!Init
<1> SUFFICES ASSUME Init PROVE Promise!Init
  OBVIOUS
<1>1. pend \in [Disks -> [Blocks -> (SUBSET Content) \ {{}}]]
  <2>1. {"old"} \in (SUBSET Content) \ {{}}
    <3>1. {"old"} \in SUBSET Content
      BY DEF Content
    <3>2. {"old"} # {}
      <4>1. "old" \in {"old"} /\ "old" \notin {}
        OBVIOUS
      <4> QED
        BY <4>1, Zenon
    <3> QED
      BY <3>1, <3>2, Zenon
  <2>2. pend = [d \in Disks |-> [b \in Blocks |-> {"old"}]]
    BY DEF Init
  <2>3. [b \in Blocks |-> {"old"}] \in [Blocks -> (SUBSET Content) \ {{}}]
    BY <2>1
  <2> QED
    BY <2>2, <2>3
<1> QED
  BY <1>1, MarkIs DEF Init, Promise!Init, Promise!Blocks, Blocks, NoResult

(* ... and every step is a step of it or changes nothing it speaks of.     *)
LEMMA PromiseStep ==
  ASSUME Intact
  PROVE  Kept /\ Kept' /\ [Next]_vars => [Promise!Next]_(Promise!vars)
<1>1. ASSUME UNCHANGED vars PROVE UNCHANGED Promise!vars
  BY <1>1 DEF vars, Promise!vars, file, disk, work, stv, call, Mark
<1> QED
  BY <1>1, PromiseOpen, PromiseCopy, PromiseCheckpoint, PromiseFinish, PromiseEnvironment
     DEF Next, Engine

(* CloneDisk implements ResumableCopy: confirmed work is neither lost nor  *)
(* done again, and a copy reported as done is all there, whatever stopped  *)
(* it and however often it was resumed.  The one stop that may take the    *)
(* record of the confirmed work (run clone_stale_adjusted) is a step of    *)
(* ResumableCopy, which says what is left of the promise.                  *)
THEOREM PromiseIsKept ==
  ASSUME Intact
  PROVE  Spec => KeepsPromise
<1>1. Spec => []Kept
  BY FinalInvariant, TypeInvariant, CompareInvariant, WholeInvariant, PTL DEF Kept
<1> QED
  BY <1>1, PromiseInit, PromiseStep, PTL DEF Spec, KeepsPromise, Promise!Spec
=============================================================================
