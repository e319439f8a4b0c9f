-------------------------- MODULE CloneDiskProofs --------------------------
(***************************************************************************)
(* What holds of CloneDisk for every number of blocks, every set of disks, *)
(* every checkpoint distance and every number of sessions and crashes: its *)
(* type invariant; and what a clone promises across kills, power losses,   *)
(* cancels, failing writes and failing saves: the session file never       *)
(* counts a block that can still be lost, and a call that succeeds leaves  *)
(* the source's contents.                                                  *)
(***************************************************************************)
EXTENDS CloneDisk, TLAPS

(***************************************************************************)
(* Type correctness needs where the copy stands: the loop writes only      *)
(* blocks of the source, and from the check of the last block on the       *)
(* manifest has exactly one line per block copied.                         *)
(***************************************************************************)
InRange ==
  /\ pc \in {"write", "append"} => offset < N
  /\ pc \in {"checkLast", "open", "copy", "write", "append", "ckManifest",
             "ckDest", "ckSave"} => manLen = offset
  /\ pc = "discard" => offset = 0
  /\ pc = "writeback" => manDur = 0 /\ rewrite # "no"

TypeInv == TypeOK /\ InRange

-----------------------------------------------------------------------------
(* The values the actions build are of the types declared.                 *)

(* Every result CloneDisk can return is a Result.                          *)
LEMMA ResultIn ==
  \A k \in {"none", "error", "ok"}, v, g \in BOOLEAN, b \in SUBSET Blocks :
    [kind |-> k, verified |-> v, gpt |-> g, bad |-> b] \in Result
BY DEF Result

(* No call has returned: that is a Result too.                             *)
LEMMA NoResultIn == NoResult \in Result
BY DEF Result, NoResult

(* What saveCloneState writes is a session file.                           *)
LEMMA SnapshotIn ==
  \A c, v \in BOOLEAN : DataOK /\ FlagsOK => Snapshot(c, v) \in State
BY DEF DataOK, FlagsOK, Snapshot, State

(* A write leaves contents among those a power loss may leave.             *)
LEMMA AfterWriteIn ==
  \A S \in SUBSET Content, c, m \in Content : AfterWrite(S, c, m) \in SUBSET Content
BY DEF AfterWrite

(* A sync keeps the type of pend.                                          *)
LEMMA SyncIn ==
  DiskOK /\ DataOK /\ SyncDestination => pend' \in [Disks -> [Blocks -> SUBSET Content]]
BY DEF DiskOK, DataOK, SyncDestination

(* Rewriting a block of the table keeps the type of the disks.             *)
LEMMA RewriteIn ==
  ASSUME DiskOK, DataOK, NEW b \in GptBlocks, NEW c \in Content, Rewrite(b, c)
  PROVE  DiskOK'
<1> DEFINE p == AfterWrite(pend[target][b], "gpt", "gptmix")
<1>1. b \in Blocks
  BY CloneAssumption DEF Blocks
<1>2. p \in SUBSET Content
  BY <1>1, AfterWriteIn DEF DiskOK, DataOK, Content
<1>3. /\ cur' = [cur EXCEPT ![target][b] = c]
      /\ pend' = [pend EXCEPT ![target][b] = p]
  BY DEF Rewrite
<1> HIDE DEF p
<1> QED
  BY <1>1, <1>2, <1>3 DEF DiskOK, DataOK

(* The copy loop stands at a block of the source.                          *)
LEMMA AtOffset ==
  ASSUME DiskOK, DataOK, InRange, pc \in {"write", "append"}
  PROVE  /\ offset \in Blocks /\ buf \in Content
         /\ cur[target][offset] \in Content
         /\ pend[target][offset] \in SUBSET Content
<1>1. offset \in Blocks
  BY CloneAssumption DEF DataOK, InRange, Blocks
<1> QED
  BY <1>1 DEF DiskOK, DataOK, Content

(* A write of the copy loop keeps the type of the disks ...                *)
LEMMA WriteBlockIn ==
  ASSUME DiskOK, DataOK, InRange, WriteBlock
  PROVE  DiskOK'
<1>1. /\ offset \in Blocks /\ buf \in Content
      /\ pend[target][offset] \in SUBSET Content
  BY AtOffset DEF WriteBlock
<1>2. PICK c \in {buf} \cup (IF May("corrupt") THEN {"torn"} ELSE {}) :
        /\ cur' = [cur EXCEPT ![target][offset] = c]
        /\ pend' = [pend EXCEPT ![target][offset] = AfterWrite(@, c, "torn")]
  BY DEF WriteBlock
<1>3. c \in Content /\ "torn" \in Content
  BY <1>1, <1>2 DEF Content
<1>4. AfterWrite(pend[target][offset], c, "torn") \in SUBSET Content
  BY <1>1, <1>3, AfterWriteIn
<1> QED
  BY <1>1, <1>2, <1>3, <1>4 DEF DiskOK, DataOK

(* ... and so does one that stops half way ...                             *)
LEMMA PartialWriteIn ==
  ASSUME DiskOK, DataOK, InRange, pc = "write", PartialWrite
  PROVE  DiskOK'
<1>1. /\ offset \in Blocks /\ buf \in Content /\ "torn" \in Content
      /\ pend[target][offset] \in SUBSET Content
  BY AtOffset DEF Content
<1>2. AfterWrite(pend[target][offset], buf, "torn") \in SUBSET Content
  BY <1>1, AfterWriteIn
<1> QED
  BY <1>1, <1>2 DEF DiskOK, DataOK, PartialWrite

(* ... the rewriting of the table ...                                      *)
LEMMA AdjustTableIn ==
  ASSUME DiskOK, DataOK, AdjustTable
  PROVE  DiskOK'
<1>1. PICK b \in GptBlocks :
        \/ Rewrite(b, "gpt")
        \/ \E c \in AfterWrite({cur[target][b]}, "gpt", "gptmix") : Rewrite(b, c)
  BY DEF AdjustTable
<1>2. /\ b \in Blocks /\ cur[target][b] \in Content
      /\ "gpt" \in Content /\ "gptmix" \in Content
  BY CloneAssumption DEF DiskOK, DataOK, Blocks, Content
<1>3. AfterWrite({cur[target][b]}, "gpt", "gptmix") \subseteq Content
  BY <1>2, AfterWriteIn
<1> QED
  BY <1>1, <1>2, <1>3, RewriteIn

(* A crash leaves the manifest at least as long as what was synced of it.  *)
LEMMA CrashKeepsSynced ==
  /\ Kill => Crash /\ manDur' = manDur
  /\ PowerLoss =>
       /\ Crash /\ manDur' = manLen'
       /\ manLen' \in manDur .. (IF pc = "writeback" THEN offset ELSE manLen)
<1>1. Kill => Crash /\ manDur' = manDur
  BY DEF Kill
<1>2. ASSUME PowerLoss
      PROVE  /\ Crash /\ manDur' = manLen'
             /\ manLen' \in manDur .. (IF pc = "writeback" THEN offset ELSE manLen)
  BY ZenonT(60), <1>2 DEF PowerLoss
<1> QED
  BY <1>1, <1>2

(* ... and a power loss.                                                   *)
LEMMA PowerLossIn ==
  ASSUME DiskOK, PowerLoss
  PROVE  DiskOK'
<1> DEFINE unsynced == {p \in Disks \X Blocks : pend[p[1]][p[2]] # {cur[p[1]][p[2]]}}
<1>1. PICK left \in [unsynced -> Content] :
        cur' = [d \in Disks |-> [b \in Blocks |->
                  IF <<d, b>> \in unsynced THEN left[<<d, b>>] ELSE cur[d][b]]]
  BY DEF PowerLoss
<1>2. pend' = [d \in Disks |-> [b \in Blocks |-> {cur'[d][b]}]]
  BY DEF PowerLoss
<1>3. cur' \in [Disks -> [Blocks -> Content]]
  BY <1>1 DEF DiskOK
<1> QED
  BY <1>2, <1>3 DEF DiskOK

(* The manifest has a line for every block copied, and no more.            *)
LEMMA AppendIn ==
  ASSUME DiskOK, DataOK, InRange, AppendManifest
  PROVE  DataOK' /\ InRange'
<1>1. buf \in Content /\ offset \in 0 .. N-1 /\ manLen = offset /\ N \in Nat
  BY CloneAssumption DEF DataOK, InRange, AppendManifest, Content
<1>2. man' \in [Blocks -> Content]
  BY <1>1 DEF DataOK, AppendManifest
<1>3. bad' \in SUBSET Blocks
  BY <1>1 DEF DataOK, AppendManifest, Blocks
<1> QED
  BY <1>1, <1>2, <1>3 DEF AppendManifest, DataOK, InRange, Labels, call, count, Goto

-----------------------------------------------------------------------------
(* TypeInv is inductive.                                                   *)

LEMMA TypeInit == Init => TypeInv
<1> SUFFICES ASSUME Init PROVE TypeInv
  OBVIOUS
<1>1. DiskOK
  BY DEF Init, DiskOK, Content
<1>2. DataOK /\ InRange
  BY CloneAssumption DEF Init, DataOK, InRange, Blocks, Content, Labels, Rewrites
<1>3. FlagsOK
  BY DEF Init, FlagsOK
<1>4. RecordsOK
  BY NoResultIn DEF Init, RecordsOK
<1> QED
  BY <1>1, <1>2, <1>3, <1>4 DEF TypeInv, TypeOK

(* TypeInv through the opening of a session: load, discard, manifest, check.*)
LEMMA TypeOpen ==
  ASSUME TypeInv, Open
  PROVE  TypeInv'
<1> USE DEF TypeInv, TypeOK, Goto, Fail, Return, file, disk, call, user, count, work, stv
<1>1. CASE Load
  <2>1. DiskOK'
    BY <1>1 DEF Load, LoadCloneManifest, CloneStateMatches, Min2, DiskOK
  <2>2. DataOK' /\ InRange'
    BY <1>1, CloneAssumption DEF Load, LoadCloneManifest, CloneStateMatches, Min2, DataOK, RecordsOK, State, NoState, InRange,
       Content, Blocks, Labels
  <2>3. FlagsOK'
    BY <1>1 DEF Load, LoadCloneManifest, CloneStateMatches, Min2, FlagsOK, RecordsOK, DataOK, State, NoState
  <2>4. RecordsOK'
    BY <1>1, ResultIn, NoResultIn, SnapshotIn DEF Load, LoadCloneManifest, CloneStateMatches, Min2, DataOK, FlagsOK, RecordsOK
  <2> QED
    BY <2>1, <2>2, <2>3, <2>4
<1>2. CASE Discard
  <2>1. DiskOK'
    BY <1>2 DEF Discard, DiskOK
  <2>2. DataOK' /\ InRange'
    BY <1>2, CloneAssumption DEF Discard, DataOK, RecordsOK, State, NoState, InRange,
       Content, Blocks, Labels,
       Rewrites, RewriteIs, MayCut
  <2>3. FlagsOK'
    BY <1>2 DEF Discard, FlagsOK, RecordsOK, DataOK, State, NoState
  <2>4. RecordsOK'
    BY <1>2, ResultIn, NoResultIn, SnapshotIn DEF Discard, DataOK, FlagsOK, RecordsOK
  <2> QED
    BY <2>1, <2>2, <2>3, <2>4
<1>3. CASE TruncateManifest
  <2>1. DiskOK'
    BY <1>3 DEF TruncateManifest, DiskOK
  <2>2. DataOK' /\ InRange'
    BY <1>3, CloneAssumption DEF TruncateManifest, DataOK, RecordsOK, State, NoState, InRange,
       Content, Blocks, Labels,
       Rewrites, RewriteIs, MayCut
  <2>3. FlagsOK'
    BY <1>3 DEF TruncateManifest, FlagsOK, RecordsOK, DataOK, State, NoState
  <2>4. RecordsOK'
    BY <1>3, ResultIn, NoResultIn, SnapshotIn DEF TruncateManifest, DataOK, FlagsOK, RecordsOK
  <2> QED
    BY <2>1, <2>2, <2>3, <2>4
<1>4. CASE WriteBackManifest
  <2>1. DiskOK'
    BY <1>4 DEF WriteBackManifest, DiskOK
  <2>2. DataOK' /\ InRange'
    BY <1>4, CloneAssumption DEF WriteBackManifest, DataOK, RecordsOK, State, NoState, InRange,
       Content, Blocks, Labels,
       Rewrites, RewriteIs, MayCut
  <2>3. FlagsOK'
    BY <1>4 DEF WriteBackManifest, FlagsOK, RecordsOK, DataOK, State, NoState
  <2>4. RecordsOK'
    BY <1>4, ResultIn, NoResultIn, SnapshotIn DEF WriteBackManifest, DataOK, FlagsOK, RecordsOK
  <2> QED
    BY <2>1, <2>2, <2>3, <2>4
<1>5. CASE CheckLastBlock
  <2>1. DiskOK'
    BY <1>5 DEF CheckLastBlock, DiskOK
  <2>2. DataOK' /\ InRange'
    BY <1>5, CloneAssumption DEF CheckLastBlock, DataOK, RecordsOK, State, NoState, InRange,
       Content, Blocks, Labels
  <2>3. FlagsOK'
    BY <1>5 DEF CheckLastBlock, FlagsOK, RecordsOK, DataOK, State, NoState
  <2>4. RecordsOK'
    BY ZenonT(60), <1>5, ResultIn, NoResultIn, SnapshotIn DEF CheckLastBlock, DataOK, FlagsOK, RecordsOK
  <2> QED
    BY <2>1, <2>2, <2>3, <2>4
<1>6. CASE OpenManifest
  <2>1. DiskOK'
    BY <1>6 DEF OpenManifest, DiskOK
  <2>2. DataOK' /\ InRange'
    BY <1>6, CloneAssumption DEF OpenManifest, DataOK, RecordsOK, State, NoState, InRange,
       Content, Blocks, Labels
  <2>3. FlagsOK'
    BY <1>6 DEF OpenManifest, FlagsOK, RecordsOK, DataOK, State, NoState
  <2>4. RecordsOK'
    BY <1>6, ResultIn, NoResultIn, SnapshotIn DEF OpenManifest, DataOK, FlagsOK, RecordsOK
  <2> QED
    BY <2>1, <2>2, <2>3, <2>4
<1> QED
  BY <1>1, <1>2, <1>3, <1>4, <1>5, <1>6 DEF Open

(* TypeInv through the copy loop.                                          *)
LEMMA TypeCopy ==
  ASSUME TypeInv, Copy
  PROVE  TypeInv'
<1> USE DEF TypeInv, TypeOK, Goto, Fail, Return, file, disk, call, user, count, work, stv
<1>1. CASE ReadBlock
  <2>1. DiskOK'
    BY <1>1 DEF ReadBlock, DiskOK
  <2>2. DataOK' /\ InRange'
    BY <1>1, CloneAssumption DEF ReadBlock, DataOK, RecordsOK, State, NoState, InRange,
       Content, Blocks, Labels
  <2>3. FlagsOK'
    BY <1>1 DEF ReadBlock, FlagsOK, RecordsOK, DataOK, State, NoState
  <2>4. RecordsOK'
    BY <1>1, ResultIn, NoResultIn, SnapshotIn DEF ReadBlock, DataOK, FlagsOK, RecordsOK
  <2> QED
    BY <2>1, <2>2, <2>3, <2>4
<1>2. CASE CopyCancelled
  <2>1. DiskOK'
    BY <1>2 DEF CopyCancelled, DiskOK
  <2>2. DataOK' /\ InRange'
    BY <1>2, CloneAssumption DEF CopyCancelled, DataOK, RecordsOK, State, NoState, InRange,
       Content, Blocks, Labels
  <2>3. FlagsOK'
    BY <1>2 DEF CopyCancelled, FlagsOK, RecordsOK, DataOK, State, NoState
  <2>4. RecordsOK'
    BY <1>2, ResultIn, NoResultIn, SnapshotIn DEF CopyCancelled, DataOK, FlagsOK, RecordsOK
  <2> QED
    BY <2>1, <2>2, <2>3, <2>4
<1>3. CASE CopyDone
  <2>1. DiskOK'
    BY <1>3 DEF CopyDone, DiskOK
  <2>2. DataOK' /\ InRange'
    BY <1>3, CloneAssumption DEF CopyDone, DataOK, RecordsOK, State, NoState, InRange,
       Content, Blocks, Labels
  <2>3. FlagsOK'
    BY <1>3 DEF CopyDone, FlagsOK, RecordsOK, DataOK, State, NoState
  <2>4. RecordsOK'
    BY <1>3, ResultIn, NoResultIn, SnapshotIn DEF CopyDone, DataOK, FlagsOK, RecordsOK
  <2> QED
    BY <2>1, <2>2, <2>3, <2>4
<1>4. CASE WriteBlock
  <2>1. DiskOK'
    BY <1>4, WriteBlockIn
  <2>2. DataOK' /\ InRange'
    BY <1>4, CloneAssumption DEF WriteBlock, DataOK, RecordsOK, State, NoState, InRange,
       Content, Blocks, Labels
  <2>3. FlagsOK'
    BY <1>4 DEF WriteBlock, FlagsOK, RecordsOK, DataOK, State, NoState
  <2>4. RecordsOK'
    BY <1>4, ResultIn, NoResultIn, SnapshotIn DEF WriteBlock, DataOK, FlagsOK, RecordsOK
  <2> QED
    BY <2>1, <2>2, <2>3, <2>4
<1>5. CASE WriteBlockFails
  <2>1. DiskOK'
    BY <1>5, PartialWriteIn DEF WriteBlockFails
  <2>2. DataOK' /\ InRange'
    BY <1>5, CloneAssumption DEF WriteBlockFails, DataOK, RecordsOK, State, NoState, InRange,
       Content, Blocks, Labels
  <2>3. FlagsOK'
    BY <1>5 DEF WriteBlockFails, FlagsOK, RecordsOK, DataOK, State, NoState
  <2>4. RecordsOK'
    BY <1>5, ResultIn, NoResultIn, SnapshotIn DEF WriteBlockFails, DataOK, FlagsOK, RecordsOK
  <2> QED
    BY <2>1, <2>2, <2>3, <2>4
<1>6. CASE AppendManifest
  <2>1. DiskOK'
    BY <1>6 DEF AppendManifest, DiskOK
  <2>2. DataOK' /\ InRange'
    BY <1>6, AppendIn
  <2>3. FlagsOK'
    BY <1>6 DEF AppendManifest, FlagsOK, RecordsOK, DataOK, State, NoState
  <2>4. RecordsOK'
    BY <1>6, ResultIn, NoResultIn, SnapshotIn DEF AppendManifest, DataOK, FlagsOK, RecordsOK
  <2> QED
    BY <2>1, <2>2, <2>3, <2>4
<1> QED
  BY <1>1, <1>2, <1>3, <1>4, <1>5, <1>6 DEF Copy

(* TypeInv through the checkpoints and the error path that follows one.    *)
LEMMA TypeCheckpoint ==
  ASSUME TypeInv, Checkpoint
  PROVE  TypeInv'
<1> USE DEF TypeInv, TypeOK, Goto, Fail, Return, file, disk, call, user, count, work, stv
<1>1. CASE CheckpointManifest
  <2>1. DiskOK'
    BY <1>1 DEF CheckpointManifest, CheckpointFails, DiskOK
  <2>2. DataOK' /\ InRange'
    BY <1>1, CloneAssumption DEF CheckpointManifest, CheckpointFails, DataOK, RecordsOK, State, NoState, InRange,
       Content, Blocks, Labels,
       Rewrites, RewriteIs, MayCut
  <2>3. FlagsOK'
    BY <1>1 DEF CheckpointManifest, CheckpointFails, FlagsOK, RecordsOK, DataOK, State, NoState
  <2>4. RecordsOK'
    BY <1>1, ResultIn, NoResultIn, SnapshotIn DEF CheckpointManifest, CheckpointFails, DataOK, FlagsOK, RecordsOK
  <2> QED
    BY <2>1, <2>2, <2>3, <2>4
<1>2. CASE CheckpointDestination
  <2>1. DiskOK'
    BY <1>2, SyncIn DEF CheckpointDestination, DiskOK
  <2>2. DataOK' /\ InRange'
    BY <1>2, CloneAssumption DEF CheckpointDestination, CheckpointFails, DataOK, RecordsOK, State, NoState, InRange,
       Content, Blocks, Labels
  <2>3. FlagsOK'
    BY <1>2 DEF CheckpointDestination, CheckpointFails, FlagsOK, RecordsOK, DataOK, State, NoState
  <2>4. RecordsOK'
    BY <1>2, ResultIn, NoResultIn, SnapshotIn DEF CheckpointDestination, CheckpointFails, DataOK, FlagsOK, RecordsOK
  <2> QED
    BY <2>1, <2>2, <2>3, <2>4
<1>3. CASE CheckpointSave
  <2>1. DiskOK'
    BY <1>3 DEF CheckpointSave, CheckpointFails, DiskOK
  <2>2. DataOK' /\ InRange'
    BY <1>3, CloneAssumption DEF CheckpointSave, CheckpointFails, DataOK, RecordsOK, State, NoState, InRange,
       Content, Blocks, Labels
  <2>3. FlagsOK'
    BY <1>3 DEF CheckpointSave, CheckpointFails, FlagsOK, RecordsOK, DataOK, State, NoState
  <2>4. RecordsOK'
    BY <1>3, ResultIn, NoResultIn, SnapshotIn DEF CheckpointSave, CheckpointFails, DataOK, FlagsOK, RecordsOK
  <2> QED
    BY <2>1, <2>2, <2>3, <2>4
<1>4. CASE SaveInterrupted
  <2>1. DiskOK'
    BY <1>4 DEF SaveInterrupted, DiskOK
  <2>2. DataOK' /\ InRange'
    BY <1>4, CloneAssumption DEF SaveInterrupted, DataOK, RecordsOK, State, NoState, InRange,
       Content, Blocks, Labels
  <2>3. FlagsOK'
    BY <1>4 DEF SaveInterrupted, FlagsOK, RecordsOK, DataOK, State, NoState
  <2>4. RecordsOK'
    BY <1>4, ResultIn, NoResultIn, SnapshotIn DEF SaveInterrupted, DataOK, FlagsOK, RecordsOK
  <2> QED
    BY <2>1, <2>2, <2>3, <2>4
<1>5. CASE ManifestCloseFails
  <2>1. DiskOK'
    BY <1>5 DEF ManifestCloseFails, DiskOK
  <2>2. DataOK' /\ InRange'
    BY <1>5, CloneAssumption DEF ManifestCloseFails, DataOK, RecordsOK, State, NoState, InRange,
       Content, Blocks, Labels
  <2>3. FlagsOK'
    BY <1>5 DEF ManifestCloseFails, FlagsOK, RecordsOK, DataOK, State, NoState
  <2>4. RecordsOK'
    BY <1>5, ResultIn, NoResultIn, SnapshotIn DEF ManifestCloseFails, DataOK, FlagsOK, RecordsOK
  <2> QED
    BY <2>1, <2>2, <2>3, <2>4
<1> QED
  BY <1>1, <1>2, <1>3, <1>4, <1>5 DEF Checkpoint

(* TypeInv through sync, verification, table adjustment and reports.       *)
LEMMA TypeFinish ==
  ASSUME TypeInv, Finish
  PROVE  TypeInv'
<1> USE DEF TypeInv, TypeOK, Goto, Fail, Return, file, disk, call, user, count, work, stv
<1>1. CASE FinalSync
  <2>1. DiskOK'
    BY <1>1, SyncIn DEF FinalSync, DiskOK
  <2>2. DataOK' /\ InRange'
    BY <1>1, CloneAssumption DEF FinalSync, DataOK, RecordsOK, State, NoState, InRange,
       Content, Blocks, Labels
  <2>3. FlagsOK'
    BY <1>1 DEF FinalSync, FlagsOK, RecordsOK, DataOK, State, NoState
  <2>4. RecordsOK'
    BY <1>1, ResultIn, NoResultIn, SnapshotIn DEF FinalSync, DataOK, FlagsOK, RecordsOK
  <2> QED
    BY <2>1, <2>2, <2>3, <2>4
<1>2. CASE MarkCompleted
  <2>1. DiskOK'
    BY <1>2 DEF MarkCompleted, SaveThenGoto, DiskOK
  <2>2. DataOK' /\ InRange'
    BY <1>2, CloneAssumption DEF MarkCompleted, SaveThenGoto, DataOK, RecordsOK, State, NoState, InRange,
       Content, Blocks, Labels
  <2>3. FlagsOK'
    BY <1>2 DEF MarkCompleted, SaveThenGoto, FlagsOK, RecordsOK, DataOK, State, NoState
  <2>4. RecordsOK'
    BY <1>2, ResultIn, NoResultIn, SnapshotIn DEF MarkCompleted, SaveThenGoto, DataOK, FlagsOK, RecordsOK
  <2> QED
    BY <2>1, <2>2, <2>3, <2>4
<1>3. CASE VerifyStops
  <2>1. DiskOK'
    BY <1>3 DEF VerifyStops, DiskOK
  <2>2. DataOK' /\ InRange'
    BY <1>3, CloneAssumption DEF VerifyStops, DataOK, RecordsOK, State, NoState, InRange,
       Content, Blocks, Labels
  <2>3. FlagsOK'
    BY <1>3 DEF VerifyStops, FlagsOK, RecordsOK, DataOK, State, NoState
  <2>4. RecordsOK'
    BY <1>3, ResultIn, NoResultIn, SnapshotIn DEF VerifyStops, DataOK, FlagsOK, RecordsOK
  <2> QED
    BY <2>1, <2>2, <2>3, <2>4
<1>4. CASE VerifyBlock
  <2>1. DiskOK'
    BY <1>4 DEF VerifyBlock, LoadCloneManifest, Min2, DiskOK
  <2>2. DataOK' /\ InRange'
    BY <1>4, CloneAssumption DEF VerifyBlock, LoadCloneManifest, Min2, DataOK, RecordsOK, State, NoState, InRange,
       Content, Blocks, Labels
  <2>3. FlagsOK'
    BY <1>4 DEF VerifyBlock, LoadCloneManifest, Min2, FlagsOK, RecordsOK, DataOK, State, NoState
  <2>4. RecordsOK'
    BY <1>4, ResultIn, NoResultIn, SnapshotIn DEF VerifyBlock, LoadCloneManifest, Min2, DataOK, FlagsOK, RecordsOK
  <2> QED
    BY <2>1, <2>2, <2>3, <2>4
<1>5. CASE VerifyDone
  <2>1. DiskOK'
    BY <1>5 DEF VerifyDone, SaveThenGoto, DiskOK
  <2>2. DataOK' /\ InRange'
    BY <1>5, CloneAssumption DEF VerifyDone, SaveThenGoto, DataOK, RecordsOK, State, NoState, InRange,
       Content, Blocks, Labels
  <2>3. FlagsOK'
    BY <1>5 DEF VerifyDone, SaveThenGoto, FlagsOK, RecordsOK, DataOK, State, NoState
  <2>4. RecordsOK'
    BY <1>5, ResultIn, NoResultIn, SnapshotIn DEF VerifyDone, SaveThenGoto, DataOK, FlagsOK, RecordsOK
  <2> QED
    BY <2>1, <2>2, <2>3, <2>4
<1>6. CASE VerifyResult
  <2>1. DiskOK'
    BY <1>6 DEF VerifyResult, DiskOK
  <2>2. DataOK' /\ InRange'
    BY <1>6, CloneAssumption DEF VerifyResult, DataOK, RecordsOK, State, NoState, InRange,
       Content, Blocks, Labels
  <2>3. FlagsOK'
    BY <1>6 DEF VerifyResult, FlagsOK, RecordsOK, DataOK, State, NoState
  <2>4. RecordsOK'
    BY <1>6, ResultIn, NoResultIn, SnapshotIn DEF VerifyResult, DataOK, FlagsOK, RecordsOK
  <2> QED
    BY <2>1, <2>2, <2>3, <2>4
<1>7. CASE AdjustTable
  <2>1. DiskOK'
    BY <1>7, AdjustTableIn
  <2>2. DataOK' /\ InRange'
    BY <1>7, CloneAssumption DEF AdjustTable, DataOK, RecordsOK, State, NoState, InRange,
       Content, Blocks, Labels
  <2>3. FlagsOK'
    BY <1>7 DEF AdjustTable, FlagsOK, RecordsOK, DataOK, State, NoState
  <2>4. RecordsOK'
    BY <1>7, ResultIn, NoResultIn, SnapshotIn DEF AdjustTable, DataOK, FlagsOK, RecordsOK
  <2> QED
    BY <2>1, <2>2, <2>3, <2>4
<1>8. CASE NoTable
  <2>1. DiskOK'
    BY <1>8 DEF NoTable, DiskOK
  <2>2. DataOK' /\ InRange'
    BY <1>8, CloneAssumption DEF NoTable, DataOK, RecordsOK, State, NoState, InRange,
       Content, Blocks, Labels
  <2>3. FlagsOK'
    BY <1>8 DEF NoTable, FlagsOK, RecordsOK, DataOK, State, NoState
  <2>4. RecordsOK'
    BY <1>8, ResultIn, NoResultIn, SnapshotIn DEF NoTable, DataOK, FlagsOK, RecordsOK
  <2> QED
    BY <2>1, <2>2, <2>3, <2>4
<1>9. CASE TableRefused
  <2>1. DiskOK'
    BY <1>9 DEF TableRefused, DiskOK
  <2>2. DataOK' /\ InRange'
    BY <1>9, CloneAssumption DEF TableRefused, DataOK, RecordsOK, State, NoState, InRange,
       Content, Blocks, Labels
  <2>3. FlagsOK'
    BY <1>9 DEF TableRefused, FlagsOK, RecordsOK, DataOK, State, NoState
  <2>4. RecordsOK'
    BY <1>9, ResultIn, NoResultIn, SnapshotIn DEF TableRefused, DataOK, FlagsOK, RecordsOK
  <2> QED
    BY <2>1, <2>2, <2>3, <2>4
<1>10. CASE AdjustSync
  <2>1. DiskOK'
    BY <1>10, SyncIn DEF AdjustSync, DiskOK, disk
  <2>2. DataOK' /\ InRange'
    BY <1>10, CloneAssumption DEF AdjustSync, DataOK, RecordsOK, State, NoState, InRange,
       Content, Blocks, Labels
  <2>3. FlagsOK'
    BY <1>10 DEF AdjustSync, FlagsOK, RecordsOK, DataOK, State, NoState
  <2>4. RecordsOK'
    BY <1>10, ResultIn, NoResultIn, SnapshotIn DEF AdjustSync, DataOK, FlagsOK, RecordsOK
  <2> QED
    BY <2>1, <2>2, <2>3, <2>4
<1>11. CASE SaveAdjusted
  <2>1. DiskOK'
    BY <1>11 DEF SaveAdjusted, SaveThenGoto, DiskOK
  <2>2. DataOK' /\ InRange'
    BY <1>11, CloneAssumption DEF SaveAdjusted, SaveThenGoto, DataOK, RecordsOK, State, NoState, InRange,
       Content, Blocks, Labels
  <2>3. FlagsOK'
    BY <1>11 DEF SaveAdjusted, SaveThenGoto, FlagsOK, RecordsOK, DataOK, State, NoState
  <2>4. RecordsOK'
    BY <1>11, ResultIn, NoResultIn, SnapshotIn DEF SaveAdjusted, SaveThenGoto, DataOK, FlagsOK, RecordsOK
  <2> QED
    BY <2>1, <2>2, <2>3, <2>4
<1>12. CASE WriteReports
  <2>1. DiskOK'
    BY <1>12 DEF WriteReports, DiskOK
  <2>2. DataOK' /\ InRange'
    BY <1>12, CloneAssumption DEF WriteReports, DataOK, RecordsOK, State, NoState, InRange,
       Content, Blocks, Labels
  <2>3. FlagsOK'
    BY <1>12 DEF WriteReports, FlagsOK, RecordsOK, DataOK, State, NoState
  <2>4. opt.verify \in BOOLEAN
    BY DEF DataOK
  <2>5. RecordsOK'
    BY ZenonT(60), <1>12, <2>4, ResultIn DEF WriteReports, DataOK, FlagsOK, RecordsOK
  <2> QED
    BY <2>1, <2>2, <2>3, <2>5
<1> QED
  BY <1>1, <1>2, <1>3, <1>4, <1>5, <1>6, <1>7, <1>8, <1>9, <1>10, <1>11, <1>12 DEF Finish

(* TypeInv through what the user does and what a crash leaves.             *)
LEMMA TypeEnvironment ==
  ASSUME TypeInv, Begin \/ Cancel \/ TogglePause \/ Kill \/ PowerLoss
  PROVE  TypeInv'
<1> USE DEF TypeInv, TypeOK, Goto, Fail, Return, file, disk, call, user, count, work, stv
<1>1. CASE Begin
  <2>1. DiskOK'
    BY <1>1 DEF Begin, Start, DiskOK
  <2>2. DataOK' /\ InRange'
    BY <1>1, CloneAssumption DEF Begin, Start, DataOK, RecordsOK, State, NoState, InRange,
       Content, Blocks, Labels
  <2>3. FlagsOK'
    BY <1>1 DEF Begin, Start, FlagsOK, RecordsOK, DataOK, State, NoState
  <2>4. RecordsOK'
    BY <1>1, ResultIn, NoResultIn, SnapshotIn DEF Begin, Start, DataOK, FlagsOK, RecordsOK
  <2> QED
    BY <2>1, <2>2, <2>3, <2>4
<1>2. CASE Cancel
  <2>1. DiskOK'
    BY <1>2 DEF Cancel, DiskOK
  <2>2. DataOK' /\ InRange'
    BY <1>2, CloneAssumption DEF Cancel, DataOK, RecordsOK, State, NoState, InRange,
       Content, Blocks, Labels
  <2>3. FlagsOK'
    BY <1>2 DEF Cancel, FlagsOK, RecordsOK, DataOK, State, NoState
  <2>4. RecordsOK'
    BY <1>2, ResultIn, NoResultIn, SnapshotIn DEF Cancel, DataOK, FlagsOK, RecordsOK
  <2> QED
    BY <2>1, <2>2, <2>3, <2>4
<1>3. CASE TogglePause
  <2>1. DiskOK'
    BY <1>3 DEF TogglePause, DiskOK
  <2>2. DataOK' /\ InRange'
    BY <1>3, CloneAssumption DEF TogglePause, DataOK, RecordsOK, State, NoState, InRange,
       Content, Blocks, Labels
  <2>3. FlagsOK'
    BY <1>3 DEF TogglePause, FlagsOK, RecordsOK, DataOK, State, NoState
  <2>4. RecordsOK'
    BY <1>3, ResultIn, NoResultIn, SnapshotIn DEF TogglePause, DataOK, FlagsOK, RecordsOK
  <2> QED
    BY <2>1, <2>2, <2>3, <2>4
<1>4. CASE Kill
  <2>1. DiskOK'
    BY <1>4, PartialWriteIn, RewriteIn DEF Kill, DiskOK, Content
  <2>2. DataOK' /\ InRange'
    BY <1>4, CloneAssumption DEF Kill, Crash, DataOK, RecordsOK, State, NoState, InRange,
       Content, Blocks, Labels,
       Rewrites, RewriteIs, MayCut
  <2>3. FlagsOK'
    BY <1>4 DEF Kill, Crash, FlagsOK, RecordsOK, DataOK, State, NoState
  <2>4. RecordsOK'
    BY <1>4, ResultIn, NoResultIn, SnapshotIn DEF Kill, Crash, DataOK, FlagsOK, RecordsOK
  <2> QED
    BY <2>1, <2>2, <2>3, <2>4
<1>5. CASE PowerLoss
  <2>1. DiskOK'
    BY <1>5, PowerLossIn
  <2>2. DataOK' /\ InRange'
    <3>1. manLen' \in 0 .. N /\ manDur' = manLen' /\ Crash
      BY <1>5, CrashKeepsSynced, CloneAssumption DEF DataOK
    <3> QED
      BY <3>1, CloneAssumption DEF Crash, DataOK, InRange, Blocks, Labels, Rewrites, MayCut
  <2>3. FlagsOK'
    BY <1>5 DEF PowerLoss, Crash, FlagsOK, RecordsOK, DataOK, State, NoState
  <2>4. RecordsOK'
    BY <1>5, ResultIn, NoResultIn, SnapshotIn DEF PowerLoss, Crash, DataOK, FlagsOK, RecordsOK
  <2> QED
    BY <2>1, <2>2, <2>3, <2>4
<1> QED
  BY <1>1, <1>2, <1>3, <1>4, <1>5

(* Every step of the program, its user and the machine keeps TypeInv.      *)
LEMMA TypeStep == TypeInv /\ [Next]_vars => TypeInv'
<1> SUFFICES ASSUME TypeInv, [Next]_vars PROVE TypeInv'
  OBVIOUS
<1>1. CASE UNCHANGED vars
  <2>1. DiskOK' /\ DataOK' /\ InRange'
    BY <1>1 DEF TypeInv, TypeOK, DiskOK, DataOK, InRange, vars, file, disk, work, stv,
       call, user, count
  <2>2. FlagsOK' /\ RecordsOK'
    BY <1>1 DEF TypeInv, TypeOK, FlagsOK, RecordsOK, vars, file, disk, work, stv, call,
       user, count
  <2> QED
    BY <2>1, <2>2 DEF TypeInv, TypeOK
<1> QED
  BY <1>1, TypeOpen, TypeCopy, TypeCheckpoint, TypeFinish, TypeEnvironment
     DEF Next, Engine

(* The inductive invariant: CloneDisk's variables keep their types, the     *)
(* loop stays inside the source and the manifest has a line per block.     *)
THEOREM TypeInvariant == Spec => []TypeInv
BY TypeInit, TypeStep, PTL DEF Spec

(* Every variable keeps its type.                                          *)
THEOREM TypeCorrect == Spec => []TypeOK
BY TypeInvariant, PTL DEF TypeInv
-----------------------------------------------------------------------------
(* The promise rests on the hardware keeping its own: a destination that   *)
(* stores what it is given and syncs when it says so, a report directory   *)
(* that takes the manifest, and sectors that read always or never.  The    *)
(* run CloneUnsynced shows what is lost without it.                       *)
Trusted == Faults \cap {"corrupt", "manifest", "sync"} = {} /\ Flaky = {}

(* What the copy of block b holds, its table adapted or half adapted.      *)
Source(b) == IF b \in Unreadable THEN "zero" ELSE "data"
Right(b) == {Source(b)} \cup (IF b \in GptBlocks THEN {"gpt", "gptmix"} ELSE {})
Reported(b, reported) == b \in Unreadable => b \in reported

(* A read returns something a power loss may leave.                        *)
ReadIsPending == \A d \in Disks, b \in Blocks : cur[d][b] \in pend[d][b]

SavedHolds ==
  saved # NoState =>
    \A b \in Blocks : b < saved.off =>
      pend[saved.disk][b] \subseteq Right(b) /\ Reported(b, saved.bad)

CopiedHolds ==
  pc \notin {"idle", "load"} =>
    \A b \in Blocks : b < offset => cur[target][b] \in Right(b) /\ Reported(b, bad)

(* The block in the loop, and in the end the block on the disk.            *)
BufferHolds ==
  /\ pc \in {"write", "append"} => buf = Source(offset)
  /\ pc = "append" => cur[target][offset] = buf

(* From the sync of a checkpoint on, what is copied is durable.            *)
DurableHolds ==
  pc \in {"ckSave", "saveError", "finalSync", "markCompleted", "verify", "verified",
          "adjust", "adjustSync", "saveGpt", "report"} =>
    \A b \in Blocks : b < offset => pend[target][b] \subseteq Right(b)

(* A resumed session belongs to the target and covers what is kept of it;  *)
(* a session that starts over has forgotten the old file.                  *)
ResumeHolds ==
  /\ pc \in {"truncate", "writeback", "checkLast"} =>
       /\ offset # 0
       /\ saved # NoState /\ saved.disk = target /\ offset <= saved.off
  /\ pc \in {"open", "copy", "write"} /\ offset = 0 =>
       saved = NoState \/ saved.off = 0

(* The steps after the copy run with every block copied.                   *)
CopyComplete ==
  /\ pc \in {"discard", "truncate", "writeback", "checkLast", "open", "copy", "write",
             "append"} => ~forced
  /\ pc \in {"ckManifest", "ckDest", "ckSave"} /\ forced /\ ~failed => offset = N
  /\ pc \in {"finalSync", "markCompleted", "verify", "verified",
             "adjust", "adjustSync", "saveGpt", "report"} => offset = N
  /\ ~manBroken

ResultHolds ==
  result.kind = "ok" =>
    /\ pc = "idle"
    /\ \A b \in Blocks : pend[target][b] \subseteq Right(b) /\ Reported(b, result.bad)

SafeInv ==
  /\ ReadIsPending /\ SavedHolds /\ CopiedHolds /\ BufferHolds
  /\ DurableHolds /\ ResumeHolds /\ CopyComplete /\ ResultHolds

-----------------------------------------------------------------------------
(* What the writes and syncs of the destination leave.                     *)

(* A sync takes possible contents away and adds none.                      *)
LEMMA SyncKeeps ==
  ASSUME TypeInv, ReadIsPending, SavedHolds, SyncDestination, UNCHANGED <<cur, saved>>
  PROVE  ReadIsPending' /\ SavedHolds'
<1>1. \A d \in Disks, b \in Blocks :
        pend'[d][b] = IF d = target THEN {cur[d][b]} ELSE pend[d][b]
  BY DEF SyncDestination, TypeInv, TypeOK, DiskOK, DataOK
<1>2. ReadIsPending'
  BY <1>1 DEF ReadIsPending
<1>3. ASSUME NEW d \in Disks, NEW b \in Blocks
      PROVE  pend'[d][b] \subseteq pend[d][b]
  <2>1. cur[d][b] \in pend[d][b]
    BY DEF ReadIsPending
  <2>2. CASE d = target
    BY <1>1, <2>1, <2>2
  <2>3. CASE d # target
    BY <1>1, <2>3
  <2> QED
    BY <2>2, <2>3
<1>4. SavedHolds'
  BY <1>3 DEF SavedHolds, TypeInv, TypeOK, RecordsOK, State
<1> QED
  BY <1>2, <1>4

(* Rewriting the table touches the blocks of the table only.               *)
Table(b) == IF b \in GptBlocks THEN {"gpt", "gptmix"} ELSE {}

TableTouched ==
  \A d \in Disks, b \in Blocks :
    /\ cur'[d][b] \in pend'[d][b]
    /\ cur'[d][b] \in {cur[d][b]} \cup Table(b)
    /\ pend'[d][b] \subseteq pend[d][b] \cup Table(b)

LEMMA RewriteKeeps ==
  ASSUME TypeInv, ReadIsPending, NEW g \in GptBlocks,
         NEW c \in AfterWrite({cur[target][g]}, "gpt", "gptmix") \cup {"gpt"},
         Rewrite(g, c)
  PROVE  TableTouched
<1> SUFFICES ASSUME NEW d \in Disks, NEW b \in Blocks
             PROVE  /\ cur'[d][b] \in pend'[d][b]
                    /\ cur'[d][b] \in {cur[d][b]} \cup Table(b)
                    /\ pend'[d][b] \subseteq pend[d][b] \cup Table(b)
  BY DEF TableTouched
<1>1. g \in Blocks /\ cur[d][b] \in pend[d][b] /\ target \in Disks
  BY CloneAssumption DEF ReadIsPending, Blocks, TypeInv, TypeOK, DataOK
<1>2. CASE d = target /\ b = g
  <2>1. cur'[d][b] = c /\ pend'[d][b] = AfterWrite(pend[d][b], "gpt", "gptmix")
    BY <1>1, <1>2 DEF Rewrite, TypeInv, TypeOK, DiskOK
  <2>2. Table(b) = {"gpt", "gptmix"}
    BY <1>2 DEF Table
  <2> QED
    BY <1>1, <1>2, <2>1, <2>2 DEF AfterWrite
<1>3. CASE ~(d = target /\ b = g)
  <2>1. cur'[d][b] = cur[d][b] /\ pend'[d][b] = pend[d][b]
    BY <1>1, <1>3 DEF Rewrite, TypeInv, TypeOK, DiskOK
  <2> QED
    BY <1>1, <2>1
<1> QED
  BY <1>2, <1>3

(* ... and so keeps what the session promises.                             *)
LEMMA TableKeeps ==
  ASSUME TypeInv, SafeInv, TableTouched, UNCHANGED saved
  PROVE  /\ ReadIsPending' /\ SavedHolds'
         /\ pc' # "idle" /\ UNCHANGED <<target, offset, bad>> /\ pc = "adjust"
              => CopiedHolds' /\ DurableHolds'
<1> USE DEF TableTouched, Table, TypeInv, TypeOK, DataOK, Right, SafeInv
<1>1. ReadIsPending'
  BY DEF ReadIsPending
<1>2. SavedHolds'
  BY DEF SavedHolds, RecordsOK, State
<1>3. ASSUME UNCHANGED <<target, offset, bad>>, pc = "adjust"
      PROVE  CopiedHolds' /\ DurableHolds'
  BY <1>3 DEF CopiedHolds, DurableHolds
<1> QED
  BY <1>1, <1>2, <1>3

(* A power loss leaves what it may leave, and nothing else pending.        *)
LEMMA PowerLossKeeps ==
  ASSUME TypeInv, ReadIsPending, SavedHolds, PowerLoss, UNCHANGED saved
  PROVE  ReadIsPending' /\ SavedHolds'
<1> DEFINE unsynced == {p \in Disks \X Blocks : pend[p[1]][p[2]] # {cur[p[1]][p[2]]}}
<1>1. PICK left \in [unsynced -> Content] :
        /\ \A p \in unsynced : left[p] \in pend[p[1]][p[2]]
        /\ cur' = [d \in Disks |-> [b \in Blocks |->
                     IF <<d, b>> \in unsynced THEN left[<<d, b>>] ELSE cur[d][b]]]
  BY DEF PowerLoss
<1>2. ASSUME NEW d \in Disks, NEW b \in Blocks
      PROVE  /\ cur'[d][b] \in pend[d][b]
             /\ pend'[d][b] = {cur'[d][b]}
  <2>1. pend' = [e \in Disks |-> [x \in Blocks |-> {cur'[e][x]}]]
    BY DEF PowerLoss
  <2>2. <<d, b>> \in unsynced <=> pend[d][b] # {cur[d][b]}
    OBVIOUS
  <2>3. cur'[d][b] = IF <<d, b>> \in unsynced THEN left[<<d, b>>] ELSE cur[d][b]
    <3> HIDE DEF unsynced
    <3> QED
      BY <1>1
  <2>4. <<d, b>> \in unsynced => left[<<d, b>>] \in pend[d][b]
    BY <1>1
  <2>5. cur'[d][b] \in pend[d][b]
    BY <2>2, <2>3, <2>4
  <2> QED
    BY <2>1, <2>5
<1>3. ReadIsPending'
  BY <1>2 DEF ReadIsPending
<1>4. SavedHolds'
  BY <1>2 DEF SavedHolds, TypeInv, TypeOK, RecordsOK, State
<1> QED
  BY <1>3, <1>4

(* A write cut short damages no block the session file counts: when the    *)
(* copy runs over such a block again, the block holds what is written.     *)
LEMMA PartialWriteKeeps ==
  ASSUME TypeInv, SafeInv, pc = "write", PartialWrite, UNCHANGED saved
  PROVE  ReadIsPending' /\ SavedHolds'
<1> DEFINE p == AfterWrite(pend[target][offset], buf, "torn")
<1>1. offset \in Blocks /\ target \in Disks
  BY AtOffset DEF TypeInv, TypeOK, DataOK
<1>2. PICK c \in p : /\ cur' = [cur EXCEPT ![target][offset] = c]
                     /\ pend' = [pend EXCEPT ![target][offset] = p]
  BY DEF PartialWrite
<1>3. \A d \in Disks, b \in Blocks :
        /\ cur'[d][b] = IF d = target /\ b = offset THEN c ELSE cur[d][b]
        /\ pend'[d][b] = IF d = target /\ b = offset THEN p ELSE pend[d][b]
  <2> HIDE DEF p
  <2> QED
    BY <1>1, <1>2 DEF TypeInv, TypeOK, DiskOK
<1>4. ReadIsPending'
  BY <1>2, <1>3 DEF SafeInv, ReadIsPending
<1>5. ASSUME saved # NoState, saved.disk = target, offset < saved.off
      PROVE  p = pend[target][offset]
  <2>1. offset # 0 /\ offset \notin GptBlocks
    BY <1>1, <1>5, CloneAssumption DEF SafeInv, ResumeHolds, TypeInv, TypeOK, DataOK, Blocks
  <2>2. pend[target][offset] \subseteq {Source(offset)} /\ buf = Source(offset)
    BY <1>1, <1>5, <2>1 DEF SafeInv, SavedHolds, Right, BufferHolds
  <2>3. cur[target][offset] \in pend[target][offset]
    BY <1>1 DEF SafeInv, ReadIsPending
  <2> QED
    BY <2>2, <2>3 DEF AfterWrite
<1>6. SavedHolds'
  <2> HIDE DEF p
  <2> QED
    BY <1>1, <1>3, <1>5 DEF SafeInv, SavedHolds, TypeInv, TypeOK, RecordsOK, State
<1> QED
  BY <1>4, <1>6

(* SafeInv through opening a session. *)
LEMMA SafeOpen ==
  ASSUME Trusted, TypeInv, SafeInv, Open
  PROVE  SafeInv'
<1> USE CloneAssumption
    DEF Trusted, TypeInv, TypeOK, DiskOK, DataOK, RecordsOK, State, NoState, InRange,
        SafeInv, ReadIsPending, SavedHolds, CopiedHolds, BufferHolds, DurableHolds,
        ResumeHolds, CopyComplete, ResultHolds, Right, Source, Reported, NoResult, Blocks,
        Goto, Fail, Return, Snapshot, May, file, disk, call, user, count, work, stv
<1>1. CASE Load
  <2>1. /\ ReadIsPending' /\ SavedHolds' /\ BufferHolds' /\ DurableHolds'
        /\ ResumeHolds' /\ CopyComplete' /\ ResultHolds'
    BY <1>1 DEF Load, LoadCloneManifest, CloneStateMatches, Min2
  <2>2. CopiedHolds'
    <3>1. CASE offset' = 0
      BY <1>1, <3>1 DEF Load, LoadCloneManifest, CloneStateMatches, Min2
    <3>2. CASE offset' # 0
      <4>1. /\ saved # NoState /\ saved.disk = target
            /\ offset' <= saved.off /\ bad' = saved.bad
        BY <1>1, <3>2 DEF Load, LoadCloneManifest, CloneStateMatches, Min2
      <4>2. UNCHANGED <<target, cur>>
        BY <1>1 DEF Load
      <4>3. ASSUME NEW b \in Blocks, b < offset'
            PROVE  cur[target][b] \in Right(b) /\ Reported(b, saved.bad)
        <5>1. b < saved.off /\ offset' \in 0 .. N
          BY <1>1, <4>1, <4>3 DEF Load, LoadCloneManifest, CloneStateMatches, Min2
        <5> QED
          BY <4>1, <5>1
      <4> QED
        BY <4>1, <4>2, <4>3
    <3> QED
      BY <3>1, <3>2
  <2> QED
    BY <2>1, <2>2
<1>2. CASE Discard
  BY <1>2 DEF Discard
<1>3. CASE TruncateManifest
  BY <1>3 DEF TruncateManifest
<1>4. CASE WriteBackManifest
  BY <1>4 DEF WriteBackManifest
<1>5. CASE CheckLastBlock
  <2>1. /\ ReadIsPending' /\ SavedHolds' /\ CopiedHolds' /\ BufferHolds'
        /\ DurableHolds' /\ ResumeHolds' /\ CopyComplete'
    BY <1>5 DEF CheckLastBlock
  <2>2. ResultHolds'
    <3>1. SUFFICES ASSUME completed /\ gpt /\ offset = N, result'.bad = bad
                   PROVE  ResultHolds'
      BY <1>5 DEF CheckLastBlock
    <3>2. \A b \in Blocks : b < offset /\ b < saved.off
      BY SMTT(30), <1>5, <3>1 DEF CheckLastBlock
    <3>3. pc' = "idle" \/ result'.kind # "ok"
      BY <1>5 DEF CheckLastBlock
    <3>4. \A b \in Blocks :
            /\ pend[target][b] \subseteq Right(b)
            /\ Reported(b, result'.bad)
      BY <1>5, <3>1, <3>2 DEF CheckLastBlock
    <3> QED
      BY <1>5, <3>3, <3>4 DEF CheckLastBlock
  <2> QED
    BY <2>1, <2>2
<1>6. CASE OpenManifest
  BY <1>6 DEF OpenManifest
<1> QED
  BY <1>1, <1>2, <1>3, <1>4, <1>5, <1>6 DEF Open

(* SafeInv through the copy loop. *)
LEMMA SafeCopy ==
  ASSUME Trusted, TypeInv, SafeInv, Copy
  PROVE  SafeInv'
<1> USE CloneAssumption
    DEF Trusted, TypeInv, TypeOK, DiskOK, DataOK, RecordsOK, State, NoState, InRange,
        SafeInv, ReadIsPending, SavedHolds, CopiedHolds, BufferHolds, DurableHolds,
        ResumeHolds, CopyComplete, ResultHolds, Right, Source, Reported, NoResult, Blocks,
        Goto, Fail, Return, Snapshot, May, file, disk, call, user, count, work, stv
<1>1. CASE ReadBlock
  BY <1>1 DEF ReadBlock
<1>2. CASE CopyCancelled
  BY <1>2 DEF CopyCancelled
<1>3. CASE CopyDone
  BY <1>3 DEF CopyDone
<1>4. CASE WriteBlock
  BY <1>4 DEF WriteBlock, AfterWrite
<1>5. CASE WriteBlockFails
  <2>1. ReadIsPending' /\ SavedHolds'
    BY <1>5, PartialWriteKeeps DEF WriteBlockFails
  <2>2. /\ CopiedHolds' /\ BufferHolds' /\ DurableHolds'
        /\ ResumeHolds' /\ CopyComplete' /\ ResultHolds'
    BY <1>5 DEF WriteBlockFails, PartialWrite
  <2> QED
    BY <2>1, <2>2
<1>6. CASE AppendManifest
  <2>1. ReadIsPending' /\ SavedHolds' /\ CopiedHolds'
    BY <1>6 DEF AppendManifest
  <2>2. BufferHolds' /\ DurableHolds' /\ ResumeHolds' /\ ResultHolds'
    BY <1>6 DEF AppendManifest
  <2>3. CopyComplete'
    BY <1>6 DEF AppendManifest
  <2> QED
    BY <2>1, <2>2, <2>3
<1> QED
  BY <1>1, <1>2, <1>3, <1>4, <1>5, <1>6 DEF Copy

(* SafeInv through checkpoints. *)
LEMMA SafeCheckpoint ==
  ASSUME Trusted, TypeInv, SafeInv, Checkpoint
  PROVE  SafeInv'
<1> USE CloneAssumption
    DEF Trusted, TypeInv, TypeOK, DiskOK, DataOK, RecordsOK, State, NoState, InRange,
        SafeInv, ReadIsPending, SavedHolds, CopiedHolds, BufferHolds, DurableHolds,
        ResumeHolds, CopyComplete, ResultHolds, Right, Source, Reported, NoResult, Blocks,
        Goto, Fail, Return, Snapshot, May, file, disk, call, user, count, work, stv
<1>1. CASE CheckpointManifest
  <2>1. ReadIsPending' /\ SavedHolds'
    BY <1>1 DEF CheckpointManifest
  <2>2. CopiedHolds' /\ BufferHolds' /\ DurableHolds'
    BY <1>1 DEF CheckpointManifest, CheckpointFails
  <2>3. ResumeHolds' /\ CopyComplete' /\ ResultHolds'
    BY <1>1 DEF CheckpointManifest, CheckpointFails
  <2> QED
    BY <2>1, <2>2, <2>3
<1>2. CASE CheckpointDestination
  <2>1. ReadIsPending' /\ SavedHolds'
    BY <1>2, SyncKeeps DEF CheckpointDestination
  <2>2. /\ CopiedHolds' /\ BufferHolds' /\ DurableHolds'
        /\ ResumeHolds' /\ CopyComplete' /\ ResultHolds'
    BY <1>2 DEF CheckpointDestination, CheckpointFails, SyncDestination
  <2> QED
    BY <2>1, <2>2
<1>3. CASE CheckpointSave
  BY <1>3 DEF CheckpointSave, CheckpointFails
<1>4. CASE SaveInterrupted
  BY <1>4 DEF SaveInterrupted
<1>5. CASE ManifestCloseFails
  BY <1>5 DEF ManifestCloseFails
<1> QED
  BY <1>1, <1>2, <1>3, <1>4, <1>5 DEF Checkpoint

(* SafeInv through what follows the copy. *)
LEMMA SafeFinish ==
  ASSUME Trusted, TypeInv, SafeInv, Finish
  PROVE  SafeInv'
<1> USE CloneAssumption
    DEF Trusted, TypeInv, TypeOK, DiskOK, DataOK, RecordsOK, State, NoState, InRange,
        SafeInv, ReadIsPending, SavedHolds, CopiedHolds, BufferHolds, DurableHolds,
        ResumeHolds, CopyComplete, ResultHolds, Right, Source, Reported, NoResult, Blocks,
        Goto, Fail, Return, Snapshot, May, file, disk, call, user, count, work, stv
<1>1. CASE FinalSync
  <2>1. ReadIsPending' /\ SavedHolds'
    BY <1>1, SyncKeeps DEF FinalSync
  <2>2. /\ CopiedHolds' /\ BufferHolds' /\ DurableHolds'
        /\ ResumeHolds' /\ CopyComplete' /\ ResultHolds'
    BY <1>1 DEF FinalSync, SyncDestination
  <2> QED
    BY <2>1, <2>2
<1>2. CASE MarkCompleted
  BY <1>2 DEF MarkCompleted, SaveThenGoto
<1>3. CASE VerifyStops
  BY <1>3 DEF VerifyStops
<1>4. CASE VerifyBlock
  BY <1>4 DEF VerifyBlock, LoadCloneManifest, Min2
<1>5. CASE VerifyDone
  BY <1>5 DEF VerifyDone, SaveThenGoto
<1>6. CASE VerifyResult
  BY <1>6 DEF VerifyResult
<1>7. CASE AdjustTable
  <2>1. PICK b \in GptBlocks :
          \E c \in AfterWrite({cur[target][b]}, "gpt", "gptmix") \cup {"gpt"} : Rewrite(b, c)
    BY <1>7 DEF AdjustTable
  <2>2. TableTouched
    BY <2>1, RewriteKeeps
  <2>3. ReadIsPending' /\ SavedHolds' /\ CopiedHolds' /\ DurableHolds'
    BY <1>7, <2>2, TableKeeps DEF AdjustTable
  <2>4. BufferHolds' /\ ResumeHolds' /\ CopyComplete' /\ ResultHolds'
    BY <1>7 DEF AdjustTable
  <2> QED
    BY <2>3, <2>4
<1>8. CASE NoTable
  BY <1>8 DEF NoTable
<1>9. CASE TableRefused
  BY <1>9 DEF TableRefused
<1>10. CASE AdjustSync
  <2>1. ReadIsPending' /\ SavedHolds'
    BY <1>10, SyncKeeps DEF AdjustSync
  <2>2. /\ CopiedHolds' /\ BufferHolds' /\ DurableHolds'
        /\ ResumeHolds' /\ CopyComplete' /\ ResultHolds'
    BY <1>10 DEF AdjustSync, SyncDestination
  <2> QED
    BY <2>1, <2>2
<1>11. CASE SaveAdjusted
  BY <1>11 DEF SaveAdjusted, SaveThenGoto
<1>12. CASE WriteReports
  BY <1>12 DEF WriteReports
<1> QED
  BY <1>1, <1>2, <1>3, <1>4, <1>5, <1>6, <1>7, <1>8, <1>9, <1>10, <1>11, <1>12 DEF Finish

(* A kill in the middle of it, too.                                        *)
LEMMA CutRewriteKeeps ==
  ASSUME TypeInv, ReadIsPending, NEW b \in GptBlocks,
         cur[target][b] \in {"data", "gptmix"}, Rewrite(b, "gptmix")
  PROVE  TableTouched
<1>1. {cur[target][b]} # {"gpt"}
  OBVIOUS
<1>2. "gptmix" \in AfterWrite({cur[target][b]}, "gpt", "gptmix")
  BY <1>1 DEF AfterWrite
<1> QED
  BY <1>2, RewriteKeeps

(* SafeInv through the user and the machine. *)
LEMMA SafeEnvironment ==
  ASSUME Trusted, TypeInv, SafeInv, Begin \/ Cancel \/ TogglePause \/ Kill \/ PowerLoss
  PROVE  SafeInv'
<1> USE CloneAssumption
    DEF Trusted, TypeInv, TypeOK, DiskOK, DataOK, RecordsOK, State, NoState, InRange,
        SafeInv, ReadIsPending, SavedHolds, CopiedHolds, BufferHolds, DurableHolds,
        ResumeHolds, CopyComplete, ResultHolds, Right, Source, Reported, NoResult, Blocks,
        Goto, Fail, Return, Snapshot, May, file, disk, call, user, count, work, stv
<1>1. CASE Begin
  BY <1>1 DEF Begin, Start
<1>2. CASE Cancel
  BY <1>2 DEF Cancel
<1>3. CASE TogglePause
  BY <1>3 DEF TogglePause
<1>4. CASE Kill
  <2>1. /\ CopiedHolds' /\ BufferHolds' /\ DurableHolds'
        /\ ResumeHolds' /\ CopyComplete' /\ ResultHolds'
    BY <1>4 DEF Kill, Crash
  <2>2. CASE UNCHANGED disk
    BY <1>4, <2>1, <2>2 DEF Kill, Crash
  <2>3. CASE pc = "write" /\ PartialWrite
    BY <1>4, <2>1, <2>3, PartialWriteKeeps DEF Kill, Crash
  <2>4. CASE \E b \in GptBlocks : cur[target][b] \in {"data", "gptmix"} /\ Rewrite(b, "gptmix")
    <3>1. TableTouched
      BY <2>4, CutRewriteKeeps
    <3>2. ReadIsPending' /\ SavedHolds'
      BY <1>4, <3>1, TableKeeps DEF Kill, Crash
    <3> QED
      BY <2>1, <3>2
  <2> QED
    BY <1>4, <2>2, <2>3, <2>4 DEF Kill
<1>5. CASE PowerLoss
  <2>1. pc' = "idle" /\ result' = NoResult /\ UNCHANGED <<forced, failed, manBroken>>
    BY <1>5 DEF PowerLoss, Crash
  <2>2. /\ CopiedHolds' /\ BufferHolds' /\ DurableHolds'
        /\ ResumeHolds' /\ CopyComplete' /\ ResultHolds'
    BY <2>1
  <2>3. ReadIsPending' /\ SavedHolds'
    BY <1>5, PowerLossKeeps DEF Crash, PowerLoss
  <2> QED
    BY <2>2, <2>3
<1> QED
  BY <1>1, <1>2, <1>3, <1>4, <1>5

(* SafeInv holds before the first call.                                    *)
LEMMA SafeInit == Init => SafeInv
BY CloneAssumption
   DEF Init, SafeInv, ReadIsPending, SavedHolds, CopiedHolds, BufferHolds, DurableHolds,
       ResumeHolds, CopyComplete, ResultHolds, NoResult, Blocks

(* Every step keeps SafeInv as long as the hardware keeps its word.        *)
LEMMA SafeStep ==
  ASSUME Trusted
  PROVE  TypeInv /\ SafeInv /\ [Next]_vars => SafeInv'
<1> SUFFICES ASSUME TypeInv, SafeInv, [Next]_vars PROVE SafeInv'
  OBVIOUS
<1>1. CASE UNCHANGED vars
  BY <1>1 DEF SafeInv, ReadIsPending, SavedHolds, CopiedHolds, BufferHolds,
     DurableHolds, ResumeHolds, CopyComplete, ResultHolds, vars, file, disk, work, stv,
     call, user, count
<1> QED
  BY <1>1, SafeOpen, SafeCopy, SafeCheckpoint, SafeFinish, SafeEnvironment
     DEF Next, Engine

(* The inductive invariant behind the two theorems below: what is counted  *)
(* as copied is right on disk, and durable from a checkpoint's sync on.    *)
THEOREM SafeInvariant ==
  ASSUME Trusted
  PROVE  Spec => []SafeInv
BY TypeInvariant, TypeInit, SafeInit, SafeStep, PTL DEF Spec

(* The session file never counts a block a power loss could still take     *)
(* away, nor an unreadable one it does not list: whatever was cancelled,   *)
(* killed or cut short before, clone.go's CloneDisk may resume from it.    *)
THEOREM SavedSafe ==
  ASSUME Trusted
  PROVE  Spec => []SavedStateSafe
<1>1. ASSUME SafeInv PROVE SavedStateSafe
  BY <1>1 DEF SafeInv, SavedHolds, SavedStateSafe, Right, Source, Reported, Faithful
<1> QED
  BY <1>1, SafeInvariant, PTL

(* A call of CloneDisk that returns without an error has durably copied    *)
(* every block outside the table, and reported each one filled with zeros. *)
THEOREM CopyFaithful ==
  ASSUME Trusted
  PROVE  Spec => []ContentsFaithful
<1>1. ASSUME SafeInv PROVE ContentsFaithful
  BY <1>1 DEF SafeInv, ResultHolds, ContentsFaithful, Right, Source, Reported, Faithful
<1> QED
  BY <1>1, SafeInvariant, PTL
=============================================================================
