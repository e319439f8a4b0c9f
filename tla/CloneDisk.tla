------------------------------ MODULE CloneDisk ------------------------------
(***************************************************************************)
(* recovery/clone.go, CloneDisk: the raw copy of a source disk onto a      *)
(* destination disk, its session file (CLONAGEM_SESSAO.json), its block    *)
(* manifest (CLONAGEM_BLOCOS.ndjson) and its resumption after a cancel, a  *)
(* failing step, a killed process or a power loss.                         *)
(*                                                                         *)
(* Simplifications.                                                        *)
(*  - The unit of data is the chunk ("block").  What matters of a block is *)
(*    whether it holds what the source holds, so its content is a name.    *)
(*  - A manifest line is the content its hash stands for; the file is the  *)
(*    function man cut at manLen, because loadCloneManifest accepts only   *)
(*    lines whose offsets follow each other from zero.                     *)
(*  - saveCloneState writes a temporary file, syncs it and renames it over *)
(*    the session file, and os.Remove is journalled: both are one durable  *)
(*    step that happens or does not.                                       *)
(*  - The bytes that adjustPartitionTableForDestination rewrites inside    *)
(*    the copied range are those of GptBlocks; its own crash consistency   *)
(*    is the subject of module GptAdjust.                                  *)
(***************************************************************************)
EXTENDS Naturals, FiniteSets

CONSTANTS
  N,                \* number of blocks of the source
  CheckpointEvery,  \* blocks in 1 GiB: the distance between two checkpoints
  Unreadable,       \* source blocks with sectors that never read
  Flaky,            \* source blocks that read on some attempts and not on others
  GptBlocks,        \* copied blocks that hold the partition table
  Disks,            \* identities of the disks offered as a destination
  Faults,           \* what may go wrong: a subset of FaultKinds
  MaxSessions,      \* bound: sessions started
  MaxCrashes        \* bound: killed processes and power losses

FaultKinds ==
  {"kill",      \* the process dies
   "power",     \* the machine stops: unsynced writes may be lost
   "cancel", "pause",
   "write",     \* a write to the destination fails, perhaps half done
   "corrupt",   \* a write to the destination succeeds but stores other bytes
   "read",      \* a read of the destination fails
   "manifest",  \* a write of the manifest fails
   "sync",      \* a sync of the manifest or of the destination fails
   "save",      \* the session file cannot be replaced
   "report"}    \* the final report cannot be written

Blocks == 0 .. N-1

ASSUME CloneAssumption ==
  /\ N \in Nat \ {0} /\ CheckpointEvery \in Nat \ {0}
  /\ Unreadable \subseteq Blocks /\ Flaky \subseteq Blocks
  /\ GptBlocks \subseteq {0}                   \* MBR and primary GPT
  /\ GptBlocks \cap (Unreadable \cup Flaky) = {}
  /\ Faults \subseteq FaultKinds
  /\ MaxSessions \in Nat /\ MaxCrashes \in Nat

VARIABLES
  cur,       \* cur[d][b]: what a read of block b of disk d returns
  pend,      \* pend[d][b]: the contents a power loss may leave in that block
  man,       \* man[b]: content the manifest line of block b was hashed from
  manLen,    \* lines of the manifest file
  manDur,    \* lines that a power loss is sure to leave
  saved,     \* the session file, or NoState
  completed, verified, gpt, bad,
             \* CloneDisk's variable state: its Completed, Verified, GPTAdjusted
             \* and BadRanges (its Offset is always offset)
  pc,        \* where CloneDisk is; "idle" when it is not running
  target,    \* the destination of this session
  opt,       \* CloneOptions: Resume and Verify
  rewrite,   \* history, read by no step: what became of the last rewriting of
             \* the manifest, see Rewrites
  offset,    \* blocks copied
  lastSync,  \* offset of the last checkpoint
  buf,       \* the block read from the source
  failed,    \* copyErr # nil
  forced,    \* the checkpoint running is checkpoint(true)
  manBroken, \* manifestWriter holds a write error, which bufio keeps
  vpos,      \* verification: blocks compared
  vbad,      \* verification: a block differed
  result,    \* what the last call of CloneDisk returned
  cancel, paused,
  sessions, crashes

file == <<man, manLen, manDur, saved>>
disk == <<cur, pend>>
stv == <<completed, verified, gpt, bad>>
work == <<stv, offset, lastSync, buf, failed, forced, manBroken, vpos, vbad>>
call == <<target, opt, rewrite>>
user == <<cancel, paused>>
count == <<sessions, crashes>>
vars == <<file, disk, work, call, user, count, pc, result>>

Content == {"old", "data", "zero", "gpt", "gptmix", "torn"}
State == [disk : Disks, off : 0 .. N, completed : BOOLEAN, verified : BOOLEAN,
          gpt : BOOLEAN, bad : SUBSET Blocks]
NoState == [disk |-> "none"]
Result == [kind : {"none", "error", "ok"}, verified : BOOLEAN, gpt : BOOLEAN,
           bad : SUBSET Blocks]
NoResult == [kind |-> "none", verified |-> FALSE, gpt |-> FALSE, bad |-> {}]
Labels == {"idle", "load", "discard", "truncate", "writeback", "checkLast",
           "open", "copy", "write", "append", "ckManifest", "ckDest", "ckSave",
           "saveError", "finalSync", "markCompleted", "verify", "verified",
           "adjust", "adjustSync", "saveGpt", "report"}

Min2(a, b) == IF a < b THEN a ELSE b
May(fault) == fault \in Faults
Goto(label) == pc' = label

(* Definitions named Wrong... are slips a change of the code could make;   *)
(* each one breaks a property below.                                       *)

(* What saveCloneState writes, with Completed and Verified as just set.    *)
WrongSnapshotOffset(c, v) == [disk |-> target, off |-> offset + 1, completed |-> c,
                   verified |-> v, gpt |-> gpt, bad |-> bad]
WrongSnapshotBad(c, v) == [disk |-> target, off |-> offset, completed |-> c,
                   verified |-> v, gpt |-> gpt, bad |-> {}]
Snapshot(c, v) == [disk |-> target, off |-> offset, completed |-> c,
                   verified |-> v, gpt |-> gpt, bad |-> bad]

Init ==
  /\ cur = [d \in Disks |-> [b \in Blocks |-> "old"]]
  /\ pend = [d \in Disks |-> [b \in Blocks |-> {"old"}]]
  /\ man = [b \in Blocks |-> "data"] /\ manLen = 0 /\ manDur = 0
  /\ saved = NoState
  /\ target \in Disks /\ opt = [resume |-> FALSE, verify |-> FALSE]
  /\ rewrite = "no"
  /\ completed = FALSE /\ verified = FALSE /\ gpt = FALSE /\ bad = {}
  /\ pc = "idle"
  /\ offset = 0 /\ lastSync = 0 /\ buf = "data" /\ vpos = 0
  /\ failed = FALSE /\ forced = FALSE /\ manBroken = FALSE /\ vbad = FALSE
  /\ result = NoResult /\ cancel = FALSE /\ paused = FALSE
  /\ sessions = 0 /\ crashes = 0

(***************************************************************************)
(* Leaving CloneDisk: with an error (the session file stays as it is), or  *)
(* with a result.                                                          *)
(***************************************************************************)
Return(res) ==
  /\ Goto("idle") /\ result' = res
Fail == Return([kind |-> "error", verified |-> FALSE, gpt |-> FALSE, bad |-> bad])

(***************************************************************************)
(* What became of the last rewriting of the manifest.  It is "unsynced"    *)
(* until the next checkpoint; a crash, or a failing write, that leaves     *)
(* fewer lines of it than the session file counts makes it "cut".  It stays*)
(* "cut" until the copy starts over with nothing left of that session,     *)
(* which takes more than Discard while GPTAdjusted is still set.           *)
(***************************************************************************)
Rewrites == {"no", "unsynced", "cut"}
ManifestShort == saved # NoState /\ manLen < saved.off
RewriteIs(now) == rewrite' = IF rewrite = "cut" THEN "cut" ELSE now
MayCut == rewrite' = IF rewrite = "unsynced" /\ ManifestShort' THEN "cut" ELSE rewrite

-----------------------------------------------------------------------------
(* Opening a session.                                                      *)

(* The user starts a clone; the report directory, and so the two files,    *)
(* stay the same whichever physical disk now answers at that index.        *)
Start(d, o) ==
  /\ pc = "idle" /\ sessions < MaxSessions
  /\ sessions' = sessions + 1
  /\ target' = d /\ opt' = o /\ result' = NoResult
  /\ cancel' = FALSE /\ paused' = FALSE
  /\ Goto("load")
  /\ UNCHANGED <<file, disk, work, rewrite, crashes>>

(* cloneStateMatches: sizes, sector and chunk are constants of the model,  *)
(* which leaves the identity of the destination.                           *)
WrongStateMatches == saved # NoState
CloneStateMatches == saved # NoState /\ saved.disk = target

(* loadCloneManifest(path, startAt): the lines that start at zero, follow  *)
(* each other and end within maxEnd.                                       *)
WrongManifestUncapped(maxEnd) == manLen
WrongManifestIgnored(maxEnd) == 0
LoadCloneManifest(maxEnd) == Min2(manLen, maxEnd)

(* With a matching session the copy starts at the end of its manifest or   *)
(* at its Offset, whichever is lower; with no line it starts at zero.      *)
Load ==
  /\ pc = "load"
  /\ \/ /\ opt.resume /\ CloneStateMatches
        /\ offset' = LoadCloneManifest(saved.off)
        /\ LET unsafe == offset' = 0 /\ saved.off > 0 IN
           /\ completed' = (saved.completed /\ ~unsafe)
           /\ verified' = (saved.verified /\ ~unsafe)
           /\ bad' = IF unsafe THEN {} ELSE saved.bad
        /\ gpt' = saved.gpt
        /\ Goto(IF offset' = 0 THEN "discard" ELSE "truncate")
     \/ /\ ~(opt.resume /\ CloneStateMatches)
        /\ completed' = FALSE /\ verified' = FALSE /\ gpt' = FALSE /\ bad' = {}
        /\ offset' = 0
        /\ Goto("discard")
  /\ lastSync' = offset'
  /\ failed' = FALSE /\ forced' = FALSE /\ manBroken' = FALSE
  /\ vpos' = 0 /\ vbad' = FALSE /\ buf' = "data"
  /\ UNCHANGED <<file, disk, call, user, count, result>>

(* Starting over: both files are removed and the in-memory state is reset, *)
(* all but its GPTAdjusted.                                                *)
Discard ==
  /\ pc = "discard"
  /\ saved' = NoState /\ manLen' = 0 /\ manDur' = 0
  /\ completed' = FALSE /\ verified' = FALSE /\ bad' = {}
  /\ rewrite' = IF rewrite = "cut" /\ gpt THEN "cut" ELSE "no"
  /\ Goto("open")
  /\ UNCHANGED <<man, disk, gpt, offset, lastSync, buf, failed, forced, manBroken,
                 vpos, vbad, target, opt, user, count, result>>

(* rewriteCloneManifest: os.Create empties the file ...                    *)
TruncateManifest ==
  /\ pc = "truncate"
  /\ manLen' = 0 /\ manDur' = 0
  /\ RewriteIs("unsynced")
  /\ Goto("writeback")
  /\ UNCHANGED <<man, saved, disk, work, target, opt, user, count, result>>

(* ... and the accepted lines are written back, without a sync.            *)
WriteBackManifest ==
  /\ pc = "writeback"
  /\ manDur' = 0 /\ UNCHANGED saved
  /\ \/ /\ manLen' = offset
        /\ Goto("checkLast")
        /\ UNCHANGED <<rewrite, result>>
     \/ /\ May("manifest")
        /\ manLen' \in 0 .. offset
        /\ MayCut
        /\ Fail
  /\ UNCHANGED <<man, disk, work, target, opt, user, count>>

(* The last block of the manifest is read back from the destination and    *)
(* compared; a session that had finished altogether returns at once.       *)
WrongFinishedVerified ==
  /\ pc = "checkLast"
  /\ LET same == cur[target][offset-1] = man[offset-1]
         finished == completed /\ gpt /\ offset = N IN
     \/ same /\ finished
        /\ Return([kind |-> "ok", verified |-> opt.verify, gpt |-> TRUE, bad |-> bad])
     \/ same /\ ~finished /\ Goto("open") /\ UNCHANGED result
  /\ UNCHANGED <<file, disk, work, call, user, count>>
CheckLastBlock ==
  /\ pc = "checkLast"
  /\ LET same == cur[target][offset-1] = man[offset-1]
         finished == completed /\ gpt /\ offset = N IN
     \/ (~same \/ May("read")) /\ Fail
     \/ /\ same /\ finished
        /\ Return([kind |-> "ok", verified |-> verified, gpt |-> TRUE, bad |-> bad])
     \/ /\ same /\ ~finished
        /\ Goto("open") /\ UNCHANGED result
  /\ UNCHANGED <<file, disk, work, call, user, count>>

OpenManifest ==
  /\ pc = "open"
  /\ \/ Goto("copy") /\ UNCHANGED result
     \/ May("manifest") /\ Fail
  /\ UNCHANGED <<file, disk, work, call, user, count>>

-----------------------------------------------------------------------------
(* The copy loop.                                                          *)

(* waitControl: a cancel is seen first, also while paused; a pause holds   *)
(* the loop.                                                               *)
ControlPasses == ~cancel /\ ~paused

(* A cancel, seen by waitControl or inside the adaptive reader.            *)
WrongCancelWaits ==
  /\ pc = "copy" /\ offset < N /\ cancel /\ ~paused
  /\ failed' = TRUE /\ forced' = TRUE
  /\ Goto("ckManifest")
  /\ UNCHANGED <<file, disk, stv, offset, lastSync, buf, manBroken, vpos, vbad,
                 call, user, count, result>>
CopyCancelled ==
  /\ pc = "copy" /\ offset < N /\ cancel
  /\ failed' = TRUE /\ forced' = TRUE
  /\ Goto("ckManifest")
  /\ UNCHANGED <<file, disk, stv, offset, lastSync, buf, manBroken, vpos, vbad,
                 call, user, count, result>>

(* The adaptive reader returns the block, its unreadable sectors zeroed.   *)
ReadBlock ==
  /\ pc = "copy" /\ offset < N /\ ControlPasses
  /\ buf' \in (IF offset \notin Unreadable THEN {"data"} ELSE {})
              \cup (IF offset \in Unreadable \cup Flaky THEN {"zero"} ELSE {})
  /\ Goto("write")
  /\ UNCHANGED <<file, disk, stv, offset, lastSync, failed, forced, manBroken,
                 vpos, vbad, call, user, count, result>>

CopyDone ==
  /\ pc = "copy" /\ offset = N
  /\ forced' = TRUE
  /\ Goto("ckManifest")
  /\ UNCHANGED <<file, disk, stv, offset, lastSync, buf, failed, manBroken, vpos,
                 vbad, call, user, count, result>>

(* What a power loss may leave once c is written over a block: anything it *)
(* could leave before, c, or a mixture - unless c is all it could leave.   *)
AfterWrite(was, c, mixture) == IF was = {c} THEN was ELSE was \cup {c, mixture}

(* writeFullAt(destination) succeeds ...                                    *)
WriteBlock ==
  /\ pc = "write"
  /\ \E c \in {buf} \cup (IF May("corrupt") THEN {"torn"} ELSE {}) :
        /\ cur' = [cur EXCEPT ![target][offset] = c]
        /\ pend' = [pend EXCEPT ![target][offset] = AfterWrite(@, c, "torn")]
  /\ Goto("append")
  /\ UNCHANGED <<file, work, call, user, count, result>>

(* ... or stops anywhere in the block.                                     *)
PartialWrite ==
  /\ pend' = [pend EXCEPT ![target][offset] = AfterWrite(@, buf, "torn")]
  /\ \E c \in AfterWrite(pend[target][offset], buf, "torn") :
        cur' = [cur EXCEPT ![target][offset] = c]

WriteBlockFails ==
  /\ pc = "write" /\ May("write") /\ PartialWrite
  /\ failed' = TRUE /\ forced' = TRUE
  /\ Goto("ckManifest")
  /\ UNCHANGED <<file, stv, offset, lastSync, buf, manBroken, vpos, vbad, call,
                 user, count, result>>

(* The manifest line; the in-memory state moves past the block, which is a *)
(* checkpoint every CheckpointEvery blocks and at the end.                 *)
AppendManifest ==
  /\ pc = "append"
  /\ \/ /\ man' = [man EXCEPT ![offset] = buf]
        /\ manLen' = offset + 1
        /\ offset' = offset + 1
        /\ bad' = bad \cup (IF buf = "zero" THEN {offset} ELSE {})
        /\ Goto(IF offset + 1 - lastSync >= CheckpointEvery \/ offset + 1 >= N
                  THEN "ckManifest" ELSE "copy")
        /\ UNCHANGED <<failed, forced, manBroken>>
     \/ /\ May("manifest")
        /\ failed' = TRUE /\ forced' = TRUE /\ manBroken' = TRUE
        /\ Goto("ckManifest")
        /\ UNCHANGED <<man, manLen, offset, bad>>
  /\ UNCHANGED <<manDur, saved, disk, completed, verified, gpt, lastSync, buf,
                 vpos, vbad, call, user, count, result>>

-----------------------------------------------------------------------------
(* checkpoint: manifest flushed and synced, destination synced, session    *)
(* saved; the first failing step ends it.                                  *)

(* A failing checkpoint(false) breaks out of the loop into checkpoint(true)*)
(* and a failing checkpoint(true) is the error returned.                   *)
WrongCheckpointRetries ==
  /\ failed' = TRUE /\ forced' = TRUE
  /\ Goto("ckManifest")
CheckpointFails ==
  /\ failed' = TRUE /\ forced' = TRUE
  /\ Goto(IF forced THEN "saveError" ELSE "ckManifest")

CheckpointManifest ==
  /\ pc = "ckManifest"
  /\ \/ /\ ~manBroken
        /\ manDur' = manLen
        /\ RewriteIs("no")
        /\ Goto("ckDest")
        /\ UNCHANGED <<failed, forced>>
     \/ /\ manBroken \/ May("sync")
        /\ CheckpointFails
        /\ UNCHANGED <<manDur, rewrite>>
  /\ UNCHANGED <<man, manLen, saved, disk, stv, offset, lastSync, buf, manBroken,
                 vpos, vbad, target, opt, user, count, result>>

(* Destination.Sync: what is read is from now on all a power loss leaves.  *)
WrongNoSync == UNCHANGED pend
SyncDestination ==
  pend' = [pend EXCEPT ![target] = [b \in Blocks |-> {cur[target][b]}]]

CheckpointDestination ==
  /\ pc = "ckDest"
  /\ \/ /\ SyncDestination
        /\ Goto("ckSave")
        /\ UNCHANGED <<failed, forced>>
     \/ /\ May("sync")
        /\ CheckpointFails
        /\ UNCHANGED pend
  /\ UNCHANGED <<file, cur, stv, offset, lastSync, buf, manBroken, vpos, vbad,
                 call, user, count, result>>

CheckpointSave ==
  /\ pc = "ckSave"
  /\ \/ /\ saved' = Snapshot(completed, verified) /\ lastSync' = offset
        /\ Goto(IF ~forced THEN "copy"
                ELSE IF failed THEN "saveError" ELSE "finalSync")
        /\ UNCHANGED <<failed, forced>>
     \/ /\ May("save")
        /\ CheckpointFails
        /\ UNCHANGED <<saved, lastSync>>
  /\ UNCHANGED <<man, manLen, manDur, disk, stv, offset, buf, manBroken, vpos,
                 vbad, call, user, count, result>>

(* Closing the manifest after the last checkpoint ends the copy as well.   *)
ManifestCloseFails ==
  /\ pc = "finalSync" /\ May("manifest")
  /\ failed' = TRUE
  /\ Goto("saveError")
  /\ UNCHANGED <<file, disk, stv, offset, lastSync, buf, forced, manBroken, vpos,
                 vbad, call, user, count, result>>

(* The interrupted copy: the session is saved at the offset reached.       *)
SaveInterrupted ==
  /\ pc = "saveError"
  /\ completed' = FALSE
  /\ saved' = Snapshot(FALSE, verified) \/ (May("save") /\ UNCHANGED saved)
  /\ Fail
  /\ UNCHANGED <<man, manLen, manDur, disk, verified, gpt, bad, offset, lastSync, buf, failed, forced,
                 manBroken, vpos, vbad, call, user, count>>

-----------------------------------------------------------------------------
(* After the copy: final sync, verification, partition table, reports.     *)

FinalSync ==
  /\ pc = "finalSync"
  /\ \/ SyncDestination /\ Goto("markCompleted") /\ UNCHANGED result
     \/ May("sync") /\ Fail /\ UNCHANGED pend
  /\ UNCHANGED <<file, cur, work, call, user, count>>

(* Each later save ends the call with an error when it fails.              *)
SaveThenGoto(c, v, label) ==
  \/ saved' = Snapshot(c, v) /\ Goto(label) /\ UNCHANGED result
  \/ May("save") /\ UNCHANGED saved /\ Fail

MarkCompleted ==
  /\ pc = "markCompleted"
  /\ completed' = TRUE
  /\ SaveThenGoto(TRUE, verified, IF opt.verify THEN "verify" ELSE "adjust")
  /\ UNCHANGED <<man, manLen, manDur, disk, verified, gpt, bad, offset, lastSync, buf, failed, forced,
                 manBroken, vpos, vbad, call, user, count>>

(* Verification: the manifest is loaded once, then a cancel or a pause is  *)
(* seen before every block.                                                *)
VerifyStops ==
  /\ pc = "verify"
  /\ \/ vpos < LoadCloneManifest(N) /\ cancel
     \/ vpos = 0 /\ May("manifest")
  /\ Fail
  /\ UNCHANGED <<file, disk, work, call, user, count>>

WrongVerifyForgets ==
  /\ pc = "verify" /\ vpos < LoadCloneManifest(N) /\ ControlPasses
  /\ vbad' = (cur[target][vpos] # man[vpos])
  /\ vpos' = vpos + 1
  /\ UNCHANGED <<file, disk, stv, offset, lastSync, buf, failed, forced,
                 manBroken, call, user, count, pc, result>>
VerifyBlock ==
  /\ pc = "verify" /\ vpos < LoadCloneManifest(N) /\ ControlPasses
  /\ \/ vbad' = (vbad \/ cur[target][vpos] # man[vpos])
     \/ May("read") /\ vbad' = TRUE
  /\ vpos' = vpos + 1
  /\ UNCHANGED <<file, disk, stv, offset, lastSync, buf, failed, forced,
                 manBroken, call, user, count, pc, result>>

VerifyDone ==
  /\ pc = "verify" /\ vpos = LoadCloneManifest(N)
  /\ verified' = (~vbad /\ vpos >= N)
  /\ SaveThenGoto(completed, verified', "verified")
  /\ UNCHANGED <<man, manLen, manDur, disk, completed, gpt, bad, offset, lastSync, buf, failed, forced,
                 manBroken, vpos, vbad, call, user, count>>

VerifyResult ==
  /\ pc = "verified"
  /\ \/ verified /\ Goto("adjust") /\ UNCHANGED result
     \/ ~verified /\ Fail
  /\ UNCHANGED <<file, disk, work, call, user, count>>

(* adjustPartitionTableForDestination.  A sound table is rewritten, and the*)
(* rewriting may stop half way; a mixed one has its signatures, so it is   *)
(* rewritten if its checksums happen to agree and refused otherwise; one   *)
(* that holds other bytes may be refused or taken for no table at all.     *)
TableBlocksHold(S) == \A b \in GptBlocks : cur[target][b] \in S

Rewrite(b, c) ==
  /\ cur' = [cur EXCEPT ![target][b] = c]
  /\ pend' = [pend EXCEPT ![target][b] = AfterWrite(@, "gpt", "gptmix")]

AdjustTable ==
  /\ pc = "adjust" /\ TableBlocksHold({"data", "gpt", "gptmix"})
  /\ \E b \in GptBlocks :
        \/ Rewrite(b, "gpt") /\ Goto("adjustSync") /\ UNCHANGED result
        \/ /\ May("write")
           /\ \E c \in AfterWrite({cur[target][b]}, "gpt", "gptmix") : Rewrite(b, c)
           /\ Fail
  /\ UNCHANGED <<file, work, call, user, count>>

(* No table to adapt: (false, 0, nil).                                     *)
NoTable ==
  /\ pc = "adjust" /\ (GptBlocks = {} \/ ~TableBlocksHold({"data", "gpt", "gptmix"}))
  /\ gpt' = FALSE
  /\ Goto("saveGpt")
  /\ UNCHANGED <<file, disk, completed, verified, bad, offset, lastSync, buf, failed, forced, manBroken,
                 vpos, vbad, call, user, count, result>>

TableRefused ==
  /\ pc = "adjust" /\ (May("read") \/ ~TableBlocksHold({"data", "gpt"}))
  /\ Fail
  /\ UNCHANGED <<file, disk, work, call, user, count>>

(* The sync and the read-back that end the rewriting.                      *)
WrongAdjustUnsynced ==
  /\ pc = "adjustSync"
  /\ gpt' = TRUE
  /\ Goto("saveGpt")
  /\ UNCHANGED <<file, disk, completed, verified, bad, offset, lastSync, buf, failed,
                 forced, manBroken, vpos, vbad, call, user, count, result>>
AdjustSync ==
  /\ pc = "adjustSync"
  /\ \/ /\ SyncDestination
        /\ gpt' = TRUE
        /\ Goto("saveGpt") /\ UNCHANGED result
     \/ May("sync") /\ Fail /\ UNCHANGED <<pend, gpt>>
     \/ May("read") /\ SyncDestination /\ Fail /\ UNCHANGED gpt
  /\ UNCHANGED <<file, cur, completed, verified, bad, offset, lastSync, buf, failed, forced, manBroken,
                 vpos, vbad, call, user, count>>

SaveAdjusted ==
  /\ pc = "saveGpt"
  /\ SaveThenGoto(completed, verified, "report")
  /\ UNCHANGED <<man, manLen, manDur, disk, work, call, user, count>>

(* writeCloneReports; its error is returned although the clone is done.    *)
WriteReports ==
  /\ pc = "report"
  /\ \/ Return([kind |-> "ok", verified |-> opt.verify, gpt |-> gpt, bad |-> bad])
     \/ May("report") /\ Fail
  /\ UNCHANGED <<file, disk, work, call, user, count>>

-----------------------------------------------------------------------------
(* The user, and the machine.                                              *)

Cancel ==
  /\ May("cancel") /\ pc # "idle" /\ ~cancel
  /\ cancel' = TRUE
  /\ UNCHANGED <<file, disk, work, call, count, pc, result, paused>>

TogglePause ==
  /\ May("pause") /\ pc # "idle"
  /\ paused' = ~paused
  /\ UNCHANGED <<file, disk, work, call, count, pc, result, cancel>>

Crash ==
  /\ crashes < MaxCrashes /\ crashes' = crashes + 1
  /\ Goto("idle") /\ result' = NoResult
  /\ MayCut
  /\ UNCHANGED <<man, work, target, opt, user, sessions>>

(* The process is killed: the system keeps what was written, a write in    *)
(* progress may be half done and a manifest being rewritten has the lines  *)
(* written back by then.                                                   *)
Kill ==
  /\ May("kill") /\ pc # "idle"
  /\ manLen' \in (IF pc = "writeback" THEN 0 .. offset ELSE {manLen})
  /\ \/ UNCHANGED disk
     \/ pc = "write" /\ PartialWrite
     \/ pc = "adjust" /\ \E b \in GptBlocks :
          cur[target][b] \in {"data", "gptmix"} /\ Rewrite(b, "gptmix")
  /\ UNCHANGED <<manDur, saved>>
  /\ Crash

(* The machine stops: any write not synced may be lost or torn.            *)
PowerLoss ==
  LET unsynced == {p \in Disks \X Blocks : pend[p[1]][p[2]] # {cur[p[1]][p[2]]}}
      lines == IF pc = "writeback" THEN offset ELSE manLen IN
  /\ May("power")
  /\ \E left \in [unsynced -> Content] :
       /\ \A p \in unsynced : left[p] \in pend[p[1]][p[2]]
       /\ cur' = [d \in Disks |-> [b \in Blocks |->
                    IF <<d, b>> \in unsynced THEN left[<<d, b>>] ELSE cur[d][b]]]
  /\ pend' = [d \in Disks |-> [b \in Blocks |-> {cur'[d][b]}]]
  /\ manLen' \in manDur .. lines
  /\ manDur' = manLen' /\ UNCHANGED saved
  /\ Crash

-----------------------------------------------------------------------------

Open == Load \/ Discard \/ TruncateManifest \/ WriteBackManifest \/ CheckLastBlock
        \/ OpenManifest
Copy == ReadBlock \/ CopyCancelled \/ CopyDone \/ WriteBlock \/ WriteBlockFails
        \/ AppendManifest
Checkpoint == CheckpointManifest \/ CheckpointDestination \/ CheckpointSave
              \/ ManifestCloseFails \/ SaveInterrupted
Finish == FinalSync \/ MarkCompleted \/ VerifyStops \/ VerifyBlock \/ VerifyDone
          \/ VerifyResult \/ AdjustTable \/ NoTable \/ TableRefused \/ AdjustSync
          \/ SaveAdjusted \/ WriteReports
Engine == Open \/ Copy \/ Checkpoint \/ Finish

Begin == \E d \in Disks, o \in [resume : BOOLEAN, verify : BOOLEAN] : Start(d, o)

Next == Engine \/ Begin \/ Cancel \/ TogglePause \/ Kill \/ PowerLoss

Spec == Init /\ [][Next]_vars

(* CloneDisk runs on a goroutine of its own and every call it makes returns*)
(* so it keeps going; the user and the faults owe nothing.                 *)
FairSpec == Spec /\ WF_vars(Engine)

-----------------------------------------------------------------------------
(* Type invariant.                                                         *)
DiskOK ==
  /\ cur \in [Disks -> [Blocks -> Content]]
  /\ pend \in [Disks -> [Blocks -> SUBSET Content]]

DataOK ==
  /\ man \in [Blocks -> Content] /\ manLen \in 0 .. N
  /\ manDur \in 0 .. N /\ manDur <= manLen
  /\ bad \in SUBSET Blocks /\ buf \in {"data", "zero"}
  /\ offset \in 0 .. N /\ lastSync \in 0 .. N /\ vpos \in 0 .. N
  /\ pc \in Labels /\ target \in Disks
  /\ opt \in [resume : BOOLEAN, verify : BOOLEAN] /\ rewrite \in Rewrites
  /\ sessions \in 0 .. MaxSessions /\ crashes \in 0 .. MaxCrashes

FlagsOK ==
  /\ completed \in BOOLEAN /\ verified \in BOOLEAN /\ gpt \in BOOLEAN
  /\ failed \in BOOLEAN /\ forced \in BOOLEAN /\ manBroken \in BOOLEAN
  /\ vbad \in BOOLEAN /\ cancel \in BOOLEAN /\ paused \in BOOLEAN

RecordsOK ==
  /\ saved \in State \cup {NoState}
  /\ result \in Result

TypeOK == DiskOK /\ DataOK /\ FlagsOK /\ RecordsOK

(* What block b of a clone may hold, given the blocks reported bad:   *)
(* the source's data, zeros if it is reported, the adapted table.          *)
Faithful(b, reported) ==
  {"data"} \cup (IF b \in reported THEN {"zero"} ELSE {})
           \cup (IF b \in GptBlocks THEN {"gpt"} ELSE {})

(* A call that returned without an error left an exact clone, which a power*)
(* loss no longer takes away, and every block filled with zeros is in its  *)
(* report - also when the clone was resumed across crashes, unless one of  *)
(* them cut the manifest that an earlier session was writing back.         *)
CloneFaithful ==
  rewrite # "cut" /\ result.kind = "ok" =>
    \A b \in Blocks : pend[target][b] \subseteq Faithful(b, result.bad)

(* The session file never promises a block that a power loss could still   *)
(* take away: docs/CLONAGEM.md, Retomada.  A table rewriting cut short     *)
(* leaves the table mixed, not lost.  With a cut manifest a block that     *)
(* reads at times may differ: copied again behind the offset, it is zeros  *)
(* that nobody reports yet.                                                *)
SavedStateSafe ==
  saved # NoState =>
    \A b \in Blocks : b < saved.off /\ (rewrite = "cut" => b \notin Flaky) =>
      pend[saved.disk][b] \subseteq Faithful(b, saved.bad)
           \cup (IF b \in GptBlocks THEN {"gptmix"} ELSE {})

(* An interrupted clone is never locked out of its own destination: the    *)
(* check of the last block passes whenever the session would be resumed,   *)
(* unless a crash cut the rewritten manifest at the line of the table.     *)
ResumeNeverRefused ==
  rewrite # "cut" /\ pc = "checkLast" => cur[target][offset-1] = man[offset-1]

(* A call that says the table is adapted to the destination has done it,   *)
(* unless a crash once cut the rewritten manifest: see AdjustedIsTrue.     *)
AdjustedMeansAdjusted ==
  rewrite # "cut" /\ result.kind = "ok" /\ result.gpt =>
    \A b \in GptBlocks : pend[target][b] = {"gpt"}

(* CloneFaithful holds with a cut manifest too, for what is not the table  *)
(* and reads the same each time: the report of a cut session can lack the  *)
(* zeros of a block that did read when it was first copied.                *)
ContentsFaithful ==
  result.kind = "ok" =>
    \A b \in Blocks \ (GptBlocks \cup Flaky) : pend[target][b] \subseteq Faithful(b, result.bad)

(* "Approved block by block": a call that verified the clone and is about  *)
(* to report it left on the destination, durably, what was read from the   *)
(* source: whatever steps failed on the way, and even if the destination   *)
(* stored other bytes than it was given.                                   *)
VerifiedHere ==
  pc = "report" /\ opt.verify =>
    \A b \in Blocks : pend[target][b] \subseteq
      {man[b]} \cup (IF b \in GptBlocks THEN {"gpt"} ELSE {})

(* What an earlier call verified and the session file remembers is what a  *)
(* later call reports, as long as no crash cut the manifest meanwhile: the *)
(* clone is then durably what its manifest says, its table adapted or not. *)
VerifiedKept ==
  rewrite # "cut" /\ result.kind = "ok" /\ result.verified =>
    \A b \in Blocks : pend[target][b] \subseteq
      {man[b]} \cup (IF b \in GptBlocks THEN {"gpt"} ELSE {})

(* A cancelled call returns, even if it is cancelled while paused.         *)
CancelEnds == cancel ~> pc = "idle"

(* A call that is not left paused returns.                                 *)
SessionEnds == <>[]~paused => [](pc # "idle" => <>(pc = "idle"))

-----------------------------------------------------------------------------
(* Statements of the documentation that the code does not keep.            *)

(* docs/CLONAGEM.md, Retomada: the session points only at blocks whose  *)
(* content has been synced.  The error path saves the offset reached even  *)
(* when the sync failed.                                                   *)
SavedBlocksSynced ==
  saved # NoState =>
    \A b \in Blocks : b < saved.off => pend[saved.disk][b] = {cur[saved.disk][b]}

(* clone.go:225: a session found complete has its table adapted already.   *)
(* A crash that leaves no line of the manifest being rewritten makes the   *)
(* next session start over, and GPTAdjusted stays set.                     *)
AdjustedIsTrue ==
  result.kind = "ok" /\ result.gpt => \A b \in GptBlocks : pend[target][b] = {"gpt"}

(* docs/CLONAGEM.md, matrix: an interrupted clone resumes at the confirmed *)
(* checkpoint.  Its verification rejects the table this program wrote.     *)
VerifyRejectsOnlyDamage ==
  pc = "verified" /\ ~verified =>
    \E b \in Blocks : cur[target][b] \notin Faithful(b, bad)
=============================================================================
