--------------------------- MODULE CloneOperation ---------------------------
(***************************************************************************)
(* main_windows.go, startClone, runClone, startRecovery and what surrounds *)
(* them: the operations the window starts, each on a goroutine of its own, *)
(* with the disks they lock (disk_windows.go), the source they shrink and  *)
(* restore (smart_migration_windows.go), the snapshots they read           *)
(* (vss_windows.go, mapped_reader.go) and the cleanup they leave behind.   *)
(*                                                                         *)
(* Simplifications.                                                        *)
(*  - The copy is one read and one write per chunk; what CloneDisk does    *)
(*    with sessions, manifests and crashes is module CloneDisk, what it    *)
(*    does with the partition table is module GptAdjust, and what a        *)
(*    recovery does is module Recover.                                     *)
(*  - A disk's id is its StableIdentity, and system says that it has a     *)
(*    protected role.  A migration from one source goes to one report      *)
(*    folder for each slot of the destination.                             *)
(*  - Windows does not remove the system disk: only other disks can be     *)
(*    exchanged.  Texts, progress, settings and image files are left out.  *)
(***************************************************************************)
EXTENDS SmartPlan, MappedReader

CONSTANTS
  Machines,   \* what is connected: disks by slot and the layout of the source
  Source,     \* the slot of the source
  Others,     \* disks that may take a slot's place
  Chunk,      \* units copied at a time
  GptTail,    \* units of the backup partition table at the end of a disk
  Faults,     \* bound: the sets of FaultKinds that may happen in one behaviour
  MaxOps      \* bound: operations started

FaultKinds ==
  {"quit",     \* the window is closed, or the process dies
   "swap",     \* another disk is connected in a slot
   "grow",     \* files are written to a volume of the source
   "lock",     \* a volume cannot be locked, or a disk cannot be opened
   "vss",      \* snapshots cannot be created, opened or removed
   "resize",   \* Windows fails to reduce the partition, or reduces it to another size
   "restore",  \* ... to give it its size back
   "plan",     \* a file of the report folder cannot be written
   "clone",    \* CloneDisk fails
   "panic",    \* ... or panics
   "cancel"}

ASSUME OperationAssumption ==
  /\ Faults \subseteq SUBSET FaultKinds
  /\ Chunk \in Nat \ {0} /\ GptTail \in Nat /\ GptTail + Alignment <= TailReserve
  /\ MaxOps \in Nat

(* Windows knows a disk by its slot; the partitions of a disk have numbers *)
(* and units of their own, and it does not reduce one to less than is used.*)
Disk == [slot : STRING, id : STRING, size : Nat \ {0}, sector : Nat, known : BOOLEAN,
         verified : BOOLEAN, system : BOOLEAN, readonly : BOOLEAN, letters : Seq(STRING)]
Partition == [num : Nat \ {0}, off : Nat, size : Nat \ {0}, kind : {"ntfs", "recovery", "other"},
              letter : STRING, used : Nat, min : Nat]

(* The volumes a disk is listed with are partitions of its table.          *)
Mounted(letters, parts) == \A k \in DOMAIN letters : \E p \in parts : p.letter = letters[k]

ASSUME MachineAssumption ==
  /\ Others \subseteq Disk
  /\ \A m \in Machines :
       /\ Source \in DOMAIN m.attached
       /\ m.attached \in [DOMAIN m.attached -> Disk]
       /\ \A slot \in DOMAIN m.attached : m.attached[slot].slot = slot
       /\ m.layout \in [style : STRING, parts : SUBSET Partition] /\ IsFiniteSet(m.layout.parts)
       /\ \A p, q \in m.layout.parts : p # q =>
            p.num # q.num /\ (End(p) <= q.off \/ End(q) <= p.off)
       /\ \A p \in m.layout.parts : p.used <= p.min
       /\ \A d \in Others \cup {m.attached[Source]} :
            d.system => Mounted(d.letters, m.layout.parts)

Ops == 1 .. MaxOps

VARIABLES
  running, loading, completed, completionOK, listed,  \* app.state
  latest,    \* the operation that app.state.cancel belongs to
  ui,        \* the confirmation on the screen, or NoDialog
  op,        \* the goroutines of runClone and runRecovery
  attached,  \* the disk in each slot
  layout,    \* partition table of the source
  shadows,   \* exposed snapshots: operation and letter
  planFile,  \* by slot: PLANO_MIGRACAO_INTELIGENTE.json, or NoPlan
  made,      \* history: the layout the source came with
  agreed,    \* history: disks whose erasure was confirmed
  tangled,   \* history: an operation began while another was cleaning up
  slipped,   \* history: a disk was exchanged between its check and its opening
  replaced,  \* history: a migration found the source still reduced
  harm       \* history: the kinds of fault that happened

app == <<running, loading, completed, completionOK, listed, latest>>
machine == <<attached, layout, shadows, planFile>>
history == <<made, agreed, tangled, slipped, replaced>>
vars == <<app, ui, op, machine, history, harm>>

Harm(fault) ==
  /\ \E together \in Faults : harm \cup {fault} \subseteq together
  /\ harm' = harm \cup {fault}

NoDisk == [slot |-> "none", id |-> "none", size |-> 0, sector |-> 0, known |-> FALSE,
           verified |-> FALSE, system |-> FALSE, readonly |-> FALSE, letters |-> <<>>]
NoDialog == [mode |-> "none", src |-> NoDisk, tgt |-> NoDisk, plan |-> NoPlan]
NoOp == [pc |-> "none", mode |-> "none", src |-> NoDisk, tgt |-> NoDisk, plan |-> NoPlan,
         shrunk |-> FALSE, todo |-> <<>>, locked |-> {}, reads |-> NoDisk, open |-> NoDisk,
         ranges |-> <<>>, copied |-> <<>>, table |-> {}, outcome |-> "none", restoreErr |-> FALSE,
         cancelled |-> FALSE, panicked |-> FALSE]

Unused == {i \in Ops : op[i].pc = "none"}
Live == {i \in Ops : op[i].pc \notin {"none", "ended"}}
LiveVSS(mode) == mode \in {"vss", "smart"}   \* startClone's liveVSS
Sizes(table) == {[num |-> p.num, off |-> p.off, size |-> p.size] : p \in table.parts}
Elements(s) == {s[k] : k \in DOMAIN s}

-----------------------------------------------------------------------------
(* The list of disks.                                                      *)

(* refreshDisks, in the background: the guard, and what the disks answer.  *)
(* It is called by the window and after every clone.                       *)
RefreshDisks ==
  /\ ~running /\ ~loading
  /\ loading' = TRUE
  /\ UNCHANGED <<running, completed, completionOK, listed, latest, ui, op, machine,
                 history, harm>>

DisksListed ==
  /\ loading /\ loading' = FALSE
  /\ listed' = attached
  /\ UNCHANGED <<running, completed, completionOK, latest, ui, op, machine, history, harm>>

-----------------------------------------------------------------------------
(* Starting an operation, on the thread of the window.                     *)

(* The checks startClone makes of the disks as they are listed.            *)
Offered(mode, src, tgt) ==
  /\ src.slot # tgt.slot
  /\ src.verified /\ tgt.verified /\ src.known /\ tgt.known
  /\ mode = "smart" \/ tgt.size >= src.size
  /\ src.sector = tgt.sector
  /\ ~tgt.system
  /\ src.system = LiveVSS(mode)

(* startClone as far as its confirmation; analyzeSmartMigration reads the  *)
(* layout.                                                                 *)
StartClone(mode, slot) ==
  LET src == listed[Source] tgt == listed[slot]
      plan == IF mode = "smart" THEN BuildPlan(src, tgt, layout) ELSE NoPlan
  IN  /\ ui = NoDialog /\ Unused # {}
      /\ ~running /\ ~loading
      /\ Offered(mode, src, tgt)
      /\ mode = "smart" => plan # NoPlan
      /\ ui' = [mode |-> mode, src |-> src, tgt |-> tgt, plan |-> plan]
      /\ UNCHANGED <<app, op, machine, history, harm>>

(* startRecovery as far as its confirmation; it writes to no disk.         *)
StartRecovery ==
  /\ ui = NoDialog /\ Unused # {}
  /\ ~running /\ ~loading /\ listed[Source] # NoDisk
  /\ ui' = [NoDialog EXCEPT !.mode = "recovery", !.src = listed[Source]]
  /\ UNCHANGED <<app, op, machine, history, harm>>

(* The confirmation is given, whatever happened while it was open.         *)
Confirm ==
  /\ ui # NoDialog /\ ui' = NoDialog
  /\ LET i == CHOOSE j \in Unused : \A k \in Unused : j <= k
     IN /\ op' = [op EXCEPT ![i] =
               [NoOp EXCEPT !.pc = IF ui.mode = "recovery" THEN "recover" ELSE "revalidate",
                            !.mode = ui.mode, !.src = ui.src, !.tgt = ui.tgt, !.plan = ui.plan]]
        /\ latest' = i
  /\ running' = TRUE /\ completed' = FALSE
  /\ agreed' = IF ui.mode = "recovery" THEN agreed ELSE agreed \cup {ui.tgt.id}
  /\ tangled' = (tangled \/ Live # {})
  /\ UNCHANGED <<loading, completionOK, listed, machine, made, slipped, replaced, harm>>

Decline ==
  /\ ui # NoDialog /\ ui' = NoDialog
  /\ UNCHANGED <<app, op, machine, history, harm>>

(* cancelRecovery, and cancelRecoveryWithoutPrompt.                        *)
Cancel ==
  /\ running /\ latest \in Live /\ ~op[latest].cancelled
  /\ Harm("cancel")
  /\ op' = [op EXCEPT ![latest].cancelled = TRUE]
  /\ UNCHANGED <<app, ui, machine, history>>

-----------------------------------------------------------------------------
(* runClone up to the copy.                                                *)

Goto(i, label) == op' = [op EXCEPT ![i].pc = label]

(* finishWithError: another operation may start from here on, although the *)
(* deferred cleanup of this one is still to come.                          *)
WrongGiveUp(i, o) ==
  /\ running' = FALSE /\ completed' = TRUE /\ completionOK' = FALSE
  /\ op' = [op EXCEPT ![i] = [o EXCEPT !.pc = "ended"]]
  /\ UNCHANGED <<loading, listed, latest>>
GiveUp(i, o) ==
  /\ running' = FALSE /\ completed' = TRUE /\ completionOK' = FALSE
  /\ op' = [op EXCEPT ![i] = [o EXCEPT !.pc = "cleanup"]]
  /\ UNCHANGED <<loading, listed, latest>>

(* revalidateCloneDisks: the slots still hold what the user confirmed, and *)
(* the destination may be written.                                         *)
WrongRevalidated(o) == /\ attached[o.src.slot].verified /\ attached[o.tgt.slot].verified
                       /\ ~attached[o.tgt.slot].system
Revalidated(o) ==
  LET src == attached[o.src.slot] tgt == attached[o.tgt.slot]
  IN  /\ src.verified /\ tgt.verified
      /\ src.id = o.src.id /\ tgt.id = o.tgt.id
      /\ ~tgt.system /\ ~tgt.readonly

Revalidate(i) ==
  LET o == op[i] IN
  /\ o.pc = "revalidate"
  /\ IF Revalidated(o)
     THEN /\ op' = [op EXCEPT ![i] = [o EXCEPT !.src = attached[o.src.slot],
                                               !.tgt = attached[o.tgt.slot],
                                               !.pc = IF o.mode = "smart" THEN "replan" ELSE "access"]]
          /\ UNCHANGED app
     ELSE GiveUp(i, o)
  /\ UNCHANGED <<ui, machine, history, harm>>

(* What writeSmartPlanFiles leaves for RESTAURAR-PARTICAO-ORIGEM.          *)
WrongSavedPlan(plan) == [plan EXCEPT !.from = plan.to]
SavedPlan(plan) == plan

(* The plan again, from the layout as it is now; it is written over what   *)
(* the report folder held.  BitLocker may have become active meanwhile.    *)
Replan(i) ==
  LET o == op[i]
      plan == BuildPlan(o.src, o.tgt, layout)
      same == plan # NoPlan /\ PlansEquivalent(o.plan, plan)
      Write(text) == /\ planFile' = [planFile EXCEPT ![o.tgt.slot] = text]
                     /\ replaced' = (replaced \/ (/\ Sizes(layout) # Sizes(made)
                                                  /\ planFile' # planFile))
  IN
  /\ o.pc = "replan"
  /\ \/ /\ ~same /\ GiveUp(i, o)
        /\ UNCHANGED <<planFile, replaced, harm>>
     \/ /\ Harm("vss") /\ GiveUp(i, o)
        /\ UNCHANGED <<planFile, replaced>>
     \/ /\ same /\ Harm("plan") /\ GiveUp(i, o)
        /\ \E left \in {NoPlan, planFile[o.tgt.slot]} : Write(left)
     \/ /\ same /\ Write(SavedPlan(plan))
        /\ op' = [op EXCEPT ![i] = [o EXCEPT !.plan = plan, !.shrunk = plan.shrink # 0,
                                     !.pc = IF plan.shrink # 0 THEN "shrink" ELSE "access"]]
        /\ UNCHANGED <<app, harm>>
  /\ UNCHANGED <<ui, attached, layout, shadows, made, agreed, tangled, slipped>>

(* Resize-Partition.                                                       *)
Resized(number, size) ==
  [layout EXCEPT !.parts =
     {IF p.num = number THEN [p EXCEPT !.size = size] ELSE p : p \in @}]

(* applySmartShrink: the plan and the restoring script are synced, then    *)
(* Windows reduces the partition, and its size is asked for.  Windows      *)
(* refuses to go below what is used by then, and a size that is less than  *)
(* an Alignment away from the plan's will do.                              *)
Near(plan) ==
  {size \in plan.to - Alignment .. plan.to + Alignment :
     \E p \in layout.parts : p.num = plan.shrink /\ size \in Larger(p.min, 1) .. p.size}

Shrink(i) ==
  LET o == op[i]
      possible == \E p \in layout.parts : p.num = o.plan.shrink /\ p.min <= o.plan.to
      Fails == op' = [op EXCEPT ![i].pc = "unshrink"]
  IN
  /\ o.pc = "shrink"
  /\ \/ /\ possible /\ layout' = Resized(o.plan.shrink, o.plan.to)
        /\ Goto(i, "access")
        /\ planFile' = [planFile EXCEPT ![o.tgt.slot] = SavedPlan(o.plan)] /\ UNCHANGED harm
     \/ /\ ~possible /\ Fails /\ UNCHANGED <<planFile, layout, harm>>
     \/ /\ Harm("plan") /\ Fails
        /\ \E left \in {NoPlan, SavedPlan(o.plan)} :
             planFile' = [planFile EXCEPT ![o.tgt.slot] = left]
        /\ UNCHANGED layout
     \/ /\ Harm("resize") /\ possible /\ Goto(i, "access")
        /\ \E size \in Near(o.plan) : layout' = Resized(o.plan.shrink, size)
        /\ planFile' = [planFile EXCEPT ![o.tgt.slot] = SavedPlan(o.plan)]
     \/ /\ Harm("resize") /\ possible /\ Fails /\ UNCHANGED planFile
        /\ layout' \in {layout, Resized(o.plan.shrink, o.plan.to),
                        Resized(o.plan.shrink, o.plan.from - 1)}
  /\ UNCHANGED <<app, ui, attached, shadows, history>>

(* restoreSmartShrink, for an operation that has shrunk the source.        *)
WrongRestoreShrink(o) == layout' = layout /\ UNCHANGED harm
RestoreShrink(o) ==
  IF ~o.shrunk THEN UNCHANGED <<layout, harm>>
  ELSE \/ /\ layout' = Resized(o.plan.shrink, o.plan.from) /\ UNCHANGED harm
       \/ Harm("restore") /\ UNCHANGED layout

Unshrink(i) ==
  LET o == op[i] IN
  /\ o.pc = "unshrink"
  /\ RestoreShrink(o)
  /\ GiveUp(i, [o EXCEPT !.shrunk = FALSE])
  /\ UNCHANGED <<ui, attached, shadows, planFile, history>>

-----------------------------------------------------------------------------
(* Exclusive access and snapshots.                                         *)

Volumes(disk) == [k \in DOMAIN disk.letters |-> [slot |-> disk.slot, letter |-> disk.letters[k]]]
Closed(o) == [o EXCEPT !.locked = {}, !.open = NoDisk, !.todo = <<>>]

(* openCloneDiskAccess, which checks the disks again and locks the volumes *)
(* of the destination, and of the source unless snapshots are read.        *)
ToLock(o) == (IF LiveVSS(o.mode) THEN <<>> ELSE Volumes(attached[o.src.slot]))
             \o Volumes(attached[o.tgt.slot])

Access(i) ==
  LET o == op[i] IN
  /\ o.pc = "access"
  /\ IF Revalidated(o)
     THEN /\ op' = [op EXCEPT ![i] = [o EXCEPT !.src = attached[o.src.slot],
                                               !.tgt = attached[o.tgt.slot],
                                               !.todo = ToLock(o), !.pc = "lock"]]
          /\ UNCHANGED app
     ELSE GiveUp(i, o)
  /\ UNCHANGED <<ui, machine, history, harm>>

(* One volume: locked and dismounted, or everything is released.           *)
Lock(i) ==
  LET o == op[i]
      held == UNION {op[j].locked : j \in Ops \ {i}}
  IN
  /\ o.pc = "lock" /\ o.todo # <<>>
  /\ \/ /\ Head(o.todo) \notin held
        /\ op' = [op EXCEPT ![i].todo = Tail(@), ![i].locked = @ \cup {Head(o.todo)}]
        /\ UNCHANGED <<app, harm>>
     \/ /\ Head(o.todo) \in held /\ GiveUp(i, Closed(o)) /\ UNCHANGED harm
     \/ Harm("lock") /\ GiveUp(i, Closed(o))
  /\ UNCHANGED <<ui, machine, history>>

(* Both disks are opened by their numbers, whichever is there by now: one  *)
(* is read, the other is written.  Closed forgets what was open to write,  *)
(* and keeps what was read.                                                *)
Open(i) ==
  LET o == op[i] IN
  /\ o.pc = "lock" /\ o.todo = <<>>
  /\ \/ /\ op' = [op EXCEPT ![i].reads = attached[o.src.slot],
                             ![i].open = attached[o.tgt.slot],
                             ![i].pc = IF LiveVSS(o.mode) THEN "snapshots" ELSE "copy"]
        /\ UNCHANGED <<app, harm>>
     \/ Harm("lock") /\ GiveUp(i, Closed(o))
  /\ UNCHANGED <<ui, machine, history>>

(* querySingleVolumeExtent of every letter, in their order.                *)
Extent(letter) ==
  LET p == CHOOSE q \in layout.parts : q.letter = letter
  IN  [start |-> p.off, end |-> End(p), letter |-> letter]
Extents(letters) == [k \in DOMAIN letters |-> Extent(letters[k])]

(* createVSSSnapshotSet.  When diskshadow fails it may have exposed some of*)
(* the snapshots, which nobody removes; when one cannot be opened they are *)
(* removed.                                                                *)
Exposed(i) == {<<i, letter>> : letter \in Elements(op[i].src.letters)}

CreateSnapshots(i) ==
  LET o == op[i] IN
  /\ o.pc = "snapshots"
  /\ \/ /\ shadows' = shadows \cup Exposed(i)
        /\ op' = [op EXCEPT ![i].ranges = Extents(o.src.letters), ![i].pc = "openSnapshots"]
        /\ UNCHANGED <<app, harm>>
     \/ /\ Harm("vss") /\ GiveUp(i, o)
        /\ \E some \in SUBSET Exposed(i) : shadows' = shadows \cup some
  /\ UNCHANGED <<ui, attached, layout, planFile, history>>

(* vssSnapshotSet.Close; diskshadow may not do as it is told.              *)
CloseSnapshots(i) ==
  \/ /\ shadows' = {s \in shadows : s[1] # i \/ op[i].ranges = <<>>} /\ UNCHANGED harm
  \/ op[i].ranges # <<>> /\ Harm("vss") /\ UNCHANGED shadows

OpenSnapshots(i) ==
  LET o == op[i] IN
  /\ o.pc = "openSnapshots"
  /\ \/ Goto(i, "copy") /\ UNCHANGED <<app, shadows, harm>>
     \/ /\ Harm("vss") /\ GiveUp(i, [o EXCEPT !.ranges = <<>>])
        /\ shadows' = {s \in shadows : s[1] # i}
  /\ UNCHANGED <<ui, attached, layout, planFile, history>>

-----------------------------------------------------------------------------
(* CloneDisk, as far as the operation sees it.                             *)

CopySize(o) == IF o.mode = "smart" THEN o.plan.copy ELSE o.src.size

(* The next chunk.  A disk that is gone does not read, and neither does one*)
(* beyond its end; one that was opened in the place of the source has      *)
(* contents of its own.                                                    *)
Reads(o) == attached[o.reads.slot].id = o.reads.id
ReadsSource(o) == Reads(o) /\ o.reads.id = o.src.id
OtherUnit(o, u) == IF Reads(o) /\ u < o.reads.size THEN Unit(o.reads.id, u) ELSE Zero
NextChunk(o) ==
  LET at == Len(o.copied)
      len == IF CopySize(o) - at < Chunk THEN CopySize(o) - at ELSE Chunk
  IN  IF ReadsSource(o) THEN ReadChunk(o.ranges, at, len)
      ELSE [k \in 1 .. len |-> OtherUnit(o, at + k - 1)]

(* The partition table is in the first unit.                               *)
TableRead(o) == IF ReadsSource(o) THEN Sizes(layout) ELSE {}

(* A destination that is gone cannot be written.                           *)
CopyChunk(i) ==
  LET o == op[i]
      here == attached[o.open.slot].id = o.open.id
  IN
  /\ o.pc = "copy" /\ Len(o.copied) < CopySize(o) /\ ~o.cancelled
  /\ op' = [op EXCEPT ![i] =
        IF here THEN [o EXCEPT !.copied = @ \o NextChunk(o),
                               !.table = IF o.copied = <<>> THEN TableRead(o) ELSE @]
        ELSE [o EXCEPT !.outcome = "failed", !.pc = "close"]]
  /\ UNCHANGED <<app, ui, machine, history, harm>>

(* It is cancelled, fails or panics at a later chunk as well; a panic goes *)
(* through the deferred cleanup.                                           *)
CopyEnds(i) ==
  LET o == op[i] IN
  /\ o.pc = "copy"
  /\ \/ /\ o.cancelled /\ Len(o.copied) < CopySize(o)
        /\ op' = [op EXCEPT ![i].outcome = "cancelled", ![i].pc = "close"] /\ UNCHANGED harm
     \/ /\ Harm("clone")
        /\ op' = [op EXCEPT ![i].outcome = "failed", ![i].pc = "close"]
     \/ /\ Harm("panic")
        /\ op' = [op EXCEPT ![i].panicked = TRUE, ![i].pc = "cleanup"]
  /\ UNCHANGED <<app, ui, machine, history>>

(* The table that was copied is adapted to the destination: partitions     *)
(* beyond its end are dropped if they are recovery, or the clone fails;    *)
(* what it makes of the table of another disk is left open.  The           *)
(* verification between the copy and this may be cancelled.                *)
Adapts(o) ==
  \A p \in layout.parts : p.kind # "recovery" =>
    \A e \in o.table : e.num = p.num => e.off + e.size <= o.open.size - GptTail

Adapt(i) ==
  LET o == op[i] IN
  /\ o.pc = "copy" /\ Len(o.copied) = CopySize(o)
  /\ \E outcome \in (IF o.cancelled THEN {"cancelled"} ELSE {}) \cup
                     (IF o.reads.id # o.src.id THEN {"ok", "failed"}
                      ELSE IF Adapts(o) THEN {"ok"} ELSE {"failed"}) :
       op' = [op EXCEPT ![i].outcome = outcome, ![i].pc = "close"]
  /\ UNCHANGED <<app, ui, machine, history, harm>>

-----------------------------------------------------------------------------
(* The end of an operation.                                                *)

(* After CloneDisk returned: snapshots.Close and access.Close.             *)
Release(i) ==
  /\ op[i].pc = "close"
  /\ CloseSnapshots(i)
  /\ op' = [op EXCEPT ![i] = [Closed(op[i]) EXCEPT !.pc = "restore"]]
  /\ UNCHANGED <<app, ui, attached, layout, planFile, history>>

(* The source gets its size back, and the new system disk is taken offline *)
(* if Windows lets it.                                                     *)
Restore(i) ==
  LET o == op[i]
      back == layout' = Resized(o.plan.shrink, o.plan.from)
  IN
  /\ o.pc = "restore"
  /\ RestoreShrink(o)
  /\ op' = [op EXCEPT ![i].shrunk = FALSE, ![i].restoreErr = o.shrunk /\ ~back,
                      ![i].pc = "finish"]
  /\ \/ attached' = attached
     \/ /\ o.outcome = "ok" /\ LiveVSS(o.mode)
        /\ attached' = [attached EXCEPT ![o.tgt.slot].letters = <<>>]
  /\ UNCHANGED <<app, ui, shadows, planFile, history>>

Finish(i) ==
  LET o == op[i] IN
  /\ o.pc = "finish" /\ Goto(i, "ended")
  /\ running' = FALSE /\ completed' = TRUE
  /\ completionOK' = (o.outcome = "ok" /\ ~o.restoreErr)
  /\ UNCHANGED <<loading, listed, latest, ui, machine, history, harm>>

(* The deferred cleanup of an operation that gave up or panicked; for one  *)
(* that panicked goSafe clears running after it.                           *)
Cleanup(i) ==
  /\ op[i].pc = "cleanup"
  /\ CloseSnapshots(i)
  /\ op' = [op EXCEPT ![i] = [Closed(op[i]) EXCEPT !.pc = "cleanupRestore"]]
  /\ UNCHANGED <<app, ui, attached, layout, planFile, history>>

CleanupRestore(i) ==
  /\ op[i].pc = "cleanupRestore"
  /\ RestoreShrink(op[i])
  /\ op' = [op EXCEPT ![i].pc = "ended", ![i].shrunk = FALSE]
  /\ running' = (running /\ ~op[i].panicked)
  /\ UNCHANGED <<loading, completed, completionOK, listed, latest, ui, attached, shadows,
                 planFile, history>>

(* runRecovery, which gives up or reports how the recovery went.           *)
RunRecovery(i) ==
  /\ op[i].pc = "recover" /\ Goto(i, "ended")
  /\ running' = FALSE /\ completed' = TRUE
  /\ completionOK' \in IF op[i].cancelled THEN {FALSE} ELSE BOOLEAN
  /\ UNCHANGED <<loading, listed, latest, ui, machine, history, harm>>

-----------------------------------------------------------------------------
(* The user and the machine.                                               *)

(* WM_CLOSE cancels what is running and leaves without waiting for it, as  *)
(* does a process that is killed.  Handles and locks go with the process,  *)
(* snapshots do not.  The next process starts with an empty list of disks. *)
Quit ==
  /\ ui = NoDialog /\ Harm("quit")
  /\ running' = FALSE /\ loading' = FALSE /\ completed' = FALSE /\ completionOK' = FALSE
  /\ listed' = [slot \in DOMAIN attached |-> NoDisk]
  /\ op' = [i \in Ops |-> IF op[i].pc = "none" THEN NoOp ELSE [NoOp EXCEPT !.pc = "ended"]]
  /\ UNCHANGED <<latest, ui, machine, history>>

(* Another disk takes the place of one that Windows does not run from.     *)
Swap(slot) ==
  /\ ~attached[slot].system /\ Harm("swap")
  /\ \E d \in Others :
       /\ \A s \in DOMAIN attached : attached[s].id # d.id
       /\ attached' = [attached EXCEPT ![slot] = [d EXCEPT !.slot = slot]]
  /\ slipped' = (slipped \/ \E i \in Ops : op[i].pc = "lock")
  /\ UNCHANGED <<app, ui, op, layout, shadows, planFile, made, agreed, tangled, replaced>>

(* Files are written to a volume of the running Windows.                   *)
Grow(p) ==
  /\ p.letter # "" /\ p.used < p.size /\ p.min < p.size /\ Harm("grow")
  /\ layout' = [layout EXCEPT !.parts =
                  (@ \ {p}) \cup {[p EXCEPT !.used = @ + 1, !.min = @ + 1]}]
  /\ UNCHANGED <<app, ui, op, attached, shadows, planFile, history>>

(* RESTAURAR-PARTICAO-ORIGEM, run by hand: it checks the disk, and that the*)
(* partition has the reduced size of the plan.                             *)
Restores(plan) ==
  /\ plan.shrink # 0 /\ plan.source = attached[Source].id
  /\ \E p \in layout.parts : /\ p.num = plan.shrink
                             /\ p.size \in plan.to - Alignment .. plan.to + Alignment

RunRestoreScript(slot) ==
  /\ Live = {} /\ Restores(planFile[slot])
  /\ layout' = Resized(planFile[slot].shrink, planFile[slot].from)
  /\ UNCHANGED <<app, ui, op, attached, shadows, planFile, history, harm>>

-----------------------------------------------------------------------------
Init ==
  \E m \in Machines :
    /\ attached = m.attached /\ layout = m.layout /\ made = m.layout
    /\ shadows = {} /\ planFile = [slot \in DOMAIN m.attached |-> NoPlan]
    /\ running = FALSE /\ loading = FALSE /\ completed = FALSE /\ completionOK = FALSE
    /\ listed = [slot \in DOMAIN m.attached |-> NoDisk] /\ latest = 0
    /\ ui = NoDialog /\ op = [i \in Ops |-> NoOp]
    /\ agreed = {} /\ tangled = FALSE /\ slipped = FALSE /\ replaced = FALSE /\ harm = {}

Slots == DOMAIN attached
Window ==
  \/ RefreshDisks \/ DisksListed \/ StartRecovery \/ Confirm \/ Decline \/ Cancel \/ Quit
  \/ \E mode \in {"offline", "vss", "smart"}, slot \in Slots : StartClone(mode, slot)
Prepare(i) == Revalidate(i) \/ Replan(i) \/ Shrink(i) \/ Unshrink(i) \/ Access(i) \/ Lock(i)
              \/ Open(i) \/ CreateSnapshots(i) \/ OpenSnapshots(i)
Copy(i) == CopyChunk(i) \/ CopyEnds(i) \/ Adapt(i)
Leave(i) == Release(i) \/ Restore(i) \/ Finish(i) \/ Cleanup(i) \/ CleanupRestore(i)
Goroutine(i) == Prepare(i) \/ Copy(i) \/ Leave(i) \/ RunRecovery(i)
World == (\E slot \in Slots : Swap(slot) \/ RunRestoreScript(slot))
         \/ \E p \in layout.parts : Grow(p)

Next == Window \/ World \/ \E i \in Ops : Goroutine(i)
Spec == Init /\ [][Next]_vars

-----------------------------------------------------------------------------
Labels == {"none", "ended", "revalidate", "replan", "shrink", "unshrink", "access", "lock",
           "snapshots", "openSnapshots", "copy", "close", "restore", "finish", "cleanup",
           "cleanupRestore", "recover"}

(* The state has its type; only an operation that got as far holds locks,  *)
(* snapshots and a disk to write.                                          *)
TypeOK ==
  /\ {running, loading, completed, completionOK, tangled, slipped, replaced} \subseteq BOOLEAN
  /\ latest \in 0 .. MaxOps /\ harm \subseteq FaultKinds
  /\ \A i \in Ops :
       /\ op[i].pc \in Labels /\ DOMAIN op[i] = DOMAIN NoOp
       /\ op[i].outcome \in {"none", "ok", "cancelled", "failed"}
       /\ op[i].pc \in {"snapshots", "openSnapshots", "copy"} => op[i].open # NoDisk
       /\ op[i].open # NoDisk => op[i].pc \in {"snapshots", "openSnapshots", "copy", "close", "cleanup"}
       /\ Len(op[i].copied) <= CopySize(op[i])
  /\ \A s \in shadows : s[1] \in Ops

(* When no operation is at work, also none that is cleaning up after it    *)
(* gave up, the source has the sizes it came with and no lock, open disk   *)
(* or snapshot is left: "restaura o HD ao tamanho original".  A process    *)
(* that ended under it, a restoration that failed and a diskshadow that    *)
(* failed are the ways out, and so is a migration that began while another *)
(* was cleaning up: it takes the reduced size for the size to return to.   *)
NothingLeftBehind ==
  /\ Live = {} =>
       /\ ~running
       /\ Sizes(layout) = Sizes(made) \/ tangled \/ harm \cap {"quit", "restore"} # {}
       /\ shadows = {} \/ harm \cap {"quit", "vss"} # {}
  /\ \A i \in Ops \ Live : op[i].locked = {} /\ op[i].open = NoDisk

(* CHANGELOG.md, 0.5.4-rc.1: there is a script that restores the source.   *)
(* Whenever the source is left reduced, the report folder holds a plan that*)
(* has the size to return to - unless a migration that found the source    *)
(* still reduced has written its plan over it - and that the script accepts*)
(* unless Windows failed to reduce the partition and left it another size. *)
RestorePlanKept ==
  Live = {} /\ Sizes(layout) # Sizes(made) /\ ~replaced =>
    \E slot \in Slots :
      /\ Sizes(Resized(planFile[slot].shrink, planFile[slot].from)) = Sizes(made)
      /\ Restores(planFile[slot]) \/ "resize" \in harm

(* docs/CLONAGEM.md: what is written goes to a disk whose erasure was      *)
(* confirmed, with every volume of it locked, and with every volume of the *)
(* source locked or covered by a snapshot.  A disk exchanged between its   *)
(* last check and its opening is the exception (slipped).                  *)
Writes(i) == op'[i].copied \notin {op[i].copied, <<>>}
Guarded(o) ==
  /\ slipped \/ (o.open.id \in agreed /\ ~o.open.system)
  /\ Elements(Volumes(o.tgt)) \subseteq o.locked
  /\ IF LiveVSS(o.mode) THEN Elements(o.src.letters) = {r.letter : r \in Elements(o.ranges)}
     ELSE Elements(Volumes(o.src)) \subseteq o.locked
WritesGuarded == [][\A i \in Ops : Writes(i) => running /\ latest = i /\ Guarded(op[i])]_op

(* An operation reported as completed copied all of its source: mounted    *)
(* volumes from the snapshot and the rest from the disk, zeros only where  *)
(* the disk does not read or was taken away during the copy.  The table it *)
(* copied describes the volumes it copied and the partition it reduced has *)
(* its size again, unless another operation was restoring the source       *)
(* meanwhile.  It says nothing of an operation that opened another disk in *)
(* the place of its source, which is reported as completed too: see        *)
(* ConfirmedDisksOnly.                                                     *)
Expected(o, u) ==
  LET holding == {r \in Elements(o.ranges) : u \in r.start .. r.end - 1}
  IN  IF holding # {} THEN {Unit(r.letter, u - r.start) : r \in holding}
      ELSE IF u \in Broken THEN {Zero}
      ELSE {Unit("disk", u)} \cup (IF "swap" \in harm THEN {Zero} ELSE {})
Whole(o) ==
  /\ Len(o.copied) = CopySize(o)
  /\ \A k \in DOMAIN o.copied : o.copied[k] \in Expected(o, k - 1)
  /\ \/ tangled
     \/ /\ \A r \in Elements(o.ranges) :
             \E e \in o.table : e.off = r.start /\ e.off + e.size = r.end
        /\ o.plan.shrink # 0 =>
             \E p \in layout.parts : p.num = o.plan.shrink /\ p.size = o.plan.from
Completes(i) == op[i].pc = "finish" /\ op'[i].pc = "ended" /\ completionOK'
CompletionHonest ==
  [][\A i \in Ops : Completes(i) => op[i].reads.id # op[i].src.id \/ Whole(op[i])]_vars

(* The disk written is one whose erasure was confirmed (docs/CLONAGEM.md:56*)
(* has an operation blocked when the destination is exchanged afterwards)  *)
(* and the disk read is the confirmed source (disk_windows.go:603 refuses  *)
(* another: "o disco de origem mudou desde a confirmação").  WritesGuarded *)
(* and CompletionHonest leave out an exchange between the last check and   *)
(* the opening of both by their numbers; this does not.                    *)
ConfirmedDisksOnly ==
  [][\A i \in Ops : Writes(i) => op[i].open.id \in agreed /\ op[i].reads.id = op[i].src.id]_op

(* The source is reduced only so far that its files and a reserve of free  *)
(* space stay, and so that all it needs to start Windows fits the new disk *)
(* with its backup partition table.  Files written meanwhile and a Windows *)
(* that reduces it to another size may take the reserve, and none is kept  *)
(* where Windows did not say how much is used.                             *)
ShrinkSafe ==
  [][\A i \in Ops : op[i].pc = "shrink" /\ op'[i].pc = "access" =>
       \A p \in layout'.parts :
         /\ p.kind # "recovery" => End(p) <= op[i].tgt.size - GptTail
         /\ p.num = op[i].plan.shrink /\ p.used > 0 =>
              p.used + (IF harm' \cap {"grow", "resize"} # {} THEN 0 ELSE MinFree) <= p.size]_vars
=============================================================================
