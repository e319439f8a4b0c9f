------------------------- MODULE CloneOperationProofs -------------------------
(***************************************************************************)
(* What the operations of the window promise, for every machine, disk that *)
(* is exchanged, number of operations and set of faults: only a confirmed  *)
(* and locked disk is written, the source is reduced no further than it    *)
(* may be and gets its sizes back, or can, and a clone reported as done is *)
(* a whole one.                                                            *)
(***************************************************************************)
EXTENDS CloneOperation, TLAPS, WellFoundedInduction, FiniteSetTheorems

Modes == {"offline", "vss", "smart"}
Idle == {"none", "ended"}
Closing == {"cleanup", "cleanupRestore"}
NoTarget == Idle \cup {"recover"}

(* What an operation is made of; what it copied is left open.              *)
Fields == DOMAIN NoOp
Volume == [slot : STRING, letter : STRING]
IsOperation(o) == DOMAIN o = Fields /\ o.pc \in Labels /\ o.todo \in Seq(Volume)

Typed ==
  /\ op = [i \in Ops |-> op[i]] /\ \A i \in Ops : IsOperation(op[i])
  /\ planFile = [s \in Slots |-> planFile[s]]
  /\ attached = [s \in Slots |-> attached[s]]

(* An operation is at work until it ends or gives up, and one that panicked*)
(* until its cleanup is done.                                              *)
Working(i) ==
  /\ op[i].pc \notin Idle
  /\ op[i].pc \in Closing => op[i].panicked

OneAtWork ==
  /\ running \in BOOLEAN
  /\ \A i \in Ops : Working(i) => running /\ latest = i
  /\ \A i \in Ops : op[i].panicked => op[i].pc \in Closing \cup {"ended"}
  /\ running => latest \in Ops /\ Working(latest)
  /\ ui # NoDialog => ~running /\ Unused # {}
  /\ ~tangled => \A i \in Live : i = latest

(* Disks know their slots, in the list, in the dialog and in an operation. *)
Chosen(o) ==
  /\ o.mode \in Modes
  /\ o.src \in Disk /\ o.src.slot = Source
  /\ o.tgt \in Disk /\ o.tgt.slot \in Slots

DisksKnown ==
  /\ Source \in Slots
  /\ \A s \in Slots : attached[s] \in Disk /\ attached[s].slot = s
  /\ DOMAIN listed = Slots
  /\ \A s \in Slots : listed[s] = NoDisk \/ (listed[s] \in Disk /\ listed[s].slot = s)
  /\ ui # NoDialog => Chosen(ui) \/ (ui.mode = "recovery" /\ ui.src \in Disk)
  /\ \A i \in Ops : op[i].pc \notin NoTarget => Chosen(op[i])

ControlInv == Typed /\ OneAtWork /\ DisksKnown

(* The disk an operation writes, and the volumes it holds.                 *)
Held(o, volumes) == Elements(volumes) \subseteq o.locked \cup Elements(o.todo)

TargetAgreed(o) == o.pc \notin NoTarget => o.tgt.id \in agreed
TargetStays(o) ==
  o.pc = "lock" =>
    LET at == attached[o.tgt.slot] IN slipped \/ (at.id = o.tgt.id /\ ~at.system)
OpenAgreed(o) ==
  o.pc \in {"snapshots", "openSnapshots", "copy"} =>
    slipped \/ (o.open.id \in agreed /\ ~o.open.system)
VolumesHeld(o) ==
  o.pc \in {"lock", "snapshots", "openSnapshots", "copy"} =>
    /\ Held(o, Volumes(o.tgt))
    /\ ~LiveVSS(o.mode) => Held(o, Volumes(o.src))
    /\ o.pc # "lock" => o.todo = <<>>
VolumesCovered(o) ==
  o.pc \in {"openSnapshots", "copy"} /\ LiveVSS(o.mode) =>
    Elements(o.src.letters) = {r.letter : r \in Elements(o.ranges)}

Guards(o) == TargetAgreed(o) /\ TargetStays(o) /\ OpenAgreed(o) /\ VolumesHeld(o)
             /\ VolumesCovered(o)
GuardInv == \A i \in Ops : Guards(op[i])

(* Only an operation that got as far holds something.                      *)
NothingHeld(o) ==
  /\ o.pc \notin {"lock", "snapshots", "openSnapshots", "copy", "close", "cleanup"} => o.locked = {}
  /\ o.pc \notin {"snapshots", "openSnapshots", "copy", "close", "cleanup"} => o.open = NoDisk
HasShadows(o) == o.pc \in {"openSnapshots", "copy", "close", "cleanup"} /\ o.ranges # <<>>
ShadowHeld(s) ==
  /\ s[1] \in Ops
  /\ harm \cap {"quit", "vss"} # {} \/ HasShadows(op[s[1]])

HoldInv == /\ \A i \in Ops : NothingHeld(op[i])
           /\ \A s \in shadows : ShadowHeld(s)

(* The partition a migration may reduce: what else is not recovery is      *)
(* before it.                                                              *)
IsLast(n) ==
  \E b \in made.parts :
    /\ b.num = n /\ b.kind = "ntfs"
    /\ \A q \in made.parts : q # b /\ q.kind # "recovery" => End(q) <= b.off

(* Tables that have the partitions of the first one, of which only the last*)
(* has less than it had.                                                   *)
Same(p, q) == p.num = q.num /\ p.off = q.off /\ p.kind = q.kind /\ p.letter = q.letter
MadeKnown ==
  /\ made.parts \subseteq Partition /\ IsFiniteSet(made.parts)
  /\ \A p, q \in made.parts : p # q => p.num # q.num /\ (End(p) <= q.off \/ End(q) <= p.off)
Shaped(parts) ==
  /\ parts \subseteq Partition
  /\ \A p, q \in parts : p.num = q.num => p = q
  /\ \A p \in parts : \E q \in made.parts : Same(p, q)
  /\ \A q \in made.parts : \E p \in parts : Same(p, q)
  /\ \A p \in parts, q \in made.parts :
       p.num = q.num => p.size <= q.size /\ (p.size = q.size \/ IsLast(p.num))
UsedFits(parts) == \A p \in parts : p.used <= p.min
LayoutKnown == "parts" \in DOMAIN layout /\ Shaped(layout.parts) /\ UsedFits(layout.parts)
               /\ MadeKnown

HasSizes(parts) == \A p \in parts, q \in made.parts : p.num = q.num => p.size = q.size
AsMade == HasSizes(layout.parts)

(* A plan that reduces a partition, and has the size it came with.         *)
Reduces(plan) ==
  /\ IsLast(plan.shrink) /\ plan.shrink # 0
  /\ plan.from \in Nat \ {0} /\ plan.to \in 1 .. plan.from - 1
  /\ \A q \in made.parts : q.num = plan.shrink => plan.from <= q.size
  /\ attached[Source].system /\ plan.source = attached[Source].id
HasSize(plan) == \A q \in made.parts : q.num = plan.shrink => plan.from = q.size

(* What an operation knows of its plan.                                    *)
Migrates(o) ==
  /\ o.shrunk =>
       Reduces(o.plan) /\ o.pc \notin NoTarget \cup {"revalidate", "replan", "finish"}
  /\ o.pc = "replan" /\ o.src.system =>
       attached[Source].system /\ attached[Source].id = o.src.id
Fits(o, p) ==
  LET size == IF p.num = o.plan.shrink THEN o.plan.to ELSE p.size
  IN  /\ p.kind # "recovery" => p.off + size <= o.tgt.size - GptTail - Alignment
      /\ p.num = o.plan.shrink /\ p.used > 0 => p.used + MinFree <= size \/ "grow" \in harm
ShrinkPlanned(o) == o.pc = "shrink" => o.shrunk /\ \A p \in layout.parts : Fits(o, p)

PlansKnown ==
  /\ \A s \in Slots : planFile[s].shrink # 0 => Reduces(planFile[s])
  /\ \A i \in Ops : Migrates(op[i]) /\ ShrinkPlanned(op[i])
LayoutInv == LayoutKnown /\ PlansKnown

(* Unless a plan was replaced, plans know the size the source came with,   *)
(* and one is there that gives it back.                                    *)
Kept(o) ==
  /\ o.shrunk => HasSize(o.plan)
  /\ o.pc = "shrink" => AsMade /\ planFile[o.tgt.slot] = o.plan
CanReturn ==
  \E s \in Slots : planFile[s].shrink # 0 /\ (Restores(planFile[s]) \/ "resize" \in harm)
SizeKept ==
  ~replaced =>
    /\ \A s \in Slots : planFile[s].shrink # 0 => HasSize(planFile[s])
    /\ \A i \in Ops : Kept(op[i])
    /\ AsMade \/ CanReturn
GivenBack ==
  ~tangled /\ harm \cap {"quit", "restore"} = {} =>
    ~replaced /\ ((\A i \in Ops : ~op[i].shrunk) => AsMade)
SizeInv == SizeKept /\ GivenBack

(* A non-empty set of naturals has a least element.                        *)
LEMMA LeastOf ==
  ASSUME NEW T, T \subseteq Nat, T # {}
  PROVE  \E x \in T : \A y \in T : x <= y
<1>1. PICK x \in T : \A y \in T : ~(<<y, x>> \in OpToRel(<, Nat))
  BY NatLessThanWellFounded, WFMin
<1>2. \A y \in T : ~(y < x)
  BY <1>1 DEF OpToRel
<1> QED
  BY <1>2

-----------------------------------------------------------------------------
(* What each step does to the operations and to the rest of the state.     *)

LEMMA FieldNames ==
  Fields = {"pc", "mode", "src", "tgt", "plan", "shrunk", "todo", "locked", "reads", "open", "ranges",
            "copied", "table", "outcome", "restoreErr", "cancelled", "panicked"}
BY DEF Fields, NoOp

(* One operation changes, in these fields at most.                         *)
Touches(i, F) ==
  /\ op' = [j \in Ops |-> op'[j]] /\ \A j \in Ops \ {i} : op'[j] = op[j]
  /\ DOMAIN op'[i] = Fields /\ \A f \in Fields \ F : op'[i][f] = op[i][f]

(* It goes on, or gives up.                                                *)
GoesOn(i, F, label) ==
  /\ Touches(i, F \cup {"pc"}) /\ op'[i].pc = label
  /\ UNCHANGED running
GivesUp(i, F) ==
  /\ Touches(i, F \cup {"pc"}) /\ op'[i].pc = "cleanup"
  /\ running' = FALSE

(* What no step of an operation changes, and what only some do.            *)
Quiet ==
  /\ UNCHANGED <<listed, latest, ui, made, agreed, tangled, slipped>>
  /\ \A fault \in harm : fault \in harm'
SourceStays == UNCHANGED <<layout, planFile, replaced>>
DisksStay == UNCHANGED <<attached, shadows>>

LEMMA OpAt ==
  ASSUME Typed, NEW i \in Ops
  PROVE  op = [j \in Ops |-> op[j]] /\ DOMAIN op[i] = Fields
BY DEF Typed, IsOperation

LEMMA HarmGrows ==
  ASSUME NEW fault, Harm(fault)
  PROVE  fault \in harm' /\ \A f \in harm : f \in harm'
BY DEF Harm

LEMMA GiveUpEffect ==
  ASSUME Typed, NEW i \in Ops, GiveUp(i, op[i])
  PROVE  GivesUp(i, {}) /\ UNCHANGED <<listed, latest>>
BY OpAt, FieldNames, Zenon DEF Touches, GiveUp, GivesUp

LEMMA GiveUpClosed ==
  ASSUME Typed, NEW i \in Ops, GiveUp(i, Closed(op[i]))
  PROVE  /\ GivesUp(i, {"todo", "locked", "open"}) /\ UNCHANGED <<listed, latest>>
         /\ op'[i].todo = <<>> /\ op'[i].locked = {} /\ op'[i].open = NoDisk
<1>1. GivesUp(i, {"todo", "locked", "open"}) /\ UNCHANGED <<listed, latest>>
  BY OpAt, FieldNames, Zenon DEF Touches, GiveUp, Closed, GivesUp
<1>2. op'[i].todo = <<>> /\ op'[i].locked = {} /\ op'[i].open = NoDisk
  BY OpAt, FieldNames, Zenon DEF GiveUp, Closed
<1> QED
  BY <1>1, <1>2

LEMMA GotoEffect ==
  ASSUME Typed, NEW i \in Ops, NEW label, Goto(i, label)
  PROVE  Touches(i, {"pc"}) /\ op'[i].pc = label
BY OpAt, FieldNames, Zenon DEF Touches, Goto

LEMMA RevalidateEffect ==
  ASSUME Typed, NEW i \in Ops, Revalidate(i)
  PROVE  /\ op[i].pc = "revalidate" /\ Quiet /\ DisksStay /\ SourceStays /\ UNCHANGED harm
         /\ \/ /\ GoesOn(i, {"src", "tgt"}, IF op[i].mode = "smart" THEN "replan" ELSE "access")
               /\ Revalidated(op[i])
               /\ op'[i].src = attached[op[i].src.slot]
               /\ op'[i].tgt = attached[op[i].tgt.slot]
            \/ GivesUp(i, {})
<1> DEFINE u == [op[i] EXCEPT !.src = attached[op[i].src.slot], !.tgt = attached[op[i].tgt.slot],
                              !.pc = IF op[i].mode = "smart" THEN "replan" ELSE "access"]
<1>1. op[i].pc = "revalidate" /\ UNCHANGED <<ui, machine, history, harm>>
  BY DEF Revalidate
<1>2. CASE Revalidated(op[i]) /\ op' = [op EXCEPT ![i] = u] /\ UNCHANGED app
  <2>1. /\ Touches(i, {"src", "tgt", "pc"})
        /\ op'[i].pc = IF op[i].mode = "smart" THEN "replan" ELSE "access"
        /\ op'[i].src = attached[op[i].src.slot]
        /\ op'[i].tgt = attached[op[i].tgt.slot]
    BY <1>2, OpAt, FieldNames, Zenon DEF Touches
  <2> HIDE DEF u
  <2>2. Touches(i, {"src", "tgt"} \cup {"pc"})
    BY <2>1 DEF Touches
  <2> QED
    BY <1>1, <1>2, <2>1, <2>2 DEF GoesOn, Quiet, DisksStay, SourceStays, app, machine, history
<1>3. CASE GiveUp(i, op[i])
  BY <1>1, <1>3, GiveUpEffect DEF Quiet, DisksStay, SourceStays, machine, history
<1> QED
  BY <1>2, <1>3 DEF Revalidate

(* The plan of a report folder is written, and what that replaces.         *)
Records(slot, text) == planFile' = [s \in Slots |-> IF s = slot THEN text ELSE planFile[s]]
Replaces == replaced' = (replaced \/ (Sizes(layout) # Sizes(made) /\ planFile' # planFile))

LEMMA ReplanEffect ==
  ASSUME Typed, NEW i \in Ops, Replan(i), NEW slot, slot = op[i].tgt.slot,
         NEW plan, plan = BuildPlan(op[i].src, op[i].tgt, layout)
  PROVE  /\ op[i].pc = "replan" /\ Quiet /\ DisksStay /\ UNCHANGED layout
         /\ \/ GivesUp(i, {}) /\ UNCHANGED <<planFile, replaced>>
            \/ /\ GivesUp(i, {}) /\ Replaces
               /\ \E left \in {NoPlan, planFile[slot]} : Records(slot, left)
            \/ /\ GoesOn(i, {"plan", "shrunk"}, IF plan.shrink # 0 THEN "shrink" ELSE "access")
               /\ plan # NoPlan /\ Replaces /\ Records(slot, plan)
               /\ op'[i].plan = plan /\ op'[i].shrunk = (plan.shrink # 0)
<1> DEFINE u == [op[i] EXCEPT !.plan = plan, !.shrunk = plan.shrink # 0,
                              !.pc = IF plan.shrink # 0 THEN "shrink" ELSE "access"]
           Write(text) == planFile' = [planFile EXCEPT ![slot] = text] /\ Replaces
<1> HIDE DEF u, Write
<1>1. /\ op[i].pc = "replan"
      /\ UNCHANGED <<ui, attached, layout, shadows, made, agreed, tangled, slipped>>
  BY DEF Replan
<1>2. \/ GiveUp(i, op[i]) /\ UNCHANGED <<planFile, replaced>> /\ (UNCHANGED harm \/ Harm("vss"))
      \/ /\ GiveUp(i, op[i]) /\ Harm("plan")
         /\ \E left \in {NoPlan, planFile[slot]} : Write(left)
      \/ /\ plan # NoPlan /\ Write(plan) /\ op' = [op EXCEPT ![i] = u] /\ UNCHANGED <<app, harm>>
  BY Zenon DEF Replan, SavedPlan, Replaces, u, Write
<1>3. ASSUME NEW text, Write(text)
      PROVE  Records(slot, text) /\ Replaces
  BY <1>3, Zenon DEF Write, Records, Typed
<1>4. CASE GiveUp(i, op[i]) /\ UNCHANGED <<planFile, replaced>> /\ (UNCHANGED harm \/ Harm("vss"))
  BY <1>1, <1>4, GiveUpEffect, HarmGrows DEF Quiet, DisksStay
<1>5. CASE /\ GiveUp(i, op[i]) /\ Harm("plan")
           /\ \E left \in {NoPlan, planFile[slot]} : Write(left)
  BY <1>1, <1>3, <1>5, GiveUpEffect, HarmGrows DEF Quiet, DisksStay
<1>6. CASE plan # NoPlan /\ Write(plan) /\ op' = [op EXCEPT ![i] = u] /\ UNCHANGED <<app, harm>>
  <2>1. /\ Touches(i, {"plan", "shrunk", "pc"})
        /\ op'[i].pc = IF plan.shrink # 0 THEN "shrink" ELSE "access"
        /\ op'[i].plan = plan /\ op'[i].shrunk = (plan.shrink # 0)
    BY <1>6, OpAt, FieldNames, Zenon DEF Touches, u
  <2>2. Touches(i, {"plan", "shrunk"} \cup {"pc"})
    BY <2>1 DEF Touches
  <2>3. GoesOn(i, {"plan", "shrunk"}, IF plan.shrink # 0 THEN "shrink" ELSE "access")
    BY <1>6, <2>1, <2>2, Zenon DEF GoesOn, app
  <2>4. Quiet /\ DisksStay
    BY <1>1, <1>6 DEF Quiet, DisksStay, app
  <2> QED
    BY <1>1, <1>3, <1>6, <2>1, <2>3, <2>4, Zenon
<1> QED
  BY <1>2, <1>4, <1>5, <1>6

(* The size Windows reduces a partition to, when it does.                  *)
Reached(plan, size) == size = plan.to \/ (size \in Near(plan) /\ "resize" \in harm')

LEMMA ShrinkEffect ==
  ASSUME Typed, NEW i \in Ops, Shrink(i), NEW slot, slot = op[i].tgt.slot,
         NEW plan, plan = op[i].plan
  PROVE  /\ op[i].pc = "shrink" /\ Quiet /\ DisksStay /\ UNCHANGED replaced
         /\ \/ /\ GoesOn(i, {}, "access") /\ Records(slot, plan)
               /\ \E p \in layout.parts : p.num = plan.shrink /\ p.min <= plan.to
               /\ \E size : layout' = Resized(plan.shrink, size) /\ Reached(plan, size)
            \/ /\ GoesOn(i, {}, "unshrink") /\ UNCHANGED <<planFile, layout>>
            \/ /\ GoesOn(i, {}, "unshrink") /\ UNCHANGED layout
               /\ \E left \in {NoPlan, plan} : Records(slot, left)
            \/ /\ GoesOn(i, {}, "unshrink") /\ UNCHANGED planFile /\ "resize" \in harm'
               /\ layout' \in {layout, Resized(plan.shrink, plan.to),
                               Resized(plan.shrink, plan.from - 1)}
<1> DEFINE possible == \E p \in layout.parts : p.num = plan.shrink /\ p.min <= plan.to
           Write(text) == planFile' = [planFile EXCEPT ![slot] = text]
           Fails == Goto(i, "unshrink")
<1>1. op[i].pc = "shrink" /\ UNCHANGED <<app, ui, attached, shadows, history>>
  BY DEF Shrink
<1> HIDE DEF possible, Write, Fails
<1>2. \/ /\ possible /\ layout' = Resized(plan.shrink, plan.to)
         /\ Goto(i, "access") /\ Write(plan) /\ UNCHANGED harm
      \/ /\ Harm("resize") /\ possible /\ Goto(i, "access") /\ Write(plan)
         /\ \E size \in Near(plan) : layout' = Resized(plan.shrink, size)
      \/ Fails /\ UNCHANGED <<planFile, layout, harm>>
      \/ Harm("plan") /\ Fails /\ UNCHANGED layout /\ \E left \in {NoPlan, plan} : Write(left)
      \/ /\ Harm("resize") /\ Fails /\ UNCHANGED planFile
         /\ layout' \in {layout, Resized(plan.shrink, plan.to),
                         Resized(plan.shrink, plan.from - 1)}
  BY Zenon DEF Shrink, SavedPlan, possible, Write, Fails, Goto
<1>3. ASSUME NEW text, Write(text)
      PROVE  Records(slot, text)
  BY <1>3, Zenon DEF Write, Records, Typed
<1>4. ASSUME NEW label, Goto(i, label)
      PROVE  GoesOn(i, {}, label)
  <2>1. Touches(i, {} \cup {"pc"})
    BY <1>4, GotoEffect DEF Touches
  <2> QED
    BY <1>1, <1>4, <2>1, GotoEffect DEF GoesOn, app
<1>5. /\ UNCHANGED <<running, listed, latest, ui, made, agreed, tangled, slipped, replaced,
                     attached, shadows>>
  BY <1>1 DEF app, history
<1> QED
  BY <1>1, <1>2, <1>3, <1>4, <1>5, HarmGrows DEF Quiet, DisksStay, possible, Fails, Reached

(* restoreSmartShrink: the size is given back, or it fails.                *)
Returns(o) ==
  \/ ~o.shrunk /\ UNCHANGED layout
  \/ o.shrunk /\ layout' = Resized(o.plan.shrink, o.plan.from)
  \/ o.shrunk /\ UNCHANGED layout /\ "restore" \in harm'

LEMMA ReturnsEffect ==
  ASSUME NEW o, RestoreShrink(o)
  PROVE  Returns(o) /\ \A fault \in harm : fault \in harm'
BY HarmGrows DEF RestoreShrink, Returns

LEMMA UnshrinkEffect ==
  ASSUME Typed, NEW i \in Ops, Unshrink(i)
  PROVE  /\ op[i].pc = "unshrink" /\ Quiet /\ DisksStay /\ UNCHANGED <<planFile, replaced>>
         /\ GivesUp(i, {"shrunk"}) /\ op'[i].shrunk = FALSE /\ Returns(op[i])
<1>1. /\ op[i].pc = "unshrink" /\ RestoreShrink(op[i]) /\ GiveUp(i, [op[i] EXCEPT !.shrunk = FALSE])
      /\ UNCHANGED <<ui, attached, shadows, planFile, history>>
  BY Zenon DEF Unshrink
<1>2. GivesUp(i, {"shrunk"}) /\ op'[i].shrunk = FALSE /\ UNCHANGED <<listed, latest>>
  BY <1>1, OpAt, FieldNames, Zenon DEF Touches, GiveUp, GivesUp
<1>3. Returns(op[i]) /\ \A fault \in harm : fault \in harm'
  BY <1>1, ReturnsEffect
<1>4. UNCHANGED <<ui, made, agreed, tangled, slipped, replaced>>
  BY <1>1 DEF history
<1> QED
  BY <1>1, <1>2, <1>3, <1>4 DEF Quiet, DisksStay

LEMMA AccessEffect ==
  ASSUME Typed, NEW i \in Ops, Access(i)
  PROVE  /\ op[i].pc = "access" /\ Quiet /\ DisksStay /\ SourceStays /\ UNCHANGED harm
         /\ \/ /\ GoesOn(i, {"src", "tgt", "todo"}, "lock") /\ Revalidated(op[i])
               /\ op'[i].src = attached[op[i].src.slot]
               /\ op'[i].tgt = attached[op[i].tgt.slot]
               /\ op'[i].todo = ToLock(op[i])
            \/ GivesUp(i, {})
<1> DEFINE u == [op[i] EXCEPT !.src = attached[op[i].src.slot], !.tgt = attached[op[i].tgt.slot],
                              !.todo = ToLock(op[i]), !.pc = "lock"]
<1>1. op[i].pc = "access" /\ UNCHANGED <<ui, machine, history, harm>>
  BY DEF Access
<1>2. CASE Revalidated(op[i]) /\ op' = [op EXCEPT ![i] = u] /\ UNCHANGED app
  <2>1. /\ Touches(i, {"src", "tgt", "todo", "pc"}) /\ op'[i].pc = "lock"
        /\ op'[i].src = attached[op[i].src.slot]
        /\ op'[i].tgt = attached[op[i].tgt.slot]
        /\ op'[i].todo = ToLock(op[i])
    BY <1>2, OpAt, FieldNames, Zenon DEF Touches
  <2> HIDE DEF u
  <2>2. Touches(i, {"src", "tgt", "todo"} \cup {"pc"})
    BY <2>1 DEF Touches
  <2> QED
    BY <1>1, <1>2, <2>1, <2>2 DEF GoesOn, Quiet, DisksStay, SourceStays, app, machine, history
<1>3. CASE GiveUp(i, op[i])
  BY <1>1, <1>3, GiveUpEffect DEF Quiet, DisksStay, SourceStays, machine, history
<1> QED
  BY <1>2, <1>3 DEF Access

LEMMA LockEffect ==
  ASSUME Typed, NEW i \in Ops, Lock(i)
  PROVE  /\ op[i].pc = "lock" /\ op[i].todo # <<>>
         /\ Quiet /\ DisksStay /\ SourceStays
         /\ \/ /\ GoesOn(i, {"todo", "locked"}, "lock")
               /\ op'[i].todo = Tail(op[i].todo)
               /\ op'[i].locked = op[i].locked \cup {Head(op[i].todo)}
            \/ /\ GivesUp(i, {"todo", "locked", "open"})
               /\ op'[i].todo = <<>> /\ op'[i].locked = {} /\ op'[i].open = NoDisk
<1>1. op[i].pc = "lock" /\ op[i].todo # <<>> /\ UNCHANGED <<ui, machine, history>>
  BY DEF Lock
<1>2. CASE /\ op' = [op EXCEPT ![i].todo = Tail(@), ![i].locked = @ \cup {Head(op[i].todo)}]
           /\ UNCHANGED <<app, harm>>
  <2>1. /\ Touches(i, {"todo", "locked"}) /\ op'[i].pc = op[i].pc
        /\ op'[i].todo = Tail(op[i].todo)
        /\ op'[i].locked = op[i].locked \cup {Head(op[i].todo)}
    BY <1>2, OpAt, FieldNames, Zenon DEF Touches
  <2>2. Touches(i, {"todo", "locked"} \cup {"pc"})
    BY <2>1 DEF Touches
  <2>3. UNCHANGED <<app, harm>>
    BY <1>2
  <2> QED
    BY <1>1, <2>1, <2>2, <2>3 DEF GoesOn, Quiet, DisksStay, SourceStays, app, machine, history
<1>3. CASE GiveUp(i, Closed(op[i])) /\ (UNCHANGED harm \/ Harm("lock"))
  BY <1>1, <1>3, GiveUpClosed, HarmGrows DEF Quiet, DisksStay, SourceStays, machine, history
<1> QED
  BY <1>2, <1>3, Zenon DEF Lock

LEMMA OpenEffect ==
  ASSUME Typed, NEW i \in Ops, Open(i)
  PROVE  /\ op[i].pc = "lock" /\ op[i].todo = <<>>
         /\ Quiet /\ DisksStay /\ SourceStays
         /\ \/ /\ GoesOn(i, {"reads", "open"}, IF LiveVSS(op[i].mode) THEN "snapshots" ELSE "copy")
               /\ op'[i].open = attached[op[i].tgt.slot] /\ op'[i].reads = attached[op[i].src.slot]
            \/ /\ GivesUp(i, {"todo", "locked", "open"})
               /\ op'[i].todo = <<>> /\ op'[i].locked = {} /\ op'[i].open = NoDisk
<1>1. op[i].pc = "lock" /\ op[i].todo = <<>> /\ UNCHANGED <<ui, machine, history>>
  BY DEF Open
<1> DEFINE next == IF LiveVSS(op[i].mode) THEN "snapshots" ELSE "copy"
<1>2. CASE /\ op' = [op EXCEPT ![i].reads = attached[op[i].src.slot],
                               ![i].open = attached[op[i].tgt.slot], ![i].pc = next]
           /\ UNCHANGED <<app, harm>>
  <2> HIDE DEF next
  <2>1. /\ Touches(i, {"reads", "open", "pc"}) /\ op'[i].pc = next
        /\ op'[i].open = attached[op[i].tgt.slot] /\ op'[i].reads = attached[op[i].src.slot]
    BY <1>2, OpAt, FieldNames, Zenon DEF Touches
  <2>2. Touches(i, {"reads", "open"} \cup {"pc"})
    BY <2>1 DEF Touches
  <2>3. UNCHANGED <<app, harm>>
    BY <1>2
  <2>4. GoesOn(i, {"reads", "open"}, next)
    BY <2>1, <2>2, <2>3 DEF GoesOn, app
  <2> USE DEF next
  <2> QED
    BY <1>1, <2>1, <2>3, <2>4 DEF Quiet, DisksStay, SourceStays, app, machine, history
<1>3. CASE GiveUp(i, Closed(op[i])) /\ Harm("lock")
  BY <1>1, <1>3, GiveUpClosed, HarmGrows DEF Quiet, DisksStay, SourceStays, machine, history
<1> QED
  BY <1>2, <1>3, Zenon DEF Open

LEMMA CreateSnapshotsEffect ==
  ASSUME Typed, NEW i \in Ops, CreateSnapshots(i)
  PROVE  /\ op[i].pc = "snapshots" /\ Quiet /\ SourceStays /\ UNCHANGED attached
         /\ \A s \in shadows' : s \in shadows \/ s \in Exposed(i)
         /\ \/ /\ GoesOn(i, {"ranges"}, "openSnapshots")
               /\ op'[i].ranges = Extents(op[i].src.letters)
            \/ GivesUp(i, {}) /\ "vss" \in harm'
<1>1. /\ op[i].pc = "snapshots"
      /\ UNCHANGED <<ui, attached, layout, planFile, made, agreed, tangled, slipped, replaced>>
  BY DEF CreateSnapshots, history
<1>2. CASE /\ shadows' = shadows \cup Exposed(i)
           /\ op' = [op EXCEPT ![i].ranges = Extents(op[i].src.letters), ![i].pc = "openSnapshots"]
           /\ UNCHANGED <<app, harm>>
  <2>1. /\ Touches(i, {"ranges", "pc"}) /\ op'[i].pc = "openSnapshots"
        /\ op'[i].ranges = Extents(op[i].src.letters)
    BY <1>2, OpAt, FieldNames, Zenon DEF Touches
  <2>2. Touches(i, {"ranges"} \cup {"pc"})
    BY <2>1 DEF Touches
  <2>3. UNCHANGED <<app, harm>> /\ shadows' = shadows \cup Exposed(i)
    BY <1>2
  <2> QED
    BY <1>1, <2>1, <2>2, <2>3 DEF GoesOn, Quiet, SourceStays, app
<1>3. CASE /\ Harm("vss") /\ GiveUp(i, op[i])
           /\ \E some \in SUBSET Exposed(i) : shadows' = shadows \cup some
  BY <1>1, <1>3, GiveUpEffect, HarmGrows DEF Quiet, SourceStays
<1> QED
  BY <1>2, <1>3, Zenon DEF CreateSnapshots

LEMMA OpenSnapshotsEffect ==
  ASSUME Typed, NEW i \in Ops, OpenSnapshots(i)
  PROVE  /\ op[i].pc = "openSnapshots" /\ Quiet /\ SourceStays /\ UNCHANGED attached
         /\ \A s \in shadows' : s \in shadows
         /\ \/ GoesOn(i, {}, "copy")
            \/ GivesUp(i, {"ranges"}) /\ "vss" \in harm'
<1>1. /\ op[i].pc = "openSnapshots"
      /\ UNCHANGED <<ui, attached, layout, planFile, made, agreed, tangled, slipped, replaced>>
  BY DEF OpenSnapshots, history
<1>2. CASE Goto(i, "copy") /\ UNCHANGED <<app, shadows, harm>>
  <2>1. Touches(i, {} \cup {"pc"}) /\ op'[i].pc = "copy"
    BY <1>2, GotoEffect DEF Touches
  <2> QED
    BY <1>1, <1>2, <2>1 DEF GoesOn, Quiet, SourceStays, app
<1>3. CASE /\ Harm("vss") /\ GiveUp(i, [op[i] EXCEPT !.ranges = <<>>])
           /\ shadows' = {s \in shadows : s[1] # i}
  <2>1. GivesUp(i, {"ranges"}) /\ UNCHANGED <<listed, latest>>
    BY <1>3, OpAt, FieldNames, Zenon DEF Touches, GiveUp, GivesUp
  <2>2. Harm("vss") /\ shadows' = {s \in shadows : s[1] # i}
    BY <1>3
  <2> QED
    BY <1>1, <2>1, <2>2, HarmGrows DEF Quiet, SourceStays
<1> QED
  BY <1>2, <1>3, Zenon DEF OpenSnapshots

LEMMA CopyEffect ==
  ASSUME Typed, NEW i \in Ops, Copy(i)
  PROVE  /\ op[i].pc = "copy" /\ Quiet /\ DisksStay /\ SourceStays
         /\ \/ GoesOn(i, {"copied", "table"}, "copy")
            \/ GoesOn(i, {"outcome"}, "close")
            \/ GoesOn(i, {"panicked"}, "cleanup") /\ op'[i].panicked = TRUE
<1>1. op[i].pc = "copy" /\ UNCHANGED <<app, ui, machine, history>> /\ (UNCHANGED harm \/ \E f \in FaultKinds : Harm(f))
  BY Zenon DEF Copy, CopyChunk, CopyEnds, Adapt, FaultKinds
<1>2. ASSUME NEW F, NEW label, Touches(i, F \cup {"pc"}), op'[i].pc = label
      PROVE  GoesOn(i, F, label)
  BY <1>1, <1>2 DEF GoesOn, app
<1>3. Quiet /\ DisksStay /\ SourceStays
  BY <1>1, HarmGrows DEF Quiet, DisksStay, SourceStays, app, machine, history
<1>4. ASSUME NEW x, NEW t, op' = [op EXCEPT ![i] = [op[i] EXCEPT !.copied = x, !.table = t]]
      PROVE  GoesOn(i, {"copied", "table"}, "copy")
  <2>1. Touches(i, {"copied", "table"}) /\ op'[i].pc = op[i].pc
    BY <1>4, OpAt, FieldNames, Zenon DEF Touches
  <2>2. Touches(i, {"copied", "table"} \cup {"pc"})
    BY <2>1 DEF Touches
  <2> QED
    BY <1>1, <1>2, <2>1, <2>2
<1>5. ASSUME NEW x, op' = [op EXCEPT ![i] = [op[i] EXCEPT !.outcome = x, !.pc = "close"]]
      PROVE  GoesOn(i, {"outcome"}, "close")
  <2>1. Touches(i, {"outcome", "pc"}) /\ op'[i].pc = "close"
    BY <1>5, OpAt, FieldNames, Zenon DEF Touches
  <2>2. Touches(i, {"outcome"} \cup {"pc"})
    BY <2>1 DEF Touches
  <2> QED
    BY <1>2, <2>1, <2>2
<1>6. ASSUME op' = [op EXCEPT ![i].panicked = TRUE, ![i].pc = "cleanup"]
      PROVE  GoesOn(i, {"panicked"}, "cleanup") /\ op'[i].panicked = TRUE
  <2>1. Touches(i, {"panicked", "pc"}) /\ op'[i].pc = "cleanup" /\ op'[i].panicked = TRUE
    BY <1>6, OpAt, FieldNames, Zenon DEF Touches
  <2>2. Touches(i, {"panicked"} \cup {"pc"})
    BY <2>1 DEF Touches
  <2> QED
    BY <1>2, <2>1, <2>2
<1>7. CASE CopyChunk(i)
  <2>1. \/ op' = [op EXCEPT ![i] = [op[i] EXCEPT !.copied = op[i].copied \o NextChunk(op[i]),
                               !.table = IF op[i].copied = <<>> THEN TableRead(op[i]) ELSE op[i].table]]
        \/ op' = [op EXCEPT ![i] = [op[i] EXCEPT !.outcome = "failed", !.pc = "close"]]
    BY <1>7, Zenon DEF CopyChunk
  <2> QED
    BY <1>3, <1>1, <1>4, <1>5, <2>1
<1>8. CASE CopyEnds(i) \/ Adapt(i)
  <2>1. \/ \E x : op' = [op EXCEPT ![i] = [op[i] EXCEPT !.outcome = x, !.pc = "close"]]
        \/ op' = [op EXCEPT ![i].panicked = TRUE, ![i].pc = "cleanup"]
    BY <1>8, ZenonT(60) DEF CopyEnds, Adapt
  <2> QED
    BY <1>3, <1>1, <1>5, <1>6, <2>1
<1> QED
  BY <1>7, <1>8 DEF Copy

LEMMA CloseEffect ==
  ASSUME NEW i \in Ops, CloseSnapshots(i)
  PROVE  /\ \A fault \in harm : fault \in harm'
         /\ \A s \in shadows' : s \in shadows /\ (s[1] # i \/ op[i].ranges = <<>> \/ "vss" \in harm')
BY HarmGrows DEF CloseSnapshots

LEMMA ReleaseEffect ==
  ASSUME Typed, NEW i \in Ops, NEW from, NEW to,
         \/ Release(i) /\ from = "close" /\ to = "restore"
         \/ Cleanup(i) /\ from = "cleanup" /\ to = "cleanupRestore"
  PROVE  /\ op[i].pc = from /\ Quiet /\ SourceStays /\ UNCHANGED attached
         /\ GoesOn(i, {"todo", "locked", "open"}, to)
         /\ op'[i].todo = <<>> /\ op'[i].locked = {} /\ op'[i].open = NoDisk
         /\ \A s \in shadows' : s \in shadows /\ (s[1] # i \/ op[i].ranges = <<>> \/ "vss" \in harm')
<1>1. /\ op[i].pc = from /\ CloseSnapshots(i)
      /\ op' = [op EXCEPT ![i] = [Closed(op[i]) EXCEPT !.pc = to]]
      /\ UNCHANGED <<app, ui, attached, layout, planFile, history>>
  BY Zenon DEF Release, Cleanup
<1>2. /\ Touches(i, {"todo", "locked", "open", "pc"}) /\ op'[i].pc = to
  BY <1>1, OpAt, FieldNames, Zenon DEF Touches, Closed
<1>3. op'[i].todo = <<>> /\ op'[i].locked = {} /\ op'[i].open = NoDisk
  BY <1>1, OpAt, FieldNames, Zenon DEF Closed
<1>4. Touches(i, {"todo", "locked", "open"} \cup {"pc"})
  BY <1>2 DEF Touches
<1>5. UNCHANGED <<app, ui, attached, layout, planFile, history>>
  BY <1>1
<1>6. CloseSnapshots(i)
  BY <1>1
<1> QED
  BY <1>1, <1>2, <1>3, <1>4, <1>5, <1>6, CloseEffect DEF GoesOn, Quiet, SourceStays, app, history

(* Letters may go, nothing else of a disk does.                            *)
Relettered ==
  /\ attached' = [s \in Slots |-> attached'[s]]
  /\ \A s \in Slots : /\ attached'[s] \in Disk /\ attached'[s].slot = attached[s].slot
                     /\ attached'[s].id = attached[s].id
                     /\ attached'[s].system = attached[s].system

LEMMA RelettersDisk ==
  ASSUME NEW d \in Disk, NEW e, e = [d EXCEPT !.letters = <<>>]
  PROVE  e \in Disk /\ e.slot = d.slot /\ e.id = d.id /\ e.system = d.system
<1>1. /\ e = [slot |-> d.slot, id |-> d.id, size |-> d.size, sector |-> d.sector, known |-> d.known,
              verified |-> d.verified, system |-> d.system, readonly |-> d.readonly,
              letters |-> <<>>]
  BY Zenon DEF Disk
<1>2. <<>> \in Seq(STRING)
  OBVIOUS
<1>3. /\ d.slot \in STRING /\ d.id \in STRING /\ d.size \in Nat /\ d.sector \in Nat
      /\ d.known \in BOOLEAN /\ d.verified \in BOOLEAN /\ d.system \in BOOLEAN
      /\ d.readonly \in BOOLEAN
  BY Zenon DEF Disk
<1>4. e \in Disk
  BY <1>1, <1>2, <1>3, Zenon DEF Disk
<1>5. e.slot = d.slot /\ e.id = d.id /\ e.system = d.system
  BY <1>1, Zenon
<1> QED
  BY <1>4, <1>5

LEMMA RestoreEffect ==
  ASSUME Typed, DisksKnown, NEW i \in Ops, Restore(i)
  PROVE  /\ op[i].pc = "restore" /\ Quiet /\ UNCHANGED <<shadows, planFile, replaced>>
         /\ GoesOn(i, {"shrunk", "restoreErr"}, "finish") /\ op'[i].shrunk = FALSE
         /\ Returns(op[i]) /\ Relettered
<1>1. /\ op[i].pc = "restore" /\ RestoreShrink(op[i])
      /\ UNCHANGED <<app, ui, shadows, planFile, history>>
  BY DEF Restore
<1>2. /\ Touches(i, {"shrunk", "restoreErr", "pc"}) /\ op'[i].pc = "finish"
      /\ op'[i].shrunk = FALSE
  BY OpAt, FieldNames, Zenon DEF Restore, Touches
<1>3. Touches(i, {"shrunk", "restoreErr"} \cup {"pc"})
  BY <1>2 DEF Touches
<1>4. Relettered
  <2>1. CASE attached' = attached
    BY <2>1 DEF Relettered, DisksKnown, Typed
  <2>2. CASE attached' = [attached EXCEPT ![op[i].tgt.slot].letters = <<>>]
    <3> DEFINE t == op[i].tgt.slot
               e == [attached[t] EXCEPT !.letters = <<>>]
    <3>1. attached' = [s \in Slots |-> IF s = t THEN e ELSE attached[s]]
      BY <2>2, Zenon DEF Typed
    <3>2. t \in Slots => e \in Disk /\ e.slot = attached[t].slot /\ e.id = attached[t].id
                        /\ e.system = attached[t].system
      BY RelettersDisk DEF DisksKnown
    <3> HIDE DEF e, t
    <3> QED
      BY <3>1, <3>2 DEF Relettered, DisksKnown
  <2> QED
    BY <2>1, <2>2 DEF Restore
<1>5. /\ UNCHANGED <<running, listed, latest, ui, made, agreed, tangled, slipped, replaced,
                     shadows, planFile>>
  BY <1>1 DEF app, history
<1> QED
  BY <1>1, <1>2, <1>3, <1>4, <1>5, ReturnsEffect DEF GoesOn, Quiet

LEMMA CleanupRestoreEffect ==
  ASSUME Typed, NEW i \in Ops, CleanupRestore(i)
  PROVE  /\ op[i].pc = "cleanupRestore" /\ Quiet /\ DisksStay /\ UNCHANGED <<planFile, replaced>>
         /\ Touches(i, {"pc", "shrunk"}) /\ op'[i].pc = "ended" /\ op'[i].shrunk = FALSE
         /\ running' = (running /\ ~op[i].panicked) /\ Returns(op[i])
<1>1. /\ op[i].pc = "cleanupRestore" /\ RestoreShrink(op[i])
      /\ running' = (running /\ ~op[i].panicked)
      /\ UNCHANGED <<listed, latest, ui, attached, shadows, planFile, history>>
  BY DEF CleanupRestore
<1>2. /\ Touches(i, {"pc", "shrunk"}) /\ op'[i].pc = "ended" /\ op'[i].shrunk = FALSE
  BY OpAt, FieldNames, Zenon DEF CleanupRestore, Touches
<1>3. Returns(op[i]) /\ \A fault \in harm : fault \in harm'
  BY <1>1, ReturnsEffect
<1>4. UNCHANGED <<made, agreed, tangled, slipped, replaced>>
  BY <1>1 DEF history
<1> QED
  BY <1>1, <1>2, <1>3, <1>4 DEF Quiet, DisksStay

LEMMA EndEffect ==
  ASSUME Typed, NEW i \in Ops, Finish(i) \/ RunRecovery(i)
  PROVE  /\ op[i].pc \in {"finish", "recover"} /\ Quiet /\ DisksStay /\ SourceStays
         /\ Touches(i, {"pc"}) /\ op'[i].pc = "ended" /\ running' = FALSE
<1>1. /\ op[i].pc \in {"finish", "recover"} /\ Goto(i, "ended") /\ running' = FALSE
      /\ UNCHANGED <<listed, latest, ui, machine, history, harm>>
  BY DEF Finish, RunRecovery
<1> QED
  BY <1>1, GotoEffect DEF Quiet, DisksStay, SourceStays, machine, history

LEMMA ConfirmEffect ==
  ASSUME Typed, DisksKnown, Unused # {}, Confirm
  PROVE  \E i \in Unused :
           /\ ui # NoDialog /\ ui' = NoDialog /\ running' = TRUE /\ latest' = i
           /\ Touches(i, Fields)
           /\ op'[i].pc = IF ui.mode = "recovery" THEN "recover" ELSE "revalidate"
           /\ op'[i].mode = ui.mode /\ op'[i].src = ui.src /\ op'[i].tgt = ui.tgt
           /\ op'[i].shrunk = FALSE /\ op'[i].todo = <<>> /\ op'[i].locked = {}
           /\ op'[i].open = NoDisk /\ op'[i].panicked = FALSE /\ op'[i].copied = <<>>
           /\ op'[i].plan = ui.plan /\ op'[i].ranges = <<>> /\ op'[i].outcome = "none"
           /\ agreed' = IF ui.mode = "recovery" THEN agreed ELSE agreed \cup {ui.tgt.id}
           /\ tangled' = (tangled \/ Live # {})
           /\ DisksStay /\ SourceStays /\ UNCHANGED <<listed, made, slipped, harm>>
<1> DEFINE label == IF ui.mode = "recovery" THEN "recover" ELSE "revalidate"
           u == [NoOp EXCEPT !.pc = label, !.mode = ui.mode, !.src = ui.src,
                             !.tgt = ui.tgt, !.plan = ui.plan]
           i == CHOOSE j \in Unused : \A k \in Unused : j <= k
<1>1. i \in Unused
  <2>1. Unused \subseteq Nat
    BY OperationAssumption DEF Unused, Ops
  <2> QED
    BY <2>1, LeastOf
<1>2. /\ ui # NoDialog /\ ui' = NoDialog /\ running' = TRUE /\ latest' = i
      /\ op' = [op EXCEPT ![i] = u]
      /\ agreed' = IF ui.mode = "recovery" THEN agreed ELSE agreed \cup {ui.tgt.id}
      /\ tangled' = (tangled \/ Live # {})
      /\ UNCHANGED <<listed, machine, made, slipped, replaced, harm>>
  BY Zenon DEF Confirm
<1>3. i \in Ops
  BY <1>1 DEF Unused
<1> HIDE DEF i
<1>4. DOMAIN u = Fields
  BY Zenon DEF Fields
<1>5. /\ u.pc = label /\ u.mode = ui.mode /\ u.src = ui.src /\ u.tgt = ui.tgt
      /\ u.shrunk = FALSE /\ u.todo = <<>> /\ u.locked = {} /\ u.open = NoDisk
      /\ u.panicked = FALSE /\ u.copied = <<>>
      /\ u.plan = ui.plan /\ u.ranges = <<>> /\ u.outcome = "none"
  BY Zenon DEF NoOp
<1> HIDE DEF u
<1>6. op'[i] = u /\ Touches(i, Fields)
  <2>1. /\ op' = [j \in Ops |-> op'[j]] /\ \A j \in Ops \ {i} : op'[j] = op[j] /\ op'[i] = u
    BY <1>2, <1>3, OpAt, Zenon
  <2> QED
    BY <2>1, <1>3, <1>2, <1>4, OpAt, Zenon DEF Touches
<1> QED
  BY <1>1, <1>2, <1>5, <1>6 DEF DisksStay, SourceStays, machine

LEMMA CancelEffect ==
  ASSUME Typed, Cancel
  PROVE  /\ latest \in Ops /\ Touches(latest, {"cancelled"}) /\ UNCHANGED running
         /\ Quiet /\ DisksStay /\ SourceStays
<1>1. /\ latest \in Live /\ Harm("cancel")
      /\ op' = [op EXCEPT ![latest].cancelled = TRUE]
      /\ UNCHANGED <<app, ui, machine, history>>
  BY DEF Cancel
<1>2. latest \in Ops
  BY <1>1 DEF Live
<1>3. Touches(latest, {"cancelled"})
  BY <1>1, <1>2, OpAt, FieldNames, Zenon DEF Touches
<1>4. Harm("cancel") /\ UNCHANGED <<app, ui, machine, history>>
  BY <1>1
<1> QED
  BY <1>2, <1>3, <1>4, HarmGrows DEF Quiet, DisksStay, SourceStays, app, machine, history

LEMMA QuitEffect ==
  ASSUME Typed, Quit
  PROVE  /\ ui = NoDialog /\ ui' = NoDialog /\ running' = FALSE /\ "quit" \in harm'
         /\ \A fault \in harm : fault \in harm'
         /\ listed' = [slot \in Slots |-> NoDisk]
         /\ op' = [i \in Ops |-> op'[i]]
         /\ \A i \in Ops :
              /\ DOMAIN op'[i] = Fields /\ op'[i].pc = IF op[i].pc = "none" THEN "none" ELSE "ended"
              /\ op'[i].shrunk = FALSE /\ op'[i].todo = <<>> /\ op'[i].locked = {}
              /\ op'[i].open = NoDisk /\ op'[i].copied = <<>> /\ op'[i].panicked = FALSE
              /\ op'[i].mode = "none" /\ op'[i].src = NoDisk /\ op'[i].ranges = <<>>
              /\ op'[i].outcome = "none"
         /\ DisksStay /\ SourceStays /\ UNCHANGED <<latest, made, agreed, tangled, slipped>>
<1>1. /\ ui = NoDialog /\ Harm("quit") /\ running' = FALSE
      /\ op' = [i \in Ops |-> IF op[i].pc = "none" THEN NoOp ELSE [NoOp EXCEPT !.pc = "ended"]]
      /\ listed' = [slot \in Slots |-> NoDisk]
      /\ UNCHANGED <<latest, ui, machine, history>>
  BY Zenon DEF Quit, Slots
<1>2. ASSUME NEW i \in Ops
      PROVE  /\ DOMAIN op'[i] = Fields
             /\ op'[i].pc = IF op[i].pc = "none" THEN "none" ELSE "ended"
             /\ op'[i].shrunk = FALSE /\ op'[i].todo = <<>> /\ op'[i].locked = {}
             /\ op'[i].open = NoDisk /\ op'[i].copied = <<>> /\ op'[i].panicked = FALSE
             /\ op'[i].mode = "none" /\ op'[i].src = NoDisk /\ op'[i].ranges = <<>>
             /\ op'[i].outcome = "none"
  <2>1. op'[i] = IF op[i].pc = "none" THEN NoOp ELSE [NoOp EXCEPT !.pc = "ended"]
    BY <1>1, Zenon
  <2>2. CASE op[i].pc = "none"
    <3>1. op'[i] = NoOp
      BY <2>1, <2>2
    <3>2. /\ op'[i].pc = "none" /\ op'[i].shrunk = FALSE /\ op'[i].todo = <<>>
          /\ op'[i].locked = {} /\ op'[i].open = NoDisk /\ op'[i].copied = <<>> /\ op'[i].panicked = FALSE
          /\ op'[i].mode = "none" /\ op'[i].src = NoDisk /\ op'[i].ranges = <<>>
          /\ op'[i].outcome = "none"
      BY <3>1 DEF NoOp
    <3>3. DOMAIN op'[i] = Fields
      BY <3>1 DEF Fields
    <3> QED
      BY <2>2, <3>2, <3>3
  <2>3. CASE op[i].pc # "none"
    <3>1. op'[i] = [NoOp EXCEPT !.pc = "ended"]
      BY <2>1, <2>3
    <3> QED
      BY <3>1, <2>3, ZenonT(60) DEF NoOp, Fields
  <2> QED
    BY <2>2, <2>3
<1>3. op' = [i \in Ops |-> op'[i]]
  BY <1>1, Zenon
<1>4. /\ ui = NoDialog /\ Harm("quit") /\ running' = FALSE
      /\ listed' = [slot \in Slots |-> NoDisk]
      /\ UNCHANGED <<latest, ui, machine, history>>
  BY <1>1
<1> QED
  BY <1>2, <1>3, <1>4, HarmGrows DEF DisksStay, SourceStays, machine, history

-----------------------------------------------------------------------------
(* One operation is at work.                                               *)

(* What a step of an operation means for who is at work.                   *)
Moves(i) ==
  /\ op' = [j \in Ops |-> op'[j]] /\ \A j \in Ops \ {i} : op'[j] = op[j]
  /\ IsOperation(op'[i]) /\ op[i].pc \notin Idle /\ op'[i].pc # "none"
  /\ op'[i].pc \notin NoTarget => Chosen(op'[i])
  /\ op'[i].panicked => op'[i].pc \in Closing \cup {"ended"}
  /\ \/ UNCHANGED running /\ Working(i) /\ Working(i)'
     \/ running' = FALSE /\ Working(i) /\ ~Working(i)'
     \/ UNCHANGED running /\ ~Working(i) /\ ~Working(i)'
  /\ UNCHANGED <<latest, listed, ui, tangled>>
  /\ planFile' = [s \in Slots |-> planFile'[s]]

LEMMA VolumesSeq ==
  ASSUME NEW d \in Disk
  PROVE  Volumes(d) \in Seq(Volume)
<1> DEFINE n == Len(d.letters)
           At(k) == [slot |-> d.slot, letter |-> d.letters[k]]
<1>1. d.letters \in Seq(STRING) /\ d.slot \in STRING
  BY Zenon DEF Disk
<1>2. DOMAIN d.letters = 1 .. n /\ n \in Nat /\ \A k \in 1 .. n : d.letters[k] \in STRING
  BY <1>1
<1>3. \A k \in 1 .. n : At(k) \in Volume
  BY <1>1, <1>2 DEF Volume
<1>4. Volumes(d) = [k \in 1 .. n |-> At(k)]
  BY <1>2 DEF Volumes
<1> HIDE DEF n, At
<1> QED
  BY <1>2, <1>3, <1>4

LEMMA ToLockSeq ==
  ASSUME DisksKnown, NEW o, o.src.slot \in Slots, o.tgt.slot \in Slots
  PROVE  ToLock(o) \in Seq(Volume)
<1>1. attached[o.src.slot] \in Disk /\ attached[o.tgt.slot] \in Disk
  BY DEF DisksKnown
<1>2. <<>> \in Seq(Volume)
  OBVIOUS
<1> QED
  BY <1>1, <1>2, VolumesSeq DEF ToLock

LEMMA MoveOf ==
  ASSUME ControlInv, NEW i \in Ops, Goroutine(i)
  PROVE  Moves(i)
<1> USE FieldNames DEF ControlInv
<1>0. /\ Typed /\ IsOperation(op[i])
      /\ op[i].panicked => op[i].pc \in Closing \cup {"ended"}
      /\ op[i].pc \notin NoTarget => Chosen(op[i])
      /\ planFile = [s \in Slots |-> planFile[s]]
  BY DEF Typed, OneAtWork, DisksKnown
<1>1. CASE Revalidate(i) \/ Access(i)
  <2>1. /\ op[i].pc \in {"revalidate", "access"} /\ Quiet /\ SourceStays
        /\ \/ /\ \E F, l : /\ GoesOn(i, F, l) /\ l \in {"replan", "access", "lock"}
                           /\ F \in {{"src", "tgt"}, {"src", "tgt", "todo"}}
              /\ op'[i].src = attached[op[i].src.slot]
              /\ op'[i].tgt = attached[op[i].tgt.slot]
              /\ op'[i].todo \in {op[i].todo, ToLock(op[i])}
           \/ GivesUp(i, {})
    BY <1>0, <1>1, RevalidateEffect, AccessEffect DEF GoesOn, Touches
  <2>2. Chosen(op[i])
    BY <1>0, <2>1 DEF NoTarget, Idle
  <2>3. ToLock(op[i]) \in Seq(Volume)
    BY <2>2, ToLockSeq DEF Chosen, DisksKnown
  <2>4. Working(i)
    BY <2>1 DEF Working, Idle, Closing
  <2>5. attached[op[i].src.slot] \in Disk /\ attached[op[i].src.slot].slot = op[i].src.slot
        /\ attached[op[i].tgt.slot] \in Disk /\ attached[op[i].tgt.slot].slot = op[i].tgt.slot
    BY <2>2 DEF Chosen, DisksKnown
  <2>6. CASE GivesUp(i, {})
    BY <1>0, <2>1, <2>2, <2>4, <2>6 DEF Moves, GivesUp, Touches, IsOperation, Labels, Working, Idle, Closing, NoTarget, Chosen, Quiet, SourceStays
  <2>7. CASE ~GivesUp(i, {})
    BY <1>0, <2>1, <2>2, <2>3, <2>4, <2>5, <2>7 DEF Moves, GoesOn, Touches, IsOperation, Labels, Working, Idle, Closing, NoTarget, Chosen, Quiet, SourceStays
  <2> QED
    BY <2>6, <2>7
<1>2. CASE Replan(i)
  <2> DEFINE plan == BuildPlan(op[i].src, op[i].tgt, layout)
  <2>1. /\ op[i].pc = "replan" /\ Quiet
        /\ planFile' = [s \in Slots |-> planFile'[s]]
        /\ \/ GivesUp(i, {})
           \/ \E l \in {"shrink", "access"} : GoesOn(i, {"plan", "shrunk"}, l)
    BY <1>0, <1>2, ReplanEffect DEF Records
  <2> HIDE DEF plan
  <2>2. Working(i)
    BY <2>1 DEF Working, Idle, Closing
  <2>3. CASE GivesUp(i, {})
    BY <1>0, <2>1, <2>2, <2>3 DEF Moves, GivesUp, Touches, IsOperation, Labels, Working, Idle,
       Closing, NoTarget, Chosen, Quiet
  <2>4. CASE \E l \in {"shrink", "access"} : GoesOn(i, {"plan", "shrunk"}, l)
    BY <1>0, <2>1, <2>2, <2>4 DEF Moves, GoesOn, Touches, IsOperation, Labels, Working, Idle,
       Closing, NoTarget, Chosen, Quiet
  <2> QED
    BY <2>1, <2>3, <2>4
<1>3. CASE Shrink(i) \/ Unshrink(i)
  <2>1. /\ op[i].pc \in {"shrink", "unshrink"} /\ Quiet
        /\ planFile' = [s \in Slots |-> planFile'[s]]
        /\ \/ GivesUp(i, {"shrunk"})
           \/ \E l \in {"unshrink", "access"} : GoesOn(i, {}, l)
    BY <1>0, <1>3, ShrinkEffect, UnshrinkEffect DEF Records, DisksStay, Slots
  <2>2. Working(i)
    BY <2>1 DEF Working, Idle, Closing
  <2>3. CASE GivesUp(i, {"shrunk"})
    BY <1>0, <2>1, <2>2, <2>3 DEF Moves, GivesUp, Touches, IsOperation, Labels, Working, Idle,
       Closing, NoTarget, Chosen, Quiet
  <2>4. CASE \E l \in {"unshrink", "access"} : GoesOn(i, {}, l)
    BY <1>0, <2>1, <2>2, <2>4 DEF Moves, GoesOn, Touches, IsOperation, Labels, Working, Idle,
       Closing, NoTarget, Chosen, Quiet
  <2> QED
    BY <2>1, <2>3, <2>4
<1>4. CASE Lock(i) \/ Open(i)
  <2>1. /\ op[i].pc = "lock" /\ Quiet /\ SourceStays
        /\ \/ /\ GivesUp(i, {"todo", "locked", "open"}) /\ op'[i].todo = <<>>
           \/ /\ \E l \in {"lock", "snapshots", "copy"} : GoesOn(i, {"todo", "locked", "reads", "open"}, l)
              /\ op'[i].todo \in Seq(Volume)
    <3>1. CASE Lock(i)
      <4>1. op[i].todo # <<>> => Tail(op[i].todo) \in Seq(Volume)
        BY <1>0 DEF IsOperation
      <4> QED
        BY <1>0, <3>1, <4>1, LockEffect DEF GoesOn, Touches
    <3>2. CASE Open(i)
      BY <1>0, <3>2, OpenEffect DEF GoesOn, Touches, IsOperation
    <3> QED
      BY <1>4, <3>1, <3>2
  <2>2. Working(i) /\ <<>> \in Seq(Volume)
    BY <2>1 DEF Working, Idle, Closing
  <2>3. CASE GivesUp(i, {"todo", "locked", "open"}) /\ op'[i].todo = <<>>
    BY <1>0, <2>1, <2>2, <2>3 DEF Moves, GivesUp, Touches, IsOperation, Labels, Working, Idle,
       Closing, NoTarget, Chosen, Quiet, SourceStays
  <2>4. CASE /\ \E l \in {"lock", "snapshots", "copy"} : GoesOn(i, {"todo", "locked", "reads", "open"}, l)
             /\ op'[i].todo \in Seq(Volume)
    BY <1>0, <2>1, <2>2, <2>4 DEF Moves, GoesOn, Touches, IsOperation, Labels, Working, Idle,
       Closing, NoTarget, Chosen, Quiet, SourceStays
  <2> QED
    BY <2>1, <2>3, <2>4
<1>5. CASE CreateSnapshots(i) \/ OpenSnapshots(i)
  <2>1. /\ op[i].pc \in {"snapshots", "openSnapshots"} /\ Quiet /\ SourceStays
        /\ \/ GivesUp(i, {"ranges"})
           \/ \E l \in {"openSnapshots", "copy"} : GoesOn(i, {"ranges"}, l)
    BY <1>0, <1>5, CreateSnapshotsEffect, OpenSnapshotsEffect DEF GoesOn, GivesUp, Touches
  <2>2. Working(i)
    BY <2>1 DEF Working, Idle, Closing
  <2>3. CASE GivesUp(i, {"ranges"})
    BY <1>0, <2>1, <2>2, <2>3 DEF Moves, GivesUp, Touches, IsOperation, Labels, Working, Idle,
       Closing, NoTarget, Chosen, Quiet, SourceStays
  <2>4. CASE \E l \in {"openSnapshots", "copy"} : GoesOn(i, {"ranges"}, l)
    BY <1>0, <2>1, <2>2, <2>4 DEF Moves, GoesOn, Touches, IsOperation, Labels, Working, Idle,
       Closing, NoTarget, Chosen, Quiet, SourceStays
  <2> QED
    BY <2>1, <2>3, <2>4
<1>6. CASE Copy(i)
  <2>1. /\ op[i].pc = "copy" /\ Quiet /\ SourceStays
        /\ \/ GoesOn(i, {"copied", "table"}, "copy")
           \/ GoesOn(i, {"outcome"}, "close")
           \/ GoesOn(i, {"panicked"}, "cleanup") /\ op'[i].panicked = TRUE
    BY <1>0, <1>6, CopyEffect
  <2>2. Working(i)
    BY <2>1 DEF Working, Idle, Closing
  <2> QED
    BY <1>0, <2>1, <2>2 DEF Moves, GoesOn, Touches, IsOperation, Labels, Working, Idle,
       Closing, NoTarget, Chosen, Quiet, SourceStays
<1>7. CASE Release(i) \/ Cleanup(i)
  <2>1. /\ Quiet /\ SourceStays /\ op'[i].todo = <<>>
        /\ \/ op[i].pc = "close" /\ GoesOn(i, {"todo", "locked", "open"}, "restore")
           \/ op[i].pc = "cleanup" /\ GoesOn(i, {"todo", "locked", "open"}, "cleanupRestore")
    BY <1>0, <1>7, ReleaseEffect
  <2>2. <<>> \in Seq(Volume)
    OBVIOUS
  <2> QED
    BY <1>0, <2>1, <2>2 DEF Moves, GoesOn, Touches, IsOperation, Labels, Working, Idle,
       Closing, NoTarget, Chosen, Quiet, SourceStays
<1>8. CASE Restore(i)
  <2>1. /\ op[i].pc = "restore" /\ Quiet /\ UNCHANGED planFile
        /\ GoesOn(i, {"shrunk", "restoreErr"}, "finish")
    BY <1>0, <1>8, RestoreEffect
  <2> QED
    BY <1>0, <2>1 DEF Moves, GoesOn, Touches, IsOperation, Labels, Working, Idle,
       Closing, NoTarget, Chosen, Quiet
<1>9. CASE CleanupRestore(i)
  <2>1. /\ op[i].pc = "cleanupRestore" /\ Quiet /\ UNCHANGED planFile
        /\ Touches(i, {"pc", "shrunk"}) /\ op'[i].pc = "ended"
        /\ running' = (running /\ ~op[i].panicked)
    BY <1>0, <1>9, CleanupRestoreEffect
  <2>2. ~Working(i)' /\ (Working(i) <=> op[i].panicked)
    BY <2>1 DEF Working, Idle, Closing
  <2>3. \/ running' = FALSE /\ Working(i)
        \/ UNCHANGED running /\ ~Working(i)
    <3>1. CASE op[i].panicked
      <4>1. running' = FALSE
        BY <2>1, <3>1
      <4> QED
        BY <2>2, <3>1, <4>1
    <3>2. CASE ~op[i].panicked
      <4>1. running' = running
        BY <2>1, <3>2, Zenon DEF OneAtWork
      <4> QED
        BY <2>2, <3>2, <4>1
    <3> QED
      BY <3>1, <3>2
  <2>4. /\ IsOperation(op'[i]) /\ (op'[i].panicked => op'[i].pc \in Closing \cup {"ended"})
        /\ op[i].pc \notin Idle /\ op'[i].pc # "none" /\ op'[i].pc \in NoTarget
    BY <1>0, <2>1 DEF Touches, IsOperation, Labels, Idle, NoTarget
  <2> QED
    BY <1>0, <2>1, <2>2, <2>3, <2>4 DEF Moves, Touches, Quiet
<1>10. CASE Finish(i) \/ RunRecovery(i)
  <2>1. /\ op[i].pc \in {"finish", "recover"} /\ Quiet /\ SourceStays
        /\ Touches(i, {"pc"}) /\ op'[i].pc = "ended" /\ running' = FALSE
    BY <1>0, <1>10, EndEffect
  <2> QED
    BY <1>0, <2>1 DEF Moves, Touches, IsOperation, Labels, Working, Idle,
       Closing, NoTarget, Chosen, Quiet, SourceStays
<1> QED
  BY <1>1, <1>2, <1>3, <1>4, <1>5, <1>6, <1>7, <1>8, <1>9, <1>10 DEF Goroutine, Prepare, Leave

LEMMA DisksAfterGoroutine ==
  ASSUME ControlInv, NEW i \in Ops, Goroutine(i)
  PROVE  UNCHANGED attached \/ Relettered
<1> USE DEF ControlInv, DisksStay
<1>1. CASE Prepare(i)
  BY <1>1, RevalidateEffect, ReplanEffect, ShrinkEffect, UnshrinkEffect, AccessEffect, LockEffect,
     OpenEffect, CreateSnapshotsEffect, OpenSnapshotsEffect DEF Prepare
<1>2. CASE Copy(i) \/ RunRecovery(i)
  BY <1>2, CopyEffect, EndEffect
<1>3. CASE Leave(i)
  BY <1>3, ReleaseEffect, RestoreEffect, EndEffect, CleanupRestoreEffect DEF Leave
<1> QED
  BY <1>1, <1>2, <1>3 DEF Goroutine

LEMMA QuietGoroutine ==
  ASSUME ControlInv, NEW i \in Ops, Goroutine(i)
  PROVE  Quiet
<1> USE DEF ControlInv
<1>1. CASE Prepare(i)
  BY <1>1, RevalidateEffect, ReplanEffect, ShrinkEffect, UnshrinkEffect, AccessEffect, LockEffect,
     OpenEffect, CreateSnapshotsEffect, OpenSnapshotsEffect DEF Prepare
<1>2. CASE Copy(i) \/ RunRecovery(i)
  BY <1>2, CopyEffect, EndEffect
<1>3. CASE Leave(i)
  BY <1>3, ReleaseEffect, RestoreEffect, EndEffect, CleanupRestoreEffect DEF Leave
<1> QED
  BY <1>1, <1>2, <1>3 DEF Goroutine

LEMMA ControlGoroutine ==
  ASSUME ControlInv, NEW i \in Ops, Goroutine(i)
  PROVE  ControlInv'
<1> USE DEF ControlInv
<1>1. Moves(i)
  BY MoveOf
<1>2. /\ DOMAIN attached' = Slots /\ attached' = [s \in Slots |-> attached'[s]]
      /\ \A s \in Slots : attached'[s] \in Disk /\ attached'[s].slot = s
  BY DisksAfterGoroutine DEF Relettered, DisksKnown, Typed, Slots
<1>3. Slots' = Slots
  BY <1>2 DEF Slots
<1>4. Typed'
  <2>1. \A j \in Ops : IsOperation(op'[j])
    BY <1>1 DEF Moves, Typed
  <2> QED
    BY <1>1, <1>2, <1>3, <2>1 DEF Typed, Moves, IsOperation
<1>5. OneAtWork'
  <2>1. \A j \in Ops \ {i} : Working(j)' <=> Working(j)
    BY <1>1 DEF Moves, Working
  <2>2. \A j \in Ops : op'[j].panicked => op'[j].pc \in Closing \cup {"ended"}
    BY <1>1 DEF Moves, OneAtWork
  <2>3. running' \in BOOLEAN
    BY <1>1 DEF Moves, OneAtWork
  <2>4. \A j \in Ops : Working(j)' => running' /\ latest' = j
    BY <1>1, <2>1 DEF Moves, OneAtWork
  <2>5. running' => latest' \in Ops /\ Working(latest)'
    BY <1>1, <2>1 DEF Moves, OneAtWork, Working
  <2>6. Unused' = Unused
    BY <1>1 DEF Moves, Unused, Idle
  <2>7. ui' # NoDialog => ~running' /\ Unused' # {}
    BY <1>1, <2>6 DEF Moves, OneAtWork
  <2>8. ~tangled' => \A j \in Live' : j = latest'
    BY <1>1 DEF Moves, OneAtWork, Live, Idle
  <2> QED
    BY <2>2, <2>3, <2>4, <2>5, <2>7, <2>8 DEF OneAtWork
<1>6. DisksKnown'
  BY <1>1, <1>2, <1>3 DEF DisksKnown, Moves, Chosen
<1> QED
  BY <1>4, <1>5, <1>6

LEMMA ControlInit == Init => ControlInv
<1> SUFFICES ASSUME Init PROVE ControlInv
  OBVIOUS
<1> PICK m \in Machines :
      /\ attached = m.attached /\ planFile = [slot \in DOMAIN m.attached |-> NoPlan]
      /\ running = FALSE /\ listed = [slot \in DOMAIN m.attached |-> NoDisk]
      /\ ui = NoDialog /\ op = [i \in Ops |-> NoOp]
  BY DEF Init
<1>1. Typed
  <2>1. IsOperation(NoOp)
    <3>1. <<>> \in Seq(Volume) /\ NoOp.todo = <<>> /\ NoOp.pc = "none"
      BY DEF NoOp
    <3> QED
      BY <3>1 DEF IsOperation, Labels, Fields
  <2> QED
    BY <2>1, MachineAssumption DEF Typed, Slots
<1>2. \A i \in Ops : op[i].pc = "none" /\ op[i].panicked = FALSE
  BY DEF NoOp
<1>3. OneAtWork
  BY <1>2 DEF OneAtWork, Working, Idle, Live
<1>4. DisksKnown
  BY <1>2, MachineAssumption DEF DisksKnown, NoTarget, Idle, Slots
<1> QED
  BY <1>1, <1>3, <1>4 DEF ControlInv

(* Steps that change no operation and no disk.                             *)
LEMMA ControlDialog ==
  ASSUME ControlInv, UNCHANGED <<op, attached, planFile, running, latest, tangled>>,
         DOMAIN listed' = Slots,
         \A s \in Slots : listed'[s] = NoDisk \/ (listed'[s] \in Disk /\ listed'[s].slot = s),
         ui' # NoDialog => /\ ~running /\ Unused # {}
                           /\ (Chosen(ui') \/ (ui'.mode = "recovery" /\ ui'.src \in Disk))
  PROVE  ControlInv'
<1> USE DEF ControlInv
<1>1. Slots' = Slots
  BY DEF Slots
<1>2. Typed'
  BY <1>1 DEF Typed, IsOperation
<1>3. OneAtWork'
  BY DEF OneAtWork, Working, Live, Unused
<1>4. DisksKnown'
  BY <1>1 DEF DisksKnown, Chosen
<1> QED
  BY <1>2, <1>3, <1>4

LEMMA ControlWindow ==
  ASSUME ControlInv, Window
  PROVE  ControlInv'
<1> USE DEF ControlInv
<1>0. /\ DOMAIN listed = Slots
      /\ \A s \in Slots : listed[s] = NoDisk \/ (listed[s] \in Disk /\ listed[s].slot = s)
      /\ ui # NoDialog => /\ ~running /\ Unused # {}
                          /\ (Chosen(ui) \/ (ui.mode = "recovery" /\ ui.src \in Disk))
  BY DEF DisksKnown, OneAtWork
<1>1. CASE RefreshDisks
  BY <1>0, <1>1, ControlDialog DEF RefreshDisks, machine, history
<1>2. CASE DisksListed
  BY <1>0, <1>2, ControlDialog DEF DisksListed, machine, history, DisksKnown, Slots
<1>3. CASE StartRecovery
  <2>1. ui' = [NoDialog EXCEPT !.mode = "recovery", !.src = listed[Source]]
    BY <1>3, Zenon DEF StartRecovery
  <2>2. ui'.mode = "recovery" /\ ui'.src = listed[Source]
    BY <2>1, Zenon DEF NoDialog
  <2>3. /\ UNCHANGED <<app, op, machine, history>> /\ Unused # {} /\ ~running
        /\ listed[Source] # NoDisk
    BY <1>3 DEF StartRecovery
  <2>4. listed[Source] \in Disk
    BY <1>0, <2>3 DEF DisksKnown
  <2> QED
    BY <1>0, <2>2, <2>3, <2>4, ControlDialog DEF app, machine, history
<1>4. CASE Decline
  BY <1>0, <1>4, ControlDialog DEF Decline, app, machine, history
<1>5. ASSUME NEW mode \in {"offline", "vss", "smart"}, NEW slot \in Slots, StartClone(mode, slot)
      PROVE  ControlInv'
  <2>1. /\ ui'.mode = mode /\ ui'.src = listed[Source] /\ ui'.tgt = listed[slot]
        /\ Unused # {} /\ ~running /\ Offered(mode, listed[Source], listed[slot])
        /\ UNCHANGED <<app, op, machine, history>>
    BY <1>5 DEF StartClone
  <2>2. NoDisk.verified = FALSE
    BY DEF NoDisk
  <2>3. listed[Source] # NoDisk /\ listed[slot] # NoDisk
    BY <2>1, <2>2 DEF Offered
  <2>4. Chosen(ui')
    BY <1>0, <2>1, <2>3 DEF Chosen, Modes, DisksKnown
  <2> QED
    BY <1>0, <2>1, <2>4, ControlDialog DEF app, machine, history
<1>6. CASE Cancel
  <2>1. /\ latest \in Ops /\ Touches(latest, {"cancelled"}) /\ UNCHANGED running
        /\ Quiet /\ DisksStay /\ SourceStays
    BY <1>6, CancelEffect
  <2>2. \A j \in Ops : /\ DOMAIN op'[j] = Fields
                       /\ op'[j].pc = op[j].pc /\ op'[j].todo = op[j].todo
                       /\ op'[j].mode = op[j].mode /\ op'[j].src = op[j].src
                       /\ op'[j].tgt = op[j].tgt /\ op'[j].panicked = op[j].panicked
    BY <2>1, FieldNames DEF Touches, Typed, IsOperation
  <2>3. Slots' = Slots
    BY <2>1 DEF Slots, DisksStay
  <2>4. Typed'
    BY <2>1, <2>2, <2>3 DEF Typed, IsOperation, DisksStay, SourceStays, Touches
  <2>5. OneAtWork'
    BY <2>1, <2>2 DEF OneAtWork, Working, Live, Unused, Quiet
  <2>6. DisksKnown'
    BY <2>1, <2>2, <2>3 DEF DisksKnown, Chosen, Quiet, DisksStay
  <2> QED
    BY <2>4, <2>5, <2>6
<1>7. CASE Confirm
  <2>0. Unused # {}
    BY <1>0, <1>7, ConfirmEffect DEF Confirm
  <2> PICK i \in Unused :
           /\ ui # NoDialog /\ ui' = NoDialog /\ running' = TRUE /\ latest' = i
           /\ Touches(i, Fields)
           /\ op'[i].pc = IF ui.mode = "recovery" THEN "recover" ELSE "revalidate"
           /\ op'[i].mode = ui.mode /\ op'[i].src = ui.src /\ op'[i].tgt = ui.tgt
           /\ op'[i].todo = <<>> /\ op'[i].panicked = FALSE
           /\ tangled' = (tangled \/ Live # {})
           /\ DisksStay /\ SourceStays /\ UNCHANGED listed
    BY <1>7, <2>0, ConfirmEffect
  <2>1. i \in Ops /\ op[i].pc = "none"
    BY DEF Unused
  <2>2. Slots' = Slots
    BY DEF Slots, DisksStay
  <2>3. <<>> \in Seq(Volume)
    OBVIOUS
  <2>4. IsOperation(op'[i])
    BY <2>3 DEF IsOperation, Touches, Labels
  <2>5. Typed'
    BY <2>1, <2>2, <2>4 DEF Typed, Touches, DisksStay, SourceStays, IsOperation
  <2>6. OneAtWork'
    <3>1. ~running
      BY <1>0
    <3>2. \A j \in Ops \ {i} : ~Working(j)' /\ op'[j] = op[j]
      BY <3>1, <2>1 DEF OneAtWork, Working, Touches
    <3>3. Working(i)'
      BY DEF Working, Idle, Closing
    <3>4. \A j \in Ops : op'[j].panicked => op'[j].pc \in Closing \cup {"ended"}
      BY <3>2 DEF OneAtWork
    <3>5. ~tangled' => Live = {}
      OBVIOUS
    <3>6. ~tangled' => \A j \in Live' : j = i
      BY <3>2, <3>5 DEF Live
    <3> QED
      BY <2>1, <3>2, <3>3, <3>4, <3>6 DEF OneAtWork
  <2>7. DisksKnown'
    BY <1>0, <2>1, <2>2 DEF DisksKnown, Chosen, Touches, DisksStay, NoTarget, Idle, Modes
  <2> QED
    BY <2>5, <2>6, <2>7
<1>8. CASE Quit
  <2>1. /\ ui' = NoDialog /\ running' = FALSE /\ listed' = [slot \in Slots |-> NoDisk]
        /\ op' = [i \in Ops |-> op'[i]] /\ DisksStay /\ SourceStays
        /\ \A i \in Ops : /\ DOMAIN op'[i] = Fields /\ op'[i].pc \in Idle /\ op'[i].todo = <<>>
                          /\ op'[i].panicked = FALSE
    BY <1>8, QuitEffect DEF Idle
  <2>2. Slots' = Slots
    BY <2>1 DEF Slots, DisksStay
  <2>3. <<>> \in Seq(Volume)
    OBVIOUS
  <2>4. Typed'
    BY <2>1, <2>2, <2>3 DEF Typed, DisksStay, SourceStays, IsOperation, Labels, Idle
  <2>5. OneAtWork'
    BY <2>1 DEF OneAtWork, Working, Live, Idle
  <2>6. DisksKnown'
    BY <1>0, <2>1, <2>2 DEF DisksKnown, DisksStay, NoTarget
  <2> QED
    BY <2>4, <2>5, <2>6
<1> QED
  BY <1>1, <1>2, <1>3, <1>4, <1>5, <1>6, <1>7, <1>8 DEF Window

(* Another disk, with the slot it takes.                                   *)
LEMMA Reslotted ==
  ASSUME NEW d \in Disk, NEW slot \in STRING, NEW e, e = [d EXCEPT !.slot = slot]
  PROVE  e \in Disk /\ e.slot = slot
<1>1. e = [slot |-> slot, id |-> d.id, size |-> d.size, sector |-> d.sector, known |-> d.known,
           verified |-> d.verified, system |-> d.system, readonly |-> d.readonly,
           letters |-> d.letters]
  BY Zenon DEF Disk
<1>2. /\ d.id \in STRING /\ d.size \in Nat /\ d.sector \in Nat
      /\ d.known \in BOOLEAN /\ d.verified \in BOOLEAN /\ d.system \in BOOLEAN
      /\ d.readonly \in BOOLEAN /\ d.letters \in Seq(STRING)
  BY Zenon DEF Disk
<1>3. e \in Disk
  BY <1>1, <1>2, Zenon DEF Disk
<1>4. e.slot = slot
  BY <1>1, Zenon
<1> QED
  BY <1>3, <1>4

LEMMA SwapEffect ==
  ASSUME Typed, DisksKnown, NEW slot \in Slots, Swap(slot)
  PROVE  /\ ~attached[slot].system
         /\ \E e \in Disk : e.slot = slot /\ attached' = [s \in Slots |-> IF s = slot THEN e ELSE attached[s]]
         /\ slipped' = (slipped \/ \E i \in Ops : op[i].pc = "lock")
         /\ "swap" \in harm' /\ \A fault \in harm : fault \in harm'
         /\ UNCHANGED <<app, ui, op, layout, shadows, planFile, made, agreed, tangled, replaced>>
<1> PICK d \in Others : attached' = [attached EXCEPT ![slot] = [d EXCEPT !.slot = slot]]
  BY Zenon DEF Swap
<1> DEFINE e == [d EXCEPT !.slot = slot]
<1>1. attached' = [s \in Slots |-> IF s = slot THEN e ELSE attached[s]]
  BY Zenon DEF Typed
<1>2. slot \in STRING
  BY DEF DisksKnown, Disk
<1>3. e \in Disk /\ e.slot = slot
  BY <1>2, MachineAssumption, Reslotted
<1>4. /\ ~attached[slot].system /\ Harm("swap")
      /\ slipped' = (slipped \/ \E i \in Ops : op[i].pc = "lock")
      /\ UNCHANGED <<app, ui, op, layout, shadows, planFile, made, agreed, tangled, replaced>>
  BY DEF Swap
<1> HIDE DEF e
<1> QED
  BY <1>1, <1>3, <1>4, HarmGrows

LEMMA ControlWorld ==
  ASSUME ControlInv, World
  PROVE  ControlInv'
<1> USE DEF ControlInv
<1>1. ASSUME NEW slot \in Slots, Swap(slot)
      PROVE  ControlInv'
  <2>1. /\ DOMAIN attached' = Slots /\ attached' = [s \in Slots |-> attached'[s]]
        /\ \A s \in Slots : attached'[s] \in Disk /\ attached'[s].slot = s
    BY <1>1, SwapEffect DEF DisksKnown
  <2>2. UNCHANGED <<op, planFile, running, latest, tangled, ui, listed>>
    BY <1>1, SwapEffect DEF app
  <2>3. Slots' = Slots
    BY <2>1 DEF Slots
  <2>4. Typed'
    BY <2>1, <2>2, <2>3 DEF Typed, IsOperation
  <2>5. OneAtWork'
    BY <2>2 DEF OneAtWork, Working, Live, Unused
  <2>6. DisksKnown'
    BY <2>1, <2>2, <2>3 DEF DisksKnown, Chosen
  <2> QED
    BY <2>4, <2>5, <2>6
<1>2. CASE UNCHANGED <<app, ui, op, attached, planFile, tangled>>
  <2>1. /\ DOMAIN listed = Slots
        /\ \A s \in Slots : listed[s] = NoDisk \/ (listed[s] \in Disk /\ listed[s].slot = s)
        /\ ui # NoDialog => /\ ~running /\ Unused # {}
                            /\ (Chosen(ui) \/ (ui.mode = "recovery" /\ ui.src \in Disk))
    BY DEF DisksKnown, OneAtWork
  <2> QED
    BY <1>2, <2>1, ControlDialog DEF app
<1>3. ASSUME NEW slot \in Slots, RunRestoreScript(slot)
      PROVE  ControlInv'
  BY <1>2, <1>3 DEF RunRestoreScript, history
<1>4. ASSUME NEW p \in layout.parts, Grow(p)
      PROVE  ControlInv'
  <2>1. UNCHANGED <<app, ui, op, attached, planFile, history>>
    BY <1>4, Zenon DEF Grow
  <2> QED
    BY <1>2, <2>1 DEF history
<1> QED
  BY <1>1, <1>3, <1>4 DEF World

LEMMA ControlStep == ControlInv /\ [Next]_vars => ControlInv'
<1> SUFFICES ASSUME ControlInv, [Next]_vars PROVE ControlInv'
  OBVIOUS
<1>1. CASE UNCHANGED vars
  <2>1. /\ DOMAIN listed = Slots
        /\ \A s \in Slots : listed[s] = NoDisk \/ (listed[s] \in Disk /\ listed[s].slot = s)
        /\ ui # NoDialog => /\ ~running /\ Unused # {}
                            /\ (Chosen(ui) \/ (ui.mode = "recovery" /\ ui.src \in Disk))
    BY DEF DisksKnown, OneAtWork, ControlInv
  <2> QED
    BY <1>1, <2>1, ControlDialog DEF vars, app, machine, history
<1> QED
  BY <1>1, ControlGoroutine, ControlWindow, ControlWorld DEF Next

LEMMA ControlHolds == Spec => []ControlInv
BY ControlInit, ControlStep, PTL DEF Spec

-----------------------------------------------------------------------------
(* What is written to is confirmed and held.                               *)

LEMMA ElementsOf ==
  ASSUME NEW S, NEW s \in Seq(S), s # <<>>
  PROVE  Elements(s) \subseteq {Head(s)} \cup Elements(Tail(s))
<1> SUFFICES ASSUME NEW k \in DOMAIN s
             PROVE  s[k] = Head(s) \/ \E m \in DOMAIN Tail(s) : s[k] = Tail(s)[m]
  BY DEF Elements
<1>1. CASE k = 1
  BY <1>1
<1>2. CASE k # 1
  <2>1. k - 1 \in DOMAIN Tail(s) /\ Tail(s)[k - 1] = s[k]
    BY <1>2
  <2> QED
    BY <2>1
<1> QED
  BY <1>1, <1>2

LEMMA ElementsJoined ==
  ASSUME NEW S, NEW a \in Seq(S), NEW b \in Seq(S)
  PROVE  Elements(a) \subseteq Elements(a \o b) /\ Elements(b) \subseteq Elements(a \o b)
<1>1. ASSUME NEW k \in DOMAIN a
      PROVE  k \in DOMAIN (a \o b) /\ (a \o b)[k] = a[k]
  OBVIOUS
<1>2. ASSUME NEW k \in DOMAIN b
      PROVE  Len(a) + k \in DOMAIN (a \o b) /\ (a \o b)[Len(a) + k] = b[k]
  OBVIOUS
<1> QED
  BY <1>1, <1>2 DEF Elements

LEMMA NothingToLock == Elements(<<>>) = {}
BY DEF Elements

LEMMA LettersOfExtents ==
  ASSUME NEW letters \in Seq(STRING)
  PROVE  Elements(letters) = {r.letter : r \in Elements(Extents(letters))}
<1>1. \A letter : Extent(letter).letter = letter
  BY DEF Extent
<1>2. DOMAIN Extents(letters) = DOMAIN letters
      /\ \A k \in DOMAIN letters : Extents(letters)[k].letter = letters[k]
  BY <1>1 DEF Extents
<1> QED
  BY <1>2 DEF Elements

(* All that is to be locked is on the list.                                *)
LEMMA ListedToLock ==
  ASSUME DisksKnown, NEW o, o.src.slot \in Slots, o.tgt.slot \in Slots
  PROVE  /\ Elements(Volumes(attached[o.tgt.slot])) \subseteq Elements(ToLock(o))
         /\ ~LiveVSS(o.mode) =>
              Elements(Volumes(attached[o.src.slot])) \subseteq Elements(ToLock(o))
<1> DEFINE a == Volumes(attached[o.src.slot])
           b == Volumes(attached[o.tgt.slot])
<1>1. attached[o.src.slot] \in Disk /\ attached[o.tgt.slot] \in Disk
  BY DEF DisksKnown
<1>2. a \in Seq(Volume) /\ b \in Seq(Volume)
  BY <1>1, VolumesSeq
<1>3. <<>> \in Seq(Volume)
  OBVIOUS
<1> HIDE DEF a, b
<1>4. /\ LiveVSS(o.mode) => ToLock(o) = <<>> \o b
      /\ ~LiveVSS(o.mode) => ToLock(o) = a \o b
  BY DEF ToLock, a, b
<1>5. CASE LiveVSS(o.mode)
  BY <1>2, <1>3, <1>4, <1>5, ElementsJoined DEF b
<1>6. CASE ~LiveVSS(o.mode)
  BY <1>2, <1>4, <1>6, ElementsJoined DEF a, b
<1> QED
  BY <1>5, <1>6

LEMMA GuardGoroutine ==
  ASSUME ControlInv, GuardInv, NEW i \in Ops, Goroutine(i)
  PROVE  GuardInv'
<1> USE FieldNames DEF ControlInv
<1>0. /\ Typed /\ DisksKnown /\ Moves(i) /\ Guards(op[i])
      /\ op[i].pc \notin NoTarget => Chosen(op[i])
  BY MoveOf DEF DisksKnown, GuardInv
<1>1. UNCHANGED <<agreed, slipped>>
  BY <1>0, QuietGoroutine DEF Quiet
<1>2. \A s \in Slots : attached'[s].id = attached[s].id /\ attached'[s].system = attached[s].system
  BY DisksAfterGoroutine DEF Relettered
<1>3. \A j \in Ops \ {i} : Guards(op[j])'
  <2> SUFFICES ASSUME NEW j \in Ops \ {i} PROVE Guards(op[j])'
    OBVIOUS
  <2>1. op'[j] = op[j] /\ Guards(op[j]) /\ (op[j].pc = "lock" => op[j].tgt.slot \in Slots)
    BY <1>0 DEF Moves, GuardInv, DisksKnown, Chosen, NoTarget, Idle
  <2> QED
    BY <1>1, <1>2, <2>1 DEF Guards, TargetAgreed, TargetStays, OpenAgreed, VolumesHeld,
       VolumesCovered, Held
<1> SUFFICES Guards(op[i])'
  BY <1>3 DEF GuardInv
<1> DEFINE early == {"lock", "snapshots", "openSnapshots", "copy"}
(* An operation that leaves holds on to its destination only.              *)
<1>4. ASSUME op'[i].pc \notin early, op[i].pc \notin NoTarget, op'[i].tgt.id = op[i].tgt.id
      PROVE  Guards(op[i])'
  BY <1>0, <1>1, <1>4 DEF Guards, TargetAgreed, TargetStays, OpenAgreed, VolumesHeld, VolumesCovered
<1>5. ASSUME NEW F, NEW l, l \notin early, GoesOn(i, F, l) \/ GivesUp(i, F),
             "tgt" \notin F, op[i].pc \notin NoTarget
      PROVE  Guards(op[i])'
  BY <1>4, <1>5 DEF GoesOn, GivesUp, Touches
<1>6. CASE Revalidate(i)
  <2>1. op[i].pc \notin NoTarget /\ op'[i].pc \notin early /\ op'[i].tgt.id = op[i].tgt.id
    BY ZenonT(60), <1>0, <1>6, RevalidateEffect DEF GoesOn, GivesUp, Touches, NoTarget, Idle, Revalidated
  <2> QED
    BY <2>1, <1>4
<1>7. CASE Replan(i)
  <2> DEFINE plan == BuildPlan(op[i].src, op[i].tgt, layout)
  <2>1. /\ op[i].pc = "replan"
        /\ \/ GivesUp(i, {})
           \/ \E l \in {"shrink", "access"} : GoesOn(i, {"plan", "shrunk"}, l)
    BY <1>0, <1>7, ReplanEffect
  <2> HIDE DEF plan
  <2> QED
    BY <2>1, <1>5 DEF NoTarget, Idle
<1>8. CASE Shrink(i) \/ Unshrink(i)
  <2>1. /\ op[i].pc \in {"shrink", "unshrink"}
        /\ \/ GivesUp(i, {"shrunk"})
           \/ \E l \in {"unshrink", "access"} : GoesOn(i, {}, l)
    BY <1>0, <1>8, ShrinkEffect, UnshrinkEffect
  <2> QED
    BY <2>1, <1>5 DEF NoTarget, Idle
<1>9. CASE Access(i)
  <2>1. CASE GivesUp(i, {})
    <3>1. op[i].pc = "access"
      BY <1>0, <1>9, AccessEffect
    <3> QED
      BY <2>1, <3>1, <1>5 DEF NoTarget, Idle
  <2>2. CASE ~GivesUp(i, {})
    <3>1. /\ op[i].pc = "access" /\ op'[i].pc = "lock" /\ UNCHANGED attached
          /\ op'[i].mode = op[i].mode
          /\ Revalidated(op[i])
          /\ op'[i].src = attached[op[i].src.slot]
          /\ op'[i].tgt = attached[op[i].tgt.slot]
          /\ op'[i].todo = ToLock(op[i])
      BY <1>0, <1>9, <2>2, AccessEffect DEF GoesOn, Touches, DisksStay
    <3>2. /\ op[i].src.slot \in Slots /\ op[i].tgt.slot \in Slots
          /\ attached[op[i].tgt.slot].slot = op[i].tgt.slot
          /\ op[i].tgt.id \in agreed
      BY <1>0, <3>1 DEF Chosen, DisksKnown, NoTarget, Idle, Guards, TargetAgreed
    <3>3. TargetAgreed(op[i])' /\ TargetStays(op[i])'
      BY <1>1, <3>1, <3>2 DEF TargetAgreed, TargetStays, Revalidated
    <3>4. VolumesHeld(op[i])'
      BY <1>0, <3>1, <3>2, ListedToLock DEF VolumesHeld, Held
    <3>5. OpenAgreed(op[i])' /\ VolumesCovered(op[i])'
      BY <3>1 DEF OpenAgreed, VolumesCovered
    <3> QED
      BY <3>3, <3>4, <3>5 DEF Guards
  <2> QED
    BY <2>1, <2>2
<1>10. CASE Lock(i)
  <2>1. CASE GivesUp(i, {"todo", "locked", "open"})
    <3>1. op[i].pc = "lock"
      BY <1>0, <1>10, LockEffect
    <3> QED
      BY <2>1, <3>1, <1>5 DEF NoTarget, Idle
  <2>2. CASE ~GivesUp(i, {"todo", "locked", "open"})
    <3>1. /\ op[i].pc = "lock" /\ op[i].todo # <<>> /\ UNCHANGED attached
          /\ op'[i].pc = "lock" /\ op'[i].tgt = op[i].tgt /\ op'[i].src = op[i].src
          /\ op'[i].mode = op[i].mode
          /\ op'[i].todo = Tail(op[i].todo)
          /\ op'[i].locked = op[i].locked \cup {Head(op[i].todo)}
      BY <1>0, <1>10, <2>2, LockEffect DEF GoesOn, Touches, DisksStay
    <3>2. op[i].todo \in Seq(Volume)
      BY DEF Typed, IsOperation
    <3>3. Elements(op[i].todo) \subseteq {Head(op[i].todo)} \cup Elements(Tail(op[i].todo))
      BY <3>1, <3>2, ElementsOf
    <3>4. \A volumes : Held(op[i], volumes) => Held(op[i], volumes)'
      BY <3>1, <3>3 DEF Held
    <3>5. VolumesHeld(op[i])'
      BY <1>0, <3>1, <3>3 DEF VolumesHeld, Guards, Held
    <3>6. TargetAgreed(op[i])' /\ TargetStays(op[i])' /\ OpenAgreed(op[i])' /\ VolumesCovered(op[i])'
      BY <1>0, <1>1, <3>1 DEF Guards, TargetAgreed, TargetStays, OpenAgreed, VolumesCovered
    <3> QED
      BY <3>5, <3>6 DEF Guards
  <2> QED
    BY <2>1, <2>2
<1>11. CASE Open(i)
  <2>1. CASE GivesUp(i, {"todo", "locked", "open"})
    <3>1. op[i].pc = "lock"
      BY <1>0, <1>11, OpenEffect
    <3> QED
      BY <2>1, <3>1, <1>5 DEF NoTarget, Idle
  <2>2. CASE ~GivesUp(i, {"todo", "locked", "open"})
    <3>1. /\ op[i].pc = "lock" /\ op[i].todo = <<>>
          /\ op'[i].pc = IF LiveVSS(op[i].mode) THEN "snapshots" ELSE "copy"
          /\ op'[i].tgt = op[i].tgt /\ op'[i].src = op[i].src /\ op'[i].mode = op[i].mode
          /\ op'[i].todo = op[i].todo /\ op'[i].locked = op[i].locked
          /\ op'[i].open = attached[op[i].tgt.slot]
      BY <1>0, <1>11, <2>2, OpenEffect DEF GoesOn, Touches
    <3>2. VolumesHeld(op[i])' /\ VolumesCovered(op[i])'
      BY <1>0, <3>1 DEF VolumesHeld, VolumesCovered, Guards, Held
    <3>3. op[i].tgt.id \in agreed
      BY <1>0, <3>1 DEF Guards, TargetAgreed, NoTarget, Idle
    <3>4. TargetAgreed(op[i])' /\ TargetStays(op[i])' /\ OpenAgreed(op[i])'
      BY <1>0, <1>1, <3>1, <3>3 DEF Guards, TargetAgreed, TargetStays, OpenAgreed
    <3> QED
      BY <3>2, <3>4 DEF Guards
  <2> QED
    BY <2>1, <2>2
<1>12. CASE CreateSnapshots(i)
  <2>1. CASE GivesUp(i, {})
    <3>1. op[i].pc = "snapshots"
      BY <1>0, <1>12, CreateSnapshotsEffect
    <3> QED
      BY <2>1, <3>1, <1>5 DEF NoTarget, Idle
  <2>2. CASE ~GivesUp(i, {})
    <3>1. /\ op[i].pc = "snapshots" /\ op'[i].pc = "openSnapshots"
          /\ op'[i].tgt = op[i].tgt /\ op'[i].src = op[i].src /\ op'[i].mode = op[i].mode
          /\ op'[i].todo = op[i].todo /\ op'[i].locked = op[i].locked
          /\ op'[i].open = op[i].open
          /\ op'[i].ranges = Extents(op[i].src.letters)
      BY <1>0, <1>12, <2>2, CreateSnapshotsEffect DEF GoesOn, Touches
    <3>2. op[i].src.letters \in Seq(STRING)
      <4>1. op[i].src \in Disk
        BY <1>0, <3>1 DEF Chosen, NoTarget, Idle
      <4> QED
        BY <4>1, Zenon DEF Disk
    <3>3. VolumesCovered(op[i])'
      BY <3>1, <3>2, LettersOfExtents DEF VolumesCovered
    <3>4. VolumesHeld(op[i])'
      BY <1>0, <3>1 DEF VolumesHeld, Guards, Held
    <3>5. TargetAgreed(op[i])' /\ TargetStays(op[i])' /\ OpenAgreed(op[i])'
      BY <1>0, <1>1, <3>1 DEF Guards, TargetAgreed, TargetStays, OpenAgreed, NoTarget, Idle
    <3> QED
      BY <3>3, <3>4, <3>5 DEF Guards
  <2> QED
    BY <2>1, <2>2
<1>13. CASE OpenSnapshots(i) \/ Copy(i)
  <2>1. /\ op[i].pc \in {"openSnapshots", "copy"}
        /\ \/ GivesUp(i, {"ranges"})
           \/ GoesOn(i, {"outcome"}, "close") \/ GoesOn(i, {"panicked"}, "cleanup")
           \/ GoesOn(i, {"copied", "table"}, "copy")
    BY <1>0, <1>13, OpenSnapshotsEffect, CopyEffect DEF GoesOn, Touches
  <2>2. CASE \/ GivesUp(i, {"ranges"})
             \/ GoesOn(i, {"outcome"}, "close") \/ GoesOn(i, {"panicked"}, "cleanup")
    BY <2>1, <2>2, <1>5 DEF NoTarget, Idle
  <2>3. CASE GoesOn(i, {"copied", "table"}, "copy")
    <3>1. /\ op'[i].pc = "copy"
          /\ op'[i].tgt = op[i].tgt /\ op'[i].src = op[i].src /\ op'[i].mode = op[i].mode
          /\ op'[i].todo = op[i].todo /\ op'[i].locked = op[i].locked
          /\ op'[i].open = op[i].open /\ op'[i].ranges = op[i].ranges
      BY <2>3 DEF GoesOn, Touches
    <3>2. VolumesCovered(op[i])' /\ VolumesHeld(op[i])'
      BY <1>0, <2>1, <3>1 DEF VolumesHeld, VolumesCovered, Guards, Held
    <3>3. TargetAgreed(op[i])' /\ TargetStays(op[i])' /\ OpenAgreed(op[i])'
      BY <1>0, <1>1, <2>1, <3>1 DEF Guards, TargetAgreed, TargetStays, OpenAgreed, NoTarget, Idle
    <3> QED
      BY <3>2, <3>3 DEF Guards
  <2> QED
    BY <2>1, <2>2, <2>3
<1>14. CASE Release(i) \/ Cleanup(i)
  <2>1. /\ op[i].pc \in {"close", "cleanup"}
        /\ \E l \in {"restore", "cleanupRestore"} : GoesOn(i, {"todo", "locked", "open"}, l)
    BY <1>0, <1>14, ReleaseEffect
  <2> QED
    BY <2>1, <1>5 DEF NoTarget, Idle
<1>15. CASE Restore(i)
  <2>1. op[i].pc = "restore" /\ GoesOn(i, {"shrunk", "restoreErr"}, "finish")
    BY <1>0, <1>15, RestoreEffect
  <2> QED
    BY <2>1, <1>5 DEF NoTarget, Idle
<1>16. CASE CleanupRestore(i) \/ Finish(i) \/ RunRecovery(i)
  <2>1. op'[i].pc = "ended"
    BY <1>0, <1>16, CleanupRestoreEffect, EndEffect
  <2> QED
    BY <2>1 DEF Guards, TargetAgreed, TargetStays, OpenAgreed, VolumesHeld, VolumesCovered,
       NoTarget, Idle
<1> QED
  BY <1>6, <1>7, <1>8, <1>9, <1>10, <1>11, <1>12, <1>13, <1>14, <1>15, <1>16
     DEF Goroutine, Prepare, Leave

(* Steps that change no operation: disks keep what they are, or the one    *)
(* that is exchanged is noted.                                             *)
LEMMA GuardStays ==
  ASSUME ControlInv, GuardInv,
         \A i \in Ops : /\ op'[i].pc = op[i].pc /\ op'[i].mode = op[i].mode
                        /\ op'[i].src = op[i].src /\ op'[i].tgt = op[i].tgt
                        /\ op'[i].todo = op[i].todo /\ op'[i].locked = op[i].locked
                        /\ op'[i].open = op[i].open /\ op'[i].ranges = op[i].ranges,
         UNCHANGED agreed,
         \/ UNCHANGED <<attached, slipped>>
         \/ slipped' = (slipped \/ \E i \in Ops : op[i].pc = "lock")
  PROVE  GuardInv'
<1> SUFFICES ASSUME NEW i \in Ops PROVE Guards(op[i])'
  BY DEF GuardInv
<1>1. Guards(op[i])
  BY DEF GuardInv
<1>2. TargetStays(op[i])'
  BY <1>1 DEF Guards, TargetStays
<1>3. slipped => slipped'
  OBVIOUS
<1>4. OpenAgreed(op[i])'
  BY <1>1, <1>3 DEF Guards, OpenAgreed
<1> QED
  BY <1>1, <1>2, <1>4 DEF Guards, TargetAgreed, VolumesHeld, VolumesCovered, Held

LEMMA GuardStep == ControlInv /\ GuardInv /\ [Next]_vars => GuardInv'
<1> SUFFICES ASSUME ControlInv, GuardInv, [Next]_vars PROVE GuardInv'
  OBVIOUS
<1>0. Typed /\ DisksKnown
  BY DEF ControlInv
<1>1. CASE UNCHANGED <<op, attached, agreed, slipped>>
  BY <1>1, GuardStays
<1>2. CASE UNCHANGED vars
  BY <1>1, <1>2 DEF vars, machine, history
<1>3. CASE Window
  <2>1. CASE \/ RefreshDisks \/ DisksListed \/ StartRecovery \/ Decline
             \/ \E mode \in {"offline", "vss", "smart"}, slot \in Slots : StartClone(mode, slot)
    BY <1>1, <2>1 DEF RefreshDisks, DisksListed, StartRecovery, Decline, StartClone, machine, history
  <2>2. CASE Cancel
    <3>1. /\ latest \in Ops /\ Touches(latest, {"cancelled"}) /\ Quiet /\ DisksStay
      BY <1>0, <2>2, CancelEffect
    <3> QED
      BY <1>0, <3>1, FieldNames, GuardStays DEF Touches, Quiet, DisksStay
  <2>3. CASE Confirm
    <3>0. ui # NoDialog /\ Unused # {}
      BY <2>3 DEF Confirm, ControlInv, OneAtWork
    <3> PICK i \in Unused :
           /\ Touches(i, Fields)
           /\ op'[i].pc = IF ui.mode = "recovery" THEN "recover" ELSE "revalidate"
           /\ op'[i].tgt = ui.tgt
           /\ agreed' = IF ui.mode = "recovery" THEN agreed ELSE agreed \cup {ui.tgt.id}
           /\ UNCHANGED <<attached, slipped>>
      BY <1>0, <2>3, <3>0, ConfirmEffect DEF DisksStay
    <3>1. i \in Ops
      BY DEF Unused
    <3>2. Guards(op[i])'
      BY DEF Guards, TargetAgreed, TargetStays, OpenAgreed, VolumesHeld, VolumesCovered,
         NoTarget, Idle
    <3>3. ASSUME NEW j \in Ops \ {i} PROVE Guards(op[j])'
      <4>1. op'[j] = op[j] /\ Guards(op[j]) /\ \A id \in agreed : id \in agreed'
        BY DEF Touches, GuardInv
      <4> QED
        BY <4>1 DEF Guards, TargetAgreed, TargetStays, OpenAgreed, VolumesHeld, VolumesCovered, Held
    <3> QED
      BY <3>1, <3>2, <3>3 DEF GuardInv
  <2>4. CASE Quit
    <3>1. \A i \in Ops : op'[i].pc \in Idle
      BY <1>0, <2>4, QuitEffect DEF Idle
    <3> QED
      BY <3>1 DEF GuardInv, Guards, TargetAgreed, TargetStays, OpenAgreed, VolumesHeld,
         VolumesCovered, NoTarget, Idle
  <2> QED
    BY <1>3, <2>1, <2>2, <2>3, <2>4 DEF Window
<1>4. ASSUME NEW slot \in Slots, Swap(slot)
      PROVE  GuardInv'
  <2>1. /\ UNCHANGED <<op, agreed>> /\ slipped' = (slipped \/ \E i \in Ops : op[i].pc = "lock")
    BY <1>0, <1>4, SwapEffect
  <2> QED
    BY <2>1, GuardStays
<1>5. ASSUME NEW slot \in Slots, RunRestoreScript(slot)
      PROVE  GuardInv'
  BY <1>1, <1>5 DEF RunRestoreScript, history
<1>6. ASSUME NEW p \in layout.parts, Grow(p)
      PROVE  GuardInv'
  <2>1. UNCHANGED <<op, attached, history>>
    BY <1>6, Zenon DEF Grow
  <2> QED
    BY <1>1, <2>1 DEF history
<1> QED
  BY <1>2, <1>3, <1>4, <1>5, <1>6, GuardGoroutine DEF Next, World

LEMMA GuardHolds == Spec => []GuardInv
<1>1. Init => GuardInv
  <2>1. Init => \A i \in Ops : op[i].pc = "none"
    BY DEF Init, NoOp
  <2> QED
    BY <2>1 DEF GuardInv, Guards, TargetAgreed, TargetStays, OpenAgreed, VolumesHeld,
       VolumesCovered, NoTarget, Idle
<1> QED
  BY <1>1, GuardStep, ControlHolds, PTL DEF Spec

(* Nothing but the copy of a chunk changes what an operation has copied.   *)
LEMMA OnlyCopyWrites ==
  ASSUME ControlInv, [Next]_vars, NEW i \in Ops, Writes(i)
  PROVE  Copy(i)
<1>0. Typed /\ DisksKnown
  BY DEF ControlInv
<1>1. CASE UNCHANGED op
  BY <1>1 DEF Writes
<1>2. CASE Window
  <2>1. CASE \/ RefreshDisks \/ DisksListed \/ StartRecovery \/ Decline
             \/ \E mode \in {"offline", "vss", "smart"}, slot \in Slots : StartClone(mode, slot)
    BY <1>1, <2>1 DEF RefreshDisks, DisksListed, StartRecovery, Decline, StartClone
  <2>2. CASE Cancel
    <3>1. latest \in Ops /\ Touches(latest, {"cancelled"})
      BY <1>0, <2>2, CancelEffect
    <3>2. op'[i].copied = op[i].copied
      BY <3>1, FieldNames DEF Touches
    <3> QED
      BY <3>2 DEF Writes
  <2>3. CASE Confirm
    <3>0. ui # NoDialog /\ Unused # {}
      BY <2>3 DEF Confirm, ControlInv, OneAtWork
    <3> PICK j \in Unused : Touches(j, Fields) /\ op'[j].copied = <<>>
      BY <1>0, <2>3, <3>0, ConfirmEffect
    <3> QED
      BY DEF Writes, Touches
  <2>4. CASE Quit
    BY <1>0, <2>4, QuitEffect DEF Writes
  <2> QED
    BY <1>2, <2>1, <2>2, <2>3, <2>4 DEF Window
<1>3. CASE World
  <2>1. ASSUME NEW p \in layout.parts, Grow(p) PROVE UNCHANGED op
    BY <2>1, Zenon DEF Grow
  <2>2. UNCHANGED op
    BY <1>0, <1>3, <2>1, SwapEffect DEF World, RunRestoreScript
  <2> QED
    BY <1>1, <2>2
<1>4. ASSUME NEW j \in Ops, Goroutine(j), ~Copy(j)
      PROVE  op'[i].copied = op[i].copied
  <2> SUFFICES i = j => op'[j].copied = op[j].copied
    BY <1>4, <1>0, MoveOf DEF Moves
  <2>1. \E F \in SUBSET (Fields \ {"copied"}) :
          Touches(j, F \cup {"pc"}) \/ Touches(j, F)
    <3>1. CASE Prepare(j)
      BY ZenonT(60), <1>0, <3>1, FieldNames, RevalidateEffect, ReplanEffect, ShrinkEffect, UnshrinkEffect,
         AccessEffect, LockEffect, OpenEffect, CreateSnapshotsEffect, OpenSnapshotsEffect
         DEF Prepare, GoesOn, GivesUp
    <3>2. CASE Leave(j) \/ RunRecovery(j)
      BY <1>0, <3>2, FieldNames, ReleaseEffect, RestoreEffect, EndEffect, CleanupRestoreEffect
         DEF Leave, GoesOn
    <3> QED
      BY <1>4, <3>1, <3>2 DEF Goroutine
  <2> QED
    BY <2>1, FieldNames DEF Touches
<1>5. ASSUME NEW j \in Ops, Copy(j), i # j
      PROVE  op'[i].copied = op[i].copied
  BY <1>0, <1>5, CopyEffect DEF GoesOn, Touches
<1> QED
  BY <1>1, <1>2, <1>3, <1>4, <1>5 DEF Next, vars, Writes

(* What is written goes to a disk whose erasure was confirmed and that is  *)
(* none of the system's, with all its volumes locked, and all volumes of   *)
(* the source locked or covered by a snapshot, by the one operation that   *)
(* is at work (startClone's checks, openCloneDiskAccess, runClone) - but   *)
(* for a disk exchanged between its last check and its opening.            *)
THEOREM OnlyConfirmedWritten == Spec => WritesGuarded
<1>1. ASSUME ControlInv, GuardInv, [Next]_vars, NEW i \in Ops, Writes(i)
      PROVE  running /\ latest = i /\ Guarded(op[i])
  <2>1. op[i].pc = "copy"
    BY <1>1, OnlyCopyWrites, CopyEffect DEF ControlInv
  <2>2. running /\ latest = i
    BY <1>1, <2>1 DEF ControlInv, OneAtWork, Working, Idle, Closing
  <2>3. Guards(op[i])
    BY <1>1 DEF GuardInv
  <2>4. Guarded(op[i])
    BY <2>1, <2>3, NothingToLock DEF Guards, Guarded, OpenAgreed, VolumesHeld, VolumesCovered, Held
  <2> QED
    BY <2>2, <2>4
<1>2. ControlInv /\ GuardInv /\ [Next]_vars
        => [\A i \in Ops : Writes(i) => running /\ latest = i /\ Guarded(op[i])]_op
  BY <1>1
<1> QED
  BY <1>2, ControlHolds, GuardHolds, PTL DEF Spec, WritesGuarded

-----------------------------------------------------------------------------
(* What is held is released.                                               *)

LEMMA HeldByOthers ==
  ASSUME ControlInv, HoldInv, NEW i \in Ops, Goroutine(i), NothingHeld(op[i])',
         \A s \in shadows' :
           \/ s \in shadows /\ (s[1] = i => ShadowHeld(s)')
           \/ ShadowHeld(s)'
  PROVE  HoldInv'
<1>1. \A j \in Ops \ {i} : op'[j] = op[j]
  BY MoveOf DEF Moves
<1>2. \A fault \in harm : fault \in harm'
  BY QuietGoroutine DEF Quiet
<1>3. \A s \in shadows : ShadowHeld(s)
  BY DEF HoldInv
<1>4. ASSUME NEW s \in shadows, s[1] # i
      PROVE  ShadowHeld(s)'
  BY <1>1, <1>2, <1>3, <1>4 DEF ShadowHeld, HasShadows
<1>5. \A j \in Ops : NothingHeld(op[j])'
  BY <1>1 DEF HoldInv, NothingHeld
<1> QED
  BY <1>4, <1>5 DEF HoldInv

LEMMA HoldGoroutine ==
  ASSUME ControlInv, HoldInv, NEW i \in Ops, Goroutine(i)
  PROVE  HoldInv'
<1> USE FieldNames
<1>0. /\ Typed /\ DisksKnown /\ NothingHeld(op[i]) /\ \A s \in shadows : ShadowHeld(s)
      /\ \A fault \in harm : fault \in harm'
  BY QuietGoroutine DEF ControlInv, HoldInv, Quiet
<1>1. ASSUME ~HasShadows(op[i]) \/ HasShadows(op[i])', NEW s \in shadows, s[1] = i
      PROVE  ShadowHeld(s)'
  BY <1>0, <1>1 DEF ShadowHeld
<1>2. CASE Revalidate(i) \/ Replan(i) \/ Shrink(i) \/ Unshrink(i) \/ Access(i)
  <2> DEFINE F == {"src", "tgt", "todo", "plan", "shrunk"}
  <2>1. /\ op[i].pc \in {"revalidate", "replan", "shrink", "unshrink", "access"}
        /\ Touches(i, F \cup {"pc"}) /\ UNCHANGED shadows
        /\ op'[i].pc # "none"
    <3>1. CASE Revalidate(i) \/ Access(i)
      BY ZenonT(60), <1>0, <3>1, RevalidateEffect, AccessEffect DEF GoesOn, GivesUp, Touches, DisksStay
    <3>2. CASE Replan(i)
      <4> DEFINE plan == BuildPlan(op[i].src, op[i].tgt, layout)
      <4>1. /\ op[i].pc = "replan" /\ DisksStay
            /\ \/ GivesUp(i, {})
               \/ \E l \in {"shrink", "access"} : GoesOn(i, {"plan", "shrunk"}, l)
        BY <1>0, <3>2, ReplanEffect
      <4> HIDE DEF plan
      <4> QED
        BY <4>1 DEF GoesOn, GivesUp, Touches, DisksStay
    <3>3. CASE Shrink(i) \/ Unshrink(i)
      BY <1>0, <3>3, ShrinkEffect, UnshrinkEffect DEF GoesOn, GivesUp, Touches, DisksStay
    <3> QED
      BY <1>2, <3>1, <3>2, <3>3
  <2>2. NothingHeld(op[i])'
    BY <1>0, <2>1 DEF NothingHeld, Touches
  <2> QED
    BY <1>1, <2>1, <2>2, HeldByOthers DEF HasShadows
<1>3. CASE Lock(i) \/ Open(i)
  <2>1. /\ op[i].pc = "lock" /\ UNCHANGED shadows /\ NothingHeld(op[i])'
    <3>1. CASE Lock(i)
      BY <1>0, <3>1, LockEffect DEF GoesOn, GivesUp, Touches, NothingHeld, DisksStay
    <3>2. CASE Open(i)
      BY <1>0, <3>2, OpenEffect DEF GoesOn, GivesUp, Touches, NothingHeld, DisksStay
    <3> QED
      BY <1>3, <3>1, <3>2
  <2> QED
    BY <1>1, <2>1, HeldByOthers DEF HasShadows
<1>4. CASE CreateSnapshots(i)
  <2>1. /\ op[i].pc = "snapshots" /\ op'[i].pc \in {"openSnapshots", "cleanup"}
        /\ \A s \in shadows' : s \in shadows \/ s \in Exposed(i)
        /\ (op'[i].pc = "openSnapshots" /\ op'[i].ranges = Extents(op[i].src.letters)) \/ "vss" \in harm'
    BY <1>0, <1>4, CreateSnapshotsEffect DEF GoesOn, GivesUp
  <2>2. ASSUME NEW s \in Exposed(i) PROVE ShadowHeld(s)'
    <3>1. s[1] = i /\ \E letter \in Elements(op[i].src.letters) : TRUE
      BY <2>2 DEF Exposed
    <3>2. DOMAIN Extents(op[i].src.letters) # {}
      BY <3>1 DEF Extents, Elements
    <3>3. Extents(op[i].src.letters) # <<>>
      BY <3>2
    <3> QED
      BY <2>1, <3>1, <3>3 DEF ShadowHeld, HasShadows
  <2>3. NothingHeld(op[i])'
    BY <2>1 DEF NothingHeld
  <2>4. \A s \in shadows : s[1] = i => ShadowHeld(s)'
    BY <1>1, <2>1 DEF HasShadows
  <2> QED
    BY <2>1, <2>2, <2>3, <2>4, HeldByOthers
<1>5. CASE OpenSnapshots(i) \/ Copy(i)
  <2>1. /\ op'[i].pc \in {"copy", "close", "cleanup"}
        /\ \A s \in shadows' : s \in shadows
        /\ op'[i].ranges = op[i].ranges \/ "vss" \in harm'
    BY <1>0, <1>5, OpenSnapshotsEffect, CopyEffect DEF GoesOn, GivesUp, Touches, DisksStay
  <2>2. NothingHeld(op[i])'
    BY <2>1 DEF NothingHeld
  <2>3. \A s \in shadows : s[1] = i => ShadowHeld(s)'
    BY <1>0, <2>1 DEF ShadowHeld, HasShadows
  <2> QED
    BY <2>1, <2>2, <2>3, HeldByOthers
<1>6. CASE Release(i) \/ Cleanup(i)
  <2>1. /\ op[i].pc \in {"close", "cleanup"} /\ op'[i].locked = {} /\ op'[i].open = NoDisk
        /\ \A s \in shadows' : s \in shadows /\ (s[1] # i \/ op[i].ranges = <<>> \/ "vss" \in harm')
    BY <1>0, <1>6, ReleaseEffect
  <2>2. NothingHeld(op[i])'
    BY <2>1 DEF NothingHeld
  <2>3. \A s \in shadows' : s \in shadows /\ (s[1] = i => ShadowHeld(s)')
    BY <1>0, <2>1 DEF ShadowHeld, HasShadows
  <2> QED
    BY <2>2, <2>3, HeldByOthers
<1>7. CASE Restore(i) \/ CleanupRestore(i) \/ Finish(i) \/ RunRecovery(i)
  <2>1. /\ op[i].pc \in {"restore", "cleanupRestore", "finish", "recover"} /\ UNCHANGED shadows
        /\ op'[i].locked = op[i].locked /\ op'[i].open = op[i].open
    <3>1. CASE Restore(i)
      BY <1>0, <3>1, RestoreEffect DEF GoesOn, Touches
    <3>2. CASE CleanupRestore(i)
      BY <1>0, <3>2, CleanupRestoreEffect DEF Touches, DisksStay
    <3>3. CASE Finish(i) \/ RunRecovery(i)
      BY <1>0, <3>3, EndEffect DEF Touches, DisksStay
    <3> QED
      BY <1>7, <3>1, <3>2, <3>3
  <2>2. NothingHeld(op[i])'
    BY <1>0, <2>1 DEF NothingHeld
  <2> QED
    BY <1>1, <2>1, <2>2, HeldByOthers DEF HasShadows
<1> QED
  BY <1>2, <1>3, <1>4, <1>5, <1>6, <1>7 DEF Goroutine, Prepare, Leave

(* Steps of the window and of the machine.                                 *)
LEMMA HoldStep == ControlInv /\ HoldInv /\ [Next]_vars => HoldInv'
<1> SUFFICES ASSUME ControlInv, HoldInv, [Next]_vars PROVE HoldInv'
  OBVIOUS
<1>0. Typed /\ DisksKnown
  BY DEF ControlInv
<1>1. ASSUME UNCHANGED shadows, \A fault \in harm : fault \in harm',
             \A j \in Ops : /\ op'[j].pc = op[j].pc /\ op'[j].locked = op[j].locked
                            /\ op'[j].open = op[j].open /\ op'[j].ranges = op[j].ranges
      PROVE  HoldInv'
  BY <1>1 DEF HoldInv, NothingHeld, ShadowHeld, HasShadows
<1>2. CASE UNCHANGED vars
  BY <1>1, <1>2 DEF vars, machine
<1>3. CASE Window
  <2>1. CASE \/ RefreshDisks \/ DisksListed \/ StartRecovery \/ Decline
             \/ \E mode \in {"offline", "vss", "smart"}, slot \in Slots : StartClone(mode, slot)
    BY <1>1, <2>1 DEF RefreshDisks, DisksListed, StartRecovery, Decline, StartClone, machine
  <2>2. CASE Cancel
    <3>1. latest \in Ops /\ Touches(latest, {"cancelled"}) /\ Quiet /\ DisksStay
      BY <1>0, <2>2, CancelEffect
    <3> QED
      BY <1>1, <3>1, FieldNames DEF Touches, Quiet, DisksStay
  <2>3. CASE Confirm
    <3>0. ui # NoDialog /\ Unused # {}
      BY <2>3 DEF Confirm, ControlInv, OneAtWork
    <3> PICK i \in Unused :
           /\ Touches(i, Fields) /\ op'[i].locked = {} /\ op'[i].open = NoDisk
           /\ UNCHANGED <<shadows, harm>>
      BY <1>0, <2>3, <3>0, ConfirmEffect DEF DisksStay
    <3>1. i \in Ops /\ op[i].pc = "none"
      BY DEF Unused
    <3>2. \A j \in Ops \ {i} : op'[j] = op[j]
      BY DEF Touches
    <3>3. \A j \in Ops : NothingHeld(op[j])'
      BY <3>2 DEF HoldInv, NothingHeld
    <3>4. \A s \in shadows : ShadowHeld(s)'
      BY <3>1, <3>2 DEF HoldInv, ShadowHeld, HasShadows
    <3> QED
      BY <3>3, <3>4 DEF HoldInv
  <2>4. CASE Quit
    <3>1. /\ \A i \in Ops : op'[i].locked = {} /\ op'[i].open = NoDisk
          /\ "quit" \in harm' /\ UNCHANGED shadows
      BY <1>0, <2>4, QuitEffect DEF DisksStay
    <3> QED
      BY <3>1 DEF HoldInv, NothingHeld, ShadowHeld
  <2> QED
    BY <1>3, <2>1, <2>2, <2>3, <2>4 DEF Window
<1>4. CASE World
  <2>1. ASSUME NEW p \in layout.parts, Grow(p)
        PROVE  UNCHANGED <<op, shadows>> /\ \A fault \in harm : fault \in harm'
    <3>1. Harm("grow") /\ UNCHANGED <<op, shadows>>
      BY <2>1, Zenon DEF Grow
    <3> QED
      BY <3>1, HarmGrows
  <2>2. UNCHANGED <<op, shadows>> /\ \A fault \in harm : fault \in harm'
    BY <1>0, <1>4, <2>1, SwapEffect DEF World, RunRestoreScript
  <2> QED
    BY <1>1, <2>2
<1> QED
  BY <1>2, <1>3, <1>4, HoldGoroutine DEF Next

LEMMA HoldHolds == Spec => []HoldInv
<1>1. Init => HoldInv
  BY DEF Init, NoOp, HoldInv, NothingHeld
<1> QED
  BY <1>1, HoldStep, ControlHolds, PTL DEF Spec

-----------------------------------------------------------------------------
(* The partition table of the source.                                      *)

(* Whatever counts the partitions, one of finitely many ends last.         *)
LEMMA EndsBounded ==
  ASSUME NEW parts, parts \subseteq Partition, IsFiniteSet(parts)
  PROVE  \E m \in Nat : \A p \in parts : End(p) <= m
<1>1. PICK n \in Nat : ExistsBijection(1 .. n, parts)
  BY FS_NatBijection
<1>2. PICK f : f \in Bijection(1 .. n, parts)
  BY <1>1 DEF ExistsBijection
<1>3. \A k \in 1 .. n : f[k] \in parts /\ End(f[k]) \in Nat
  BY SMTT(30), <1>2 DEF Bijection, Injection, Partition, End
<1>4. \A p \in parts : \E k \in 1 .. n : f[k] = p
  BY <1>2 DEF Bijection, Surjection
<1> DEFINE Bound(m, k) == \A j \in 1 .. k : End(f[j]) <= m
           T == {k \in 0 .. n : ~ \E m \in Nat : Bound(m, k)}
<1>5. T = {}
  <2> SUFFICES ASSUME T # {} PROVE FALSE
    OBVIOUS
  <2>1. T \subseteq Nat
    OBVIOUS
  <2>2. PICK k \in T : \A j \in T : k <= j
    <3> HIDE DEF T
    <3> QED
      BY <2>1, LeastOf
  <2>3. Bound(0, 0)
    OBVIOUS
  <2>4. k \in 1 .. n
    <3>1. k \in 0 .. n /\ k # 0
      BY <2>3
    <3> QED
      BY <3>1
  <2>5. k - 1 \in 0 .. n /\ k - 1 \notin T
    <3>1. k - 1 \in 0 .. n /\ ~(k <= k - 1)
      BY <2>4
    <3> HIDE DEF T
    <3> QED
      BY <2>2, <3>1
  <2>6. PICK m \in Nat : Bound(m, k - 1)
    BY <2>5
  <2>7. m + End(f[k]) \in Nat
    BY <1>3, <2>4
  <2>8. Bound(m + End(f[k]), k)
    <3> SUFFICES ASSUME NEW j \in 1 .. k PROVE End(f[j]) <= m + End(f[k])
      OBVIOUS
    <3>1. End(f[j]) \in Nat /\ End(f[k]) \in Nat
      BY <1>3, <2>4
    <3>2. CASE j = k
      BY <3>1, <3>2
    <3>3. CASE j # k
      <4>1. j \in 1 .. k - 1
        BY <2>4, <3>3
      <4> QED
        BY <2>6, <3>1, <4>1
    <3> QED
      BY <3>2, <3>3
  <2> QED
    BY <2>7, <2>8
<1>6. n \in 0 .. n
  OBVIOUS
<1>7. PICK m \in Nat : Bound(m, n)
  BY <1>5, <1>6
<1> QED
  BY <1>4, <1>7

LEMMA GreatestOf ==
  ASSUME NEW T, T \subseteq Nat, T # {}, NEW m \in Nat, \A x \in T : x <= m
  PROVE  \E x \in T : \A y \in T : y <= x
<1> DEFINE U == {m - x : x \in T}
<1>1. U # {}
  OBVIOUS
<1>2. U \subseteq Nat
  <2>1. \A x \in T : m - x \in Nat
    OBVIOUS
  <2> QED
    BY <2>1
<1> HIDE DEF U
<1> PICK u \in U : \A v \in U : u <= v
  BY <1>1, <1>2, LeastOf
<1> USE DEF U
<1> QED
  BY SMTT(30)

LEMMA LastExists ==
  ASSUME NEW parts, parts \subseteq Partition, parts # {}, NEW m \in Nat,
         \A p \in parts : End(p) <= m
  PROVE  LastOf(parts) \in parts /\ \A q \in parts : End(q) <= End(LastOf(parts))
<1> DEFINE Rightmost(p) == \A q \in parts : End(q) < End(p) \/ (End(q) = End(p) /\ q.off >= p.off)
           ends == {End(p) : p \in parts}
<1>1. \A p \in parts : p.off \in Nat /\ End(p) \in Nat
  BY DEF Partition, End
<1>2. ends \subseteq Nat /\ ends # {}
  BY <1>1
<1>3. \A x \in ends : x <= m
  OBVIOUS
<1>4. PICK e \in ends : \A x \in ends : x <= e
  <2> HIDE DEF ends
  <2> QED
    BY <1>2, <1>3, GreatestOf
<1> DEFINE offs == {p.off : p \in {q \in parts : End(q) = e}}
<1>5. offs \subseteq Nat /\ offs # {}
  BY <1>1
<1>6. PICK o \in offs : \A x \in offs : o <= x
  <2> HIDE DEF offs
  <2> QED
    BY <1>5, LeastOf
<1>7. PICK p \in parts : End(p) = e /\ p.off = o
  OBVIOUS
<1>8. Rightmost(p)
  BY <1>1, <1>4, <1>6, <1>7
<1>9. \E q \in parts : Rightmost(q)
  BY <1>8
<1>10. LastOf(parts) \in parts /\ Rightmost(LastOf(parts))
  BY <1>9, Zenon DEF LastOf
<1> HIDE DEF Rightmost
<1>11. \A q \in parts, r \in parts : Rightmost(r) => End(q) <= End(r)
  BY <1>1 DEF Rightmost
<1> QED
  BY <1>10, <1>11

LEMMA Aligned ==
  ASSUME NEW n \in Nat
  PROVE  /\ AlignDown(n) \in Int /\ AlignDown(n) <= n
         /\ AlignUp(n) \in Int /\ n <= AlignUp(n)
<1>1. n % Alignment \in 0 .. Alignment - 1 /\ Alignment \in Nat \ {0}
  BY SmartAssumption
<1> DEFINE r == n % Alignment
<1> HIDE DEF r
<1> QED
  BY <1>1 DEF AlignDown, AlignUp, r

(* There is one last partition at most.                                    *)
LEMMA OneLast ==
  ASSUME MadeKnown, NEW a, NEW b, IsLast(a), IsLast(b)
  PROVE  a = b
<1> PICK p \in made.parts : /\ p.num = a /\ p.kind = "ntfs"
                            /\ \A q \in made.parts : q # p /\ q.kind # "recovery" => End(q) <= p.off
  BY DEF IsLast
<1> PICK q \in made.parts : /\ q.num = b /\ q.kind = "ntfs"
                            /\ \A r \in made.parts : r # q /\ r.kind # "recovery" => End(r) <= q.off
  BY DEF IsLast
<1>1. p \in Partition /\ q \in Partition
  BY DEF MadeKnown
<1>2. p.off \in Nat /\ q.off \in Nat /\ p.size \in Nat \ {0} /\ q.size \in Nat \ {0}
  BY <1>1 DEF Partition
<1> QED
  BY <1>2 DEF End

(* What Resize-Partition and files that grow make of a table.              *)
Turns(p, e, n, s) == /\ e \in Partition /\ Same(p, e)
                     /\ e.size = IF p.num = n THEN s ELSE p.size
Becomes(old, new, n, s) ==
  /\ \A p \in old : \E e \in new : Turns(p, e, n, s)
  /\ \A e \in new : \E p \in old : Turns(p, e, n, s)
  /\ \A d, e \in new : d.num = e.num => d = e
UsedKept(old, new) == \A p \in old, e \in new : p.num = e.num => p.used = e.used

LEMMA PartitionFields ==
  ASSUME NEW p \in Partition
  PROVE  /\ p = [num |-> p.num, off |-> p.off, size |-> p.size, kind |-> p.kind,
                 letter |-> p.letter, used |-> p.used, min |-> p.min]
         /\ p.num \in Nat \ {0} /\ p.off \in Nat /\ p.size \in Nat \ {0}
         /\ p.kind \in {"ntfs", "recovery", "other"} /\ p.letter \in STRING
         /\ p.used \in Nat /\ p.min \in Nat
<1>1. p = [num |-> p.num, off |-> p.off, size |-> p.size, kind |-> p.kind,
           letter |-> p.letter, used |-> p.used, min |-> p.min]
  BY Zenon DEF Partition
<1>2. /\ p.num \in Nat \ {0} /\ p.off \in Nat /\ p.size \in Nat \ {0}
      /\ p.kind \in {"ntfs", "recovery", "other"} /\ p.letter \in STRING
      /\ p.used \in Nat /\ p.min \in Nat
  BY Zenon DEF Partition
<1> QED
  BY <1>1, <1>2, Zenon

LEMMA PartitionResized ==
  ASSUME NEW p \in Partition, NEW s \in Nat \ {0}, NEW e, e = [p EXCEPT !.size = s]
  PROVE  e \in Partition /\ Same(p, e) /\ e.size = s /\ e.used = p.used /\ e.min = p.min
<1>1. e = [num |-> p.num, off |-> p.off, size |-> s, kind |-> p.kind, letter |-> p.letter,
           used |-> p.used, min |-> p.min]
  BY Zenon DEF Partition
<1>2. e \in Partition
  BY <1>1, PartitionFields, Zenon DEF Partition
<1>3. Same(p, e) /\ e.size = s /\ e.used = p.used /\ e.min = p.min
  BY <1>1, Zenon DEF Same
<1> QED
  BY <1>2, <1>3

LEMMA PartitionUsing ==
  ASSUME NEW p \in Partition, NEW u \in Nat, NEW m \in Nat, NEW e,
         e = [num |-> p.num, off |-> p.off, size |-> p.size, kind |-> p.kind,
              letter |-> p.letter, used |-> u, min |-> m]
  PROVE  e \in Partition /\ Same(p, e) /\ e.size = p.size /\ e.used = u /\ e.min = m
<1>1. e \in Partition
  BY PartitionFields, Zenon DEF Partition
<1>2. Same(p, e) /\ e.size = p.size
  BY Zenon DEF Same
<1>3. e.used = u /\ e.min = m
  OBVIOUS
<1> QED
  BY <1>1, <1>2, <1>3

LEMMA PartitionGrown ==
  ASSUME NEW p \in Partition, NEW e, e = [p EXCEPT !.used = @ + 1, !.min = @ + 1]
  PROVE  e = [num |-> p.num, off |-> p.off, size |-> p.size, kind |-> p.kind,
              letter |-> p.letter, used |-> p.used + 1, min |-> p.min + 1]
<1> DEFINE u == p.used + 1
           m == p.min + 1
<1>1. e = [p EXCEPT !.used = u, !.min = m]
  OBVIOUS
<1> HIDE DEF u, m
<1>2. e = [num |-> p.num, off |-> p.off, size |-> p.size, kind |-> p.kind,
           letter |-> p.letter, used |-> u, min |-> m]
  BY <1>1, Zenon DEF Partition
<1> QED
  BY <1>2, Zenon DEF u, m

LEMMA ResizedBecomes ==
  ASSUME LayoutKnown, NEW n, NEW s \in Nat \ {0}, NEW table, table = Resized(n, s)
  PROVE  /\ "parts" \in DOMAIN table
         /\ Becomes(layout.parts, table.parts, n, s) /\ UsedKept(layout.parts, table.parts)
         /\ UsedFits(table.parts)
<1> DEFINE R(p) == IF p.num = n THEN [p EXCEPT !.size = s] ELSE p
<1>1. table.parts = {R(p) : p \in layout.parts} /\ DOMAIN table = DOMAIN layout
  BY Zenon DEF Resized, LayoutKnown
<1>2. ASSUME NEW p \in layout.parts
      PROVE  Turns(p, R(p), n, s) /\ R(p).used = p.used /\ R(p).min = p.min
  <2>1. p \in Partition
    BY DEF LayoutKnown, Shaped
  <2>2. CASE p.num = n
    <3>1. R(p) = [p EXCEPT !.size = s]
      BY <2>2
    <3> HIDE DEF R
    <3> QED
      BY <2>1, <2>2, <3>1, PartitionResized DEF Turns
  <2>3. CASE p.num # n
    <3>1. R(p) = p
      BY <2>3
    <3> HIDE DEF R
    <3> QED
      BY <2>1, <2>3, <3>1 DEF Turns, Same
  <2> QED
    BY <2>2, <2>3
<1> HIDE DEF R
<1>3. ASSUME NEW p \in layout.parts, NEW q \in layout.parts, R(p).num = R(q).num
      PROVE  p = q
  BY <1>2, <1>3 DEF Turns, Same, LayoutKnown, Shaped
<1>4. \A d, e \in table.parts : d.num = e.num => d = e
  BY <1>1, <1>3
<1>5. /\ \A p \in layout.parts : \E e \in table.parts : Turns(p, e, n, s)
      /\ \A e \in table.parts : \E p \in layout.parts : Turns(p, e, n, s)
  BY <1>1, <1>2
<1>6. UsedKept(layout.parts, table.parts)
  <2> SUFFICES ASSUME NEW p \in layout.parts, NEW q \in layout.parts, p.num = R(q).num
               PROVE  p.used = R(q).used
    BY <1>1 DEF UsedKept
  <2>1. R(p).num = R(q).num
    BY <1>2 DEF Turns, Same
  <2> QED
    BY <1>2, <1>3, <2>1
<1>7. UsedFits(table.parts)
  BY <1>1, <1>2 DEF UsedFits, LayoutKnown
<1> QED
  BY <1>1, <1>4, <1>5, <1>6, <1>7 DEF Becomes, LayoutKnown

LEMMA GrowBecomes ==
  ASSUME LayoutKnown, NEW p \in layout.parts, Grow(p)
  PROVE  /\ "parts" \in DOMAIN layout' /\ Becomes(layout.parts, layout'.parts, 0, 0)
         /\ UsedFits(layout'.parts)
         /\ "grow" \in harm' /\ \A fault \in harm : fault \in harm'
<1> DEFINE g == [p EXCEPT !.used = @ + 1, !.min = @ + 1]
<1>1. layout'.parts = (layout.parts \ {p}) \cup {g} /\ DOMAIN layout' = DOMAIN layout
  BY Zenon DEF Grow, LayoutKnown
<1>2. Harm("grow")
  BY DEF Grow
<1>3. layout.parts \subseteq Partition /\ \A q, r \in layout.parts : q.num = r.num => q = r
  BY DEF LayoutKnown, Shaped
<1>4. g = [num |-> p.num, off |-> p.off, size |-> p.size, kind |-> p.kind, letter |-> p.letter,
           used |-> p.used + 1, min |-> p.min + 1]
  BY <1>3, PartitionGrown
<1> HIDE DEF g
<1>5. g \in Partition /\ Same(p, g) /\ g.size = p.size /\ (p.used <= p.min => g.used <= g.min)
  <2>1. p \in Partition /\ p.used + 1 \in Nat /\ p.min + 1 \in Nat
        /\ (p.used <= p.min => p.used + 1 <= p.min + 1)
    BY <1>3, PartitionFields
  <2>2. g \in Partition /\ Same(p, g) /\ g.size = p.size /\ g.used = p.used + 1 /\ g.min = p.min + 1
    BY <1>4, <2>1, PartitionUsing
  <2> QED
    BY <2>1, <2>2
<1>6. Turns(p, g, 0, 0) /\ \A q \in layout.parts : Turns(q, q, 0, 0)
  BY <1>3, <1>5, PartitionFields DEF Turns, Same
<1>7. Becomes(layout.parts, layout'.parts, 0, 0)
  <2>1. /\ \A q \in layout.parts : \E e \in layout'.parts : Turns(q, e, 0, 0)
        /\ \A e \in layout'.parts : \E q \in layout.parts : Turns(q, e, 0, 0)
    BY <1>1, <1>6
  <2>2. \A d, e \in layout'.parts : d.num = e.num => d = e
    BY <1>1, <1>3, <1>5 DEF Same
  <2> QED
    BY <2>1, <2>2 DEF Becomes
<1>8. UsedFits(layout'.parts)
  BY <1>1, <1>5 DEF UsedFits, LayoutKnown
<1> QED
  BY <1>1, <1>2, <1>7, <1>8, HarmGrows DEF LayoutKnown

LEMMA StaysShaped ==
  ASSUME MadeKnown, NEW old, NEW new, NEW n, NEW s, Shaped(old), Becomes(old, new, n, s),
         \/ n = 0
         \/ IsLast(n) /\ \A q \in made.parts : q.num = n => s <= q.size
  PROVE  Shaped(new)
<1>1. /\ new \subseteq Partition /\ \A p, q \in new : p.num = q.num => p = q
  BY DEF Becomes, Turns
<1>2. \A p \in new : \E q \in made.parts : Same(p, q)
  BY DEF Becomes, Turns, Shaped, Same
<1>3. \A q \in made.parts : \E p \in new : Same(p, q)
  BY DEF Becomes, Turns, Shaped, Same
<1>4. ASSUME NEW e \in new, NEW q \in made.parts, e.num = q.num
      PROVE  e.size <= q.size /\ (e.size = q.size \/ IsLast(e.num))
  <2>1. PICK p \in old : Turns(p, e, n, s)
    BY DEF Becomes
  <2>2. p \in Partition /\ p.num = q.num
    BY <1>4, <2>1 DEF Turns, Same, Shaped
  <2>3. p.num # 0
    BY <2>2, PartitionFields
  <2> QED
    BY <1>4, <2>1, <2>2, <2>3 DEF Turns, Shaped, Same
<1> QED
  BY <1>1, <1>2, <1>3, <1>4 DEF Shaped

(* The sizes of a table do not change, or are given back.                  *)
LEMMA StaysAsMade ==
  ASSUME NEW old, NEW new, NEW n, NEW s, Becomes(old, new, n, s), Shaped(old), n = 0
  PROVE  HasSizes(new) <=> HasSizes(old)
<1>1. \A p \in old : p.num # 0
  BY PartitionFields DEF Shaped
<1>2. \A p \in old, e \in new : Turns(p, e, n, s) => p.num = e.num /\ p.size = e.size
  BY <1>1 DEF Turns, Same
<1> QED
  BY <1>2 DEF HasSizes, Becomes

LEMMA ComesBack ==
  ASSUME MadeKnown, NEW old, NEW new, NEW n, NEW s, Becomes(old, new, n, s), Shaped(old),
         IsLast(n), \A q \in made.parts : q.num = n => s = q.size
  PROVE  HasSizes(new)
<1> SUFFICES ASSUME NEW e \in new, NEW q \in made.parts, e.num = q.num
             PROVE  e.size = q.size
  BY DEF HasSizes
<1> PICK p \in old : Turns(p, e, n, s)
  BY DEF Becomes
<1>1. p.num = q.num
  BY DEF Turns, Same
<1>2. p.num # n => p.size = q.size
  BY <1>1, OneLast DEF Shaped
<1> QED
  BY <1>1, <1>2 DEF Turns

LEMMA SizesAsMade ==
  ASSUME MadeKnown, NEW table, Shaped(table.parts)
  PROVE  Sizes(table) = Sizes(made) <=> HasSizes(table.parts)
<1> DEFINE Z(p) == [num |-> p.num, off |-> p.off, size |-> p.size]
<1>1. \A p, q : Z(p) = Z(q) <=> p.num = q.num /\ p.off = q.off /\ p.size = q.size
  OBVIOUS
<1> HIDE DEF Z
<1>2. /\ Sizes(table) = {Z(p) : p \in table.parts} /\ Sizes(made) = {Z(p) : p \in made.parts}
  BY DEF Sizes, Z
<1>3. ASSUME Sizes(table) = Sizes(made), NEW p \in table.parts, NEW q \in made.parts, p.num = q.num
      PROVE  p.size = q.size
  <2> PICK r \in made.parts : Z(p) = Z(r)
    BY <1>2, <1>3
  <2>1. r.num = q.num /\ p.size = r.size
    BY <1>1, <1>3
  <2>2. r = q
    BY <2>1 DEF MadeKnown
  <2> QED
    BY <2>1, <2>2
<1>4. ASSUME HasSizes(table.parts)
      PROVE  Sizes(table) = Sizes(made)
  <2>1. \A p \in table.parts : \E q \in made.parts : Z(p) = Z(q)
    BY <1>1, <1>4 DEF HasSizes, Shaped, Same
  <2>2. \A q \in made.parts : \E p \in table.parts : Z(p) = Z(q)
    BY <1>1, <1>4 DEF HasSizes, Shaped, Same
  <2> QED
    BY <1>2, <2>1, <2>2
<1> QED
  BY <1>3, <1>4 DEF HasSizes

-----------------------------------------------------------------------------
(* The plan of a migration.                                                *)

(* What buildSmartMigrationPlan found when its plan reduces a partition.   *)
LEMMA PlanOf ==
  ASSUME NEW src, NEW tgt, NEW plan, plan = BuildPlan(src, tgt, layout), plan.shrink # 0
  PROVE  \E limit, essential :
           /\ limit = AlignDown(tgt.size - TailReserve)
           /\ tgt.size > TailReserve
           /\ essential = layout.parts \ {p \in layout.parts : Droppable(p, limit)}
           /\ essential # {} /\ src.system
           /\ Shrinkable(LastOf(essential), limit)
           /\ plan.shrink = LastOf(essential).num /\ plan.from = LastOf(essential).size
           /\ plan.to = NewSize(LastOf(essential), limit) /\ plan.source = src.id
<1> DEFINE whole == [NoPlan EXCEPT !.copy = src.size, !.limit = src.size, !.source = src.id]
           limit == IF tgt.size > TailReserve THEN AlignDown(tgt.size - TailReserve) ELSE 0
           dropped == {p \in layout.parts : Droppable(p, limit)}
           essential == layout.parts \ dropped
           last == LastOf(essential)
           fits == [whole EXCEPT !.copy = tgt.size, !.limit = limit, !.dropped = dropped]
           cut == [fits EXCEPT !.shrink = last.num, !.from = last.size,
                               !.to = NewSize(last, limit), !.min = MinimumSafe(last)]
<1>1. NoPlan.shrink = 0
  BY DEF NoPlan
<1>2. whole.shrink = 0 /\ whole.source = src.id
  BY Zenon DEF NoPlan
<1>3. fits.shrink = 0
  BY Zenon DEF NoPlan
<1>4. /\ cut.shrink = last.num /\ cut.from = last.size /\ cut.to = NewSize(last, limit)
      /\ cut.source = src.id
  BY Zenon DEF NoPlan
<1>5. \/ plan = NoPlan \/ plan = whole \/ plan = fits
      \/ /\ plan = cut /\ ~Refused(src, tgt, layout) /\ ~(limit <= Alignment)
         /\ essential # {} /\ Shrinkable(last, limit)
  BY Zenon DEF BuildPlan
<1> HIDE DEF whole, limit, essential, last, fits, cut
<1>6. /\ plan = cut /\ ~Refused(src, tgt, layout) /\ ~(limit <= Alignment)
      /\ essential # {} /\ Shrinkable(last, limit)
  BY <1>1, <1>2, <1>3, <1>5
<1>7. src.system
  BY <1>6 DEF Refused
<1>8. tgt.size > TailReserve /\ limit = AlignDown(tgt.size - TailReserve)
  BY <1>6, SmartAssumption DEF limit
<1>9. essential = layout.parts \ {p \in layout.parts : Droppable(p, limit)} /\ last = LastOf(essential)
  BY DEF essential, last
<1> QED
  BY <1>4, <1>6, <1>7, <1>8, <1>9

(* It reduces the last partition, as far as its files and the destination  *)
(* allow.                                                                  *)
LEMMA PlanReduces ==
  ASSUME LayoutKnown, NEW src, NEW tgt, tgt.size \in Nat,
         NEW plan, plan = BuildPlan(src, tgt, layout), plan.shrink # 0
  PROVE  \E last \in layout.parts :
           /\ plan.shrink = last.num /\ plan.from = last.size /\ plan.source = src.id
           /\ src.system /\ IsLast(last.num)
           /\ plan.to \in 1 .. last.size - 1
           /\ last.off + plan.to <= tgt.size - GptTail - Alignment
           /\ last.used > 0 => last.used + MinFree <= plan.to
           /\ \A p \in layout.parts :
                p # last /\ p.kind # "recovery" => End(p) <= tgt.size - GptTail - Alignment
<1> PICK limit, essential :
           /\ limit = AlignDown(tgt.size - TailReserve)
           /\ tgt.size > TailReserve
           /\ essential = layout.parts \ {p \in layout.parts : Droppable(p, limit)}
           /\ essential # {} /\ src.system
           /\ Shrinkable(LastOf(essential), limit)
           /\ plan.shrink = LastOf(essential).num /\ plan.from = LastOf(essential).size
           /\ plan.to = NewSize(LastOf(essential), limit) /\ plan.source = src.id
  BY PlanOf
<1> DEFINE last == LastOf(essential)
<1>1. /\ layout.parts \subseteq Partition /\ essential \subseteq layout.parts
      /\ Shaped(layout.parts) /\ MadeKnown
  BY DEF LayoutKnown, Shaped
<1>2. PICK m \in Nat : \A q \in made.parts : End(q) <= m
  BY EndsBounded DEF LayoutKnown, MadeKnown
<1>3. \A p \in layout.parts : /\ p.num \in Nat \ {0} /\ p.off \in Nat /\ p.size \in Nat \ {0}
                              /\ p.used \in Nat /\ p.min \in Nat /\ End(p) \in Nat
  BY <1>1, PartitionFields DEF End
<1>4. \A q \in made.parts : q.off \in Nat /\ q.size \in Nat \ {0} /\ q.num \in Nat
  BY PartitionFields DEF LayoutKnown, MadeKnown
<1>5. \A p \in layout.parts, q \in made.parts : Same(p, q) => End(p) <= End(q)
  BY <1>1, <1>3, <1>4 DEF Shaped, Same, End
<1>6. \A p \in essential : End(p) <= m
  <2> SUFFICES ASSUME NEW p \in essential PROVE End(p) <= m
    OBVIOUS
  <2> PICK q \in made.parts : Same(p, q)
    BY <1>1 DEF Shaped
  <2>1. End(p) <= End(q) /\ End(q) <= m /\ End(q) \in Nat /\ End(p) \in Nat
    BY <1>1, <1>2, <1>3, <1>4, <1>5 DEF End
  <2> QED
    BY <2>1
<1>7. last \in essential /\ \A q \in essential : End(q) <= End(last)
  BY <1>1, <1>6, LastExists
<1> HIDE DEF last
<1>8. last \in layout.parts /\ last.kind = "ntfs"
  BY <1>1, <1>7 DEF Shrinkable, last
<1>9. PICK b \in made.parts : Same(last, b)
  BY <1>1, <1>8 DEF Shaped
<1>10. ASSUME NEW p \in layout.parts, NEW q \in made.parts, Same(p, q),
              p # last, p.kind # "recovery"
       PROVE  End(q) <= b.off
  <2>1. p \in essential
    BY <1>10 DEF Droppable
  <2>2. End(p) <= End(last) /\ End(last) <= End(b)
    BY <1>5, <1>7, <1>8, <1>9, <2>1
  <2>3. p.num # last.num
    BY <1>1, <1>8, <1>10 DEF Shaped
  <2>4. q # b
    BY <1>9, <1>10, <2>3 DEF Same
  <2>5. End(q) <= b.off \/ End(b) <= q.off
    BY <1>1, <2>4 DEF MadeKnown
  <2>6. q.off = p.off /\ p.off < End(p) /\ End(q) \in Nat /\ End(b) \in Nat
    BY <1>3, <1>4, <1>10 DEF Same, End
  <2> QED
    BY <1>3, <1>4, <1>8, <2>2, <2>5, <2>6
<1>11. IsLast(last.num)
  <2>1. b.num = last.num /\ b.kind = "ntfs"
    BY <1>8, <1>9 DEF Same
  <2>2. ASSUME NEW q \in made.parts, q # b, q.kind # "recovery"
        PROVE  End(q) <= b.off
    <3> PICK p \in layout.parts : Same(p, q)
      BY <1>1 DEF Shaped
    <3>1. p # last
      BY <1>1, <1>9, <2>2 DEF Same, MadeKnown
    <3> QED
      BY <1>10, <2>2, <3>1 DEF Same
  <2> QED
    BY <2>1, <2>2 DEF IsLast
<1>12. limit \in Int /\ limit <= tgt.size - TailReserve /\ limit <= tgt.size - GptTail - Alignment
  <2>1. /\ tgt.size - TailReserve \in Nat /\ TailReserve \in Nat /\ GptTail \in Nat
        /\ Alignment \in Nat /\ GptTail + Alignment <= TailReserve
    BY SmartAssumption, OperationAssumption
  <2>2. limit \in Int /\ limit <= tgt.size - TailReserve
    BY <2>1, Aligned
  <2> QED
    BY <2>1, <2>2
<1>13. last.off < limit /\ plan.to \in MinimumSafe(last) .. last.size - 1 /\ plan.to # 0
       /\ plan.to = AlignDown(limit - last.off)
  BY <1>12, <1>3, <1>8 DEF Shrinkable, NewSize, last
<1>14. plan.to \in Int /\ plan.to <= limit - last.off
  <2>1. limit - last.off \in Nat
    BY <1>3, <1>8, <1>12, <1>13
  <2> QED
    BY <1>13, <2>1, Aligned
<1>15. /\ MinimumSafe(last) \in Int /\ 0 <= MinimumSafe(last)
       /\ last.used > 0 => last.used + MinFree <= MinimumSafe(last)
  <2> DEFINE reserve == Larger(MinFree, last.used \div 20)
             files == IF last.used > 0 THEN last.used + reserve ELSE 0
             want == Larger(last.min + ResizeBuffer, files)
  <2>1. last.used \in Nat /\ last.min \in Nat /\ MinFree \in Nat /\ ResizeBuffer \in Nat
    BY <1>3, <1>8, SmartAssumption
  <2>2. reserve \in Nat /\ MinFree <= reserve
    BY <2>1 DEF Larger
  <2> HIDE DEF reserve
  <2>3. want \in Nat /\ (last.used > 0 => last.used + MinFree <= want)
    BY <2>1, <2>2 DEF Larger
  <2>4. MinimumSafe(last) = AlignUp(want)
    BY DEF MinimumSafe, reserve
  <2> HIDE DEF want
  <2>5. AlignUp(want) \in Int /\ want <= AlignUp(want)
    BY <2>3, Aligned
  <2> QED
    BY <2>1, <2>3, <2>4, <2>5
<1>16. plan.to \in 1 .. last.size - 1 /\ (last.used > 0 => last.used + MinFree <= plan.to)
  <2>1. last.used \in Nat /\ MinFree \in Nat /\ last.size \in Nat
    BY <1>3, <1>8, SmartAssumption
  <2> QED
    BY <1>13, <1>14, <1>15, <2>1
<1>17. last.off + plan.to <= tgt.size - GptTail - Alignment
  BY <1>3, <1>8, <1>12, <1>14, SmartAssumption, OperationAssumption
<1>18. ASSUME NEW p \in layout.parts, p # last, p.kind # "recovery"
       PROVE  End(p) <= tgt.size - GptTail - Alignment
  <2> PICK q \in made.parts : Same(p, q)
    BY <1>1 DEF Shaped
  <2>1. End(p) <= End(q) /\ End(q) <= b.off /\ b.off = last.off
    BY <1>5, <1>9, <1>10, <1>18 DEF Same
  <2>2. End(p) \in Nat /\ End(q) \in Nat /\ last.off \in Nat /\ GptTail \in Nat
        /\ Alignment \in Nat
    BY <1>3, <1>4, <1>8, SmartAssumption, OperationAssumption DEF End
  <2> QED
    BY <1>12, <1>13, <2>1, <2>2
<1> QED
  BY <1>8, <1>11, <1>16, <1>17, <1>18 DEF last

(* What steps do to the table of the source, and to the disk it is on.     *)
Evolves ==
  \/ UNCHANGED layout
  \/ /\ "parts" \in DOMAIN layout'
     /\ \E n, s : /\ Becomes(layout.parts, layout'.parts, n, s)
                  /\ n = 0 \/ (IsLast(n) /\ \A q \in made.parts : q.num = n => s <= q.size)
     /\ UsedKept(layout.parts, layout'.parts) \/ "grow" \in harm'
     /\ UsedFits(layout'.parts)
SystemStays ==
  attached[Source].system => attached'[Source].system /\ attached'[Source].id = attached[Source].id
Grows == \A fault \in harm : fault \in harm'

LEMMA SizesOfPlan ==
  ASSUME LayoutKnown, NEW plan, Reduces(plan)
  PROVE  /\ {plan.from, plan.to, plan.from - 1} \subseteq Nat \ {0}
         /\ \A s \in {plan.from, plan.to, plan.from - 1} :
              \A q \in made.parts : q.num = plan.shrink => s <= q.size
<1>1. \A q \in made.parts : q.size \in Nat
  BY PartitionFields DEF LayoutKnown, MadeKnown
<1>2. /\ plan.from \in Nat \ {0} /\ plan.to \in 1 .. plan.from - 1
      /\ \A q \in made.parts : q.num = plan.shrink => plan.from <= q.size
  BY DEF Reduces
<1>3. {plan.from, plan.to, plan.from - 1} \subseteq Nat \ {0}
  BY <1>2
<1> QED
  BY <1>1, <1>2, <1>3

(* The size Windows reduces a partition to is near the plan's, and none a  *)
(* partition has not room for.                                             *)
LEMMA SizeReached ==
  ASSUME LayoutKnown, NEW plan, Reduces(plan), NEW size, Reached(plan, size)
  PROVE  /\ size \in Nat \ {0} /\ size \in plan.to - Alignment .. plan.to + Alignment
         /\ \A q \in made.parts : q.num = plan.shrink => size <= q.size
         /\ size = plan.to \/ ("resize" \in harm' /\ \A p \in layout.parts :
                                                   p.num = plan.shrink => p.min <= size)
<1>1. Alignment \in Nat /\ plan.to \in Nat \ {0}
  BY SizesOfPlan, SmartAssumption
<1>2. CASE size = plan.to
  BY <1>1, <1>2, SizesOfPlan
<1>3. CASE size \in Near(plan) /\ "resize" \in harm'
  <2>1. size \in plan.to - Alignment .. plan.to + Alignment
    BY <1>3 DEF Near
  <2> PICK p \in layout.parts : p.num = plan.shrink /\ size \in Larger(p.min, 1) .. p.size
    BY <1>3 DEF Near
  <2>2. p.size \in Nat /\ p.min \in Nat
    BY PartitionFields DEF LayoutKnown, Shaped
  <2>3. size \in Nat \ {0} /\ p.min <= size /\ size <= p.size
    <3>1. size \in Int /\ Larger(p.min, 1) <= size /\ size <= p.size
      BY <1>1, <2>1, <2>2 DEF Larger
    <3> QED
      BY <2>2, <3>1 DEF Larger
  <2>4. \A q \in made.parts : q.num = plan.shrink => size <= q.size
    <3>1. \A q \in made.parts : q.size \in Nat /\ (q.num = plan.shrink => p.size <= q.size)
      BY PartitionFields DEF LayoutKnown, MadeKnown, Shaped
    <3> QED
      BY <2>2, <2>3, <3>1
  <2>5. \A q \in layout.parts : q.num = plan.shrink => q.min <= size
    BY <2>3 DEF LayoutKnown, Shaped
  <2> QED
    BY <1>3, <2>1, <2>3, <2>4, <2>5
<1> QED
  BY <1>2, <1>3 DEF Reached

LEMMA ResizedEvolves ==
  ASSUME LayoutKnown, NEW plan, Reduces(plan), NEW s,
         s \in {plan.from, plan.to, plan.from - 1} \/ Reached(plan, s),
         layout' = Resized(plan.shrink, s)
  PROVE  Evolves
<1>1. s \in Nat \ {0} /\ \A q \in made.parts : q.num = plan.shrink => s <= q.size
  BY SizesOfPlan, SizeReached
<1>2. /\ "parts" \in DOMAIN layout' /\ Becomes(layout.parts, layout'.parts, plan.shrink, s)
      /\ UsedKept(layout.parts, layout'.parts) /\ UsedFits(layout'.parts)
  BY <1>1, ResizedBecomes
<1>3. IsLast(plan.shrink)
  BY DEF Reduces
<1> QED
  BY <1>1, <1>2, <1>3 DEF Evolves

LEMMA ReturnsEvolves ==
  ASSUME LayoutKnown, NEW o, Migrates(o), Returns(o)
  PROVE  Evolves
<1>1. CASE o.shrunk /\ layout' = Resized(o.plan.shrink, o.plan.from)
  BY <1>1, ResizedEvolves DEF Migrates
<1> QED
  BY <1>1 DEF Returns, Evolves

LEMMA GoroutineEvolves ==
  ASSUME ControlInv, LayoutInv, NEW i \in Ops, Goroutine(i)
  PROVE  Evolves
<1>0. /\ Typed /\ DisksKnown /\ LayoutKnown /\ Migrates(op[i]) /\ ShrinkPlanned(op[i])
  BY DEF ControlInv, LayoutInv, PlansKnown
<1>1. CASE UNCHANGED layout
  BY <1>1 DEF Evolves
<1>2. CASE Revalidate(i) \/ Access(i) \/ Lock(i) \/ Open(i) \/ CreateSnapshots(i)
           \/ OpenSnapshots(i) \/ Copy(i) \/ Release(i) \/ Cleanup(i) \/ Finish(i) \/ RunRecovery(i)
  BY <1>0, <1>1, <1>2, RevalidateEffect, AccessEffect, LockEffect, OpenEffect,
     CreateSnapshotsEffect, OpenSnapshotsEffect, CopyEffect, ReleaseEffect, EndEffect
     DEF SourceStays
<1>3. CASE Replan(i)
  BY <1>1, <1>3 DEF Replan
<1>4. CASE Shrink(i)
  <2>1. op[i].shrunk /\ Reduces(op[i].plan)
    BY <1>0, <1>4, ShrinkEffect DEF ShrinkPlanned, Migrates
  <2>2. \/ UNCHANGED layout
        \/ \E s : /\ s \in {op[i].plan.from, op[i].plan.to, op[i].plan.from - 1}
                       \/ Reached(op[i].plan, s)
                  /\ layout' = Resized(op[i].plan.shrink, s)
    BY <1>0, <1>4, ShrinkEffect
  <2> QED
    BY <1>0, <1>1, <2>1, <2>2, ResizedEvolves
<1>5. CASE Unshrink(i) \/ Restore(i) \/ CleanupRestore(i)
  <2>1. Returns(op[i])
    BY <1>0, <1>5, UnshrinkEffect, RestoreEffect, CleanupRestoreEffect
  <2> QED
    BY <1>0, <2>1, ReturnsEvolves
<1> QED
  BY <1>2, <1>3, <1>4, <1>5 DEF Goroutine, Prepare, Leave

LEMMA StepOfSource ==
  ASSUME ControlInv, LayoutInv, [Next]_vars
  PROVE  Evolves /\ SystemStays /\ UNCHANGED made /\ Grows
<1>0. Typed /\ DisksKnown /\ LayoutKnown /\ Source \in Slots
  BY DEF ControlInv, LayoutInv, DisksKnown
<1>1. CASE UNCHANGED <<layout, attached, made, harm>>
  BY <1>1 DEF Evolves, SystemStays, Grows
<1>2. CASE UNCHANGED vars
  BY <1>1, <1>2 DEF vars, machine, history
<1>3. CASE Window
  <2>1. CASE \/ RefreshDisks \/ DisksListed \/ StartRecovery \/ Decline
             \/ \E mode \in {"offline", "vss", "smart"}, slot \in Slots : StartClone(mode, slot)
    BY <1>1, <2>1 DEF RefreshDisks, DisksListed, StartRecovery, Decline, StartClone, machine, history
  <2>2. CASE Cancel
    BY <1>0, <2>2, CancelEffect DEF Quiet, DisksStay, SourceStays, Evolves, SystemStays, Grows
  <2>3. CASE Confirm
    BY <1>1, <2>3 DEF Confirm, machine
  <2>4. CASE Quit
    BY <1>0, <2>4, QuitEffect DEF DisksStay, SourceStays, Evolves, SystemStays, Grows
  <2> QED
    BY <1>3, <2>1, <2>2, <2>3, <2>4 DEF Window
<1>4. ASSUME NEW slot \in Slots, Swap(slot)
      PROVE  Evolves /\ SystemStays /\ UNCHANGED made /\ Grows
  BY <1>0, <1>4, SwapEffect DEF Evolves, SystemStays, Grows
<1>5. ASSUME NEW slot \in Slots, RunRestoreScript(slot)
      PROVE  Evolves /\ SystemStays /\ UNCHANGED made /\ Grows
  <2>1. Reduces(planFile[slot])
    BY <1>5 DEF RunRestoreScript, Restores, LayoutInv, PlansKnown
  <2>2. /\ layout' = Resized(planFile[slot].shrink, planFile[slot].from)
        /\ UNCHANGED <<attached, made, harm>>
    BY <1>5 DEF RunRestoreScript, history
  <2> QED
    BY <1>0, <2>1, <2>2, ResizedEvolves DEF SystemStays, Grows
<1>6. ASSUME NEW p \in layout.parts, Grow(p)
      PROVE  Evolves /\ SystemStays /\ UNCHANGED made /\ Grows
  <2>1. UNCHANGED <<attached, history>>
    BY <1>6, Zenon DEF Grow
  <2>2. /\ "parts" \in DOMAIN layout' /\ Becomes(layout.parts, layout'.parts, 0, 0)
        /\ UsedFits(layout'.parts) /\ "grow" \in harm' /\ \A fault \in harm : fault \in harm'
    BY <1>0, <1>6, GrowBecomes
  <2> QED
    BY <2>1, <2>2 DEF Evolves, SystemStays, Grows, history
<1>7. ASSUME NEW i \in Ops, Goroutine(i)
      PROVE  Evolves /\ SystemStays /\ UNCHANGED made /\ Grows
  <2>1. SystemStays
    BY <1>0, <1>7, DisksAfterGoroutine DEF Relettered, SystemStays
  <2> QED
    BY <1>7, <2>1, GoroutineEvolves, QuietGoroutine DEF Quiet, Grows
<1> QED
  BY <1>2, <1>3, <1>4, <1>5, <1>6, <1>7 DEF Next, World

LEMMA EvolvesKnown ==
  ASSUME LayoutKnown, Evolves, UNCHANGED made, Grows
  PROVE  /\ LayoutKnown'
         /\ \A o : Reduces(o.plan) /\ (\A p \in layout.parts : Fits(o, p))
                     => \A p \in layout'.parts : Fits(o, p)'
<1>1. CASE UNCHANGED layout
  <2>1. LayoutKnown'
    BY <1>1 DEF LayoutKnown, Shaped, UsedFits, MadeKnown, IsLast
  <2> QED
    BY <1>1, <2>1 DEF Fits, Grows
<1>2. CASE ~UNCHANGED layout
  <2> PICK n, s : /\ Becomes(layout.parts, layout'.parts, n, s)
                  /\ n = 0 \/ (IsLast(n) /\ \A q \in made.parts : q.num = n => s <= q.size)
    BY <1>2 DEF Evolves
  <2>1. /\ "parts" \in DOMAIN layout'
        /\ UsedKept(layout.parts, layout'.parts) \/ "grow" \in harm'
        /\ UsedFits(layout'.parts)
    BY <1>2 DEF Evolves
  <2>2. Shaped(layout'.parts)
    BY StaysShaped DEF LayoutKnown
  <2>3. LayoutKnown'
    BY <2>1, <2>2 DEF LayoutKnown, Shaped, UsedFits, MadeKnown, IsLast
  <2>4. ASSUME NEW o, Reduces(o.plan), \A p \in layout.parts : Fits(o, p), NEW e \in layout'.parts
        PROVE  Fits(o, e)'
    <3> PICK p \in layout.parts : Turns(p, e, n, s)
      BY DEF Becomes
    <3>1. p.num # 0
      BY PartitionFields DEF LayoutKnown, Shaped
    <3>2. p.num = n => p.num = o.plan.shrink
      BY <2>4, <3>1, OneLast DEF LayoutKnown, Reduces
    <3>3. p.num = e.num /\ p.off = e.off /\ p.kind = e.kind
      BY DEF Turns, Same
    <3>4. p.used = e.used \/ "grow" \in harm'
      BY <2>1, <3>3 DEF UsedKept
    <3>5. (IF p.num = o.plan.shrink THEN o.plan.to ELSE p.size)
            = (IF e.num = o.plan.shrink THEN o.plan.to ELSE e.size)
      BY <3>2, <3>3 DEF Turns
    <3>6. Fits(o, p)
      BY <2>4
    <3> QED
      BY <3>3, <3>4, <3>5, <3>6 DEF Fits, Grows
  <2> QED
    BY <2>3, <2>4
<1> QED
  BY <1>1, <1>2

LEMMA ReducesKept ==
  ASSUME UNCHANGED made, SystemStays, NEW plan, Reduces(plan)
  PROVE  Reduces(plan)'
BY DEF Reduces, SystemStays, IsLast

(* An operation that does not change keeps what it knows of its plan.      *)
LEMMA PlanOfOthers ==
  ASSUME ControlInv, LayoutInv, [Next]_vars, NEW i \in Ops,
         op'[i].pc = op[i].pc, op'[i].shrunk = op[i].shrunk, op'[i].plan = op[i].plan,
         op'[i].src = op[i].src, op'[i].tgt = op[i].tgt
  PROVE  Migrates(op[i])' /\ ShrinkPlanned(op[i])'
<1>0. /\ Evolves /\ SystemStays /\ UNCHANGED made /\ Grows
      /\ Migrates(op[i]) /\ ShrinkPlanned(op[i]) /\ LayoutKnown
  BY StepOfSource DEF LayoutInv, PlansKnown
<1>1. Migrates(op[i])'
  BY <1>0, ReducesKept DEF Migrates, SystemStays
<1>2. ShrinkPlanned(op[i])'
  <2> SUFFICES ASSUME op[i].pc = "shrink" PROVE op'[i].shrunk /\ \A p \in layout'.parts : Fits(op[i], p)'
    BY DEF ShrinkPlanned
  <2>1. op[i].shrunk /\ Reduces(op[i].plan) /\ \A p \in layout.parts : Fits(op[i], p)
    BY <1>0 DEF ShrinkPlanned, Migrates
  <2>2. \A p \in layout'.parts : Fits(op[i], p)'
    <3> DEFINE o == op[i]
    <3>1. \A p \in layout'.parts :
            LET size == IF p.num = o.plan.shrink THEN o.plan.to ELSE p.size
            IN  /\ p.kind # "recovery" => p.off + size <= o.tgt.size - GptTail - Alignment
                /\ p.num = o.plan.shrink /\ p.used > 0
                     => p.used + MinFree <= size \/ "grow" \in harm'
      BY <1>0, <2>1, EvolvesKnown DEF Fits
    <3> QED
      BY <3>1 DEF Fits
  <2> QED
    BY <2>1, <2>2
<1> QED
  BY <1>1, <1>2

LEMMA LayoutStays ==
  ASSUME ControlInv, LayoutInv, [Next]_vars,
         \A s \in Slots' : planFile'[s].shrink # 0 => Reduces(planFile'[s]),
         \A i \in Ops :
           \/ /\ op'[i].pc = op[i].pc /\ op'[i].shrunk = op[i].shrunk /\ op'[i].plan = op[i].plan
              /\ op'[i].src = op[i].src /\ op'[i].tgt = op[i].tgt
           \/ Migrates(op[i])' /\ ShrinkPlanned(op[i])'
  PROVE  LayoutInv'
<1>1. /\ Evolves /\ SystemStays /\ UNCHANGED made /\ Grows
  BY StepOfSource
<1>2. LayoutKnown'
  BY <1>1, EvolvesKnown DEF LayoutInv
<1>3. \A s \in Slots' : planFile'[s].shrink # 0 => Reduces(planFile[s])'
  BY <1>1, ReducesKept
<1> QED
  BY <1>2, <1>3, PlanOfOthers DEF LayoutInv, PlansKnown

LEMMA SlotsStay ==
  ASSUME ControlInv, [Next]_vars
  PROVE  Slots' = Slots
<1>1. ControlInv'
  BY ControlStep
<1>2. CASE UNCHANGED attached
  BY <1>2 DEF Slots
<1>3. ASSUME NEW slot \in Slots, Swap(slot)
      PROVE  Slots' = Slots
  BY <1>3, SwapEffect DEF Slots, ControlInv
<1>4. ASSUME NEW i \in Ops, Goroutine(i)
      PROVE  Slots' = Slots
  BY <1>2, <1>4, DisksAfterGoroutine DEF Relettered, Slots
<1>5. ASSUME NEW p \in layout.parts, Grow(p)
      PROVE  UNCHANGED attached
  BY <1>5, Zenon DEF Grow
<1>6. CASE Window
  BY <1>2, <1>6 DEF Window, RefreshDisks, DisksListed, StartRecovery, Confirm, Decline, Cancel,
     Quit, StartClone, machine
<1> QED
  BY <1>2, <1>3, <1>4, <1>5, <1>6 DEF Next, World, RunRestoreScript, vars, machine

(* What a step of an operation does to its own plan and to the plan files. *)
LEMMA LayoutGoroutine ==
  ASSUME ControlInv, LayoutInv, NEW i \in Ops, Goroutine(i)
  PROVE  LayoutInv'
<1> USE FieldNames
<1>0. /\ Typed /\ DisksKnown /\ LayoutKnown /\ Migrates(op[i]) /\ ShrinkPlanned(op[i])
      /\ \A s \in Slots : planFile[s].shrink # 0 => Reduces(planFile[s])
      /\ [Next]_vars
      /\ op[i].pc \notin NoTarget => Chosen(op[i])
  BY DEF ControlInv, LayoutInv, PlansKnown, Next, DisksKnown
<1>1. Slots' = Slots /\ SystemStays /\ UNCHANGED made
  BY <1>0, SlotsStay, StepOfSource
<1>2. \A j \in Ops \ {i} : op'[j] = op[j]
  BY MoveOf DEF Moves
<1>3. ASSUME UNCHANGED planFile, Migrates(op[i])', op'[i].pc # "shrink"
      PROVE  LayoutInv'
  BY <1>0, <1>1, <1>2, <1>3, LayoutStays DEF ShrinkPlanned
<1>4. CASE Revalidate(i)
  <2>1. /\ op[i].pc = "revalidate" /\ Chosen(op[i]) /\ UNCHANGED <<planFile, attached>>
        /\ op'[i].shrunk = op[i].shrunk /\ op'[i].pc \in {"replan", "access", "cleanup"}
        /\ op'[i].pc = "replan" => op'[i].src = attached[op[i].src.slot]
    BY <1>0, <1>4, RevalidateEffect DEF GoesOn, GivesUp, Touches, SourceStays, DisksStay,
       NoTarget, Idle
  <2>2. op'[i].shrunk => FALSE
    BY <1>0, <2>1 DEF Migrates
  <2>3. Migrates(op[i])'
    BY <2>1, <2>2 DEF Migrates, Chosen
  <2> QED
    BY <2>1, <2>3, <1>3
<1>5. CASE \/ Access(i) \/ Lock(i) \/ Open(i) \/ CreateSnapshots(i) \/ OpenSnapshots(i)
           \/ Copy(i) \/ Release(i) \/ Cleanup(i)
  <2>1. /\ UNCHANGED planFile
        /\ op'[i].shrunk = op[i].shrunk /\ op'[i].plan = op[i].plan
        /\ op'[i].pc \in {"lock", "snapshots", "openSnapshots", "copy", "close", "restore",
                          "cleanup", "cleanupRestore"}
    <3>1. CASE Access(i) \/ Lock(i) \/ Open(i)
      BY ZenonT(60), <1>0, <3>1, AccessEffect, LockEffect, OpenEffect
         DEF GoesOn, GivesUp, Touches, SourceStays
    <3>2. CASE CreateSnapshots(i) \/ OpenSnapshots(i) \/ Copy(i)
      BY ZenonT(60), <1>0, <3>2, CreateSnapshotsEffect, OpenSnapshotsEffect, CopyEffect
         DEF GoesOn, GivesUp, Touches, SourceStays
    <3>3. CASE Release(i) \/ Cleanup(i)
      BY ZenonT(60), <1>0, <3>3, ReleaseEffect DEF GoesOn, Touches, SourceStays
    <3> QED
      BY <1>5, <3>1, <3>2, <3>3
  <2>2. Migrates(op[i])'
    BY <1>0, <1>1, <2>1, ReducesKept DEF Migrates, NoTarget, Idle
  <2> QED
    BY <2>1, <2>2, <1>3
<1>6. CASE Finish(i) \/ RunRecovery(i)
  <2>1. /\ op[i].pc \in {"finish", "recover"} /\ op'[i].pc = "ended" /\ UNCHANGED planFile
        /\ op'[i].shrunk = op[i].shrunk
    BY <1>0, <1>6, EndEffect DEF Touches, SourceStays
  <2>2. Migrates(op[i])'
    BY <1>0, <2>1 DEF Migrates, NoTarget, Idle
  <2> QED
    BY <2>1, <2>2, <1>3
<1>7. CASE Unshrink(i) \/ Restore(i) \/ CleanupRestore(i)
  <2>1. /\ op'[i].pc \in {"cleanup", "finish", "ended"} /\ UNCHANGED planFile
        /\ op'[i].shrunk = FALSE
    BY <1>0, <1>7, UnshrinkEffect, RestoreEffect, CleanupRestoreEffect DEF GivesUp, GoesOn
  <2>2. Migrates(op[i])'
    BY <2>1 DEF Migrates
  <2> QED
    BY <2>1, <2>2, <1>3
<1>8. CASE Replan(i)
  <2> DEFINE plan == BuildPlan(op[i].src, op[i].tgt, layout)
             slot == op[i].tgt.slot
  <2>1. /\ op[i].pc = "replan" /\ UNCHANGED <<layout, attached>>
        /\ \/ GivesUp(i, {}) /\ UNCHANGED planFile
           \/ GivesUp(i, {}) /\ \E left \in {NoPlan, planFile[slot]} : Records(slot, left)
           \/ /\ GoesOn(i, {"plan", "shrunk"}, IF plan.shrink # 0 THEN "shrink" ELSE "access")
              /\ Records(slot, plan)
              /\ op'[i].plan = plan /\ op'[i].shrunk = (plan.shrink # 0)
    BY <1>0, <1>8, ReplanEffect DEF DisksStay
  <2>2. Chosen(op[i]) /\ op[i].tgt.size \in Nat
    <3>1. Chosen(op[i])
      BY <1>0, <2>1 DEF NoTarget, Idle
    <3>2. op[i].tgt \in Disk
      BY <3>1 DEF Chosen
    <3> QED
      BY <3>1, <3>2, Zenon DEF Disk
  <2> HIDE DEF plan
  <2>3. ASSUME plan.shrink # 0
        PROVE  /\ Reduces(plan)
               /\ \A p \in layout.parts :
                    LET size == IF p.num = plan.shrink THEN plan.to ELSE p.size
                    IN  /\ p.kind # "recovery" => p.off + size <= op[i].tgt.size - GptTail - Alignment
                        /\ p.num = plan.shrink /\ p.used > 0 => p.used + MinFree <= size
    <3> PICK last \in layout.parts :
           /\ plan.shrink = last.num /\ plan.from = last.size /\ plan.source = op[i].src.id
           /\ op[i].src.system /\ IsLast(last.num)
           /\ plan.to \in 1 .. last.size - 1
           /\ last.off + plan.to <= op[i].tgt.size - GptTail - Alignment
           /\ last.used > 0 => last.used + MinFree <= plan.to
           /\ \A p \in layout.parts :
                p # last /\ p.kind # "recovery" => End(p) <= op[i].tgt.size - GptTail - Alignment
      BY <1>0, <2>2, <2>3, PlanReduces DEF plan
    <3>1. last \in Partition /\ \A p \in layout.parts : p.num = last.num => p = last
      BY <1>0 DEF LayoutKnown, Shaped
    <3>2. last.size \in Nat \ {0} /\ last.num # 0
      BY <3>1, PartitionFields
    <3>3. attached[Source].system /\ attached[Source].id = op[i].src.id
      BY <1>0, <2>1 DEF Migrates
    <3>4. \A q \in made.parts : q.num = last.num => last.size <= q.size
      BY <1>0 DEF LayoutKnown, Shaped
    <3>5. Reduces(plan)
      BY <3>2, <3>3, <3>4 DEF Reduces
    <3> QED
      BY <3>1, <3>5 DEF End
  <2>4. \A s \in Slots : planFile'[s].shrink # 0 => Reduces(planFile'[s])
    BY <1>0, <2>1, <2>3 DEF Records, NoPlan
  <2>5. CASE GivesUp(i, {})
    <3>1. op'[i].pc = "cleanup" /\ op'[i].shrunk = op[i].shrunk
      BY <2>5 DEF GivesUp, Touches
    <3>2. Migrates(op[i])' /\ ShrinkPlanned(op[i])'
      BY <1>0, <2>1, <3>1 DEF Migrates, ShrinkPlanned
    <3> QED
      BY <1>0, <1>1, <1>2, <2>4, <3>2, LayoutStays
  <2>6. CASE ~GivesUp(i, {})
    <3>1. /\ op'[i].pc = IF plan.shrink # 0 THEN "shrink" ELSE "access"
          /\ op'[i].plan = plan /\ op'[i].shrunk = (plan.shrink # 0)
          /\ op'[i].tgt = op[i].tgt
      BY <2>1, <2>6 DEF GoesOn, Touches
    <3>2. Migrates(op[i])'
      BY <1>1, <2>3, <3>1, ReducesKept DEF Migrates, NoTarget, Idle
    <3>3. ShrinkPlanned(op[i])'
      BY <2>1, <2>3, <3>1 DEF ShrinkPlanned, Fits
    <3> QED
      BY <1>0, <1>1, <1>2, <2>4, <3>2, <3>3, LayoutStays
  <2> QED
    BY <2>5, <2>6
<1>9. CASE Shrink(i)
  <2> DEFINE slot == op[i].tgt.slot
  <2>1. /\ op[i].pc = "shrink" /\ op'[i].pc \in {"access", "unshrink"}
        /\ op'[i].shrunk = op[i].shrunk /\ op'[i].plan = op[i].plan
        /\ \/ UNCHANGED planFile
           \/ \E text \in {NoPlan, op[i].plan} : Records(slot, text)
    BY <1>0, <1>9, ShrinkEffect DEF GoesOn, Touches
  <2>2. op[i].shrunk /\ Reduces(op[i].plan)
    BY <1>0, <2>1 DEF ShrinkPlanned, Migrates
  <2>3. \A s \in Slots : planFile'[s].shrink # 0 => Reduces(planFile'[s])
    BY <1>0, <2>1, <2>2 DEF Records, NoPlan
  <2>4. Migrates(op[i])' /\ ShrinkPlanned(op[i])'
    BY <1>1, <2>1, <2>2, ReducesKept DEF Migrates, ShrinkPlanned, NoTarget, Idle
  <2> QED
    BY <1>0, <1>1, <1>2, <2>3, <2>4, LayoutStays
<1> QED
  BY <1>4, <1>5, <1>6, <1>7, <1>8, <1>9 DEF Goroutine, Prepare, Leave

LEMMA LayoutStep == ControlInv /\ LayoutInv /\ [Next]_vars => LayoutInv'
<1> SUFFICES ASSUME ControlInv, LayoutInv, [Next]_vars PROVE LayoutInv'
  OBVIOUS
<1>0. /\ Typed /\ DisksKnown /\ Slots' = Slots
      /\ \A s \in Slots : planFile[s].shrink # 0 => Reduces(planFile[s])
  BY SlotsStay DEF ControlInv, LayoutInv, PlansKnown
<1>1. CASE UNCHANGED <<op, planFile>>
  BY <1>0, <1>1, LayoutStays
<1>2. CASE UNCHANGED vars
  BY <1>1, <1>2 DEF vars, machine
<1>3. CASE Window
  <2>1. CASE \/ RefreshDisks \/ DisksListed \/ StartRecovery \/ Decline
             \/ \E mode \in {"offline", "vss", "smart"}, slot \in Slots : StartClone(mode, slot)
    BY <1>1, <2>1 DEF RefreshDisks, DisksListed, StartRecovery, Decline, StartClone, machine
  <2>2. CASE Cancel
    <3>1. latest \in Ops /\ Touches(latest, {"cancelled"}) /\ UNCHANGED planFile
      BY <1>0, <2>2, CancelEffect DEF SourceStays
    <3>2. \A i \in Ops : /\ op'[i].pc = op[i].pc /\ op'[i].shrunk = op[i].shrunk
                         /\ op'[i].plan = op[i].plan
                         /\ op'[i].src = op[i].src /\ op'[i].tgt = op[i].tgt
      BY <3>1, FieldNames DEF Touches
    <3> QED
      BY <1>0, <3>1, <3>2, LayoutStays
  <2>3. CASE Confirm
    <3>0. ui # NoDialog /\ Unused # {}
      BY <2>3 DEF Confirm, ControlInv, OneAtWork
    <3> PICK i \in Unused :
           /\ Touches(i, Fields) /\ op'[i].shrunk = FALSE /\ UNCHANGED planFile
           /\ op'[i].pc = IF ui.mode = "recovery" THEN "recover" ELSE "revalidate"
      BY <1>0, <2>3, <3>0, ConfirmEffect DEF SourceStays
    <3>1. Migrates(op[i])' /\ ShrinkPlanned(op[i])'
      BY DEF Migrates, ShrinkPlanned
    <3>2. \A j \in Ops \ {i} : op'[j] = op[j]
      BY DEF Touches
    <3> QED
      BY <1>0, <3>1, <3>2, LayoutStays
  <2>4. CASE Quit
    <3>1. /\ \A i \in Ops : op'[i].pc \in Idle /\ op'[i].shrunk = FALSE
          /\ UNCHANGED planFile
      BY <1>0, <2>4, QuitEffect DEF Idle, SourceStays
    <3>2. \A i \in Ops : Migrates(op[i])' /\ ShrinkPlanned(op[i])'
      BY <3>1 DEF Migrates, ShrinkPlanned, Idle
    <3> QED
      BY <1>0, <3>1, <3>2, LayoutStays
  <2> QED
    BY <1>3, <2>1, <2>2, <2>3, <2>4 DEF Window
<1>4. CASE World
  <2>1. ASSUME NEW p \in layout.parts, Grow(p)
        PROVE  UNCHANGED <<op, planFile>>
    BY <2>1, Zenon DEF Grow
  <2>2. UNCHANGED <<op, planFile>>
    BY <1>0, <1>4, <2>1, SwapEffect DEF World, RunRestoreScript
  <2> QED
    BY <1>1, <2>2
<1> QED
  BY <1>2, <1>3, <1>4, LayoutGoroutine DEF Next

LEMMA LayoutInit == Init => LayoutInv
<1> SUFFICES ASSUME Init PROVE LayoutInv
  OBVIOUS
<1> PICK m \in Machines :
      /\ attached = m.attached /\ layout = m.layout /\ made = m.layout
      /\ planFile = [slot \in DOMAIN m.attached |-> NoPlan] /\ op = [i \in Ops |-> NoOp]
  BY DEF Init
<1>1. /\ "parts" \in DOMAIN layout /\ made.parts = layout.parts
      /\ layout.parts \subseteq Partition /\ IsFiniteSet(layout.parts)
      /\ \A p, q \in layout.parts : p # q => p.num # q.num /\ (End(p) <= q.off \/ End(q) <= p.off)
  <2>1. m.layout \in [style : STRING, parts : SUBSET Partition]
    BY MachineAssumption
  <2>2. "parts" \in DOMAIN m.layout /\ m.layout.parts \subseteq Partition
    BY <2>1
  <2> QED
    BY <2>2, MachineAssumption
<1>2. \A p \in layout.parts : p.size <= p.size
  BY <1>1, PartitionFields
<1>3. Shaped(layout.parts)
  BY <1>1, <1>2 DEF Shaped, Same
<1>4. LayoutKnown
  BY <1>1, <1>3, MachineAssumption DEF LayoutKnown, MadeKnown, UsedFits
<1>5. PlansKnown
  <2>1. \A i \in Ops : op[i].pc = "none" /\ op[i].shrunk = FALSE
    BY DEF NoOp
  <2>2. \A s \in Slots : planFile[s].shrink = 0
    BY DEF NoPlan, Slots
  <2> QED
    BY <2>1, <2>2 DEF PlansKnown, Migrates, ShrinkPlanned
<1> QED
  BY <1>4, <1>5 DEF LayoutInv

LEMMA LayoutHolds == Spec => []LayoutInv
BY LayoutInit, LayoutStep, ControlHolds, PTL DEF Spec

(* The source is reduced only so far that its files and a reserve of free  *)
(* space stay, and all it needs to start Windows is before the backup      *)
(* table of the destination: what buildSmartMigrationPlan decided still    *)
(* holds for the table as it is when applySmartShrink reduces it, and for  *)
(* any size near the plan's that it accepts.  Files written meanwhile and a*)
(* Windows that chooses another size may take the reserve.                 *)
THEOREM NoneTooSmall == Spec => ShrinkSafe
<1>1. ASSUME ControlInv, LayoutInv, Next, NEW i \in Ops,
             op[i].pc = "shrink", op'[i].pc = "access", NEW e \in layout'.parts
      PROVE  /\ e.kind # "recovery" => End(e) <= op[i].tgt.size - GptTail
             /\ e.num = op[i].plan.shrink /\ e.used > 0 =>
                  e.used + (IF harm' \cap {"grow", "resize"} # {} THEN 0 ELSE MinFree) <= e.size
  <2>0. Typed /\ LayoutKnown /\ Migrates(op[i]) /\ ShrinkPlanned(op[i])
    BY <1>1 DEF ControlInv, LayoutInv, PlansKnown
  <2>1. Shrink(i)
    <3>1. ASSUME NEW j \in Ops, Goroutine(j)
          PROVE  i = j
      BY <1>1, <3>1, MoveOf DEF Moves
    <3>2. Goroutine(i) => Shrink(i)
      BY <1>1 DEF Goroutine, Prepare, Copy, Leave, Revalidate, Replan, Unshrink, Access, Lock, Open,
         CreateSnapshots, OpenSnapshots, CopyChunk, CopyEnds, Adapt, Release, Restore, Finish,
         Cleanup, CleanupRestore, RunRecovery
    <3>3. CASE World
      <4>1. ASSUME NEW p \in layout.parts, Grow(p)
            PROVE  UNCHANGED op
        BY <4>1, Zenon DEF Grow
      <4>2. UNCHANGED op
        BY <3>3, <4>1 DEF World, Swap, RunRestoreScript
      <4> QED
        BY <1>1, <4>2
    <3>4. CASE Window
      <4>1. CASE Cancel
        BY <1>1, <2>0, <4>1, CancelEffect, FieldNames DEF Touches
      <4>2. CASE Quit
        BY <1>1, <2>0, <4>2, QuitEffect
      <4>3. CASE Confirm
        <5>1. Unused # {} /\ DisksKnown
          BY <1>1, <4>3 DEF Confirm, ControlInv, OneAtWork
        <5> PICK j \in Unused : Touches(j, Fields)
          BY <2>0, <4>3, <5>1, ConfirmEffect
        <5>2. i # j
          BY <1>1 DEF Unused
        <5> QED
          BY <1>1, <5>2 DEF Touches
      <4>4. CASE UNCHANGED op
        BY <1>1, <4>4
      <4> QED
        BY <3>4, <4>1, <4>2, <4>3, <4>4 DEF Window, RefreshDisks, DisksListed, StartRecovery,
           Decline, StartClone
    <3> QED
      BY <1>1, <3>1, <3>2, <3>3, <3>4 DEF Next
  <2> DEFINE plan == op[i].plan
  <2>2. /\ \E p \in layout.parts : p.num = plan.shrink /\ p.min <= plan.to
        /\ \E size : layout' = Resized(plan.shrink, size) /\ Reached(plan, size)
    BY <1>1, <2>0, <2>1, ShrinkEffect DEF GoesOn
  <2>3. /\ Reduces(plan) /\ \A p \in layout.parts : Fits(op[i], p)
        /\ \A fault \in harm : fault \in harm'
    BY <1>1, <2>0, <2>1, ShrinkEffect DEF ShrinkPlanned, Migrates, Quiet
  <2> PICK size : layout' = Resized(plan.shrink, size) /\ Reached(plan, size)
    BY <2>2
  <2>4. /\ plan.to \in Nat \ {0} /\ size \in Nat \ {0} /\ size <= plan.to + Alignment
        /\ size = plan.to \/ ("resize" \in harm' /\ \A p \in layout.parts :
                                                  p.num = plan.shrink => p.min <= size)
    BY <2>0, <2>3, SizesOfPlan, SizeReached
  <2>5. /\ Becomes(layout.parts, layout'.parts, plan.shrink, size)
        /\ UsedKept(layout.parts, layout'.parts)
    BY <2>0, <2>4, ResizedBecomes
  <2> PICK p \in layout.parts : Turns(p, e, plan.shrink, size)
    BY <1>1, <2>5 DEF Becomes
  <2>6. /\ p.num = e.num /\ p.off = e.off /\ p.kind = e.kind /\ p.used = e.used
        /\ e.size = IF p.num = plan.shrink THEN size ELSE p.size
    BY <1>1, <2>5 DEF Turns, Same, UsedKept
  <2>7. p.num = plan.shrink => p.used <= p.min /\ p.min <= size
    BY <2>0, <2>2, <2>4 DEF LayoutKnown, UsedFits, Shaped
  <2>8. /\ p.used \in Nat /\ p.min \in Nat /\ p.off \in Nat /\ p.size \in Nat
        /\ MinFree \in Nat /\ Alignment \in Nat
    BY <2>0, PartitionFields, SmartAssumption DEF LayoutKnown, Shaped
  <2>9. Fits(op[i], p)
    BY <2>3
  <2> HIDE DEF plan
  <2>10. p.kind # "recovery" => p.off + e.size <= op[i].tgt.size - GptTail
    <3>1. op[i].tgt.size \in Nat /\ GptTail \in Nat
      <4>1. op[i].tgt \in Disk
        BY <1>1 DEF ControlInv, DisksKnown, Chosen, NoTarget, Idle
      <4> QED
        BY <4>1, OperationAssumption, Zenon DEF Disk
    <3> QED
      BY <2>4, <2>6, <2>8, <2>9, <3>1 DEF Fits, plan
  <2>11. p.num = plan.shrink /\ p.used > 0 =>
           p.used + MinFree <= e.size \/ harm' \cap {"grow", "resize"} # {}
    BY <2>3, <2>4, <2>6, <2>9 DEF Fits, plan
  <2>12. p.num = plan.shrink => p.used <= e.size
    BY <2>4, <2>6, <2>7, <2>8
  <2> QED
    BY <2>6, <2>8, <2>10, <2>11, <2>12 DEF End, plan
<1>2. ControlInv /\ LayoutInv /\ [Next]_vars =>
        [\A i \in Ops : op[i].pc = "shrink" /\ op'[i].pc = "access" =>
           \A p \in layout'.parts :
             /\ p.kind # "recovery" => End(p) <= op[i].tgt.size - GptTail
             /\ p.num = op[i].plan.shrink /\ p.used > 0 =>
                  p.used + (IF harm' \cap {"grow", "resize"} # {} THEN 0 ELSE MinFree) <= p.size]_vars
  BY <1>1
<1> QED
  BY <1>2, ControlHolds, LayoutHolds, PTL DEF Spec, ShrinkSafe

-----------------------------------------------------------------------------
(* The source gets its sizes back, or can.                                 *)

(* The sizes of the table stay, whatever is written to its volumes.        *)
Steady ==
  \/ UNCHANGED layout
  \/ "parts" \in DOMAIN layout' /\ Becomes(layout.parts, layout'.parts, 0, 0)

LEMMA AsMadeKept ==
  ASSUME LayoutKnown, Steady, UNCHANGED made
  PROVE  AsMade' <=> AsMade
<1>1. CASE UNCHANGED layout
  BY <1>1 DEF AsMade, HasSizes
<1>2. CASE Becomes(layout.parts, layout'.parts, 0, 0)
  <2>1. HasSizes(layout'.parts) <=> HasSizes(layout.parts)
    BY <1>2, StaysAsMade DEF LayoutKnown
  <2> QED
    BY <2>1 DEF AsMade, HasSizes
<1> QED
  BY <1>1, <1>2 DEF Steady

LEMMA RestoresKept ==
  ASSUME LayoutKnown, Steady, SystemStays, NEW plan, Reduces(plan), Restores(plan)
  PROVE  Restores(plan)'
<1>1. PICK p \in layout.parts : /\ p.num = plan.shrink
                                /\ p.size \in plan.to - Alignment .. plan.to + Alignment
  BY DEF Restores
<1>2. plan.source = attached'[Source].id /\ plan.shrink # 0
  BY DEF Reduces, SystemStays
<1>3. \E e \in layout'.parts : e.num = p.num /\ e.size = p.size
  <2>1. CASE UNCHANGED layout
    BY <2>1
  <2>2. CASE Becomes(layout.parts, layout'.parts, 0, 0)
    <3>1. PICK e \in layout'.parts : Turns(p, e, 0, 0)
      BY <2>2 DEF Becomes
    <3> QED
      BY <1>1, <1>2, <3>1 DEF Turns, Same
  <2> QED
    BY <2>1, <2>2 DEF Steady
<1> QED
  BY <1>1, <1>2, <1>3 DEF Restores

LEMMA GivesBack ==
  ASSUME LayoutKnown, UNCHANGED made, NEW plan, Reduces(plan), HasSize(plan),
         layout' = Resized(plan.shrink, plan.from)
  PROVE  AsMade'
<1>1. plan.from \in Nat \ {0} /\ IsLast(plan.shrink)
  BY DEF Reduces
<1>2. Becomes(layout.parts, layout'.parts, plan.shrink, plan.from)
  BY <1>1, ResizedBecomes
<1>3. \A q \in made.parts : q.num = plan.shrink => plan.from = q.size
  BY DEF HasSize
<1>4. HasSizes(layout'.parts)
  BY <1>1, <1>2, <1>3, ComesBack DEF LayoutKnown
<1> QED
  BY <1>4 DEF AsMade, HasSizes

(* A step that writes no plan and reduces nothing keeps both parts.        *)
LEMMA SizeFrame ==
  ASSUME LayoutInv, SizeInv, SystemStays, Grows, Slots' = Slots,
         UNCHANGED <<made, planFile, replaced>>, tangled => tangled',
         \A j \in Ops :
           /\ op'[j].shrunk => op[j].shrunk /\ op'[j].plan = op[j].plan
           /\ op'[j].pc = "shrink" =>
                op[j].pc = "shrink" /\ op'[j].plan = op[j].plan /\ op'[j].tgt = op[j].tgt,
         \/ ~replaced => AsMade'
         \/ /\ Steady
            /\ \/ \A j \in Ops : op[j].shrunk => op'[j].shrunk
               \/ harm' \cap {"quit", "restore"} # {}
  PROVE  SizeInv'
<1>0. LayoutKnown /\ \A s \in Slots : planFile[s].shrink # 0 => Reduces(planFile[s])
  BY DEF LayoutInv, PlansKnown
<1>1. (~replaced => AsMade') \/ (Steady /\ (AsMade' <=> AsMade))
  BY <1>0, AsMadeKept
<1>2. ASSUME ~replaced
      PROVE  /\ \A s \in Slots' : planFile'[s].shrink # 0 => HasSize(planFile[s])'
             /\ \A j \in Ops : Kept(op[j])'
             /\ AsMade' \/ CanReturn'
  <2>1. /\ \A s \in Slots : planFile[s].shrink # 0 => HasSize(planFile[s])
        /\ \A j \in Ops : Kept(op[j])
        /\ AsMade \/ CanReturn
    BY <1>2 DEF SizeInv, SizeKept
  <2>2. \A s \in Slots' : planFile'[s].shrink # 0 => HasSize(planFile[s])'
    BY <2>1 DEF HasSize
  <2>3. \A j \in Ops : Kept(op[j])'
    BY <1>1, <1>2, <2>1 DEF Kept, HasSize
  <2>4. CASE CanReturn /\ Steady
    <3>1. PICK s \in Slots : /\ planFile[s].shrink # 0
                             /\ Restores(planFile[s]) \/ "resize" \in harm
      BY <2>4 DEF CanReturn
    <3>2. Restores(planFile[s]) => Restores(planFile[s])'
      BY <1>0, <2>4, <3>1, RestoresKept
    <3>3. planFile'[s].shrink # 0 /\ (Restores(planFile[s])' \/ "resize" \in harm')
      BY <3>1, <3>2 DEF Grows
    <3>4. s \in Slots'
      BY <3>1
    <3> QED
      BY <2>2, <2>3, <3>3, <3>4 DEF CanReturn
  <2> QED
    BY <1>1, <1>2, <2>1, <2>2, <2>3, <2>4
<1>3. SizeKept'
  BY <1>2 DEF SizeKept
<1>4. GivenBack'
  <2> SUFFICES ASSUME ~tangled', harm' \cap {"quit", "restore"} = {}
               PROVE  ~replaced' /\ ((\A j \in Ops : ~op'[j].shrunk) => AsMade')
    BY DEF GivenBack
  <2>1. ~tangled /\ harm \cap {"quit", "restore"} = {}
    BY DEF Grows
  <2>2. ~replaced /\ ((\A j \in Ops : ~op[j].shrunk) => AsMade)
    BY <2>1 DEF SizeInv, GivenBack
  <2> QED
    BY <1>1, <2>2
<1> QED
  BY <1>3, <1>4 DEF SizeInv

(* The plan of a source that has its sizes knows them, and only of such a  *)
(* source is there a plan that does.                                       *)
LEMMA PlanKnowsSize ==
  ASSUME LayoutKnown, NEW src, NEW tgt \in Disk,
         NEW plan, plan = BuildPlan(src, tgt, layout), plan.shrink # 0
  PROVE  HasSize(plan) <=> AsMade
<1>1. tgt.size \in Nat
  BY Zenon DEF Disk
<1> PICK last \in layout.parts : plan.shrink = last.num /\ plan.from = last.size /\ IsLast(last.num)
  BY <1>1, PlanReduces
<1>2. AsMade => HasSize(plan)
  BY DEF AsMade, HasSizes, HasSize
<1>3. ASSUME HasSize(plan), NEW p \in layout.parts, NEW q \in made.parts, p.num = q.num
      PROVE  p.size = q.size
  <2>1. p.size = q.size \/ IsLast(p.num)
    BY <1>3 DEF LayoutKnown, Shaped
  <2>2. CASE IsLast(p.num)
    <3>1. p.num = last.num
      BY <2>2, OneLast DEF LayoutKnown
    <3>2. p = last
      BY <3>1 DEF LayoutKnown, Shaped
    <3> QED
      BY <1>3, <3>2 DEF HasSize
  <2> QED
    BY <2>1, <2>2
<1> QED
  BY <1>2, <1>3 DEF AsMade, HasSizes

(* Of the steps of an operation only two write a plan or reduce anything.  *)
LEMMA PlainStep ==
  ASSUME ControlInv, LayoutInv, NEW i \in Ops, Goroutine(i), ~Replan(i), ~Shrink(i)
  PROVE  /\ UNCHANGED <<planFile, replaced>>
         /\ op'[i].shrunk => op[i].shrunk /\ op'[i].plan = op[i].plan
         /\ op'[i].pc # "shrink"
         /\ \/ UNCHANGED layout /\ op'[i].shrunk = op[i].shrunk
            \/ Returns(op[i]) /\ op'[i].shrunk = FALSE
<1> USE FieldNames
<1>0. Typed /\ DisksKnown
  BY DEF ControlInv
<1>1. ASSUME UNCHANGED <<layout, planFile, replaced>>, op'[i].shrunk = op[i].shrunk,
             op'[i].plan = op[i].plan, op'[i].pc # "shrink"
      PROVE  /\ UNCHANGED <<planFile, replaced>>
             /\ op'[i].shrunk => op[i].shrunk /\ op'[i].plan = op[i].plan
             /\ op'[i].pc # "shrink"
             /\ UNCHANGED layout /\ op'[i].shrunk = op[i].shrunk
  BY <1>1, Zenon
<1> DEFINE plain == /\ UNCHANGED <<layout, planFile, replaced>> /\ op'[i].shrunk = op[i].shrunk
                    /\ op'[i].plan = op[i].plan /\ op'[i].pc # "shrink"
<1>2. CASE Revalidate(i) \/ Access(i) \/ Lock(i) \/ Open(i)
  <2>1. Revalidate(i) => plain
    BY <1>0, RevalidateEffect DEF GoesOn, GivesUp, Touches, SourceStays
  <2>2. Access(i) => plain
    BY <1>0, AccessEffect DEF GoesOn, GivesUp, Touches, SourceStays
  <2>3. Lock(i) \/ Open(i) => plain
    BY ZenonT(60), <1>0, LockEffect, OpenEffect DEF GoesOn, GivesUp, Touches, SourceStays
  <2> QED
    BY <1>1, <1>2, <2>1, <2>2, <2>3
<1>3. CASE CreateSnapshots(i) \/ OpenSnapshots(i) \/ Copy(i)
  <2>1. plain
    BY ZenonT(60), <1>0, <1>3, CreateSnapshotsEffect, OpenSnapshotsEffect, CopyEffect
       DEF GoesOn, GivesUp, Touches, SourceStays
  <2> QED
    BY <1>1, <2>1
<1>4. CASE Release(i) \/ Cleanup(i) \/ Finish(i) \/ RunRecovery(i)
  <2>1. ASSUME Release(i) \/ Cleanup(i)
        PROVE  plain
    <3>1. /\ UNCHANGED <<layout, planFile, replaced>>
          /\ GoesOn(i, {"todo", "locked", "open"}, "restore")
             \/ GoesOn(i, {"todo", "locked", "open"}, "cleanupRestore")
      BY <1>0, <2>1, ReleaseEffect DEF SourceStays
    <3> QED
      BY <3>1 DEF GoesOn, Touches
  <2>2. Finish(i) \/ RunRecovery(i) => plain
    BY <1>0, EndEffect DEF Touches, SourceStays
  <2> QED
    BY <1>1, <1>4, <2>1, <2>2
<1>5. CASE Unshrink(i) \/ Restore(i) \/ CleanupRestore(i)
  BY <1>0, <1>5, UnshrinkEffect, RestoreEffect, CleanupRestoreEffect DEF GivesUp, GoesOn
<1> QED
  BY <1>2, <1>3, <1>4, <1>5 DEF Goroutine, Prepare, Leave

(* Nobody else is about to reduce the source while an operation works.     *)
LEMMA OneShrinks ==
  ASSUME ControlInv, NEW i \in Ops, NEW j \in Ops,
         op[i].pc \in {"replan", "shrink"}, op[j].pc = "shrink"
  PROVE  j = i
BY DEF ControlInv, OneAtWork, Working, Idle, Closing

(* While operations do not overlap a migration finds a source that has its *)
(* sizes.                                                                  *)
LEMMA FoundAsMade ==
  ASSUME ControlInv, LayoutInv, SizeInv, NEW i \in Ops, op[i].pc = "replan",
         ~tangled, harm \cap {"quit", "restore"} = {}
  PROVE  AsMade /\ ~replaced
<1>1. \A j \in Ops : ~op[j].shrunk
  <2> SUFFICES ASSUME NEW j \in Ops, op[j].shrunk PROVE FALSE
    OBVIOUS
  <2>1. op[j].pc \notin NoTarget \cup {"revalidate", "replan", "finish"}
    BY DEF LayoutInv, PlansKnown, Migrates
  <2>2. i \in Live /\ j \in Live
    BY <2>1 DEF Live, NoTarget, Idle
  <2>3. i = j
    BY <2>2 DEF ControlInv, OneAtWork
  <2> QED
    BY <2>1, <2>3
<1> QED
  BY <1>1 DEF SizeInv, GivenBack

LEMMA ReplanKeepsSize ==
  ASSUME ControlInv, LayoutInv, SizeInv, SystemStays, Grows, Slots' = Slots,
         NEW i \in Ops, Replan(i), NEW slot, slot = op[i].tgt.slot,
         NEW plan, plan = BuildPlan(op[i].src, op[i].tgt, layout)
  PROVE  SizeInv'
<1> USE FieldNames
<1>0. /\ Typed /\ LayoutKnown /\ Chosen(op[i]) /\ Migrates(op[i]) /\ op[i].pc = "replan"
      /\ \A s \in Slots : planFile[s].shrink # 0 => Reduces(planFile[s])
  BY ReplanEffect DEF ControlInv, DisksKnown, LayoutInv, PlansKnown, NoTarget, Idle
<1>1. /\ Quiet /\ UNCHANGED <<layout, attached>>
      /\ \/ GivesUp(i, {}) /\ UNCHANGED <<planFile, replaced>>
         \/ /\ GivesUp(i, {}) /\ Replaces
            /\ \E left \in {NoPlan, planFile[slot]} : Records(slot, left)
         \/ /\ GoesOn(i, {"plan", "shrunk"}, IF plan.shrink # 0 THEN "shrink" ELSE "access")
            /\ Replaces /\ Records(slot, plan)
            /\ op'[i].plan = plan /\ op'[i].shrunk = (plan.shrink # 0)
  BY <1>0, ReplanEffect DEF DisksStay
<1>2. /\ UNCHANGED <<made, tangled>> /\ (AsMade' <=> AsMade)
      /\ op[i].tgt \in Disk /\ slot \in Slots /\ ~op[i].shrunk
      /\ \A j \in Ops \ {i} : op'[j] = op[j]
  <2>1. UNCHANGED <<made, tangled>> /\ op[i].tgt \in Disk /\ slot \in Slots /\ ~op[i].shrunk
    BY <1>0, <1>1 DEF Quiet, Chosen, Migrates
  <2>2. \A j \in Ops \ {i} : op'[j] = op[j]
    BY <1>1 DEF GivesUp, GoesOn, Touches
  <2>3. AsMade' <=> AsMade
    BY <1>0, <1>1, <2>1, AsMadeKept DEF Steady
  <2> QED
    BY <2>1, <2>2, <2>3
<1>3. plan.shrink # 0 => (HasSize(plan) <=> AsMade)
  BY <1>0, <1>2, PlanKnowsSize
<1>4. Sizes(layout) = Sizes(made) <=> AsMade
  BY <1>0, SizesAsMade DEF LayoutKnown, AsMade
<1>5. ASSUME ~replaced'
      PROVE  ~replaced /\ (AsMade \/ UNCHANGED planFile)
  <2>1. CASE UNCHANGED <<planFile, replaced>>
    BY <1>5, <2>1
  <2>2. CASE Replaces
    BY <1>4, <1>5, <2>2, Zenon DEF Replaces
  <2> QED
    BY <1>1, <2>1, <2>2
<1>6. \A j \in Ops \ {i} : op[j].pc # "shrink"
  BY <1>0, OneShrinks
<1>7. \/ planFile' = planFile
      \/ \E text \in {NoPlan, planFile[slot], plan} : Records(slot, text)
  BY <1>1
<1>8. ASSUME ~replaced'
      PROVE  /\ \A s \in Slots' : planFile'[s].shrink # 0 => HasSize(planFile[s])'
             /\ \A j \in Ops : Kept(op[j])'
             /\ AsMade' \/ CanReturn'
  <2>1. /\ \A s \in Slots : planFile[s].shrink # 0 => HasSize(planFile[s])
        /\ \A j \in Ops : Kept(op[j])
        /\ AsMade \/ CanReturn
    BY <1>5, <1>8 DEF SizeInv, SizeKept
  <2>2. AsMade' \/ CanReturn'
    <3> SUFFICES ASSUME ~AsMade PROVE CanReturn'
      BY <1>2
    <3>1. UNCHANGED planFile
      BY <1>5, <1>8
    <3>2. PICK s \in Slots : /\ planFile[s].shrink # 0
                             /\ Restores(planFile[s]) \/ "resize" \in harm
      BY <2>1 DEF CanReturn
    <3>3. Restores(planFile[s]) => Restores(planFile[s])'
      BY <1>0, <1>1, <3>1, <3>2, RestoresKept DEF Steady
    <3>4. planFile'[s].shrink # 0 /\ (Restores(planFile[s])' \/ "resize" \in harm')
      BY <3>1, <3>2, <3>3 DEF Grows
    <3>5. s \in Slots'
      BY <3>2
    <3> QED
      BY <3>4, <3>5 DEF CanReturn
  <2>3. plan.shrink # 0 /\ Records(slot, plan) => HasSize(plan) /\ AsMade
    <3> SUFFICES ASSUME plan.shrink # 0, Records(slot, plan), ~AsMade PROVE HasSize(plan)
      BY <1>3
    <3>1. planFile[slot] = plan
      BY <1>2, <1>5, <1>8 DEF Records
    <3> QED
      BY <1>2, <2>1, <3>1
  <2>4. ASSUME NEW s \in Slots, planFile'[s].shrink # 0
        PROVE  HasSize(planFile'[s])
    <3>1. CASE planFile'[s] = planFile[s]
      BY <2>1, <2>4, <3>1
    <3>2. CASE planFile'[s] # planFile[s]
      <4>1. s = slot /\ \E text \in {NoPlan, plan} : planFile'[s] = text /\ Records(slot, text)
        BY <1>7, <2>4, <3>2 DEF Records
      <4> QED
        BY <2>3, <2>4, <4>1 DEF NoPlan
    <3> QED
      BY <3>1, <3>2
  <2>5. \A s \in Slots' : planFile'[s].shrink # 0 => HasSize(planFile[s])'
    BY <1>2, <2>4 DEF HasSize
  <2>6. \A j \in Ops \ {i} : Kept(op[j])'
    BY <1>2, <1>6, <2>1 DEF Kept, HasSize
  <2>7. Kept(op[i])'
    <3>1. CASE GivesUp(i, {})
      <4>1. op'[i].pc = "cleanup" /\ op'[i].shrunk = op[i].shrunk
        BY <3>1 DEF GivesUp, Touches
      <4> QED
        BY <1>2, <4>1 DEF Kept
    <3>2. CASE ~GivesUp(i, {})
      <4>1. /\ op'[i].pc = IF plan.shrink # 0 THEN "shrink" ELSE "access"
            /\ op'[i].plan = plan /\ op'[i].shrunk = (plan.shrink # 0)
            /\ op'[i].tgt = op[i].tgt /\ Records(slot, plan)
        BY <1>1, <3>2 DEF GoesOn, Touches
      <4>2. planFile'[op'[i].tgt.slot] = op'[i].plan
        BY <1>2, <4>1 DEF Records
      <4> QED
        BY <1>2, <2>3, <4>1, <4>2 DEF Kept, HasSize
    <3> QED
      BY <3>1, <3>2
  <2> QED
    BY <2>2, <2>5, <2>6, <2>7
<1>9. SizeKept'
  BY <1>8 DEF SizeKept
<1>10. GivenBack'
  <2> SUFFICES ASSUME ~tangled', harm' \cap {"quit", "restore"} = {}
               PROVE  ~replaced' /\ AsMade'
    BY DEF GivenBack
  <2>1. ~tangled /\ harm \cap {"quit", "restore"} = {}
    BY <1>2 DEF Grows
  <2>2. AsMade /\ ~replaced
    BY <1>0, <2>1, FoundAsMade
  <2>3. ~replaced'
    BY <1>1, <1>4, <2>2 DEF Replaces
  <2> QED
    BY <1>2, <2>2, <2>3
<1> QED
  BY <1>9, <1>10 DEF SizeInv

LEMMA ShrinkKeepsSize ==
  ASSUME ControlInv, LayoutInv, SizeInv, SystemStays, Grows, Slots' = Slots,
         NEW i \in Ops, Shrink(i), NEW slot, slot = op[i].tgt.slot,
         NEW plan, plan = op[i].plan
  PROVE  SizeInv'
<1> USE FieldNames
<1>0. /\ Typed /\ LayoutKnown /\ Chosen(op[i]) /\ Migrates(op[i]) /\ ShrinkPlanned(op[i])
      /\ op[i].pc = "shrink"
      /\ \A s \in Slots : planFile[s].shrink # 0 => Reduces(planFile[s])
  BY ShrinkEffect DEF ControlInv, DisksKnown, LayoutInv, PlansKnown, NoTarget, Idle
<1>1. /\ Quiet /\ UNCHANGED <<attached, replaced>>
      /\ op'[i].pc \in {"access", "unshrink"} /\ op'[i].tgt = op[i].tgt
      /\ op'[i].plan = plan /\ op'[i].shrunk = op[i].shrunk
      /\ \A j \in Ops \ {i} : op'[j] = op[j]
      /\ \/ /\ \E p \in layout.parts : p.num = plan.shrink /\ p.min <= plan.to
            /\ Records(slot, plan)
            /\ \E size : layout' = Resized(plan.shrink, size) /\ Reached(plan, size)
         \/ UNCHANGED layout /\ UNCHANGED planFile
         \/ UNCHANGED layout /\ \E left \in {NoPlan, plan} : Records(slot, left)
         \/ UNCHANGED planFile /\ "resize" \in harm'
  <2>1. \A j \in Ops \ {i} : op'[j] = op[j]
    BY <1>0, ShrinkEffect DEF GoesOn, Touches
  <2>2. /\ op'[i].pc \in {"access", "unshrink"} /\ op'[i].tgt = op[i].tgt
        /\ op'[i].plan = plan /\ op'[i].shrunk = op[i].shrunk
    BY <1>0, ShrinkEffect DEF GoesOn, Touches
  <2> QED
    BY <1>0, <2>1, <2>2, ShrinkEffect DEF DisksStay
<1>2. /\ UNCHANGED <<made, tangled>> /\ slot \in Slots /\ op[i].shrunk /\ Reduces(plan)
      /\ Reduces(plan)' /\ plan.shrink # 0 /\ plan.source = attached'[Source].id
  <2>1. UNCHANGED <<made, tangled>> /\ slot \in Slots /\ op[i].shrunk /\ Reduces(plan)
    BY <1>0, <1>1 DEF Quiet, Chosen, Migrates, ShrinkPlanned
  <2>2. Reduces(plan)'
    BY <2>1, ReducesKept
  <2>3. plan.shrink # 0 /\ plan.source = attached'[Source].id
    BY <1>1, <2>1 DEF Reduces
  <2> QED
    BY <2>1, <2>2, <2>3
<1>3. \A j \in Ops \ {i} : op[j].pc # "shrink"
  BY <1>0, OneShrinks
<1>4. ASSUME ~replaced'
      PROVE  /\ \A s \in Slots' : planFile'[s].shrink # 0 => HasSize(planFile[s])'
             /\ \A j \in Ops : Kept(op[j])'
             /\ AsMade' \/ CanReturn'
  <2>1. /\ \A s \in Slots : planFile[s].shrink # 0 => HasSize(planFile[s])
        /\ \A j \in Ops : Kept(op[j])
    BY <1>1, <1>4 DEF SizeInv, SizeKept
  <2>2. HasSize(plan) /\ AsMade /\ planFile[slot] = plan
    BY <1>0, <1>2, <2>1 DEF Kept
  <2>3. ASSUME NEW s \in Slots, planFile'[s].shrink # 0
        PROVE  HasSize(planFile'[s])
    <3>1. planFile'[s] \in {planFile[s], NoPlan, plan}
      BY <1>1, <2>3 DEF Records
    <3> QED
      BY <2>1, <2>2, <2>3, <3>1 DEF NoPlan
  <2>4. \A s \in Slots' : planFile'[s].shrink # 0 => HasSize(planFile[s])'
    BY <1>2, <2>3 DEF HasSize
  <2>5. \A j \in Ops : Kept(op[j])'
    <3>1. \A j \in Ops \ {i} : Kept(op[j])'
      BY <1>1, <1>2, <1>3, <2>1 DEF Kept, HasSize
    <3>2. Kept(op[i])'
      BY <1>1, <1>2, <2>2 DEF Kept, HasSize
    <3> QED
      BY <3>1, <3>2
  <2>6. ASSUME NEW p \in layout.parts, p.num = plan.shrink, NEW size,
               layout' = Resized(plan.shrink, size), Reached(plan, size), Records(slot, plan)
        PROVE  CanReturn'
    <3>1. size \in Nat \ {0} /\ size \in plan.to - Alignment .. plan.to + Alignment
      BY <1>0, <1>2, <2>6, SizeReached
    <3>2. Becomes(layout.parts, layout'.parts, plan.shrink, size)
      BY <1>0, <2>6, <3>1, ResizedBecomes
    <3>3. PICK e \in layout'.parts : Turns(p, e, plan.shrink, size)
      BY <3>2 DEF Becomes
    <3>4. e.num = plan.shrink /\ e.size \in plan.to - Alignment .. plan.to + Alignment
      <4>1. e.num = plan.shrink /\ e.size = size
        BY <2>6, <3>3 DEF Turns, Same
      <4> QED
        BY <3>1, <4>1
    <3>5. planFile'[slot] = plan
      BY <1>2, <2>6 DEF Records
    <3>6. Restores(planFile[slot])'
      BY <1>2, <3>4, <3>5 DEF Restores
    <3>7. slot \in Slots' /\ planFile'[slot].shrink # 0
      BY <1>2, <3>5
    <3> QED
      BY <3>6, <3>7 DEF CanReturn
  <2>7. CASE UNCHANGED layout
    <3>1. AsMade'
      BY <1>0, <1>2, <2>2, <2>7, AsMadeKept DEF Steady
    <3> QED
      BY <2>4, <2>5, <3>1
  <2>8. CASE UNCHANGED planFile /\ "resize" \in harm'
    <3>1. slot \in Slots' /\ planFile'[slot].shrink # 0
      BY <1>2, <2>2, <2>8
    <3>2. CanReturn'
      BY <2>8, <3>1 DEF CanReturn
    <3> QED
      BY <2>4, <2>5, <3>2
  <2> QED
    BY <1>1, <2>4, <2>5, <2>6, <2>7, <2>8
<1>5. SizeKept'
  BY <1>4 DEF SizeKept
<1>6. GivenBack'
  <2> SUFFICES ASSUME ~tangled', harm' \cap {"quit", "restore"} = {}
               PROVE  ~replaced'
    BY <1>1, <1>2 DEF GivenBack
  <2>1. ~tangled /\ harm \cap {"quit", "restore"} = {}
    BY <1>2 DEF Grows
  <2> QED
    BY <1>1, <2>1 DEF SizeInv, GivenBack
<1> QED
  BY <1>5, <1>6 DEF SizeInv

LEMMA SizeStep == ControlInv /\ LayoutInv /\ SizeInv /\ [Next]_vars => SizeInv'
<1> SUFFICES ASSUME ControlInv, LayoutInv, SizeInv, [Next]_vars PROVE SizeInv'
  OBVIOUS
<1>0. /\ Typed /\ LayoutKnown /\ Slots' = Slots /\ SystemStays /\ UNCHANGED made /\ Grows
      /\ \A i \in Ops : Migrates(op[i])
      /\ \A s \in Slots : planFile[s].shrink # 0 => Reduces(planFile[s])
  BY SlotsStay, StepOfSource DEF ControlInv, LayoutInv, PlansKnown
<1>1. CASE UNCHANGED <<op, planFile, replaced, tangled>> /\ (Steady \/ (~replaced => AsMade'))
  BY <1>0, <1>1, SizeFrame
<1>2. CASE UNCHANGED vars
  BY <1>1, <1>2 DEF vars, machine, history, Steady
<1>3. CASE Window
  <2>1. CASE \/ RefreshDisks \/ DisksListed \/ StartRecovery \/ Decline
             \/ \E mode \in {"offline", "vss", "smart"}, slot \in Slots : StartClone(mode, slot)
    BY <1>1, <2>1 DEF RefreshDisks, DisksListed, StartRecovery, Decline, StartClone, machine, history,
       Steady
  <2>2. CASE Cancel
    <3>1. latest \in Ops /\ Touches(latest, {"cancelled"}) /\ Quiet /\ SourceStays
      BY <1>0, <2>2, CancelEffect
    <3>2. \A i \in Ops : /\ op'[i].pc = op[i].pc /\ op'[i].shrunk = op[i].shrunk
                         /\ op'[i].plan = op[i].plan /\ op'[i].tgt = op[i].tgt
      BY <3>1, FieldNames DEF Touches
    <3>3. UNCHANGED <<planFile, replaced, tangled>> /\ Steady
      BY <3>1 DEF Quiet, SourceStays, Steady
    <3> QED
      BY <1>0, <3>2, <3>3, SizeFrame
  <2>3. CASE Confirm
    <3>0. Unused # {} /\ DisksKnown
      BY <2>3 DEF Confirm, ControlInv, OneAtWork
    <3> PICK i \in Unused :
           /\ Touches(i, Fields) /\ op'[i].shrunk = FALSE /\ SourceStays
           /\ op'[i].pc = IF ui.mode = "recovery" THEN "recover" ELSE "revalidate"
           /\ tangled' = (tangled \/ Live # {})
      BY <1>0, <2>3, <3>0, ConfirmEffect
    <3>1. op[i].pc = "none" /\ i \in Ops
      BY DEF Unused
    <3>2. op[i].shrunk => FALSE
      BY <1>0, <3>1 DEF Migrates, NoTarget, Idle
    <3>3. \A j \in Ops \ {i} : op'[j] = op[j]
      BY DEF Touches
    <3>4. UNCHANGED <<planFile, replaced>> /\ Steady
      BY DEF SourceStays, Steady
    <3>5. tangled => tangled'
      OBVIOUS
    <3> QED
      BY <1>0, <3>1, <3>2, <3>3, <3>4, <3>5, SizeFrame
  <2>4. CASE Quit
    <3>1. /\ \A i \in Ops : op'[i].pc \in Idle /\ op'[i].shrunk = FALSE
          /\ UNCHANGED <<planFile, replaced, tangled>> /\ Steady /\ "quit" \in harm'
      BY <1>0, <2>4, QuitEffect DEF Idle, SourceStays, Steady
    <3>2. harm' \cap {"quit", "restore"} # {}
      BY <3>1
    <3> QED
      BY <1>0, <3>1, <3>2, SizeFrame DEF Idle
  <2> QED
    BY <1>3, <2>1, <2>2, <2>3, <2>4 DEF Window
<1>4. CASE World
  <2>1. ASSUME NEW slot \in Slots, Swap(slot)
        PROVE  UNCHANGED <<op, layout, planFile, replaced, tangled>>
    BY <2>1 DEF Swap
  <2>2. ASSUME NEW p \in layout.parts, Grow(p)
        PROVE  UNCHANGED <<op, planFile, replaced, tangled>> /\ Steady
    <3>1. UNCHANGED <<op, planFile, history>>
      BY <2>2, Zenon DEF Grow
    <3> QED
      BY <1>0, <2>2, <3>1, GrowBecomes DEF Steady, history
  <2>3. ASSUME NEW slot \in Slots, RunRestoreScript(slot)
        PROVE  UNCHANGED <<op, planFile, replaced, tangled>> /\ (~replaced => AsMade')
    <3>1. /\ UNCHANGED <<op, planFile, replaced, tangled>>
          /\ layout' = Resized(planFile[slot].shrink, planFile[slot].from)
          /\ Reduces(planFile[slot])
      BY <1>0, <2>3 DEF RunRestoreScript, Restores, history
    <3>2. ~replaced => HasSize(planFile[slot])
      BY <2>3 DEF SizeInv, SizeKept, RunRestoreScript, Restores
    <3> QED
      BY <1>0, <3>1, <3>2, GivesBack
  <2> QED
    BY <1>1, <1>4, <2>1, <2>2, <2>3 DEF World, Steady
<1>5. ASSUME NEW i \in Ops, Goroutine(i), ~Replan(i), ~Shrink(i)
      PROVE  SizeInv'
  <2>1. /\ UNCHANGED <<planFile, replaced>>
        /\ op'[i].shrunk => op[i].shrunk /\ op'[i].plan = op[i].plan
        /\ op'[i].pc # "shrink"
        /\ \/ UNCHANGED layout /\ op'[i].shrunk = op[i].shrunk
           \/ Returns(op[i]) /\ op'[i].shrunk = FALSE
    BY <1>5, PlainStep
  <2>2. UNCHANGED tangled /\ \A j \in Ops \ {i} : op'[j] = op[j]
    BY <1>5, MoveOf DEF Moves
  <2>3. CASE UNCHANGED layout /\ op'[i].shrunk = op[i].shrunk
    BY <1>0, <2>1, <2>2, <2>3, SizeFrame DEF Steady
  <2>4. CASE Returns(op[i]) /\ op'[i].shrunk = FALSE
    <3>1. CASE ~op[i].shrunk /\ UNCHANGED layout
      BY <1>0, <2>1, <2>2, <2>4, <3>1, SizeFrame DEF Steady
    <3>2. CASE op[i].shrunk /\ layout' = Resized(op[i].plan.shrink, op[i].plan.from)
      <4>1. Reduces(op[i].plan)
        BY <1>0, <3>2 DEF Migrates
      <4>2. ~replaced => HasSize(op[i].plan)
        BY <3>2 DEF SizeInv, SizeKept, Kept
      <4>3. ~replaced => AsMade'
        BY <1>0, <3>2, <4>1, <4>2, GivesBack
      <4> QED
        BY <1>0, <2>1, <2>2, <4>3, SizeFrame
    <3>3. CASE UNCHANGED layout /\ "restore" \in harm'
      <4>1. harm' \cap {"quit", "restore"} # {}
        BY <3>3
      <4> QED
        BY <1>0, <2>1, <2>2, <3>3, <4>1, SizeFrame DEF Steady
    <3> QED
      BY <2>4, <3>1, <3>2, <3>3 DEF Returns
  <2> QED
    BY <2>1, <2>3, <2>4
<1>6. ASSUME NEW i \in Ops, Replan(i) \/ Shrink(i)
      PROVE  SizeInv'
  BY <1>0, <1>6, ReplanKeepsSize, ShrinkKeepsSize
<1> QED
  BY <1>2, <1>3, <1>4, <1>5, <1>6 DEF Next

LEMMA SizeInit == Init => SizeInv
<1> SUFFICES ASSUME Init PROVE SizeInv
  OBVIOUS
<1>1. LayoutKnown
  BY LayoutInit DEF LayoutInv
<1> PICK m \in Machines :
      /\ attached = m.attached /\ layout = m.layout /\ made = m.layout
      /\ planFile = [slot \in DOMAIN m.attached |-> NoPlan] /\ op = [i \in Ops |-> NoOp]
  BY DEF Init
<1>2. AsMade
  BY <1>1 DEF AsMade, HasSizes, LayoutKnown, Shaped
<1>3. \A s \in Slots : planFile[s].shrink = 0
  BY DEF NoPlan, Slots
<1>4. \A i \in Ops : op[i].pc = "none" /\ op[i].shrunk = FALSE
  BY DEF NoOp
<1>5. SizeKept
  BY <1>2, <1>3, <1>4 DEF SizeKept, Kept
<1>6. replaced = FALSE
  BY DEF Init
<1> QED
  BY <1>2, <1>5, <1>6 DEF SizeInv, GivenBack

LEMMA SizeHolds == Spec => []SizeInv
BY SizeInit, SizeStep, ControlHolds, LayoutHolds, PTL DEF Spec

(* When no operation is at work, also none that is cleaning up after it    *)
(* gave up, the deferred calls of runClone have given the source its sizes *)
(* back and released every lock, disk and snapshot, unless the process     *)
(* ended under it, a restoration or a diskshadow failed, or a migration    *)
(* began while another was cleaning up.                                    *)
THEOREM LeftAsFound == Spec => []NothingLeftBehind
<1>1. ControlInv /\ HoldInv /\ LayoutInv /\ SizeInv => NothingLeftBehind
  <2> SUFFICES ASSUME ControlInv, HoldInv, LayoutInv, SizeInv PROVE NothingLeftBehind
    OBVIOUS
  <2>1. \A i \in Ops \ Live : op[i].locked = {} /\ op[i].open = NoDisk
    BY DEF HoldInv, NothingHeld, Live
  <2>2. ASSUME Live = {}
        PROVE  ~running
    BY <2>2 DEF ControlInv, OneAtWork, Working, Live, Idle
  <2>3. ASSUME Live = {}, ~tangled, harm \cap {"quit", "restore"} = {}
        PROVE  Sizes(layout) = Sizes(made)
    <3>1. \A i \in Ops : ~op[i].shrunk
      BY <2>3 DEF LayoutInv, PlansKnown, Migrates, Live, NoTarget, Idle
    <3>2. AsMade
      BY <2>3, <3>1 DEF SizeInv, GivenBack
    <3> QED
      BY <3>2, SizesAsMade DEF AsMade, LayoutInv, LayoutKnown
  <2>4. ASSUME Live = {}, NEW s \in shadows
        PROVE  harm \cap {"quit", "vss"} # {}
    BY <2>4 DEF HoldInv, ShadowHeld, HasShadows, Live
  <2> QED
    BY <2>1, <2>2, <2>3, <2>4, Zenon DEF NothingLeftBehind
<1> QED
  BY <1>1, ControlHolds, HoldHolds, LayoutHolds, SizeHolds, PTL

(* Whenever the source is left reduced there is a plan in a report folder  *)
(* from which RESTAURAR-PARTICAO-ORIGEM gives it the sizes it came with:   *)
(* applySmartShrink has it on the disk before the partition is reduced,    *)
(* and nothing but a later migration writes over it.                       *)
THEOREM CanBeRestored == Spec => []RestorePlanKept
<1>1. LayoutInv /\ SizeInv => RestorePlanKept
  <2> SUFFICES ASSUME LayoutInv, SizeInv, Sizes(layout) # Sizes(made), ~replaced
               PROVE  \E slot \in Slots :
                        /\ Sizes(Resized(planFile[slot].shrink, planFile[slot].from)) = Sizes(made)
                        /\ Restores(planFile[slot]) \/ "resize" \in harm
    BY DEF RestorePlanKept
  <2>1. LayoutKnown /\ ~AsMade
    BY SizesAsMade DEF AsMade, LayoutInv, LayoutKnown
  <2> PICK slot \in Slots : /\ planFile[slot].shrink # 0
                            /\ Restores(planFile[slot]) \/ "resize" \in harm
    BY <2>1 DEF SizeInv, SizeKept, CanReturn
  <2>2. Reduces(planFile[slot]) /\ HasSize(planFile[slot])
    BY DEF LayoutInv, PlansKnown, SizeInv, SizeKept
  <2> DEFINE n == planFile[slot].shrink
             s == planFile[slot].from
             table == Resized(n, s)
  <2>3. /\ s \in Nat \ {0} /\ IsLast(n)
        /\ \A q \in made.parts : q.num = n => s = q.size
    BY <2>2 DEF Reduces, HasSize
  <2> HIDE DEF n, s
  <2>4. Becomes(layout.parts, table.parts, n, s)
    BY <2>1, <2>3, ResizedBecomes
  <2>5. \A q \in made.parts : q.num = n => s <= q.size
    BY <2>1, <2>3, PartitionFields DEF LayoutKnown, MadeKnown
  <2> HIDE DEF table
  <2>6. Shaped(table.parts) /\ HasSizes(table.parts)
    BY <2>1, <2>3, <2>4, <2>5, StaysShaped, ComesBack DEF LayoutKnown
  <2>7. Sizes(table) = Sizes(made)
    BY <2>1, <2>6, SizesAsMade DEF LayoutKnown
  <2> QED
    BY <2>7 DEF table, n, s
<1> QED
  BY <1>1, LayoutHolds, SizeHolds, PTL

-----------------------------------------------------------------------------
(* mappedRangeReader: a read delivers every unit from where it belongs.    *)

(* Ranges of the volumes of a disk, in any order, of which no two overlap. *)
MapRange == [start : Nat, end : Nat, letter : STRING]
Units == [from : {"disk", "zero"} \cup STRING, at : Nat]
Laid(ranges) ==
  /\ ranges \in Seq(MapRange) /\ \A r \in Elements(ranges) : r.start < r.end
  /\ \A r, t \in Elements(ranges) : r = t \/ r.end <= t.start \/ t.end <= r.start

(* Numbers can be put in order.                                            *)
InOrder(p, keys, n) ==
  /\ p \in [1 .. n -> 1 .. n] /\ \A i \in 1 .. n : \E j \in 1 .. n : p[j] = i
  /\ \A i, j \in 1 .. n : i < j => keys[p[i]] <= keys[p[j]]

LEMMA OrderExtends ==
  ASSUME NEW m \in Nat, NEW n, n = m + 1, NEW keys \in [1 .. n -> Nat], NEW p, InOrder(p, keys, m)
  PROVE  \E q : InOrder(q, keys, n)
<1>1. /\ p \in [1 .. m -> 1 .. m] /\ \A i \in 1 .. m : \E j \in 1 .. m : p[j] = i
      /\ \A i, j \in 1 .. m : i < j => keys[p[i]] <= keys[p[j]]
  BY DEF InOrder
<1>2. /\ 1 .. m \subseteq 1 .. n /\ n \in 1 .. n /\ n \in Nat
      /\ \A i \in 1 .. n : keys[i] \in Nat
      /\ \A i \in 1 .. m : p[i] \in 1 .. m /\ keys[p[i]] \in Nat
  <2>1. 1 .. m \subseteq 1 .. n /\ n \in 1 .. n /\ n \in Nat /\ \A i \in 1 .. n : keys[i] \in Nat
    OBVIOUS
  <2>2. \A i \in 1 .. m : p[i] \in 1 .. m
    BY <1>1
  <2> QED
    BY <2>1, <2>2
<1> DEFINE Places == {k \in 1 .. n : \A i \in 1 .. m : k <= i => keys[n] <= keys[p[i]]}
<1>3. PICK c \in Places : \A k \in Places : c <= k
  <2>1. n \in Places /\ Places \subseteq Nat
    BY <1>2
  <2> HIDE DEF Places
  <2> QED
    BY <2>1, LeastOf
<1>4. c \in 1 .. n /\ c \in Nat /\ \A i \in 1 .. m : c <= i => keys[n] <= keys[p[i]]
  BY <1>3
<1>5. \A i \in 1 .. m : i < c => keys[p[i]] <= keys[n]
  <2> SUFFICES ASSUME NEW i \in 1 .. m, i < c PROVE keys[p[i]] <= keys[n]
    OBVIOUS
  <2>1. c - 1 \in 1 .. m /\ c - 1 \in 1 .. n /\ ~(c <= c - 1) /\ (i = c - 1 \/ i < c - 1)
    BY <1>4
  <2>2. c - 1 \notin Places
    BY ONLY <2>1, <1>3
  <2>3. PICK j \in 1 .. m : c - 1 <= j /\ ~(keys[n] <= keys[p[j]])
    BY <2>1, <2>2
  <2>4. ~(c <= j)
    BY <1>4, <2>3
  <2>5. j = c - 1
    BY <1>4, <2>3, <2>4
  <2>6. keys[p[i]] <= keys[p[j]]
    <3>1. CASE i = j
      BY <3>1, <1>2
    <3>2. CASE i < j
      BY <3>2, <1>1
    <3> QED
      BY <2>1, <2>5, <3>1, <3>2
  <2> HIDE DEF Places
  <2> QED
    BY <1>2, <2>3, <2>6
<1> HIDE DEF Places
<1> DEFINE q == [i \in 1 .. n |-> IF i < c THEN p[i] ELSE IF i = c THEN n ELSE p[i - 1]]
<1>6. \A i \in 1 .. n :
        \/ i < c /\ i \in 1 .. m /\ q[i] = p[i]
        \/ i = c /\ q[i] = n
        \/ c < i /\ i - 1 \in 1 .. m /\ q[i] = p[i - 1]
  BY <1>4
<1>7. q \in [1 .. n -> 1 .. n]
  <2>1. \A i \in 1 .. n : q[i] \in 1 .. n
    <3> HIDE DEF q
    <3> QED
      BY <1>2, <1>6
  <2> QED
    BY <2>1
<1>8. ASSUME NEW i \in 1 .. n PROVE \E j \in 1 .. n : q[j] = i
  <2>1. CASE i = n
    BY <2>1, <1>4
  <2>2. CASE i # n
    <3>1. i \in 1 .. m
      BY <2>2
    <3>2. PICK j \in 1 .. m : p[j] = i
      BY <3>1, <1>1
    <3>3. CASE j < c
      BY <1>2, <3>2, <3>3
    <3>4. CASE ~(j < c)
      <4>1. j + 1 \in 1 .. n /\ ~(j + 1 < c) /\ j + 1 # c /\ j + 1 - 1 = j
        BY <1>4, <3>4
      <4>2. q[j + 1] = p[j + 1 - 1]
        BY <4>1
      <4> HIDE DEF q
      <4> QED
        BY <3>2, <4>1, <4>2
    <3> QED
      BY <3>3, <3>4
  <2> QED
    BY <2>1, <2>2
<1>9. ASSUME NEW i \in 1 .. n, NEW j \in 1 .. n, i < j PROVE keys[q[i]] <= keys[q[j]]
  <2> HIDE DEF q
  <2>1. CASE i < c /\ i \in 1 .. m /\ q[i] = p[i]
    <3>1. CASE j < c /\ j \in 1 .. m /\ q[j] = p[j]
      BY <2>1, <3>1, <1>1, <1>9
    <3>2. CASE j = c /\ q[j] = n
      BY <2>1, <3>2, <1>5
    <3>3. CASE c < j /\ j - 1 \in 1 .. m /\ q[j] = p[j - 1]
      <4>1. i < j - 1
        BY <2>1, <3>3, <1>4
      <4> QED
        BY <2>1, <3>3, <4>1, <1>1
    <3> QED
      BY <3>1, <3>2, <3>3, <1>6
  <2>2. CASE i = c /\ q[i] = n
    <3>1. c < j /\ j - 1 \in 1 .. m /\ q[j] = p[j - 1] /\ c <= j - 1
      BY <2>2, <1>4, <1>6, <1>9
    <3> QED
      BY <2>2, <3>1, <1>4
  <2>3. CASE c < i /\ i - 1 \in 1 .. m /\ q[i] = p[i - 1]
    <3>1. c < j /\ j - 1 \in 1 .. m /\ q[j] = p[j - 1] /\ i - 1 < j - 1
      BY <2>3, <1>4, <1>6, <1>9
    <3> QED
      BY <2>3, <3>1, <1>1
  <2> QED
    BY <2>1, <2>2, <2>3, <1>6
<1> HIDE DEF q
<1>10. InOrder(q, keys, n)
  BY <1>7, <1>8, <1>9 DEF InOrder
<1> QED
  BY <1>10

LEMMA OrderExists ==
  ASSUME NEW n \in Nat, NEW keys \in [1 .. n -> Nat]
  PROVE  \E p : InOrder(p, keys, n)
<1> DEFINE Bad == {k \in 0 .. n : ~\E p : InOrder(p, keys, k)}
<1>0. n \in 0 .. n
  OBVIOUS
<1> SUFFICES Bad = {}
  BY <1>0, Zenon
<1> SUFFICES ASSUME Bad # {} PROVE FALSE
  OBVIOUS
<1>1. PICK k \in Bad : \A j \in Bad : k <= j
  <2>1. Bad \subseteq Nat
    OBVIOUS
  <2> HIDE DEF Bad
  <2> QED
    BY <2>1, LeastOf
<1>2. k \in 0 .. n /\ ~\E p : InOrder(p, keys, k)
  BY <1>1
<1>3. CASE k = 0
  <2>1. InOrder([i \in {} |-> i], keys, 0)
    BY DEF InOrder
  <2> QED
    BY <2>1, <1>2, <1>3
<1>4. CASE k # 0
  <2>1. k - 1 \in 0 .. n /\ k - 1 \in Nat /\ ~(k <= k - 1) /\ k = (k - 1) + 1
    BY <1>2, <1>4
  <2>2. k - 1 \notin Bad
    BY ONLY <2>1, <1>1
  <2>3. PICK p : InOrder(p, keys, k - 1)
    BY <2>1, <2>2
  <2> DEFINE front == [i \in 1 .. k |-> keys[i]]
  <2>4. front \in [1 .. k -> Nat] /\ \A i \in 1 .. k : front[i] = keys[i]
    BY <1>2
  <2> HIDE DEF front
  <2>5. \A j \in 0 .. k : \A g : InOrder(g, front, j) <=> InOrder(g, keys, j)
    <3> TAKE j \in 0 .. k
    <3> TAKE g
    <3>1. ASSUME g \in [1 .. j -> 1 .. j], NEW i \in 1 .. j
          PROVE  front[g[i]] = keys[g[i]]
      <4>1. g[i] \in 1 .. k
        BY <3>1, <1>2
      <4> QED
        BY <4>1, <2>4
    <3> QED
      BY <3>1 DEF InOrder
  <2>6. k - 1 \in 0 .. k /\ k \in 0 .. k
    BY <2>1
  <2>7. \E q : InOrder(q, front, k)
    BY <2>1, <2>3, <2>4, <2>5, <2>6, OrderExtends
  <2> QED
    BY <2>5, <2>6, <2>7, <1>2
<1> QED
  BY <1>3, <1>4
(* The ranges of a mapped reader, in the order of their places.            *)
LEMMA SortedIs ==
  ASSUME NEW ranges, Laid(ranges), NEW s, s = Sorted(ranges)
  PROVE  /\ s \in Seq(MapRange) /\ Elements(s) = Elements(ranges)
         /\ \A i, j \in DOMAIN s : i < j => s[i] = s[j] \/ s[i].end <= s[j].start
<1> DEFINE n == Len(ranges)
           keys == [i \in 1 .. n |-> ranges[i].start]
           order == CHOOSE p \in Orders(ranges) : TRUE
<1>1. /\ DOMAIN ranges = 1 .. n /\ n \in Nat
      /\ \A i \in 1 .. n : ranges[i] \in MapRange /\ ranges[i] \in Elements(ranges)
      /\ \A i \in 1 .. n : ranges[i].start \in Nat /\ ranges[i].end \in Nat
                           /\ ranges[i].start < ranges[i].end
  <2>1. DOMAIN ranges = 1 .. n /\ n \in Nat /\ \A i \in 1 .. n : ranges[i] \in MapRange
    BY DEF Laid
  <2> HIDE DEF n
  <2>2. \A i \in 1 .. n : ranges[i] \in Elements(ranges)
    BY <2>1 DEF Elements
  <2>3. \A i \in 1 .. n : ranges[i].start < ranges[i].end
    BY <2>1, <2>2 DEF Laid
  <2> QED
    BY <2>1, <2>2, <2>3 DEF MapRange
<1> HIDE DEF n
<1>2. Orders(ranges) # {}
  <2>1. keys \in [1 .. n -> Nat]
    BY <1>1
  <2>2. \A i \in 1 .. n : keys[i] = ranges[i].start
    OBVIOUS
  <2> HIDE DEF keys
  <2>3. PICK p : InOrder(p, keys, n)
    BY <1>1, <2>1, OrderExists
  <2>4. /\ p \in [1 .. n -> 1 .. n] /\ \A i \in 1 .. n : \E j \in 1 .. n : p[j] = i
        /\ \A i, j \in 1 .. n : i < j => ranges[p[i]].start <= ranges[p[j]].start
    BY <2>2, <2>3 DEF InOrder
  <2>5. p \in Orders(ranges)
    BY <1>1, <2>4 DEF Orders
  <2> QED
    BY <2>5
<1>3. order \in Orders(ranges)
  BY <1>2
<1>4. s = [i \in 1 .. n |-> ranges[order[i]]]
  BY <1>1 DEF Sorted
<1> HIDE DEF order
<1>5. /\ order \in [1 .. n -> 1 .. n] /\ \A i \in 1 .. n : \E j \in 1 .. n : order[j] = i
      /\ \A i, j \in 1 .. n : i < j => ranges[order[i]].start <= ranges[order[j]].start
  BY <1>1, <1>3 DEF Orders
<1>6. s \in Seq(MapRange) /\ DOMAIN s = 1 .. n
  <2>1. \A i \in 1 .. n : ranges[order[i]] \in MapRange
    BY <1>1, <1>5
  <2> QED
    BY <1>1, <1>4, <2>1
<1>7. Elements(s) = Elements(ranges)
  <2>1. ASSUME NEW i \in 1 .. n PROVE s[i] \in Elements(ranges)
    BY <1>1, <1>4, <1>5
  <2>2. ASSUME NEW i \in 1 .. n PROVE \E j \in 1 .. n : s[j] = ranges[i]
    <3>1. PICK j \in 1 .. n : order[j] = i
      BY <1>5
    <3> QED
      BY <3>1, <1>4
  <2> QED
    BY <1>1, <1>6, <2>1, <2>2 DEF Elements
<1>8. ASSUME NEW i \in 1 .. n, NEW j \in 1 .. n, i < j
      PROVE  s[i] = s[j] \/ s[i].end <= s[j].start
  <2>1. order[i] \in 1 .. n /\ order[j] \in 1 .. n /\ s[i] = ranges[order[i]] /\ s[j] = ranges[order[j]]
    BY <1>4, <1>5
  <2>2. s[i].start <= s[j].start
    BY <1>5, <1>8, <2>1
  <2>3. s[i] \in Elements(ranges) /\ s[j] \in Elements(ranges)
    BY <1>1, <2>1
  <2>4. s[i] = s[j] \/ s[i].end <= s[j].start \/ s[j].end <= s[i].start
    BY <2>3 DEF Laid
  <2>5. /\ s[i].start \in Nat /\ s[i].end \in Nat /\ s[i].start < s[i].end
        /\ s[j].start \in Nat /\ s[j].end \in Nat /\ s[j].start < s[j].end
    BY <1>1, <2>1
  <2> QED
    BY ONLY <2>2, <2>4, <2>5
<1> QED
  BY <1>6, <1>7, <1>8

(* What a read of unit u should find, and whether there is nothing to find.*)
Holding(at, u) == {r \in at : u \in r.start .. r.end - 1}
Belongs(at, x, u) ==
  IF Holding(at, u) = {} THEN u \notin Broken /\ x = Unit("disk", u)
  ELSE x \in {Unit(r.letter, u - r.start) : r \in Holding(at, u)}
Missing(at, u) == Holding(at, u) = {} /\ u \in Broken
Gets(at, got, off, n) ==
  /\ got \in Seq(Units) /\ Len(got) <= n
  /\ \A k \in 1 .. Len(got) : Belongs(at, got[k], off + k - 1)
  /\ Len(got) < n => Missing(at, off + Len(got))

LEMMA DiskReadIs ==
  ASSUME NEW off \in Nat, NEW n \in Nat, NEW at,
         \A u \in off .. off + n - 1 : Holding(at, u) = {}
  PROVE  Gets(at, DiskRead(off, n), off, n)
<1> DEFINE broken == {u \in off .. off + n - 1 : u \in Broken}
           first == CHOOSE u \in broken : \A v \in broken : u <= v
           count == IF broken = {} THEN n ELSE first - off
           got == [i \in 1 .. count |-> Unit("disk", off + i - 1)]
<1>1. DiskRead(off, n) = got
  BY Zenon DEF DiskRead
<1>2. /\ count \in 0 .. n /\ \A u \in off .. off + count - 1 : u \notin Broken
      /\ count < n => off + count \in Broken
  <2>0. /\ broken \subseteq Nat /\ \A u \in broken : u \in off .. off + n - 1 /\ u \in Broken
        /\ \A u \in off .. off + n - 1 : u \in Broken => u \in broken
    OBVIOUS
  <2>1. CASE broken = {}
    <3>1. count = n
      BY <2>1
    <3> HIDE DEF broken, count
    <3> QED
      BY <2>0, <2>1, <3>1
  <2>2. CASE broken # {}
    <3>1. first \in broken /\ \A v \in broken : first <= v
      <4> HIDE DEF broken
      <4> QED
        BY <2>0, <2>2, LeastOf
    <3>2. count = first - off
      BY <2>2
    <3> HIDE DEF first, count, broken
    <3>3. first \in off .. off + n - 1 /\ first \in Broken /\ first \in Nat
      BY <2>0, <3>1
    <3>4. count \in 0 .. n /\ off + count = first
      BY <3>2, <3>3
    <3>5. \A u \in off .. off + count - 1 : u \in off .. off + n - 1 /\ ~(first <= u)
      BY <3>3, <3>4
    <3> QED
      BY <2>0, <3>1, <3>3, <3>4, <3>5
  <2> HIDE DEF broken, first, count
  <2> QED
    BY <2>1, <2>2
<1> HIDE DEF count, broken
<1>3. /\ got \in Seq(Units) /\ Len(got) = count
      /\ \A k \in 1 .. count : got[k] = Unit("disk", off + k - 1)
  <2>1. \A k \in 1 .. count : Unit("disk", off + k - 1) \in Units
    BY <1>2 DEF Unit, Units
  <2> DEFINE At(k) == Unit("disk", off + k - 1)
  <2>2. got = [k \in 1 .. count |-> At(k)] /\ \A k \in 1 .. count : At(k) \in Units
    BY <2>1
  <2>3. \A k \in 1 .. count : At(k) = Unit("disk", off + k - 1)
    OBVIOUS
  <2> HIDE DEF At, got
  <2>4. count \in Nat
    BY <1>2
  <2>5. got \in Seq(Units) /\ Len(got) = count /\ \A k \in 1 .. count : got[k] = At(k)
    BY <2>2, <2>4
  <2> QED
    BY <2>3, <2>5
<1> HIDE DEF got
<1>4. \A k \in 1 .. count : Belongs(at, got[k], off + k - 1)
  <2> TAKE k \in 1 .. count
  <2>1. off + k - 1 \in off .. off + n - 1 /\ off + k - 1 \in off .. off + count - 1
    BY <1>2
  <2> QED
    BY <1>2, <1>3, <2>1 DEF Belongs
<1>5. count < n => Missing(at, off + count)
  <2>1. count < n => off + count \in off .. off + n - 1
    BY <1>2
  <2> QED
    BY <1>2, <2>1 DEF Missing
<1> QED
  BY <1>1, <1>2, <1>3, <1>4, <1>5 DEF Gets

(* One turn of the loop goes on by a unit at least.                        *)
Ordered(s) ==
  /\ s \in Seq(MapRange) /\ \A r \in Elements(s) : r.start < r.end
  /\ \A i, j \in DOMAIN s : i < j => s[i] = s[j] \/ s[i].end <= s[j].start

LEMMA ReadPieceIs ==
  ASSUME NEW s, Ordered(s), NEW pos \in Nat, NEW len \in Nat \ {0},
         NEW piece, piece = ReadPiece(s, pos, len)
  PROVE  piece.want \in 1 .. len /\ Gets(Elements(s), piece.got, pos, piece.want)
<1> DEFINE at == Elements(s)
           behind == {j \in DOMAIN s : s[j].end > pos}
           i == FirstEndingBehind(s, pos)
           Upto(edge) == IF edge - pos < len THEN edge - pos ELSE len
<1>1. /\ DOMAIN s = 1 .. Len(s) /\ Len(s) \in Nat
      /\ \A j \in DOMAIN s : s[j].start \in Nat /\ s[j].end \in Nat /\ s[j].start < s[j].end
                             /\ s[j] \in at /\ s[j].letter \in STRING
  <2>1. DOMAIN s = 1 .. Len(s) /\ Len(s) \in Nat /\ \A j \in DOMAIN s : s[j] \in MapRange
    BY DEF Ordered
  <2>2. \A j \in DOMAIN s : s[j] \in at
    BY DEF Elements
  <2>3. \A j \in DOMAIN s : s[j].start < s[j].end
    BY <2>2 DEF Ordered
  <2> HIDE DEF at
  <2> QED
    BY <2>1, <2>2, <2>3 DEF MapRange
<1>2. \A r \in at : \E j \in DOMAIN s : r = s[j]
  BY DEF Elements
<1> HIDE DEF at
<1>0. \A edge \in Nat : edge > pos =>
        Upto(edge) \in 1 .. len /\ pos + Upto(edge) <= edge /\ Upto(edge) \in Nat
  OBVIOUS
<1>3. CASE behind = {}
  <2>1. i > Len(s)
    BY <1>1, <1>3 DEF FirstEndingBehind
  <2>2. piece = [want |-> len, got |-> DiskRead(pos, len)]
    BY <2>1, Zenon DEF ReadPiece
  <2>3. \A u \in pos .. pos + len - 1 : Holding(at, u) = {}
    <3> SUFFICES ASSUME NEW u \in pos .. pos + len - 1, NEW r \in at, u \in r.start .. r.end - 1
                 PROVE  FALSE
      BY DEF Holding
    <3>1. PICK j \in DOMAIN s : r = s[j]
      BY <1>2
    <3>2. s[j].end > pos
      BY <1>1, <3>1
    <3> QED
      BY <3>2, <1>3
  <2>4. Gets(at, DiskRead(pos, len), pos, len)
    BY <2>3, DiskReadIs
  <2> QED
    BY <2>2, <2>4 DEF at
<1>4. CASE behind # {}
  <2>1. /\ i \in behind /\ \A j \in behind : i <= j
    <3>1. behind \subseteq Nat
      BY <1>1
    <3>2. i = CHOOSE j \in behind : \A k \in behind : j <= k
      BY <1>4, Zenon DEF FirstEndingBehind
    <3> HIDE DEF behind, i
    <3> QED
      BY <1>4, <3>1, <3>2, LeastOf
  <2>2. /\ i \in DOMAIN s /\ i \in Nat /\ ~(i > Len(s)) /\ s[i].end > pos
        /\ s[i].start \in Nat /\ s[i].end \in Nat
    BY <1>1, <2>1
  <2>3. \A j \in DOMAIN s : s[j].end > pos => i <= j
    BY <2>1
  <2>4. piece = IF pos >= s[i].start
                THEN [want |-> Upto(s[i].end),
                      got |-> [k \in 1 .. Upto(s[i].end) |-> Unit(s[i].letter, pos + k - 1 - s[i].start)]]
                ELSE [want |-> Upto(s[i].start), got |-> DiskRead(pos, Upto(s[i].start))]
    BY <2>2, Zenon DEF ReadPiece
  <2> HIDE DEF i, behind, Upto
  <2>5. CASE pos >= s[i].start
    <3> DEFINE n == Upto(s[i].end)
               Put(k) == Unit(s[i].letter, pos + k - 1 - s[i].start)
               got == [k \in 1 .. n |-> Put(k)]
    <3>1. n \in 1 .. len /\ pos + n <= s[i].end /\ n \in Nat
      BY <1>0, <2>2
    <3>2. piece = [want |-> n, got |-> got]
      BY <2>4, <2>5
    <3> HIDE DEF n
    <3>3. \A k \in 1 .. n : Put(k) \in Units
      BY <1>1, <2>2, <2>5, <3>1 DEF Unit, Units
    <3>4. \A k \in 1 .. n : s[i] \in Holding(at, pos + k - 1)
      BY <1>1, <2>2, <2>5, <3>1 DEF Holding
    <3>5. \A k \in 1 .. n : Put(k) = Unit(s[i].letter, pos + k - 1 - s[i].start)
      OBVIOUS
    <3> HIDE DEF Put
    <3>6. got \in Seq(Units) /\ Len(got) = n /\ \A k \in 1 .. n : got[k] = Put(k)
      BY <3>1, <3>3
    <3> HIDE DEF got
    <3>7. \A k \in 1 .. n : Belongs(at, got[k], pos + k - 1)
      <4> TAKE k \in 1 .. n
      <4>1. s[i] \in Holding(at, pos + k - 1)
        BY <3>4, Zenon
      <4>2. got[k] = Put(k)
        BY <3>6, Zenon
      <4>3. Put(k) = Unit(s[i].letter, pos + k - 1 - s[i].start)
        BY <3>5, Zenon
      <4>4. got[k] = Unit(s[i].letter, (pos + k - 1) - s[i].start)
        <5>1. pos + k - 1 - s[i].start = (pos + k - 1) - s[i].start
          BY <2>2, <3>1
        <5> QED
          BY <4>2, <4>3, <5>1, Zenon
      <4>5. /\ Holding(at, pos + k - 1) # {}
            /\ got[k] \in {Unit(r.letter, (pos + k - 1) - r.start) : r \in Holding(at, pos + k - 1)}
        BY <4>1, <4>4
      <4> QED
        BY <4>5, Zenon DEF Belongs
    <3>8. Gets(at, got, pos, n)
      BY <3>1, <3>6, <3>7 DEF Gets
    <3> QED
      BY <3>1, <3>2, <3>8 DEF at
  <2>6. CASE ~(pos >= s[i].start)
    <3> DEFINE n == Upto(s[i].start)
    <3>1. n \in 1 .. len /\ pos + n <= s[i].start /\ n \in Nat
      <4>1. s[i].start > pos
        BY <2>2, <2>6
      <4> QED
        BY <1>0, <2>2, <4>1
    <3>2. piece = [want |-> n, got |-> DiskRead(pos, n)]
      BY <2>4, <2>6
    <3> HIDE DEF n
    <3>3. \A u \in pos .. pos + n - 1 : Holding(at, u) = {}
      <4> SUFFICES ASSUME NEW u \in pos .. pos + n - 1, NEW r \in at, u \in r.start .. r.end - 1
                   PROVE  FALSE
        BY DEF Holding
      <4>1. PICK j \in DOMAIN s : r = s[j]
        BY <1>2
      <4>2. s[j].end > pos /\ s[j].start <= u /\ s[j].start \in Nat /\ s[j].end \in Nat
        BY <1>1, <4>1
      <4>3. i <= j
        BY <2>3, <4>2
      <4>4. u < s[i].start /\ u \in Nat
        BY <2>2, <3>1
      <4>5. i # j
        BY <4>2, <4>4, <2>2
      <4>6. s[i] = s[j] \/ s[i].end <= s[j].start
        <5>1. i < j /\ i \in DOMAIN s /\ j \in DOMAIN s
          BY <1>1, <2>2, <4>3, <4>5
        <5> QED
          BY <5>1 DEF Ordered
      <4>7. s[i].start < s[i].end
        BY <1>1, <2>2
      <4>8. CASE s[i] = s[j]
        BY <4>8, <4>2, <4>4
      <4>9. CASE s[i].end <= s[j].start
        BY ONLY <4>9, <4>2, <4>4, <4>7, <2>2
      <4> QED
        BY <4>6, <4>8, <4>9
    <3>4. Gets(at, DiskRead(pos, n), pos, n)
      BY <3>1, <3>3, DiskReadIs
    <3> QED
      BY <3>1, <3>2, <3>4 DEF at
  <2> QED
    BY <2>5, <2>6
<1> QED
  BY <1>3, <1>4

LEMMA GetsJoined ==
  ASSUME NEW at, NEW pos \in Nat, NEW m \in Nat, NEW k \in Nat, NEW a, NEW b,
         Gets(at, a, pos, m), Len(a) = m, Gets(at, b, pos + m, k)
  PROVE  Gets(at, a \o b, pos, m + k) /\ Len(a \o b) = m + Len(b)
<1>1. /\ a \in Seq(Units) /\ b \in Seq(Units) /\ Len(b) \in Nat /\ Len(b) <= k
      /\ \A j \in 1 .. m : Belongs(at, a[j], pos + j - 1)
      /\ \A j \in 1 .. Len(b) : Belongs(at, b[j], pos + m + j - 1)
      /\ Len(b) < k => Missing(at, pos + m + Len(b))
  <2>1. a \in Seq(Units) /\ b \in Seq(Units) /\ Len(b) <= k
    BY DEF Gets
  <2>2. Len(b) \in Nat
    BY <2>1
  <2> QED
    BY <2>1, <2>2 DEF Gets
<1>2. a \o b \in Seq(Units) /\ Len(a \o b) = m + Len(b)
  <2>1. a \in Seq(Units) /\ b \in Seq(Units)
    BY <1>1
  <2> QED
    BY ONLY <2>1, Len(a) = m, SMTT(20)
<1>3. ASSUME NEW j \in 1 .. (m + Len(b)) PROVE Belongs(at, (a \o b)[j], pos + j - 1)
  <2>1. CASE j <= m
    <3>1. (a \o b)[j] = a[j] /\ j \in 1 .. m
      BY <1>1, <2>1
    <3> QED
      BY <1>1, <3>1
  <2>2. CASE ~(j <= m)
    <3>1. (a \o b)[j] = b[j - m] /\ j - m \in 1 .. Len(b) /\ pos + m + (j - m) - 1 = pos + j - 1
      BY <1>1, <2>2
    <3>2. Belongs(at, b[j - m], pos + m + (j - m) - 1)
      BY <1>1, <3>1
    <3> QED
      BY <3>1, <3>2
  <2> QED
    BY <2>1, <2>2
<1>4. m + Len(b) < m + k => Missing(at, pos + (m + Len(b)))
  <2>1. pos + (m + Len(b)) = pos + m + Len(b)
    BY <1>1
  <2> QED
    BY <1>1, <2>1
<1>5. \A j \in 1 .. Len(a \o b) : Belongs(at, (a \o b)[j], pos + j - 1)
  BY <1>2, <1>3
<1>6. Len(a \o b) <= m + k /\ (Len(a \o b) < m + k => Missing(at, pos + Len(a \o b)))
  BY <1>1, <1>2, <1>4
<1> QED
  BY <1>2, <1>5, <1>6 DEF Gets

(* The loop of ReadAt: what it makes of the last n units of a read that    *)
(* ends at a position.                                                     *)
Joins(piece, after) ==
  IF Len(piece.got) < piece.want THEN [got |-> piece.got, failed |-> TRUE]
  ELSE [got |-> piece.got \o after.got, failed |-> after.failed]
Turn(s, off, len, f, n) ==
  IF n = 0 THEN [got |-> <<>>, failed |-> FALSE]
  ELSE Joins(ReadPiece(s, off + len - n, n), f[n - ReadPiece(s, off + len - n, n).want])

LEMMA TurnLooksBelow ==
  ASSUME NEW s, Ordered(s), NEW off \in Nat, NEW len \in Nat, NEW n \in 0 .. len, NEW f, NEW h,
         \A k \in 0 .. n - 1 : f[k] = h[k]
  PROVE  Turn(s, off, len, f, n) = Turn(s, off, len, h, n)
<1>1. CASE n = 0
  BY <1>1, Zenon DEF Turn
<1>2. CASE n # 0
  <2> DEFINE piece == ReadPiece(s, off + len - n, n)
  <2>1. off + len - n \in Nat /\ n \in Nat \ {0}
    BY <1>2
  <2>2. piece.want \in 1 .. n
    BY <2>1, ReadPieceIs
  <2> HIDE DEF piece
  <2>3. f[n - piece.want] = h[n - piece.want]
    BY <2>2
  <2> QED
    BY <1>2, <2>3, Zenon DEF Turn, piece
<1> QED
  BY <1>1, <1>2

LEMMA LoopEnds ==
  ASSUME NEW s, Ordered(s), NEW off \in Nat, NEW len \in Nat
  PROVE  \E f : f = [n \in 0 .. len |-> Turn(s, off, len, f, n)]
<1> DEFINE Fills(f, k) == DOMAIN f = 0 .. k /\ \A n \in 0 .. k : f[n] = Turn(s, off, len, f, n)
           None == {k \in 0 .. len : ~\E f : f = [n \in 0 .. k |-> f[n]] /\ Fills(f, k)}
<1>1. None = {}
  <2> SUFFICES ASSUME None # {} PROVE FALSE
    OBVIOUS
  <2>1. PICK k \in None : \A j \in None : k <= j
    <3>1. None \subseteq Nat
      OBVIOUS
    <3> HIDE DEF None
    <3> QED
      BY <3>1, LeastOf
  <2>2. k \in 0 .. len /\ k \in Nat /\ ~\E f : f = [n \in 0 .. k |-> f[n]] /\ Fills(f, k)
    BY <2>1
  <2>3. \E f : \A n \in 0 .. k - 1 : f[n] = Turn(s, off, len, f, n)
    <3>1. CASE k = 0
      BY <3>1
    <3>2. CASE k # 0
      <4>1. k - 1 \in 0 .. len /\ ~(k <= k - 1)
        BY <2>2, <3>2
      <4>2. k - 1 \notin None
        BY ONLY <2>1, <4>1
      <4> QED
        BY <4>1, <4>2
    <3> QED
      BY <3>1, <3>2
  <2>4. PICK f : \A n \in 0 .. k - 1 : f[n] = Turn(s, off, len, f, n)
    BY <2>3
  <2> DEFINE h == [n \in 0 .. k |-> IF n = k THEN Turn(s, off, len, f, k) ELSE f[n]]
  <2>5. h = [n \in 0 .. k |-> h[n]] /\ \A n \in 0 .. k - 1 : h[n] = f[n]
    BY <2>2
  <2>6. h[k] = Turn(s, off, len, f, k)
    BY <2>2
  <2> HIDE DEF h
  <2>7. ASSUME NEW n \in 0 .. k PROVE h[n] = Turn(s, off, len, h, n)
    <3>1. n \in 0 .. len /\ \A j \in 0 .. n - 1 : j \in 0 .. k - 1
      BY <2>2
    <3>2. Turn(s, off, len, f, n) = Turn(s, off, len, h, n)
      <4>1. \A j \in 0 .. n - 1 : f[j] = h[j]
        BY <2>5, <3>1
      <4> QED
        BY <3>1, <4>1, TurnLooksBelow
    <3>3. CASE n = k
      BY <3>2, <3>3, <2>6
    <3>4. CASE n # k
      <4>1. n \in 0 .. k - 1
        BY <2>2, <3>4
      <4> QED
        BY <4>1, <3>2, <2>4, <2>5
    <3> QED
      BY <3>3, <3>4
  <2>8. Fills(h, k)
    BY <2>5, <2>7
  <2> QED
    BY <2>2, <2>5, <2>8
<1>2. len \in 0 .. len /\ len \notin None
  BY <1>1
<1>3. PICK f : f = [n \in 0 .. len |-> f[n]] /\ Fills(f, len)
  BY <1>2
<1>4. f = [n \in 0 .. len |-> Turn(s, off, len, f, n)]
  BY <1>3
<1> QED
  BY <1>4

(* A read delivers every unit, or fails at one that is missing.            *)
Delivers(at, r, off, n) ==
  /\ Gets(at, r.got, off, n) /\ r.failed \in BOOLEAN
  /\ r.failed <=> Len(r.got) < n

LEMMA DeliversIs ==
  ASSUME NEW at, NEW off, NEW n, NEW got, NEW failed \in BOOLEAN, NEW r,
         r = [got |-> got, failed |-> failed], Gets(at, got, off, n), failed <=> Len(got) < n
  PROVE  Delivers(at, r, off, n)
<1>1. r.got = got /\ r.failed = failed
  OBVIOUS
<1> QED
  BY <1>1, Zenon DEF Delivers

LEMMA JoinsDelivers ==
  ASSUME NEW at, NEW pos \in Nat, NEW n \in Nat, NEW want \in 1 .. n, NEW got, NEW rest, NEW failed \in BOOLEAN,
         Gets(at, got, pos, want), Gets(at, rest, pos + want, n - want),
         failed <=> Len(rest) < n - want,
         NEW piece, piece.want = want, piece.got = got,
         NEW after, after.got = rest, after.failed = failed
  PROVE  Delivers(at, Joins(piece, after), pos, n)
<1>1. want \in Nat /\ n - want \in Nat /\ want + (n - want) = n
  OBVIOUS
<1>2. got \in Seq(Units) /\ rest \in Seq(Units) /\ Len(got) <= want
  BY DEF Gets
<1>3. Len(got) \in Nat /\ Len(rest) \in Nat
  BY <1>2
<1>4. CASE Len(got) < want
  <2>1. Joins(piece, after) = [got |-> got, failed |-> TRUE]
    BY <1>4, Zenon DEF Joins
  <2>2. Len(got) < n /\ Len(got) <= n
    BY <1>1, <1>3, <1>4
  <2>3. Gets(at, got, pos, n)
    BY <1>4, <2>2, Zenon DEF Gets
  <2>4. TRUE \in BOOLEAN
    OBVIOUS
  <2> QED
    BY <2>1, <2>2, <2>3, <2>4, DeliversIs, Zenon
<1>5. CASE ~(Len(got) < want)
  <2>1. Joins(piece, after) = [got |-> got \o rest, failed |-> failed]
    BY <1>5, Zenon DEF Joins
  <2>2. Len(got) = want
    BY <1>2, <1>3, <1>5, <1>1
  <2>3. Gets(at, got \o rest, pos, want + (n - want)) /\ Len(got \o rest) = want + Len(rest)
    BY <1>1, <2>2, GetsJoined
  <2>4. Len(got \o rest) < n <=> Len(rest) < n - want
    BY <1>1, <1>3, <2>3
  <2>5. Gets(at, got \o rest, pos, n) /\ (failed <=> Len(got \o rest) < n)
    BY <1>1, <2>3, <2>4, Zenon
  <2> QED
    BY <2>1, <2>5, DeliversIs, Zenon
<1> QED
  BY <1>4, <1>5

LEMMA TurnDelivers ==
  ASSUME NEW s, Ordered(s), NEW off \in Nat, NEW len \in Nat, NEW n \in 0 .. len, NEW f,
         \A k \in 0 .. n - 1 : Delivers(Elements(s), f[k], off + len - k, k)
  PROVE  Delivers(Elements(s), Turn(s, off, len, f, n), off + len - n, n)
<1> DEFINE at == Elements(s)
<1> HIDE DEF at
<1>1. CASE n = 0
  <2>1. Turn(s, off, len, f, n) = [got |-> <<>>, failed |-> FALSE]
    BY <1>1, Zenon DEF Turn
  <2>2. Gets(at, <<>>, off + len - n, 0)
    <3>1. <<>> \in Seq(Units) /\ Len(<<>>) = 0
      OBVIOUS
    <3> QED
      BY <3>1 DEF Gets
  <2> QED
    <3>1. ~(Len(<<>>) < 0) /\ FALSE \in BOOLEAN
      OBVIOUS
    <3>2. Delivers(at, Turn(s, off, len, f, n), off + len - n, 0)
      BY <2>1, <2>2, <3>1, DeliversIs, Zenon
    <3> QED
      BY <1>1, <3>2 DEF at
<1>2. CASE n # 0
  <2> DEFINE piece == ReadPiece(s, off + len - n, n)
             after == f[n - piece.want]
             pos == off + len - n
  <2>1. pos \in Nat /\ n \in Nat \ {0}
    BY <1>2
  <2>2. piece.want \in 1 .. n /\ Gets(at, piece.got, pos, piece.want)
    BY <2>1, ReadPieceIs DEF at
  <2>3. Turn(s, off, len, f, n) = Joins(piece, after)
    BY <1>2, Zenon DEF Turn
  <2> HIDE DEF piece
  <2>4. Delivers(at, after, pos + piece.want, n - piece.want)
    <3>1. n - piece.want \in 0 .. n - 1 /\ off + len - (n - piece.want) = pos + piece.want
      BY <2>1, <2>2
    <3>2. Delivers(at, f[n - piece.want], off + len - (n - piece.want), n - piece.want)
      BY <3>1 DEF at
    <3> QED
      BY <3>1, <3>2, Zenon
  <2> HIDE DEF after, pos
  <2>5. /\ Gets(at, after.got, pos + piece.want, n - piece.want) /\ after.failed \in BOOLEAN
        /\ after.failed <=> Len(after.got) < n - piece.want
    BY <2>4, Zenon DEF Delivers
  <2>6. Delivers(at, Joins(piece, after), pos, n)
    BY <2>1, <2>2, <2>5, JoinsDelivers
  <2> QED
    BY <2>3, <2>6 DEF at, pos
<1> QED
  BY <1>1, <1>2

LEMMA MappedReadIs ==
  ASSUME NEW ranges, Laid(ranges), NEW off \in Nat, NEW len \in Nat
  PROVE  Delivers(Elements(ranges), MappedRead(ranges, off, len), off, len)
<1> DEFINE s == Sorted(ranges)
           rest == CHOOSE f : f = [n \in 0 .. len |-> Turn(s, off, len, f, n)]
           at == Elements(s)
<1>1. Ordered(s) /\ at = Elements(ranges)
  <2>1. /\ s \in Seq(MapRange) /\ Elements(s) = Elements(ranges)
        /\ \A i, j \in DOMAIN s : i < j => s[i] = s[j] \/ s[i].end <= s[j].start
    BY SortedIs
  <2> HIDE DEF s
  <2> QED
    BY <2>1 DEF Ordered, Laid
<1>2. MappedRead(ranges, off, len) = rest[len]
  BY Zenon DEF MappedRead, Turn, Joins
<1> HIDE DEF s, at
<1>4. rest = [n \in 0 .. len |-> Turn(s, off, len, rest, n)]
  <2>1. \E f : f = [n \in 0 .. len |-> Turn(s, off, len, f, n)]
    BY <1>1, LoopEnds
  <2> QED
    BY <2>1, Zenon
<1> HIDE DEF rest
<1>5. \A n \in 0 .. len : rest[n] = Turn(s, off, len, rest, n)
  BY <1>4
<1> DEFINE Bad == {n \in 0 .. len : ~Delivers(at, rest[n], off + len - n, n)}
<1>6. Bad = {}
  <2> SUFFICES ASSUME Bad # {} PROVE FALSE
    OBVIOUS
  <2>1. PICK n \in Bad : \A j \in Bad : n <= j
    <3>1. Bad \subseteq Nat
      OBVIOUS
    <3> HIDE DEF Bad
    <3> QED
      BY <3>1, LeastOf
  <2>2. n \in 0 .. len /\ n \in Nat /\ ~Delivers(at, rest[n], off + len - n, n)
    BY <2>1
  <2>3. \A k \in 0 .. n - 1 : Delivers(at, rest[k], off + len - k, k)
    <3> SUFFICES ASSUME NEW k \in 0 .. n - 1 PROVE Delivers(at, rest[k], off + len - k, k)
      OBVIOUS
    <3>1. k \in 0 .. len /\ ~(n <= k)
      BY <2>2
    <3>2. k \notin Bad
      BY ONLY <2>1, <3>1
    <3> QED
      BY <3>1, <3>2
  <2> HIDE DEF Bad
  <2>4. Delivers(at, Turn(s, off, len, rest, n), off + len - n, n)
    BY <1>1, <2>2, <2>3, TurnDelivers DEF at
  <2> QED
    BY <2>2, <2>4, <1>5
<1>7. Delivers(at, rest[len], off + len - len, len)
  <2>1. len \in 0 .. len /\ len \notin Bad
    BY <1>6
  <2> QED
    BY <2>1
<1>8. off + len - len = off
  OBVIOUS
<1> QED
  BY <1>1, <1>2, <1>7, <1>8

(* What a clone makes of a chunk.                                          *)
Filled(at, x, u) == Belongs(at, x, u) \/ (Missing(at, u) /\ x = Zero)

LEMMA ReadChunkIs ==
  ASSUME NEW ranges, Laid(ranges), NEW off \in Nat, NEW len \in Nat, NEW x,
         x = ReadChunk(ranges, off, len)
  PROVE  /\ x \in Seq(Units) /\ Len(x) = len
         /\ \A k \in 1 .. len : Filled(Elements(ranges), x[k], off + k - 1)
<1> DEFINE at == Elements(ranges)
           chunk == MappedRead(ranges, off, len)
           At(u) == MappedRead(ranges, u, 1)
           One(u) == IF At(u).failed THEN Zero ELSE At(u).got[1]
<1>1. Delivers(at, chunk, off, len) /\ \A u \in Nat : Delivers(at, At(u), u, 1)
  <2>1. 1 \in Nat
    OBVIOUS
  <2> QED
    BY <2>1, MappedReadIs
<1>2. x = IF ~chunk.failed THEN chunk.got ELSE [k \in 1 .. len |-> One(off + k - 1)]
  BY Zenon DEF ReadChunk
<1> HIDE DEF chunk, At, at
<1>3. CASE ~chunk.failed
  <2>1. Gets(at, chunk.got, off, len) /\ ~(Len(chunk.got) < len) /\ x = chunk.got
    BY <1>1, <1>2, <1>3, Zenon DEF Delivers
  <2>2. x \in Seq(Units) /\ Len(x) = len /\ \A k \in 1 .. Len(x) : Belongs(at, x[k], off + k - 1)
    <3>1. x \in Seq(Units) /\ Len(x) <= len
      BY <2>1 DEF Gets
    <3>2. Len(x) \in Nat
      BY <3>1
    <3> QED
      BY <2>1, <3>1, <3>2 DEF Gets
  <2> QED
    BY <2>2, Zenon DEF Filled, at
<1>4. CASE chunk.failed
  <2>1. ASSUME NEW u \in Nat
        PROVE  One(u) \in Units /\ Filled(at, One(u), u)
    <3>1. /\ Gets(at, At(u).got, u, 1) /\ At(u).failed \in BOOLEAN
          /\ At(u).failed <=> Len(At(u).got) < 1
      BY <1>1, Zenon DEF Delivers
    <3>2. At(u).got \in Seq(Units) /\ Len(At(u).got) <= 1
      BY <3>1 DEF Gets
    <3>3. Len(At(u).got) \in Nat
      BY <3>2
    <3>4. CASE At(u).failed
      <4>1. Len(At(u).got) = 0 /\ One(u) = Zero /\ u + Len(At(u).got) = u
        BY <3>1, <3>3, <3>4
      <4>2. Missing(at, u + Len(At(u).got))
        BY <3>1, <3>4, Zenon DEF Gets
      <4>3. Missing(at, u)
        BY <4>1, <4>2, Zenon
      <4>4. Zero \in Units
        BY DEF Zero, Unit, Units
      <4> QED
        BY <4>1, <4>3, <4>4, Zenon DEF Filled
    <3>5. CASE ~At(u).failed
      <4>1. Len(At(u).got) = 1 /\ 1 \in 1 .. Len(At(u).got) /\ u + 1 - 1 = u
        <5>1. ~(Len(At(u).got) < 1)
          BY <3>1, <3>5, Zenon
        <5>2. \A g \in Seq(Units) : Len(g) <= 1 /\ ~(Len(g) < 1) => Len(g) = 1 /\ 1 \in 1 .. Len(g)
          <6> SUFFICES ASSUME NEW g \in Seq(Units), Len(g) <= 1, ~(Len(g) < 1)
                       PROVE  Len(g) = 1 /\ 1 \in 1 .. Len(g)
            BY Zenon
          <6>1. Len(g) \in Nat
            OBVIOUS
          <6>2. \A m \in Nat : m <= 1 /\ ~(m < 1) => m = 1 /\ 1 \in 1 .. m
            OBVIOUS
          <6> QED
            BY <6>1, <6>2, Zenon
        <5>3. u + 1 - 1 = u
          OBVIOUS
        <5> QED
          BY <3>2, <5>1, <5>2, <5>3, Zenon
      <4>2. Belongs(at, At(u).got[1], u + 1 - 1)
        BY <3>1, <4>1, Zenon DEF Gets
      <4>3. One(u) = At(u).got[1] /\ At(u).got[1] \in Units
        BY <3>2, <3>5, <4>1
      <4> QED
        BY <4>1, <4>2, <4>3, Zenon DEF Filled
    <3> QED
      BY <3>4, <3>5
  <2> HIDE DEF One
  <2>2. \A k \in 1 .. len : off + k - 1 \in Nat
    OBVIOUS
  <2>3. x = [k \in 1 .. len |-> One(off + k - 1)]
    BY <1>2, <1>4, Zenon
  <2>4. \A k \in 1 .. len : One(off + k - 1) \in Units /\ Filled(at, One(off + k - 1), off + k - 1)
    BY <2>1, <2>2
  <2> DEFINE Put(k) == One(off + k - 1)
  <2>5. x = [k \in 1 .. len |-> Put(k)] /\ \A k \in 1 .. len : Put(k) \in Units
    BY <2>3, <2>4
  <2>6. \A k \in 1 .. len : Filled(at, Put(k), off + k - 1)
    BY <2>4
  <2> HIDE DEF Put
  <2>7. x \in Seq(Units) /\ Len(x) = len /\ \A k \in 1 .. len : x[k] = Put(k)
    BY <2>5
  <2>8. \A k \in 1 .. len : Filled(at, x[k], off + k - 1)
    BY <2>6, <2>7
  <2> QED
    BY <2>7, <2>8 DEF at
<1> QED
  BY <1>3, <1>4

-----------------------------------------------------------------------------
(* The source of an operation: the disk Windows runs from is the one that  *)
(* was listed, and its volumes are partitions of the table.                *)

KnownSource(d) == d.system => d = attached[Source]
Permitted(o) ==
  /\ o.tgt.slot # Source
  /\ LiveVSS(o.mode) => o.src.system
  /\ KnownSource(o.src)
  /\ IF o.mode = "smart" THEN o.plan.copy \in Nat \ {0} ELSE o.plan = NoPlan
SourceInv ==
  /\ \E m \in Machines : made = m.layout
  /\ attached[Source].system => Mounted(attached[Source].letters, made.parts)
  /\ KnownSource(listed[Source])
  /\ ui # NoDialog => Permitted(ui) \/ ui.mode = "recovery"
  /\ \A i \in Ops : /\ op[i].pc \notin NoTarget => Permitted(op[i])
                    /\ op[i].pc = "replan" => op[i].mode = "smart"

(* A plan says how much is copied.                                         *)
LEMMA PlanCopies ==
  ASSUME NEW src, NEW tgt, src.size \in Nat \ {0}, tgt.size \in Nat \ {0},
         NEW plan, plan = BuildPlan(src, tgt, layout), plan # NoPlan
  PROVE  plan.copy \in Nat \ {0}
<1> DEFINE whole == [NoPlan EXCEPT !.copy = src.size, !.limit = src.size, !.source = src.id]
           limit == IF tgt.size > TailReserve THEN AlignDown(tgt.size - TailReserve) ELSE 0
           dropped == {p \in layout.parts : Droppable(p, limit)}
           essential == layout.parts \ dropped
           last == LastOf(essential)
           fits == [whole EXCEPT !.copy = tgt.size, !.limit = limit, !.dropped = dropped]
           cut == [fits EXCEPT !.shrink = last.num, !.from = last.size,
                               !.to = NewSize(last, limit), !.min = MinimumSafe(last)]
<1>1. whole.copy = src.size
  BY Zenon DEF NoPlan
<1>2. fits.copy = tgt.size
  BY Zenon DEF NoPlan
<1>3. cut.copy = tgt.size
  BY Zenon DEF NoPlan
<1>4. plan = NoPlan \/ plan = whole \/ plan = fits \/ plan = cut
  BY Zenon DEF BuildPlan
<1> HIDE DEF whole, fits, cut
<1> QED
  BY <1>1, <1>2, <1>3, <1>4

(* The source is exchanged only if Windows does not run from it.           *)
SourceDisk ==
  \/ attached'[Source] = attached[Source]
  \/ /\ ~attached[Source].system /\ "swap" \in harm'
     /\ attached'[Source].system => Mounted(attached'[Source].letters, made.parts)

LEMMA RestoreTakesTarget ==
  ASSUME Typed, NEW i \in Ops, Restore(i), op[i].tgt.slot # Source, Source \in Slots
  PROVE  attached'[Source] = attached[Source]
<1>1. \/ attached' = attached
      \/ attached' = [attached EXCEPT ![op[i].tgt.slot].letters = <<>>]
  BY DEF Restore
<1> DEFINE e == [attached[op[i].tgt.slot] EXCEPT !.letters = <<>>]
<1>2. CASE attached' = [attached EXCEPT ![op[i].tgt.slot].letters = <<>>]
  <2>1. attached' = [s \in Slots |-> IF s = op[i].tgt.slot THEN e ELSE attached[s]]
    BY <1>2, Zenon DEF Typed
  <2> HIDE DEF e
  <2> QED
    BY <2>1
<1> QED
  BY <1>1, <1>2

LEMMA SourceDiskStep ==
  ASSUME ControlInv, SourceInv, [Next]_vars
  PROVE  SourceDisk
<1>0. Typed /\ DisksKnown /\ Source \in Slots
  BY DEF ControlInv, DisksKnown
<1>1. CASE UNCHANGED attached
  BY <1>1 DEF SourceDisk
<1>2. CASE UNCHANGED vars
  BY <1>1, <1>2 DEF vars, machine
<1>3. CASE Window
  BY <1>1, <1>3 DEF Window, RefreshDisks, DisksListed, StartRecovery, Confirm, Decline, Cancel,
     Quit, StartClone, machine
<1>4. ASSUME NEW slot \in Slots, Swap(slot)
      PROVE  SourceDisk
  <2> PICK d \in Others : attached' = [attached EXCEPT ![slot] = [d EXCEPT !.slot = slot]]
    BY <1>4, Zenon DEF Swap
  <2> DEFINE e == [d EXCEPT !.slot = slot]
  <2>1. attached' = [s \in Slots |-> IF s = slot THEN e ELSE attached[s]]
    BY <1>0, Zenon DEF Typed
  <2>2. e.system = d.system /\ e.letters = d.letters
    <3>1. d \in Disk
      BY MachineAssumption
    <3> QED
      BY <3>1, Zenon DEF Disk
  <2>3. d.system => Mounted(d.letters, made.parts)
    BY MachineAssumption DEF SourceInv
  <2>4. ~attached[slot].system /\ "swap" \in harm'
    BY <1>0, <1>4, SwapEffect
  <2> HIDE DEF e
  <2> QED
    BY <1>0, <2>1, <2>2, <2>3, <2>4 DEF SourceDisk
<1>5. ASSUME NEW slot \in Slots, RunRestoreScript(slot)
      PROVE  SourceDisk
  BY <1>1, <1>5 DEF RunRestoreScript
<1>6. ASSUME NEW p \in layout.parts, Grow(p)
      PROVE  SourceDisk
  <2>1. UNCHANGED attached
    BY <1>6, Zenon DEF Grow
  <2> QED
    BY <1>1, <2>1
<1>7. ASSUME NEW i \in Ops, Goroutine(i)
      PROVE  SourceDisk
  <2>1. CASE Prepare(i)
    BY <1>0, <1>1, <2>1, RevalidateEffect, ReplanEffect, ShrinkEffect, UnshrinkEffect, AccessEffect,
       LockEffect, OpenEffect, CreateSnapshotsEffect, OpenSnapshotsEffect DEF Prepare, DisksStay
  <2>2. CASE Copy(i) \/ RunRecovery(i) \/ Release(i) \/ Cleanup(i) \/ Finish(i) \/ CleanupRestore(i)
    BY <1>0, <1>1, <2>2, CopyEffect, EndEffect, ReleaseEffect, CleanupRestoreEffect DEF DisksStay
  <2>3. CASE Restore(i)
    <3>1. op[i].pc = "restore"
      BY <2>3 DEF Restore
    <3>2. op[i].tgt.slot # Source
      BY <3>1 DEF SourceInv, Permitted, NoTarget, Idle
    <3> QED
      BY <1>0, <2>3, <3>2, RestoreTakesTarget DEF SourceDisk
  <2> QED
    BY <1>7, <2>1, <2>2, <2>3 DEF Goroutine, Leave
<1> QED
  BY <1>2, <1>3, <1>4, <1>5, <1>6, <1>7 DEF Next, World

LEMMA PermittedStays ==
  ASSUME SourceDisk
  PROVE  /\ \A d : KnownSource(d) => KnownSource(d)'
         /\ \A o : Permitted(o) => Permitted(o)'
<1>1. ASSUME NEW d, KnownSource(d)
      PROVE  d.system => d = attached'[Source]
  BY <1>1 DEF KnownSource, SourceDisk
<1>2. \A d : KnownSource(d) => KnownSource(d)'
  BY <1>1 DEF KnownSource
<1>3. ASSUME NEW o, Permitted(o)
      PROVE  Permitted(o)'
  <2>1. KnownSource(o.src)'
    BY <1>2, <1>3 DEF Permitted
  <2> QED
    BY <1>3, <2>1 DEF Permitted
<1> QED
  BY <1>2, <1>3

LEMMA SourceOp ==
  ASSUME SourceInv, NEW i \in Ops
  PROVE  /\ op[i].pc \notin NoTarget => Permitted(op[i])
         /\ op[i].pc = "replan" => op[i].mode = "smart"
BY Zenon DEF SourceInv

(* It is enough to look at what changes.                                   *)
LEMMA SourceKept ==
  ASSUME ControlInv, SourceInv, [Next]_vars, UNCHANGED made,
         listed'[Source] = listed[Source] \/ KnownSource(listed'[Source]) \/ listed'[Source] = attached'[Source],
         \/ ui' = ui \/ ui' = NoDialog \/ Permitted(ui') \/ ui'.mode = "recovery",
         \A i \in Ops :
           \/ /\ op'[i].pc = op[i].pc /\ op'[i].mode = op[i].mode /\ op'[i].plan = op[i].plan
              /\ op'[i].src = op[i].src /\ op'[i].tgt = op[i].tgt
           \/ /\ op'[i].pc \notin NoTarget => Permitted(op'[i])
              /\ op'[i].pc = "replan" => op'[i].mode = "smart"
  PROVE  SourceInv'
<1>1. SourceDisk
  BY SourceDiskStep
<1>2. /\ \A d : KnownSource(d) => KnownSource(d)'
      /\ \A o : Permitted(o) => Permitted(o)'
  BY <1>1, PermittedStays
<1>3. \E m \in Machines : made' = m.layout
  BY DEF SourceInv
<1>4. attached'[Source].system => Mounted(attached'[Source].letters, made'.parts)
  BY <1>1 DEF SourceInv, SourceDisk
<1>5. KnownSource(listed[Source])'
  <2>1. CASE listed'[Source] = attached'[Source]
    BY <2>1 DEF KnownSource
  <2>2. CASE listed'[Source] = listed[Source] \/ KnownSource(listed'[Source])
    <3>1. KnownSource(listed'[Source])
      BY <2>2 DEF SourceInv
    <3>2. listed'[Source].system => listed'[Source] = attached'[Source]
      BY <3>1, <1>1 DEF KnownSource, SourceDisk
    <3> QED
      BY <3>2 DEF KnownSource
  <2> QED
    BY <2>1, <2>2
<1>6. ASSUME NEW o, NEW q, Permitted(o), q.tgt = o.tgt, q.mode = o.mode, q.src = o.src, q.plan = o.plan
      PROVE  Permitted(q)
  BY <1>6 DEF Permitted
<1>7. ASSUME NEW q, Permitted(q)
      PROVE  /\ q.tgt.slot # Source /\ (LiveVSS(q.mode) => q.src.system)
             /\ q.src.system => q.src = attached'[Source]
             /\ IF q.mode = "smart" THEN q.plan.copy \in Nat \ {0} ELSE q.plan = NoPlan
  BY <1>1, <1>7 DEF Permitted, KnownSource, SourceDisk
<1>8. ui' # NoDialog => Permitted(ui)' \/ ui'.mode = "recovery"
  <2>1. ui' # NoDialog => Permitted(ui') \/ ui'.mode = "recovery"
    BY DEF SourceInv
  <2> QED
    BY <2>1, <1>7 DEF Permitted, KnownSource
<1>9. ASSUME NEW i \in Ops
      PROVE  /\ op'[i].pc \notin NoTarget => Permitted(op[i])'
             /\ op'[i].pc = "replan" => op'[i].mode = "smart"
  <2>1. /\ op'[i].pc \notin NoTarget => Permitted(op'[i])
        /\ op'[i].pc = "replan" => op'[i].mode = "smart"
    <3>1. /\ op[i].pc \notin NoTarget => Permitted(op[i])
          /\ op[i].pc = "replan" => op[i].mode = "smart"
      BY SourceOp
    <3> DEFINE o == op[i]
               q == op'[i]
    <3>2. /\ o.pc \notin NoTarget => Permitted(o)
          /\ o.pc = "replan" => o.mode = "smart"
      BY <3>1
    <3>3. \/ q.pc = o.pc /\ q.mode = o.mode /\ q.plan = o.plan /\ q.src = o.src /\ q.tgt = o.tgt
          \/ /\ q.pc \notin NoTarget => Permitted(q)
             /\ q.pc = "replan" => q.mode = "smart"
      OBVIOUS
    <3>4. ASSUME q.pc = o.pc, q.mode = o.mode, q.plan = o.plan, q.src = o.src, q.tgt = o.tgt
          PROVE  /\ q.pc \notin NoTarget => Permitted(q)
                 /\ q.pc = "replan" => q.mode = "smart"
      <4>1. ASSUME q.pc \notin NoTarget
            PROVE  Permitted(q)
        BY <1>6, <3>2, <3>4, <4>1, Zenon
      <4> QED
        BY <3>2, <3>4, <4>1, Zenon
    <3> QED
      BY <3>3, <3>4
  <2> QED
    BY <2>1, <1>7 DEF Permitted, KnownSource
<1> QED
  BY <1>3, <1>4, <1>5, <1>8, <1>9 DEF SourceInv

LEMMA SourceGoroutine ==
  ASSUME ControlInv, SourceInv, NEW i \in Ops, Goroutine(i)
  PROVE  SourceInv'
<1> USE FieldNames
<1>0. /\ Typed /\ DisksKnown /\ [Next]_vars /\ Quiet
      /\ op[i].pc \notin NoTarget => Chosen(op[i]) /\ Permitted(op[i])
      /\ op[i].pc = "replan" => op[i].mode = "smart"
      /\ \A j \in Ops \ {i} : op'[j] = op[j]
  <2>1. Typed /\ DisksKnown
    BY DEF ControlInv
  <2>2. [Next]_vars
    BY DEF Next
  <2>3. Quiet
    BY QuietGoroutine
  <2>4. op[i].pc \notin NoTarget => Chosen(op[i])
    BY <2>1 DEF DisksKnown
  <2>5. \A j \in Ops \ {i} : op'[j] = op[j]
    BY MoveOf, Zenon DEF Moves
  <2> QED
    BY <2>1, <2>2, <2>3, <2>4, <2>5, SourceOp
<1>1. ASSUME \/ /\ op'[i].pc = op[i].pc /\ op'[i].mode = op[i].mode /\ op'[i].plan = op[i].plan
                /\ op'[i].src = op[i].src /\ op'[i].tgt = op[i].tgt
             \/ /\ op'[i].pc \notin NoTarget => Permitted(op'[i])
                /\ op'[i].pc = "replan" => op'[i].mode = "smart"
      PROVE  SourceInv'
  BY <1>0, <1>1, SourceKept DEF Quiet
<1>2. ASSUME op[i].pc \notin NoTarget, op'[i].pc # "replan", op'[i].mode = op[i].mode,
             op'[i].plan = op[i].plan, op'[i].src = op[i].src, op'[i].tgt = op[i].tgt
      PROVE  SourceInv'
  <2>1. Permitted(op'[i])
    BY <1>0, <1>2 DEF Permitted
  <2> QED
    BY <1>1, <1>2, <2>1
<1>3. CASE Revalidate(i) \/ Access(i)
  <2>1. /\ op[i].pc \in {"revalidate", "access"} /\ UNCHANGED attached
        /\ \/ GivesUp(i, {})
           \/ /\ \E F \in {{"src", "tgt"}, {"src", "tgt", "todo"}} : \E l : GoesOn(i, F, l)
              /\ op'[i].pc = "replan" => op[i].mode = "smart"
              /\ op'[i].src = attached[op[i].src.slot] /\ op'[i].tgt = attached[op[i].tgt.slot]
    <3>1. CASE Revalidate(i)
      BY <1>0, <3>1, RevalidateEffect DEF GoesOn, DisksStay
    <3>2. CASE Access(i)
      BY <1>0, <3>2, AccessEffect DEF GoesOn, DisksStay
    <3> QED
      BY <1>3, <3>1, <3>2
  <2>2. Chosen(op[i]) /\ Permitted(op[i])
    BY <1>0, <2>1 DEF NoTarget, Idle
  <2>3. CASE GivesUp(i, {})
    BY <1>2, <2>1, <2>3 DEF GivesUp, Touches, NoTarget, Idle
  <2>4. CASE ~GivesUp(i, {})
    <3>1. /\ op'[i].mode = op[i].mode /\ op'[i].plan = op[i].plan
          /\ op'[i].src = attached[Source] /\ op'[i].tgt.slot = op[i].tgt.slot
          /\ op'[i].pc = "replan" => op[i].mode = "smart"
      BY <1>0, <2>1, <2>2, <2>4 DEF GoesOn, Touches, Chosen, DisksKnown
    <3>2. LiveVSS(op[i].mode) => attached[Source].system
      BY <2>2 DEF Permitted, KnownSource
    <3>3. Permitted(op'[i])
      BY <2>2, <3>1, <3>2 DEF Permitted, KnownSource
    <3> QED
      BY <1>1, <3>1, <3>3
  <2> QED
    BY <2>3, <2>4
<1>4. CASE Replan(i)
  <2> DEFINE plan == BuildPlan(op[i].src, op[i].tgt, layout)
  <2>1. /\ op[i].pc = "replan"
        /\ \/ GivesUp(i, {})
           \/ /\ \E l \in {"shrink", "access"} : GoesOn(i, {"plan", "shrunk"}, l)
              /\ plan # NoPlan /\ op'[i].plan = plan
    BY <1>0, <1>4, ReplanEffect
  <2>2. Chosen(op[i]) /\ Permitted(op[i]) /\ op[i].mode = "smart"
    BY <1>0, <2>1 DEF NoTarget, Idle
  <2>3. plan # NoPlan => plan.copy \in Nat \ {0}
    <3>1. op[i].src \in Disk /\ op[i].tgt \in Disk
      BY <2>2 DEF Chosen
    <3>2. op[i].src.size \in Nat \ {0} /\ op[i].tgt.size \in Nat \ {0}
      BY <3>1, Zenon DEF Disk
    <3> QED
      BY <3>2, PlanCopies
  <2> HIDE DEF plan
  <2>4. CASE GivesUp(i, {})
    BY <1>2, <2>1, <2>4 DEF GivesUp, Touches, NoTarget, Idle
  <2>5. CASE ~GivesUp(i, {})
    <3>1. /\ op'[i].mode = op[i].mode /\ op'[i].plan = plan /\ plan # NoPlan
          /\ op'[i].src = op[i].src /\ op'[i].tgt = op[i].tgt /\ op'[i].pc # "replan"
      BY <2>1, <2>5 DEF GoesOn, Touches
    <3>2. Permitted(op'[i])
      BY <2>2, <2>3, <3>1 DEF Permitted
    <3> QED
      BY <1>1, <3>1, <3>2
  <2> QED
    BY <2>4, <2>5
<1>5. CASE \/ Shrink(i) \/ Unshrink(i) \/ Lock(i) \/ Open(i) \/ CreateSnapshots(i)
           \/ OpenSnapshots(i) \/ Copy(i) \/ Release(i) \/ Cleanup(i) \/ Restore(i)
  <2> DEFINE K == {"shrunk", "todo", "locked", "reads", "open", "ranges", "copied", "table", "outcome",
                   "panicked", "restoreErr", "pc"}
  <2>1. \E F \in SUBSET K : \E l :
          /\ Touches(i, F) /\ op[i].pc \notin NoTarget
          /\ op'[i].pc = l /\ l # "replan"
    <3>1. CASE Shrink(i) \/ Unshrink(i)
      BY <1>0, <3>1, ShrinkEffect, UnshrinkEffect DEF GoesOn, GivesUp, NoTarget, Idle
    <3>2. CASE Lock(i) \/ Open(i)
      BY <1>0, <3>2, LockEffect, OpenEffect DEF GoesOn, GivesUp, NoTarget, Idle
    <3>3. CASE CreateSnapshots(i) \/ OpenSnapshots(i)
      BY <1>0, <3>3, CreateSnapshotsEffect, OpenSnapshotsEffect DEF GoesOn, GivesUp, NoTarget, Idle
    <3>4. CASE Copy(i)
      BY <1>0, <3>4, CopyEffect DEF GoesOn, NoTarget, Idle
    <3>5. CASE Release(i) \/ Cleanup(i)
      <4>1. \/ op[i].pc = "close" /\ GoesOn(i, {"todo", "locked", "open"}, "restore")
            \/ op[i].pc = "cleanup" /\ GoesOn(i, {"todo", "locked", "open"}, "cleanupRestore")
        BY <1>0, <3>5, ReleaseEffect
      <4> QED
        BY <4>1 DEF GoesOn, NoTarget, Idle
    <3>6. CASE Restore(i)
      BY <1>0, <3>6, RestoreEffect DEF GoesOn, NoTarget, Idle
    <3> QED
      BY <1>5, <3>1, <3>2, <3>3, <3>4, <3>5, <3>6
  <2>2. /\ op[i].pc \notin NoTarget /\ op'[i].pc # "replan" /\ op'[i].mode = op[i].mode
        /\ op'[i].plan = op[i].plan /\ op'[i].src = op[i].src /\ op'[i].tgt = op[i].tgt
    BY <2>1 DEF Touches
  <2> QED
    BY <1>2, <2>2
<1>6. CASE Finish(i) \/ RunRecovery(i) \/ CleanupRestore(i)
  <2>1. op'[i].pc = "ended"
    BY <1>0, <1>6, EndEffect, CleanupRestoreEffect, Zenon
  <2> QED
    BY <1>1, <2>1 DEF NoTarget, Idle
<1> QED
  BY <1>3, <1>4, <1>5, <1>6 DEF Goroutine, Prepare, Leave

LEMMA SourceWindow ==
  ASSUME ControlInv, SourceInv, Window
  PROVE  SourceInv'
<1>0. /\ Typed /\ DisksKnown /\ [Next]_vars /\ NoDisk.system = FALSE
      /\ Source \in Slots
  BY DEF ControlInv, Next, NoDisk, DisksKnown
<1>1. ASSUME UNCHANGED <<op, made, listed>>, 
             \/ ui' = ui \/ ui' = NoDialog \/ Permitted(ui') \/ ui'.mode = "recovery"
      PROVE  SourceInv'
  BY <1>0, <1>1, SourceKept
<1>2. CASE RefreshDisks \/ Decline
  BY <1>1, <1>2 DEF RefreshDisks, Decline, app, history
<1>3. CASE DisksListed
  <2>1. /\ UNCHANGED <<op, made, ui, attached>> /\ listed' = attached
    BY <1>3 DEF DisksListed, machine, history
  <2>2. listed'[Source] = attached'[Source]
    BY <2>1
  <2> QED
    BY <1>0, <2>1, <2>2, SourceKept
<1>4. CASE StartRecovery
  <2>1. ui' = [NoDialog EXCEPT !.mode = "recovery", !.src = listed[Source]]
    BY <1>4, Zenon DEF StartRecovery
  <2>2. ui'.mode = "recovery"
    BY <2>1, Zenon DEF NoDialog
  <2>3. UNCHANGED <<app, op, machine, history>>
    BY <1>4 DEF StartRecovery
  <2> QED
    BY <1>1, <2>2, <2>3 DEF app, history
<1>5. ASSUME NEW mode \in {"offline", "vss", "smart"}, NEW slot \in Slots, StartClone(mode, slot)
      PROVE  SourceInv'
  <2> DEFINE plan == IF mode = "smart" THEN BuildPlan(listed[Source], listed[slot], layout) ELSE NoPlan
  <2>1. /\ ui' = [mode |-> mode, src |-> listed[Source], tgt |-> listed[slot], plan |-> plan]
        /\ Offered(mode, listed[Source], listed[slot])
        /\ mode = "smart" => plan # NoPlan
        /\ UNCHANGED <<app, op, machine, history>>
    BY <1>5, Zenon DEF StartClone
  <2>2. NoDisk.verified = FALSE
    BY DEF NoDisk
  <2>3. listed[Source] \in Disk /\ listed[slot] \in Disk
    BY <1>0, <2>1, <2>2 DEF Offered, DisksKnown
  <2>4. listed[Source].size \in Nat \ {0} /\ listed[slot].size \in Nat \ {0}
    BY <2>3, Zenon DEF Disk
  <2>5. mode = "smart" => plan.copy \in Nat \ {0}
    BY <2>1, <2>4, PlanCopies
  <2>6. mode # "smart" => plan = NoPlan
    OBVIOUS
  <2> HIDE DEF plan
  <2>7. ui'.mode = mode /\ ui'.src = listed[Source] /\ ui'.tgt = listed[slot] /\ ui'.plan = plan
    BY <2>1
  <2>8. KnownSource(listed[Source])
    BY DEF SourceInv
  <2>9. listed[slot].slot # Source /\ listed[Source].system = LiveVSS(mode)
    <3>1. listed[Source].slot = Source
      BY <1>0, <2>1, <2>2 DEF Offered, DisksKnown
    <3> QED
      BY <2>1, <3>1 DEF Offered
  <2>10. Permitted(ui')
    BY <2>5, <2>6, <2>7, <2>8, <2>9 DEF Permitted
  <2> QED
    BY <1>1, <2>1, <2>10 DEF app, history
<1>6. CASE Cancel
  <2>1. latest \in Ops /\ Touches(latest, {"cancelled"}) /\ Quiet
    BY <1>0, <1>6, CancelEffect
  <2>2. \A i \in Ops : /\ op'[i].pc = op[i].pc /\ op'[i].mode = op[i].mode
                       /\ op'[i].plan = op[i].plan
                       /\ op'[i].src = op[i].src /\ op'[i].tgt = op[i].tgt
    BY <2>1, FieldNames DEF Touches
  <2> QED
    BY <1>0, <2>1, <2>2, SourceKept DEF Quiet
<1>7. CASE Confirm
  <2>0. ui # NoDialog /\ Unused # {}
    BY <1>7 DEF Confirm, ControlInv, OneAtWork
  <2> PICK i \in Unused :
         /\ Touches(i, Fields) /\ ui' = NoDialog
         /\ op'[i].pc = IF ui.mode = "recovery" THEN "recover" ELSE "revalidate"
         /\ op'[i].mode = ui.mode /\ op'[i].src = ui.src /\ op'[i].tgt = ui.tgt
         /\ op'[i].plan = ui.plan /\ UNCHANGED <<listed, made>>
    BY <1>0, <1>7, <2>0, ConfirmEffect
  <2>1. i \in Ops /\ \A j \in Ops \ {i} : op'[j] = op[j]
    BY DEF Unused, Touches
  <2>2. ui.mode # "recovery" => Permitted(ui)
    BY <2>0 DEF SourceInv
  <2>3. op'[i].pc \notin NoTarget => Permitted(op'[i])
    BY <2>2 DEF Permitted, NoTarget, Idle
  <2> QED
    BY <1>0, <2>1, <2>3, SourceKept
<1>8. CASE Quit
  <2>1. /\ ui' = NoDialog /\ listed' = [slot \in Slots |-> NoDisk] /\ UNCHANGED made
        /\ \A i \in Ops : op'[i].pc \in Idle
    BY <1>0, <1>8, QuitEffect DEF Idle
  <2>2. KnownSource(listed'[Source])
    BY <1>0, <2>1 DEF KnownSource
  <2>3. \A i \in Ops : /\ op'[i].pc \notin NoTarget => Permitted(op'[i])
                       /\ op'[i].pc = "replan" => op'[i].mode = "smart"
    BY <2>1 DEF NoTarget, Idle
  <2> QED
    BY <1>0, <2>1, <2>2, <2>3, SourceKept
<1> QED
  BY <1>2, <1>3, <1>4, <1>5, <1>6, <1>7, <1>8 DEF Window

LEMMA SourceStep == ControlInv /\ SourceInv /\ [Next]_vars => SourceInv'
<1> SUFFICES ASSUME ControlInv, SourceInv, [Next]_vars PROVE SourceInv'
  OBVIOUS
<1>1. CASE UNCHANGED <<op, made, listed, ui>>
  BY <1>1, SourceKept
<1>2. CASE UNCHANGED vars
  BY <1>1, <1>2 DEF vars, app, history
<1>3. CASE World
  <2>1. ASSUME NEW p \in layout.parts, Grow(p)
        PROVE  UNCHANGED <<op, made, listed, ui>>
    <3>1. UNCHANGED <<app, ui, op, attached, shadows, planFile, history>>
      BY <2>1, Zenon DEF Grow
    <3> QED
      BY <3>1 DEF app, history
  <2>2. UNCHANGED <<op, made, listed, ui>>
    BY <1>3, <2>1, SwapEffect DEF World, RunRestoreScript, ControlInv, app, history
  <2> QED
    BY <1>1, <2>2
<1> QED
  BY <1>2, <1>3, SourceWindow, SourceGoroutine DEF Next

LEMMA SourceInit == Init => SourceInv
<1> SUFFICES ASSUME Init PROVE SourceInv
  OBVIOUS
<1> PICK m \in Machines :
      /\ attached = m.attached /\ made = m.layout
      /\ listed = [slot \in DOMAIN m.attached |-> NoDisk] /\ ui = NoDialog /\ op = [i \in Ops |-> NoOp]
  BY DEF Init
<1>1. \A i \in Ops : op[i].pc = "none"
  BY DEF NoOp
<1>2. NoDisk.system = FALSE
  BY DEF NoDisk
<1>3. attached[Source].system => Mounted(attached[Source].letters, made.parts)
  BY MachineAssumption
<1>4. Source \in DOMAIN m.attached
  BY MachineAssumption
<1> QED
  BY <1>1, <1>2, <1>3, <1>4 DEF SourceInv, KnownSource, NoTarget, Idle

LEMMA SourceHolds == Spec => []SourceInv
BY SourceInit, SourceStep, ControlHolds, PTL DEF Spec

-----------------------------------------------------------------------------
(* What an operation has copied.                                           *)

Before == {"revalidate", "replan", "shrink", "unshrink", "access", "lock", "snapshots"}
Outcomes == {"none", "ok", "cancelled", "failed"}

(* The disks it reads and writes.                                          *)
Opened(o) == o.open \in Disk /\ o.reads \in Disk /\ o.reads.slot = Source

(* It copies so much and no more, and is right about having copied it all. *)
Counted(o) ==
  /\ o.outcome \in Outcomes
  /\ o.copied \in Seq(Units) /\ CopySize(o) \in Nat /\ Len(o.copied) <= CopySize(o)
  /\ o.pc \in Before => o.ranges = <<>>
  /\ o.pc \in Before \cup {"openSnapshots"} => o.copied = <<>>
  /\ o.pc \in Before \cup {"openSnapshots", "copy"} => o.outcome = "none"
  /\ o.outcome = "ok" => Len(o.copied) = CopySize(o)
  /\ LiveVSS(o.mode) \/ (o.ranges = <<>> /\ o.pc \notin {"snapshots", "openSnapshots"})
  /\ o.pc \in {"snapshots", "openSnapshots", "copy"} => Opened(o)

(* What it copied is what was expected, if it opened the source it was     *)
(* confirmed for, and until then the source stays.                         *)
Genuine(o) == o.reads.id = o.src.id
Taken(o) ==
  Laid(o.ranges) /\ (Genuine(o) => \A k \in DOMAIN o.copied : o.copied[k] \in Expected(o, k - 1))
AtSource(o) ==
  o.pc \in (Before \ {"revalidate"}) \cup {"openSnapshots", "copy"} =>
    attached[Source].id = o.src.id \/ "swap" \in harm

(* The ranges are volumes of the table, then of the copy of the table.     *)
Mapped(ranges, parts) == \A r \in Elements(ranges) : \E p \in parts : p.off = r.start /\ End(p) = r.end
Copied(ranges, table) == \A r \in Elements(ranges) :
                           \E e \in table : e.off = r.start /\ e.off + e.size = r.end
Placed(o) ==
  /\ ~tangled /\ o.pc \in {"openSnapshots", "copy"} /\ o.copied = <<>> =>
       Mapped(o.ranges, layout.parts)
  /\ ~tangled /\ Genuine(o) /\ o.copied # <<>> => Copied(o.ranges, o.table)

(* An operation that reduced the source knows it, until it gave it back.   *)
Returned(plan, parts) == \E p \in parts : p.num = plan.shrink /\ p.size = plan.from
Unreduced(o) ==
  /\ o.pc \in {"shrink", "access", "lock", "snapshots", "openSnapshots", "copy", "close", "restore"}
       => o.plan.shrink = 0 \/ o.shrunk
  /\ ~tangled /\ o.pc = "finish" /\ ~o.restoreErr =>
       o.plan.shrink = 0 \/ Returned(o.plan, layout.parts)

Honest(o) == Counted(o) /\ Taken(o) /\ AtSource(o) /\ Placed(o) /\ Unreduced(o)
HonestInv == \A i \in Ops : Honest(op[i])

LEMMA CopyDetails ==
  ASSUME Typed, NEW i \in Ops, Copy(i)
  PROVE  \/ /\ Len(op[i].copied) < CopySize(op[i])
            /\ op'[i].copied = op[i].copied \o NextChunk(op[i])
            /\ op'[i].table = IF op[i].copied = <<>> THEN TableRead(op[i]) ELSE op[i].table
            /\ GoesOn(i, {"copied", "table"}, "copy")
         \/ /\ op'[i].outcome = "ok" => Len(op[i].copied) = CopySize(op[i])
            /\ op'[i].outcome \in Outcomes
            /\ GoesOn(i, {"outcome"}, "close")
         \/ GoesOn(i, {"panicked"}, "cleanup")
<1> DEFINE Put(x, t) == op' = [op EXCEPT ![i] = [op[i] EXCEPT !.copied = x, !.table = t]]
           Ends(x) == op' = [op EXCEPT ![i] = [op[i] EXCEPT !.outcome = x, !.pc = "close"]]
           Panics == op' = [op EXCEPT ![i].panicked = TRUE, ![i].pc = "cleanup"]
           first == IF op[i].copied = <<>> THEN TableRead(op[i]) ELSE op[i].table
<1>0. op[i].pc = "copy" /\ UNCHANGED app
  BY Zenon DEF Copy, CopyChunk, CopyEnds, Adapt
<1>1. ASSUME NEW x, NEW t, Put(x, t)
      PROVE  op'[i].copied = x /\ op'[i].table = t /\ GoesOn(i, {"copied", "table"}, "copy")
  <2>1. /\ Touches(i, {"copied", "table"}) /\ op'[i].pc = op[i].pc
        /\ op'[i].copied = x /\ op'[i].table = t
    BY <1>1, OpAt, FieldNames, Zenon DEF Touches
  <2>2. Touches(i, {"copied", "table"} \cup {"pc"})
    BY <2>1 DEF Touches
  <2> QED
    BY <1>0, <2>1, <2>2 DEF GoesOn, app
<1>2. ASSUME NEW x, Ends(x)
      PROVE  op'[i].outcome = x /\ GoesOn(i, {"outcome"}, "close")
  <2>1. Touches(i, {"outcome", "pc"}) /\ op'[i].pc = "close" /\ op'[i].outcome = x
    BY <1>2, OpAt, FieldNames, Zenon DEF Touches
  <2>2. Touches(i, {"outcome"} \cup {"pc"})
    BY <2>1 DEF Touches
  <2> QED
    BY <1>0, <2>1, <2>2 DEF GoesOn, app
<1>3. ASSUME Panics
      PROVE  GoesOn(i, {"panicked"}, "cleanup")
  <2>1. Touches(i, {"panicked", "pc"}) /\ op'[i].pc = "cleanup"
    BY <1>3, OpAt, FieldNames, Zenon DEF Touches
  <2>2. Touches(i, {"panicked"} \cup {"pc"})
    BY <2>1 DEF Touches
  <2> QED
    BY <1>0, <2>1, <2>2 DEF GoesOn, app
<1>4. CASE CopyChunk(i)
  <2>1. Len(op[i].copied) < CopySize(op[i])
    BY <1>4 DEF CopyChunk
  <2>2. Put(op[i].copied \o NextChunk(op[i]), first) \/ Ends("failed")
    BY <1>4, Zenon DEF CopyChunk
  <2> HIDE DEF Put, Ends, Panics, first
  <2>3. CASE Put(op[i].copied \o NextChunk(op[i]), first)
    BY <1>1, <2>1, <2>3 DEF first
  <2>4. CASE Ends("failed")
    <3>1. op'[i].outcome = "failed" /\ GoesOn(i, {"outcome"}, "close")
      BY <1>2, <2>4
    <3> QED
      BY <3>1 DEF Outcomes
  <2> QED
    BY <2>2, <2>3, <2>4
<1>5. CASE CopyEnds(i) \/ Adapt(i)
  <2>1. \/ Ends("cancelled") \/ Ends("failed") \/ Panics
        \/ Len(op[i].copied) = CopySize(op[i]) /\ Ends("ok")
    <3>1. CASE CopyEnds(i)
      BY <3>1, ZenonT(60) DEF CopyEnds
    <3>2. CASE Adapt(i)
      <4>1. /\ Len(op[i].copied) = CopySize(op[i])
            /\ \E x \in {"cancelled", "ok", "failed"} : Ends(x)
        BY <3>2, ZenonT(60) DEF Adapt
      <4> HIDE DEF Ends
      <4> QED
        BY <4>1, Zenon
    <3> QED
      BY <1>5, <3>1, <3>2
  <2> HIDE DEF Ends, Panics
  <2>2. ASSUME NEW x \in {"cancelled", "failed", "ok"}, Ends(x),
               x = "ok" => Len(op[i].copied) = CopySize(op[i])
        PROVE  /\ op'[i].outcome = "ok" => Len(op[i].copied) = CopySize(op[i])
               /\ op'[i].outcome \in Outcomes
               /\ GoesOn(i, {"outcome"}, "close")
    <3>1. op'[i].outcome = x /\ GoesOn(i, {"outcome"}, "close")
      BY <1>2, <2>2
    <3> QED
      BY <2>2, <3>1 DEF Outcomes
  <2>3. CASE Panics
    BY <1>3, <2>3
  <2>4. CASE Ends("cancelled") \/ Ends("failed")
    BY <2>2, <2>4
  <2>5. CASE Len(op[i].copied) = CopySize(op[i]) /\ Ends("ok")
    BY <2>2, <2>5
  <2> QED
    BY <2>1, <2>3, <2>4, <2>5
<1> QED
  BY <1>4, <1>5 DEF Copy

LEMMA RestoreDetails ==
  ASSUME Typed, NEW i \in Ops, Restore(i)
  PROVE  op'[i].restoreErr = (op[i].shrunk /\ layout' # Resized(op[i].plan.shrink, op[i].plan.from))
BY OpAt, FieldNames, Zenon DEF Restore

(* While an operation works the table has the sizes it has, if it works    *)
(* alone: only a step of its own changes them.                             *)
LEMMA SourceRests ==
  ASSUME ControlInv, LayoutInv, [Next]_vars, NEW i \in Ops, op[i].pc \notin Idle, ~tangled,
         ~Goroutine(i)
  PROVE  Steady
<1>0. LayoutKnown /\ i \in Live /\ \A j \in Live : j = latest
  BY DEF ControlInv, OneAtWork, LayoutInv, Live, Idle
<1>1. CASE UNCHANGED layout
  BY <1>1 DEF Steady
<1>2. CASE UNCHANGED vars
  BY <1>1, <1>2 DEF vars, machine
<1>3. CASE Window
  <2>1. CASE \/ RefreshDisks \/ DisksListed \/ StartRecovery \/ Decline \/ Confirm \/ Cancel \/ Quit
             \/ \E mode \in {"offline", "vss", "smart"}, slot \in Slots : StartClone(mode, slot)
    BY <1>1, <2>1 DEF RefreshDisks, DisksListed, StartRecovery, Decline, StartClone, Confirm, Cancel,
       Quit, machine
  <2> QED
    BY <1>3, <2>1 DEF Window
<1>4. ASSUME NEW slot \in Slots, Swap(slot) \/ RunRestoreScript(slot)
      PROVE  Steady
  BY <1>0, <1>1, <1>4 DEF Swap, RunRestoreScript
<1>5. ASSUME NEW p \in layout.parts, Grow(p)
      PROVE  Steady
  BY <1>0, <1>5, GrowBecomes DEF Steady
<1>6. ASSUME NEW j \in Ops, Goroutine(j)
      PROVE  Steady
  <2>1. j \in Live
    BY <1>6, MoveOf DEF Moves, Live, Idle
  <2> QED
    BY <1>0, <1>6, <2>1
<1> QED
  BY <1>2, <1>3, <1>4, <1>5, <1>6 DEF Next, World

-----------------------------------------------------------------------------
(* Volumes of the table are ranges that do not overlap.                    *)
LEMMA ExtentsLaid ==
  ASSUME LayoutKnown, NEW letters \in Seq(STRING), Mounted(letters, made.parts)
  PROVE  Laid(Extents(letters)) /\ Mapped(Extents(letters), layout.parts)
<1> DEFINE Of(letter) == CHOOSE q \in layout.parts : q.letter = letter
           E == Extents(letters)
<1>1. ASSUME NEW k \in DOMAIN letters
      PROVE  Of(letters[k]) \in layout.parts /\ Of(letters[k]).letter = letters[k]
  <2>1. PICK q \in made.parts : q.letter = letters[k]
    BY DEF Mounted
  <2>2. PICK p \in layout.parts : Same(p, q)
    BY DEF LayoutKnown, Shaped
  <2> QED
    BY <2>1, <2>2 DEF Same
<1>2. /\ layout.parts \subseteq Partition /\ made.parts \subseteq Partition
      /\ \A p, q \in layout.parts : p.num = q.num => p = q
  BY DEF LayoutKnown, Shaped, MadeKnown
<1>3. ASSUME NEW p \in layout.parts
      PROVE  p.off \in Nat /\ End(p) \in Nat /\ p.off < End(p)
  <2>1. p.off \in Nat /\ p.size \in Nat \ {0}
    BY <1>2, PartitionFields
  <2>2. \A a \in Nat : \A b \in Nat \ {0} : a + b \in Nat /\ a < a + b
    OBVIOUS
  <2> QED
    BY <2>1, <2>2 DEF End
<1>4. ASSUME NEW p \in layout.parts, NEW q \in layout.parts, p # q
      PROVE  End(p) <= q.off \/ End(q) <= p.off
  <2>1. PICK mp \in made.parts : Same(p, mp)
    BY DEF LayoutKnown, Shaped
  <2>2. PICK mq \in made.parts : Same(q, mq)
    BY DEF LayoutKnown, Shaped
  <2>3. mp # mq
    BY <1>2, <1>4, <2>1, <2>2 DEF Same
  <2>4. End(mp) <= mq.off \/ End(mq) <= mp.off
    BY <2>3 DEF LayoutKnown, MadeKnown
  <2>5. p.size <= mp.size /\ q.size <= mq.size
    BY <2>1, <2>2 DEF Same, LayoutKnown, Shaped
  <2>6. /\ p.off \in Nat /\ q.off \in Nat /\ p.size \in Nat /\ q.size \in Nat
        /\ mp.size \in Nat /\ mq.size \in Nat /\ mp.off = p.off /\ mq.off = q.off
    BY <1>2, <2>1, <2>2, PartitionFields DEF Same
  <2>7. \A po, qo, ps, qs, ms, ns \in Nat :
          ps <= ms /\ qs <= ns /\ (po + ms <= qo \/ qo + ns <= po) => po + ps <= qo \/ qo + qs <= po
    OBVIOUS
  <2> QED
    BY <2>4, <2>5, <2>6, <2>7 DEF End
<1>5. /\ E = [k \in DOMAIN letters |-> E[k]] /\ DOMAIN E = DOMAIN letters
      /\ \A k \in DOMAIN letters : E[k] = [start |-> Of(letters[k]).off, end |-> End(Of(letters[k])),
                                          letter |-> letters[k]]
  BY DEF Extents, Extent
<1> HIDE DEF Of, E
<1>6. ASSUME NEW k \in DOMAIN letters
      PROVE  E[k] \in MapRange /\ E[k].start < E[k].end
  <2>1. letters[k] \in STRING
    OBVIOUS
  <2> QED
    BY <1>1, <1>3, <1>5, <2>1 DEF MapRange
<1>7. E \in Seq(MapRange)
  <2>1. DOMAIN letters = 1 .. Len(letters) /\ Len(letters) \in Nat
    OBVIOUS
  <2>2. E \in [1 .. Len(letters) -> MapRange]
    BY <1>5, <1>6, <2>1
  <2> QED
    BY <2>1, <2>2
<1>8. \A r \in Elements(E) : \E k \in DOMAIN letters : r = E[k]
  BY <1>5 DEF Elements
<1>9. ASSUME NEW r \in Elements(E), NEW t \in Elements(E), r # t
      PROVE  r.end <= t.start \/ t.end <= r.start
  <2> PICK k \in DOMAIN letters : r = E[k]
    BY <1>8
  <2> PICK l \in DOMAIN letters : t = E[l]
    BY <1>8
  <2>1. Of(letters[k]) # Of(letters[l])
    BY <1>1, <1>5, <1>9
  <2> QED
    BY <1>1, <1>4, <1>5, <2>1
<1>10. Laid(E)
  BY <1>6, <1>7, <1>8, <1>9 DEF Laid
<1>11. Mapped(E, layout.parts)
  <2> SUFFICES ASSUME NEW r \in Elements(E)
               PROVE  \E p \in layout.parts : p.off = r.start /\ End(p) = r.end
    BY DEF Mapped
  <2> PICK k \in DOMAIN letters : r = E[k]
    BY <1>8
  <2> QED
    BY <1>1, <1>5
<1> QED
  BY <1>10, <1>11 DEF E

(* A chunk brings what was expected.                                       *)
LEMMA ExpectedGrows ==
  ASSUME NEW o, NEW q, q.ranges = o.ranges, \A fault \in harm : fault \in harm', NEW u
  PROVE  Expected(o, u) \subseteq Expected(q, u)'
BY DEF Expected

ReadsWell(ranges, x, at, n) ==
  x \in Seq(Units) /\ Len(x) = n /\ \A k \in 1 .. n : Filled(Elements(ranges), x[k], at + k - 1)

LEMMA ChunkRead ==
  \A r, at, n : Laid(r) /\ at \in Nat /\ n \in Nat => ReadsWell(r, ReadChunk(r, at, n), at, n)
<1> SUFFICES ASSUME NEW r, Laid(r), NEW at \in Nat, NEW n \in Nat
             PROVE  ReadsWell(r, ReadChunk(r, at, n), at, n)
  OBVIOUS
<1> PICK x : x = ReadChunk(r, at, n)
  OBVIOUS
<1> QED
  BY ReadChunkIs, Zenon DEF ReadsWell

LEMMA NextChunkIs ==
  ASSUME NEW o, DisksKnown, Chosen(o), Permitted(o), Taken(o), AtSource(o), Opened(o), o.pc = "copy",
         LiveVSS(o.mode) \/ o.ranges = <<>>, NEW at \in Nat, at = Len(o.copied),
         NEW size \in Nat, size = CopySize(o), at < size, NEW x, x = NextChunk(o)
  PROVE  /\ x \in Seq(Units) /\ Len(x) \in 1 .. size - at
         /\ Genuine(o) => \A k \in 1 .. Len(x) : x[k] \in Expected(o, at + k - 1)
<1> DEFINE n == IF size - at < Chunk THEN size - at ELSE Chunk
<1>1. n \in 1 .. size - at
  BY OperationAssumption
<1>2. x = IF ReadsSource(o) THEN ReadChunk(o.ranges, at, n)
          ELSE [k \in 1 .. n |-> OtherUnit(o, at + k - 1)]
  BY Zenon DEF NextChunk
<1> HIDE DEF n
<1>3. CASE ReadsSource(o)
  <2>1. x = ReadChunk(o.ranges, at, n) /\ Laid(o.ranges) /\ n \in Nat
    BY <1>1, <1>2, <1>3 DEF Taken
  <2>2. /\ x \in Seq(Units) /\ Len(x) = n
        /\ \A k \in 1 .. n : Filled(Elements(o.ranges), x[k], at + k - 1)
    <3>1. ReadsWell(o.ranges, ReadChunk(o.ranges, at, n), at, n)
      BY <2>1, ChunkRead, Zenon
    <3>2. ReadsWell(o.ranges, x, at, n)
      BY <2>1, <3>1, Zenon
    <3> QED
      BY <3>2 DEF ReadsWell
  <2>3. \A c, u : Filled(Elements(o.ranges), c, u) => c \in Expected(o, u)
    BY DEF Filled, Belongs, Missing, Holding, Expected
  <2> QED
    BY <1>1, <2>2, <2>3
<1>4. CASE ~ReadsSource(o)
  <2>1. n \in Nat /\ \A k \in 1 .. n : at + k - 1 \in Nat
    BY <1>1
  <2>2. \A u \in Nat : OtherUnit(o, u) \in Units
    <3>1. o.reads.id \in STRING
      BY Zenon DEF Opened, Disk
    <3> QED
      BY <3>1 DEF OtherUnit, Zero, Unit, Units
  <2>3. \A k \in 1 .. n : OtherUnit(o, at + k - 1) \in Units
    BY <2>1, <2>2
  <2>4. x = [k \in 1 .. n |-> OtherUnit(o, at + k - 1)]
    BY <1>2, <1>4
  <2>5. x \in Seq(Units) /\ Len(x) = n /\ \A k \in 1 .. n : x[k] = OtherUnit(o, at + k - 1)
    <3> PICK g : g = [k \in 1 .. n |-> OtherUnit(o, at + k - 1)]
      OBVIOUS
    <3>1. g \in Seq(Units) /\ Len(g) = n /\ \A k \in 1 .. n : g[k] = OtherUnit(o, at + k - 1)
      BY <2>1, <2>3
    <3> QED
      BY <2>4, <3>1
  <2>6. ASSUME Genuine(o), NEW u
        PROVE  OtherUnit(o, u) \in Expected(o, u)
    <3>1. o.src.slot = Source /\ o.reads.slot = Source /\ attached[Source].id # o.src.id
      BY <1>4, <2>6 DEF Chosen, Opened, Genuine, ReadsSource, Reads
    <3>2. ~LiveVSS(o.mode)
      BY <3>1 DEF Permitted, KnownSource
    <3>3. Elements(o.ranges) = {}
      BY <3>2 DEF Elements
    <3>4. "swap" \in harm
      BY <3>1 DEF AtSource
    <3>5. OtherUnit(o, u) = Zero
      BY <2>6, <3>1 DEF OtherUnit, Reads, Genuine
    <3> QED
      BY <3>3, <3>4, <3>5 DEF Expected
  <2> QED
    BY <1>1, <2>5, <2>6
<1> QED
  BY <1>3, <1>4

LEMMA ChunkJoins ==
  ASSUME NEW a \in Seq(Units), NEW x \in Seq(Units), NEW at, at = Len(a), NEW size \in Nat,
         Len(x) \in 1 .. size - at, NEW ok,
         \A k \in DOMAIN a : a[k] \in ok[k - 1], \A k \in 1 .. Len(x) : x[k] \in ok[at + k - 1]
  PROVE  /\ a \o x \in Seq(Units) /\ a \o x # <<>> /\ Len(a \o x) <= size
         /\ \A k \in DOMAIN (a \o x) : (a \o x)[k] \in ok[k - 1]
<1>1. Len(a) \in Nat /\ Len(x) \in Nat
  OBVIOUS
<1>2. a \o x \in Seq(Units) /\ Len(a \o x) = Len(a) + Len(x)
  OBVIOUS
<1>3. a \o x # <<>> /\ Len(a \o x) <= size
  <2>1. \A m, l \in Nat : l \in 1 .. size - m => m + l <= size /\ m + l # 0
    OBVIOUS
  <2>2. Len(a) + Len(x) <= size /\ Len(a) + Len(x) # 0
    BY <1>1, <2>1
  <2>3. Len(<<>>) = 0
    OBVIOUS
  <2> QED
    BY <1>2, <2>2, <2>3
<1>4. ASSUME NEW k \in DOMAIN (a \o x)
      PROVE  (a \o x)[k] \in ok[k - 1]
  <2>1. k \in 1 .. Len(a) + Len(x)
    BY <1>2
  <2>2. CASE k <= Len(a)
    BY <1>1, <2>1, <2>2
  <2>3. CASE k > Len(a)
    <3>1. k - Len(a) \in 1 .. Len(x) /\ at + (k - Len(a)) - 1 = k - 1
      <4>1. \A m, l \in Nat : \A j \in 1 .. m + l :
              j > m => j - m \in 1 .. l /\ m + (j - m) - 1 = j - 1
        OBVIOUS
      <4> QED
        BY <1>1, <2>1, <2>3, <4>1
    <3>2. (a \o x)[k] = x[k - Len(a)]
      BY <1>1, <2>1, <2>3
    <3> QED
      BY <3>1, <3>2
  <2> QED
    BY <1>1, <2>1, <2>2, <2>3
<1> QED
  BY <1>2, <1>3, <1>4

-----------------------------------------------------------------------------
(* It keeps being so.                                                      *)
LEMMA HonestAt ==
  ASSUME NEW i \in Ops, NEW q, q = op'[i], Honest(q)'
  PROVE  Honest(op[i])'
<1>1. Counted(op[i])'
  <2>1. Counted(q)
    BY DEF Honest, Counted, CopySize, LiveVSS, Opened
  <2> QED
    BY <2>1 DEF Counted, CopySize, LiveVSS, Opened
<1>2. Taken(op[i])'
  BY DEF Honest, Taken, Expected, Genuine
<1>3. AtSource(op[i])'
  BY DEF Honest, AtSource
<1>4. Placed(op[i])'
  BY DEF Honest, Placed, Genuine
<1>5. Unreduced(op[i])'
  BY DEF Honest, Unreduced
<1> QED
  BY <1>1, <1>2, <1>3, <1>4, <1>5 DEF Honest

LEMMA TakenStays ==
  ASSUME Grows, NEW o, NEW q, q.ranges = o.ranges, q.copied = o.copied, Taken(o),
         q.reads = o.reads, q.src = o.src
  PROVE  Taken(q)'
<1>1. \A u : Expected(o, u) \subseteq Expected(q, u)'
  BY ExpectedGrows DEF Grows
<1> QED
  BY <1>1 DEF Taken, Genuine

LEMMA AtSourceStays ==
  ASSUME SourceDisk, Grows, NEW o, NEW q, q.src = o.src, AtSource(o),
         o.pc \in (Before \ {"revalidate"}) \cup {"openSnapshots", "copy"}
  PROVE  AtSource(q)'
BY DEF AtSource, SourceDisk, Grows

LEMMA TableStays ==
  ASSUME LayoutKnown, Steady
  PROVE  /\ \A ranges : Mapped(ranges, layout.parts) => Mapped(ranges, layout.parts)'
         /\ \A plan : Returned(plan, layout.parts) => Returned(plan, layout.parts)'
<1>1. ASSUME NEW p \in layout.parts
      PROVE  \E e \in layout'.parts : e.num = p.num /\ e.off = p.off /\ e.size = p.size
  <2>1. CASE UNCHANGED layout
    BY <2>1
  <2>2. CASE Becomes(layout.parts, layout'.parts, 0, 0)
    <3> PICK e \in layout'.parts : Turns(p, e, 0, 0)
      BY <2>2 DEF Becomes
    <3>1. p.num # 0
      BY PartitionFields DEF LayoutKnown, Shaped
    <3> QED
      BY <3>1 DEF Turns, Same
  <2> QED
    BY <2>1, <2>2 DEF Steady
<1>2. ASSUME NEW ranges, Mapped(ranges, layout.parts)
      PROVE  Mapped(ranges, layout.parts)'
  BY <1>1, <1>2 DEF Mapped, End
<1>3. ASSUME NEW plan, Returned(plan, layout.parts)
      PROVE  Returned(plan, layout.parts)'
  BY <1>1, <1>3 DEF Returned
<1> QED
  BY <1>2, <1>3

LEMMA TangledStays ==
  ASSUME ControlInv, [Next]_vars, ~tangled'
  PROVE  ~tangled
<1>0. Typed /\ DisksKnown
  BY DEF ControlInv
<1>1. CASE UNCHANGED tangled
  BY <1>1
<1>2. CASE Window
  BY <1>0, <1>2, QuitEffect DEF Window, RefreshDisks, DisksListed, StartRecovery, Decline, StartClone,
     Confirm, Cancel, history
<1>3. CASE World
  <2>1. ASSUME NEW p \in layout.parts, Grow(p)
        PROVE  UNCHANGED history
    BY <2>1, Zenon DEF Grow
  <2> QED
    BY <1>3, <2>1 DEF World, Swap, RunRestoreScript, history
<1> QED
  BY <1>1, <1>2, <1>3, QuietGoroutine DEF Next, Quiet, vars, history

(* What others do does not matter to an operation.                         *)
LEMMA HonestStays ==
  ASSUME ControlInv, LayoutInv, SourceInv, [Next]_vars, NEW i \in Ops, ~Goroutine(i), Honest(op[i]),
         /\ op'[i].pc = op[i].pc /\ op'[i].mode = op[i].mode /\ op'[i].src = op[i].src
         /\ op'[i].plan = op[i].plan /\ op'[i].shrunk = op[i].shrunk
         /\ op'[i].reads = op[i].reads /\ op'[i].open = op[i].open
         /\ op'[i].ranges = op[i].ranges /\ op'[i].copied = op[i].copied
         /\ op'[i].table = op[i].table /\ op'[i].outcome = op[i].outcome
         /\ op'[i].restoreErr = op[i].restoreErr
  PROVE  Honest(op[i])'
<1> PICK o, q : o = op[i] /\ q = op'[i]
  OBVIOUS
<1>0. /\ Honest(o) /\ q.pc = o.pc /\ q.mode = o.mode /\ q.src = o.src
      /\ q.plan = o.plan /\ q.shrunk = o.shrunk /\ q.reads = o.reads /\ q.open = o.open
      /\ q.ranges = o.ranges /\ q.copied = o.copied
      /\ q.table = o.table /\ q.outcome = o.outcome /\ q.restoreErr = o.restoreErr
  BY Zenon
<1>1. SourceDisk /\ Grows /\ LayoutKnown /\ (~tangled' => ~tangled)
  BY SourceDiskStep, StepOfSource, TangledStays DEF LayoutInv
<1>2. Counted(q)'
  BY <1>0 DEF Honest, Counted, CopySize, LiveVSS, Opened
<1>3. Taken(q)'
  BY <1>0, <1>1, TakenStays DEF Honest
<1>4. AtSource(q)'
  BY <1>0, <1>1, AtSourceStays DEF Honest, AtSource
<1>5. ASSUME o.pc \notin Idle, ~tangled'
      PROVE  /\ Mapped(o.ranges, layout.parts) => Mapped(o.ranges, layout.parts)'
             /\ Returned(o.plan, layout.parts) => Returned(o.plan, layout.parts)'
  <2>1. Steady
    BY <1>1, <1>5, SourceRests
  <2> QED
    BY <1>1, <2>1, TableStays
<1>6. Placed(q)'
  <2>1. ASSUME ~tangled', q.pc \in {"openSnapshots", "copy"}, q.copied = <<>>
        PROVE  Mapped(q.ranges, layout.parts)'
    <3>1. Mapped(o.ranges, layout.parts)
      BY <1>0, <1>1, <2>1 DEF Honest, Placed
    <3>2. Mapped(o.ranges, layout.parts)'
      BY <1>0, <1>5, <2>1, <3>1 DEF Idle
    <3> QED
      BY <1>0, <3>2 DEF Mapped
  <2>2. ASSUME ~tangled', Genuine(q), q.copied # <<>>
        PROVE  Copied(q.ranges, q.table)
    BY <1>0, <1>1, <2>2 DEF Honest, Placed, Genuine
  <2> QED
    BY <2>1, <2>2 DEF Placed, Genuine
<1>7. Unreduced(q)'
  <2>1. q.pc \in {"shrink", "access", "lock", "snapshots", "openSnapshots", "copy", "close", "restore"}
          => q.plan.shrink = 0 \/ q.shrunk
    BY <1>0, Zenon DEF Honest, Unreduced
  <2>2. ASSUME ~tangled', q.pc = "finish", ~q.restoreErr, q.plan.shrink # 0
        PROVE  Returned(q.plan, layout.parts)'
    <3>1. Returned(o.plan, layout.parts)
      <4>1. ~o.restoreErr /\ o.plan.shrink # 0 /\ o.pc = "finish" /\ ~tangled
        BY <1>0, <1>1, <2>2, Zenon
      <4> QED
        BY <1>0, <4>1, Zenon DEF Honest, Unreduced
    <3>2. Returned(o.plan, layout.parts)'
      BY <1>0, <1>5, <2>2, <3>1 DEF Idle
    <3> QED
      BY <1>0, <3>2 DEF Returned
  <2> QED
    BY <2>1, <2>2 DEF Unreduced
<1> QED
  BY <1>2, <1>3, <1>4, <1>6, <1>7, HonestAt DEF Honest

(* An operation that gives up or ends.                                     *)
LEMMA HonestLeaves ==
  ASSUME ControlInv, LayoutInv, [Next]_vars, NEW i \in Ops, Honest(op[i]),
         op'[i].pc \in Closing \cup {"ended"},
         /\ op'[i].mode = op[i].mode /\ op'[i].src = op[i].src /\ op'[i].plan = op[i].plan
         /\ op'[i].copied = op[i].copied /\ op'[i].reads = op[i].reads
         /\ op'[i].table = op[i].table /\ op'[i].outcome = op[i].outcome,
         op'[i].ranges = op[i].ranges \/ (op[i].copied = <<>> /\ op'[i].ranges = <<>>)
  PROVE  Honest(op[i])'
<1> PICK o, q : o = op[i] /\ q = op'[i]
  OBVIOUS
<1>0. /\ Honest(o) /\ q.pc \in Closing \cup {"ended"} /\ q.mode = o.mode /\ q.src = o.src
      /\ q.plan = o.plan /\ q.copied = o.copied /\ q.table = o.table /\ q.outcome = o.outcome
      /\ q.reads = o.reads
      /\ q.ranges = o.ranges \/ (o.copied = <<>> /\ q.ranges = <<>>)
  BY Zenon
<1>1. Grows /\ (~tangled' => ~tangled)
  BY StepOfSource, TangledStays
<1>2. Counted(q)'
  BY <1>0 DEF Honest, Counted, CopySize, LiveVSS, Closing, Before
<1>3. Taken(q)'
  <2>1. CASE q.ranges = o.ranges
    BY <1>0, <1>1, <2>1, TakenStays DEF Honest
  <2>2. CASE o.copied = <<>> /\ q.ranges = <<>>
    BY <1>0, <2>2 DEF Taken, Laid, Elements
  <2> QED
    BY <1>0, <2>1, <2>2
<1>4. AtSource(q)'
  BY <1>0 DEF AtSource, Closing, Before
<1>5. Placed(q)'
  BY <1>0, <1>1 DEF Honest, Placed, Closing, Genuine
<1>6. Unreduced(q)'
  BY <1>0 DEF Unreduced, Closing
<1> QED
  BY <1>2, <1>3, <1>4, <1>5, <1>6, HonestAt DEF Honest

(* An operation on its way to the copy.                                    *)
LEMMA HonestEarly ==
  ASSUME ControlInv, LayoutInv, [Next]_vars, NEW i \in Ops, Honest(op[i]),
         op[i].pc \in Before, op'[i].pc \in Before \cup {"copy"}, CopySize(op'[i]) \in Nat,
         /\ op'[i].mode = op[i].mode /\ op'[i].ranges = op[i].ranges
         /\ op'[i].copied = op[i].copied /\ op'[i].outcome = op[i].outcome,
         op'[i].pc \in {"snapshots", "copy"} => Opened(op'[i]),
         op'[i].pc = "snapshots" => LiveVSS(op'[i].mode),
         attached'[Source].id = op'[i].src.id \/ "swap" \in harm' \/ op'[i].pc = "revalidate",
         op'[i].pc \in {"shrink", "access", "lock", "snapshots", "copy"} =>
           op'[i].plan.shrink = 0 \/ op'[i].shrunk
  PROVE  Honest(op[i])'
<1> PICK o, q : o = op[i] /\ q = op'[i]
  OBVIOUS
<1>0. /\ Honest(o) /\ o.pc \in Before /\ q.pc \in Before \cup {"copy"} /\ CopySize(q) \in Nat
      /\ q.mode = o.mode /\ q.ranges = o.ranges /\ q.copied = o.copied /\ q.outcome = o.outcome
      /\ q.pc \in {"snapshots", "copy"} => Opened(q)
      /\ q.pc = "snapshots" => LiveVSS(q.mode)
      /\ attached'[Source].id = q.src.id \/ "swap" \in harm' \/ q.pc = "revalidate"
      /\ q.pc \in {"shrink", "access", "lock", "snapshots", "copy"} => q.plan.shrink = 0 \/ q.shrunk
  BY Zenon
<1>1. /\ q.copied = <<>> /\ q.ranges = <<>> /\ q.outcome = "none"
      /\ o.copied = <<>> /\ o.ranges = <<>>
  BY <1>0 DEF Honest, Counted
<1>2. Counted(q)'
  <2>0. <<>> \in Seq(Units) /\ Len(<<>>) = 0
    OBVIOUS
  <2>1. q.copied \in Seq(Units) /\ Len(q.copied) = 0
    BY <1>1, <2>0, Zenon
  <2>2. q.pc \notin {"openSnapshots"}
    BY <1>0 DEF Before
  <2>3. Counted(q)
    BY <1>0, <1>1, <2>1, <2>2 DEF Counted, Outcomes, LiveVSS
  <2> QED
    BY <2>3 DEF Counted, CopySize, LiveVSS, Opened
<1>3. Taken(q)'
  <2>1. <<>> \in Seq(MapRange) /\ DOMAIN <<>> = {} /\ Elements(<<>>) = {}
    BY DEF Elements
  <2>2. Laid(<<>>)
    BY <2>1 DEF Laid
  <2>3. Laid(q.ranges) /\ DOMAIN q.copied = {}
    BY <1>1, <2>1, <2>2, Zenon
  <2> QED
    BY <2>3 DEF Taken, Laid
<1>4. AtSource(q)'
  BY <1>0 DEF AtSource, Before
<1>5. Placed(q)'
  BY <1>1 DEF Placed, Mapped, Elements
<1>6. Unreduced(q)'
  <2>1. q.pc \in {"shrink", "access", "lock", "snapshots", "openSnapshots", "copy", "close", "restore"}
          => q.plan.shrink = 0 \/ q.shrunk
    <3>1. q.pc \notin {"openSnapshots", "close", "restore"}
      BY <1>0 DEF Before
    <3> QED
      BY <1>0, <3>1, Zenon
  <2>2. q.pc # "finish"
    BY <1>0 DEF Before
  <2> QED
    BY <2>1, <2>2, Zenon DEF Unreduced
<1> QED
  BY <1>2, <1>3, <1>4, <1>5, <1>6, HonestAt DEF Honest

(* How much is copied is a number.                                         *)
LEMMA SizeIsNat ==
  ASSUME NEW o, Chosen(o), Permitted(o)
  PROVE  CopySize(o) \in Nat \ {0}
<1>1. o.src.size \in Nat \ {0}
  BY Zenon DEF Chosen, Disk
<1> QED
  BY <1>1 DEF Permitted, CopySize

LEMMA HonestPrepare ==
  ASSUME ControlInv, LayoutInv, SourceInv, NEW i \in Ops, Goroutine(i), Honest(op[i]),
         \/ Revalidate(i) \/ Replan(i) \/ Shrink(i) \/ Unshrink(i) \/ Access(i) \/ Lock(i) \/ Open(i)
  PROVE  Honest(op[i])'
<1> USE FieldNames
<1>0. /\ Typed /\ DisksKnown /\ [Next]_vars /\ SourceDisk /\ Grows
  <2>1. [Next]_vars
    BY DEF Next
  <2> QED
    BY <2>1, SourceDiskStep, StepOfSource DEF ControlInv
<1>1. op[i].pc \in Before /\ op[i].pc \notin NoTarget
  <2>1. op[i].pc \in {"revalidate", "replan", "shrink", "unshrink", "access", "lock"}
    BY DEF Revalidate, Replan, Shrink, Unshrink, Access, Lock, Open
  <2> QED
    BY <2>1 DEF Before, NoTarget, Idle
<1>2. Chosen(op[i]) /\ Permitted(op[i])
  BY <1>0, <1>1, SourceOp DEF DisksKnown
<1>3. op'[i].pc \notin NoTarget => CopySize(op'[i]) \in Nat
  <2>1. ControlInv' /\ SourceInv'
    BY <1>0, ControlStep, SourceStep
  <2>2. op'[i].pc \notin NoTarget => Chosen(op[i])' /\ Permitted(op[i])'
    BY <2>1 DEF ControlInv, DisksKnown, SourceInv
  <2>3. ASSUME op'[i].pc \notin NoTarget
        PROVE  CopySize(op'[i]) \in Nat
    <3>1. op'[i].src \in Disk
      BY <2>2, <2>3 DEF Chosen
    <3>2. op'[i].src.size \in Nat
      BY <3>1, Zenon DEF Disk
    <3>3. op'[i].mode = "smart" => op'[i].plan.copy \in Nat
      BY <2>2, <2>3, Zenon DEF Permitted
    <3> QED
      BY <3>2, <3>3 DEF CopySize
  <2> QED
    BY <2>3
<1>4. ASSUME NEW F \in {{}, {"todo", "locked", "open"}, {"shrunk"}}, GivesUp(i, F)
      PROVE  Honest(op[i])'
  <2>1. /\ op'[i].pc = "cleanup"
        /\ op'[i].mode = op[i].mode /\ op'[i].src = op[i].src /\ op'[i].plan = op[i].plan
        /\ op'[i].copied = op[i].copied /\ op'[i].reads = op[i].reads /\ op'[i].ranges = op[i].ranges
        /\ op'[i].table = op[i].table /\ op'[i].outcome = op[i].outcome
    BY <1>4 DEF GivesUp, Touches
  <2> QED
    BY <1>0, <2>1, HonestLeaves DEF Closing
<1>5. ASSUME NEW F \in {{"src", "tgt"}, {"plan", "shrunk"}, {}, {"src", "tgt", "todo"},
                        {"todo", "locked"}, {"reads", "open"}},
             NEW l \in Before \cup {"copy"}, GoesOn(i, F, l), l # "revalidate",
             l \in {"snapshots", "copy"} => Opened(op'[i]),
             l = "snapshots" => LiveVSS(op[i].mode),
             attached'[Source].id = op'[i].src.id \/ "swap" \in harm',
             l \in {"shrink", "access", "lock", "snapshots", "copy"} =>
               op'[i].plan.shrink = 0 \/ op'[i].shrunk
      PROVE  Honest(op[i])'
  <2>1. /\ op'[i].pc = l
        /\ op'[i].mode = op[i].mode /\ op'[i].ranges = op[i].ranges
        /\ op'[i].copied = op[i].copied /\ op'[i].outcome = op[i].outcome
    BY <1>5 DEF GoesOn, Touches
  <2>2. CopySize(op'[i]) \in Nat
    BY <1>3, <1>5, <2>1 DEF Before, NoTarget, Idle
  <2> QED
    BY <1>0, <1>1, <1>5, <2>1, <2>2, HonestEarly
<1>6. ASSUME op'[i].src = op[i].src, op[i].pc # "revalidate"
      PROVE  attached'[Source].id = op'[i].src.id \/ "swap" \in harm'
  <2>1. attached[Source].id = op[i].src.id \/ "swap" \in harm
    BY <1>1, <1>6 DEF Honest, AtSource
  <2> QED
    BY <1>0, <1>6, <2>1 DEF SourceDisk, Grows
<1>7. op[i].pc \in {"shrink", "access", "lock"} => op[i].plan.shrink = 0 \/ op[i].shrunk
  BY Zenon DEF Honest, Unreduced
<1>8. CASE Revalidate(i)
  <2>1. /\ op[i].pc = "revalidate" /\ UNCHANGED attached
        /\ \/ /\ GoesOn(i, {"src", "tgt"}, IF op[i].mode = "smart" THEN "replan" ELSE "access")
              /\ op'[i].src = attached[op[i].src.slot]
           \/ GivesUp(i, {})
    BY <1>0, <1>8, RevalidateEffect DEF DisksStay
  <2>2. CASE ~GivesUp(i, {})
    <3> DEFINE l == IF op[i].mode = "smart" THEN "replan" ELSE "access"
    <3>1. GoesOn(i, {"src", "tgt"}, l) /\ op'[i].src = attached'[Source] /\ op'[i].plan = op[i].plan
      BY <1>2, <2>1, <2>2 DEF Chosen, GoesOn, Touches
    <3>2. l = "access" => op[i].plan.shrink = 0
      BY <1>2 DEF Permitted, NoPlan
    <3>3. l \in Before /\ l \notin {"shrink", "lock", "snapshots", "copy", "revalidate"}
      BY DEF Before
    <3> HIDE DEF l
    <3> QED
      BY <1>5, <3>1, <3>2, <3>3
  <2> QED
    BY <1>4, <2>1, <2>2
<1>9. CASE Replan(i)
  <2> DEFINE plan == BuildPlan(op[i].src, op[i].tgt, layout)
             l == IF plan.shrink # 0 THEN "shrink" ELSE "access"
  <2>1. /\ op[i].pc = "replan"
        /\ \/ GivesUp(i, {})
           \/ GoesOn(i, {"plan", "shrunk"}, l) /\ op'[i].plan = plan /\ op'[i].shrunk = (plan.shrink # 0)
    BY <1>0, <1>9, ReplanEffect
  <2>2. l \in Before /\ l \notin {"lock", "snapshots", "copy", "revalidate"}
    BY DEF Before
  <2> HIDE DEF plan, l
  <2>3. CASE ~GivesUp(i, {})
    <3>1. GoesOn(i, {"plan", "shrunk"}, l) /\ op'[i].src = op[i].src
      BY <2>1, <2>3 DEF GoesOn, Touches
    <3>2. op'[i].plan.shrink = 0 \/ op'[i].shrunk
      BY <2>1, <2>3, Zenon
    <3>3. attached'[Source].id = op'[i].src.id \/ "swap" \in harm'
      BY <1>6, <2>1, <3>1
    <3> QED
      BY <1>5, <2>2, <3>1, <3>2, <3>3
  <2> QED
    BY <1>4, <2>1, <2>3
<1>10. ASSUME NEW F \in {{}, {"todo", "locked"}, {"reads", "open"}}, NEW l \in Before \cup {"copy"},
              GoesOn(i, F, l), l # "revalidate", op[i].pc \in {"shrink", "access", "lock"},
              l \in {"snapshots", "copy"} => Opened(op'[i]),
              l = "snapshots" => LiveVSS(op[i].mode)
       PROVE  Honest(op[i])'
  <2>1. op'[i].src = op[i].src /\ op'[i].plan = op[i].plan /\ op'[i].shrunk = op[i].shrunk
    BY <1>10 DEF GoesOn, Touches
  <2>2. op'[i].plan.shrink = 0 \/ op'[i].shrunk
    BY <1>7, <1>10, <2>1, Zenon
  <2>3. attached'[Source].id = op'[i].src.id \/ "swap" \in harm'
    BY <1>6, <1>10, <2>1
  <2> QED
    BY <1>5, <1>10, <2>2, <2>3
<1>11. CASE Shrink(i)
  <2>1. op[i].pc = "shrink" /\ (GoesOn(i, {}, "access") \/ GoesOn(i, {}, "unshrink"))
    BY <1>0, <1>11, ShrinkEffect
  <2> QED
    BY <1>10, <2>1 DEF Before
<1>12. CASE Unshrink(i)
  BY <1>0, <1>4, <1>12, UnshrinkEffect
<1>13. CASE Access(i)
  <2>1. /\ op[i].pc = "access" /\ UNCHANGED attached
        /\ \/ /\ GoesOn(i, {"src", "tgt", "todo"}, "lock")
              /\ op'[i].src = attached[op[i].src.slot]
           \/ GivesUp(i, {})
    BY <1>0, <1>13, AccessEffect DEF DisksStay
  <2>2. CASE ~GivesUp(i, {})
    <3>1. /\ GoesOn(i, {"src", "tgt", "todo"}, "lock") /\ op'[i].src = attached'[Source]
          /\ op'[i].plan = op[i].plan /\ op'[i].shrunk = op[i].shrunk
      BY <1>2, <2>1, <2>2 DEF Chosen, GoesOn, Touches
    <3>2. op'[i].plan.shrink = 0 \/ op'[i].shrunk
      BY <1>7, <2>1, <3>1, Zenon
    <3> QED
      BY <1>5, <3>1, <3>2 DEF Before
  <2> QED
    BY <1>4, <2>1, <2>2
<1>14. CASE Lock(i)
  <2>1. op[i].pc = "lock" /\ (GoesOn(i, {"todo", "locked"}, "lock") \/ GivesUp(i, {"todo", "locked", "open"}))
    BY <1>0, <1>14, LockEffect
  <2> QED
    BY <1>4, <1>10, <2>1 DEF Before
<1>15. CASE Open(i)
  <2>1. /\ op[i].pc = "lock"
        /\ \/ /\ GoesOn(i, {"reads", "open"}, IF LiveVSS(op[i].mode) THEN "snapshots" ELSE "copy")
              /\ op'[i].open = attached[op[i].tgt.slot] /\ op'[i].reads = attached[op[i].src.slot]
           \/ GivesUp(i, {"todo", "locked", "open"})
    BY <1>0, <1>15, OpenEffect
  <2>2. /\ attached[op[i].tgt.slot] \in Disk
        /\ attached[op[i].src.slot] \in Disk /\ attached[op[i].src.slot].slot = Source
    BY <1>0, <1>2 DEF Chosen, DisksKnown
  <2> QED
    BY <1>4, <1>10, <2>1, <2>2 DEF Before, Opened
<1> QED
  BY <1>8, <1>9, <1>11, <1>12, <1>13, <1>14, <1>15

(* An operation whose copy begins, goes on or ends.                        *)
LEMMA HonestCopying ==
  ASSUME ControlInv, LayoutInv, SourceInv, [Next]_vars, NEW i \in Ops, NEW o, o = op[i],
         NEW q, q = op'[i], Honest(o),
         o.pc \in {"snapshots", "openSnapshots", "copy"}, q.pc \in {"openSnapshots", "copy", "close"},
         /\ q.mode = o.mode /\ q.src = o.src /\ q.plan = o.plan /\ q.shrunk = o.shrunk
         /\ q.reads = o.reads /\ q.open = o.open,
         LiveVSS(o.mode) \/ (q.ranges = <<>> /\ q.pc # "openSnapshots"),
         q.copied \in Seq(Units), Len(q.copied) <= CopySize(o),
         q.pc = "openSnapshots" => q.copied = <<>>,
         q.outcome \in Outcomes, q.pc # "close" => q.outcome = "none",
         q.outcome = "ok" => Len(q.copied) = CopySize(o),
         Taken(q)', Placed(q)'
  PROVE  Honest(op[i])'
<1>1. SourceDisk /\ Grows
  BY SourceDiskStep, StepOfSource
<1>2. Counted(q)'
  <2>1. q.pc \notin Before
    BY DEF Before
  <2>2. CopySize(o) \in Nat /\ Opened(q)
    BY Zenon DEF Honest, Counted, Opened
  <2>3. CopySize(q) = CopySize(o) /\ (LiveVSS(q.mode) <=> LiveVSS(o.mode))
    BY DEF CopySize, LiveVSS
  <2>4. q.pc \notin {"snapshots", "openSnapshots"} \/ LiveVSS(o.mode)
    OBVIOUS
  <2>5. Counted(q)
    BY <2>1, <2>2, <2>3, <2>4, Zenon DEF Counted
  <2> QED
    BY <2>5 DEF Counted, CopySize, LiveVSS, Opened
<1>3. AtSource(q)'
  <2>1. o.pc \in (Before \ {"revalidate"}) \cup {"openSnapshots", "copy"}
    BY DEF Before
  <2> QED
    BY <1>1, <2>1, AtSourceStays DEF Honest
<1>4. Unreduced(q)'
  <2>1. o.plan.shrink = 0 \/ o.shrunk
    BY Zenon DEF Honest, Unreduced
  <2>2. q.pc # "finish"
    OBVIOUS
  <2> QED
    BY <2>1, <2>2, Zenon DEF Unreduced
<1> QED
  BY <1>2, <1>3, <1>4, HonestAt DEF Honest

LEMMA HonestSnapshots ==
  ASSUME ControlInv, LayoutInv, SourceInv, NEW i \in Ops, Honest(op[i]), CreateSnapshots(i)
  PROVE  Honest(op[i])'
<1> USE FieldNames
<1> PICK o, q : o = op[i] /\ q = op'[i]
  OBVIOUS
<1>0. /\ Typed /\ DisksKnown /\ [Next]_vars /\ LayoutKnown
  BY DEF ControlInv, LayoutInv, Next, Goroutine, Prepare
<1>1. /\ o.pc = "snapshots" /\ UNCHANGED layout
      /\ \/ GoesOn(i, {"ranges"}, "openSnapshots") /\ q.ranges = Extents(o.src.letters)
         \/ GivesUp(i, {})
  BY <1>0, CreateSnapshotsEffect DEF SourceStays
<1>2. CASE GivesUp(i, {})
  <2>1. /\ op'[i].pc = "cleanup"
        /\ op'[i].mode = op[i].mode /\ op'[i].src = op[i].src /\ op'[i].plan = op[i].plan
        /\ op'[i].copied = op[i].copied /\ op'[i].reads = op[i].reads /\ op'[i].ranges = op[i].ranges
        /\ op'[i].table = op[i].table /\ op'[i].outcome = op[i].outcome
    BY <1>2 DEF GivesUp, Touches
  <2> QED
    BY <1>0, <2>1, HonestLeaves DEF Closing
<1>3. CASE GoesOn(i, {"ranges"}, "openSnapshots") /\ q.ranges = Extents(o.src.letters)
  <2>1. /\ q.pc = "openSnapshots"
        /\ q.mode = o.mode /\ q.src = o.src /\ q.plan = o.plan /\ q.shrunk = o.shrunk
        /\ q.reads = o.reads /\ q.open = o.open /\ q.copied = o.copied /\ q.outcome = o.outcome
    BY <1>3 DEF GoesOn, Touches
  <2>2. LiveVSS(o.mode) /\ o.copied = <<>> /\ o.outcome = "none" /\ CopySize(o) \in Nat
    BY <1>1 DEF Honest, Counted, Before
  <2>3. Chosen(o) /\ Permitted(o)
    BY <1>0, <1>1, SourceOp DEF DisksKnown, NoTarget, Idle
  <2>4. o.src = attached[Source] /\ o.src.system /\ o.src \in Disk
    BY <2>2, <2>3 DEF Permitted, KnownSource, Chosen
  <2>5. o.src.letters \in Seq(STRING)
    BY <2>4, Zenon DEF Disk
  <2>6. Mounted(o.src.letters, made.parts)
    BY <2>4 DEF SourceInv
  <2>7. Laid(q.ranges) /\ Mapped(q.ranges, layout.parts)
    BY <1>0, <1>3, <2>5, <2>6, ExtentsLaid
  <2>8. <<>> \in Seq(Units) /\ Len(<<>>) = 0 /\ DOMAIN <<>> = {}
    OBVIOUS
  <2>9. q.copied = <<>>
    BY <2>1, <2>2
  <2>10. Taken(q)'
    <3>1. DOMAIN q.copied = {}
      BY <2>8, <2>9, Zenon
    <3> QED
      BY <2>7, <3>1 DEF Taken, Laid
  <2>11. Placed(q)'
    BY <1>1, <2>7, <2>9 DEF Placed, Mapped
  <2>12. q.copied \in Seq(Units) /\ Len(q.copied) <= CopySize(o)
    <3>1. q.copied \in Seq(Units) /\ Len(q.copied) = 0
      BY <2>8, <2>9, Zenon
    <3> QED
      BY <2>2, <3>1
  <2>13. q.outcome = "none" /\ q.outcome \in Outcomes
    BY <2>1, <2>2 DEF Outcomes
  <2> QED
    BY <1>0, <1>1, <2>1, <2>2, <2>9, <2>10, <2>11, <2>12, <2>13, HonestCopying
<1> QED
  BY <1>1, <1>2, <1>3

(* The snapshots that are not opened are forgotten.                        *)
LEMMA ForgetsSnapshots ==
  ASSUME Typed, NEW i \in Ops, OpenSnapshots(i)
  PROVE  op'[i].ranges \in {op[i].ranges, <<>>}
BY OpAt, FieldNames, Zenon DEF OpenSnapshots, Goto, GiveUp

LEMMA HonestOpens ==
  ASSUME ControlInv, LayoutInv, SourceInv, NEW i \in Ops, Honest(op[i]), OpenSnapshots(i)
  PROVE  Honest(op[i])'
<1> USE FieldNames
<1> PICK o, q : o = op[i] /\ q = op'[i]
  OBVIOUS
<1>0. /\ Typed /\ DisksKnown /\ [Next]_vars /\ Grows
  <2>1. [Next]_vars
    BY DEF Next, Goroutine, Prepare
  <2> QED
    BY <2>1, StepOfSource DEF ControlInv
<1>1. /\ o.pc = "openSnapshots" /\ UNCHANGED <<layout, tangled>>
      /\ GoesOn(i, {}, "copy") \/ GivesUp(i, {"ranges"})
  BY <1>0, OpenSnapshotsEffect DEF SourceStays, Quiet
<1>2. LiveVSS(o.mode) /\ o.copied = <<>> /\ o.outcome = "none" /\ CopySize(o) \in Nat
  BY <1>1 DEF Honest, Counted, Before
<1>3. CASE GivesUp(i, {"ranges"})
  <2>1. /\ op'[i].pc = "cleanup"
        /\ op'[i].mode = op[i].mode /\ op'[i].src = op[i].src /\ op'[i].plan = op[i].plan
        /\ op'[i].copied = op[i].copied /\ op'[i].reads = op[i].reads
        /\ op'[i].table = op[i].table /\ op'[i].outcome = op[i].outcome
    BY <1>3 DEF GivesUp, Touches
  <2>2. op'[i].ranges = op[i].ranges \/ (op[i].copied = <<>> /\ op'[i].ranges = <<>>)
    BY <1>0, <1>2, ForgetsSnapshots
  <2> QED
    BY <1>0, <2>1, <2>2, HonestLeaves DEF Closing
<1>4. CASE GoesOn(i, {}, "copy")
  <2>1. /\ q.pc = "copy"
        /\ q.mode = o.mode /\ q.src = o.src /\ q.plan = o.plan /\ q.shrunk = o.shrunk
        /\ q.reads = o.reads /\ q.open = o.open /\ q.copied = o.copied
        /\ q.outcome = o.outcome /\ q.ranges = o.ranges
    BY <1>4 DEF GoesOn, Touches
  <2>2. Taken(q)'
    BY <1>0, <2>1, TakenStays DEF Honest
  <2>3. Placed(q)'
    BY <1>1, <1>2, <2>1 DEF Honest, Placed, Mapped
  <2>4. q.copied \in Seq(Units) /\ Len(q.copied) <= CopySize(o)
    BY <2>1, Zenon DEF Honest, Counted
  <2>5. q.outcome = "none" /\ q.outcome \in Outcomes
    BY <1>2, <2>1 DEF Outcomes
  <2> QED
    BY <1>0, <1>1, <1>2, <2>1, <2>2, <2>3, <2>4, <2>5, HonestCopying
<1> QED
  BY <1>1, <1>3, <1>4

(* A chunk joins what was copied.                                          *)
LEMMA TakenJoins ==
  ASSUME DisksKnown, NEW o, NEW q, Chosen(o), Permitted(o), Counted(o), Taken(o), AtSource(o),
         o.pc = "copy", Len(o.copied) < CopySize(o), q.ranges = o.ranges,
         q.reads = o.reads, q.src = o.src, q.copied = o.copied \o NextChunk(o), Grows
  PROVE  /\ q.copied \in Seq(Units) /\ q.copied # <<>> /\ Len(q.copied) <= CopySize(o)
         /\ Taken(q)'
<1> DEFINE ok == [u \in Nat |-> IF Genuine(o) THEN Expected(o, u) ELSE Units]
<1> PICK a, x, size : a = o.copied /\ x = NextChunk(o) /\ size = CopySize(o)
  OBVIOUS
<1>1. a \in Seq(Units) /\ size \in Nat /\ Len(a) < size
  BY Zenon DEF Counted
<1>2. Len(a) \in Nat
  BY <1>1
<1>3. Opened(o) /\ (LiveVSS(o.mode) \/ o.ranges = <<>>)
  BY DEF Counted
<1>4. /\ x \in Seq(Units) /\ Len(x) \in 1 .. size - Len(a)
      /\ Genuine(o) => \A k \in 1 .. Len(x) : x[k] \in Expected(o, Len(a) + k - 1)
  <2> PICK at \in Nat : at = Len(a)
    BY <1>2
  <2>1. at = Len(o.copied) /\ at < size
    BY <1>1
  <2>2. /\ x \in Seq(Units) /\ Len(x) \in 1 .. size - at
        /\ Genuine(o) => \A k \in 1 .. Len(x) : x[k] \in Expected(o, at + k - 1)
    BY <1>1, <1>3, <2>1, NextChunkIs
  <2> QED
    BY <2>2
<1>5. \A k \in DOMAIN a : a[k] \in ok[k - 1]
  <2>1. \A k \in DOMAIN a : k - 1 \in Nat
    BY <1>1
  <2>2. Genuine(o) => \A k \in DOMAIN a : a[k] \in Expected(o, k - 1)
    BY DEF Taken
  <2>3. \A k \in DOMAIN a : a[k] \in Units
    BY <1>1
  <2> QED
    BY <2>1, <2>2, <2>3
<1>6. \A k \in 1 .. Len(x) : x[k] \in ok[Len(a) + k - 1]
  <2>1. \A k \in 1 .. Len(x) : Len(a) + k - 1 \in Nat
    BY <1>2, <1>4
  <2>2. \A k \in 1 .. Len(x) : x[k] \in Units
    BY <1>4
  <2> QED
    BY <1>4, <2>1, <2>2
<1>7. /\ a \o x \in Seq(Units) /\ a \o x # <<>> /\ Len(a \o x) <= size
      /\ \A k \in DOMAIN (a \o x) : (a \o x)[k] \in ok[k - 1]
  <2> HIDE DEF ok
  <2> QED
    BY <1>1, <1>4, <1>5, <1>6, ChunkJoins
<1>8. q.copied = a \o x
  OBVIOUS
<1>9. Genuine(o) => \A k \in DOMAIN q.copied : q.copied[k] \in Expected(o, k - 1)
  <2>1. \A k \in DOMAIN (a \o x) : k - 1 \in Nat
    BY <1>7
  <2> QED
    BY <1>7, <1>8, <2>1
<1>10. Taken(q)'
  <2>1. \A u : Expected(o, u) \subseteq Expected(q, u)'
    BY ExpectedGrows DEF Grows
  <2>2. Laid(q.ranges)
    BY DEF Taken
  <2> QED
    BY <1>9, <2>1, <2>2 DEF Taken, Genuine
<1> QED
  BY <1>7, <1>8, <1>10

LEMMA HonestCopy ==
  ASSUME ControlInv, LayoutInv, SourceInv, NEW i \in Ops, Honest(op[i]), Copy(i)
  PROVE  Honest(op[i])'
<1> USE FieldNames
<1> PICK o, q : o = op[i] /\ q = op'[i]
  OBVIOUS
<1>0. /\ Typed /\ DisksKnown /\ [Next]_vars /\ Grows
  <2>1. [Next]_vars
    BY DEF Next, Goroutine
  <2> QED
    BY <2>1, StepOfSource DEF ControlInv
<1>1. o.pc = "copy" /\ UNCHANGED <<layout, tangled>>
  BY <1>0, CopyEffect DEF SourceStays, Quiet
<1>2. o.outcome = "none" /\ CopySize(o) \in Nat /\ (LiveVSS(o.mode) \/ o.ranges = <<>>)
  BY <1>1 DEF Honest, Counted
<1>3. Chosen(o) /\ Permitted(o)
  BY <1>0, <1>1, SourceOp DEF DisksKnown, NoTarget, Idle
<1>4. CASE /\ Len(o.copied) < CopySize(o) /\ q.copied = o.copied \o NextChunk(o)
           /\ q.table = IF o.copied = <<>> THEN TableRead(o) ELSE o.table
           /\ GoesOn(i, {"copied", "table"}, "copy")
  <2>1. /\ q.pc = "copy"
        /\ q.mode = o.mode /\ q.src = o.src /\ q.plan = o.plan /\ q.shrunk = o.shrunk
        /\ q.reads = o.reads /\ q.open = o.open /\ q.outcome = o.outcome /\ q.ranges = o.ranges
    BY <1>4 DEF GoesOn, Touches
  <2>2. /\ q.copied \in Seq(Units) /\ q.copied # <<>> /\ Len(q.copied) <= CopySize(o)
        /\ Taken(q)'
    BY <1>0, <1>1, <1>3, <1>4, <2>1, TakenJoins DEF Honest
  <2>3. ASSUME ~tangled, Genuine(q)
        PROVE  Copied(q.ranges, q.table)
    <3>1. CASE o.copied = <<>> /\ LiveVSS(o.mode)
      <4>0. ReadsSource(o)
        <5>1. o.src = attached[Source] /\ o.reads.slot = Source
          BY <1>1, <1>3, <3>1 DEF Permitted, KnownSource, Honest, Counted, Opened
        <5> QED
          BY <2>1, <2>3, <5>1 DEF ReadsSource, Reads, Genuine
      <4>1. Mapped(o.ranges, layout.parts) /\ q.table = Sizes(layout)
        BY <1>1, <1>4, <2>3, <3>1, <4>0 DEF Honest, Placed, TableRead
      <4>2. ASSUME NEW r \in Elements(q.ranges)
            PROVE  \E e \in Sizes(layout) : e.off = r.start /\ e.off + e.size = r.end
        <5> PICK p \in layout.parts : p.off = r.start /\ End(p) = r.end
          BY <2>1, <4>1 DEF Mapped
        <5> DEFINE e == [num |-> p.num, off |-> p.off, size |-> p.size]
        <5>1. e \in Sizes(layout)
          BY DEF Sizes
        <5>2. e.off = r.start /\ e.off + e.size = r.end
          BY DEF End
        <5> QED
          BY <5>1, <5>2
      <4> QED
        BY <4>1, <4>2 DEF Copied
    <3>2. CASE o.copied # <<>>
      BY <1>4, <2>1, <2>3, <3>2 DEF Honest, Placed, Genuine
    <3>3. CASE ~LiveVSS(o.mode)
      <4>1. Elements(q.ranges) = {}
        BY <1>2, <2>1, <3>3 DEF Elements
      <4> QED
        BY <4>1 DEF Copied
    <3> QED
      BY <3>1, <3>2, <3>3
  <2>4. Placed(q)'
    BY <1>1, <2>2, <2>3 DEF Placed, Copied, Genuine
  <2>5. q.outcome = "none" /\ q.outcome \in Outcomes
    BY <1>2, <2>1 DEF Outcomes
  <2> QED
    BY <1>0, <1>1, <1>2, <2>1, <2>2, <2>4, <2>5, HonestCopying
<1>5. CASE /\ q.outcome = "ok" => Len(o.copied) = CopySize(o)
           /\ q.outcome \in Outcomes
           /\ GoesOn(i, {"outcome"}, "close")
  <2>1. /\ q.pc = "close"
        /\ q.mode = o.mode /\ q.src = o.src /\ q.plan = o.plan /\ q.shrunk = o.shrunk
        /\ q.reads = o.reads /\ q.open = o.open /\ q.copied = o.copied
        /\ q.ranges = o.ranges /\ q.table = o.table
    BY <1>5 DEF GoesOn, Touches
  <2>2. Taken(q)'
    BY <1>0, <2>1, TakenStays DEF Honest
  <2>3. Placed(q)'
    BY <1>1, <2>1 DEF Honest, Placed, Genuine
  <2>4. q.copied \in Seq(Units) /\ Len(q.copied) <= CopySize(o)
    BY <2>1, Zenon DEF Honest, Counted
  <2>5. q.outcome = "ok" => Len(q.copied) = CopySize(o)
    BY <1>5, <2>1
  <2> QED
    BY <1>0, <1>1, <1>2, <1>5, <2>1, <2>2, <2>3, <2>4, <2>5, HonestCopying
<1>6. CASE GoesOn(i, {"panicked"}, "cleanup")
  <2>1. /\ op'[i].pc = "cleanup"
        /\ op'[i].mode = op[i].mode /\ op'[i].src = op[i].src /\ op'[i].plan = op[i].plan
        /\ op'[i].copied = op[i].copied /\ op'[i].reads = op[i].reads /\ op'[i].ranges = op[i].ranges
        /\ op'[i].table = op[i].table /\ op'[i].outcome = op[i].outcome
    BY <1>6 DEF GoesOn, Touches
  <2> QED
    BY <1>0, <2>1, HonestLeaves DEF Closing
<1> QED
  BY <1>0, <1>4, <1>5, <1>6, CopyDetails

(* After the copy.                                                         *)
LEMMA HonestLate ==
  ASSUME ControlInv, LayoutInv, [Next]_vars, NEW i \in Ops, NEW o, o = op[i], NEW q, q = op'[i],
         Honest(o), o.pc \in {"close", "restore"}, q.pc \in {"restore", "finish"},
         /\ q.mode = o.mode /\ q.src = o.src /\ q.plan = o.plan /\ q.ranges = o.ranges
         /\ q.reads = o.reads /\ q.copied = o.copied /\ q.table = o.table /\ q.outcome = o.outcome,
         Unreduced(q)'
  PROVE  Honest(op[i])'
<1>1. Grows /\ (~tangled' => ~tangled)
  BY StepOfSource, TangledStays
<1>2. Counted(q)'
  <2>1. Counted(q)
    BY DEF Honest, Counted, CopySize, LiveVSS, Before
  <2> QED
    BY <2>1 DEF Counted, CopySize, LiveVSS, Opened
<1>3. Taken(q)'
  BY <1>1, TakenStays DEF Honest
<1>4. AtSource(q)'
  BY DEF AtSource, Before
<1>5. Placed(q)'
  BY <1>1 DEF Honest, Placed, Genuine
<1> QED
  BY <1>2, <1>3, <1>4, <1>5, HonestAt DEF Honest

LEMMA HonestReleases ==
  ASSUME ControlInv, LayoutInv, NEW i \in Ops, Honest(op[i]), Release(i) \/ Restore(i)
  PROVE  Honest(op[i])'
<1> USE FieldNames
<1> PICK o, q : o = op[i] /\ q = op'[i]
  OBVIOUS
<1>0. /\ Typed /\ DisksKnown /\ [Next]_vars /\ LayoutKnown /\ Migrates(o)
  BY DEF ControlInv, LayoutInv, PlansKnown, Next, Goroutine, Leave
<1>1. CASE Release(i)
  <2>1. o.pc = "close" /\ GoesOn(i, {"todo", "locked", "open"}, "restore")
    BY <1>0, <1>1, ReleaseEffect
  <2>2. /\ q.pc = "restore"
        /\ q.mode = o.mode /\ q.src = o.src /\ q.plan = o.plan /\ q.ranges = o.ranges
        /\ q.reads = o.reads /\ q.copied = o.copied /\ q.table = o.table /\ q.outcome = o.outcome
        /\ q.shrunk = o.shrunk
    BY <2>1 DEF GoesOn, Touches
  <2>3. o.plan.shrink = 0 \/ o.shrunk
    BY <2>1, Zenon DEF Honest, Unreduced
  <2>4. Unreduced(q)'
    <3>1. q.pc # "finish"
      BY <2>2
    <3>2. q.plan.shrink = 0 \/ q.shrunk
      BY <2>2, <2>3, Zenon
    <3> QED
      BY <3>1, <3>2, Zenon DEF Unreduced
  <2> QED
    BY <1>0, <2>1, <2>2, <2>4, HonestLate
<1>2. CASE Restore(i)
  <2>1. o.pc = "restore" /\ GoesOn(i, {"shrunk", "restoreErr"}, "finish")
    BY <1>0, <1>2, RestoreEffect
  <2>2. /\ q.pc = "finish"
        /\ q.mode = o.mode /\ q.src = o.src /\ q.plan = o.plan /\ q.ranges = o.ranges
        /\ q.reads = o.reads /\ q.copied = o.copied /\ q.table = o.table /\ q.outcome = o.outcome
    BY <2>1 DEF GoesOn, Touches
  <2>3. o.plan.shrink = 0 \/ o.shrunk
    BY <2>1, Zenon DEF Honest, Unreduced
  <2>4. q.restoreErr = (o.shrunk /\ layout' # Resized(o.plan.shrink, o.plan.from))
    BY <1>0, <1>2, RestoreDetails
  <2>5. ASSUME ~q.restoreErr, q.plan.shrink # 0
        PROVE  Returned(q.plan, layout'.parts)
    <3>1. o.shrunk /\ layout' = Resized(o.plan.shrink, o.plan.from)
      BY <2>2, <2>3, <2>4, <2>5, Zenon
    <3>2. IsLast(o.plan.shrink) /\ o.plan.from \in Nat \ {0}
      BY <1>0, <3>1 DEF Migrates, Reduces
    <3> PICK b \in made.parts : b.num = o.plan.shrink
      BY <3>2 DEF IsLast
    <3> PICK p \in layout.parts : Same(p, b)
      BY <1>0 DEF LayoutKnown, Shaped
    <3>3. Becomes(layout.parts, layout'.parts, o.plan.shrink, o.plan.from)
      BY <1>0, <3>1, <3>2, ResizedBecomes
    <3> PICK e \in layout'.parts : Turns(p, e, o.plan.shrink, o.plan.from)
      BY <3>3 DEF Becomes
    <3>4. e.num = o.plan.shrink /\ e.size = o.plan.from
      BY DEF Turns, Same
    <3> QED
      BY <2>2, <3>4 DEF Returned
  <2>6. Unreduced(q)'
    <3>1. q.pc = "finish"
      BY <2>2
    <3> QED
      BY <2>5, <3>1, Zenon DEF Unreduced, Returned
  <2> QED
    BY <1>0, <2>1, <2>2, <2>6, HonestLate
<1> QED
  BY <1>1, <1>2

LEMMA HonestGoroutine ==
  ASSUME ControlInv, LayoutInv, SourceInv, NEW i \in Ops, Goroutine(i), Honest(op[i])
  PROVE  Honest(op[i])'
<1> USE FieldNames
<1>0. Typed /\ DisksKnown /\ [Next]_vars
  BY DEF ControlInv, Next
<1>1. ASSUME NEW F \in {{"todo", "locked", "open"}, {"shrunk"}, {}},
             Touches(i, F \cup {"pc"}), op'[i].pc \in Closing \cup {"ended"}
      PROVE  Honest(op[i])'
  <2>1. /\ op'[i].mode = op[i].mode /\ op'[i].src = op[i].src /\ op'[i].plan = op[i].plan
        /\ op'[i].copied = op[i].copied /\ op'[i].reads = op[i].reads /\ op'[i].ranges = op[i].ranges
        /\ op'[i].table = op[i].table /\ op'[i].outcome = op[i].outcome
    BY <1>1 DEF Touches
  <2> QED
    BY <1>0, <1>1, <2>1, HonestLeaves
<1>2. CASE Cleanup(i)
  <2>1. GoesOn(i, {"todo", "locked", "open"}, "cleanupRestore")
    BY <1>0, <1>2, ReleaseEffect
  <2> QED
    BY <1>1, <2>1 DEF GoesOn, Closing
<1>3. CASE CleanupRestore(i)
  <2>1. Touches(i, {"pc", "shrunk"}) /\ op'[i].pc = "ended"
    BY <1>0, <1>3, CleanupRestoreEffect
  <2>2. Touches(i, {"shrunk"} \cup {"pc"})
    BY <2>1 DEF Touches
  <2> QED
    BY <1>1, <2>1, <2>2
<1>4. CASE Finish(i) \/ RunRecovery(i)
  <2>1. Touches(i, {"pc"}) /\ op'[i].pc = "ended"
    BY <1>0, <1>4, EndEffect
  <2>2. Touches(i, {} \cup {"pc"})
    BY <2>1 DEF Touches
  <2> QED
    BY <1>1, <2>1, <2>2
<1> QED
  BY <1>2, <1>3, <1>4, HonestPrepare, HonestSnapshots, HonestOpens, HonestCopy, HonestReleases
     DEF Goroutine, Prepare, Leave

(* An operation that begins has copied nothing.                            *)
LEMMA HonestFresh ==
  ASSUME NEW q, q.copied = <<>>, q.ranges = <<>>, q.outcome = "none",
         q.pc \in Idle \cup {"recover", "revalidate"}, CopySize(q) \in Nat
  PROVE  Honest(q) /\ Honest(q)'
<1>1. <<>> \in Seq(Units) /\ Len(<<>>) = 0 /\ DOMAIN <<>> = {}
  OBVIOUS
<1>2. q.copied \in Seq(Units) /\ Len(q.copied) = 0 /\ DOMAIN q.copied = {}
  BY <1>1, Zenon
<1>3. q.pc \notin {"snapshots", "openSnapshots", "copy", "shrink", "access", "lock", "close",
                   "restore", "finish"}
  BY DEF Idle
<1>4. Counted(q) /\ Counted(q)'
  <2>1. Counted(q)
    BY <1>2, <1>3 DEF Counted, Outcomes
  <2> QED
    BY <2>1 DEF Counted, CopySize, LiveVSS, Opened
<1>5. Laid(q.ranges)
  <2>1. <<>> \in Seq(MapRange) /\ Elements(<<>>) = {}
    BY DEF Elements
  <2>2. Laid(<<>>)
    BY <2>1 DEF Laid
  <2> QED
    BY <2>2, Zenon
<1>6. Taken(q) /\ Taken(q)'
  BY <1>2, <1>5 DEF Taken
<1>7. AtSource(q) /\ AtSource(q)'
  <2>1. q.pc \notin (Before \ {"revalidate"}) \cup {"openSnapshots", "copy"}
    BY DEF Before, Idle
  <2> QED
    BY <2>1 DEF AtSource
<1>8. Placed(q) /\ Placed(q)'
  BY <1>3 DEF Placed
<1>9. Unreduced(q) /\ Unreduced(q)'
  BY <1>3, Zenon DEF Unreduced
<1> QED
  BY <1>4, <1>6, <1>7, <1>8, <1>9 DEF Honest

LEMMA HonestWindow ==
  ASSUME ControlInv, LayoutInv, SourceInv, HonestInv, Window, NEW i \in Ops, ~Goroutine(i)
  PROVE  Honest(op[i])'
<1>0. Typed /\ DisksKnown /\ [Next]_vars /\ Honest(op[i])
  BY DEF ControlInv, Next, HonestInv
<1>1. CASE op'[i] = op[i]
  BY <1>0, <1>1, HonestStays, Zenon
<1>2. CASE Cancel
  <2>1. latest \in Ops /\ Touches(latest, {"cancelled"})
    BY <1>0, <1>2, CancelEffect
  <2>2. /\ op'[i].pc = op[i].pc /\ op'[i].mode = op[i].mode /\ op'[i].src = op[i].src
        /\ op'[i].plan = op[i].plan /\ op'[i].shrunk = op[i].shrunk
        /\ op'[i].reads = op[i].reads /\ op'[i].open = op[i].open
        /\ op'[i].ranges = op[i].ranges /\ op'[i].copied = op[i].copied
        /\ op'[i].table = op[i].table /\ op'[i].outcome = op[i].outcome
        /\ op'[i].restoreErr = op[i].restoreErr
    BY <2>1, FieldNames DEF Touches
  <2> QED
    BY <1>0, <2>2, HonestStays
<1>3. CASE Confirm
  <2>0. ui # NoDialog /\ Unused # {}
    BY <1>3 DEF Confirm, ControlInv, OneAtWork
  <2> PICK j \in Unused :
         /\ Touches(j, Fields)
         /\ op'[j].pc = IF ui.mode = "recovery" THEN "recover" ELSE "revalidate"
         /\ op'[j].mode = ui.mode /\ op'[j].src = ui.src /\ op'[j].plan = ui.plan
         /\ op'[j].copied = <<>> /\ op'[j].ranges = <<>> /\ op'[j].outcome = "none"
    BY <1>0, <1>3, <2>0, ConfirmEffect
  <2>1. i # j => op'[i] = op[i]
    BY DEF Touches
  <2>2. CASE i = j
    <3> PICK q : q = op'[i]
      OBVIOUS
    <3>1. ui.src \in Disk
      BY <1>0, <2>0 DEF DisksKnown, Chosen
    <3>2. ui.src.size \in Nat
      BY <3>1, Zenon DEF Disk
    <3>3. ui.mode = "smart" => ui.plan.copy \in Nat
      BY <2>0, Zenon DEF SourceInv, Permitted
    <3>4. CopySize(q) \in Nat
      <4>1. q.mode = ui.mode /\ q.src = ui.src /\ q.plan = ui.plan
        BY <2>2, Zenon
      <4> QED
        BY <3>2, <3>3, <4>1 DEF CopySize
    <3>5. /\ q.copied = <<>> /\ q.ranges = <<>> /\ q.outcome = "none"
          /\ q.pc \in Idle \cup {"recover", "revalidate"}
      BY <2>2, Zenon
    <3>6. Honest(q)'
      BY <3>4, <3>5, HonestFresh
    <3> QED
      BY <3>6, HonestAt
  <2> QED
    BY <1>1, <2>1, <2>2
<1>4. CASE Quit
  <2> PICK q : q = op'[i]
    OBVIOUS
  <2>1. /\ q.pc \in Idle \cup {"recover", "revalidate"} /\ q.mode = "none" /\ q.src = NoDisk
        /\ q.copied = <<>> /\ q.ranges = <<>> /\ q.outcome = "none"
    BY <1>0, <1>4, QuitEffect DEF Idle
  <2>2. CopySize(q) \in Nat
    BY <2>1 DEF CopySize, NoDisk
  <2>3. Honest(q)'
    BY <2>1, <2>2, HonestFresh
  <2> QED
    BY <2>3, HonestAt
<1>5. CASE \/ RefreshDisks \/ DisksListed \/ StartRecovery \/ Decline
           \/ \E mode \in {"offline", "vss", "smart"}, slot \in Slots : StartClone(mode, slot)
  BY <1>1, <1>5 DEF RefreshDisks, DisksListed, StartRecovery, Decline, StartClone
<1> QED
  BY <1>2, <1>3, <1>4, <1>5 DEF Window

LEMMA HonestStep == ControlInv /\ LayoutInv /\ SourceInv /\ HonestInv /\ [Next]_vars => HonestInv'
<1> SUFFICES ASSUME ControlInv, LayoutInv, SourceInv, HonestInv, [Next]_vars, NEW i \in Ops
             PROVE  Honest(op[i])'
  BY DEF HonestInv
<1>0. Honest(op[i])
  BY DEF HonestInv
<1>1. CASE Goroutine(i)
  BY <1>0, <1>1, HonestGoroutine
<1>2. CASE ~Goroutine(i)
  <2>1. CASE op'[i] = op[i]
    BY <1>0, <1>2, <2>1, HonestStays, Zenon
  <2>2. CASE UNCHANGED vars
    BY <2>1, <2>2 DEF vars
  <2>3. CASE World
    <3>1. ASSUME NEW p \in layout.parts, Grow(p)
          PROVE  UNCHANGED op
      BY <3>1, Zenon DEF Grow
    <3>2. UNCHANGED op
      BY <2>3, <3>1 DEF World, Swap, RunRestoreScript
    <3> QED
      BY <2>1, <3>2
  <2>4. ASSUME NEW j \in Ops, Goroutine(j)
        PROVE  op'[i] = op[i]
    <3>1. i # j
      BY <1>2, <2>4
    <3> QED
      BY <2>4, <3>1, MoveOf, Zenon DEF Moves
  <2> QED
    BY <1>2, <2>1, <2>2, <2>3, <2>4, HonestWindow DEF Next
<1> QED
  BY <1>1, <1>2

LEMMA HonestHolds == Spec => []HonestInv
<1>1. Init => HonestInv
  <2> SUFFICES ASSUME Init, NEW i \in Ops PROVE Honest(op[i])
    BY DEF HonestInv
  <2> PICK q : q = op[i]
    OBVIOUS
  <2>1. q = NoOp
    BY DEF Init
  <2>2. /\ q.pc \in Idle \cup {"recover", "revalidate"} /\ q.mode = "none" /\ q.src = NoDisk
        /\ q.copied = <<>> /\ q.ranges = <<>> /\ q.outcome = "none"
    BY <2>1 DEF NoOp, Idle
  <2>3. CopySize(q) \in Nat
    BY <2>2 DEF CopySize, NoDisk
  <2> QED
    BY <2>2, <2>3, HonestFresh
<1> QED
  BY <1>1, HonestStep, ControlHolds, LayoutHolds, SourceHolds, PTL DEF Spec

(* What a goroutine reports as completed, of the source it was confirmed   *)
(* for, is all of that source: every unit is a mounted volume's or the     *)
(* disk's own, zeros only where it does not read or was taken away, the    *)
(* table copied with it describes the volumes, and the source has its size *)
(* back (runClone from CloneDisk to its end, mapped_reader.go and          *)
(* restoreSmartShrink) - unless another operation was cleaning up          *)
(* meanwhile.  An operation that opened another disk in the place of its   *)
(* source (disk_windows.go:703) is left out: it is reported as completed   *)
(* too.                                                                    *)
THEOREM CompletedIsWhole == Spec => CompletionHonest
<1>1. ASSUME ControlInv, SourceInv, HonestInv, Next, NEW i \in Ops,
             op[i].pc = "finish", op'[i].pc = "ended", completionOK', op[i].reads.id = op[i].src.id
      PROVE  Whole(op[i])
  <2>0. Typed /\ DisksKnown /\ Honest(op[i])
    BY <1>1 DEF ControlInv, HonestInv
  <2>1. Finish(i)
    <3>1. ASSUME NEW j \in Ops, Goroutine(j)
          PROVE  i = j
      BY <1>1, <3>1, MoveOf DEF Moves
    <3>2. Goroutine(i) => Finish(i)
      BY <1>1 DEF Goroutine, Prepare, Copy, Leave, Revalidate, Replan, Shrink, Unshrink, Access, Lock,
         Open, CreateSnapshots, OpenSnapshots, CopyChunk, CopyEnds, Adapt, Release, Restore,
         Cleanup, CleanupRestore, RunRecovery
    <3>3. CASE World
      <4>1. ASSUME NEW p \in layout.parts, Grow(p)
            PROVE  UNCHANGED op
        BY <4>1, Zenon DEF Grow
      <4> QED
        BY <1>1, <3>3, <4>1 DEF World, Swap, RunRestoreScript
    <3>4. CASE Window
      <4>1. CASE Quit
        BY <1>1, <4>1 DEF Quit
      <4>2. CASE Confirm
        <5>1. Unused # {}
          BY <1>1, <4>2 DEF Confirm, ControlInv, OneAtWork
        <5> PICK j \in Unused : Touches(j, Fields)
          BY <2>0, <4>2, <5>1, ConfirmEffect
        <5>2. i # j
          BY <1>1 DEF Unused
        <5> QED
          BY <1>1, <5>2 DEF Touches
      <4>3. CASE Cancel
        <5>1. latest \in Ops /\ Touches(latest, {"cancelled"})
          BY <2>0, <4>3, CancelEffect
        <5>2. op'[i].pc = op[i].pc
          BY <5>1, FieldNames DEF Touches
        <5> QED
          BY <1>1, <5>2
      <4> QED
        BY <1>1, <3>4, <4>1, <4>2, <4>3 DEF Window, RefreshDisks, DisksListed, StartRecovery, Decline,
           StartClone
    <3> QED
      BY <1>1, <3>1, <3>2, <3>3, <3>4 DEF Next
  <2> PICK o : o = op[i]
    OBVIOUS
  <2>2. o.outcome = "ok" /\ ~o.restoreErr /\ o.pc = "finish" /\ Genuine(o)
    BY <1>1, <2>1 DEF Finish, Genuine
  <2>3. Honest(o)
    BY <2>0
  <2>4. Len(o.copied) = CopySize(o) /\ \A k \in DOMAIN o.copied : o.copied[k] \in Expected(o, k - 1)
    BY <2>2, <2>3 DEF Honest, Counted, Taken
  <2>5. CopySize(o) \in Nat \ {0}
    <3>1. Chosen(o) /\ Permitted(o)
      BY <1>1, <2>0, <2>2, SourceOp DEF DisksKnown, NoTarget, Idle
    <3> QED
      BY <3>1, SizeIsNat
  <2>6. o.copied # <<>>
    <3>1. Len(<<>>) = 0
      OBVIOUS
    <3> QED
      BY <2>4, <2>5, <3>1
  <2>7. ~tangled => Copied(o.ranges, o.table)
    BY <2>2, <2>3, <2>6 DEF Honest, Placed
  <2>8. ~tangled => o.plan.shrink = 0 \/ Returned(o.plan, layout.parts)
    BY <2>2, <2>3, Zenon DEF Honest, Unreduced
  <2> QED
    BY <2>4, <2>7, <2>8 DEF Whole, Copied, Returned
<1>2. ControlInv /\ SourceInv /\ HonestInv /\ [Next]_vars =>
        [\A i \in Ops : Completes(i) => op[i].reads.id # op[i].src.id \/ Whole(op[i])]_vars
  BY <1>1 DEF Completes
<1> QED
  BY <1>2, ControlHolds, SourceHolds, HonestHolds, PTL DEF Spec, CompletionHonest

-----------------------------------------------------------------------------
(* The type.                                                               *)

Flags ==
  /\ running \in BOOLEAN /\ loading \in BOOLEAN /\ completed \in BOOLEAN
  /\ completionOK \in BOOLEAN /\ tangled \in BOOLEAN /\ slipped \in BOOLEAN
  /\ replaced \in BOOLEAN
FlagsInv == Flags /\ latest \in 0 .. MaxOps /\ harm \subseteq FaultKinds

LEMMA HarmKinds ==
  ASSUME harm \subseteq FaultKinds, UNCHANGED harm \/ \E fault : Harm(fault)
  PROVE  harm' \subseteq FaultKinds
BY OperationAssumption DEF Harm

(* What a goroutine does to what the window shows.                         *)
Reports ==
  /\ running' \in {running, FALSE, TRUE} /\ completed' \in {completed, TRUE}
  /\ completionOK' \in {completionOK, FALSE, TRUE}
  /\ replaced' \in {replaced, FALSE, TRUE}
  /\ UNCHANGED loading
  /\ UNCHANGED harm \/ \E fault : Harm(fault)

LEMMA ReportsOf ==
  ASSUME NEW i \in Ops, Goroutine(i)
  PROVE  Reports
<1>1. ASSUME UNCHANGED <<app, replaced>>, UNCHANGED harm \/ \E fault : Harm(fault)
      PROVE  Reports
  BY <1>1 DEF Reports, app
<1>2. ASSUME NEW o, GiveUp(i, o), replaced' \in {replaced, FALSE, TRUE},
             UNCHANGED harm \/ \E fault : Harm(fault)
      PROVE  Reports
  BY <1>2 DEF Reports, GiveUp
<1>3. CASE Revalidate(i) \/ Access(i) \/ Lock(i) \/ Open(i) \/ CreateSnapshots(i) \/ OpenSnapshots(i)
  <2>1. /\ UNCHANGED replaced /\ (UNCHANGED app \/ \E o : GiveUp(i, o))
        /\ UNCHANGED harm \/ \E fault : Harm(fault)
    BY <1>3, ZenonT(60) DEF Revalidate, Access, Lock, Open, CreateSnapshots, OpenSnapshots, history
  <2> QED
    BY <1>1, <1>2, <2>1
<1>4. CASE Replan(i)
  <2>1. /\ UNCHANGED app \/ \E o : GiveUp(i, o)
        /\ UNCHANGED harm \/ \E fault : Harm(fault)
    BY <1>4, ZenonT(60) DEF Replan
  <2>2. \/ UNCHANGED replaced
        \/ replaced' = (replaced \/ (Sizes(layout) # Sizes(made) /\ planFile' # planFile))
    BY <1>4, ZenonT(60) DEF Replan
  <2>3. replaced' \in {replaced, FALSE, TRUE}
    BY <2>2
  <2>4. CASE UNCHANGED app
    BY <2>1, <2>3, <2>4 DEF Reports, app
  <2> QED
    BY <1>2, <2>1, <2>3, <2>4
<1>5. CASE Shrink(i) \/ Copy(i) \/ Release(i) \/ Cleanup(i) \/ Restore(i)
  <2>1. /\ UNCHANGED <<app, replaced>>
        /\ UNCHANGED harm \/ \E fault : Harm(fault)
    <3>1. UNCHANGED <<app, history>>
      BY <1>5, ZenonT(60) DEF Shrink, Copy, CopyChunk, CopyEnds, Adapt, Release, Cleanup, Restore
    <3>2. UNCHANGED harm \/ \E fault : Harm(fault)
      BY <1>5, ZenonT(60) DEF Shrink, Copy, CopyChunk, CopyEnds, Adapt, Release, Cleanup, Restore,
         CloseSnapshots, RestoreShrink
    <3> QED
      BY <3>1, <3>2 DEF history
  <2> QED
    BY <1>1, <2>1
<1>6. CASE Unshrink(i)
  <2>1. RestoreShrink(op[i]) /\ GiveUp(i, [op[i] EXCEPT !.shrunk = FALSE]) /\ UNCHANGED history
    BY <1>6, Zenon DEF Unshrink
  <2>2. UNCHANGED harm \/ \E fault : Harm(fault)
    BY <2>1, Zenon DEF RestoreShrink
  <2> QED
    BY <1>2, <2>1, <2>2 DEF history
<1>7. CASE CleanupRestore(i)
  <2>1. /\ RestoreShrink(op[i]) /\ running' = (running /\ ~op[i].panicked)
        /\ UNCHANGED <<loading, completed, completionOK, history>>
    BY <1>7 DEF CleanupRestore
  <2>2. UNCHANGED harm \/ \E fault : Harm(fault)
    BY <2>1, Zenon DEF RestoreShrink
  <2>3. running' \in {running, FALSE, TRUE}
    BY <2>1
  <2> QED
    BY <2>1, <2>2, <2>3 DEF Reports, history
<1>8. CASE Finish(i)
  <2>1. /\ running' = FALSE /\ completed' = TRUE
        /\ completionOK' = (op[i].outcome = "ok" /\ ~op[i].restoreErr)
        /\ UNCHANGED <<loading, history, harm>>
    BY <1>8 DEF Finish
  <2>2. completionOK' \in {TRUE, FALSE}
    BY <2>1
  <2> QED
    BY <2>1, <2>2 DEF Reports, history
<1>9. CASE RunRecovery(i)
  BY <1>9 DEF RunRecovery, Reports, history
<1> QED
  BY <1>3, <1>4, <1>5, <1>6, <1>7, <1>8, <1>9 DEF Goroutine, Prepare, Leave

Toggles(x, y) == y \in {x, FALSE, TRUE}

LEMMA StillBoolean == \A x, y : x \in BOOLEAN /\ Toggles(x, y) => y \in BOOLEAN
BY DEF Toggles

LEMMA FlagsStep == ControlInv /\ FlagsInv /\ [Next]_vars => FlagsInv'
<1> SUFFICES ASSUME ControlInv, FlagsInv, [Next]_vars PROVE FlagsInv'
  OBVIOUS
<1>0. Typed /\ DisksKnown /\ Flags /\ latest \in 0 .. MaxOps /\ harm \subseteq FaultKinds
  BY DEF ControlInv, FlagsInv
<1>1. ASSUME /\ Toggles(running, running') /\ Toggles(loading, loading')
             /\ Toggles(completed, completed')
             /\ Toggles(completionOK, completionOK')
             /\ Toggles(tangled, tangled') /\ Toggles(slipped, slipped')
             /\ Toggles(replaced, replaced')
             /\ latest' \in Ops \cup {latest},
             UNCHANGED harm \/ \E fault : Harm(fault)
      PROVE  FlagsInv'
  <2>1. Flags'
    BY <1>0, <1>1, StillBoolean, Zenon DEF Flags
  <2>2. latest' \in 0 .. MaxOps
    BY <1>0, <1>1, OperationAssumption DEF Ops
  <2>3. harm' \subseteq FaultKinds
    BY <1>0, <1>1, HarmKinds
  <2> QED
    BY <2>1, <2>2, <2>3 DEF FlagsInv
<1>2. CASE UNCHANGED vars
  BY <1>1, <1>2 DEF vars, app, history, Toggles
<1>3. CASE \E i \in Ops : Goroutine(i)
  <2> PICK i \in Ops : Goroutine(i)
    BY <1>3
  <2>1. Reports /\ Quiet
    BY ReportsOf, QuietGoroutine
  <2> QED
    BY <1>1, <2>1 DEF Reports, Quiet, Toggles
<1>4. CASE World
  <2>1. ASSUME NEW slot \in Slots, Swap(slot)
        PROVE  FlagsInv'
    <3>1. /\ slipped' = (slipped \/ \E i \in Ops : op[i].pc = "lock") /\ Harm("swap")
          /\ UNCHANGED <<app, tangled, replaced>>
      BY <2>1 DEF Swap
    <3>2. Toggles(slipped, slipped')
      BY <3>1 DEF Toggles
    <3> QED
      BY <1>1, <3>1, <3>2 DEF app, Toggles
  <2>2. ASSUME NEW slot \in Slots, RunRestoreScript(slot)
        PROVE  FlagsInv'
    BY <1>1, <2>2 DEF RunRestoreScript, app, history, Toggles
  <2>3. ASSUME NEW p \in layout.parts, Grow(p)
        PROVE  FlagsInv'
    <3>1. Harm("grow") /\ UNCHANGED <<app, history>>
      BY <2>3, Zenon DEF Grow
    <3> QED
      BY <1>1, <3>1 DEF app, history, Toggles
  <2> QED
    BY <1>4, <2>1, <2>2, <2>3 DEF World
<1>5. CASE Window
  <2>1. CASE RefreshDisks \/ DisksListed \/ Decline \/ StartRecovery
    BY <1>1, <2>1 DEF RefreshDisks, DisksListed, Decline, StartRecovery, app, history, Toggles
  <2>2. ASSUME NEW mode \in {"offline", "vss", "smart"}, NEW slot \in Slots, StartClone(mode, slot)
        PROVE  FlagsInv'
    <3>1. UNCHANGED <<app, history, harm>>
      BY <2>2, Zenon DEF StartClone
    <3> QED
      BY <1>1, <3>1 DEF app, history, Toggles
  <2>3. CASE Confirm
    <3>0. ui # NoDialog /\ Unused # {}
      BY <2>3 DEF Confirm, ControlInv, OneAtWork
    <3>1. PICK i \in Unused : latest' = i /\ tangled' = (tangled \/ Live # {})
      BY <1>0, <2>3, <3>0, ConfirmEffect
    <3>2. latest' \in Ops /\ Toggles(tangled, tangled')
      BY <3>1 DEF Unused, Toggles
    <3>3. /\ running' = TRUE /\ completed' = FALSE
          /\ UNCHANGED <<loading, completionOK, slipped, replaced, harm>>
      BY <2>3, Zenon DEF Confirm
    <3> QED
      BY <1>1, <3>2, <3>3 DEF Toggles
  <2>4. CASE Cancel
    BY <1>1, <2>4 DEF Cancel, app, history, Toggles
  <2>5. CASE Quit
    <3>1. /\ running' = FALSE /\ loading' = FALSE /\ completed' = FALSE /\ completionOK' = FALSE
          /\ Harm("quit") /\ UNCHANGED <<latest, history>>
      BY <2>5, Zenon DEF Quit
    <3>2. UNCHANGED <<tangled, slipped, replaced, latest>>
      BY <3>1 DEF history
    <3>3. /\ Toggles(running, running') /\ Toggles(loading, loading')
          /\ Toggles(completed, completed') /\ Toggles(completionOK, completionOK')
      BY <3>1, Zenon DEF Toggles
    <3>4. Toggles(tangled, tangled') /\ Toggles(slipped, slipped') /\ Toggles(replaced, replaced')
      BY <3>2, Zenon DEF Toggles
    <3> QED
      BY <1>1, <3>1, <3>2, <3>3, <3>4
  <2> QED
    BY <1>5, <2>1, <2>2, <2>3, <2>4, <2>5 DEF Window
<1> QED
  BY <1>2, <1>3, <1>4, <1>5 DEF Next

(* The state has its type, and only an operation that got as far holds a   *)
(* disk to write and has copied no more than it is to copy (runClone).     *)
THEOREM OperationTyped == Spec => []TypeOK
<1>1. Init => FlagsInv
  <2>1. Init => Flags
    BY Zenon DEF Init, Flags
  <2>2. Init => latest \in 0 .. MaxOps /\ harm \subseteq FaultKinds
    BY OperationAssumption DEF Init
  <2> QED
    BY <2>1, <2>2 DEF FlagsInv
<1>2. ASSUME ControlInv, HonestInv, HoldInv, FlagsInv
      PROVE  TypeOK
  <2>1. /\ {running, loading, completed, completionOK, tangled, slipped, replaced} \subseteq BOOLEAN
        /\ latest \in 0 .. MaxOps /\ harm \subseteq FaultKinds
    BY <1>2 DEF FlagsInv, Flags
  <2>2. ASSUME NEW i \in Ops
        PROVE  /\ op[i].pc \in Labels /\ DOMAIN op[i] = DOMAIN NoOp
               /\ op[i].outcome \in {"none", "ok", "cancelled", "failed"}
               /\ op[i].pc \in {"snapshots", "openSnapshots", "copy"} => op[i].open # NoDisk
               /\ op[i].open # NoDisk =>
                    op[i].pc \in {"snapshots", "openSnapshots", "copy", "close", "cleanup"}
               /\ Len(op[i].copied) <= CopySize(op[i])
    <3>1. Counted(op[i]) /\ NothingHeld(op[i]) /\ IsOperation(op[i])
      BY <1>2 DEF ControlInv, Typed, HonestInv, Honest, HoldInv
    <3>2. NoDisk \notin Disk
      <4>1. NoDisk.size = 0
        BY DEF NoDisk
      <4>2. \A d \in Disk : d.size \in Nat \ {0}
        BY Zenon DEF Disk
      <4> QED
        BY <4>1, <4>2
    <3> QED
      BY <3>1, <3>2 DEF Counted, Opened, Outcomes, NothingHeld, IsOperation, Fields
  <2>3. \A s \in shadows : s[1] \in Ops
    BY <1>2 DEF HoldInv, ShadowHeld
  <2> QED
    BY <2>1, <2>2, <2>3 DEF TypeOK
<1> QED
  BY <1>1, <1>2, FlagsStep, ControlHolds, HonestHolds, HoldHolds, PTL DEF Spec
=============================================================================
