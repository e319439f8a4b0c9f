------------------------------ MODULE GptAdjust ------------------------------
(***************************************************************************)
(* recovery/clone.go, adjustPartitionTableForDestination: after the copy,  *)
(* the partition table of the clone is adapted to the size of the          *)
(* destination.  A GPT is written twice, first the backup at the new end of*)
(* the disk, then the primary and the protective MBR, so that a crash in   *)
(* between leaves one table to read; an MBR is rewritten in place.         *)
(*                                                                         *)
(* Simplifications.                                                        *)
(*  - A CRC stands for what it is computed over: a header names the table  *)
(*    its CRC of the entries belongs to, and "sound" says its own is right.*)
(*  - A sector is written whole or not at all; the entries take several.   *)
(*  - Slots of the table are as many as the instance needs, where the code *)
(*    reads the number from the header (GPT) or has four (MBR).            *)
(***************************************************************************)
EXTENDS Naturals

CONSTANTS
  Slots,        \* entries of the table
  Partitions,   \* what an entry may hold: [first, last, kind]
  SourceLast,   \* last LBA of the source
  TargetLasts,  \* last LBAs of the destinations
  EntrySectors, \* sectors of the table
  Faults,       \* subset of FaultKinds
  MaxRuns,      \* bound: adjustments of the same destination
  MaxCrashes    \* bound: killed processes and power losses

FaultKinds == {"kill", "power", "write", "sync", "read", "corrupt"}
FirstUsable == 2 + EntrySectors

ASSUME AdjustAssumption ==
  /\ SourceLast \in Nat /\ TargetLasts \subseteq Nat /\ EntrySectors \in Nat \ {0}
  /\ \A l \in TargetLasts : l > FirstUsable + EntrySectors + 1
  /\ Partitions \subseteq [first : Nat, last : Nat, kind : {"basic", "recovery"}]
  /\ Faults \subseteq FaultKinds /\ MaxRuns \in Nat /\ MaxCrashes \in Nat

VARIABLES
  cur,      \* cur[c]: what a read of cell c returns
  pend,     \* pend[c]: what a power loss may leave in it
  last,     \* last LBA of the destination
  source,   \* the table of the source
  pc, plan, \* where the adjustment is, and what it writes
  lied,     \* a write reported as done stored other bytes
  result,   \* "none", "ok", "noTable", "refused" (nothing written), "failed"
  runs, crashes

vars == <<cur, pend, lied, last, source, pc, plan, result, runs, crashes>>

Empty == [first |-> 0, last |-> 0, kind |-> "empty"]
Tables == [Slots -> Partitions \cup {Empty}]
NoParts == [s \in Slots |-> Empty]

(* The cells: the MBR, the primary header and entries, the backup ones.    *)
Cells == {"mbr", "ph", "pe", "bh", "be"}
Other == [kind |-> "other"]
Mixed == [kind |-> "mixed"]
Table(t) == [kind |-> "table", parts |-> t]
Header(at, alt, t) == [kind |-> "header", sound |-> TRUE, at |-> at, alt |-> alt, crc |-> t]
Mbr(k, t) == [kind |-> k, parts |-> t, size |-> 0]
Protective(size) == [kind |-> "protective", parts |-> NoParts, size |-> size]

May(fault) == fault \in Faults

(* What the copy left: the table of the source, with the backup where the  *)
(* source has it, which is the end of the destination if both are of one   *)
(* size; the header may be damaged, its CRCs wrong, the MBR of any kind.   *)
Copied(t, l, k, damage) ==
  LET gpt == k # "parts"
      same == gpt /\ l = SourceLast
      header == [kind |-> "header", sound |-> damage # "header",
                 at |-> 1, alt |-> SourceLast, crc |-> t]
  IN  [c \in Cells |->
         IF c = "mbr" THEN Mbr(k, IF gpt THEN NoParts ELSE t)
         ELSE IF c = "ph" /\ gpt THEN header
         ELSE IF c = "pe" /\ gpt /\ damage # "entries" THEN Table(t)
         ELSE IF c = "bh" /\ same THEN Header(l, 1, t)
         ELSE IF c = "be" /\ same THEN Table(t)
         ELSE Other]

Init ==
  /\ source \in Tables /\ last \in TargetLasts
  /\ \E k \in {"parts", "protective", "free", "full", "nosig"},
        damage \in {"none", "header", "entries"} :
        cur = Copied(source, last, k, damage)
  /\ pend = [c \in Cells |-> {cur[c]}]
  /\ pc = "idle" /\ plan = NoParts /\ lied = FALSE /\ result = "none"
  /\ runs = 0 /\ crashes = 0

-----------------------------------------------------------------------------
(* The plan: which entries stay, which are dropped, when it is refused.    *)

LastUsable == last - EntrySectors - 1

Used(t) == {s \in Slots : t[s] # Empty}

(* Entries within the destination are kept; a recovery partition beyond its*)
(* end is dropped.                                                         *)
Kept(t, end) == {s \in Used(t) : t[s].last <= end}
WrongPlanned(t, end) ==
  [s \in Slots |-> IF s \in Kept(t, end) THEN t[s] ELSE [t[s] EXCEPT !.kind = "empty"]]
Planned(t, end) == [s \in Slots |-> IF s \in Kept(t, end) THEN t[s] ELSE Empty]

(* The kept entries are sorted by first sector and neighbours compared.    *)
Neighbours(t, K, i, j) ==
  /\ i # j /\ t[i].first <= t[j].first
  /\ \A k \in K \ {i, j} : ~(t[i].first < t[k].first /\ t[k].first < t[j].first)
WrongOverlaps(t, K) ==
  \E i, j \in K : Neighbours(t, K, i, j) /\ t[j].first < t[i].last
Overlaps(t, K) ==
  \E i, j \in K : Neighbours(t, K, i, j) /\ t[j].first <= t[i].last

Acceptable(t, low, end) ==
  /\ \A s \in Used(t) : t[s].first >= low /\ t[s].last >= t[s].first
  /\ \A s \in Used(t) \ Kept(t, end) : t[s].kind = "recovery"
  /\ ~Overlaps(t, Kept(t, end))

HasHeader == cur["ph"].kind = "header"
UsesGpt == HasHeader \/ cur["mbr"].kind = "protective"
UsesMbr == ~UsesGpt /\ cur["mbr"].kind \in {"parts", "free", "full"}

(* adjustGPTForDestination, up to its first write.                         *)
GptTable == cur["pe"].parts
GptAccepted ==
  /\ cur["ph"].sound /\ cur["ph"].at = 1
  /\ cur["pe"] = Table(cur["ph"].crc)
  /\ Acceptable(GptTable, FirstUsable, LastUsable)
  /\ cur["mbr"].kind # "full"

Return(res) == pc' = "idle" /\ result' = res

Start ==
  /\ pc = "idle" /\ runs < MaxRuns
  /\ pc' = "plan" /\ runs' = runs + 1 /\ result' = "none"
  /\ UNCHANGED <<cur, pend, lied, last, source, plan, crashes>>

PlanGpt ==
  /\ pc = "plan" /\ UsesGpt
  /\ \/ /\ ~HasHeader /\ Return("noTable") /\ UNCHANGED plan
     \/ /\ HasHeader /\ (~GptAccepted \/ May("read"))
        /\ Return("refused") /\ UNCHANGED plan
     \/ /\ HasHeader /\ GptAccepted
        /\ plan' = Planned(GptTable, LastUsable)
        /\ pc' = "be" /\ UNCHANGED result
  /\ UNCHANGED <<cur, pend, lied, last, source, runs, crashes>>

(* adjustMBRForDestination: count of sectors is last + 1; nothing to drop, *)
(* nothing to write.                                                       *)
PlanMbr ==
  /\ pc = "plan" /\ ~UsesGpt
  /\ LET t == cur["mbr"].parts IN
     \/ ~UsesMbr /\ Return("noTable") /\ UNCHANGED plan
     \/ /\ UsesMbr /\ (~Acceptable(t, 1, last) \/ May("read"))
        /\ Return("refused") /\ UNCHANGED plan
     \/ /\ UsesMbr /\ Acceptable(t, 1, last)
        /\ plan' = Planned(t, last)
        /\ IF plan' = t THEN Return("noTable") ELSE pc' = "mbrParts" /\ UNCHANGED result
  /\ UNCHANGED <<cur, pend, lied, last, source, runs, crashes>>

-----------------------------------------------------------------------------
(* The writes.                                                             *)

(* What a power loss may leave of a cell that c is written over.           *)
AfterWrite(cell, c) ==
  IF pend[cell] = {c} THEN {c}
  ELSE pend[cell] \cup {c} \cup (IF cell \in {"pe", "be"} THEN {Mixed} ELSE {})

(* writeFullAt: it succeeds, or it stops anywhere and fails, or it succeeds*)
(* and the disk stored other bytes.                                        *)
Write(cell, c, next) ==
  /\ \E x \in AfterWrite(cell, c) \cup (IF May("corrupt") THEN {Mixed} ELSE {}) :
       /\ cur' = [cur EXCEPT ![cell] = x]
       /\ pend' = [pend EXCEPT ![cell] = AfterWrite(cell, c) \cup {x}]
       /\ \/ /\ x = c \/ (May("corrupt") /\ x = Mixed)
             /\ lied' = (lied \/ x # c)
             /\ pc' = next /\ UNCHANGED result
          \/ /\ May("write") /\ x \in AfterWrite(cell, c)
             /\ Return("failed") /\ UNCHANGED lied
  /\ UNCHANGED <<last, source, plan, runs, crashes>>

(* Destination.Sync.                                                       *)
Sync(next) ==
  /\ \/ /\ pend' = [c \in Cells |-> {cur[c]}]
        /\ pc' = next /\ UNCHANGED result
     \/ May("sync") /\ Return("failed") /\ UNCHANGED pend
  /\ UNCHANGED <<cur, lied, last, source, plan, runs, crashes>>

WriteBackupEntries == pc = "be" /\ Write("be", Table(plan), "bh")
WriteBackupHeader == pc = "bh" /\ Write("bh", Header(last, 1, plan), "syncBackup")
WrongSyncBackup ==
  /\ pc = "syncBackup" /\ pc' = "pe"
  /\ UNCHANGED <<cur, pend, lied, last, source, plan, result, runs, crashes>>
SyncBackup == pc = "syncBackup" /\ Sync("pe")
WritePrimaryEntries == pc = "pe" /\ Write("pe", Table(plan), "ph")
WrongPrimaryHeader == pc = "ph" /\ Write("ph", Header(last, 1, plan), "mbr")
WritePrimaryHeader == pc = "ph" /\ Write("ph", Header(1, last, plan), "mbr")
WriteProtectiveMbr == pc = "mbr" /\ Write("mbr", Protective(last), "syncPrimary")
SyncPrimary == pc = "syncPrimary" /\ Sync("validate")

(* validateWrittenGPT: both headers and both tables are read back.         *)
Copy(header, entries, at, alt) ==
  /\ cur[header] = Header(at, alt, plan) /\ cur[entries] = Table(plan)
WrittenGpt == Copy("ph", "pe", 1, last) /\ Copy("bh", "be", last, 1)
WrongValidate ==
  /\ pc = "validate"
  /\ \/ Copy("ph", "pe", 1, last) /\ Return("ok")
     \/ (~Copy("ph", "pe", 1, last) \/ May("read")) /\ Return("failed")
  /\ UNCHANGED <<cur, pend, lied, last, source, plan, runs, crashes>>
Validate ==
  /\ pc = "validate"
  /\ \/ WrittenGpt /\ Return("ok")
     \/ (~WrittenGpt \/ May("read")) /\ Return("failed")
  /\ UNCHANGED <<cur, pend, lied, last, source, plan, runs, crashes>>

WriteMbr == pc = "mbrParts" /\ Write("mbr", Mbr("parts", plan), "syncMbr")
SyncMbr ==
  /\ pc = "syncMbr"
  /\ \/ pend' = [c \in Cells |-> {cur[c]}] /\ Return("ok")
     \/ May("sync") /\ Return("failed") /\ UNCHANGED pend
  /\ UNCHANGED <<cur, lied, last, source, plan, runs, crashes>>

-----------------------------------------------------------------------------

Crash == /\ crashes < MaxCrashes /\ crashes' = crashes + 1
         /\ pc # "idle" /\ pc' = "idle" /\ result' = "none"
         /\ UNCHANGED <<lied, last, source, plan, runs>>

(* The process dies: what was written stays, entries perhaps half written. *)
Kill ==
  /\ May("kill") /\ Crash
  /\ \/ UNCHANGED <<cur, pend>>
     \/ \E cell \in {"pe", "be"} \cap {pc} :
          /\ pend' = [pend EXCEPT ![cell] = AfterWrite(cell, Table(plan))]
          /\ \E x \in AfterWrite(cell, Table(plan)) : cur' = [cur EXCEPT ![cell] = x]

(* The machine stops: the writes since the last sync may be lost or torn.  *)
PowerLoss ==
  LET unsynced == {c \in Cells : pend[c] # {cur[c]}} IN
  /\ May("power") /\ Crash
  /\ \E left \in [unsynced -> UNION {pend[c] : c \in unsynced}] :
       /\ \A c \in unsynced : left[c] \in pend[c]
       /\ cur' = [c \in Cells |-> IF c \in unsynced THEN left[c] ELSE cur[c]]
  /\ pend' = [c \in Cells |-> {cur'[c]}]

AdjustGpt ==
  \/ PlanGpt \/ WriteBackupEntries \/ WriteBackupHeader \/ SyncBackup
  \/ WritePrimaryEntries \/ WritePrimaryHeader \/ WriteProtectiveMbr \/ SyncPrimary
  \/ Validate
AdjustMbr == PlanMbr \/ WriteMbr \/ SyncMbr

Next == Start \/ AdjustGpt \/ AdjustMbr \/ Kill \/ PowerLoss
Spec == Init /\ [][Next]_vars

-----------------------------------------------------------------------------
(* Type invariant.                                                         *)
TypeOK ==
  /\ source \in Tables /\ plan \in Tables /\ last \in TargetLasts
  /\ pc \in {"idle", "plan", "be", "bh", "syncBackup", "pe", "ph", "mbr", "syncPrimary",
             "validate", "mbrParts", "syncMbr"}
  /\ \A c \in Cells : cur[c] \in pend[c]
  /\ lied \in BOOLEAN /\ result \in {"none", "ok", "noTable", "refused", "failed"}
  /\ runs \in 0 .. MaxRuns /\ crashes \in 0 .. MaxCrashes

(* What a reader of the disk makes of a header and the entries it names: a *)
(* table that still has every partition of the source that holds data.     *)
Describes(t) == \A s \in Slots : source[s].kind = "basic" => t[s] = source[s]
GoodCopy(h, e, at) ==
  h.kind = "header" /\ h.sound /\ h.at = at /\ e = Table(h.crc) /\ Describes(h.crc)

LayoutSafe ==
  \/ \A h \in pend["ph"], e \in pend["pe"] : GoodCopy(h, e, 1)
  \/ \A h \in pend["bh"], e \in pend["be"] : GoodCopy(h, e, last)
  \/ \A m \in pend["mbr"] : m.kind = "parts" /\ Describes(m.parts)

(* The comment at clone.go:866: whenever the adjustment is interrupted one *)
(* table can still be read.  A layout that every crash leaves readable     *)
(* stays so through every write, failure and repetition, as long as the    *)
(* disk stores what it is given.                                           *)
LayoutNeverLost == [][LayoutSafe /\ ~lied' => LayoutSafe']_vars

(* A GPT reported as adapted is, durably, in both of its copies, and each  *)
(* names the other - even if the disk stored other bytes than it was given.*)
AdjustedConsistent ==
  result = "ok" /\ HasHeader =>
    /\ WrittenGpt
    /\ \A c \in Cells \ {"mbr"} : pend[c] = {cur[c]}

(* The table written fits the destination, its partitions do not overlap   *)
(* - comparing neighbours finds every overlap - and none with data is lost.*)
DestinationFits ==
  result = "ok" =>
    /\ Describes(plan)
    /\ \A s \in Used(plan) : plan[s].last <= IF HasHeader THEN LastUsable ELSE last
    /\ \A i, j \in Used(plan) : i # j =>
         plan[i].last < plan[j].first \/ plan[j].last < plan[i].first

(* An adjustment cut short can be repeated, unless it had to drop an entry:*)
(* then header and entries may disagree and the table is refused for good. *)
RepeatableUnlessDropping ==
  result = "refused" /\ HasHeader /\ ~lied =>
    \/ ~cur["ph"].sound \/ cur["pe"] = Other \/ cur["mbr"].kind = "full"
    \/ ~Acceptable(source, FirstUsable, LastUsable)
    \/ Kept(source, LastUsable) # Used(source)
=============================================================================
