--------------------------- MODULE GptAdjustProofs ---------------------------
(***************************************************************************)
(* What the adjustment of the partition table promises, for every table,   *)
(* size of source and destination, number of runs, failure and crash: one  *)
(* copy of the layout can always be read, and a table reported as adapted  *)
(* is whole, in both copies, and fits.                                     *)
(***************************************************************************)
EXTENDS Partitions, TLAPS, WellFoundedInduction

(* What every table of the adjustment is: the source's, or this one.       *)
New == Planned(source, LastUsable)
OldHeader(s) ==
  [kind |-> "header", sound |-> s, at |-> 1, alt |-> SourceLast, crc |-> source]
NewHeader == Header(1, last, New)

GptPhases == {"be", "bh", "syncBackup", "pe", "ph", "mbr", "syncPrimary", "validate"}
MbrPhases == {"mbrParts", "syncMbr"}
AfterBackup == {"pe", "ph", "mbr", "syncPrimary", "validate"}

(* A table with every partition that holds data, each in the disk, apart.  *)
Fits(t, end) ==
  /\ Describes(t)
  /\ \A s \in Used(t) : t[s].first <= t[s].last /\ t[s].last <= end
  /\ \A i, j \in Used(t) : i # j => t[i].last < t[j].first \/ t[j].last < t[i].first

ReadIsPending ==
  /\ cur = [c \in Cells |-> cur[c]] /\ pend = [c \in Cells |-> pend[c]]
  /\ \A c \in Cells : cur[c] \in pend[c]

HeaderKnown(h) ==
  \/ h \in {OldHeader(TRUE), OldHeader(FALSE), Other, Mixed}
  \/ h = NewHeader /\ Describes(New)
EntriesKnown(e) == e \in {Table(source), Mixed} \/ (e = Table(New) /\ Describes(New))
MbrKnown(m) ==
  \/ m \in {Mixed, Protective(last)}
  \/ \E t \in Tables : m = Mbr("parts", t) /\ Describes(t)
  \/ \E k \in {"protective", "free", "full", "nosig"} : m = Mbr(k, NoParts)

ContentsKnown ==
  /\ \A h \in pend["ph"] : HeaderKnown(h)
  /\ pend["pe"] = {Other} \/ \A e \in pend["pe"] : EntriesKnown(e)
  /\ \A m \in pend["mbr"] : MbrKnown(m)

PlanKnown ==
  /\ pc \in GptPhases =>
       /\ plan = New /\ Fits(New, LastUsable) /\ pend["pe"] # {Other}
  /\ pc \in MbrPhases => ~HasHeader /\ Fits(plan, last)

OldPrimary == pend["ph"] = {OldHeader(TRUE)} /\ pend["pe"] = {Table(source)}
Untouched ==
  /\ \E h \in {OldHeader(TRUE), OldHeader(FALSE), Other} : pend["ph"] = {h}
  /\ \E e \in {Table(source), Other} : pend["pe"] = {e}
NewBackup == pend["be"] = {Table(New)} /\ pend["bh"] = {Header(last, 1, New)}

BackupFirst ==
  ~lied =>
    /\ Untouched \/ NewBackup
    /\ pc \in {"be", "bh", "syncBackup"} => OldPrimary \/ NewBackup
    /\ pc \in {"bh", "syncBackup"} => cur["be"] = Table(New)
    /\ pc = "syncBackup" => cur["bh"] = Header(last, 1, New)
    /\ pc \in AfterBackup => NewBackup
    /\ New = source => pend["pe"] \in {{Other}, {Table(source)}}

MbrWritten ==
  ~lied =>
    /\ pc \in {"syncPrimary", "validate"} => cur["mbr"] = Protective(last)
    /\ pc = "syncMbr" => cur["mbr"] = Mbr("parts", plan)

Durable == \A c \in Cells : pend[c] = {cur[c]}

ResultKnown ==
  /\ result # "none" => pc = "idle"
  /\ pc = "validate" => Durable
  /\ result = "ok" =>
       \/ /\ HasHeader /\ WrittenGpt /\ Durable /\ Fits(plan, LastUsable)
          /\ ~lied => cur["mbr"] = Protective(last)
       \/ /\ ~HasHeader /\ Fits(plan, last)
          /\ ~lied => cur["mbr"] = Mbr("parts", plan)

AdjustInv ==
  /\ TypeOK /\ ReadIsPending /\ ContentsKnown /\ PlanKnown
  /\ BackupFirst /\ MbrWritten /\ ResultKnown

-----------------------------------------------------------------------------
(* Tables and plans.                                                       *)

(* What the kinds of contents say.                                         *)
LEMMA OtherKinds ==
  /\ Other.kind = "other" /\ Mixed.kind = "mixed"
  /\ \A size : Protective(size).kind = "protective"
  /\ OldHeader(TRUE).sound /\ ~OldHeader(FALSE).sound
BY DEF Other, Mixed, Protective, OldHeader

(* A plan is the table without what lies beyond the end.                   *)
LEMMA PlannedTable ==
  ASSUME NEW t \in Tables, NEW end
  PROVE  /\ Planned(t, end) \in Tables
         /\ Used(Planned(t, end)) = Kept(t, end)
         /\ \A s \in Kept(t, end) : Planned(t, end)[s] = t[s]
BY DEF Planned, Tables, Used, Kept

(* Planning a plan changes nothing.                                        *)
LEMMA PlannedTwice ==
  ASSUME NEW t \in Tables, NEW end
  PROVE  Planned(Planned(t, end), end) = Planned(t, end)
BY DEF Planned, Tables, Used, Kept

(* A non-empty set of naturals has a least element.                        *)
LEMMA LeastOf ==
  ASSUME NEW T, T \subseteq Nat, T # {}
  PROVE  \E x \in T : \A y \in T : x <= y
<1>1. PICK x \in T : \A y \in T : ~(<<y, x>> \in OpToRel(<, Nat))
  BY NatLessThanWellFounded, WFMin
<1>2. \A y \in T : ~(y < x)
  BY <1>1 DEF OpToRel
<1> QED
  BY <1>2

(* Comparing neighbours finds every overlap.                               *)
LEMMA NeighboursSuffice ==
  ASSUME NEW t, NEW K, \A s \in K : t[s].first \in Nat /\ t[s].last \in Nat,
         ~Overlaps(t, K), NEW i \in K, NEW j \in K, i # j, t[i].first <= t[j].first
  PROVE  t[i].last < t[j].first
<1> DEFINE T == {t[k].first : k \in {l \in K \ {i} : t[i].first <= t[l].first}}
<1>1. PICK x \in T : \A y \in T : x <= y
  BY LeastOf
<1>2. PICK k \in K \ {i} : t[i].first <= t[k].first /\ x = t[k].first
  BY <1>1
<1>3. \A l \in K \ {i} : t[i].first <= t[l].first => t[k].first <= t[l].first
  BY <1>1, <1>2
<1>4. Neighbours(t, K, i, k)
  BY <1>2, <1>3 DEF Neighbours
<1>5. t[i].last < t[k].first
  BY <1>2, <1>4 DEF Overlaps
<1> QED
  BY <1>2, <1>3, <1>5

(* The plan of a table that is accepted fits the destination.              *)
LEMMA PlanFits ==
  ASSUME NEW t \in Tables, Describes(t), source \in Tables, NEW low \in Nat, NEW end \in Int,
         Acceptable(t, low, end)
  PROVE  Fits(Planned(t, end), end)
<1> DEFINE p == Planned(t, end)
           K == Kept(t, end)
<1>1. Used(p) = K /\ \A s \in K : p[s] = t[s]
  BY PlannedTable
<1>2. \A s \in K : /\ t[s].first \in Nat /\ t[s].last \in Nat
                   /\ t[s].first <= t[s].last /\ t[s].last <= end
  BY AdjustAssumption DEF Kept, Used, Tables, Acceptable
<1>3. Describes(p)
  <2> SUFFICES ASSUME NEW s \in Slots, source[s].kind = "basic"
               PROVE  p[s] = source[s]
    BY DEF Describes
  <2>1. t[s] = source[s]
    BY DEF Describes
  <2>2. s \in Used(t)
    BY <2>1 DEF Used, Empty
  <2>3. s \in K
    BY <2>1, <2>2 DEF Acceptable
  <2> QED
    BY <1>1, <2>1, <2>3
<1>4. ASSUME NEW i \in K, NEW j \in K, i # j
      PROVE  t[i].last < t[j].first \/ t[j].last < t[i].first
  <2>1. CASE t[i].first <= t[j].first
    BY <1>2, <1>4, <2>1, NeighboursSuffice DEF Acceptable
  <2>2. CASE t[j].first <= t[i].first
    BY <1>2, <1>4, <2>2, NeighboursSuffice DEF Acceptable
  <2> QED
    BY <1>2, <2>1, <2>2
<1> QED
  BY <1>1, <1>2, <1>3, <1>4 DEF Fits

-----------------------------------------------------------------------------
(* What no step of an adjustment changes: the source and the size.         *)

(* What is said of tables stays true as long as these two stay.            *)
LEMMA SameSource ==
  ASSUME UNCHANGED <<source, last>>
  PROVE  /\ New' = New /\ LastUsable' = LastUsable
         /\ \A t : Describes(t)' = Describes(t)
         /\ \A t, end : Fits(t, end)' = Fits(t, end)
         /\ \A h : HeaderKnown(h)' = HeaderKnown(h)
         /\ \A e : EntriesKnown(e)' = EntriesKnown(e)
         /\ \A m : MbrKnown(m)' = MbrKnown(m)
<1>1. New' = New /\ LastUsable' = LastUsable
  BY DEF New, LastUsable, Planned, Kept, Used
<1>2. ASSUME NEW t
      PROVE  Describes(t)' = Describes(t)
  BY DEF Describes
<1>3. ASSUME NEW t, NEW end
      PROVE  Fits(t, end)' = Fits(t, end)
  BY <1>2 DEF Fits
<1>4. ASSUME NEW h
      PROVE  HeaderKnown(h)' = HeaderKnown(h)
  BY <1>1, <1>2 DEF HeaderKnown, NewHeader, OldHeader
<1>5. ASSUME NEW e
      PROVE  EntriesKnown(e)' = EntriesKnown(e)
  BY <1>1, <1>2 DEF EntriesKnown
<1>6. ASSUME NEW m
      PROVE  MbrKnown(m)' = MbrKnown(m)
  BY <1>2 DEF MbrKnown, Protective, Mbr, NoParts
<1> QED
  BY <1>1, <1>2, <1>3, <1>4, <1>5, <1>6

LEMMA SourceStays == [Next]_vars => UNCHANGED <<source, last>>
BY DEF Next, vars, Start, AdjustGpt, AdjustMbr, PlanGpt, PlanMbr, WriteBackupEntries,
       WriteBackupHeader, SyncBackup, WritePrimaryEntries, WritePrimaryHeader,
       WriteProtectiveMbr, SyncPrimary, Validate, WriteMbr, SyncMbr, Write, Sync,
       Kill, PowerLoss, Crash

-----------------------------------------------------------------------------
(* What a write and a sync leave.                                          *)

(* A cell that is written holds, then and after a power loss, the old      *)
(* contents, the new ones or a mixture; if the disk stores what it is given*)
(* a write that succeeds leaves the new ones, and one that writes what is  *)
(* already there changes nothing.                                          *)
LEMMA WriteLeaves ==
  ASSUME ReadIsPending, NEW cell \in Cells, NEW c, NEW next, Write(cell, c, next)
  PROVE  /\ ReadIsPending'
         /\ \A d \in Cells \ {cell} : cur'[d] = cur[d] /\ pend'[d] = pend[d]
         /\ pend'[cell] \subseteq pend[cell] \cup {c, Mixed}
         /\ c \in pend'[cell]
         /\ ~lied' => ~lied
         /\ lied \in BOOLEAN => lied' \in BOOLEAN
         /\ ~lied' /\ (cell \notin {"pe", "be"} \/ pend[cell] = {c}) =>
              pend'[cell] \subseteq pend[cell] \cup {c}
         /\ \/ pc' = "idle" /\ result' = "failed"
            \/ pc' = next /\ result' = result /\ (~lied' => cur'[cell] = c)
         /\ UNCHANGED <<last, source, plan, runs, crashes>>
<1> USE DEF Write
<1>1. PICK x \in AfterWrite(cell, c) \cup (IF May("corrupt") THEN {Mixed} ELSE {}) :
        /\ cur' = [cur EXCEPT ![cell] = x]
        /\ pend' = [pend EXCEPT ![cell] = AfterWrite(cell, c) \cup {x}]
        /\ \/ /\ x = c \/ (May("corrupt") /\ x = Mixed)
              /\ lied' = (lied \/ x # c)
              /\ pc' = next /\ UNCHANGED result
           \/ /\ May("write") /\ x \in AfterWrite(cell, c)
              /\ Return("failed") /\ UNCHANGED lied
  OBVIOUS
<1>2. /\ AfterWrite(cell, c) \subseteq pend[cell] \cup {c, Mixed}
      /\ c \in AfterWrite(cell, c)
      /\ cell \notin {"pe", "be"} \/ pend[cell] = {c} =>
           AfterWrite(cell, c) \subseteq pend[cell] \cup {c}
  BY DEF AfterWrite
<1>3. /\ cur'[cell] = x /\ pend'[cell] = AfterWrite(cell, c) \cup {x}
      /\ \A d \in Cells \ {cell} : cur'[d] = cur[d] /\ pend'[d] = pend[d]
  BY <1>1 DEF ReadIsPending
<1>4. ReadIsPending'
  <2>1. cur' = [d \in Cells |-> cur'[d]] /\ pend' = [d \in Cells |-> pend'[d]]
    BY <1>1 DEF ReadIsPending
  <2> QED
    BY <1>3, <2>1 DEF ReadIsPending
<1>5. /\ ~lied' => ~lied /\ x \in AfterWrite(cell, c)
      /\ \/ pc' = "idle" /\ result' = "failed"
         \/ pc' = next /\ result' = result /\ (~lied' => x = c)
  <2>1. CASE /\ x = c \/ (May("corrupt") /\ x = Mixed)
             /\ lied' = (lied \/ x # c)
             /\ pc' = next /\ UNCHANGED result
    <3>1. ~lied' => ~lied /\ x = c
      BY <2>1, Zenon
    <3> QED
      BY <2>1, <3>1, <1>2
  <2>2. CASE /\ May("write") /\ x \in AfterWrite(cell, c)
             /\ Return("failed") /\ UNCHANGED lied
    BY <2>2 DEF Return
  <2> QED
    BY <1>1, <2>1, <2>2
<1>6. lied \in BOOLEAN => lied' \in BOOLEAN
  BY <1>1
<1> QED
  BY <1>2, <1>3, <1>4, <1>5, <1>6

(* A sync, and a power loss, choose one of the possible contents.          *)
Settled == \A c \in Cells : pend'[c] = {cur'[c]} /\ cur'[c] \in pend[c]

LEMMA SyncLeaves ==
  ASSUME ReadIsPending, NEW next, Sync(next)
  PROVE  /\ ReadIsPending'
         /\ UNCHANGED <<cur, lied, last, source, plan, runs, crashes>>
         /\ \/ pc' = "idle" /\ result' = "failed" /\ UNCHANGED pend
            \/ pc' = next /\ result' = result /\ Settled
<1>1. UNCHANGED <<cur, lied, last, source, plan, runs, crashes>>
  BY DEF Sync
<1>2. CASE /\ pend' = [c \in Cells |-> {cur[c]}]
           /\ pc' = next /\ UNCHANGED result
  BY <1>1, <1>2 DEF ReadIsPending, Settled
<1>3. CASE May("sync") /\ Return("failed") /\ UNCHANGED pend
  BY <1>1, <1>3 DEF ReadIsPending, Return
<1> QED
  BY <1>1, <1>2, <1>3 DEF Sync

LEMMA PowerLossLeaves ==
  ASSUME ReadIsPending, PowerLoss
  PROVE  /\ ReadIsPending' /\ Settled
         /\ pc' = "idle" /\ result' = "none" /\ pc # "idle"
         /\ crashes < MaxCrashes /\ crashes' = crashes + 1
         /\ UNCHANGED <<lied, last, source, plan, runs>>
<1> DEFINE unsynced == {c \in Cells : pend[c] # {cur[c]}}
<1>1. PICK left \in [unsynced -> UNION {pend[c] : c \in unsynced}] :
        /\ \A c \in unsynced : left[c] \in pend[c]
        /\ cur' = [c \in Cells |-> IF c \in unsynced THEN left[c] ELSE cur[c]]
  BY DEF PowerLoss
<1>2. pend' = [c \in Cells |-> {cur'[c]}]
  BY DEF PowerLoss
<1>3. Settled
  BY <1>1, <1>2 DEF Settled, ReadIsPending
<1>4. ReadIsPending'
  BY <1>1, <1>2 DEF ReadIsPending
<1> QED
  BY <1>3, <1>4 DEF PowerLoss, Crash

(* A kill leaves the disk alone or a table half written.                   *)
LEMMA KillLeaves ==
  ASSUME ReadIsPending, Kill
  PROVE  /\ ReadIsPending'
         /\ \/ UNCHANGED <<cur, pend>>
            \/ \E cell \in {"pe", "be"} \cap {pc} :
                 /\ \A d \in Cells \ {cell} : cur'[d] = cur[d] /\ pend'[d] = pend[d]
                 /\ pend'[cell] \subseteq pend[cell] \cup {Table(plan), Mixed}
                 /\ pend[cell] = {Table(plan)} => pend'[cell] = {Table(plan)}
                 /\ Table(plan) \in pend'[cell]
         /\ pc' = "idle" /\ result' = "none" /\ pc # "idle"
         /\ crashes < MaxCrashes /\ crashes' = crashes + 1
         /\ UNCHANGED <<lied, last, source, plan, runs>>
<1>1. /\ pc' = "idle" /\ result' = "none" /\ pc # "idle"
      /\ crashes < MaxCrashes /\ crashes' = crashes + 1
      /\ UNCHANGED <<lied, last, source, plan, runs>>
  BY DEF Kill, Crash
<1>2. CASE UNCHANGED <<cur, pend>>
  BY <1>1, <1>2 DEF ReadIsPending
<1>3. ASSUME NEW cell \in {"pe", "be"} \cap {pc},
             pend' = [pend EXCEPT ![cell] = AfterWrite(cell, Table(plan))],
             NEW x \in AfterWrite(cell, Table(plan)), cur' = [cur EXCEPT ![cell] = x]
      PROVE  /\ ReadIsPending'
             /\ \A d \in Cells \ {cell} : cur'[d] = cur[d] /\ pend'[d] = pend[d]
             /\ pend'[cell] \subseteq pend[cell] \cup {Table(plan), Mixed}
             /\ pend[cell] = {Table(plan)} => pend'[cell] = {Table(plan)}
             /\ Table(plan) \in pend'[cell]
  <2>1. cell \in Cells
    BY DEF Cells
  <2>2. /\ cur'[cell] = x /\ pend'[cell] = AfterWrite(cell, Table(plan))
        /\ \A d \in Cells \ {cell} : cur'[d] = cur[d] /\ pend'[d] = pend[d]
    BY <1>3, <2>1 DEF ReadIsPending
  <2>3. cur' = [d \in Cells |-> cur'[d]] /\ pend' = [d \in Cells |-> pend'[d]]
    BY <1>3, <2>1 DEF ReadIsPending
  <2>4. ReadIsPending'
    BY <2>2, <2>3 DEF ReadIsPending
  <2> QED
    BY <2>2, <2>4 DEF AfterWrite
<1> QED
  BY <1>1, <1>2, <1>3 DEF Kill

-----------------------------------------------------------------------------
(* The invariant holds initially.                                          *)

LEMMA InitAdjust == Init => AdjustInv
<1> SUFFICES ASSUME Init
             PROVE  AdjustInv
  OBVIOUS
<1>1. PICK k \in {"parts", "protective", "free", "full", "nosig"},
           damage \in {"none", "header", "entries"} : cur = Copied(source, last, k, damage)
  BY DEF Init
<1>2. pend = [c \in Cells |-> {cur[c]}]
  BY DEF Init
<1>3. /\ cur["mbr"] = Mbr(k, IF k # "parts" THEN NoParts ELSE source)
      /\ cur["ph"] \in {OldHeader(TRUE), OldHeader(FALSE), Other}
      /\ cur["pe"] \in {Table(source), Other}
      /\ cur = [c \in Cells |-> cur[c]]
  <2>1. cur["mbr"] = Mbr(k, IF k # "parts" THEN NoParts ELSE source)
    BY <1>1 DEF Copied, Cells
  <2>2. cur["ph"] = IF k # "parts" THEN OldHeader(damage # "header") ELSE Other
    BY <1>1 DEF Copied, Cells, OldHeader
  <2>3. cur["ph"] \in {OldHeader(TRUE), OldHeader(FALSE), Other}
    <3>1. CASE damage = "header"
      BY <2>2, <3>1 DEF OldHeader
    <3>2. CASE damage # "header"
      BY <2>2, <3>2 DEF OldHeader
    <3> QED
      BY <3>1, <3>2
  <2>4. cur["pe"] \in {Table(source), Other}
    BY <1>1 DEF Copied, Cells
  <2>5. cur = [c \in Cells |-> cur[c]]
    BY <1>1 DEF Copied
  <2> QED
    BY <2>1, <2>3, <2>4, <2>5
<1>4. ReadIsPending
  BY <1>2, <1>3 DEF ReadIsPending
<1>5. TypeOK
  <2>1. NoParts \in Tables
    BY DEF NoParts, Tables
  <2>2. runs \in 0 .. MaxRuns /\ crashes \in 0 .. MaxCrashes
    BY AdjustAssumption DEF Init
  <2> QED
    BY <1>4, <2>1, <2>2 DEF TypeOK, Init, ReadIsPending
<1>6. ContentsKnown
  <2>1. pend["ph"] = {cur["ph"]} /\ pend["pe"] = {cur["pe"]} /\ pend["mbr"] = {cur["mbr"]}
    BY <1>2 DEF Cells
  <2>2. Describes(source) /\ source \in Tables
    BY DEF Describes, Init
  <2>3. MbrKnown(cur["mbr"])
    BY <1>3, <2>2 DEF MbrKnown
  <2> QED
    BY <1>3, <2>1, <2>3 DEF ContentsKnown, HeaderKnown, EntriesKnown
<1>7. BackupFirst
  <2>1. pend["ph"] = {cur["ph"]} /\ pend["pe"] = {cur["pe"]}
    BY <1>2 DEF Cells
  <2> QED
    BY <1>3, <2>1 DEF BackupFirst, Untouched, Init, AfterBackup
<1>8. PlanKnown /\ MbrWritten /\ ResultKnown
  BY DEF PlanKnown, MbrWritten, ResultKnown, Init, GptPhases, MbrPhases
<1> QED
  BY <1>4, <1>5, <1>6, <1>7, <1>8 DEF AdjustInv

-----------------------------------------------------------------------------
(* The invariant and the steps that write nothing.                         *)

(* What the parts of the invariant need when the disk stays as it is.      *)
LEMMA DiskStays ==
  ASSUME AdjustInv, UNCHANGED <<cur, pend, lied, last, source>>
  PROVE  /\ ReadIsPending' /\ ContentsKnown'
         /\ HasHeader' = HasHeader /\ (Durable => Durable')
         /\ (Untouched => Untouched') /\ (NewBackup => NewBackup')
         /\ (OldPrimary => OldPrimary')
         /\ New' = New /\ LastUsable' = LastUsable
         /\ \A t, end : Fits(t, end)' = Fits(t, end)
<1>1. /\ New' = New /\ LastUsable' = LastUsable
      /\ \A t, end : Fits(t, end)' = Fits(t, end)
      /\ \A h : HeaderKnown(h)' = HeaderKnown(h)
      /\ \A e : EntriesKnown(e)' = EntriesKnown(e)
      /\ \A m : MbrKnown(m)' = MbrKnown(m)
  BY SameSource
<1>2. ReadIsPending'
  BY DEF AdjustInv, ReadIsPending
<1>3. ContentsKnown'
  BY <1>1 DEF AdjustInv, ContentsKnown
<1>4. HasHeader' = HasHeader /\ (Durable => Durable')
  BY DEF HasHeader, Durable
<1>5. /\ Untouched => Untouched'
      /\ NewBackup => NewBackup'
      /\ OldPrimary => OldPrimary'
  BY <1>1 DEF Untouched, NewBackup, OldPrimary, OldHeader
<1> QED
  BY <1>1, <1>2, <1>3, <1>4, <1>5

LEMMA StartStep ==
  ASSUME AdjustInv, Start
  PROVE  AdjustInv'
<1>1. /\ pc' = "plan" /\ result' = "none" /\ runs' = runs + 1 /\ runs < MaxRuns
      /\ UNCHANGED <<cur, pend, lied, last, source, plan, crashes>>
  BY DEF Start
<1> USE DiskStays
<1>2. TypeOK'
  BY <1>1, AdjustAssumption DEF AdjustInv, TypeOK, ReadIsPending
<1>3. PlanKnown' /\ MbrWritten' /\ ResultKnown'
  BY <1>1 DEF PlanKnown, MbrWritten, ResultKnown, GptPhases, MbrPhases
<1>4. BackupFirst'
  BY <1>1 DEF AdjustInv, BackupFirst, AfterBackup
<1> QED
  BY <1>1, <1>2, <1>3, <1>4 DEF AdjustInv

LEMMA PlanGptStep ==
  ASSUME AdjustInv, PlanGpt
  PROVE  AdjustInv'
<1>1. pc = "plan" /\ UNCHANGED <<cur, pend, lied, last, source, runs, crashes>>
  BY DEF PlanGpt
<1>2. CASE /\ pc' = "idle" /\ result' \in {"noTable", "refused"} /\ plan' = plan
  <2>1. TypeOK'
    BY <1>1, <1>2, DiskStays DEF AdjustInv, TypeOK, ReadIsPending
  <2>2. PlanKnown' /\ MbrWritten' /\ ResultKnown'
    BY <1>2 DEF PlanKnown, MbrWritten, ResultKnown, GptPhases, MbrPhases
  <2>3. BackupFirst'
    BY <1>1, <1>2, DiskStays DEF AdjustInv, BackupFirst, AfterBackup
  <2> QED
    BY <1>1, <2>1, <2>2, <2>3, DiskStays DEF AdjustInv
<1>3. CASE /\ HasHeader /\ GptAccepted
           /\ plan' = Planned(GptTable, LastUsable)
           /\ pc' = "be" /\ UNCHANGED result
  <2> DEFINE t == GptTable
  <2>1. cur["ph"] \in pend["ph"] /\ cur["pe"] \in pend["pe"]
    BY DEF AdjustInv, ReadIsPending, Cells
  <2>2. t = cur["ph"].crc /\ cur["pe"] = Table(t) /\ cur["ph"].kind = "header"
    BY <1>3 DEF GptAccepted, GptTable, Table, HasHeader
  <2>3. cur["ph"] \in {OldHeader(TRUE), OldHeader(FALSE)} \/ (cur["ph"] = NewHeader /\ Describes(New))
    <3>1. HeaderKnown(cur["ph"])
      BY <2>1 DEF AdjustInv, ContentsKnown
    <3>2. cur["ph"] # Other /\ cur["ph"] # Mixed
      BY <2>2, OtherKinds
    <3> QED
      BY <3>1, <3>2 DEF HeaderKnown
  <2>4. t = source \/ (t = New /\ Describes(New))
    BY <2>2, <2>3 DEF OldHeader, NewHeader, Header
  <2>5. source \in Tables /\ New \in Tables
    BY PlannedTable DEF AdjustInv, TypeOK, New
  <2>6. t \in Tables /\ Describes(t)
    BY <2>4, <2>5 DEF Describes
  <2>7. plan' = New
    BY <1>3, <2>4, <2>5, PlannedTwice DEF New
  <2>8. Fits(New, LastUsable)
    <3>1. FirstUsable \in Nat /\ LastUsable \in Int
      BY AdjustAssumption DEF FirstUsable, LastUsable, AdjustInv, TypeOK
    <3>2. Acceptable(t, FirstUsable, LastUsable)
      BY <1>3 DEF GptAccepted
    <3> QED
      BY <1>3, <2>5, <2>6, <2>7, <3>1, <3>2, PlanFits
  <2>9. pend["pe"] # {Other}
    BY <2>1, <2>2 DEF Table, Other
  <2>10. TypeOK'
    BY <1>1, <1>3, <2>5, <2>7, DiskStays DEF AdjustInv, TypeOK, ReadIsPending
  <2>11. PlanKnown'
    BY <1>1, <1>3, <2>7, <2>8, <2>9, DiskStays DEF PlanKnown, MbrPhases
  <2>12. MbrWritten' /\ ResultKnown'
    BY <1>1, <1>3 DEF MbrWritten, ResultKnown, AdjustInv
  <2>13. BackupFirst'
    <3>1. ASSUME ~lied
          PROVE  OldPrimary \/ NewBackup
      <4>1. CASE Untouched
        <5>1. pend["ph"] = {cur["ph"]} /\ pend["pe"] = {cur["pe"]}
          BY <2>1, <4>1 DEF Untouched
        <5>2. cur["ph"] \in {OldHeader(TRUE), OldHeader(FALSE)}
          BY <2>1, <2>2, <4>1, OtherKinds DEF Untouched
        <5>3. cur["ph"] = OldHeader(TRUE)
          BY <1>3, <5>2, OtherKinds DEF GptAccepted
        <5>4. cur["pe"] = Table(source)
          BY <2>2, <5>3 DEF OldHeader
        <5> QED
          BY <5>1, <5>3, <5>4 DEF OldPrimary
      <4> QED
        BY <3>1, <4>1 DEF AdjustInv, BackupFirst
    <3> QED
      BY <1>1, <1>3, <3>1, DiskStays DEF AdjustInv, BackupFirst, AfterBackup
  <2> QED
    BY <1>1, <2>10, <2>11, <2>12, <2>13, DiskStays DEF AdjustInv
<1> QED
  BY <1>2, <1>3 DEF PlanGpt, Return

LEMMA PlanMbrStep ==
  ASSUME AdjustInv, PlanMbr
  PROVE  AdjustInv'
<1> DEFINE t == cur["mbr"].parts
<1>1. /\ pc = "plan" /\ ~HasHeader
      /\ UNCHANGED <<cur, pend, lied, last, source, runs, crashes>>
  BY DEF PlanMbr, UsesGpt
<1>2. BackupFirst' /\ MbrWritten' /\ ReadIsPending' /\ ContentsKnown'
  <2>1. pc' \in {"idle", "mbrParts"}
    BY DEF PlanMbr, Return
  <2> QED
    BY <1>1, <2>1, DiskStays DEF AdjustInv, BackupFirst, MbrWritten, AfterBackup
<1>3. CASE /\ pc' = "idle" /\ result' \in {"noTable", "refused"} /\ plan' = plan
  <2>1. TypeOK'
    BY <1>1, <1>3, DiskStays DEF AdjustInv, TypeOK, ReadIsPending
  <2>2. PlanKnown' /\ ResultKnown'
    BY <1>3 DEF PlanKnown, ResultKnown, GptPhases, MbrPhases
  <2> QED
    BY <1>2, <2>1, <2>2 DEF AdjustInv
<1>4. CASE /\ UsesMbr /\ Acceptable(t, 1, last)
           /\ plan' = Planned(t, last)
           /\ IF plan' = t THEN Return("noTable") ELSE pc' = "mbrParts" /\ UNCHANGED result
  <2>1. MbrKnown(cur["mbr"])
    BY DEF AdjustInv, ContentsKnown, ReadIsPending, Cells
  <2>2. \/ t \in Tables /\ Describes(t)
        \/ t = NoParts
    <3>1. cur["mbr"] # Mixed /\ cur["mbr"] # Protective(last)
      BY <1>4, OtherKinds DEF UsesMbr
    <3>2. ASSUME NEW u \in Tables, cur["mbr"] = Mbr("parts", u), Describes(u)
          PROVE  t \in Tables /\ Describes(t)
      <4>1. t = u
        BY <3>2 DEF Mbr
      <4> QED
        BY <3>2, <4>1
    <3>3. ASSUME NEW k, cur["mbr"] = Mbr(k, NoParts)
          PROVE  t = NoParts
      BY <3>3 DEF Mbr
    <3> QED
      BY <2>1, <3>1, <3>2, <3>3 DEF MbrKnown
  <2>3. NoParts \in Tables /\ Planned(NoParts, last) = NoParts
    BY DEF NoParts, Tables, Planned, Kept, Used
  <2>4. plan' \in Tables
    BY <1>4, <2>2, <2>3, PlannedTable
  <2>5. TypeOK'
    BY <1>1, <1>4, <2>4, DiskStays DEF AdjustInv, TypeOK, ReadIsPending, Return
  <2>6. CASE plan' = t
    <3>1. PlanKnown' /\ ResultKnown'
      BY <1>4, <2>6 DEF PlanKnown, ResultKnown, GptPhases, MbrPhases, Return
    <3> QED
      BY <1>2, <2>5, <3>1 DEF AdjustInv
  <2>7. CASE plan' # t
    <3>1. t \in Tables /\ Describes(t)
      BY <1>4, <2>2, <2>3, <2>7
    <3>2. Fits(plan', last)
      BY <1>4, <3>1, PlanFits, AdjustAssumption DEF AdjustInv, TypeOK
    <3>3. pc' = "mbrParts" /\ result' = result /\ result = "none"
      BY <1>1, <1>4, <2>7 DEF AdjustInv, ResultKnown
    <3>4. PlanKnown' /\ ResultKnown'
      BY <1>1, <3>2, <3>3, DiskStays DEF PlanKnown, ResultKnown, GptPhases
    <3> QED
      BY <1>2, <2>5, <3>4 DEF AdjustInv
  <2> QED
    BY <2>6, <2>7
<1> QED
  BY <1>3, <1>4 DEF PlanMbr, Return

LEMMA ValidateStep ==
  ASSUME AdjustInv, Validate
  PROVE  AdjustInv'
<1>1. /\ pc = "validate" /\ pc' = "idle" /\ result' \in {"ok", "failed"}
      /\ result' = "ok" => WrittenGpt
      /\ UNCHANGED <<cur, pend, lied, last, source, plan, runs, crashes>>
  BY DEF Validate, Return
<1>2. TypeOK'
  BY <1>1, DiskStays DEF AdjustInv, TypeOK, ReadIsPending
<1>3. PlanKnown' /\ MbrWritten'
  BY <1>1 DEF PlanKnown, MbrWritten, GptPhases, MbrPhases
<1>4. BackupFirst'
  BY <1>1, DiskStays DEF AdjustInv, BackupFirst, AfterBackup
<1>5. ResultKnown'
  <2>1. plan = New /\ Fits(New, LastUsable) /\ Durable /\ (~lied => cur["mbr"] = Protective(last))
    BY <1>1 DEF AdjustInv, PlanKnown, GptPhases, ResultKnown, MbrWritten
  <2>2. ASSUME result' = "ok"
        PROVE  HasHeader /\ WrittenGpt /\ WrittenGpt'
    BY <1>1, <2>2 DEF WrittenGpt, Copy, Header, HasHeader
  <2>3. Fits(plan, LastUsable)' /\ Durable' /\ HasHeader' = HasHeader
    BY <1>1, <2>1, DiskStays
  <2> QED
    BY <1>1, <2>1, <2>2, <2>3 DEF ResultKnown, Protective
<1> QED
  BY <1>1, <1>2, <1>3, <1>4, <1>5, DiskStays DEF AdjustInv

-----------------------------------------------------------------------------
(* The invariant and the writes.                                           *)

(* What a write of something known does to the parts of the invariant that *)
(* do not say how far the adjustment is.                                   *)
LEMMA WriteKeeps ==
  ASSUME AdjustInv, NEW cell \in Cells, NEW c, NEW next, Write(cell, c, next),
         cell = "ph" => HeaderKnown(c),
         cell = "pe" => EntriesKnown(c) /\ pend["pe"] # {Other},
         cell = "mbr" => MbrKnown(c)
  PROVE  /\ ReadIsPending' /\ ContentsKnown'
         /\ pend["pe"] # {Other} => pend'["pe"] # {Other}
         /\ New' = New /\ LastUsable' = LastUsable
         /\ \A t, end : Fits(t, end)' = Fits(t, end)
<1>1. /\ New' = New /\ LastUsable' = LastUsable
      /\ \A t, end : Fits(t, end)' = Fits(t, end)
      /\ \A h : HeaderKnown(h)' = HeaderKnown(h)
      /\ \A e : EntriesKnown(e)' = EntriesKnown(e)
      /\ \A m : MbrKnown(m)' = MbrKnown(m)
  BY SameSource DEF Write
<1>2. /\ ReadIsPending'
      /\ \A d \in Cells \ {cell} : pend'[d] = pend[d]
      /\ pend'[cell] \subseteq pend[cell] \cup {c, Mixed}
      /\ c \in pend'[cell]
  BY WriteLeaves DEF AdjustInv
<1>a. HeaderKnown(Mixed) /\ MbrKnown(Mixed)
  BY DEF HeaderKnown, MbrKnown
<1>3. \A h \in pend'["ph"] : HeaderKnown(h)
  BY <1>a, <1>2 DEF AdjustInv, ContentsKnown, Cells
<1>4. \A m \in pend'["mbr"] : MbrKnown(m)
  BY <1>a, <1>2 DEF AdjustInv, ContentsKnown, Cells
<1>5. CASE cell = "pe"
  <2>1. \A e \in pend["pe"] : EntriesKnown(e)
    BY <1>5 DEF AdjustInv, ContentsKnown
  <2>2. \A e \in pend'["pe"] : EntriesKnown(e)
    BY <1>2, <1>5, <2>1 DEF EntriesKnown
  <2>3. pend'["pe"] # {Other}
    BY <1>2, <1>5, <2>2, OtherKinds DEF EntriesKnown, Table
  <2> QED
    BY <1>1, <1>2, <1>3, <1>4, <2>2, <2>3 DEF ContentsKnown
<1>6. CASE cell # "pe"
  <2>1. pend'["pe"] = pend["pe"]
    BY <1>2, <1>6 DEF Cells
  <2> QED
    BY <1>1, <1>2, <1>3, <1>4, <2>1 DEF AdjustInv, ContentsKnown
<1> QED
  BY <1>5, <1>6

(* A write in the GPT phases leads to a phase with the same plan.          *)
LEMMA GptWriteTypes ==
  ASSUME AdjustInv, NEW cell \in Cells, NEW c, NEW next \in GptPhases, Write(cell, c, next),
         pc \in GptPhases, ReadIsPending',
         New' = New, LastUsable' = LastUsable, \A t, end : Fits(t, end)' = Fits(t, end),
         pend["pe"] # {Other} => pend'["pe"] # {Other}
  PROVE  TypeOK' /\ PlanKnown'
<1>1. /\ lied' \in BOOLEAN
      /\ \/ pc' = "idle" /\ result' = "failed"
         \/ pc' = next /\ result' = result
      /\ UNCHANGED <<last, source, plan, runs, crashes>>
  BY WriteLeaves DEF AdjustInv, TypeOK
<1>2. TypeOK'
  BY <1>1 DEF AdjustInv, TypeOK, ReadIsPending, GptPhases
<1>3. PlanKnown'
  BY <1>1 DEF AdjustInv, PlanKnown, GptPhases, MbrPhases
<1> QED
  BY <1>2, <1>3

LEMMA BackupEntriesStep ==
  ASSUME AdjustInv, WriteBackupEntries
  PROVE  AdjustInv'
<1>1. /\ pc = "be" /\ plan = New /\ result = "none"
      /\ Write("be", Table(New), "bh") /\ "be" \in Cells
  BY DEF WriteBackupEntries, AdjustInv, PlanKnown, GptPhases, ResultKnown, Cells
<1>2. /\ ReadIsPending' /\ ContentsKnown'
      /\ New' = New /\ LastUsable' = LastUsable
      /\ \A t, end : Fits(t, end)' = Fits(t, end)
      /\ pend["pe"] # {Other} => pend'["pe"] # {Other}
  BY <1>1, WriteKeeps
<1>3. TypeOK' /\ PlanKnown'
  BY <1>1, <1>2, GptWriteTypes DEF GptPhases
<1>4. /\ \A d \in Cells \ {"be"} : cur'[d] = cur[d] /\ pend'[d] = pend[d]
      /\ ~lied' => ~lied
      /\ ~lied' /\ pend["be"] = {Table(New)} => pend'["be"] \subseteq {Table(New)}
      /\ Table(New) \in pend'["be"]
      /\ \/ pc' = "idle" /\ result' = "failed"
         \/ pc' = "bh" /\ result' = "none" /\ (~lied' => cur'["be"] = Table(New))
      /\ UNCHANGED <<last, source>>
  BY <1>1, WriteLeaves DEF AdjustInv
<1>5. /\ Untouched => Untouched'
      /\ OldPrimary => OldPrimary'
      /\ ~lied' /\ NewBackup => NewBackup'
  BY <1>2, <1>4 DEF Untouched, OldPrimary, NewBackup, Cells, OldHeader
<1>6. BackupFirst'
  <2>1. CASE ~lied'
    <3>1. /\ Untouched \/ NewBackup
          /\ OldPrimary \/ NewBackup
          /\ New = source => pend["pe"] \in {{Other}, {Table(source)}}
      BY <1>1, <1>4, <2>1 DEF AdjustInv, BackupFirst
    <3>2. pend'["pe"] = pend["pe"]
      BY <1>4 DEF Cells
    <3> QED
      BY <1>2, <1>4, <1>5, <2>1, <3>1, <3>2 DEF BackupFirst, AfterBackup
  <2>2. CASE lied'
    BY <2>2 DEF BackupFirst
  <2> QED
    BY <2>1, <2>2
<1>7. MbrWritten' /\ ResultKnown'
  BY <1>4 DEF MbrWritten, ResultKnown
<1> QED
  BY <1>2, <1>3, <1>6, <1>7 DEF AdjustInv

LEMMA BackupHeaderStep ==
  ASSUME AdjustInv, WriteBackupHeader
  PROVE  AdjustInv'
<1>1. /\ pc = "bh" /\ plan = New /\ result = "none"
      /\ Write("bh", Header(last, 1, New), "syncBackup") /\ "bh" \in Cells
  BY DEF WriteBackupHeader, AdjustInv, PlanKnown, GptPhases, ResultKnown, Cells
<1>2. /\ ReadIsPending' /\ ContentsKnown'
      /\ New' = New /\ LastUsable' = LastUsable
      /\ \A t, end : Fits(t, end)' = Fits(t, end)
      /\ pend["pe"] # {Other} => pend'["pe"] # {Other}
  BY <1>1, WriteKeeps
<1>3. TypeOK' /\ PlanKnown'
  BY <1>1, <1>2, GptWriteTypes DEF GptPhases
<1>4. /\ \A d \in Cells \ {"bh"} : cur'[d] = cur[d] /\ pend'[d] = pend[d]
      /\ ~lied' => ~lied
      /\ ~lied' => pend'["bh"] \subseteq pend["bh"] \cup {Header(last, 1, New)}
      /\ Header(last, 1, New) \in pend'["bh"]
      /\ \/ pc' = "idle" /\ result' = "failed"
         \/ /\ pc' = "syncBackup" /\ result' = "none"
            /\ ~lied' => cur'["bh"] = Header(last, 1, New)
      /\ UNCHANGED <<last, source>>
  BY <1>1, WriteLeaves DEF AdjustInv
<1>5. /\ Untouched => Untouched'
      /\ OldPrimary => OldPrimary'
      /\ ~lied' /\ NewBackup => NewBackup'
  BY <1>2, <1>4 DEF Untouched, OldPrimary, NewBackup, Cells, OldHeader
<1>6. BackupFirst'
  <2>1. CASE ~lied'
    <3>1. /\ Untouched \/ NewBackup
          /\ OldPrimary \/ NewBackup
          /\ cur["be"] = Table(New)
          /\ New = source => pend["pe"] \in {{Other}, {Table(source)}}
      BY <1>1, <1>4, <2>1 DEF AdjustInv, BackupFirst
    <3>2. pend'["pe"] = pend["pe"] /\ cur'["be"] = cur["be"]
      BY <1>4 DEF Cells
    <3> QED
      BY <1>2, <1>4, <1>5, <2>1, <3>1, <3>2 DEF BackupFirst, AfterBackup
  <2>2. CASE lied'
    BY <2>2 DEF BackupFirst
  <2> QED
    BY <2>1, <2>2
<1>7. MbrWritten' /\ ResultKnown'
  BY <1>4 DEF MbrWritten, ResultKnown
<1> QED
  BY <1>2, <1>3, <1>6, <1>7 DEF AdjustInv

(* The primary is written when the backup is durable.                      *)
LEMMA PrimaryKeepsBackup ==
  ASSUME AdjustInv, NEW cell \in {"pe", "ph", "mbr"}, NEW c, NEW next \in AfterBackup,
         Write(cell, c, next), pc \in AfterBackup,
         cell = "pe" => c = Table(New),
         New' = New
  PROVE  BackupFirst'
<1>1. /\ \A d \in Cells \ {cell} : cur'[d] = cur[d] /\ pend'[d] = pend[d]
      /\ ~lied' => ~lied
      /\ ~lied' /\ (cell \notin {"pe", "be"} \/ pend[cell] = {c}) =>
           pend'[cell] \subseteq pend[cell] \cup {c}
      /\ c \in pend'[cell]
      /\ pc' \in {"idle"} \cup AfterBackup
      /\ UNCHANGED <<last, source>>
  BY WriteLeaves DEF AdjustInv, Cells, AfterBackup
<1>2. CASE ~lied'
  <2>1. NewBackup /\ (New = source => pend["pe"] \in {{Other}, {Table(source)}})
    BY <1>1, <1>2 DEF AdjustInv, BackupFirst
  <2>2. NewBackup'
    BY <1>1, <2>1 DEF NewBackup, Cells
  <2>3. ASSUME New = source
        PROVE  pend'["pe"] \in {{Other}, {Table(source)}}
    <3>1. CASE cell = "pe"
      <4>1. pend["pe"] # {Other}
        BY DEF AdjustInv, PlanKnown, GptPhases, AfterBackup
      <4>2. pend["pe"] = {c}
        BY <2>1, <2>3, <3>1, <4>1
      <4> QED
        BY <1>1, <1>2, <2>3, <3>1, <4>2
    <3>2. CASE cell # "pe"
      BY <1>1, <2>1, <2>3, <3>2 DEF Cells
    <3> QED
      BY <3>1, <3>2
  <2> QED
    BY <1>1, <2>2, <2>3 DEF BackupFirst, AfterBackup
<1>3. CASE lied'
  BY <1>3 DEF BackupFirst
<1> QED
  BY <1>2, <1>3

LEMMA PrimaryEntriesStep ==
  ASSUME AdjustInv, WritePrimaryEntries
  PROVE  AdjustInv'
<1>1. /\ pc = "pe" /\ plan = New /\ result = "none" /\ Fits(New, LastUsable)
      /\ Write("pe", Table(New), "ph") /\ "pe" \in Cells /\ pend["pe"] # {Other}
  BY DEF WritePrimaryEntries, AdjustInv, PlanKnown, GptPhases, ResultKnown, Cells
<1>2. EntriesKnown(Table(New))
  BY <1>1 DEF EntriesKnown, Fits
<1>3. /\ ReadIsPending' /\ ContentsKnown'
      /\ New' = New /\ LastUsable' = LastUsable
      /\ \A t, end : Fits(t, end)' = Fits(t, end)
      /\ pend["pe"] # {Other} => pend'["pe"] # {Other}
  BY <1>1, <1>2, WriteKeeps
<1>4. TypeOK' /\ PlanKnown'
  BY <1>1, <1>3, GptWriteTypes DEF GptPhases
<1>5. BackupFirst'
  BY <1>1, <1>3, PrimaryKeepsBackup DEF AfterBackup
<1>6. \/ pc' = "idle" /\ result' = "failed"
      \/ pc' = "ph" /\ result' = "none"
  BY <1>1, WriteLeaves DEF AdjustInv
<1>7. MbrWritten' /\ ResultKnown'
  BY <1>6 DEF MbrWritten, ResultKnown
<1> QED
  BY <1>3, <1>4, <1>5, <1>7 DEF AdjustInv

LEMMA PrimaryHeaderStep ==
  ASSUME AdjustInv, WritePrimaryHeader
  PROVE  AdjustInv'
<1>1. /\ pc = "ph" /\ plan = New /\ result = "none" /\ Fits(New, LastUsable)
      /\ Write("ph", NewHeader, "mbr") /\ "ph" \in Cells
  BY DEF WritePrimaryHeader, AdjustInv, PlanKnown, GptPhases, ResultKnown, Cells, NewHeader
<1>2. HeaderKnown(NewHeader)
  BY <1>1 DEF HeaderKnown, Fits
<1>3. /\ ReadIsPending' /\ ContentsKnown'
      /\ New' = New /\ LastUsable' = LastUsable
      /\ \A t, end : Fits(t, end)' = Fits(t, end)
      /\ pend["pe"] # {Other} => pend'["pe"] # {Other}
  BY <1>1, <1>2, WriteKeeps
<1>4. TypeOK' /\ PlanKnown'
  BY <1>1, <1>3, GptWriteTypes DEF GptPhases
<1>5. BackupFirst'
  BY <1>1, <1>3, PrimaryKeepsBackup DEF AfterBackup
<1>6. \/ pc' = "idle" /\ result' = "failed"
      \/ pc' = "mbr" /\ result' = "none"
  BY <1>1, WriteLeaves DEF AdjustInv
<1>7. MbrWritten' /\ ResultKnown'
  BY <1>6 DEF MbrWritten, ResultKnown
<1> QED
  BY <1>3, <1>4, <1>5, <1>7 DEF AdjustInv

LEMMA ProtectiveMbrStep ==
  ASSUME AdjustInv, WriteProtectiveMbr
  PROVE  AdjustInv'
<1>1. /\ pc = "mbr" /\ result = "none"
      /\ Write("mbr", Protective(last), "syncPrimary") /\ "mbr" \in Cells
  BY DEF WriteProtectiveMbr, AdjustInv, ResultKnown, Cells
<1>2. MbrKnown(Protective(last))
  BY DEF MbrKnown
<1>3. /\ ReadIsPending' /\ ContentsKnown'
      /\ New' = New /\ LastUsable' = LastUsable
      /\ \A t, end : Fits(t, end)' = Fits(t, end)
      /\ pend["pe"] # {Other} => pend'["pe"] # {Other}
  BY <1>1, <1>2, WriteKeeps
<1>4. TypeOK' /\ PlanKnown'
  BY <1>1, <1>3, GptWriteTypes DEF GptPhases
<1>5. BackupFirst'
  BY <1>1, <1>3, PrimaryKeepsBackup DEF AfterBackup
<1>6. /\ \/ pc' = "idle" /\ result' = "failed"
         \/ /\ pc' = "syncPrimary" /\ result' = "none"
            /\ ~lied' => cur'["mbr"] = Protective(last)
      /\ UNCHANGED last
  BY <1>1, WriteLeaves DEF AdjustInv
<1>7. MbrWritten' /\ ResultKnown'
  BY <1>6 DEF MbrWritten, ResultKnown, Protective
<1> QED
  BY <1>3, <1>4, <1>5, <1>7 DEF AdjustInv

LEMMA MbrStep ==
  ASSUME AdjustInv, WriteMbr
  PROVE  AdjustInv'
<1>1. /\ pc = "mbrParts" /\ result = "none" /\ ~HasHeader /\ Fits(plan, last)
      /\ Write("mbr", Mbr("parts", plan), "syncMbr") /\ "mbr" \in Cells
  BY DEF WriteMbr, AdjustInv, PlanKnown, MbrPhases, ResultKnown, Cells
<1>2. MbrKnown(Mbr("parts", plan))
  BY <1>1 DEF MbrKnown, Fits, AdjustInv, TypeOK
<1>3. /\ ReadIsPending' /\ ContentsKnown'
      /\ New' = New /\ LastUsable' = LastUsable
      /\ \A t, end : Fits(t, end)' = Fits(t, end)
      /\ pend["pe"] # {Other} => pend'["pe"] # {Other}
  BY <1>1, <1>2, WriteKeeps
<1>4. /\ \A d \in Cells \ {"mbr"} : cur'[d] = cur[d] /\ pend'[d] = pend[d]
      /\ ~lied' => ~lied
      /\ lied' \in BOOLEAN
      /\ \/ pc' = "idle" /\ result' = "failed"
         \/ /\ pc' = "syncMbr" /\ result' = "none"
            /\ ~lied' => cur'["mbr"] = Mbr("parts", plan)
      /\ UNCHANGED <<last, source, plan, runs, crashes>>
  BY <1>1, WriteLeaves DEF AdjustInv, TypeOK
<1>5. TypeOK'
  BY <1>3, <1>4 DEF AdjustInv, TypeOK, ReadIsPending
<1>6. PlanKnown'
  BY <1>1, <1>3, <1>4 DEF PlanKnown, GptPhases, MbrPhases, HasHeader, Cells
<1>7. BackupFirst'
  <2>1. /\ pend'["pe"] = pend["pe"]
        /\ Untouched => Untouched'
        /\ NewBackup => NewBackup'
    BY <1>3, <1>4 DEF Cells, Untouched, NewBackup, OldHeader
  <2> QED
    BY <1>3, <1>4, <2>1 DEF AdjustInv, BackupFirst, AfterBackup
<1>8. MbrWritten' /\ ResultKnown'
  BY <1>4 DEF MbrWritten, ResultKnown, Mbr
<1> QED
  BY <1>3, <1>5, <1>6, <1>7, <1>8 DEF AdjustInv

-----------------------------------------------------------------------------
(* The invariant, syncs and crashes.                                       *)

(* Choosing one of the possible contents keeps what is known of them.      *)
LEMMA SettledKeeps ==
  ASSUME AdjustInv, Settled, UNCHANGED <<source, last>>
  PROVE  /\ ContentsKnown' /\ Durable'
         /\ New' = New /\ LastUsable' = LastUsable
         /\ \A t, end : Fits(t, end)' = Fits(t, end)
         /\ Untouched => Untouched'
         /\ NewBackup => NewBackup'
         /\ pend["pe"] # {Other} => pend'["pe"] # {Other}
         /\ pend["pe"] \in {{Other}, {Table(source)}} =>
              pend'["pe"] \in {{Other}, {Table(source)}}
<1>1. /\ New' = New /\ LastUsable' = LastUsable
      /\ \A t, end : Fits(t, end)' = Fits(t, end)
      /\ \A h : HeaderKnown(h)' = HeaderKnown(h)
      /\ \A e : EntriesKnown(e)' = EntriesKnown(e)
      /\ \A m : MbrKnown(m)' = MbrKnown(m)
  BY SameSource
<1>2. \A c \in Cells : pend'[c] = {cur'[c]} /\ cur'[c] \in pend[c]
  BY DEF Settled
<1>3. ContentsKnown' /\ (pend["pe"] # {Other} => pend'["pe"] # {Other})
  <2>1. \A h \in pend'["ph"] : HeaderKnown(h)
    BY <1>2 DEF AdjustInv, ContentsKnown, Cells
  <2>2. \A m \in pend'["mbr"] : MbrKnown(m)
    BY <1>2 DEF AdjustInv, ContentsKnown, Cells
  <2>3. CASE pend["pe"] = {Other}
    <3>1. pend'["pe"] = {Other}
      BY <1>2, <2>3 DEF Cells
    <3> QED
      BY <1>1, <2>1, <2>2, <2>3, <3>1 DEF ContentsKnown, Other
  <2>4. CASE pend["pe"] # {Other}
    <3>1. \A e \in pend'["pe"] : EntriesKnown(e)
      BY <1>2, <2>4 DEF AdjustInv, ContentsKnown, Cells
    <3>2. pend'["pe"] # {Other}
      BY <3>1, OtherKinds DEF EntriesKnown, Table
    <3> QED
      BY <1>1, <2>1, <2>2, <3>1, <3>2 DEF ContentsKnown
  <2> QED
    BY <2>3, <2>4
<1>4. Untouched => Untouched'
  <2> SUFFICES ASSUME Untouched
               PROVE  Untouched'
    OBVIOUS
  <2>1. PICK h \in {OldHeader(TRUE), OldHeader(FALSE), Other} : pend["ph"] = {h}
    BY DEF Untouched
  <2>2. PICK e \in {Table(source), Other} : pend["pe"] = {e}
    BY DEF Untouched
  <2>3. pend'["ph"] = {h} /\ pend'["pe"] = {e}
    BY <1>2, <2>1, <2>2 DEF Cells
  <2> QED
    BY <2>3 DEF Untouched, OldHeader, Table, Other
<1>5. NewBackup => NewBackup'
  BY <1>1, <1>2 DEF NewBackup, Cells
<1>6. pend["pe"] \in {{Other}, {Table(source)}} => pend'["pe"] \in {{Other}, {Table(source)}}
  BY <1>2 DEF Cells
<1>7. Durable'
  BY <1>2 DEF Durable
<1> QED
  BY <1>1, <1>3, <1>4, <1>5, <1>6, <1>7

LEMMA SyncBackupStep ==
  ASSUME AdjustInv, SyncBackup
  PROVE  AdjustInv'
<1>1. pc = "syncBackup" /\ Sync("pe") /\ plan = New /\ Fits(New, LastUsable) /\ result = "none"
      /\ pend["pe"] # {Other}
  BY DEF SyncBackup, AdjustInv, PlanKnown, GptPhases, ResultKnown
<1>2. /\ ReadIsPending'
      /\ UNCHANGED <<cur, lied, last, source, plan, runs, crashes>>
      /\ \/ pc' = "idle" /\ result' = "failed" /\ UNCHANGED pend
         \/ pc' = "pe" /\ result' = "none" /\ Settled
  BY <1>1, SyncLeaves DEF AdjustInv
<1>3. TypeOK'
  BY <1>2 DEF AdjustInv, TypeOK, ReadIsPending
<1>4. MbrWritten' /\ ResultKnown'
  BY <1>2 DEF MbrWritten, ResultKnown
<1>5. CASE pc' = "idle" /\ result' = "failed" /\ UNCHANGED pend
  <2>1. PlanKnown'
    BY <1>5 DEF PlanKnown, GptPhases, MbrPhases
  <2>2. BackupFirst'
    BY <1>2, <1>5, DiskStays DEF AdjustInv, BackupFirst, AfterBackup
  <2> QED
    BY <1>2, <1>3, <1>4, <1>5, <2>1, <2>2, DiskStays DEF AdjustInv
<1>6. CASE pc' = "pe" /\ result' = "none" /\ Settled
  <2>1. PlanKnown'
    BY <1>1, <1>2, <1>6, SettledKeeps DEF PlanKnown, MbrPhases
  <2>2. BackupFirst'
    <3>1. CASE ~lied'
      <4>1. /\ cur["be"] = Table(New) /\ cur["bh"] = Header(last, 1, New)
            /\ New = source => pend["pe"] \in {{Other}, {Table(source)}}
        BY <1>1, <1>2, <3>1 DEF AdjustInv, BackupFirst
      <4>2. NewBackup'
        BY <1>2, <1>6, <4>1, SettledKeeps DEF NewBackup, Settled, Cells
      <4>3. New' = source' => pend'["pe"] \in {{Other}, {Table(source)}'}
        BY <1>2, <1>6, <4>1, SettledKeeps
      <4> QED
        BY <1>6, <4>2, <4>3 DEF BackupFirst
    <3>2. CASE lied'
      BY <3>2 DEF BackupFirst
    <3> QED
      BY <3>1, <3>2
  <2> QED
    BY <1>2, <1>3, <1>4, <1>6, <2>1, <2>2, SettledKeeps DEF AdjustInv
<1> QED
  BY <1>2, <1>5, <1>6

LEMMA SyncPrimaryStep ==
  ASSUME AdjustInv, SyncPrimary
  PROVE  AdjustInv'
<1>1. /\ pc = "syncPrimary" /\ Sync("validate") /\ plan = New /\ Fits(New, LastUsable)
      /\ result = "none" /\ pend["pe"] # {Other}
  BY DEF SyncPrimary, AdjustInv, PlanKnown, GptPhases, ResultKnown
<1>2. /\ ReadIsPending'
      /\ UNCHANGED <<cur, lied, last, source, plan, runs, crashes>>
      /\ \/ pc' = "idle" /\ result' = "failed" /\ UNCHANGED pend
         \/ pc' = "validate" /\ result' = "none" /\ Settled
  BY <1>1, SyncLeaves DEF AdjustInv
<1>3. TypeOK'
  BY <1>2 DEF AdjustInv, TypeOK, ReadIsPending
<1>4. MbrWritten'
  BY <1>1, <1>2 DEF AdjustInv, MbrWritten, Protective
<1>5. CASE pc' = "idle" /\ result' = "failed" /\ UNCHANGED pend
  <2>1. PlanKnown' /\ ResultKnown'
    BY <1>5 DEF PlanKnown, GptPhases, MbrPhases, ResultKnown
  <2>2. BackupFirst'
    BY <1>2, <1>5, DiskStays DEF AdjustInv, BackupFirst, AfterBackup
  <2> QED
    BY <1>2, <1>3, <1>4, <1>5, <2>1, <2>2, DiskStays DEF AdjustInv
<1>6. CASE pc' = "validate" /\ result' = "none" /\ Settled
  <2>1. PlanKnown' /\ ResultKnown'
    BY <1>1, <1>2, <1>6, SettledKeeps DEF PlanKnown, MbrPhases, ResultKnown
  <2>2. BackupFirst'
    <3>1. CASE ~lied'
      <4>1. NewBackup /\ (New = source => pend["pe"] \in {{Other}, {Table(source)}})
        BY <1>1, <1>2, <3>1 DEF AdjustInv, BackupFirst, AfterBackup
      <4>2. NewBackup'
        BY <1>2, <1>6, <4>1, SettledKeeps
      <4>3. New' = source' => pend'["pe"] \in {{Other}, {Table(source)}'}
        BY <1>2, <1>6, <4>1, SettledKeeps
      <4> QED
        BY <1>6, <4>2, <4>3 DEF BackupFirst
    <3>2. CASE lied'
      BY <3>2 DEF BackupFirst
    <3> QED
      BY <3>1, <3>2
  <2> QED
    BY <1>2, <1>3, <1>4, <1>6, <2>1, <2>2, SettledKeeps DEF AdjustInv
<1> QED
  BY <1>2, <1>5, <1>6

LEMMA SyncMbrStep ==
  ASSUME AdjustInv, SyncMbr
  PROVE  AdjustInv'
<1>1. /\ pc = "syncMbr" /\ ~HasHeader /\ Fits(plan, last) /\ result = "none"
      /\ ~lied => cur["mbr"] = Mbr("parts", plan)
  BY DEF SyncMbr, AdjustInv, PlanKnown, MbrPhases, ResultKnown, MbrWritten
<1>2. /\ UNCHANGED <<cur, lied, last, source, plan, runs, crashes>>
      /\ pc' = "idle"
      /\ \/ result' = "failed" /\ UNCHANGED pend
         \/ result' = "ok" /\ pend' = [c \in Cells |-> {cur[c]}]
  BY DEF SyncMbr, Return
<1>3. ReadIsPending' /\ (UNCHANGED pend \/ Settled)
  BY <1>2 DEF AdjustInv, ReadIsPending, Settled
<1>4. TypeOK'
  BY <1>2, <1>3 DEF AdjustInv, TypeOK, ReadIsPending
<1>5. PlanKnown' /\ MbrWritten'
  BY <1>2 DEF PlanKnown, MbrWritten, GptPhases, MbrPhases
<1>6. ResultKnown'
  <2>1. /\ HasHeader' = HasHeader
        /\ Fits(plan, last)' = Fits(plan, last)
        /\ Mbr("parts", plan)' = Mbr("parts", plan)
    BY <1>2, SameSource DEF HasHeader, Mbr
  <2> QED
    BY <1>1, <1>2, <2>1 DEF ResultKnown
<1>7. ContentsKnown' /\ BackupFirst'
  <2>1. CASE UNCHANGED pend
    BY <1>2, <2>1, DiskStays DEF AdjustInv, BackupFirst, AfterBackup
  <2>2. CASE Settled
    BY <1>2, <2>2, SettledKeeps DEF AdjustInv, BackupFirst, AfterBackup
  <2> QED
    BY <1>3, <2>1, <2>2
<1> QED
  BY <1>3, <1>4, <1>5, <1>6, <1>7 DEF AdjustInv

LEMMA PowerLossStep ==
  ASSUME AdjustInv, PowerLoss
  PROVE  AdjustInv'
<1>1. /\ ReadIsPending' /\ Settled
      /\ pc' = "idle" /\ result' = "none"
      /\ crashes < MaxCrashes /\ crashes' = crashes + 1
      /\ UNCHANGED <<lied, last, source, plan, runs>>
  BY PowerLossLeaves DEF AdjustInv
<1>2. TypeOK'
  BY <1>1, AdjustAssumption DEF AdjustInv, TypeOK, ReadIsPending
<1>3. PlanKnown' /\ MbrWritten' /\ ResultKnown'
  BY <1>1 DEF PlanKnown, MbrWritten, ResultKnown, GptPhases, MbrPhases
<1>4. ContentsKnown' /\ BackupFirst'
  BY <1>1, SettledKeeps DEF AdjustInv, BackupFirst, AfterBackup
<1> QED
  BY <1>1, <1>2, <1>3, <1>4 DEF AdjustInv

LEMMA KillStep ==
  ASSUME AdjustInv, Kill
  PROVE  AdjustInv'
<1>1. /\ ReadIsPending'
      /\ pc' = "idle" /\ result' = "none"
      /\ crashes < MaxCrashes /\ crashes' = crashes + 1
      /\ UNCHANGED <<lied, last, source, plan, runs>>
  BY KillLeaves DEF AdjustInv
<1>2. TypeOK'
  BY <1>1, AdjustAssumption DEF AdjustInv, TypeOK, ReadIsPending
<1>3. PlanKnown' /\ MbrWritten' /\ ResultKnown'
  BY <1>1 DEF PlanKnown, MbrWritten, ResultKnown, GptPhases, MbrPhases
<1>4. CASE UNCHANGED <<cur, pend>>
  <2>1. ContentsKnown' /\ BackupFirst'
    BY <1>1, <1>4, DiskStays DEF AdjustInv, BackupFirst, AfterBackup
  <2> QED
    BY <1>1, <1>2, <1>3, <2>1 DEF AdjustInv
<1>5. ASSUME NEW cell \in {"pe", "be"} \cap {pc},
             \A d \in Cells \ {cell} : cur'[d] = cur[d] /\ pend'[d] = pend[d],
             pend'[cell] \subseteq pend[cell] \cup {Table(plan), Mixed},
             pend[cell] = {Table(plan)} => pend'[cell] = {Table(plan)},
             Table(plan) \in pend'[cell]
      PROVE  ContentsKnown' /\ BackupFirst'
  <2>1. /\ New' = New
        /\ \A h : HeaderKnown(h)' = HeaderKnown(h)
        /\ \A e : EntriesKnown(e)' = EntriesKnown(e)
        /\ \A m : MbrKnown(m)' = MbrKnown(m)
    BY <1>1, SameSource
  <2>2. plan = New /\ Describes(New) /\ pend["pe"] # {Other}
    BY DEF AdjustInv, PlanKnown, GptPhases, Fits
  <2>3. /\ \A h \in pend'["ph"] : HeaderKnown(h)
        /\ \A m \in pend'["mbr"] : MbrKnown(m)
    BY <1>5 DEF AdjustInv, ContentsKnown, Cells
  <2>4. \A e \in pend'["pe"] : EntriesKnown(e)
    BY <1>5, <2>2 DEF AdjustInv, ContentsKnown, Cells, EntriesKnown
  <2>5. ContentsKnown'
    BY <2>1, <2>3, <2>4 DEF ContentsKnown
  <2>6. CASE cell = "be" /\ ~lied
    <3>1. Untouched => Untouched'
      BY <1>1, <1>5, <2>6 DEF Untouched, Cells, OldHeader
    <3>2. NewBackup => NewBackup'
      BY <1>1, <1>5, <2>1, <2>2, <2>6 DEF NewBackup, Cells
    <3>3. pend'["pe"] = pend["pe"]
      BY <1>5, <2>6 DEF Cells
    <3> QED
      BY <1>1, <2>1, <2>6, <3>1, <3>2, <3>3 DEF AdjustInv, BackupFirst, AfterBackup
  <2>7. CASE cell = "pe" /\ ~lied
    <3>1. NewBackup /\ (New = source => pend["pe"] \in {{Other}, {Table(source)}})
      BY <2>7 DEF AdjustInv, BackupFirst, AfterBackup
    <3>2. NewBackup'
      BY <1>1, <1>5, <2>1, <2>7, <3>1 DEF NewBackup, Cells
    <3>3. New = source => pend'["pe"] \in {{Other}, {Table(source)}}
      BY <1>5, <2>2, <2>7, <3>1
    <3> QED
      BY <1>1, <2>1, <3>2, <3>3 DEF BackupFirst, AfterBackup
  <2>8. CASE lied
    BY <1>1, <2>8 DEF BackupFirst
  <2> QED
    BY <2>5, <2>6, <2>7, <2>8
<1> QED
  BY <1>1, <1>2, <1>3, <1>4, <1>5, KillLeaves DEF AdjustInv

-----------------------------------------------------------------------------
(* What an adjustment promises.                                            *)

LEMMA AdjustStep == AdjustInv /\ [Next]_vars => AdjustInv'
<1> SUFFICES ASSUME AdjustInv, [Next]_vars
             PROVE  AdjustInv'
  OBVIOUS
<1>1. CASE Start
  BY <1>1, StartStep
<1>2. CASE AdjustGpt
  BY <1>2, PlanGptStep, BackupEntriesStep, BackupHeaderStep, SyncBackupStep,
     PrimaryEntriesStep, PrimaryHeaderStep, ProtectiveMbrStep, SyncPrimaryStep, ValidateStep
  DEF AdjustGpt
<1>3. CASE AdjustMbr
  BY <1>3, PlanMbrStep, MbrStep, SyncMbrStep DEF AdjustMbr
<1>4. CASE Kill
  BY <1>4, KillStep
<1>5. CASE PowerLoss
  BY <1>5, PowerLossStep
<1>6. CASE UNCHANGED vars
  <2>1. UNCHANGED <<cur, pend, lied, last, source, pc, plan, result, runs, crashes>>
    BY <1>6 DEF vars
  <2>2. TypeOK'
    BY <2>1, DiskStays DEF AdjustInv, TypeOK, ReadIsPending
  <2>3. PlanKnown'
    BY <2>1, DiskStays DEF AdjustInv, PlanKnown
  <2>4. BackupFirst'
    BY <2>1, DiskStays DEF AdjustInv, BackupFirst
  <2>5. MbrWritten' /\ ResultKnown'
    <3>1. /\ Protective(last)' = Protective(last) /\ Mbr("parts", plan)' = Mbr("parts", plan)
          /\ WrittenGpt' = WrittenGpt
      BY <2>1 DEF Protective, Mbr, WrittenGpt, Copy, Header, Table
    <3> QED
      BY <2>1, <3>1, DiskStays DEF AdjustInv, MbrWritten, ResultKnown
  <2> QED
    BY <2>1, <2>2, <2>3, <2>4, <2>5, DiskStays DEF AdjustInv
<1> QED
  BY <1>1, <1>2, <1>3, <1>4, <1>5, <1>6 DEF Next

LEMMA AdjustHolds == Spec => []AdjustInv
<1> QED
  BY InitAdjust, AdjustStep, PTL DEF Spec

(* The state of an adjustment is what its types say.                       *)
THEOREM AdjustTyped == Spec => []TypeOK
<1>1. AdjustInv => TypeOK
  BY DEF AdjustInv
<1> QED
  BY <1>1, AdjustHolds, PTL

(* A GPT reported as adapted is durably in both of its copies, whatever the*)
(* disk did with the writes: it is read back after the sync.               *)
THEOREM AdjustedIsWhole == Spec => []AdjustedConsistent
<1>1. AdjustInv => AdjustedConsistent
  BY DEF AdjustInv, ResultKnown, AdjustedConsistent, Durable
<1> QED
  BY <1>1, AdjustHolds, PTL

(* A table reported as adapted lies inside the destination, without overlap*)
(* of any two entries, and has every partition of the source with data.    *)
THEOREM AdjustedFits == Spec => []DestinationFits
<1>1. AdjustInv => DestinationFits
  BY DEF AdjustInv, ResultKnown, DestinationFits, Fits
<1> QED
  BY <1>1, AdjustHolds, PTL

(* One table can be read throughout: where a durable old primary or a      *)
(* durable new backup is, the layout can be read.                          *)
LEMMA OneCopyIsEnough ==
  /\ OldPrimary => LayoutSafe
  /\ NewBackup /\ Describes(New) => LayoutSafe
  /\ OldPrimary' => LayoutSafe'
  /\ NewBackup' /\ Describes(New)' => LayoutSafe'
<1>1. Describes(source) /\ Describes(source)'
  BY DEF Describes
<1>2. OldPrimary => LayoutSafe
  BY <1>1 DEF OldPrimary, OldHeader, LayoutSafe, GoodCopy
<1>3. NewBackup /\ Describes(New) => LayoutSafe
  BY DEF NewBackup, LayoutSafe, GoodCopy, Header
<1>4. OldPrimary' => LayoutSafe'
  BY <1>1 DEF OldPrimary, OldHeader, LayoutSafe, GoodCopy
<1>5. NewBackup' /\ Describes(New)' => LayoutSafe'
  BY DEF NewBackup, LayoutSafe, GoodCopy, Header
<1> QED
  BY <1>2, <1>3, <1>4, <1>5

(* A step that adds no possible contents loses no layout.                  *)
LEMMA FewerContents ==
  ASSUME LayoutSafe, \A c \in Cells : pend'[c] \subseteq pend[c], UNCHANGED <<source, last>>
  PROVE  LayoutSafe'
<1>1. \A t : Describes(t)' = Describes(t)
  BY SameSource
<1> QED
  BY <1>1 DEF LayoutSafe, GoodCopy, Cells

(* While a GPT is written one of the two copies stays as it is.            *)
LEMMA GptWriteSafe ==
  ASSUME AdjustInv, ~lied', ~lied, pc \in GptPhases, UNCHANGED <<source, last>>,
         NEW cell \in {"be", "bh", "pe", "ph", "mbr"},
         \A d \in Cells \ {cell} : pend'[d] = pend[d],
         cell \in {"pe", "ph", "mbr"} => pc \in AfterBackup,
         pend["be"] = {Table(New)} => pend'["be"] = {Table(New)},
         pend["bh"] = {Header(last, 1, New)} => pend'["bh"] = {Header(last, 1, New)}
  PROVE  LayoutSafe'
<1>1. New' = New /\ Describes(New)' = Describes(New) /\ Describes(New)
  BY SameSource DEF AdjustInv, PlanKnown, Fits
<1>2. NewBackup => NewBackup'
  BY <1>1 DEF NewBackup
<1>3. CASE NewBackup
  BY <1>1, <1>2, <1>3, OneCopyIsEnough
<1>4. CASE ~NewBackup
  <2>1. OldPrimary /\ cell \in {"be", "bh"}
    BY <1>4 DEF AdjustInv, BackupFirst, GptPhases, AfterBackup
  <2>2. OldPrimary'
    BY <2>1 DEF OldPrimary, OldHeader, Cells
  <2> QED
    BY <2>2, OneCopyIsEnough
<1> QED
  BY <1>3, <1>4

LEMMA LayoutStep ==
  AdjustInv /\ [Next]_vars => (LayoutSafe /\ ~lied' => LayoutSafe')
<1> SUFFICES ASSUME AdjustInv, [Next]_vars, LayoutSafe, ~lied'
             PROVE  LayoutSafe'
  OBVIOUS
<1>1. UNCHANGED <<source, last>>
  BY SourceStays
<1>2. CASE UNCHANGED pend
  BY <1>1, <1>2, FewerContents
<1>3. CASE Settled
  BY <1>1, <1>3, FewerContents DEF Settled
<1>4. ASSUME NEW cell \in {"be", "bh", "pe", "ph", "mbr"}, NEW c, NEW next,
             Write(cell, c, next), pc \in GptPhases,
             cell = "be" => c = Table(plan),
             cell = "bh" => c = Header(last, 1, plan),
             cell \in {"pe", "ph", "mbr"} => pc \in AfterBackup
      PROVE  LayoutSafe'
  <2>1. /\ \A d \in Cells \ {cell} : pend'[d] = pend[d]
        /\ c \in pend'[cell]
        /\ ~lied
        /\ cell \notin {"pe", "be"} \/ pend[cell] = {c} => pend'[cell] \subseteq pend[cell] \cup {c}
    BY <1>4, WriteLeaves DEF AdjustInv, Cells
  <2>2. plan = New
    BY <1>4 DEF AdjustInv, PlanKnown
  <2>3. /\ pend["be"] = {Table(New)} => pend'["be"] = {Table(New)}
        /\ pend["bh"] = {Header(last, 1, New)} => pend'["bh"] = {Header(last, 1, New)}
    BY <1>4, <2>1, <2>2 DEF Cells
  <2> QED
    BY <1>1, <1>4, <2>1, <2>3, GptWriteSafe
<1>5. CASE WriteMbr
  <2>1. /\ \A d \in Cells \ {"mbr"} : pend'[d] = pend[d]
        /\ pend'["mbr"] \subseteq pend["mbr"] \cup {Mbr("parts", plan)}
    BY <1>5, WriteLeaves DEF WriteMbr, AdjustInv, Cells
  <2>2. Describes(plan)
    BY <1>5 DEF WriteMbr, AdjustInv, PlanKnown, MbrPhases, Fits
  <2>3. \A t : Describes(t)' = Describes(t)
    BY <1>1, SameSource
  <2> QED
    BY <1>1, <2>1, <2>2, <2>3 DEF LayoutSafe, GoodCopy, Mbr, Cells
<1>6. CASE Kill
  <2>1. ASSUME NEW cell \in {"pe", "be"} \cap {pc},
               \A d \in Cells \ {cell} : cur'[d] = cur[d] /\ pend'[d] = pend[d],
               pend'[cell] \subseteq pend[cell] \cup {Table(plan), Mixed},
               pend[cell] = {Table(plan)} => pend'[cell] = {Table(plan)},
               Table(plan) \in pend'[cell]
        PROVE  LayoutSafe'
    <3>1. pc \in GptPhases /\ plan = New /\ ~lied
      BY <1>6 DEF AdjustInv, PlanKnown, GptPhases, Kill
    <3>2. cell = "pe" => pc \in AfterBackup
      BY DEF AfterBackup
    <3>3. /\ pend["be"] = {Table(New)} => pend'["be"] = {Table(New)}
          /\ pend["bh"] = {Header(last, 1, New)} => pend'["bh"] = {Header(last, 1, New)}
      BY <2>1, <3>1 DEF Cells
    <3> QED
      BY <1>1, <2>1, <3>1, <3>2, <3>3, GptWriteSafe
  <2> QED
    BY <1>2, <1>6, <2>1, KillLeaves DEF AdjustInv
<1>7. CASE WriteBackupEntries
  BY <1>4, <1>7 DEF WriteBackupEntries, GptPhases
<1>8. CASE WriteBackupHeader
  BY <1>4, <1>8 DEF WriteBackupHeader, GptPhases
<1>9. CASE WritePrimaryEntries
  BY <1>4, <1>9 DEF WritePrimaryEntries, GptPhases, AfterBackup
<1>10. CASE WritePrimaryHeader
  BY <1>4, <1>10 DEF WritePrimaryHeader, GptPhases, AfterBackup
<1>11. CASE WriteProtectiveMbr
  BY <1>4, <1>11 DEF WriteProtectiveMbr, GptPhases, AfterBackup
<1>12. CASE SyncBackup \/ SyncPrimary
  BY <1>2, <1>3, <1>12, SyncLeaves DEF SyncBackup, SyncPrimary, AdjustInv
<1>13. CASE SyncMbr
  <2>1. UNCHANGED pend \/ Settled
    BY <1>13 DEF SyncMbr, Settled, AdjustInv, ReadIsPending
  <2> QED
    BY <1>2, <1>3, <2>1
<1>14. CASE PowerLoss
  BY <1>3, <1>14, PowerLossLeaves DEF AdjustInv
<1>15. CASE Start \/ PlanGpt \/ PlanMbr \/ Validate \/ UNCHANGED vars
  BY <1>2, <1>15 DEF Start, PlanGpt, PlanMbr, Validate, vars
<1> QED
  BY <1>5, <1>6, <1>7, <1>8, <1>9, <1>10, <1>11, <1>12, <1>13, <1>14, <1>15
  DEF Next, AdjustGpt, AdjustMbr

(* The comment at clone.go:866, for every table and both sizes: an         *)
(* adjustment that is interrupted anywhere, fails, or is repeated never    *)
(* takes away the last readable copy of the partition layout.              *)
THEOREM LayoutKept == Spec => LayoutNeverLost
<1>1. AdjustInv /\ [Next]_vars => [LayoutSafe /\ ~lied' => LayoutSafe']_vars
  BY LayoutStep
<1> QED
  BY <1>1, AdjustHolds, PTL DEF Spec, LayoutNeverLost

-----------------------------------------------------------------------------
(* An adjustment that is repeated, and the partitions found afterwards.    *)

LEMMA RefusedForAReason ==
  ASSUME AdjustInv, ~GptAccepted, HasHeader, ~lied, cur["ph"].sound, cur["pe"] # Other,
         cur["mbr"].kind # "full", Acceptable(source, FirstUsable, LastUsable)
  PROVE  Kept(source, LastUsable) # Used(source)
<1> SUFFICES ASSUME Kept(source, LastUsable) = Used(source)
             PROVE  FALSE
  OBVIOUS
<1>1. cur["ph"] \in pend["ph"] /\ cur["pe"] \in pend["pe"]
  BY DEF AdjustInv, ReadIsPending, Cells
<1>2. New = source
  BY DEF AdjustInv, TypeOK, New, Planned, Used, Tables
<1>3. cur["pe"] = Table(source)
  BY <1>1, <1>2 DEF AdjustInv, BackupFirst
<1>4. cur["ph"] = OldHeader(TRUE) \/ cur["ph"] = NewHeader
  <2>1. HeaderKnown(cur["ph"])
    BY <1>1 DEF AdjustInv, ContentsKnown
  <2>2. cur["ph"] # Other /\ cur["ph"] # Mixed /\ cur["ph"] # OldHeader(FALSE)
    BY OtherKinds DEF HasHeader
  <2> QED
    BY <2>1, <2>2 DEF HeaderKnown
<1>5. cur["ph"].at = 1 /\ cur["ph"].crc = source
  BY <1>2, <1>4 DEF OldHeader, NewHeader, Header
<1>6. GptTable = source
  BY <1>3 DEF GptTable, Table
<1> QED
  BY <1>3, <1>5, <1>6 DEF GptAccepted

(* Without read errors: an adjustment that was cut short is refused when it*)
(* is repeated only if the copy or the source is at fault, or if an entry  *)
(* had to be dropped, for then header and entries may disagree for good.   *)
THEOREM Repeatable ==
  ASSUME ~May("read")
  PROVE  Spec => []RepeatableUnlessDropping
<1>1. Init => RepeatableUnlessDropping
  BY DEF Init, RepeatableUnlessDropping
<1>2. AdjustInv /\ RepeatableUnlessDropping /\ [Next]_vars => RepeatableUnlessDropping'
  <2> SUFFICES ASSUME AdjustInv, RepeatableUnlessDropping, [Next]_vars,
                      result' = "refused", HasHeader', ~lied'
               PROVE  \/ ~cur'["ph"].sound \/ cur'["pe"] = Other \/ cur'["mbr"].kind = "full"
                      \/ ~Acceptable(source', FirstUsable, LastUsable')
                      \/ Kept(source', LastUsable') # Used(source')
    BY DEF RepeatableUnlessDropping, Acceptable, Kept, Used, Overlaps, Neighbours
  <2>1. CASE UNCHANGED vars
    <3>1. UNCHANGED <<cur, lied, last, source, result>>
      BY <2>1 DEF vars
    <3> QED
      BY <3>1 DEF RepeatableUnlessDropping, HasHeader, LastUsable
  <2>2. CASE PlanGpt
    <3>1. ~GptAccepted /\ HasHeader /\ ~lied
          /\ UNCHANGED <<cur, last, source>>
      BY <2>2 DEF PlanGpt, Return, AdjustInv, ResultKnown
    <3>2. LastUsable' = LastUsable
      BY <3>1 DEF LastUsable
    <3> QED
      BY <3>1, <3>2, RefusedForAReason
  <2>3. CASE PlanMbr
    BY <2>3 DEF PlanMbr, UsesGpt, HasHeader
  <2>4. result = "none" \/ pc = "idle"
    BY DEF AdjustInv, ResultKnown
  <2>5. CASE Start \/ Kill \/ PowerLoss
    BY <2>5 DEF Start, Kill, PowerLoss, Crash
  <2>6. CASE SyncBackup \/ SyncPrimary \/ Validate \/ SyncMbr
    BY <2>4, <2>6 DEF SyncBackup, SyncPrimary, Sync, Validate, SyncMbr, Return
  <2>7. CASE \/ WriteBackupEntries \/ WriteBackupHeader \/ WritePrimaryEntries
             \/ WritePrimaryHeader \/ WriteProtectiveMbr \/ WriteMbr
    BY <2>4, <2>7 DEF WriteBackupEntries, WriteBackupHeader, WritePrimaryEntries,
       WritePrimaryHeader, WriteProtectiveMbr, WriteMbr, Write, Return
  <2> QED
    BY <2>1, <2>2, <2>3, <2>5, <2>6, <2>7 DEF Next, AdjustGpt, AdjustMbr
<1> QED
  BY <1>1, <1>2, AdjustHolds, PTL DEF Spec

(* A table that fits is listed as it is.                                   *)
LEMMA ListedAsIs ==
  ASSUME NEW t \in Tables, last \in Nat, NEW s \in Used(t),
         t[s].first <= t[s].last, t[s].last <= last
  PROVE  Place(t[s]) \in Clipped(Entries(t), last + 1)
<1> DEFINE e == t[s]
<1>1. e.first \in Nat /\ e.last \in Nat
  BY AdjustAssumption DEF Used, Tables
<1>2. e \in {p \in Entries(t) : p.first < last + 1 /\ p.last >= p.first}
  BY <1>1 DEF Entries
<1>3. Cut(e, last + 1) = Place(e)
  BY <1>1 DEF Cut, Sectors, Place
<1> QED
  BY <1>2, <1>3 DEF Clipped

LEMMA ListedOnly ==
  ASSUME NEW t \in Tables, last \in Nat,
         \A s \in Used(t) : t[s].first <= t[s].last /\ t[s].last <= last
  PROVE  Clipped(Entries(t), last + 1) = {Place(t[s]) : s \in Used(t)}
<1>1. ASSUME NEW x \in Clipped(Entries(t), last + 1)
      PROVE  x \in {Place(t[s]) : s \in Used(t)}
  <2>1. PICK s \in Used(t) : x = Cut(t[s], last + 1)
    BY DEF Clipped, Entries
  <2>2. t[s].first \in Nat /\ t[s].last \in Nat
    BY AdjustAssumption DEF Used, Tables
  <2>3. x = Place(t[s])
    BY <2>1, <2>2 DEF Cut, Sectors, Place
  <2> QED
    BY <2>3
<1> QED
  BY <1>1, ListedAsIs

(* What the clone wrote is what a recovery finds on it.                    *)
THEOREM WrittenIsFound == Spec => []CloneIsFound
<1>1. AdjustInv => CloneIsFound
  <2> SUFFICES ASSUME AdjustInv
               PROVE  CloneIsFound
    OBVIOUS
  <2>0. last \in Nat /\ plan \in Tables /\ source \in Tables /\ New \in Tables
        /\ EntrySectors \in Nat
    BY AdjustAssumption, PlannedTable DEF AdjustInv, TypeOK, New
  <2>1. ASSUME result = "ok", ~lied, Used(plan) # {}
        PROVE  Found = {Place(plan[s]) : s \in Used(plan)}
    <3> DEFINE listing == Clipped(Entries(plan), last + 1)
    <3>1. \A s \in Used(plan) : /\ plan[s].first \in Nat /\ plan[s].last \in Nat
                                /\ plan[s].first <= plan[s].last /\ plan[s].last <= last
      <4>1. \A s \in Used(plan) : plan[s].first \in Nat /\ plan[s].last \in Nat
        BY <2>0, AdjustAssumption DEF Used, Tables
      <4>2. Fits(plan, LastUsable) \/ Fits(plan, last)
        BY <2>1 DEF AdjustInv, ResultKnown
      <4> QED
        BY <2>0, <4>1, <4>2 DEF Fits, LastUsable
    <3>2. listing = {Place(plan[s]) : s \in Used(plan)}
      BY <2>0, <3>1, ListedOnly
    <3>3. listing # {}
      BY <2>1, <3>2
    <3>4. CASE HasHeader
      <4>1. WrittenGpt /\ cur["mbr"] = Protective(last)
        BY <2>1, <3>4 DEF AdjustInv, ResultKnown
      <4>2. /\ cur["ph"].kind = "header" /\ cur["pe"].kind = "table" /\ cur["pe"].parts = plan
            /\ cur["mbr"].kind = "protective"
        BY <4>1, OtherKinds DEF WrittenGpt, Copy, Header, Table
      <4> QED
        BY <3>2, <3>3, <4>2 DEF Found, DetectPartitions, DetectGPT
    <3>5. CASE ~HasHeader
      <4>1. cur["mbr"] = Mbr("parts", plan)
        BY <2>1, <3>5 DEF AdjustInv, ResultKnown
      <4>2. cur["mbr"].kind = "parts" /\ cur["mbr"].parts = plan
        BY <4>1 DEF Mbr
      <4>3. MbrEntries(cur["mbr"]) = Entries(plan)
        BY <4>2, Zenon DEF MbrEntries
      <4> QED
        BY <3>2, <3>3, <4>2, <4>3 DEF Found, DetectPartitions
    <3> QED
      BY <3>4, <3>5
  <2>2. ASSUME Found # Anything, cur["mbr"].kind = "protective", HasHeader,
               NEW s \in Slots, source[s].kind = "basic",
               source[s].first <= source[s].last, source[s].last <= last
        PROVE  Place(source[s]) \in Found
    <3>1. cur["pe"] \in pend["pe"]
      BY DEF AdjustInv, ReadIsPending, Cells
    <3>2. PICK t \in Tables : cur["pe"] = Table(t) /\ Describes(t)
      <4>1. cur["pe"].kind = "table"
        BY <2>2 DEF Found, DetectPartitions, DetectGPT, HasHeader, Anything
      <4>2. cur["pe"] # Other /\ cur["pe"] # Mixed
        BY <4>1, OtherKinds
      <4>3. EntriesKnown(cur["pe"])
        BY <3>1, <4>2 DEF AdjustInv, ContentsKnown
      <4> QED
        BY <2>0, <4>2, <4>3 DEF EntriesKnown, Describes
    <3>3. t[s] = source[s] /\ s \in Used(t)
      BY <2>2, <3>2 DEF Describes, Used, Empty
    <3>4. Place(source[s]) \in Clipped(Entries(t), last + 1)
      BY <2>0, <2>2, <3>3, ListedAsIs
    <3>5. DetectGPT(cur, last + 1) = Clipped(Entries(t), last + 1)
      BY <2>2, <3>2 DEF DetectGPT, HasHeader, Table
    <3> QED
      BY <2>2, <3>4, <3>5 DEF Found, DetectPartitions
  <2> QED
    BY <2>1, <2>2 DEF CloneIsFound
<1> QED
  BY <1>1, AdjustHolds, PTL
=============================================================================
