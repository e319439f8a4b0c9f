---------------------------- MODULE RecoverCall ----------------------------
(***************************************************************************)
(* recovery/engine.go, Recover, and what its three modes share: the session*)
(* of prepareSession and saveSession, the report that lists the recovered  *)
(* files, the end of a call, the user and the machine.  DiskImage,         *)
(* DeepExtract and QuickNtfs are the modes, Recover composes them.         *)
(*                                                                         *)
(* Simplifications.                                                        *)
(*  - One session: a call that does not resume works in a new directory    *)
(*    and touches nothing of an older session.                             *)
(*  - saveSession replaces the session file in one durable step or fails,  *)
(*    which every caller but prepareSession ignores.                       *)
(*  - Of the reports the JSON one is kept: a later call reads it back.     *)
(*    os.WriteFile truncates it and then writes it.                        *)
(*  - A pause only delays and is left out.                                 *)
(***************************************************************************)
EXTENDS Ntfs, SortIndex

CONSTANTS
  Faults,          \* what may go wrong: a subset of FaultKinds
  MaxResumes,      \* bound: calls after the first
  MaxCrashes,      \* bound: processes killed and power losses
  MaxHarm,         \* bound: kinds of fault in one behaviour, but for the cancel
  SkipDuplicates,  \* the option
  SaveEvery        \* 50: a deep session is saved at least that often

FaultKinds == {"kill", "power", "cancel", "write", "save", "sync"}

ASSUME CallAssumption ==
  /\ Faults \subseteq FaultKinds
  /\ MaxResumes \in Nat /\ MaxCrashes \in Nat /\ MaxHarm \in Nat /\ SaveEvery \in Nat \ {0}
  /\ SkipDuplicates \in BOOLEAN

VARIABLES
  mode,       \* mode and damage mode: options of the session
  damage,
  given,      \* what a deep session's scan found, in the order of its file
  weak,       \* the units that failed to read at first
  volume,     \* the NTFS volume a quick session reads
  fails,      \* the source: how often each unit still fails to read
  saved,      \* the session file
  index,      \* the sorted index of a deep session, or NoIndex
  files,      \* recovered files on disk: [name, body, cut]
  report,     \* the JSON report: [state, items]
  image,      \* the image file: [units, synced]
  badMap,     \* MAPA_DE_SETORES_RUINS: units, or NoMap
  pc,         \* where the call is, and where it goes after the report
  next,
  sess,       \* session in memory
  at,         \* candidates, entries or units done
  found,      \* filesFound
  skip,       \* skipUntil
  recovered,  \* items for the report: [name, body, dup]
  current,    \* what is being copied
  bad,        \* bad ranges of the adaptive reader
  blocks,     \* blocks of the cached reader
  vol,        \* the opened NTFS volume
  entries,    \* parsed MFT records, then the deleted files to recover
  cancel,
  result,     \* how the last call ended
  startAt,    \* history: where the image of the last call was continued
  harm, resumes, crashes

onDisk == <<fails, saved, index, files, report, image, badMap>>
quick == <<blocks, vol, entries>>
memory == <<sess, at, found, skip, recovered, current, bad, quick>>
history == <<result, startAt, harm, resumes, crashes>>
options == <<mode, damage, given, weak, volume>>
vars == <<onDisk, memory, pc, next, cancel, history, options>>

NoSession == [phase |-> "none", processed |-> 0, found |-> 0, path |-> FALSE, done |-> FALSE]
NewSession == [NoSession EXCEPT !.phase = "created"]
NoReport == [state |-> "none", items |-> <<>>]
Torn == [state |-> "torn", items |-> <<>>]
NoImage == [units |-> <<>>, synced |-> 0]
NoMap == {-1}
NoIndex == <<[off |-> -1, kind |-> 0]>>
Nothing == [name |-> <<>>, body |-> <<>>, cut |-> FALSE]
May(fault) == fault \in Faults /\ Cardinality(harm \cup {fault}) <= MaxHarm
Goto(label) == pc' = label

(* The sources, and what a scan found on them, the instance starts from.   *)
InitWith(sources) ==
  /\ \E s \in sources :
       /\ mode = s.mode /\ damage = s.damage /\ fails = s.fails
       /\ weak = {p \in 0 .. SourceSize - 1 : s.fails[p] > 0}
       /\ given = s.given /\ volume = s.volume
  /\ saved = NoSession /\ index = NoIndex /\ files = {} /\ report = NoReport
  /\ image = NoImage /\ badMap = NoMap
  /\ pc = "idle" /\ next = "idle" /\ sess = NoSession /\ at = 0 /\ found = 0
  /\ skip = 0 /\ recovered = <<>> /\ current = Nothing /\ bad = <<>>
  /\ blocks = <<>> /\ vol = NoVolume /\ entries = <<>> /\ cancel = FALSE
  /\ result = "none" /\ startAt = 0 /\ harm = {} /\ resumes = 0 /\ crashes = 0

(* The call ends: nothing of its memory is left.                           *)
Forget ==
  /\ pc' = "idle" /\ next' = "idle" /\ sess' = NoSession /\ at' = 0 /\ found' = 0
  /\ skip' = 0 /\ recovered' = <<>> /\ current' = Nothing /\ bad' = <<>>
  /\ blocks' = <<>> /\ vol' = NoVolume /\ entries' = <<>> /\ cancel' = FALSE
Return(how) == Forget /\ result' = how

SaveSession(state) ==
  \/ saved' = state /\ UNCHANGED harm
  \/ May("save") /\ harm' = harm \cup {"save"} /\ UNCHANGED saved

(* prepareSession: a new session, in a directory of its own.               *)
StartNew ==
  /\ pc = "idle" /\ saved = NoSession
  /\ saved' = NewSession /\ sess' = NewSession
  /\ index' = IF mode = "deep" THEN SortCandidates(given) ELSE NoIndex
  /\ Goto("open")
  /\ UNCHANGED <<fails, files, report, image, badMap, at, found, skip, recovered,
                 current, bad, quick, next, cancel, history, options>>

(* prepareSession with the option Resume: the interrupted session.         *)
Resume ==
  /\ pc = "idle" /\ saved # NoSession /\ ~saved.done /\ resumes < MaxResumes
  /\ sess' = saved /\ resumes' = resumes + 1
  /\ Goto("open")
  /\ UNCHANGED <<onDisk, at, found, skip, recovered, current, bad, quick, next, cancel,
                 result, startAt, harm, crashes, options>>

(* writeJSONReport: truncated, written.  Its errors, and that of the text  *)
(* report before it, are ignored.                                          *)
WriteReport ==
  /\ pc \in {"report", "reportBody"}
  /\ \/ /\ pc = "report" /\ report' = Torn /\ Goto("reportBody")
        /\ UNCHANGED harm
     \/ /\ pc = "reportBody" /\ report' = [state |-> "ok", items |-> recovered]
        /\ Goto(next) /\ UNCHANGED harm
     \/ /\ May("write") /\ harm' = harm \cup {"write"}
        /\ Goto(next) /\ UNCHANGED report
  /\ UNCHANGED <<fails, saved, index, files, image, badMap, memory, next, cancel,
                 result, startAt, resumes, crashes, options>>

(* After the last report; a call that finished removes the index.          *)
ReturnCancelled == pc = "cancelled" /\ Return("cancelled")
                   /\ UNCHANGED <<onDisk, startAt, harm, resumes, crashes, options>>
Finished == pc = "finished" /\ Return("ok") /\ index' = NoIndex
            /\ UNCHANGED <<fails, saved, files, report, image, badMap, startAt, harm,
                           resumes, crashes, options>>

(* uniquePath: a second file of the same name gets a number.               *)
Taken(base, n) == \E f \in files : f.name = <<base, n>>
WrongUniquePath(base) == <<base, 1>>
UniquePath(base) ==
  <<base, CHOOSE n \in 1 .. Cardinality(files) + 1 :
            ~Taken(base, n) /\ \A k \in 1 .. n - 1 : Taken(base, k)>>

(* hashes: the first file recovered with these contents.                   *)
WrongKnown(body) == {i \in {Len(recovered)} \cap DOMAIN recovered : recovered[i].body = body}
Known(body) == {i \in DOMAIN recovered : recovered[i].body = body /\ ~recovered[i].dup}
Duplicate(body) == SkipDuplicates /\ Known(body) # {}

(* Units that may be lost with a unit that does not read: the smallest     *)
(* block the reader splits to, and the sectors at its ends; and what is    *)
(* behind the last whole sector.                                           *)
NearWeak(unit) ==
  \/ \E w \in weak : unit - w \in -MinBlock(damage) - Sector .. MinBlock(damage) + Sector
  \/ unit >= AlignDown(SourceSize)

(* The rename of a copied file to its final name; or it was a duplicate.   *)
(* os.Rename replaces a file of that name.                                 *)
Keep(file) ==
  IF Duplicate(file.body)
  THEN LET known == CHOOSE i \in Known(file.body) : TRUE
       IN  /\ recovered' = Append(recovered, [name |-> recovered[known].name,
                                              body |-> file.body, dup |-> TRUE])
           /\ UNCHANGED <<files, found>>
  ELSE /\ recovered' = Append(recovered, [name |-> file.name, body |-> file.body, dup |-> FALSE])
       /\ files' = {f \in files : f.name # file.name} \cup {file}
       /\ found' = found + 1

-----------------------------------------------------------------------------
(* The user and the machine.                                               *)

Cancel ==
  /\ "cancel" \in Faults /\ pc # "idle" /\ ~cancel
  /\ cancel' = TRUE
  /\ UNCHANGED <<onDisk, memory, pc, next, history, options>>

(* A write that the process dies in may have stored a part.                *)
Stored == IF pc = "imageWrite"
          THEN {[image EXCEPT !.units = @ \o SubSeq(current.body, 1, n)] :
                  n \in 0 .. Len(current.body)}
          ELSE {image}

Kill ==
  /\ May("kill") /\ pc # "idle" /\ crashes < MaxCrashes
  /\ crashes' = crashes + 1
  /\ harm' = harm \cup IF pc = "reportBody" THEN {"kill", "torn"} ELSE {"kill"}
  /\ image' \in Stored
  /\ Return("killed")
  /\ UNCHANGED <<fails, saved, index, files, report, badMap, startAt, resumes, options>>

(* A power loss also takes what was not synced: the end of the image, or   *)
(* the contents of its last part.  Modelled for the image only.            *)
Garbage == -2
Power ==
  /\ May("power") /\ mode = "image" /\ pc # "idle" /\ crashes < MaxCrashes
  /\ crashes' = crashes + 1 /\ harm' = harm \cup {"power"}
  /\ \E n \in image.synced .. Len(image.units), lost \in BOOLEAN :
       image' = [image EXCEPT !.units =
                   [i \in 1 .. n |-> IF lost /\ i > image.synced THEN Garbage ELSE @[i]]]
  /\ Return("killed")
  /\ UNCHANGED <<fails, saved, index, files, report, badMap, startAt, resumes, options>>
=============================================================================
