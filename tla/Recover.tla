------------------------------- MODULE Recover -------------------------------
(***************************************************************************)
(* recovery/engine.go, Recover: a session of one of the three modes, with  *)
(* the user who cancels and resumes and the machine that stops under it.   *)
(***************************************************************************)
EXTENDS DiskImage, DeepExtract, QuickNtfs

CONSTANT Sources   \* what the instance starts from: mode, damage, fails, given, volume

ASSUME SourcesAssumption ==
  \A s \in Sources :
    /\ s.mode \in {"image", "deep", "quick"} /\ s.damage \in Damages
    /\ s.fails \in [0 .. SourceSize - 1 -> Nat]
    /\ s.given \in Seq([off : Nat, kind : Nat])

Init == InitWith(Sources)

Call == ImageNext \/ DeepNext \/ QuickNext \/ WriteReport \/ ReturnCancelled \/ Finished
Next == StartNew \/ Resume \/ Call \/ Cancel \/ Kill \/ Power

Spec == Init /\ [][Next]_vars

Labels == {"idle", "open", "image", "imageWrite", "imageDone", "deep", "deepCopy",
           "deepSave", "mft", "quick", "quickCopy", "report", "reportBody", "cancelled",
           "finished", "failed"}
File == {"name", "body", "cut"}

(* The state has its type: labels, a session of the mode, counts in range. *)
TypeOK ==
  /\ pc \in Labels /\ next \in {"idle", "deep", "cancelled", "finished", "failed"}
  /\ saved.phase \in {"none", "created", "imaging", "extracting", "completed"}
  /\ \A p \in DOMAIN fails : fails[p] \in Nat
  /\ report.state \in {"none", "ok", "torn"}
  /\ \A f \in files : DOMAIN f = File
  /\ Len(image.units) <= SourceSize /\ image.synced <= SourceSize
  /\ at \in Nat /\ found \in 0 .. Len(recovered) + sess.found /\ cancel \in BOOLEAN
  /\ resumes <= MaxResumes /\ crashes <= MaxCrashes
  /\ result \in {"none", "ok", "cancelled", "failed", "killed", "panic"}

(* A file that was recovered is never replaced or removed, by the call that*)
(* stored it or by one that goes on in the same directory.                 *)
NeverOverwritten == [][files \subseteq files']_files
=============================================================================
