-------------------------- MODULE CloneRefinement --------------------------
(* CloneDisk as an implementation of ResumableCopy.                        *)
EXTENDS CloneDisk

(* What is confirmed is the session file.                                  *)
Mark == IF saved = NoState THEN saved
        ELSE [disk |-> saved.disk, off |-> saved.off, bad |-> saved.bad]

Promise == INSTANCE ResumableCopy WITH
  Contents <- Content, Table <- GptBlocks, Unfinished <- {"gptmix"}, Allowed <- Faithful,
  held <- pend, mark <- Mark,
  call <- IF pc = "idle" THEN result.kind ELSE "running",
  order <- [disk |-> target, resume |-> opt.resume],
  report <- result.bad, whole <- rewrite # "cut"

(* docs/CLONAGEM.md, Retomada: a copy that is resumed neither loses nor    *)
(* repeats work it confirmed, and one reported as done is all there;       *)
(* confirmed work is given up only when it was not asked for or belongs to *)
(* another disk.  It holds whatever stopped the copy, but for a crash that *)
(* cuts the manifest being written back: AdjustedIsTrue shows what follows.*)
KeepsPromise == Promise!Spec
=============================================================================
