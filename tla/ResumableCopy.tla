---------------------------- MODULE ResumableCopy ----------------------------
(***************************************************************************)
(* What recovery/clone.go promises of a copy that can be resumed, without  *)
(* how it is kept: no manifest, no checkpoint, no sync, no session file.   *)
(* docs/CLONAGEM.md, Retomada: work that was confirmed is not done again   *)
(* and not lost; a copy reported as done is all there.                     *)
(*                                                                         *)
(* A medium may be in doubt about a block: held[d][b] are the contents that*)
(* a power loss may leave there.  A confirmed block is in doubt about      *)
(* nothing but what it is allowed to hold.                                 *)
(*                                                                         *)
(* One exception is part of the promise, because the program makes it: the *)
(* record of what was copied may be lost with a stop or an error.  From    *)
(* then on, until a copy starts over, only the other disks are safe.       *)
(***************************************************************************)
EXTENDS Naturals

CONSTANTS
  N,            \* number of blocks
  Disks,        \* destinations
  Contents,     \* what a block may hold
  Table,        \* blocks that are written again after they are confirmed
  Unfinished,   \* contents of a table that is being written again
  Allowed(_, _) \* contents a copied block may hold, given the reported ones

VARIABLES
  held,    \* by disk and block: the contents a power loss may leave
  mark,    \* what is confirmed: a disk, how far, and the blocks reported
  call,    \* "none", "running", "ok" or "error"
  order,   \* the disk and whether to resume, of the last call
  report,  \* the blocks the last call reported
  whole    \* the record of the confirmed blocks was not lost

vars == <<held, mark, call, order, report, whole>>

Blocks == 0 .. N-1
NoMark == [disk |-> "none"]

Init ==
  /\ held \in [Disks -> [Blocks -> (SUBSET Contents) \ {{}}]]
  /\ mark = NoMark /\ call = "none" /\ report = {} /\ whole = TRUE
  /\ order.disk \in Disks /\ order.resume \in BOOLEAN

(* What a confirmed block may hold.                                        *)
Settled(b, reported) == Allowed(b, reported) \cup (IF b \in Table THEN Unfinished ELSE {})

(* No doubt arises about another disk or a confirmed block; doubts about a *)
(* table are among those it may have.                                      *)
Confirmed(d, b) == mark # NoMark /\ mark.disk = d /\ b < mark.off
Careful ==
  \A d \in Disks, b \in Blocks :
    /\ held'[d][b] # {}
    /\ \/ held'[d][b] \subseteq held[d][b]
       \/ d = order.disk /\ (~Confirmed(d, b) \/ ~whole)
       \/ d = order.disk /\ b \in Table /\ held'[d][b] \subseteq Settled(b, mark.bad)

(* A copy is ordered, with what was confirmed or without.                  *)
Order(d, resume) ==
  /\ call # "running" /\ call' = "running"
  /\ order' = [disk |-> d, resume |-> resume] /\ report' = {}
  /\ UNCHANGED <<held, mark, whole>>

Write ==
  /\ call = "running" /\ Careful
  /\ UNCHANGED <<mark, call, order, report, whole>>

(* What is confirmed is what it may be, and more than before.              *)
Confirms ==
  /\ mark'.disk = order.disk /\ mark'.off \in 0 .. N
  /\ whole =>
       /\ \A b \in 0 .. mark'.off - 1 : held[order.disk][b] \subseteq Settled(b, mark'.bad)
       /\ mark # NoMark =>
            mark.disk = order.disk /\ mark'.off >= mark.off /\ mark.bad \subseteq mark'.bad

Confirm ==
  /\ call = "running" /\ Confirms
  /\ UNCHANGED <<held, call, order, report, whole>>

(* Confirmed work is given up only where it was not asked for, belongs to  *)
(* another disk, is none, or its record was lost; the copy starts over.    *)
Withdraw ==
  /\ call = "running" /\ mark' = NoMark /\ whole' \in {whole, TRUE}
  /\ \/ mark # NoMark /\ (~order.resume \/ mark.disk # order.disk \/ mark.off = 0)
     \/ ~whole
  /\ UNCHANGED <<held, call, order, report>>

(* Done: every block is there and stays.                                   *)
Succeed ==
  /\ call = "running" /\ call' = "ok"
  /\ whole => \A b \in Blocks : held[order.disk][b] \subseteq Allowed(b, report')
  /\ UNCHANGED <<held, mark, order, whole>>

(* What is left of the record may be less than what is confirmed.          *)
MayLose == UNCHANGED whole \/ (whole' = FALSE /\ mark # NoMark /\ mark.off # 0)

(* An error may come with the last of the work confirmed, or with a table  *)
(* that was not finished.                                                  *)
GiveUp ==
  /\ call = "running" /\ call' = "error" /\ report' \subseteq Blocks
  /\ \/ UNCHANGED mark /\ Careful /\ MayLose
     \/ UNCHANGED <<held, whole>> /\ Confirms
  /\ UNCHANGED order

(* The program or the machine stops, and the doubts are settled somehow.   *)
Stop ==
  /\ call' = "none" /\ report' = {} /\ Careful /\ MayLose
  /\ UNCHANGED <<mark, order>>

Next ==
  \/ \E d \in Disks, resume \in BOOLEAN : Order(d, resume)
  \/ Write \/ Confirm \/ Withdraw \/ Succeed \/ GiveUp \/ Stop

Spec == Init /\ [][Next]_vars
=============================================================================
