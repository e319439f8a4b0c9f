----------------------------- MODULE DiskImage -----------------------------
(***************************************************************************)
(* recovery/image.go, createDiskImage: the source is copied chunk by chunk *)
(* through the adaptive reader to an image file, with a map of the units   *)
(* that could not be read.  A resumed call appends to the image the session*)
(* names, from the size the file has.                                      *)
(***************************************************************************)
EXTENDS RecoverCall

CONSTANTS
  ImageChunk,   \* chunkSize of the copy
  CancelPoints  \* waitControl calls a read may pass before it sees a cancel

ASSUME ImageAssumption == ImageChunk \in Nat \ {0} /\ CancelPoints \subseteq Nat

(* A cancel may arrive during any read.                                    *)
Passes == {Never} \cup (IF "cancel" \in Faults THEN CancelPoints ELSE {})

(* The image: the file the session names, from the size it has; any other  *)
(* is new, as each call of the window names its image by the time it was   *)
(* made at (main_windows.go:2338), so none of that name is there to go on. *)
WrongContinueAt == 0
ContinueAt == IF sess.path THEN Len(image.units) ELSE 0

OpenImage ==
  /\ mode = "image" /\ pc = "open"
  /\ image' = IF sess.path THEN image ELSE NoImage
  /\ at' = ContinueAt /\ startAt' = ContinueAt
  /\ Goto("image")
  /\ UNCHANGED <<fails, saved, index, files, report, badMap, sess, found, skip,
                 recovered, current, bad, quick, next, cancel, result, harm, resumes,
                 crashes, options>>

(* writeBadMap: what this call's reader recorded replaces the map.         *)
Map == BadUnits(bad)

ImageCancelled ==
  /\ mode = "image" /\ pc = "image" /\ at < SourceSize /\ cancel
  /\ badMap' = Map
  /\ Return("cancelled")
  /\ UNCHANGED <<fails, saved, index, files, report, image, startAt, harm, resumes,
                 crashes, options>>

(* Read errors are logged: the reader has filled what it could not read.   *)
ReadImage ==
  /\ mode = "image" /\ pc = "image" /\ at < SourceSize /\ ~cancel
  /\ \E passes \in Passes :
       LET want == Least(ImageChunk, SourceSize - at)
           st == [Stack(fails, passes, damage) EXCEPT !.bad = bad]
           r == AdaptiveRead(st, at, want)
       IN  /\ fails' = r.st.fails /\ bad' = r.st.bad
           /\ current' = [Nothing EXCEPT !.body = r.out]
           /\ cancel' = Cancelled(r.st)
  /\ Goto("imageWrite")
  /\ UNCHANGED <<saved, index, files, report, image, badMap, sess, at, found, skip,
                 recovered, quick, next, history, options>>

(* The chunk, and every two seconds, and at the end, the session.          *)
WriteImage ==
  /\ pc = "imageWrite"
  /\ image' = [image EXCEPT !.units = @ \o current.body]
  /\ at' = at + Len(current.body) /\ current' = Nothing
  /\ \E due \in BOOLEAN :
       IF due \/ at' >= SourceSize
       THEN /\ sess' = [sess EXCEPT !.phase = "imaging", !.path = TRUE]
            /\ SaveSession(sess')
       ELSE UNCHANGED <<sess, saved, harm>>
  /\ Goto("image")
  /\ UNCHANGED <<fails, index, files, report, badMap, found, skip, recovered, bad, quick,
                 next, cancel, result, startAt, resumes, crashes, options>>

(* An error ends the call; Recover writes the map if there is something in *)
(* it.                                                                     *)
Failed(fault) ==
  /\ May(fault)
  /\ badMap' = IF bad = <<>> THEN badMap ELSE Map
  /\ harm' = harm \cup {fault} /\ Return("failed")
  /\ UNCHANGED <<fails, saved, index, files, report, startAt, resumes, crashes, options>>

WriteImageFails ==
  /\ pc = "imageWrite"
  /\ \E n \in 0 .. Len(current.body) - 1 :
       image' = [image EXCEPT !.units = @ \o SubSeq(current.body, 1, n)]
  /\ Failed("write")

SyncImageFails == mode = "image" /\ pc = "image" /\ at >= SourceSize
                  /\ UNCHANGED image /\ Failed("sync")

SyncImage ==
  /\ mode = "image" /\ pc = "image" /\ at >= SourceSize
  /\ image' = [image EXCEPT !.synced = Len(image.units)]
  /\ badMap' = Map
  /\ sess' = [sess EXCEPT !.phase = "completed", !.done = TRUE]
  /\ Goto("imageDone")
  /\ UNCHANGED <<fails, saved, index, files, report, at, found, skip, recovered,
                 current, bad, quick, next, cancel, history, options>>

SaveImage ==
  /\ pc = "imageDone"
  /\ SaveSession(sess)
  /\ Return("ok")
  /\ UNCHANGED <<fails, index, files, report, image, badMap, startAt, resumes, crashes,
                 options>>

ImageNext == OpenImage \/ ImageCancelled \/ ReadImage \/ WriteImage
             \/ WriteImageFails \/ SyncImageFails \/ SyncImage \/ SaveImage

-----------------------------------------------------------------------------
ImageDone == mode = "image" /\ result = "ok" /\ pc = "idle" /\ "power" \notin harm

(* An image that was finished is the source, unit for unit and to its last *)
(* one, with zeros for what could not be read and for nothing else than the*)
(* smallest block of the damage mode around it: also when calls were killed*)
(* or failed half way through a write and the next one went on from the    *)
(* size the file happened to have.                                         *)
ImageFaithful ==
  ImageDone =>
    /\ Len(image.units) = SourceSize
    /\ \A i \in 1 .. SourceSize :
         \/ image.units[i] = i - 1
         \/ image.units[i] = Zero /\ NearWeak(i - 1)

(* The map of bad sectors has exactly the zeros this call wrote; those of  *)
(* an earlier call that it continued are in no map.                        *)
MapOfThisCall ==
  ImageDone =>
    badMap = {i - 1 : i \in {j \in startAt + 1 .. SourceSize : image.units[j] = Zero}}
=============================================================================
