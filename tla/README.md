# HdRecover in TLA+

Formal models of HdRecover's disk cloning and recovery (Go, `src/`): modules that
follow the source function by function, TLC configurations that check them on
small instances, and proofs of the most important properties for every instance.
Paths are relative to the repository; line numbers are those of this commit.

## The system

HdRecover clones disks, makes disk images and recovers files on Windows. A GUI
(`main_windows.go`) starts one operation at a time on a goroutine; the operations
are in package `recovery`. The parts, the state they keep, and what makes them hard:

| part | code | state | operations | talks to |
|---|---|---|---|---|
| raw clone | `recovery/clone.go` `CloneDisk` | destination disk; session `CLONAGEM_SESSAO.json`; manifest `CLONAGEM_BLOCOS.ndjson`; in-memory `cloneState`, offset, last sync | open or resume, copy block, checkpoint, verify, report | source through the adaptive reader, destination device, report directory, cancel channel, `paused` callback |
| table adjustment | `clone.go` `adjustPartitionTableForDestination` | MBR, both GPT copies on the destination | plan, write backup, sync, write primary, sync, read back | called by the clone after the copy |
| deep scan | `recovery/deep.go` | session, `ScanOffset`, candidate index, worker channels | read, scan in parallel, collect, checkpoint, resume | adaptive reader, candidate store |
| extraction | `deep.go` `recoverDeep` | recovered files, hashes, `Processed` | carve, hash, rename, drop duplicates, checkpoint | carvers of `engine.go`, session |
| candidate store | `recovery/candidate_store.go` | index file of 16-byte records, sorted file | append, flush, chunk, merge | deep scan |
| disk image | `recovery/image.go` | image file, bad-sector map | read, append, checkpoint, resume by file size | adaptive reader, session |
| sessions | `recovery/session.go` | session file | load, match, replace atomically | scan, extraction, image |
| readers | `adaptive_reader.go`, `aligned_reader.go`, `cached_reader.go`, `mapped_reader.go` | bad ranges; cached blocks | read with retries and halving, align, cache, map to snapshots | all of the above |
| NTFS, free space, partitions | `ntfs.go`, `free_space.go`, `partition.go` | none (parsing) | decode run lists, bitmap, tables | scan |
| carvers | `engine.go` | none (parsing) | find signatures, measure files | scan and extraction |
| clone operation | `main_windows.go` `startClone`, `runClone`, `finishWithError`, `cancelRecovery` | `running`, `paused`, `cancel`, completion | revalidate disks, shrink, snapshot, lock, clone, restore | smart migration, VSS, disk access, `CloneDisk` |
| smart migration | `smart_migration_windows.go` | plan, restore plan, size of the source partition | analyse, shrink, restore | PowerShell |
| VSS | `vss_windows.go` | snapshot set | create, open, delete | PowerShell |
| disk access | `disk_windows.go` | volume locks, disk offline flag | lock, dismount, release | Windows |

What is hard here:

- **Crashes.** The clone's promise ("resume at the confirmed checkpoint") rests on
  the order of four durable effects - destination, manifest, session, table -
  and on what the next call does with any prefix of them.
- **Failing steps.** Every write, sync and save can fail, and the error path
  itself saves the session.
- **Long sequences of calls.** A session is resumed, restarted, verified later, on
  another disk, after its table was rewritten; flags and bad ranges outlive calls.
- **Two copies of one table.** The GPT rewrite must always leave one readable.
- **Concurrency.** Scan workers finish out of order, a collector turns their
  results into one offset; the GUI cancels and pauses at any time.
- **Numbers.** Short last blocks, inclusive and exclusive ends, overlapping ranges.

What makes each part correct, in one sentence each: a *clone* that says it
succeeded is exact and durable, its report complete, its session never ahead of
the disk; an *adjustment* never loses the layout and writes a table that fits; a
*scan* never skips a candidate across resumes; an *extraction* neither loses nor
repeats a file; an *image* has the source's bytes at their offsets; a *reader*
returns the bytes of the source or zeros it has recorded; an *operation* gives the
source partition its size back and releases every lock, and never runs twice.

## What is modelled

### `CloneDisk.tla` (the whole of `CloneDisk`, clone.go:109-630)

The unit of data is the block of `ChunkSize`; what a block holds is a name:
`old` (what was on the destination), `data` (the source's bytes), `zero`
(unreadable, filled), `gpt`/`gptmix` (table adapted / half rewritten), `torn`.

| state | code |
|---|---|
| `cur`, `pend` | the destination: what a read returns; what a power loss may leave (the write cache) |
| `man`, `manLen`, `manDur` | the manifest: what each line's hash stands for; lines in the file; lines certain to survive |
| `saved` | the session file |
| `completed`, `verified`, `gpt`, `bad`, `offset` | the variable `state` |
| `pc` and the rest | where the function is, its locals (`lastSync`, `block`, `copyErr`, the writer's sticky error, verification counters) |
| `rewrite` | history only: whether the last rewriting of the manifest is `unsynced`, or was `cut` to fewer lines than the session counts |
| `cancel`, `paused` | the cancel channel and the `Paused` callback |

Actions follow the function from top to bottom: `Load` (157-187), `Discard`
(188-197), `TruncateManifest` and `WriteBackManifest` (`rewriteCloneManifest`),
`CheckLastBlock` (202-229, with the early return of a finished session),
`OpenManifest`; the loop's `CopyCancelled`, `ReadBlock`, `WriteBlock`/
`WriteBlockFails`, `AppendManifest`; the three steps of `checkpoint`
(`CheckpointManifest`, `CheckpointDestination`, `CheckpointSave`) with its two
callers; `ManifestCloseFails`, the error path `SaveInterrupted`, `FinalSync`, `MarkCompleted`;
`VerifyBlock`, `VerifyStops`, `VerifyDone`, `VerifyResult`; `AdjustTable`,
`NoTable`, `TableRefused`, `AdjustSync`, `SaveAdjusted`, `WriteReports`. The
environment is `Start` (any disk, any of Resume and Verify), `Cancel`,
`TogglePause`, `Kill` (between any two steps and in the middle of a write, of the
table rewrite or of the manifest rewrite, which leaves the lines written back by
then) and `PowerLoss` (any unsynced write may be lost or torn, the unsynced end of the
manifest cut). The constant `Faults` says what may go wrong in an instance, so that a
run names its assumptions; no point of the function is spared by a crash.

The rewriting of the manifest at a resume (`rewriteCloneManifest`, clone.go:540-558)
is the code's weak point: it empties the file the session is checked against and
syncs nothing. What it breaks is finding 2. `rewrite = "cut"` marks the behaviours in
which that happened,
and the properties that hold otherwise say so in their statement: `CloneFaithful`,
`ResumeNeverRefused`, `AdjustedMeansAdjusted`, `VerifiedKept`. A session that starts
over clears the mark, as nothing of the old one is left, unless `GPTAdjusted` is.

Abstractions: sizes, sector and chunk of a session are constants, so
`cloneStateMatches` compares identities; `saveCloneState` (temporary file, sync,
rename) and `os.Remove` are durable in one step; blocks that hold the table are
readable; adapting a table leaves other contents than the source's; one name stands for all zeros.
`AdjustGPT` is always set, as the GUI sets it; `Resume` with VSS or smart
migration is not offered by the GUI, which is a `Start` without `resume`.

### `GptAdjust.tla` (`adjustPartitionTableForDestination`, clone.go:632-944)

Five cells - MBR, primary header and entries, backup header and entries - each with
what a read returns and what a power loss may leave. A header names the table its
CRC was computed over, so a header and entries that do not belong together are
seen as the code sees them. `PlanGpt` and `PlanMbr` compute the plan (kept,
dropped, refused: 671-715, 734-848); then one action per write and sync in the
code's order, and `Validate` for `validateWrittenGPT`. The destination may be
smaller than, as large as, or larger than the source, tables are all the tables of
three slots (interchangeable) over six partitions (valid, overlapping, reaching past the end, recovery or not), the
copied header or entries may be damaged, the MBR of every kind. In `CloneDisk` the
same function is three actions (`AdjustTable`, `NoTable`/`TableRefused`,
`AdjustSync`): `GptAdjust` justifies them by showing what a cut rewrite leaves.

### `DeepScan.tla` (`recoverDeep` to the sorted index: deep.go:18-128 and 244-381, candidate_store.go, session.go, `prepareSession`)

One reader, several workers and one collector joined by two channels whose capacity
is the number of workers. The unit of length is the 128 bytes that two reads
overlap; a candidate is the place of a file signature and the units `detect` needs.

| state | code |
|---|---|
| `saved` | the session file: phase, `ScanOffset`, `Completed` |
| `file`, `buf`, `writerBad` | the candidates file, what `bufio.Writer` still holds, the error it keeps |
| `sorted` | the sorted index |
| `pc`, `rng`, `resumeAt`, `offset`, `carry`, `scanErr` | `recoverDeep`, `scanRangesToStore` and the reader of `scanDiskToStore` |
| `jobs`, `busy`, `results` | the channels and the chunks being searched |
| `col`, `processed`, `collectErr`, `due`, `sess` | the collector's goroutine and the session in memory |
| `workers` | `performanceSettings`; the options are part of the session's signature, so a session keeps them |
| `harm`, `finished` | history only, for the properties |

A kill forgets everything but the three files. `Collect`, `Flush` and
`SaveProgress` are separate steps, as a kill may fall between them. `saveSession`
sets `LastUpdate` only in its own copy, so a new session is saved after every result
and a resumed one as soon as two seconds have passed since the last call (`due`).
Abstractions: a session per directory (a call that does not resume makes another
one); bytes that do not read are zeros, where no signature is found; a record cut
in two by a failing write; a read cut short delivers at least a sector from the start of a range
(`Sector`, more than the overlap: 512 bytes and 128; with less, an offset saved below the overlap
would be resumed in the middle of a candidate); the extraction is one step that only reads the index (its steps are `DeepExtract`).

### `ResumableCopy.tla`, `CloneRefinement.tla` (what the clone promises)

`ResumableCopy` is a resumable copy without its machinery: `held` (by disk and
block, the contents a power loss may leave), `mark` (what is confirmed: a disk, how
far, the blocks reported), the call and its outcome. Confirmed work is only given up
when it was not asked for or belongs to another disk; a block that is confirmed is
in doubt about nothing but what it may hold; a call that succeeds left every block
certain. All this as long as the copy is `whole`: a crash or an error may lose a part
of the record (`MayLose`), after which confirmed work may be given up, until the copy
starts over. In the code that is a manifest cut while it is written back (finding 2),
and nothing else: `whole` is mapped to `rewrite # "cut"`. `CloneRefinement` maps the session file to `mark` and `pend` to `held`;
`KeepsPromise` is checked as a property of `clone_crash` and proved. Manifest, checkpoint, sync
and error path disappear in the mapping: each of their steps is a stutter or one of
`Write`, `Confirm`, `Withdraw`, `Succeed`, `GiveUp`, `Stop`.

### `Partitions.tla` (`DetectPartitions`, partition.go:43-164)

Reads the cells `GptAdjust` writes as a recovery reads the cloned disk: the MBR, and
behind a protective one the primary table, without any checksum. `CloneIsFound` ties
the two components: what the clone wrote, cut short anywhere or finished, is listed.

### `Recover.tla` (`Recover`, engine.go:133-181) and the modules it composes

| module | code | what it is |
|---|---|---|
| `Readers` | aligned_reader.go, adaptive_reader.go, cached_reader.go | functions: a read of the stack, with the device's failures, the cancel and the bad ranges as part of its state |
| `SortIndex` | candidate_store.go:83-283 | functions: chunks sorted and de-duplicated, merged through the heap |
| `Ntfs` | ntfs.go:181-575 | functions: geometry, run lists, records, streams over runs, paths |
| `RecoverCall` | engine.go, session.go, reports.go | the variables of a call and of what is on disk, sessions, reports, the ends of a call, `Keep` (duplicate or rename), `Cancel`, `Kill`, `Power` |
| `DiskImage` | image.go | actions of `createDiskImage` |
| `DeepExtract` | deep.go:123-257 | actions of the extraction |
| `QuickNtfs` | ntfs.go:65-178, 238-295, 505-548 | actions of `recoverQuickNTFS` |

What is at position `p` of the source is the number `p`, so "the right bytes at the
right offset" is an equation. `fails[p]` says how often a read of `p` still fails,
and a recovered file is its name and its contents. On disk are the source's failures,
the session, the index, the files, the JSON report (which a resumed extraction reads
back), the image and its map; everything else is lost by a kill. The readers, the
sort and the NTFS parsing are functions, recursive where the code loops or calls
itself. What the carvers find is a constant.

### `CloneOperation.tla` (`startClone`, `runClone`, `startRecovery`, `runRecovery`, cancel, the window's end)

| state | code |
|---|---|
| `running`, `loading`, `completed`, `completionOK`, `listed`, `latest` | `app.state`; `latest` is the operation whose cancel channel it holds |
| `ui` | the confirmation on the screen: what the user is asked may be old when answered |
| `op[i]` | the goroutine of an operation: where it is, the disks and plan it holds, `sourceShrunk`, locked volumes, the disks opened to read and to write, snapshot ranges, what was copied, its outcome |
| `attached`, `layout`, `shadows`, `planFile` | the machine: disks by number, the source's partitions, exposed snapshots, `PLANO_MIGRACAO_INTELIGENTE.json` |
| `made`, `agreed`, `tangled`, `slipped`, `replaced`, `harm` | history only |

Actions follow `runClone`: `Revalidate`, `Replan`, `Shrink`/`Unshrink`, `Access`,
`Lock` (one volume a step), `Open`, `CreateSnapshots`, `OpenSnapshots`, the copy,
`Release`, `Restore`, `Finish`, and `Cleanup`/`CleanupRestore` for the deferred
function, which runs after `finishWithError` (`GiveUp`) has already cleared
`running` - so a second operation can be live. The environment exchanges disks, fills
volumes, fails every Windows call, panics, closes the window and runs the restoring
script. `Open` opens both disks by number, whatever is there by then
(disk_windows.go:703, 713): another disk in the place of the source is read as what
it is, and one that goes away later reads as zeros. `Shrink` accepts any size within
1 MiB of the plan's that Windows may choose (smart_migration_windows.go:323).
`SmartPlan` (smart_migration_windows.go:49-264) and `MappedReader`
(mapped_reader.go) are the functions it uses: the plan and the reads are computed,
not assumed. The copy is one read and write per chunk; what `CloneDisk` does with
sessions and crashes is its own module.

## Runs

| run | instance | what it shows |
|---|---|---|
| `clone_crash` | 3 blocks (one unreadable, one flaky, one with the table), checkpoint every 2, two disks, 4 sessions, 2 crashes; kills, power losses, failing writes and saves | `CloneFaithful`: a successful call left a durable, exact, reported, adapted clone. `ResumeNeverRefused`: the check of the last block never locks the owner out. `AdjustedMeansAdjusted`. `KeepsPromise`: `CloneDisk` implements `ResumableCopy`. All four of sessions whose manifest no crash cut while it was written back. `ContentsFaithful` (for blocks that always or never read) and `SavedStateSafe` (the session file counts no block a power loss can take) also when a session resumes *behind* its saved offset because its manifest was cut |
| `clone_verify` | 3 blocks, 3 sessions, a crash, every kind of failing step, a destination that may store other bytes, cancel and pause, fairness | `VerifiedHere`: a call that verified the clone and is about to report it is right, whatever failed before. `VerifiedKept`: so is one reported as verified because its session file says so, unless its manifest was cut. `CancelEnds` (also while paused), `SessionEnds` |
| `gpt_adjust` | see above, 2 adjustments, 1 crash, failing and lying writes and syncs | `LayoutNeverLost`, `AdjustedConsistent`, `DestinationFits`, `RepeatableUnlessDropping`, `CloneIsFound` |
| `deep_scan` | two ranges of 5 and 3 units apart from each other, chunks of 2, sectors of 2, candidates at the start, across chunks, at and across the end of a range; one and two workers; kills, cancels, failing writes and saves, any number of calls | `SessionSafe`: whatever the session file says, the next call still finds every candidate. `IndexComplete`, `WriteErrorReported`, `OffsetNeverBack` |
| `deep_live` | four chunks, more than one worker and its channels hold; cancel, pause, failing writes and saves, fairness | `CancelEnds`, `ScanEnds`: reader, workers and collector never block each other for good |
| `recover` | a source of 16 units in sectors of 2; images with sound, weak and broken sectors in each damage mode, extractions with nested, repeated and crossing files, NTFS volumes with fragmented MFT and files; 2 resumes, cancels, one kind of fault | `ImageFaithful`, `MapOfThisCall`; `IndexExact`, `NothingMissed`, `ReportComplete`, `NoCopyTwice`; `QuickFaithful`, `QuickComplete`; `NeverOverwritten` |
| `clone_operation` | five machines (smart plan that drops recovery and shrinks, one with nothing to drop, one that is too full, a secondary disk, one whose plan depends on the destination), two or three destinations, a spare disk, two operations; each fault alone and the pairs that follow each other | `WritesGuarded`: only a confirmed disk is written, all volumes locked or in a snapshot. `NothingLeftBehind`, `RestorePlanKept`, `ShrinkSafe`, `CompletionHonest` (of operations that opened the source they were confirmed for) |
| `deep_unsafe_point` | two workers, kill | finding 4 |
| `clone_stale_adjusted` | 4 sessions, kills | finding 2 |
| `operation_exchanged` | a secondary disk, one operation, a disk exchanged | finding 5 |
| `clone_unsynced` | failing sync | finding 1 |
| `clone_table_lockout` | kill | finding 3 |

`CHECK_DEADLOCK FALSE` is set in all of them because the number of sessions
(`MaxSessions`, `MaxResumes`), adjustments (`MaxRuns`) or operations (`MaxOps`) is
bounded, and a deep scan that has completed is not started again: nothing runs then,
the program has simply ended.

**Bounds.** Three blocks and a checkpoint every two give every position that
matters: a block before, at and after a checkpoint, the first (with the table), the
last (shorter checkpoint distance), an unreadable and a flaky one. Four sessions
with two crashes give every sequence *interrupt, resume, interrupt again, resume* after
a finished or interrupted clone; where a second disk is used there are three, enough to
go to the other disk and come back (constraint `OneDiskLonger`). The fourth is needed
for a resume behind the offset, a second crash and a call that finishes, and by
`clone_stale_adjusted`, where a finished clone must be resumed, cut short, resumed
again and found finished. `clone_verify` has three sessions, of which the last is
neither cancelled nor paused (constraint `LastAlone`; a cancelled or paused call ends in
the earlier two), and three blocks, the fewest of which one is neither the table, which
is written again, nor the last, which is read back at a resume, and all faults at once.
Two disks are
enough for "another disk at the same index"; they are interchangeable, hence the
symmetry in `clone_crash`: `KeepsPromise` is checked there too, which is sound because
`ResumableCopy` is a safety property, symmetric in the disks, and no liveness is
checked in that run. The view drops values of variables that the next session resets
before reading them.

The scan has no bound on calls, kills or cancels: its state is finite. Three chunks
and two workers are the fewest in which a later chunk overtakes an earlier one and
both are overtaken by a kill; the second range shows the plan's positions and the
carry starting over, its single last unit a short read, and a resume that takes its overlap
back into the range before.
Three slots give every order and overlap of neighbours and of a third
partition between or beside them; the destinations' last sectors are one table
smaller, equal, larger.

`recover`: two resumes let a call be cut, continued, cut and continued again;
`MaxHarm` allows one kind of fault in a behaviour beside the cancel, which may fall
before a read or inside one (`CancelPoints`, `QuickPoints`: the number of
`waitControl` calls passed). Chunks of 8 units, smallest blocks of 2, 4 and 8 and a
broken unit in the middle of one make the reader split at every level; a cache of two
blocks of two units evicts within one file; three records per chunk put repetitions on
both sides of a chunk. `Broken` and `Never` (99) stand for "always" and "not at all".
`Undisturbed` is defined up to 8 candidates, one more than the instance has.

`clone_operation`: two operations are the fewest that overlap; units are such that
1 MiB is two of them, the backup table one and the reserve for it three (8 MiB in the
code; `OperationAssumption` asks only that it holds the table and the 1 MiB that Windows
may leave a partition larger than planned), reads are in chunks of 5 so that one straddles a snapshot's
edge, the disk's units 1 and 9 do not read. `Together` allows every fault alone
and those pairs in which the second bites after the first (`restore` after `resize`,
a written volume before the window is closed, and so on).

**Fairness.** `clone_verify` assumes `WF_vars(Engine)`: the copy runs on its own
goroutine, every device call returns, so an enabled step is eventually taken.
`deep_live` assumes weak fairness of the calling goroutine, of the workers
and of the collector, each by itself: all are goroutines of one process, and no
lock is held between them. Nothing is assumed of the user or of faults. `SessionEnds` and `ScanEnds` therefore ask for a
call that is not left paused; `CancelEnds` does not. The other runs check safety only.

## Findings

1. **The session may count unsynced blocks** (`clone_unsynced`, clone.go:343). When
   the sync of a checkpoint fails, the error path saves the offset reached.
   docs/CLONAGEM.md:34 says the state points only at synced blocks.
2. **An interrupted clone starts over, and its table is then reported as adapted when it
   is not** (`clone_stale_adjusted`, clone.go:174). A resume writes the manifest back in
   place (`rewriteCloneManifest`, clone.go:199 and 540-558). A finished session is resumed
   and killed there, with no line in the manifest: the next one starts over from zero,
   although docs/CLONAGEM.md:55 promises the confirmed checkpoint. Nothing ever resets
   `GPTAdjusted`, so it copies everything, the table included, saves `Completed` beside
   the old `GPTAdjusted` (clone.go:364-371) and is killed before it adapts the table. The
   one after that returns at clone.go:216-229 and says the table is adapted; the
   destination has that of the source. `AdjustedMeansAdjusted` holds without a cut
   manifest.
3. **Verification rejects the table the program wrote** (`clone_table_lockout`,
   clone.go:431). The manifest has the hash of the source's table. Once the table
   is rewritten and the call dies before or after saving that, a resume with
   verification fails on that block. docs/CLONAGEM.md:55 asks an interrupted clone
   to resume at the confirmed checkpoint.

4. **A parallel scan killed at the wrong moment is resumed behind a chunk nobody
   searched** (`deep_unsafe_point`, deep.go:322). `ScanOffset` is the number of bytes
   whose results came in, not the end of the last chunk before which all came in.
   deep.go:69 says the scan goes on from the last safe point. With one worker
   (the compatibility mode) and after a cancel the point is safe: `SessionSafe`.

5. **Disks exchanged after the last check are not noticed** (`operation_exchanged`,
   disk_windows.go:703-713). Between the second check of the identities and the opening
   by number volumes are locked, which takes time. A disk that takes the source's number
   by then is copied, and reported as a completed clone; disk_windows.go:603 refuses it
   only at the check. One that takes the destination's is written without a
   confirmation, although docs/CLONAGEM.md:56 has the operation blocked.

Seen on the way and not given a run. Each is a limit of a property, named where the
property is defined:

- clone: a kill of finding 2 that leaves some lines makes the next session go on behind
  its offset with `Completed`, `Verified` and `BadRanges` kept (clone.go:174-182 resets
  them only when no line is left). If the destination stores a block copied again wrongly,
  or one that read before is now zeros, and the process dies before the next checkpoint,
  the session after that finds a line for every block and returns as verified, or
  without those zeros in its report (`VerifiedKept`, `CloneFaithful`). If only the line of
  the table's block is left, the destination is refused (`ResumeNeverRefused`);
- clone: a finished session returns early and ignores a new request to verify; one
  whose only block is the one with its table is refused, as that is the last block
  (`ResumeAccepted` asks for two);
- scan: after a failing append the offset saved keeps growing (the call reports the
  error, a resume skips what was lost); nothing but the session is synced, so a power
  loss may take candidates the offset counts; `SessionSafe` excludes both;
- extraction: `skipUntil` is not in the session, so files that cross each other are
  chosen differently after a resume (`Crossing`); a kill while the JSON report is
  written loses the list of what was recovered before, and with it the knowledge of
  duplicates (`torn`);
- image: the map of bad sectors of a resumed image is that of the last call alone;
- quick mode: a cancel between two blocks of the cache ends a chunk as a success with
  the rest of the buffer unchanged (ntfs.go:494, `cut`); a record size byte of -128
  makes the shift at ntfs.go:203 panic, which the goroutine's guard reports
  (`OpenPanics`);
- operation: `finishWithError` clears `running` before the deferred cleanup
  (main_windows.go:2527), although main_windows.go:1659 and smart_migration_windows.go:104
  promise the size back: an operation that begins meanwhile may copy a partition table
  that is being restored, and a migration that begins meanwhile takes the reduced size for
  the size to return to (`tangled`); a migration interrupted while the source is
  reduced and then started again writes a plan without the original size over the old
  one (main_windows.go:1991, `replaced`), after which the script has nothing to
  restore; a source unplugged in the middle of the copy reads as zeros, with the bad ranges in the
  report, and the clone completes; when diskshadow fails after exposing snapshots
  nobody removes them (vss_windows.go:141).

## Proofs

`DeepScanProofs.tla` proves every safety property of `deep_scan`, for all ranges, candidates, chunk sizes and numbers of workers, any
number of calls and any faults. `ScanAssumption`: ranges are not empty, in order and
apart; the unit of length is the overlap; a sector is longer than the overlap and a
chunk at least a sector; a candidate is found within the overlap and a unit more.

- `WriteErrorsStop`: `Spec => []WriteErrorReported`. Chunks and results are in flight
  only inside `scanDiskToStore` (`PipeInScan`), so nothing writes after `store.Close`,
  and a writer with an error exists only before it or on the way out (`WriterGood`).
- `TypeCorrect`: `Spec => []TypeOK`, and `OffsetMonotone`: `Spec => OffsetNeverBack`.
  That the offset saved stays within the ranges cannot be seen from the collector
  alone, which adds up what comes in: `Counted` ties it to the reader. Every chunk in
  flight is a whole one but at most one (the last of a range, or one cut short, after
  which nothing is read), so `processed` plus what is in flight is `Reached`, and is
  equal to it when the pipeline is drained. `OffsetIn` says how the offset saved, the
  one in memory and the place a resumed scan starts at relate, one overlap apart. It
  is where `Overlap < Sector` is needed: with a shorter read the first save of a
  resumed scan would be behind the one before.
- `ResumeIsSafe`: `Spec => []SessionSafe`, and `IndexIsComplete`:
  `Spec => []IndexComplete`. Each candidate is stored, in flight or ahead of the reader
  (`CoverIn`), where ahead includes one that the last read has only the beginning of,
  which `carry` keeps for the next; and what is ahead lies behind the place a resume
  starts at (`AheadIn`). With several workers that is all that is true, and enough once
  the pipeline is drained. With one worker chunks come in in the order in which they were read:
  `Serial` says so by strata (`InOrder`: the units that wait as a result, are being
  searched, and are in the channel), so what was stored by the time of a save is a
  prefix, at any instant. The invariant is about sessions whose writes succeeded, and
  with several workers about those that no kill hit (`Good`); `deep_unsafe_point` shows
  what happens to the others.

`CloneDiskProofs.tla` holds for every number of blocks,
disks, sessions and crashes, every checkpoint distance and any set of unreadable
blocks; the constants are constrained only by `CloneAssumption`, which TLC evaluates
in every run.

- `TypeCorrect`: `Spec => []TypeOK`. `TypeOK` is not inductive: that an append
  stays inside the manifest needs the loop to be inside the source. `TypeInv` adds
  `InRange` (the loop stands at a block; from the check of the last block to the
  checkpoint the manifest has a line per copied block; a session that starts over
  is at zero).
- `SavedSafe`: `Spec => []SavedStateSafe`, and `CopyFaithful`:
  `Spec => []ContentsFaithful`, both under `Trusted`: the destination stores what it
  is given, syncs and manifest writes do not fail, and a sector reads always or
  never. (Without it finding 1 takes blocks the session counts, and after a cut manifest
  a block may be zeros that no report names.) Everything else may go wrong: kills and power losses, those that cut the
  manifest being written back included, cancels, pauses, failing writes, reads, saves
  and reports, any change of disk.

The argument is `SafeInv`. What is *copied* in this call (`CopiedHolds`) is right
when read; what the *session* counts (`SavedHolds`) is right in all that a power
loss may leave; a sync turns the one into the other (`DurableHolds`, from the sync
on). A resume relies on the session belonging to this disk and covering the kept
prefix (`ResumeHolds`), so writing again behind the saved offset is harmless: the
block written is what the saved block already was, because a sector reads always
or never. `CopyComplete` says that the steps after the copy run with every block
copied, so that a result covers the disk. `ReadIsPending` ties both views of the
disk. The proof has a lemma per phase (open, copy, checkpoint, finish, environment)
and a case per action.

`CloneVerifyProofs.tla` is about what a clone says of itself.

- `VerifiedIsCopied`: `Spec => []VerifiedHere`, with no assumption about the faults.
  `CompareInv`: from the final sync to the adjustment nothing is in doubt that is not
  read (`Compared`), what is compared so far agrees unless a block differed, and the
  steps after the copy run with every block copied and every line durable (`CopyEnded`).
- `VerifiedStays` and `AdaptedStays`: `Spec => []VerifiedKept` and
  `Spec => []AdjustedMeansAdjusted`, with no assumption about the faults: what they ask
  for, a manifest that was not cut, is in the properties (finding 2 shows why).
  `FinalInv` follows the flags, as long as `rewrite # "cut"`: from the session file
  (`SavedFinal`: a session that says so is complete and so is its manifest, hence no
  later call writes behind it) to the variable `state` (`MemoryFinal`) and the result
  (`ResultFinal`).

`CloneRefinementProofs.tla` is about hardware that keeps its word (`Intact`: manifest
writes and syncs do not fail and the destination stores what it is given). Kills and
power losses are possible at every point, also while the manifest is written back; from
such a cut on (`rewrite = "cut"`) the properties promise nothing. It drops what
`Trusted` asks of the source: a sector may read on some attempts only.

- `CloneIsFaithful`: `Spec => []CloneFaithful`, the table included, and
  `ResumeAccepted`: `Spec => []ResumeNeverRefused`, for two blocks or more. `WholeInv`
  says that three records agree on every block that is counted: the manifest's lines
  are the source's data, or zeros that are reported (`LinesRight`); the disk holds its
  lines (`HeldUpTo`); and the session file is never ahead of the durable manifest, so
  that no call falls behind its session and no confirmed block is read again
  (`SavedWhole`). That is what `SafeInv` could not use, as it goes on after a cut.
- `PromiseIsKept`: `Spec => KeepsPromise`, the refinement. Each step of `CloneDisk` is
  one of four shapes, each a lemma: a step that saves nothing and goes on or fails
  (`QuietStep`), one that saves (`SavingStep`, `LastSave`), one that succeeds
  (`SucceedingStep`), one that stops (`StoppingStep`). `CarefulStep` shows for all of
  them that no doubt arises about a confirmed block, `SavingConfirms` that what is
  saved is durable and not less than before. Only `Discard` gives confirmed work up,
  and a crash that cuts the manifest, which is the step `MayLose` of the abstract copy.

`GptAdjustProofs.tla` proves every property of `gpt_adjust`, for every source table
with any number of slots, every size, number of runs, crash and failure:
`AdjustTyped`, `LayoutKept`, `AdjustedIsWhole`, `AdjustedFits`, `Repeatable`,
`WrittenIsFound`. The invariant is `AdjustInv`. What may be read of a cell is among what
a power loss may leave (`ReadIsPending`); the cells never hold anything but the tables
and headers of source and plan (`ContentsKnown`), and what is being written is the plan
and fits (`PlanKnown`). `BackupFirst` is the order of the code: until the new backup is
certain the primary table is the old one, so a layout survives whatever is lost. That
no two entries of the planned table overlap, although the code compares only neighbours
by first sector, is `NeighboursSuffice`: if two overlap then so do two neighbours, by
the least counterexample (`LeastOf`, from the well-foundedness of the naturals).
`Repeatable` assumes that the destination reads (a read error is a refusal of its own,
which the run includes); `WrittenIsFound` speaks of entries whose first sector is not
behind their last, as those the code accepts.

`CloneOperationProofs.tla` is about `CloneOperation`, for every machine that
`MachineAssumption` allows, any disks that are exchanged, any number of operations and
any sets of faults. Windows is assumed to number the slots as it lists them, to lay
partitions out without overlap, not to report less space as needed than is used, and to
list a system disk with letters of partitions of its own table: `querySingleVolumeExtent`
(vss_windows.go:230) refuses a volume that is not one extent, and `createVSSSnapshotSet`
one that is on another disk. A disk has a size, as `disk_windows.go:271` refuses one
that has none.

- `OnlyConfirmedWritten`: `Spec => WritesGuarded`. `ControlInv` says who is at work:
  while `running` there is one operation that has neither ended nor given up, and it is
  the latest (`OneAtWork`), which is what makes the check in `startClone` enough although
  the goroutine of an earlier operation may still clean up. `GuardInv` carries what was
  agreed, checked, locked and covered from step to step up to the write.
- `NoneTooSmall`: `Spec => ShrinkSafe`. The arithmetic of `BuildPlan` on one side, and
  on the other that tables only change as `Evolves` says, so that a plan made from a
  table is still good for the table it is applied to (`LayoutInv`). The partition a
  plan reduces is the last that is not recovery (`IsLast`), and there is one. Windows
  may leave it any size within an `Alignment` of the plan's (`SizeReached`); that it fits
  all the same is what the reserve for the backup table is for.
- `LeftAsFound`: `Spec => []NothingLeftBehind`. `HoldInv` (an operation that is over
  holds nothing) and `GivenBack`.
- `CanBeRestored`: `Spec => []RestorePlanKept`. `SizeKept`: until a plan is written
  over by a migration that found the source reduced, all plans know the size the
  source came with, and if the source is reduced one is in a report folder.
- `CompletedIsWhole`: `Spec => CompletionHonest`, of an operation that opened the
  source it was confirmed for (finding 5 is about the others). It rests on the contract of the mapped
  reader, `ReadChunkIs`: whatever ranges it is given that do not overlap, a read brings
  for each unit that of the snapshot whose range holds it, and the disk's otherwise, with
  a zero only where the disk does not read. The loop of `ReadAt` calls for the rest of the
  buffer, so the contract is an induction over its length (`MappedReadIs`), and the sort
  is any order that `sort.Slice` may leave (`OrderExists` shows that there is one). The
  ranges are those of volumes of the table, which do not overlap and stay where they are
  however the last one is resized (`ExtentsLaid`). `SourceInv`: an operation that
  migrates or reads snapshots reads the disk Windows runs from, which nothing replaces,
  so that only a clone of a secondary disk can have opened another one.
  `HonestInv` carries from chunk to chunk what was copied (`Taken`), that the table that
  was copied has these ranges as partitions (`Placed`), and that an operation that
  reduced the source knows it until it gave the size back (`Unreduced`).
- `OperationTyped`: `Spec => []TypeOK`, of the same invariants.

Every step of an operation has a lemma that says what it does to the record of that
operation and to the rest (`...Effect`); the invariants are proved from those.

`DeepExtractProofs.tla` is about the extraction, for any candidates, chunk size and
files to be carved, any number of calls, cancels, kills and failing writes.
`ExtractAssumption` says that numbers are numbers and that a carver finds a length at
each offset; `SourcesAssumption` that a session starts from a mode, a damage mode and
records that the program has.

- `SortCandidatesIs`: the index is the records of the file, in order and each once. A
  chunk is sorted by some order (`sort.Slice` is not stable), the merge takes the least
  head. What a loop computes is a function of the round (`Iterated`), and that of the
  merge keeps `Merging`: what is out is ascending, below every head, and with what is
  left is all there was. Equal records of different chunks come out as neighbours, so it
  is enough that the code compares with the last one written.
- `IndexIsExact` and `SessionKeepsIndex`: `IndexInv` (the index is that of the scan or
  gone, and gone only after the session was saved as done, or when a save failed).
  The second is proved only, no run checks it.
- `FilesAreKept`: `Spec => NeverOverwritten`. `FilesInv`: no two files share a name.
- `ReportIsComplete` and `CopiesAreFew`. `ListsInv` ties the list in memory and the report
  to the files (an entry names a file with its contents, contents are listed once unless
  marked as a duplicate); `ListedInv` counts what no report lists: while a call works its
  own list misses a file per kill, and between a rename and the report the one on the
  disk misses one more, which a kill at that moment makes permanent. So the bound of both
  properties is the number of kills, not zero.
- `NothingIsMissed`: `Spec => []NothingMissed`. `MissedInv` compares with `Undisturbed`,
  a call nobody disturbs: what the session counts as processed is covered by files
  (`Covered`), and a call never skips further than the undisturbed one at the same
  candidate (`Behind`). A resumed call has forgotten where the last file ends, so it may
  carve more, never less, unless candidates cross: there the property asks for a session
  that was never resumed.

`DiskImageProofs.tla` is about the readers and the image, for any source, any units that
fail and for however many reads, any damage mode, sector and block size.

- `AdaptiveReadIs` is the contract of the reader: unless it is cancelled it delivers the
  whole block; each unit is the source's, or a zero within the smallest block of the damage
  mode around a unit that fails; and the bad ranges it recorded are the zeros, no more and
  no less. `readSplit` calls itself on both halves, and TLA+ defines a recursive function
  by a choice: `Recursion` shows that a function that looks only at smaller arguments
  exists, `SplitLooksBelow` that this one does, and `ReadSplitStep` is then the equation
  the code states. `SplitReads` is the induction over the length of the block. A cancel
  in the second half leaves a delivered first half, which `JoinIs` puts together.
- `ImageIsFaithful` and `MapIsOfThisCall`: `Spec => []ImageFaithful` and
  `Spec => []MapOfThisCall`. Neither is inductive, as both speak of the end. `ImageInv`:
  the image is a right copy as far as its file goes (`Copy`), also after a kill or a write
  that stored only some of a chunk, which is why going on from the file's size is enough; the
  chunk that was read is right for the place it goes to (`Chunk`); the ranges in memory
  are the zeros behind the place this call started at, in the file and in the chunk
  (`Recorded`); and units only fail that failed at first (`Source`). A power loss may take
  away what was never synced: the theorems, as the properties, speak of images without one.

Only model-checked:

- liveness, which is out of the proof system's reach, as is `ENABLED`;
- `QuickFaithful` and `QuickComplete` of the quick mode: what a run list, a record or a
  path is decoded to is recursion over the bytes of the volume, and TLC compares it with
  the volume that was laid out, which is induction over data;
- `TypeOK` of `Recover`, which asks the types of the quick mode's records of the same
  functions, and bounds the image also after a power loss.

## Not modelled

- **Carvers** (`engine.go:757-1487`, `validate.go`): parsers of file formats, without
  state between calls. What a carver finds at an offset is a constant of `DeepExtract`,
  what `detect` needs a constant of `DeepScan`.
- **Dead code**: `recoverDeepLegacy`, `scanDisk` (engine.go:285-447, 478-600) and what only they call.
- **Free ranges of a volume** (`free_space.go`, but for `totalRangeBytes`): a loop over
  answers of one Windows call; the ranges are a constant of `DeepScan`.
- **The choice among several sessions** of a directory (session.go:62-98): the model has
  one session, which is the one found.
- **A power loss in the scan or extraction**: no file of them but the session is
  synced, so nothing is promised.
- **A manifest that cannot be removed** (clone.go:189).

Left out on purpose: window code, message boxes and settings of `main_windows.go`
(no behaviour a property is about), the format parsers of `engine.go` and
`validate.go` (bytes of file formats), report layout (`reports.go`), PowerShell and
device calls themselves (modelled by their outcomes where they are used).

## Running

    tlc -workers 2 -config CloneCrash.cfg MCCloneDisk        # and the other Clone*.cfg
    tlc -workers 2 -config GptAdjust.cfg MCGptAdjust
    tlc -workers 2 -config DeepScan.cfg MCDeepScan           # DeepLive, DeepUnsafePoint
    tlc -workers 2 -config Recover.cfg MCRecover
    tlc -workers 2 -config CloneOperation.cfg MCCloneOperation   # OperationExchanged
    tlapm CloneDiskProofs.tla
    tlapm CloneVerifyProofs.tla
    tlapm CloneRefinementProofs.tla
    tlapm DeepScanProofs.tla
    tlapm DeepExtractProofs.tla
    tlapm DiskImageProofs.tla
    tlapm GptAdjustProofs.tla
    tlapm CloneOperationProofs.tla
