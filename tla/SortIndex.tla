------------------------------ MODULE SortIndex ------------------------------
(***************************************************************************)
(* recovery/candidate_store.go, sortCandidateFile: the candidates a scan   *)
(* wrote, in any order and some of them twice, become the index of the     *)
(* extraction.  The file is sorted in chunks that fit in memory, which are *)
(* then merged through a heap.  The progress, the cancel and the temporary *)
(* files are DeepScan's.                                                   *)
(***************************************************************************)
EXTENDS Integers, Sequences

CONSTANT RecordsPerChunk
ASSUME ChunkAssumption == RecordsPerChunk \in Nat \ {0}

Before(a, b) == a.off < b.off \/ (a.off = b.off /\ a.kind < b.kind)

(* Of equal neighbours the first is kept.                                  *)
AppendNew(out, c) == IF out # <<>> /\ out[Len(out)] = c THEN out ELSE Append(out, c)

(* sort.Slice: some order in which no record comes before an earlier one.  *)
Orders(items) ==
  {p \in [DOMAIN items -> DOMAIN items] :
     /\ \A i \in DOMAIN items : \E j \in DOMAIN items : p[j] = i
     /\ \A i, j \in DOMAIN items : i < j => ~Before(items[p[j]], items[p[i]])}
Sorted(items) ==
  LET order == CHOOSE p \in Orders(items) : TRUE
  IN  [i \in DOMAIN items |-> items[order[i]]]

(* dedupeCandidates.                                                       *)
Dedupe(items) ==
  LET kept[n \in 0 .. Len(items)] ==
        IF n = 0 THEN <<>> ELSE AppendNew(kept[n - 1], items[n])
  IN  kept[Len(items)]

Chunks(file) ==
  LET count == (Len(file) + RecordsPerChunk - 1) \div RecordsPerChunk
      End(i) == IF i = count THEN Len(file) ELSE i * RecordsPerChunk
  IN  [i \in 1 .. count |->
         Dedupe(Sorted(SubSeq(file, (i - 1) * RecordsPerChunk + 1, End(i))))]

(* mergeCandidateChunks: the smallest head is popped, and written unless it*)
(* is the one written last.                                                *)
Open(chunks) == {i \in DOMAIN chunks : chunks[i] # <<>>}
LeastHead(chunks) ==
  CHOOSE i \in Open(chunks) : \A j \in Open(chunks) : ~Before(chunks[j][1], chunks[i][1])
WrongPop(m) ==
  LET i == LeastHead(m.chunks)
  IN  IF Open(m.chunks) = {} THEN m
      ELSE [chunks |-> [m.chunks EXCEPT ![i] = Tail(@)], out |-> Append(m.out, m.chunks[i][1])]
Pop(m) ==
  LET i == LeastHead(m.chunks)
  IN  IF Open(m.chunks) = {} THEN m
      ELSE [chunks |-> [m.chunks EXCEPT ![i] = Tail(@)],
            out |-> AppendNew(m.out, m.chunks[i][1])]
Merge(chunks, records) ==
  LET popped[n \in 0 .. records] ==
        IF n = 0 THEN [chunks |-> chunks, out |-> <<>>] ELSE Pop(popped[n - 1])
  IN  popped[records].out

(* A single chunk is the index; no candidate at all is an empty index.     *)
SortCandidates(file) ==
  LET chunks == Chunks(file) IN
  IF Len(chunks) = 1 THEN chunks[1] ELSE Merge(chunks, Len(file))
=============================================================================
