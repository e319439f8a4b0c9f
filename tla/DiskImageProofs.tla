--------------------------- MODULE DiskImageProofs ---------------------------
(***************************************************************************)
(* For any source, any units of it that fail and for how long, any damage  *)
(* mode, sector and block size: what a read through the adaptive reader    *)
(* delivers and records, and that an image is the source but for what could*)
(* not be read, with a map of exactly those units.                         *)
(***************************************************************************)
EXTENDS DeepExtractProofs

-----------------------------------------------------------------------------
(* A recursive function whose value at n only looks at its values below n  *)
(* exists.                                                                 *)
LooksBelow(G, V) ==
  /\ G \in [Nat -> [[Nat -> V] -> V]]
  /\ \A n \in Nat : \A f, h \in [Nat -> V] :
       (\A m \in 0 .. n - 1 : f[m] = h[m]) => G[n][f] = G[n][h]
Solves(f, G, V) == f \in [Nat -> V] /\ \A n \in Nat : f[n] = G[n][f]
LEMMA Recursion ==
  ASSUME NEW V, NEW v \in V, NEW G, LooksBelow(G, V)
  PROVE  \E f : Solves(f, G, V)
<1> USE DEF LooksBelow
<1> DEFINE Upto(f, n) == f \in [Nat -> V] /\ \A m \in 0 .. n - 1 : f[m] = G[m][f]
           None == {n \in Nat : ~\E f \in [Nat -> V] : Upto(f, n)}
<1>1. None = {}
  <2> SUFFICES ASSUME None # {} PROVE FALSE
    OBVIOUS
  <2>1. PICK n \in None : \A k \in None : n <= k
    <3>1. None \subseteq Nat
      OBVIOUS
    <3> HIDE DEF None
    <3> QED
      BY <3>1, LeastOf
  <2>2. n \in Nat /\ ~\E f \in [Nat -> V] : Upto(f, n)
    BY <2>1
  <2>3. CASE n = 0
    <3>1. Upto([m \in Nat |-> v], 0) /\ [m \in Nat |-> v] \in [Nat -> V]
      OBVIOUS
    <3> HIDE DEF Upto
    <3> QED
      BY <3>1, <2>2, <2>3
  <2>4. CASE n # 0
    <3>1. n - 1 \in Nat /\ ~(n <= n - 1)
      BY <2>2, <2>4
    <3>2. n - 1 \notin None
      BY ONLY <2>1, <3>1
    <3>3. PICK f \in [Nat -> V] : Upto(f, n - 1)
      <4>1. ~(n - 1 \in Nat /\ ~\E f \in [Nat -> V] : Upto(f, n - 1))
        BY <3>2
      <4> QED
        BY <3>1, <4>1
    <3> DEFINE h == [m \in Nat |-> IF m = n - 1 THEN G[n - 1][f] ELSE f[m]]
    <3>4. G[n - 1][f] \in V
      BY <3>1, <3>3
    <3>5. h \in [Nat -> V]
      BY <3>3, <3>4
    <3>6. \A m \in 0 .. n - 2 : h[m] = f[m]
      BY <2>2
    <3>7. ASSUME NEW m \in 0 .. n - 1 PROVE h[m] = G[m][h]
      <4>1. \A k \in 0 .. m - 1 : h[k] = f[k]
        BY <2>2, <3>6
      <4>2. m \in Nat
        BY <2>2
      <4> HIDE DEF h
      <4>3. G[m][h] = G[m][f]
        BY <4>1, <4>2, <3>5, <3>3
      <4>4. CASE m = n - 1
        BY <4>3, <4>4, <4>2 DEF h
      <4>5. CASE m # n - 1
        <5>1. m \in 0 .. n - 2 /\ m \in 0 .. (n - 1) - 1
          BY <4>5, <2>2
        <5> QED
          BY <5>1, <4>3, <3>6, <3>3
      <4> QED
        BY <4>4, <4>5
    <3>8. Upto(h, n)
      BY <3>5, <3>7
    <3> HIDE DEF h, Upto
    <3> QED
      BY <3>5, <3>8, <2>2
  <2> QED
    BY <2>3, <2>4
<1>2. \A n \in Nat : \E f \in [Nat -> V] : Upto(f, n)
  <2> HIDE DEF Upto
  <2> QED
    BY <1>1
(* What is determined, is determined alone.                                *)
<1>3. ASSUME NEW n \in Nat, NEW k \in Nat, n <= k, NEW f, NEW h, Upto(f, n), Upto(h, k)
      PROVE  \A m \in 0 .. n - 1 : f[m] = h[m]
  <2> DEFINE Differ == {m \in 0 .. n - 1 : f[m] # h[m]}
  <2> SUFFICES ASSUME Differ # {} PROVE FALSE
    OBVIOUS
  <2>1. PICK m \in Differ : \A j \in Differ : m <= j
    <3>1. Differ \subseteq Nat
      OBVIOUS
    <3> HIDE DEF Differ
    <3> QED
      BY <3>1, LeastOf
  <2>2. m \in 0 .. n - 1 /\ m \in 0 .. k - 1 /\ m \in Nat /\ f[m] # h[m]
    BY <2>1, <1>3
  <2>3. \A j \in 0 .. m - 1 : f[j] = h[j]
    <3> SUFFICES ASSUME NEW j \in 0 .. m - 1 PROVE f[j] = h[j]
      OBVIOUS
    <3>1. j \in 0 .. n - 1 /\ ~(m <= j)
      BY <2>2
    <3>2. j \notin Differ
      BY ONLY <2>1, <3>1
    <3> QED
      BY <3>1, <3>2
  <2>4. f \in [Nat -> V] /\ h \in [Nat -> V] /\ f[m] = G[m][f] /\ h[m] = G[m][h]
    BY <2>2, <1>3
  <2>5. G[m][f] = G[m][h]
    BY ONLY <2>4, <2>3, <2>2, LooksBelow(G, V)
  <2> QED
    BY ONLY <2>2, <2>4, <2>5
<1> DEFINE First(n) == CHOOSE f \in [Nat -> V] : Upto(f, n)
           F == [n \in Nat |-> First(n + 1)[n]]
<1>4. \A n \in Nat : First(n) \in [Nat -> V] /\ Upto(First(n), n)
  <2> HIDE DEF Upto
  <2> QED
    BY <1>2
<1>5. F \in [Nat -> V]
  <2> SUFFICES ASSUME NEW n \in Nat PROVE First(n + 1)[n] \in V
    OBVIOUS
  <2>1. n + 1 \in Nat
    OBVIOUS
  <2> HIDE DEF First, Upto
  <2> QED
    BY <1>4, <2>1
<1>6. ASSUME NEW n \in Nat PROVE F[n] = G[n][F]
  <2>1. n + 1 \in Nat /\ n \in 0 .. (n + 1) - 1
    OBVIOUS
  <2>2. Upto(First(n + 1), n + 1) /\ First(n + 1) \in [Nat -> V]
    <3> HIDE DEF Upto, First
    <3> QED
      BY <2>1, <1>4
  <2>3. ASSUME NEW m \in 0 .. n - 1 PROVE F[m] = First(n + 1)[m]
    <3>1. m \in Nat /\ m + 1 \in Nat /\ m + 1 <= n + 1 /\ m \in 0 .. (m + 1) - 1
      OBVIOUS
    <3>2. F[m] = First(m + 1)[m]
      BY <3>1
    <3>3. Upto(First(m + 1), m + 1)
      <4> HIDE DEF Upto, First
      <4> QED
        BY <3>1, <1>4
    <3> HIDE DEF Upto, First, F
    <3>4. \A j \in 0 .. (m + 1) - 1 : First(m + 1)[j] = First(n + 1)[j]
      BY ONLY <1>3, <3>1, <2>1, <3>3, <2>2
    <3> QED
      BY <3>1, <3>2, <3>4
  <2>4. F[n] = First(n + 1)[n]
    OBVIOUS
  <2>5. First(n + 1)[n] = G[n][First(n + 1)]
    <3> HIDE DEF First
    <3> QED
      BY <2>1, <2>2
  <2> HIDE DEF F, First, Upto
  <2>6. G[n][F] = G[n][First(n + 1)]
    BY ONLY <2>3, <2>2, <1>5, n \in Nat, LooksBelow(G, V)
  <2> QED
    BY ONLY <2>4, <2>5, <2>6
<1> HIDE DEF F, First, Upto
<1>7. Solves(F, G, V)
  BY <1>5, <1>6 DEF Solves
<1> QED
  BY <1>7

-----------------------------------------------------------------------------
(* The readers.                                                            *)
Outs == [out : Seq(Int), err : {"none", "bad", "cancel"}, st : Stacks]

LEMMA Sizes ==
  /\ SourceSize \in Nat /\ Sector \in Nat /\ Sector >= 1 /\ Prefix \in BOOLEAN
  /\ AlignDown(SourceSize) \in 0 .. SourceSize
  /\ \A d \in Damages : MinBlock(d) \in Nat /\ MinBlock(d) >= 1
<1>1. SourceSize \in Nat /\ Sector \in Nat /\ Sector >= 1 /\ Prefix \in BOOLEAN
      /\ BalancedBlock \in Nat /\ FastBlock \in Nat /\ FastBlock >= 1
  BY ReaderAssumption
<1>2. SourceSize % Sector \in 0 .. SourceSize
  <2>1. \A v, s \in Nat : s >= 1 => v % s \in 0 .. v
    OBVIOUS
  <2> QED
    BY <1>1, <2>1
<1> QED
  BY <1>1, <1>2 DEF AlignDown, MinBlock, Damages, Greatest

LEMMA AlignIs ==
  ASSUME NEW v \in Nat
  PROVE  /\ AlignDown(v) \in Nat /\ AlignDown(v) <= v /\ v < AlignDown(v) + Sector
         /\ AlignUp(v) \in Nat /\ v <= AlignUp(v) /\ AlignUp(v) < v + Sector
<1>1. v % Sector \in 0 .. Sector - 1 /\ v % Sector <= v
  <2>1. \A s \in Nat : s >= 1 => v % s \in 0 .. s - 1 /\ v % s <= v
    OBVIOUS
  <2> QED
    BY Sizes, <2>1
<1> QED
  BY <1>1, Sizes DEF AlignDown, AlignUp

LEMMA HalfIs ==
  ASSUME NEW len \in Nat, NEW min \in Nat, min >= 1, len > min
  PROVE  Half(len, min) \in Nat /\ Half(len, min) >= 1 /\ Half(len, min) < len
<1>1. len \div 2 \in Nat /\ len \div 2 >= 1 /\ len \div 2 < len
  OBVIOUS
<1>2. AlignDown(len \div 2) \in Nat
  BY <1>1, AlignIs
<1> HIDE DEF AlignDown
<1> QED
  BY <1>1, <1>2 DEF Half, Greatest

(* Some of a sequence.                                                     *)
LEMMA CutIs ==
  ASSUME NEW s \in Seq(Int), NEW m \in Nat, NEW n \in Nat, m >= 1, n <= Len(s)
  PROVE  /\ SubSeq(s, m, n) \in Seq(Int)
         /\ Len(SubSeq(s, m, n)) = IF m <= n THEN n - m + 1 ELSE 0
         /\ \A i \in 1 .. Len(SubSeq(s, m, n)) : SubSeq(s, m, n)[i] = s[m + i - 1]
<1>1. \A i \in m .. n : s[i] \in Int
  <2>1. \A i \in 1 .. Len(s) : s[i] \in Int
    BY ElementOfSeq
  <2> QED
    BY <2>1, LenProperties
<1> QED
  BY <1>1, SubSeqProperties, Z3

LEMMA DataIs ==
  ASSUME NEW off \in Nat, NEW n \in Nat
  PROVE  /\ Data(off, n) \in Seq(Int) /\ Len(Data(off, n)) = n
         /\ \A i \in 1 .. n : Data(off, n)[i] = off + i - 1
         /\ Zeros(n) \in Seq(Int) /\ Len(Zeros(n)) = n
         /\ \A i \in 1 .. n : Zeros(n)[i] = Zero
BY DEF Data, Zeros, Zero

(* A source whose units fail only if they were weak at the start.          *)
Honest(st) ==
  /\ st \in Stacks /\ st.damage = damage
  /\ \A p \in 0 .. SourceSize - 1 : st.fails[p] > 0 => p \in weak

(* What reads do to the source: a unit that fails failed before.           *)
Worn(then, st) ==
  /\ then \in Stacks
  /\ then.damage = st.damage /\ then.bad = st.bad
  /\ \A p \in 0 .. SourceSize - 1 : then.fails[p] > 0 => st.fails[p] > 0

LEMMA WornIsHonest ==
  ASSUME NEW st, Honest(st), NEW then, Worn(then, st)
  PROVE  Honest(then)
BY DEF Honest, Worn

LEMMA FailsOnce ==
  ASSUME NEW st \in Stacks, NEW p \in 0 .. SourceSize - 1, st.fails[p] > 0,
         NEW then, then = [st EXCEPT !.fails[p] = IF @ = Broken THEN @ ELSE @ - 1]
  PROVE  Worn(then, st)
<1> DEFINE k == IF st.fails[p] = Broken THEN st.fails[p] ELSE st.fails[p] - 1
           f == [st.fails EXCEPT ![p] = k]
<1>1. st.fails \in [0 .. SourceSize - 1 -> Nat]
  BY DEF Stacks
<1>2. k \in Nat
  <2>1. st.fails[p] \in Nat
    BY <1>1
  <2> QED
    BY <2>1 DEF Broken
<1>3. f \in [0 .. SourceSize - 1 -> Nat]
  BY <1>1, <1>2
<1>4. \A q \in 0 .. SourceSize - 1 : f[q] > 0 => st.fails[q] > 0
  BY <1>1, <1>2
<1>5. then \in Stacks /\ then.fails = f /\ then.damage = st.damage /\ then.bad = st.bad
     
  BY <1>3 DEF Stacks
<1> QED
  BY <1>4, <1>5 DEF Worn

(* A read of the device delivers what is there, up to what fails.          *)
Delivered(r, st, off, len) ==
  /\ Worn(r.st, st)
  /\ r.out \in Seq(Int) /\ Len(r.out) <= len
  /\ \A i \in 1 .. Len(r.out) : r.out[i] = off + i - 1
  /\ Len(r.out) < len => \E p \in off .. off + len - 1 : st.fails[p] > 0
LEMMA DeviceIs ==
  ASSUME NEW st \in Stacks, NEW off \in Nat, NEW len \in Nat, off + len <= SourceSize
  PROVE  Delivered(DeviceRead(st, off, len), st, off, len)
<1> SUFFICES ASSUME NEW r, r = DeviceRead(st, off, len)
             PROVE  Delivered(r, st, off, len)
  OBVIOUS
<1> USE DEF Delivered
<1> DEFINE failing == {p \in off .. off + len - 1 : st.fails[p] > 0}
           first == CHOOSE p \in failing : \A q \in failing : p <= q
<1>1. CASE failing = {}
  <2>1. r.out = Data(off, len) /\ r.st = st
    BY <1>1 DEF DeviceRead
  <2>2. Worn(st, st)
    BY DEF Worn
  <2> QED
    BY <2>1, <2>2, DataIs
<1>2. CASE failing # {}
  <2>1. first \in failing
    <3>1. failing \subseteq Nat
      OBVIOUS
    <3> HIDE DEF failing
    <3>2. \E p \in failing : \A q \in failing : p <= q
      BY <3>1, <1>2, LeastOf
    <3> QED
      BY <3>2
  <2>2. first \in 0 .. SourceSize - 1 /\ first \in off .. off + len - 1 /\ st.fails[first] > 0
    <3> HIDE DEF first
    <3> QED
      BY <2>1, Sizes
  <2>3. /\ r.out = IF Prefix THEN Data(off, first - off) ELSE <<>>
        /\ r.st = [st EXCEPT !.fails[first] = IF @ = Broken THEN @ ELSE @ - 1]
    BY <1>2 DEF DeviceRead
  <2> HIDE DEF first, failing
  <2>4. Worn(r.st, st)
    BY <2>2, <2>3, FailsOnce
  <2>6. first - off \in Nat /\ first - off < len
    BY <2>2
  <2>7. CASE Prefix
    <3>1. r.out = Data(off, first - off)
      BY <2>3, <2>7
    <3>2. r.out \in Seq(Int) /\ Len(r.out) = first - off
          /\ \A i \in 1 .. first - off : r.out[i] = off + i - 1
      <4> DEFINE k == first - off
      <4>1. k \in Nat /\ r.out = Data(off, k)
        BY <3>1, <2>6
      <4> HIDE DEF k
      <4>2. r.out \in Seq(Int) /\ Len(r.out) = k /\ \A i \in 1 .. k : r.out[i] = off + i - 1
        <5>1. /\ Data(off, k) \in Seq(Int) /\ Len(Data(off, k)) = k
              /\ \A i \in 1 .. k : Data(off, k)[i] = off + i - 1
          BY <4>1, DataIs
        <5> QED
          BY ONLY <4>1, <5>1
      <4> QED
        BY <4>2 DEF k
    <3> QED
      BY <3>2, <2>4, <2>6, <2>2
  <2>8. CASE ~Prefix
    <3>1. r.out = <<>> /\ r.out \in Seq(Int) /\ Len(r.out) = 0
      BY <2>3, <2>8
    <3> QED
      BY <3>1, <2>4, <2>6, <2>2
  <2> QED
    BY <2>7, <2>8
<1> QED
  BY <1>1, <1>2

(* What a read that tried has: the bytes from where it began, and if it got*)
(* none there is a weak unit within a sector of them, or they are behind   *)
(* the last whole sector.                                                  *)
Tried(r, st, off, len) ==
  /\ Honest(r.st) /\ r.st.bad = st.bad
  /\ r.out \in Seq(Int) /\ Len(r.out) <= len
  /\ \A i \in 1 .. Len(r.out) : r.out[i] = off + i - 1
  /\ r.failed <=> Len(r.out) < len
  /\ r.out = <<>> =>
       \/ off >= AlignDown(SourceSize)
       \/ \E p \in weak : p \in off - Sector .. off + len + Sector

LEMMA CopyOutIs ==
  ASSUME NEW r, NEW st, NEW first \in Nat, NEW size \in Nat, NEW skipped \in Nat,
         NEW wanted \in Nat, wanted >= 1, skipped < Sector,
         Honest(r.st), r.st.bad = st.bad,
         r.out \in Seq(Int), Len(r.out) <= size,
         \A i \in 1 .. Len(r.out) : r.out[i] = first + i - 1,
         Len(r.out) < size => \E p \in weak : p \in first .. first + size - 1,
         size <= skipped => first + skipped >= AlignDown(SourceSize),
         size <= skipped + wanted + Sector
  PROVE  Tried(CopyOut(r, skipped, wanted), st, first + skipped, wanted)
<1> DEFINE n == Least(Len(r.out), skipped + wanted)
           out == SubSeq(r.out, skipped + 1, n)
           c == CopyOut(r, skipped, wanted)
<1>1. Len(r.out) \in Nat /\ n \in Nat /\ n <= Len(r.out) /\ n <= skipped + wanted
      /\ (n = Len(r.out) \/ n = skipped + wanted)
  BY LenProperties DEF Least
<1>2. c.out = out /\ c.st = r.st /\ (c.failed <=> Len(out) < wanted)
  BY DEF CopyOut
<1> HIDE DEF n
<1>3. /\ out \in Seq(Int) /\ Len(out) = IF skipped + 1 <= n THEN n - skipped ELSE 0
      /\ \A i \in 1 .. Len(out) : out[i] = r.out[skipped + i]
  <2>1. skipped + 1 \in Nat /\ skipped + 1 >= 1 /\ n - (skipped + 1) + 1 = n - skipped
        /\ \A i \in Int : skipped + 1 + i - 1 = skipped + i
    BY <1>1
  <2> QED
    BY <2>1, <1>1, CutIs
<1>4. \A i \in 1 .. Len(out) : out[i] = (first + skipped) + i - 1
  <2> HIDE DEF out
  <2> SUFFICES ASSUME NEW i \in 1 .. Len(out) PROVE out[i] = (first + skipped) + i - 1
    OBVIOUS
  <2>1. i \in Nat /\ skipped + i \in 1 .. Len(r.out)
    BY ONLY <1>3, <1>1, i \in 1 .. Len(out), skipped \in Nat
  <2>2. out[i] = r.out[skipped + i] /\ r.out[skipped + i] = first + (skipped + i) - 1
    BY <2>1, <1>3
  <2> QED
    BY ONLY <2>1, <2>2, first \in Nat, skipped \in Nat
<1>5. ASSUME out = <<>>
      PROVE  \/ first + skipped >= AlignDown(SourceSize)
             \/ \E p \in weak : p \in (first + skipped) - Sector .. (first + skipped) + wanted + Sector
  <2>1. Len(out) = 0
    <3> HIDE DEF out
    <3> QED
      BY <1>5
  <2>2. n <= skipped
    <3> HIDE DEF out
    <3> QED
      BY ONLY <2>1, <1>3, <1>1, skipped \in Nat
  <2>3. Len(r.out) <= skipped
    BY <2>2, <1>1
  <2>4. CASE size <= skipped
    BY <2>4
  <2>5. CASE size > skipped
    <3>1. PICK p \in weak : p \in first .. first + size - 1
      BY <2>3, <2>5, <1>1
    <3>2. p \in (first + skipped) - Sector .. (first + skipped) + wanted + Sector
      BY <3>1, Sizes
    <3> QED
      BY <3>1, <3>2
  <2> QED
    BY <2>4, <2>5
<1>6. Len(out) <= wanted
  <2> HIDE DEF out
  <2> QED
    BY ONLY <1>3, <1>1, skipped \in Nat, wanted \in Nat
<1> HIDE DEF c, out
<1> QED
  BY <1>2, <1>3, <1>4, <1>5, <1>6 DEF Tried, c

LEMMA AlignedIs ==
  ASSUME NEW st, Honest(st), NEW off \in Nat, NEW len \in Nat, len >= 1, off + len <= SourceSize
  PROVE  Tried(AlignedRead(st, off, len), st, off, len)
<1> DEFINE whole == off % Sector = 0 /\ len % Sector = 0
           end == IF AlignDown(SourceSize) = 0 THEN SourceSize ELSE AlignDown(SourceSize)
           first == IF whole THEN off ELSE AlignDown(off)
           last == IF whole THEN off + len ELSE Least(AlignUp(off + len), end)
           r == AlignedRead(st, off, len)
<1>0. off + len \in Nat /\ ~(off >= SourceSize) /\ Least(len, SourceSize - off) = len
  BY Sizes DEF Least
<1>1. /\ end \in Nat /\ end <= SourceSize
      /\ \A u \in Nat : u >= end => u >= AlignDown(SourceSize)
  <2> HIDE DEF AlignDown
  <2> QED
    BY Sizes
<1>2. /\ first \in Nat /\ first <= off /\ off < first + Sector
      /\ last \in Nat /\ last <= SourceSize /\ last <= off + len + Sector
      /\ last <= off => off >= end
  <2>1. /\ AlignDown(off) \in Nat /\ AlignDown(off) <= off /\ off < AlignDown(off) + Sector
        /\ AlignUp(off + len) \in Nat /\ off + len <= AlignUp(off + len)
        /\ AlignUp(off + len) < off + len + Sector
    BY <1>0, AlignIs
  <2>2. CASE whole
    <3>1. first = off /\ last = off + len
      BY <2>2
    <3> HIDE DEF first, last, end
    <3> QED
      BY <3>1, Sizes
  <2>3. CASE ~whole
    <3>1. first = AlignDown(off) /\ last = Least(AlignUp(off + len), end)
      BY <2>3
    <3> HIDE DEF first, last, end
    <3> QED
      BY <3>1, <2>1, <1>1, Sizes DEF Least
  <2> QED
    BY <2>2, <2>3
<1>3. r = IF last <= first THEN [out |-> <<>>, failed |-> TRUE, st |-> st]
          ELSE CopyOut(DeviceRead(st, first, last - first), off - first, len)
  BY <1>0 DEF AlignedRead
<1> HIDE DEF first, last, end, r
<1>4. CASE last <= first
  <2>1. r = [out |-> <<>>, failed |-> TRUE, st |-> st]
    BY <1>3, <1>4
  <2>2. off >= AlignDown(SourceSize)
    BY <1>4, <1>2, <1>1
  <2>3. r.out = <<>> /\ r.failed = TRUE /\ r.st = st /\ Len(<<>>) = 0 /\ <<>> \in Seq(Int)
    BY <2>1
  <2> HIDE DEF r
  <2> QED
    BY <2>2, <2>3 DEF Tried, r
<1>5. CASE ~(last <= first)
  <2> DEFINE size == last - first
             skipped == off - first
             d == DeviceRead(st, first, size)
  <2>1. size \in Nat /\ skipped \in Nat /\ skipped < Sector /\ first + size <= SourceSize
        /\ first + skipped = off /\ (size <= skipped => off >= AlignDown(SourceSize))
        /\ size <= skipped + len + Sector
    BY <1>2, <1>5, <1>1, Sizes
  <2>2. r = CopyOut(d, skipped, len)
    BY <1>3, <1>5
  <2> HIDE DEF size, skipped
  <2>3. /\ Honest(d.st) /\ d.st.bad = st.bad
        /\ d.out \in Seq(Int) /\ Len(d.out) <= size
        /\ \A i \in 1 .. Len(d.out) : d.out[i] = first + i - 1
        /\ Len(d.out) < size => \E p \in weak : p \in first .. first + size - 1
    <3>1. st \in Stacks
      BY DEF Honest
    <3>0. d = DeviceRead(st, first, size)
      OBVIOUS
    <3> HIDE DEF d
    <3>2. /\ Worn(d.st, st) /\ d.out \in Seq(Int) /\ Len(d.out) <= size
          /\ \A i \in 1 .. Len(d.out) : d.out[i] = first + i - 1
          /\ Len(d.out) < size => \E p \in first .. first + size - 1 : st.fails[p] > 0
      <4>1. Delivered(DeviceRead(st, first, size), st, first, size)
        BY <3>1, <2>1, <1>2, DeviceIs
      <4> QED
        BY ONLY <3>0, <4>1 DEF Delivered
    <3>3. Honest(d.st) /\ d.st.bad = st.bad
      BY <3>2, WornIsHonest DEF Worn
    <3>4. \A p \in first .. first + size - 1 : p \in 0 .. SourceSize - 1
      BY <2>1, <1>2, Sizes
    <3>5. \A p \in first .. first + size - 1 : st.fails[p] > 0 => p \in weak
      BY <3>4 DEF Honest
    <3> QED
      BY <3>2, <3>3, <3>5
  <2> HIDE DEF d
  <2>4. Tried(CopyOut(d, skipped, len), st, first + skipped, len)
    BY <2>1, <2>3, <1>2, CopyOutIs
  <2> QED
    BY <2>1, <2>2, <2>4 DEF r
<1> QED
  BY <1>4, <1>5 DEF r

(* The attempts at a block.                                                *)
LEMMA RetryIs ==
  ASSUME NEW r, NEW st, NEW off \in Nat, NEW len \in Nat, len >= 1, off + len <= SourceSize,
         NEW attempt, Tried(r, st, off, len)
  PROVE  Tried(Retry(r, attempt, off, len), st, off, len)
<1>1. CASE r.failed /\ r.out = <<>> /\ attempt <= MaxRetries(r.st.damage)
  <2>1. Retry(r, attempt, off, len) = AlignedRead(r.st, off, len)
    BY <1>1 DEF Retry
  <2>2. Honest(r.st) /\ r.st.bad = st.bad
    BY DEF Tried
  <2> DEFINE again == AlignedRead(r.st, off, len)
  <2>3. Tried(again, r.st, off, len)
    BY <2>2, AlignedIs
  <2> HIDE DEF again
  <2>4. Tried(again, st, off, len)
    BY <2>2, <2>3 DEF Tried
  <2> QED
    BY <2>1, <2>4 DEF again
<1>2. CASE ~(r.failed /\ r.out = <<>> /\ attempt <= MaxRetries(r.st.damage))
  <2>1. Retry(r, attempt, off, len) = r
    BY <1>2 DEF Retry
  <2> QED
    BY <2>1
<1> QED
  BY <1>1, <1>2

LEMMA AttemptsAre ==
  ASSUME NEW st, Honest(st), NEW off \in Nat, NEW len \in Nat, len >= 1, off + len <= SourceSize
  PROVE  Tried(Attempts(st, off, len), st, off, len)
<1> DEFINE once == AlignedRead(st, off, len)
           twice == Retry(once, 1, off, len)
<1>1. Tried(once, st, off, len)
  BY AlignedIs
<1> HIDE DEF once
<1>2. Tried(twice, st, off, len)
  BY <1>1, RetryIs
<1> HIDE DEF twice
<1>3. Tried(Retry(twice, 2, off, len), st, off, len)
  BY <1>2, RetryIs
<1> QED
  BY <1>3 DEF Attempts, twice, once

-----------------------------------------------------------------------------
(* What readSplit is: the equation of the recursive function holds.        *)

(* Any read has the types of one.                                          *)
Typed(r, len) == r.out \in Seq(Int) /\ Len(r.out) <= len /\ r.st \in Stacks
LEMMA AlignedTyped ==
  ASSUME NEW st \in Stacks, NEW off \in Nat, NEW len \in Nat
  PROVE  Typed(AlignedRead(st, off, len), len)
<1> DEFINE wanted == Least(len, SourceSize - off)
           whole == off % Sector = 0 /\ wanted % Sector = 0
           end == IF AlignDown(SourceSize) = 0 THEN SourceSize ELSE AlignDown(SourceSize)
           first == IF whole THEN off ELSE AlignDown(off)
           last == IF whole THEN off + wanted ELSE Least(AlignUp(off + wanted), end)
           r == AlignedRead(st, off, len)
           ended == off >= SourceSize \/ last <= first
<1>1. r = IF ended THEN [out |-> <<>>, failed |-> TRUE, st |-> st]
          ELSE CopyOut(DeviceRead(st, first, last - first), off - first, wanted)
  BY DEF AlignedRead
<1>2. CASE ended
  <2>1. r.out = <<>> /\ r.st = st /\ Len(<<>>) = 0 /\ <<>> \in Seq(Int)
    <3> HIDE DEF ended, r
    <3> QED
      BY <1>1, <1>2
  <2> HIDE DEF ended, r
  <2> QED
    BY <2>1 DEF Typed, r
<1>3. CASE ~ended
  <2>1. off < SourceSize /\ ~(last <= first)
    BY <1>3, Sizes
  <2>2. wanted \in Nat /\ wanted <= len /\ off + wanted <= SourceSize
    BY <2>1, Sizes DEF Least
  <2>3. first \in Nat /\ first <= off /\ last \in Nat /\ last <= SourceSize
    <3>1. AlignDown(off) \in Nat /\ AlignDown(off) <= off /\ AlignUp(off + wanted) \in Nat
      <4> HIDE DEF wanted
      <4>1. off + wanted \in Nat
        BY <2>2
      <4> QED
        BY <4>1, AlignIs
    <3>2. end \in Nat /\ end <= SourceSize
      <4> HIDE DEF AlignDown
      <4> QED
        BY Sizes
    <3> HIDE DEF wanted, end
    <3>3. CASE whole
      <4>1. first = off /\ last = off + wanted
        BY <3>3
      <4> HIDE DEF first, last
      <4> QED
        BY <4>1, <2>2
    <3>4. CASE ~whole
      <4>1. first = AlignDown(off) /\ last = Least(AlignUp(off + wanted), end)
        BY <3>4
      <4> HIDE DEF first, last
      <4> QED
        BY <4>1, <3>1, <3>2, Sizes DEF Least
    <3> QED
      BY <3>3, <3>4
  <2> DEFINE size == last - first
             skipped == off - first
             d == DeviceRead(st, first, size)
             n == Least(Len(d.out), skipped + wanted)
             out == SubSeq(d.out, skipped + 1, n)
  <2>4. size \in Nat /\ first + size <= SourceSize /\ skipped \in Nat
    <3> HIDE DEF first, last, wanted
    <3> QED
      BY <2>1, <2>3, Sizes
  <2>5. r = CopyOut(d, skipped, wanted)
    <3> HIDE DEF r, first, last
    <3> QED
      BY <1>1, <1>3
  <2> HIDE DEF first, last, wanted, size, skipped
  <2>6. d.st \in Stacks /\ d.out \in Seq(Int)
    <3>1. Delivered(d, st, first, size)
      BY <2>3, <2>4, DeviceIs
    <3> HIDE DEF d
    <3> QED
      BY <3>1 DEF Delivered, Worn
  <2>7. r.out = out /\ r.st = d.st
    <3> HIDE DEF d, r
    <3> QED
      BY <2>5 DEF CopyOut
  <2> HIDE DEF d, r
  <2>8. n \in Nat /\ n <= Len(d.out) /\ n <= skipped + wanted
    BY <2>6, <2>4, <2>2, LenProperties DEF Least
  <2> HIDE DEF n
  <2>9. out \in Seq(Int) /\ Len(out) = IF skipped + 1 <= n THEN n - skipped ELSE 0
    <3>1. skipped + 1 \in Nat /\ skipped + 1 >= 1 /\ n - (skipped + 1) + 1 = n - skipped
      BY <2>4, <2>8
    <3> QED
      BY <3>1, <2>6, <2>8, CutIs
  <2> HIDE DEF out
  <2>10. Len(out) <= len
    BY ONLY <2>9, <2>8, <2>4, <2>2, len \in Nat
  <2> QED
    BY <2>7, <2>9, <2>10, <2>6 DEF Typed, r
<1> QED
  BY <1>2, <1>3

LEMMA AttemptsTyped ==
  ASSUME NEW st \in Stacks, NEW off \in Nat, NEW len \in Nat
  PROVE  Typed(Attempts(st, off, len), len)
<1>1. ASSUME NEW r, Typed(r, len), NEW attempt
      PROVE  Typed(Retry(r, attempt, off, len), len)
  <2>1. r.st \in Stacks
    BY <1>1 DEF Typed
  <2>2. Typed(AlignedRead(r.st, off, len), len)
    BY <2>1, AlignedTyped
  <2>3. Retry(r, attempt, off, len) \in {r, AlignedRead(r.st, off, len)}
    BY DEF Retry
  <2> QED
    BY ONLY <1>1, <2>2, <2>3
<1> DEFINE once == AlignedRead(st, off, len)
           twice == Retry(once, 1, off, len)
<1>2. Typed(once, len)
  BY AlignedTyped
<1> HIDE DEF once
<1>3. Typed(twice, len)
  BY <1>1, <1>2
<1> HIDE DEF twice
<1>4. Typed(Retry(twice, 2, off, len), len)
  BY <1>1, <1>3
<1> QED
  BY <1>4 DEF Attempts, twice, once

LEMMA PassIs ==
  ASSUME NEW st \in Stacks, ~Cancelled(st)
  PROVE  /\ Pass(st) \in Stacks /\ Pass(st).fails = st.fails /\ Pass(st).bad = st.bad
         /\ Pass(st).damage = st.damage
<1>1. st.passes \in Nat /\ st.passes # 0
  BY DEF Stacks, Cancelled
<1>2. CASE st.passes = Never
  BY <1>2 DEF Pass
<1>3. CASE st.passes # Never
  <2>1. Pass(st) = [st EXCEPT !.passes = st.passes - 1]
    BY <1>3 DEF Pass
  <2>2. st.passes - 1 \in Nat
    BY <1>1
  <2> QED
    BY <2>1, <2>2 DEF Stacks
<1> QED
  BY <1>2, <1>3

Bads == [off : Nat, len : Nat]
LEMMA RecordBadTyped ==
  ASSUME NEW map \in Seq(Bads), NEW off \in Nat, NEW len \in Nat
  PROVE  RecordBad(map, off, len) \in Seq(Bads)
<1>1. CASE map # <<>> /\ map[Len(map)].off + map[Len(map)].len = off
  <2> DEFINE n == Len(map)
             b == [map[n] EXCEPT !.len = map[n].len + len]
  <2>1. n \in Nat /\ n \in 1 .. n /\ map \in [1 .. n -> Bads]
    <3>1. Len(map) \in Nat /\ map \in [1 .. Len(map) -> Bads] /\ Len(map) # 0
      BY <1>1, LenProperties, EmptySeq
    <3> QED
      BY <3>1
  <2>2. map[n] \in Bads
    BY <2>1
  <2>3. b \in Bads
    BY <2>2 DEF Bads
  <2>4. [map EXCEPT ![n] = b] \in [1 .. n -> Bads]
    BY <2>1, <2>3
  <2>5. [map EXCEPT ![n] = b] \in Seq(Bads)
    BY <2>1, <2>4, SeqDef
  <2>6. RecordBad(map, off, len) = [map EXCEPT ![n] = b]
    BY <1>1 DEF RecordBad
  <2> QED
    BY <2>5, <2>6
<1>2. CASE ~(map # <<>> /\ map[Len(map)].off + map[Len(map)].len = off)
  <2>1. RecordBad(map, off, len) = Append(map, [off |-> off, len |-> len])
    BY <1>2 DEF RecordBad
  <2>2. [off |-> off, len |-> len] \in Bads
    BY DEF Bads
  <2> QED
    BY <2>1, <2>2, AppendProperties
<1> QED
  BY <1>1, <1>2

LEMMA FillBadTyped ==
  ASSUME NEW st \in Stacks, NEW off \in Nat, NEW len \in Nat
  PROVE  /\ FillBad(st, off, len) \in Outs
         /\ FillBad(st, off, len).st.fails = st.fails
         /\ FillBad(st, off, len).st.damage = st.damage
         /\ FillBad(st, off, len).st.bad = RecordBad(st.bad, off, len)
<1> DEFINE then == [st EXCEPT !.bad = RecordBad(st.bad, off, len)]
<1>1. st.bad \in Seq(Bads)
  BY DEF Stacks, Bads
<1>2. RecordBad(st.bad, off, len) \in Seq(Bads)
  BY <1>1, RecordBadTyped
<1>3. then \in Stacks /\ then.fails = st.fails /\ then.damage = st.damage
      /\ then.bad = RecordBad(st.bad, off, len)
  BY <1>2 DEF Stacks, Bads
<1>4. FillBad(st, off, len) = [out |-> Zeros(len), err |-> "bad", st |-> then]
  BY DEF FillBad
<1> HIDE DEF then
<1>5. Zeros(len) \in Seq(Int)
  BY DataIs
<1> QED
  BY <1>3, <1>4, <1>5 DEF Outs

LEMMA ThenTyped ==
  ASSUME NEW head \in Seq(Int), NEW err \in {"none", "bad", "cancel"}, NEW rest \in Outs
  PROVE  Then(head, err, rest) \in Outs
<1>1. rest.out \in Seq(Int) /\ rest.err \in {"none", "bad", "cancel"} /\ rest.st \in Stacks
  BY DEF Outs
<1>2. head \o rest.out \in Seq(Int)
  BY <1>1, ConcatProperties
<1>3. JoinReadError(err, rest.err) \in {"none", "bad", "cancel"}
  BY <1>1 DEF JoinReadError
<1> QED
  BY <1>1, <1>2, <1>3 DEF Then, Outs

(* readSplit of a block, given what it does with smaller ones.             *)
SplitOf(f, len, off, st) ==
  LET r == Attempts(Pass(st), off, len)
      n == Len(r.out)
      half == Half(len, MinBlock(st.damage))
      first == f[half][off][r.st]
  IN  IF Cancelled(st) THEN [out |-> <<>>, err |-> "cancel", st |-> st]
      ELSE IF ~r.failed \/ n = len THEN [out |-> r.out, err |-> "none", st |-> r.st]
      ELSE IF n > 0 THEN Then(r.out, "bad", f[len - n][off + n][r.st])
      ELSE IF len <= MinBlock(st.damage) THEN FillBad(r.st, off, len)
      ELSE Then(first.out, first.err, f[len - half][off + half][first.st])

LEMMA ReadSplitIs ==
  ReadSplit = CHOOSE g : g = [len \in Nat |-> [off \in Nat |-> [st \in Stacks |->
                                SplitOf(g, len, off, st)]]]
BY DEF ReadSplit, SplitOf

Splitters == [Nat -> [Stacks -> Outs]]
LEMMA SplitTyped ==
  ASSUME NEW f \in [Nat -> Splitters], NEW len \in Nat, NEW off \in Nat, NEW st \in Stacks
  PROVE  SplitOf(f, len, off, st) \in Outs
<1> DEFINE r == Attempts(Pass(st), off, len)
           n == Len(r.out)
           min == MinBlock(st.damage)
           half == Half(len, min)
           first == f[half][off][r.st]
           s == SplitOf(f, len, off, st)
<1>0. \A m, o \in Nat, x \in Stacks : f[m][o][x] \in Outs
  BY DEF Splitters
<1>1. CASE Cancelled(st)
  <2>1. s = [out |-> <<>>, err |-> "cancel", st |-> st]
    BY <1>1 DEF SplitOf
  <2> HIDE DEF s
  <2>2. <<>> \in Seq(Int)
    OBVIOUS
  <2> QED
    BY <2>1, <2>2 DEF Outs, s
<1>2. CASE ~Cancelled(st)
  <2>1. Typed(r, len)
    BY <1>2, PassIs, AttemptsTyped
  <2>2. s = IF ~r.failed \/ n = len THEN [out |-> r.out, err |-> "none", st |-> r.st]
            ELSE IF n > 0 THEN Then(r.out, "bad", f[len - n][off + n][r.st])
            ELSE IF len <= min THEN FillBad(r.st, off, len)
            ELSE Then(first.out, first.err, f[len - half][off + half][first.st])
    BY <1>2 DEF SplitOf
  <2> HIDE DEF s, r
  <2>3. r.out \in Seq(Int) /\ n \in Nat /\ n <= len /\ r.st \in Stacks
    BY <2>1, LenProperties DEF Typed
  <2>4. min \in Nat /\ min >= 1
    BY Sizes DEF Stacks
  <2> HIDE DEF n, min
  <2>5. CASE ~r.failed \/ n = len
    <3>1. s = [out |-> r.out, err |-> "none", st |-> r.st]
      BY <2>2, <2>5
    <3> QED
      BY <3>1, <2>3 DEF Outs, s
  <2>6. CASE ~(~r.failed \/ n = len) /\ n > 0
    <3>1. s = Then(r.out, "bad", f[len - n][off + n][r.st])
      BY <2>2, <2>6
    <3>2. len - n \in Nat /\ off + n \in Nat
      BY <2>3
    <3>3. f[len - n][off + n][r.st] \in Outs
      BY <3>2, <2>3, <1>0
    <3> QED
      BY <3>1, <3>3, <2>3, ThenTyped DEF s
  <2>7. CASE ~(~r.failed \/ n = len) /\ ~(n > 0) /\ len <= min
    <3>1. s = FillBad(r.st, off, len)
      BY <2>2, <2>7
    <3>2. FillBad(r.st, off, len) \in Outs
      BY <2>3, FillBadTyped
    <3> QED
      BY ONLY <3>1, <3>2 DEF s
  <2>8. CASE ~(~r.failed \/ n = len) /\ ~(n > 0) /\ ~(len <= min)
    <3>1. s = Then(first.out, first.err, f[len - half][off + half][first.st])
      BY <2>2, <2>8
    <3>2. half \in Nat /\ half >= 1 /\ half < len
      BY <2>4, <2>8, HalfIs
    <3> HIDE DEF half
    <3>3. first \in Outs
      BY <3>2, <2>3, <1>0
    <3> HIDE DEF first
    <3>4. first.out \in Seq(Int) /\ first.err \in {"none", "bad", "cancel"} /\ first.st \in Stacks
      BY <3>3 DEF Outs
    <3>5. len - half \in Nat /\ off + half \in Nat
      BY <3>2
    <3>6. f[len - half][off + half][first.st] \in Outs
      BY <3>4, <3>5, <1>0
    <3> QED
      BY <3>1, <3>4, <3>6, ThenTyped DEF s
  <2> QED
    BY <2>5, <2>6, <2>7, <2>8
<1> QED
  BY <1>1, <1>2

(* Only smaller blocks are looked at: splitting ends.                      *)
LEMMA SplitLooksBelow ==
  ASSUME NEW f, NEW h, NEW len \in Nat, NEW off \in Nat, NEW st \in Stacks,
         \A m \in 0 .. len - 1 : f[m] = h[m]
  PROVE  SplitOf(f, len, off, st) = SplitOf(h, len, off, st)
<1> DEFINE r == Attempts(Pass(st), off, len)
           n == Len(r.out)
           min == MinBlock(st.damage)
           half == Half(len, min)
           Of(g) == IF ~r.failed \/ n = len THEN [out |-> r.out, err |-> "none", st |-> r.st]
                    ELSE IF n > 0 THEN Then(r.out, "bad", g[len - n][off + n][r.st])
                    ELSE IF len <= min THEN FillBad(r.st, off, len)
                    ELSE Then(g[half][off][r.st].out, g[half][off][r.st].err,
                              g[len - half][off + half][g[half][off][r.st].st])
<1>1. CASE Cancelled(st)
  BY <1>1 DEF SplitOf
<1>2. CASE ~Cancelled(st)
  <2>1. Typed(r, len)
    BY <1>2, PassIs, AttemptsTyped
  <2>2. SplitOf(f, len, off, st) = Of(f) /\ SplitOf(h, len, off, st) = Of(h)
    BY <1>2 DEF SplitOf
  <2> HIDE DEF r
  <2>3. n \in Nat /\ n <= len
    BY <2>1, LenProperties DEF Typed
  <2>4. min \in Nat /\ min >= 1
    BY Sizes DEF Stacks
  <2> HIDE DEF n, min
  <2>5. CASE ~r.failed \/ n = len
    BY <2>5, <2>2
  <2>6. CASE ~(~r.failed \/ n = len) /\ n > 0
    <3>1. len - n \in 0 .. len - 1
      BY <2>3, <2>6
    <3>2. f[len - n] = h[len - n]
      BY <3>1
    <3> QED
      BY <2>2, <2>6, <3>2
  <2>7. CASE ~(~r.failed \/ n = len) /\ ~(n > 0) /\ len <= min
    BY <2>7, <2>2
  <2>8. CASE ~(~r.failed \/ n = len) /\ ~(n > 0) /\ ~(len <= min)
    <3>1. half \in Nat /\ half >= 1 /\ half < len
      BY <2>4, <2>8, HalfIs
    <3> HIDE DEF half
    <3>2. half \in 0 .. len - 1 /\ len - half \in 0 .. len - 1
      BY <3>1
    <3>3. f[half] = h[half] /\ f[len - half] = h[len - half]
      BY <3>2
    <3>4. /\ Of(f) = Then(f[half][off][r.st].out, f[half][off][r.st].err,
                            f[len - half][off + half][f[half][off][r.st].st])
          /\ Of(h) = Then(h[half][off][r.st].out, h[half][off][r.st].err,
                            h[len - half][off + half][h[half][off][r.st].st])
      BY <2>8
    <3> HIDE DEF Of
    <3>5. Of(f) = Of(h)
      BY ONLY <3>3, <3>4
    <3> QED
      BY ONLY <2>2, <3>5
  <2> QED
    BY <2>5, <2>6, <2>7, <2>8
<1> QED
  BY <1>1, <1>2

LEMMA ReadSplitStep ==
  \A len, off \in Nat, st \in Stacks :
    ReadSplit[len][off][st] = SplitOf(ReadSplit, len, off, st)
<1> DEFINE Split(f, len) == [off \in Nat |-> [st \in Stacks |-> SplitOf(f, len, off, st)]]
           G == [len \in Nat |-> [f \in [Nat -> Splitters] |-> Split(f, len)]]
<1>1. ASSUME NEW f \in [Nat -> Splitters], NEW len \in Nat PROVE Split(f, len) \in Splitters
  BY SplitTyped DEF Splitters
<1>2. ASSUME NEW len \in Nat, NEW f \in [Nat -> Splitters], NEW h \in [Nat -> Splitters],
             \A m \in 0 .. len - 1 : f[m] = h[m]
      PROVE  Split(f, len) = Split(h, len)
  <2>1. \A off \in Nat, st \in Stacks : SplitOf(f, len, off, st) = SplitOf(h, len, off, st)
    BY <1>2, SplitLooksBelow
  <2> QED
    BY <2>1
<1>3. \E v : v \in Splitters
  <2>1. \E f : f \in [Nat -> Splitters]
    <3>1. \A st \in Stacks : [out |-> <<>>, err |-> "none", st |-> st] \in Outs
      BY DEF Outs
    <3>2. [off \in Nat |-> [st \in Stacks |-> [out |-> <<>>, err |-> "none", st |-> st]]]
            \in Splitters
      BY <3>1 DEF Splitters
    <3> DEFINE v == [off \in Nat |-> [st \in Stacks |-> [out |-> <<>>, err |-> "none", st |-> st]]]
    <3> HIDE DEF v
    <3>3. [n \in Nat |-> v] \in [Nat -> Splitters]
      BY <3>2 DEF v
    <3> QED
      BY <3>3
  <2>2. PICK f : f \in [Nat -> Splitters]
    BY <2>1
  <2>3. f[0] \in Splitters
    BY <2>2
  <2> QED
    BY <2>3
<1> HIDE DEF Split
<1>4. G \in [Nat -> [[Nat -> Splitters] -> Splitters]]
  BY <1>1
<1>5. \A len \in Nat, f \in [Nat -> Splitters] : G[len][f] = Split(f, len)
  OBVIOUS
<1>6. \E f : Solves(f, G, Splitters)
  <2>1. PICK v : v \in Splitters
    BY <1>3
  <2>2. \A len \in Nat : \A f, h \in [Nat -> Splitters] :
          (\A m \in 0 .. len - 1 : f[m] = h[m]) => G[len][f] = G[len][h]
    BY <1>2, <1>5
  <2> HIDE DEF G
  <2>3. LooksBelow(G, Splitters)
    BY <2>2, <1>4 DEF LooksBelow
  <2> QED
    BY <2>1, <2>3, Recursion
<1>7. PICK f : Solves(f, G, Splitters)
  BY <1>6
<1>8. f = [len \in Nat |-> Split(f, len)]
  BY <1>7, <1>5 DEF Solves
<1>9. ReadSplit = CHOOSE g : g = [len \in Nat |-> Split(g, len)]
  BY ReadSplitIs DEF Split
<1>10. ReadSplit = [len \in Nat |-> Split(ReadSplit, len)]
  BY ONLY <1>8, <1>9
<1>11. \A len \in Nat : ReadSplit[len] = Split(ReadSplit, len)
  BY <1>10
<1> SUFFICES ASSUME NEW len \in Nat, NEW off \in Nat, NEW st \in Stacks
             PROVE  ReadSplit[len][off][st] = SplitOf(ReadSplit, len, off, st)
  OBVIOUS
<1>12. ReadSplit[len] = Split(ReadSplit, len)
  BY <1>11
<1> QED
  BY <1>12 DEF Split

-----------------------------------------------------------------------------
(* What the adaptive reader delivers: every unit is that of the source, or *)
(* zero and near a weak one, and the zeros are what it has recorded.       *)
Right(v, unit) == v = unit \/ (v = Zero /\ NearWeak(unit))
Rights(out, off) == \A i \in 1 .. Len(out) : Right(out[i], off + i - 1)
Zeroes(out, off) == {off + i - 1 : i \in {j \in 1 .. Len(out) : out[j] = Zero}}

LEMMA JoinIs ==
  ASSUME NEW a \in Seq(Int), NEW b \in Seq(Int), NEW off \in Nat
  PROVE  /\ a \o b \in Seq(Int) /\ Len(a \o b) = Len(a) + Len(b)
         /\ Zeroes(a \o b, off) = Zeroes(a, off) \cup Zeroes(b, off + Len(a))
         /\ Rights(a, off) /\ Rights(b, off + Len(a)) => Rights(a \o b, off)
<1> DEFINE c == a \o b
<1>1. /\ c \in Seq(Int) /\ Len(c) = Len(a) + Len(b)
      /\ \A i \in 1 .. Len(a) + Len(b) : c[i] = IF i <= Len(a) THEN a[i] ELSE b[i - Len(a)]
      /\ Len(a) \in Nat /\ Len(b) \in Nat
  BY ConcatProperties, LenProperties
<1> HIDE DEF c
<1>2. \A i \in 1 .. Len(a) : i \in 1 .. Len(c) /\ c[i] = a[i]
  <2> DEFINE n == Len(a)
             m == Len(b)
  <2>1. n \in Nat /\ m \in Nat /\ Len(c) = n + m
        /\ \A i \in 1 .. n + m : c[i] = IF i <= n THEN a[i] ELSE b[i - n]
    BY <1>1
  <2> HIDE DEF n, m
  <2>2. \A i \in 1 .. n : i \in 1 .. n + m /\ i <= n
    BY <2>1
  <2>3. \A i \in 1 .. n : i \in 1 .. Len(c) /\ c[i] = a[i]
    BY <2>1, <2>2
  <2> QED
    BY <2>3 DEF n
<1>3. \A i \in 1 .. Len(b) : /\ i + Len(a) \in 1 .. Len(c) /\ c[i + Len(a)] = b[i]
                             /\ off + (i + Len(a)) - 1 = (off + Len(a)) + i - 1
  <2> SUFFICES ASSUME NEW i \in 1 .. Len(b)
               PROVE  /\ i + Len(a) \in 1 .. Len(c) /\ c[i + Len(a)] = b[i]
                      /\ off + (i + Len(a)) - 1 = (off + Len(a)) + i - 1
    OBVIOUS
  <2>1. /\ i + Len(a) \in 1 .. Len(a) + Len(b) /\ ~(i + Len(a) <= Len(a))
        /\ (i + Len(a)) - Len(a) = i /\ off + (i + Len(a)) - 1 = (off + Len(a)) + i - 1
    <3>1. \A n, m \in Nat : \A j \in 1 .. m :
            /\ j + n \in 1 .. n + m /\ ~(j + n <= n) /\ (j + n) - n = j
            /\ off + (j + n) - 1 = (off + n) + j - 1
      OBVIOUS
    <3> QED
      BY ONLY <3>1, Len(a) \in Nat, Len(b) \in Nat, i \in 1 .. Len(b)
  <2> QED
    BY <2>1, <1>1
<1>4. \A i \in 1 .. Len(c) : i \in 1 .. Len(a) \/ \E j \in 1 .. Len(b) : i = j + Len(a)
  <2> SUFFICES ASSUME NEW i \in 1 .. Len(c), ~(i \in 1 .. Len(a))
               PROVE  \E j \in 1 .. Len(b) : i = j + Len(a)
    OBVIOUS
  <2>1. i - Len(a) \in 1 .. Len(b) /\ i = (i - Len(a)) + Len(a)
    BY <1>1
  <2> QED
    BY <2>1
<1>5. Zeroes(c, off) = Zeroes(a, off) \cup Zeroes(b, off + Len(a))
  <2>1. ASSUME NEW u \in Zeroes(c, off) PROVE u \in Zeroes(a, off) \cup Zeroes(b, off + Len(a))
    <3>1. PICK i \in 1 .. Len(c) : c[i] = Zero /\ u = off + i - 1
      BY <2>1 DEF Zeroes
    <3>2. CASE i \in 1 .. Len(a)
      BY <3>1, <3>2, <1>2 DEF Zeroes
    <3>3. CASE \E j \in 1 .. Len(b) : i = j + Len(a)
      <4>1. PICK j \in 1 .. Len(b) : i = j + Len(a)
        BY <3>3
      <4>2. b[j] = Zero /\ u = (off + Len(a)) + j - 1
        BY <4>1, <3>1, <1>3
      <4> QED
        BY <4>2 DEF Zeroes
    <3> QED
      BY <3>2, <3>3, <1>4
  <2>2. ASSUME NEW u \in Zeroes(a, off) PROVE u \in Zeroes(c, off)
    BY <2>2, <1>2 DEF Zeroes
  <2>3. ASSUME NEW u \in Zeroes(b, off + Len(a)) PROVE u \in Zeroes(c, off)
    <3>1. PICK j \in 1 .. Len(b) : b[j] = Zero /\ u = (off + Len(a)) + j - 1
      BY <2>3 DEF Zeroes
    <3>2. /\ j + Len(a) \in 1 .. Len(c) /\ c[j + Len(a)] = Zero
          /\ u = off + (j + Len(a)) - 1
      BY <3>1, <1>3
    <3> QED
      BY <3>2 DEF Zeroes
  <2> QED
    BY <2>1, <2>2, <2>3
<1>6. ASSUME Rights(a, off), Rights(b, off + Len(a)) PROVE Rights(c, off)
  <2> SUFFICES ASSUME NEW i \in 1 .. Len(c) PROVE Right(c[i], off + i - 1)
    BY DEF Rights
  <2>1. CASE i \in 1 .. Len(a)
    BY <2>1, <1>2, <1>6 DEF Rights
  <2>2. CASE \E j \in 1 .. Len(b) : i = j + Len(a)
    <3>1. PICK j \in 1 .. Len(b) : i = j + Len(a)
      BY <2>2
    <3>2. c[i] = b[j] /\ off + i - 1 = (off + Len(a)) + j - 1
      BY <3>1, <1>3
    <3> QED
      BY <3>2, <1>6 DEF Rights
  <2> QED
    BY <2>1, <2>2, <1>4
<1> QED
  BY <1>1, <1>5, <1>6 DEF c

(* recordBad adds the range.                                               *)
LEMMA BadUnitsAre ==
  ASSUME NEW map, NEW u
  PROVE  u \in BadUnits(map)
           <=> \E i \in DOMAIN map : u \in map[i].off .. map[i].off + map[i].len - 1
BY DEF BadUnits

LEMMA RecordBadAdds ==
  ASSUME NEW map \in Seq(Bads), NEW off \in Nat, NEW len \in Nat
  PROVE  BadUnits(RecordBad(map, off, len)) = BadUnits(map) \cup (off .. off + len - 1)
<1> DEFINE n == Len(map)
           then == RecordBad(map, off, len)
<1>1. n \in Nat /\ DOMAIN map = 1 .. n /\ \A i \in 1 .. n : map[i] \in Bads
  BY LenProperties, ElementOfSeq
<1>2. CASE map # <<>> /\ map[n].off + map[n].len = off
  <2> DEFINE b == [map[n] EXCEPT !.len = map[n].len + len]
  <2>1. n \in 1 .. n
    <3>1. n # 0
      BY <1>2, EmptySeq
    <3> QED
      BY <3>1, <1>1
  <2>2. then = [map EXCEPT ![n] = b]
    BY <1>2 DEF RecordBad
  <2>3. map[n].off \in Nat /\ map[n].len \in Nat /\ map[n] \in Bads
    BY <2>1, <1>1 DEF Bads
  <2>4. b.off = map[n].off /\ b.len = map[n].len + len
    BY <2>3 DEF Bads
  <2> HIDE DEF b, then, n
  <2>5. DOMAIN then = 1 .. n /\ then[n] = b /\ \A i \in 1 .. n : i # n => then[i] = map[i]
    BY ONLY <2>1, <2>2, <1>1
  <2>6. b.off .. b.off + b.len - 1
          = (map[n].off .. map[n].off + map[n].len - 1) \cup (off .. off + len - 1)
    <3>1. \A x, k, m \in Nat : x + k = off =>
            x .. x + (k + m) - 1 = (x .. x + k - 1) \cup (off .. off + m - 1)
      OBVIOUS
    <3> DEFINE x == map[n].off
               k == map[n].len
    <3>2. x \in Nat /\ k \in Nat /\ x + k = off
      BY <2>3, <1>2
    <3>3. b.off = x /\ b.len = k + len
      BY <2>4
    <3> HIDE DEF x, k
    <3>4. x .. x + (k + len) - 1 = (x .. x + k - 1) \cup (off .. off + len - 1)
      BY ONLY <3>1, <3>2, len \in Nat
    <3>5. b.off .. b.off + b.len - 1 = (x .. x + k - 1) \cup (off .. off + len - 1)
      BY ONLY <3>3, <3>4
    <3> QED
      BY <3>5 DEF x, k
  <2>7. ASSUME NEW u PROVE u \in BadUnits(then) <=> u \in BadUnits(map) \cup (off .. off + len - 1)
    <3>1. u \in BadUnits(then)
            <=> \E i \in 1 .. n : u \in then[i].off .. then[i].off + then[i].len - 1
      BY <2>5, BadUnitsAre
    <3>2. u \in BadUnits(map)
            <=> \E i \in 1 .. n : u \in map[i].off .. map[i].off + map[i].len - 1
      BY <1>1, BadUnitsAre
    <3> QED
      BY ONLY <3>1, <3>2, <2>1, <2>5, <2>6
  <2> QED
    BY <2>7 DEF then
<1>3. CASE ~(map # <<>> /\ map[n].off + map[n].len = off)
  <2> DEFINE b == [off |-> off, len |-> len]
  <2>1. then = Append(map, b)
    BY <1>3 DEF RecordBad
  <2>2. b \in Bads /\ b.off = off /\ b.len = len
    BY DEF Bads
  <2> HIDE DEF b, then, n
  <2>3. /\ DOMAIN then = 1 .. n + 1 /\ then[n + 1] = b
        /\ \A i \in 1 .. n : then[i] = map[i]
    BY <2>1, <2>2, AppendIs DEF n
  <2>4. \A i \in 1 .. n + 1 : i = n + 1 \/ i \in 1 .. n
    BY <1>1
  <2>5. n + 1 \in 1 .. n + 1 /\ \A i \in 1 .. n : i \in 1 .. n + 1
    BY <1>1
  <2>6. ASSUME NEW u PROVE u \in BadUnits(then) <=> u \in BadUnits(map) \cup (off .. off + len - 1)
    <3>1. u \in BadUnits(then)
            <=> \E i \in 1 .. n + 1 : u \in then[i].off .. then[i].off + then[i].len - 1
      BY <2>3, BadUnitsAre
    <3>2. u \in BadUnits(map)
            <=> \E i \in 1 .. n : u \in map[i].off .. map[i].off + map[i].len - 1
      BY <1>1, BadUnitsAre
    <3> QED
      BY ONLY <3>1, <3>2, <2>2, <2>3, <2>4, <2>5
  <2> QED
    BY <2>6 DEF then
<1> QED
  BY <1>2, <1>3

(* What a read of len units delivers: fewer only if it saw a cancel.       *)
Reads(r, st, off, len) ==
  /\ r \in Outs /\ Honest(r.st)
  /\ Len(r.out) <= len /\ Rights(r.out, off)
  /\ Len(r.out) < len => Cancelled(r.st)
  /\ BadUnits(r.st.bad) = BadUnits(st.bad) \cup Zeroes(r.out, off)

(* Two reads, one after the other.                                         *)
LEMMA ThenIs ==
  ASSUME NEW first, NEW rest, NEW st, NEW off \in Nat, NEW m \in Nat, NEW n \in Nat,
         NEW err \in {"none", "bad", "cancel"}, n >= 1,
         Reads(first, st, off, m), Reads(rest, first.st, off + m, n),
         Cancelled(first.st) => rest.out = <<>>
  PROVE  Reads(Then(first.out, err, rest), st, off, m + n)
<1> DEFINE r == Then(first.out, err, rest)
<1>1. /\ first.out \in Seq(Int) /\ rest \in Outs /\ rest.out \in Seq(Int)
      /\ Len(first.out) \in Nat /\ Len(rest.out) \in Nat
      /\ Len(first.out) <= m /\ Len(rest.out) <= n
      /\ Rights(first.out, off) /\ Rights(rest.out, off + m)
  BY LenProperties DEF Reads, Outs
<1>2. r \in Outs
  BY <1>1, ThenTyped
<1>3. r.out = first.out \o rest.out /\ r.st = rest.st
  BY DEF Then
<1> HIDE DEF r
(* The rest is empty if the first was cut short.                           *)
<1>4. Len(first.out) < m => rest.out = <<>> /\ Len(rest.out) = 0
  BY EmptySeq DEF Reads
<1>5. Rights(rest.out, off + Len(first.out))
      /\ Zeroes(rest.out, off + Len(first.out)) = Zeroes(rest.out, off + m)
  <2>1. CASE Len(first.out) = m
    BY <2>1, <1>1
  <2>2. CASE Len(first.out) # m
    <3>1. Len(rest.out) = 0
      BY <2>2, <1>1, <1>4
    <3> QED
      BY <3>1 DEF Rights, Zeroes
  <2> QED
    BY <2>1, <2>2
<1>6. /\ Len(r.out) = Len(first.out) + Len(rest.out) /\ Rights(r.out, off)
      /\ Zeroes(r.out, off) = Zeroes(first.out, off) \cup Zeroes(rest.out, off + m)
  <2> DEFINE a == first.out
             b == rest.out
  <2>1. a \in Seq(Int) /\ b \in Seq(Int) /\ r.out = a \o b /\ Rights(a, off)
        /\ Rights(b, off + Len(a)) /\ Zeroes(b, off + Len(a)) = Zeroes(b, off + m)
    BY <1>1, <1>3, <1>5
  <2> HIDE DEF a, b
  <2>2. /\ Len(a \o b) = Len(a) + Len(b) /\ Rights(a \o b, off)
        /\ Zeroes(a \o b, off) = Zeroes(a, off) \cup Zeroes(b, off + Len(a))
    BY <2>1, JoinIs
  <2>3. /\ Len(r.out) = Len(a) + Len(b) /\ Rights(r.out, off)
        /\ Zeroes(r.out, off) = Zeroes(a, off) \cup Zeroes(b, off + m)
    BY ONLY <2>1, <2>2
  <2> QED
    BY <2>3 DEF a, b
<1>7. BadUnits(r.st.bad) = BadUnits(st.bad) \cup Zeroes(r.out, off)
  <2>1. BadUnits(rest.st.bad) = BadUnits(first.st.bad) \cup Zeroes(rest.out, off + m)
        /\ BadUnits(first.st.bad) = BadUnits(st.bad) \cup Zeroes(first.out, off)
    BY DEF Reads
  <2> QED
    BY ONLY <2>1, <1>3, <1>6
<1>8. Len(r.out) <= m + n /\ (Len(r.out) < m + n => Cancelled(r.st))
  <2> DEFINE a == Len(first.out)
             b == Len(rest.out)
             c == Len(r.out)
  <2>1. a \in Nat /\ b \in Nat /\ a <= m /\ b <= n /\ c = a + b /\ (a < m => b = 0)
    BY <1>1, <1>4, <1>6
  <2>2. b < n => Cancelled(r.st)
    BY <1>3 DEF Reads
  <2> HIDE DEF a, b, c
  <2>3. c <= m + n /\ (c < m + n => b < n)
    BY <2>1
  <2> QED
    BY <2>2, <2>3 DEF c
<1> QED
  BY <1>2, <1>3, <1>6, <1>7, <1>8 DEF Reads, r

(* Bytes that were read are right, and none of them is zero.               *)
LEMMA TriedIsRight ==
  ASSUME NEW r, NEW st, NEW off \in Nat, NEW len \in Nat, Tried(r, st, off, len),
         NEW w \in Outs, w.out = r.out, w.st = r.st
  PROVE  Reads(w, st, off, Len(r.out))
<1>1. /\ r.out \in Seq(Int) /\ Len(r.out) \in Nat /\ Honest(r.st) /\ r.st.bad = st.bad
      /\ \A i \in 1 .. Len(r.out) : r.out[i] = off + i - 1
  BY LenProperties DEF Tried
<1>2. w.out = r.out /\ w.st = r.st /\ w \in Outs
  OBVIOUS
<1>3. Rights(r.out, off)
  BY <1>1 DEF Rights, Right
<1>4. Zeroes(r.out, off) = {}
  <2>1. \A i \in 1 .. Len(r.out) : off + i - 1 # Zero
    <3>1. \A n \in Nat : \A i \in 1 .. n : off + i - 1 # Zero
      BY DEF Zero
    <3> QED
      BY <3>1, <1>1
  <2> QED
    BY <1>1, <2>1 DEF Zeroes
<1>5. Len(w.out) <= Len(r.out) /\ ~(Len(w.out) < Len(r.out))
  BY ONLY <1>1, <1>2
<1>6. BadUnits(w.st.bad) = BadUnits(st.bad) \cup Zeroes(w.out, off)
  BY ONLY <1>1, <1>2, <1>4
<1> QED
  BY <1>1, <1>2, <1>3, <1>5, <1>6 DEF Reads

(* The block that is filled is near a weak unit: it is of the smallest     *)
(* size, and nothing of it could be read.                                  *)
LEMMA FilledIsNear ==
  ASSUME damage \in Damages, NEW off \in Nat, NEW len \in Nat, len <= MinBlock(damage),
         \/ off >= AlignDown(SourceSize)
         \/ \E p \in weak : p \in off - Sector .. off + len + Sector,
         NEW u \in off .. off + len - 1
  PROVE  NearWeak(u)
<1> DEFINE min == MinBlock(damage)
<1>1. min \in Nat /\ Sector \in Nat /\ AlignDown(SourceSize) \in Nat
  BY Sizes
<1>2. CASE off >= AlignDown(SourceSize)
  <2>1. u >= AlignDown(SourceSize)
    <3> HIDE DEF AlignDown
    <3> QED
      BY <1>1, <1>2
  <2> QED
    BY <2>1 DEF NearWeak
<1>3. CASE \E p \in weak : p \in off - Sector .. off + len + Sector
  <2>1. PICK p \in weak : p \in off - Sector .. off + len + Sector
    BY <1>3
  <2> HIDE DEF min
  <2>2. len <= min
    BY DEF min
  <2>3. u - p \in -min - Sector .. min + Sector
    BY ONLY <2>1, <2>2, <1>1, u \in off .. off + len - 1, off \in Nat, len \in Nat
  <2> QED
    BY <2>1, <2>3 DEF NearWeak, min
<1> QED
  BY <1>2, <1>3

LEMMA FillIsRight ==
  ASSUME damage \in Damages, NEW st, Honest(st), NEW off \in Nat, NEW len \in Nat,
         len <= MinBlock(damage),
         \/ off >= AlignDown(SourceSize)
         \/ \E p \in weak : p \in off - Sector .. off + len + Sector
  PROVE  Reads(FillBad(st, off, len), st, off, len)
<1> DEFINE w == FillBad(st, off, len)
<1>1. st \in Stacks /\ st.bad \in Seq(Bads)
  BY DEF Honest, Stacks, Bads
<1>2. w \in Outs /\ w.st.fails = st.fails /\ w.st.damage = st.damage
      /\ w.st.bad = RecordBad(st.bad, off, len)
  BY <1>1, FillBadTyped
<1>3. w.out = Zeros(len)
  BY DEF FillBad
<1> HIDE DEF w
<1>4. Len(w.out) = len /\ \A i \in 1 .. len : w.out[i] = Zero
  BY <1>3, DataIs
<1>5. Honest(w.st)
  BY <1>2 DEF Honest, Outs
<1>6. Rights(w.out, off)
  <2> SUFFICES ASSUME NEW i \in 1 .. len PROVE NearWeak(off + i - 1)
    BY <1>4 DEF Rights, Right
  <2>1. off + i - 1 \in off .. off + len - 1
    OBVIOUS
  <2> QED
    BY <2>1, FilledIsNear
<1>7. Zeroes(w.out, off) = off .. off + len - 1
  <2>1. ASSUME NEW u \in off .. off + len - 1 PROVE u \in Zeroes(w.out, off)
    <3>1. u - off + 1 \in 1 .. len /\ u = off + (u - off + 1) - 1
      OBVIOUS
    <3> QED
      BY <3>1, <1>4 DEF Zeroes
  <2>2. ASSUME NEW u \in Zeroes(w.out, off) PROVE u \in off .. off + len - 1
    <3>1. PICK i \in 1 .. len : u = off + i - 1
      BY <2>2, <1>4 DEF Zeroes
    <3> QED
      BY <3>1
  <2> QED
    BY <2>1, <2>2
<1>8. BadUnits(w.st.bad) = BadUnits(st.bad) \cup Zeroes(w.out, off)
  BY <1>1, <1>2, <1>7, RecordBadAdds
<1> QED
  BY <1>2, <1>4, <1>5, <1>6, <1>8 DEF Reads, w

(* Nothing is read after a cancel.                                         *)
LEMMA SplitSeesCancel ==
  ASSUME NEW st, Honest(st), Cancelled(st), NEW len \in Nat, NEW off \in Nat
  PROVE  /\ ReadSplit[len][off][st].out = <<>>
         /\ Reads(ReadSplit[len][off][st], st, off, len)
<1> DEFINE w == ReadSplit[len][off][st]
<1>1. w = [out |-> <<>>, err |-> "cancel", st |-> st]
  <2>1. st \in Stacks
    BY DEF Honest
  <2>2. SplitOf(ReadSplit, len, off, st) = [out |-> <<>>, err |-> "cancel", st |-> st]
    BY DEF SplitOf
  <2> QED
    BY <2>1, <2>2, ReadSplitStep
<1>2. w.out = <<>> /\ w.st = st /\ <<>> \in Seq(Int) /\ Len(<<>>) = 0
  BY <1>1
<1>3. w \in Outs
  BY <1>1, <1>2 DEF Outs, Honest
<1> HIDE DEF w
<1>4. Len(w.out) = 0
  BY <1>2
<1>5. Rights(w.out, off) /\ Zeroes(w.out, off) = {}
  BY <1>4 DEF Rights, Zeroes
<1> QED
  BY <1>2, <1>3, <1>4, <1>5 DEF Reads, w

(* readSplit delivers a block or is cancelled, whatever fails.             *)
Splits(len) ==
  \A off \in Nat : \A st \in Stacks :
    len >= 1 /\ off + len <= SourceSize /\ Honest(st)
      => Reads(ReadSplit[len][off][st], st, off, len)

LEMMA SplitReads ==
  ASSUME damage \in Damages
  PROVE  \A len \in Nat : Splits(len)
<1> DEFINE Bad == {len \in Nat : ~Splits(len)}
<1> SUFFICES ASSUME Bad # {} PROVE FALSE
  OBVIOUS
<1>1. PICK len \in Bad : \A k \in Bad : len <= k
  <2>1. Bad \subseteq Nat
    OBVIOUS
  <2> HIDE DEF Bad
  <2> QED
    BY <2>1, LeastOf
<1>2. len \in Nat /\ ~Splits(len)
  BY <1>1
<1>3. ASSUME NEW k \in Nat, k < len PROVE Splits(k)
  <2>1. ~(len <= k)
    BY <1>2, <1>3
  <2>2. k \notin Bad
    BY ONLY <2>1, <1>1
  <2> QED
    BY <2>2
<1> HIDE DEF Bad
<1> SUFFICES ASSUME NEW off \in Nat, NEW st \in Stacks,
                    len >= 1, off + len <= SourceSize, Honest(st)
             PROVE  Reads(ReadSplit[len][off][st], st, off, len)
  BY <1>2 DEF Splits
<1> DEFINE s == ReadSplit[len][off][st]
           r == Attempts(Pass(st), off, len)
           n == Len(r.out)
           min == MinBlock(damage)
           half == Half(len, min)
           first == ReadSplit[half][off][r.st]
           more == ReadSplit[len - n][off + n][r.st]
           rest == ReadSplit[len - half][off + half][first.st]
<1>4. CASE Cancelled(st)
  BY <1>2, <1>4, SplitSeesCancel
<1>5. CASE ~Cancelled(st)
  <2>1. Honest(Pass(st)) /\ Pass(st).bad = st.bad
    BY <1>5, PassIs DEF Honest
  <2>2. Tried(r, Pass(st), off, len)
    BY <1>2, <2>1, AttemptsAre
  <2>3. s = IF ~r.failed \/ n = len THEN [out |-> r.out, err |-> "none", st |-> r.st]
            ELSE IF n > 0 THEN Then(r.out, "bad", more)
            ELSE IF len <= min THEN FillBad(r.st, off, len)
            ELSE Then(first.out, first.err, rest)
    <3>1. s = SplitOf(ReadSplit, len, off, st)
      BY <1>2, ReadSplitStep
    <3>2. st.damage = damage
      BY DEF Honest
    <3> HIDE DEF s
    <3> QED
      BY <1>5, <3>1, <3>2 DEF SplitOf
  <2> HIDE DEF s, r, more, rest
  <2>4. Tried(r, st, off, len)
    BY <2>1, <2>2, PassIs DEF Tried
  <2>5. /\ Honest(r.st) /\ r.out \in Seq(Int) /\ n \in Nat /\ n <= len
        /\ (r.failed <=> n < len) /\ r.st \in Stacks
    BY <2>4, LenProperties DEF Tried, Honest
  <2> DEFINE head == [out |-> r.out, err |-> "none", st |-> r.st]
  <2>6. Reads(head, st, off, n) /\ head.out = r.out /\ head.st = r.st
    <3>1. head \in Outs /\ head.out = r.out /\ head.st = r.st
      BY <2>5 DEF Outs
    <3> HIDE DEF head
    <3> QED
      BY <3>1, <2>4, <1>2, TriedIsRight
  <2>7. min \in Nat /\ min >= 1
    BY Sizes
  <2> HIDE DEF min, head
  <2>8. CASE ~r.failed \/ n = len
    <3>1. s = [out |-> r.out, err |-> "none", st |-> r.st]
      BY <2>3, <2>8
    <3>2. n = len
      BY <2>5, <2>8, <1>2
    <3> QED
      BY <3>1, <3>2, <2>6 DEF head, s
  <2>9. CASE ~(~r.failed \/ n = len) /\ n > 0
    <3>1. s = Then(head.out, "bad", more)
      BY <2>3, <2>9, <2>6
    <3>2. /\ len - n \in Nat /\ len - n >= 1 /\ off + n \in Nat /\ len - n < len
          /\ (off + n) + (len - n) <= SourceSize /\ n + (len - n) = len
      BY <2>5, <2>9, <1>2, Sizes
    <3>3. Reads(more, head.st, off + n, len - n)
      <4>1. Splits(len - n)
        BY <3>2, <1>3
      <4> QED
        BY <4>1, <3>2, <2>5, <2>6 DEF Splits, more
    <3>4. Cancelled(head.st) => more.out = <<>>
      <4>1. Cancelled(r.st) => more.out = <<>>
        BY <2>5, <3>2, SplitSeesCancel DEF more
      <4> QED
        BY <4>1, <2>6
    <3>5. Reads(Then(head.out, "bad", more), st, off, n + (len - n))
      BY <3>2, <3>3, <3>4, <2>5, <2>6, ThenIs
    <3> QED
      BY <3>1, <3>2, <3>5 DEF s
  <2>10. CASE ~(~r.failed \/ n = len) /\ ~(n > 0) /\ len <= min
    <3>1. s = FillBad(r.st, off, len)
      BY <2>3, <2>10
    <3>2. r.out = <<>>
      BY <2>5, <2>10, EmptySeq
    <3>3. \/ off >= AlignDown(SourceSize)
          \/ \E p \in weak : p \in off - Sector .. off + len + Sector
      BY <2>4, <3>2 DEF Tried
    <3>4. Reads(FillBad(r.st, off, len), r.st, off, len)
      BY <3>3, <2>5, <2>10, <1>2, FillIsRight DEF min
    <3>5. r.st.bad = st.bad
      BY <2>4 DEF Tried
    <3> QED
      BY <3>1, <3>4, <3>5 DEF s, Reads
  <2>11. CASE ~(~r.failed \/ n = len) /\ ~(n > 0) /\ ~(len <= min)
    <3>1. s = Then(first.out, first.err, rest)
      BY <2>3, <2>11
    <3>2. half \in Nat /\ half >= 1 /\ half < len
      BY <2>7, <2>11, <1>2, HalfIs
    <3>3. r.st.bad = st.bad
      BY <2>4 DEF Tried
    <3> HIDE DEF half
    <3>4. /\ len - half \in Nat /\ len - half >= 1 /\ off + half \in Nat /\ len - half < len
          /\ off + half <= SourceSize
          /\ (off + half) + (len - half) <= SourceSize /\ half + (len - half) = len
      BY <3>2, <1>2, Sizes
    <3>5. Reads(first, st, off, half)
      <4>1. Splits(half)
        BY <3>2, <1>3
      <4>2. Reads(first, r.st, off, half)
        BY <4>1, <3>2, <3>4, <2>5 DEF Splits
      <4> HIDE DEF first
      <4> QED
        BY <4>2, <3>3 DEF Reads
    <3> HIDE DEF first
    <3>6. Honest(first.st) /\ first.st \in Stacks /\ first.err \in {"none", "bad", "cancel"}
      BY <3>5 DEF Reads, Honest, Outs
    <3>7. Reads(rest, first.st, off + half, len - half)
      <4>1. Splits(len - half)
        BY <3>4, <1>3
      <4> QED
        BY <4>1, <3>4, <3>6 DEF Splits, rest
    <3>8. Cancelled(first.st) => rest.out = <<>>
      BY <3>4, <3>6, SplitSeesCancel DEF rest
    <3>9. Reads(Then(first.out, first.err, rest), st, off, half + (len - half))
      BY <3>2, <3>4, <3>5, <3>6, <3>7, <3>8, ThenIs
    <3> QED
      BY <3>1, <3>4, <3>9 DEF s
  <2> QED
    BY <2>8, <2>9, <2>10, <2>11
<1> QED
  BY <1>4, <1>5

(* A read through the adaptive reader delivers all that was asked for      *)
(* unless it is cancelled; each unit is the source's, or zero and near one *)
(* that did not read, and what is recorded as bad are the zeros.           *)
THEOREM AdaptiveReadIs ==
  ASSUME damage \in Damages, NEW st \in Stacks, Honest(st), NEW off \in Nat, NEW len \in Nat,
         len >= 1, off + len <= SourceSize
  PROVE  Reads(AdaptiveRead(st, off, len), st, off, len)
<1> DEFINE s == AdaptiveRead(st, off, len)
           r == AlignedRead(Pass(st), off, len)
           n == Len(r.out)
           err == IF n > 0 THEN "bad" ELSE "none"
           more == ReadSplit[len - n][off + n][r.st]
<1>1. CASE Cancelled(st)
  <2>1. s = [out |-> <<>>, err |-> "cancel", st |-> st]
    BY <1>1 DEF AdaptiveRead
  <2>2. s.out = <<>> /\ s.st = st /\ <<>> \in Seq(Int) /\ Len(<<>>) = 0 /\ s \in Outs
    BY <2>1 DEF Outs
  <2> HIDE DEF s
  <2>3. Len(s.out) = 0
    BY <2>2
  <2>4. Rights(s.out, off) /\ Zeroes(s.out, off) = {}
    BY <2>3 DEF Rights, Zeroes
  <2> QED
    BY <2>2, <2>3, <2>4, <1>1 DEF Reads, s
<1>2. CASE ~Cancelled(st)
  <2>1. Honest(Pass(st)) /\ Pass(st).bad = st.bad
    BY <1>2, PassIs DEF Honest
  <2>2. Tried(r, Pass(st), off, len)
    BY <2>1, AlignedIs
  <2>3. s = IF ~r.failed THEN [out |-> r.out, err |-> "none", st |-> r.st]
            ELSE Then(r.out, err, more)
    BY <1>2 DEF AdaptiveRead, KeepPrefix
  <2> HIDE DEF s, r, more
  <2>4. Tried(r, st, off, len)
    BY <2>1, <2>2 DEF Tried
  <2>5. /\ Honest(r.st) /\ r.out \in Seq(Int) /\ n \in Nat /\ n <= len
        /\ (r.failed <=> n < len) /\ r.st \in Stacks
    BY <2>4, LenProperties DEF Tried, Honest
  <2> DEFINE head == [out |-> r.out, err |-> "none", st |-> r.st]
  <2>6. Reads(head, st, off, n) /\ head.out = r.out /\ head.st = r.st
    <3>1. head \in Outs /\ head.out = r.out /\ head.st = r.st
      BY <2>5 DEF Outs
    <3> HIDE DEF head
    <3> QED
      BY <3>1, <2>4, TriedIsRight
  <2> HIDE DEF head
  <2>7. CASE ~r.failed
    <3>1. s = [out |-> r.out, err |-> "none", st |-> r.st]
      BY <2>3, <2>7
    <3>2. n = len
      BY <2>5, <2>7
    <3> QED
      BY <3>1, <3>2, <2>6 DEF head, s
  <2>8. CASE r.failed
    <3>1. s = Then(head.out, err, more)
      BY <2>3, <2>8, <2>6
    <3>2. /\ len - n \in Nat /\ len - n >= 1 /\ off + n \in Nat
          /\ (off + n) + (len - n) <= SourceSize /\ n + (len - n) = len
      BY <2>5, <2>8, Sizes
    <3>3. Reads(more, head.st, off + n, len - n)
      <4>1. Splits(len - n)
        BY <3>2, SplitReads
      <4> QED
        BY <4>1, <3>2, <2>5, <2>6 DEF Splits, more
    <3>4. Cancelled(head.st) => more.out = <<>>
      <4>1. Cancelled(r.st) => more.out = <<>>
        BY <2>5, <3>2, SplitSeesCancel DEF more
      <4> QED
        BY <4>1, <2>6
    <3>5. err \in {"none", "bad", "cancel"}
      OBVIOUS
    <3> HIDE DEF err
    <3>6. Reads(Then(head.out, err, more), st, off, n + (len - n))
      BY <3>2, <3>3, <3>4, <3>5, <2>5, <2>6, ThenIs
    <3> QED
      BY <3>1, <3>2, <3>6 DEF s
  <2> QED
    BY <2>7, <2>8
<1> QED
  BY <1>1, <1>2

-----------------------------------------------------------------------------
(* The image.                                                              *)

(* The units that may be lost; a copy of the source but for those.         *)
Lost == {u \in Nat : NearWeak(u)}
CopyOf(out, off, lost) ==
  \A i \in 1 .. Len(out) : \/ out[i] = off + i - 1
                           \/ out[i] = Zero /\ off + i - 1 \in lost
LEMMA RightsAre ==
  ASSUME NEW out \in Seq(Int), NEW off \in Nat
  PROVE  Rights(out, off) <=> CopyOf(out, off, Lost)
<1>1. Len(out) \in Nat
  BY LenProperties
<1>2. \A i \in 1 .. Len(out) : off + i - 1 \in Nat
  BY <1>1
<1> QED
  BY <1>2 DEF Rights, Right, CopyOf, Lost

(* More of the copy.                                                       *)
LEMMA CopyGrows ==
  ASSUME NEW a \in Seq(Int), NEW b \in Seq(Int), CopyOf(a, 0, Lost), CopyOf(b, Len(a), Lost)
  PROVE  CopyOf(a \o b, 0, Lost)
<1>1. Len(a) \in Nat /\ 0 + Len(a) = Len(a)
  BY LenProperties
<1>2. Rights(a, 0) /\ Rights(b, 0 + Len(a))
  BY <1>1, RightsAre
<1>3. a \o b \in Seq(Int) /\ Rights(a \o b, 0)
  BY <1>2, JoinIs
<1> QED
  BY <1>3, RightsAre

LEMMA CopyStarts ==
  ASSUME NEW b \in Seq(Int), NEW off \in Nat, CopyOf(b, off, Lost), NEW n \in 0 .. Len(b)
  PROVE  LET part == SubSeq(b, 1, n)
         IN  part \in Seq(Int) /\ Len(part) = n /\ CopyOf(part, off, Lost)
<1>1. /\ SubSeq(b, 1, n) \in Seq(Int) /\ Len(SubSeq(b, 1, n)) = n
      /\ \A i \in 1 .. n : SubSeq(b, 1, n)[i] = b[i]
  <2>1. n \in Nat /\ n <= Len(b) /\ Len(b) \in Nat
    BY LenProperties
  <2>2. /\ SubSeq(b, 1, n) \in Seq(Int)
        /\ Len(SubSeq(b, 1, n)) = IF 1 <= n THEN n - 1 + 1 ELSE 0
        /\ \A i \in 1 .. Len(SubSeq(b, 1, n)) : SubSeq(b, 1, n)[i] = b[1 + i - 1]
    BY <2>1, CutIs
  <2> DEFINE part == SubSeq(b, 1, n)
  <2> HIDE DEF part
  <2>3. Len(part) = n
    BY <2>1, <2>2 DEF part
  <2>4. \A i \in 1 .. n : 1 + i - 1 = i
    BY <2>1
  <2> QED
    BY <2>2, <2>3, <2>4 DEF part
<1>2. \A i \in 1 .. n : i \in 1 .. Len(b)
  BY LenProperties
<1> QED
  BY <1>1, <1>2 DEF CopyOf

(* The zeros of this call, which continued the image at from.              *)
Since(units, from) == {u \in Zeroes(units, 0) : u >= from}

LEMMA SinceGrows ==
  ASSUME NEW a \in Seq(Int), NEW b \in Seq(Int), NEW from \in Nat, from <= Len(a)
  PROVE  Since(a \o b, from) = Since(a, from) \cup Zeroes(b, Len(a))
<1>1. Len(a) \in Nat /\ 0 + Len(a) = Len(a)
  BY LenProperties
<1>2. Zeroes(a \o b, 0) = Zeroes(a, 0) \cup Zeroes(b, 0 + Len(a))
  BY JoinIs
<1>3. \A u \in Zeroes(b, Len(a)) : u >= from
  <2>1. \A n, m \in Nat : from <= n => \A i \in 1 .. m : n + i - 1 >= from
    OBVIOUS
  <2>2. Len(b) \in Nat
    BY LenProperties
  <2> QED
    BY <1>1, <2>1, <2>2 DEF Zeroes
<1> QED
  BY ONLY <1>1, <1>2, <1>3 DEF Since

LEMMA NothingSince ==
  ASSUME NEW a \in Seq(Int)
  PROVE  Since(a, Len(a)) = {}
<1>1. Len(a) \in Nat
  BY LenProperties
<1>2. \A n \in Nat : \A i \in 1 .. n : ~(0 + i - 1 >= n)
  OBVIOUS
<1> QED
  BY <1>1, <1>2 DEF Since, Zeroes

(* The steps of an image session.                                          *)
LEMMA ImageSteps ==
  ASSUME Control, mode = "image", Next
  PROVE  StartNew \/ Resume \/ ImageNext \/ Cancel \/ Kill \/ Power
<1>0. pc \in {"idle", "open", "image", "imageWrite", "imageDone"}
  BY DEF Control
<1>1. ~DeepNext
  <2>1. ~(OpenIndex \/ IndexMissing \/ DeepCancelled \/ SkipCandidate)
    BY <1>0 DEF OpenIndex, IndexMissing, DeepCancelled, SkipCandidate
  <2>2. ~(CarveCandidate \/ CopyFails \/ CopyDone)
    BY <1>0 DEF CarveCandidate, CopyFails, CopyDone
  <2>3. ~(SaveDeep \/ CompleteDeep)
    BY <1>0 DEF SaveDeep, CompleteDeep
  <2> QED
    BY <2>1, <2>2, <2>3 DEF DeepNext
<1>2. ~QuickNext
  <2>1. ~(OpenVolume \/ OpenPanics \/ QuickCancelled)
    BY DEF OpenVolume, OpenPanics, QuickCancelled
  <2>2. ~(ScanRecord \/ ListDeleted \/ StartFile)
    BY <1>0 DEF ScanRecord, ListDeleted, StartFile
  <2>3. ~(CopyChunk \/ CopyStops)
    <3>1. CopyChunk => pc = "quickCopy"
      BY DEF CopyChunk
    <3>2. CopyStops => pc = "quickCopy"
      BY DEF CopyStops
    <3> QED
      BY <1>0, <3>1, <3>2
  <2>4. ~(KeepFile \/ CompleteQuick \/ ReturnFailed)
    BY <1>0 DEF KeepFile, CompleteQuick, ReturnFailed
  <2> QED
    BY <2>1, <2>2, <2>3, <2>4 DEF QuickNext
<1>3. ~(WriteReport \/ ReturnCancelled \/ Finished)
  BY <1>0 DEF WriteReport, ReturnCancelled, Finished
<1> QED
  BY <1>1, <1>2, <1>3 DEF Next, Call

(* While an image is made: units fail only if they did at first, the file  *)
(* is a copy of the source as far as it goes, also when a call was killed  *)
(* or failed; what the reader recorded are the zeros of this call, those in*)
(* the file and those in memory; and a call that finished has the whole    *)
(* source and wrote what was recorded.                                     *)
Source ==
  /\ damage \in Damages /\ fails \in [0 .. SourceSize - 1 -> Nat]
  /\ \A p \in 0 .. SourceSize - 1 : fails[p] > 0 => p \in weak
Copy ==
  /\ image \in [units : Seq(Int), synced : Nat]
  /\ Len(image.units) <= SourceSize /\ CopyOf(image.units, 0, Lost)
Chunk ==
  pc = "imageWrite" =>
    /\ current.body \in Seq(Int) /\ at + Len(current.body) <= SourceSize
    /\ CopyOf(current.body, at, Lost)
Recorded ==
  /\ bad \in Seq(Bads)
  /\ pc \in {"idle", "open"} => bad = <<>>
  /\ pc \in {"image", "imageWrite"} => at = Len(image.units) /\ startAt \in 0 .. at
  /\ pc = "image" => BadUnits(bad) = Since(image.units, startAt)
  /\ pc = "imageWrite" =>
       BadUnits(bad) = Since(image.units, startAt) \cup Zeroes(current.body, at)
Complete ==
  pc = "imageDone" \/ (pc = "idle" /\ result = "ok") =>
    Len(image.units) = SourceSize /\ startAt \in Nat /\ badMap = Since(image.units, startAt)
ImageInv ==
  mode = "image" /\ "power" \notin harm => Source /\ Copy /\ Chunk /\ Recorded /\ Complete

LEMMA InitImage == Init => ImageInv
<1> SUFFICES ASSUME Init, mode = "image" PROVE Source /\ Copy /\ Chunk /\ Recorded /\ Complete
  BY DEF ImageInv
<1>1. /\ image = NoImage /\ pc = "idle" /\ bad = <<>> /\ result = "none"
      /\ \E s \in Sources : /\ damage = s.damage /\ fails = s.fails
                            /\ weak = {p \in 0 .. SourceSize - 1 : s.fails[p] > 0}
  BY DEF Init, InitWith
<1>2. Source
  BY <1>1, SourcesAssumption DEF Source
<1>3. Copy
  <2>1. <<>> \in Seq(Int) /\ Len(<<>>) = 0
    OBVIOUS
  <2>2. image \in [units : Seq(Int), synced : Nat] /\ image.units = <<>>
    BY <1>1, <2>1 DEF NoImage
  <2>3. Len(image.units) = 0
    BY <2>1, <2>2
  <2> QED
    BY <2>2, <2>3, Sizes DEF Copy, CopyOf
<1>4. Chunk /\ Complete
  BY <1>1 DEF Chunk, Complete
<1>5. Recorded
  <2>1. <<>> \in Seq(Bads)
    OBVIOUS
  <2> QED
    BY <1>1, <2>1 DEF Recorded
<1> QED
  BY <1>2, <1>3, <1>4, <1>5

LEMMA OpenImageKeeps ==
  ASSUME mode = "image", OpenImage, Source, Copy, Recorded
  PROVE  Copy' /\ Chunk' /\ Recorded' /\ Complete'
<1>1. /\ pc = "open" /\ pc' = "image" /\ bad' = bad /\ UNCHANGED <<weak, damage>>
      /\ image' = IF sess.path THEN image ELSE NoImage
      /\ at' = (IF sess.path THEN Len(image.units) ELSE 0) /\ startAt' = at'
  BY DEF OpenImage, Goto, options, ContinueAt
<1>2. Lost' = Lost
  BY <1>1 DEF Lost, NearWeak
<1>3. <<>> \in Seq(Int) /\ Len(<<>>) = 0
  OBVIOUS
<1>4. /\ image' \in [units : Seq(Int), synced : Nat] /\ at' = Len(image'.units) /\ at' \in Nat
      /\ Len(image'.units) <= SourceSize /\ CopyOf(image'.units, 0, Lost)
  <2>1. CASE sess.path
    BY <2>1, <1>1, LenProperties DEF Copy
  <2>2. CASE ~sess.path
    <3>1. image' \in [units : Seq(Int), synced : Nat] /\ image'.units = <<>> /\ at' = 0
      BY <2>2, <1>1, <1>3 DEF NoImage
    <3>2. Len(image'.units) = 0
      BY <3>1, <1>3
    <3> QED
      BY <3>1, <3>2, Sizes DEF CopyOf
  <2> QED
    BY <2>1, <2>2
<1>5. bad' = <<>> /\ bad' \in Seq(Bads) /\ BadUnits(bad') = {}
  BY <1>1 DEF Recorded, BadUnits
<1>6. BadUnits(bad') = Since(image'.units, startAt')
  <2>1. image'.units \in Seq(Int) /\ startAt' = Len(image'.units)
    BY <1>1, <1>4
  <2> QED
    BY <2>1, <1>5, NothingSince
<1>7. Copy'
  BY <1>4, <1>2 DEF Copy
<1>8. Recorded'
  BY <1>1, <1>4, <1>5, <1>6 DEF Recorded
<1> QED
  BY <1>1, <1>7, <1>8 DEF Chunk, Complete

LEMMA ReadImageKeeps ==
  ASSUME ReadImage, Source, Copy, Recorded
  PROVE  Source' /\ Copy' /\ Chunk' /\ Recorded' /\ Complete'
<1>1. /\ pc = "image" /\ at < SourceSize /\ pc' = "imageWrite"
      /\ UNCHANGED <<image, at, startAt, weak, damage>>
      /\ \E passes \in Passes :
           LET want == Least(ImageChunk, SourceSize - at)
               st == [Stack(fails, passes, damage) EXCEPT !.bad = bad]
               r == AdaptiveRead(st, at, want)
           IN  fails' = r.st.fails /\ bad' = r.st.bad /\ current' = [Nothing EXCEPT !.body = r.out]
  BY DEF ReadImage, Goto, history, options
<1>2. PICK passes \in Passes :
        LET want == Least(ImageChunk, SourceSize - at)
            st == [Stack(fails, passes, damage) EXCEPT !.bad = bad]
            r == AdaptiveRead(st, at, want)
        IN  fails' = r.st.fails /\ bad' = r.st.bad /\ current' = [Nothing EXCEPT !.body = r.out]
  BY <1>1
<1> DEFINE want == Least(ImageChunk, SourceSize - at)
           st == [Stack(fails, passes, damage) EXCEPT !.bad = bad]
           r == AdaptiveRead(st, at, want)
<1>3. fails' = r.st.fails /\ bad' = r.st.bad /\ current'.body = r.out
  <2>1. fails' = r.st.fails /\ bad' = r.st.bad /\ current' = [Nothing EXCEPT !.body = r.out]
    BY <1>2
  <2> HIDE DEF r
  <2> QED
    BY <2>1 DEF Nothing
<1>4. /\ at = Len(image.units) /\ at \in Nat /\ startAt \in 0 .. at
      /\ bad \in Seq(Bads) /\ BadUnits(bad) = Since(image.units, startAt)
  BY <1>1, LenProperties DEF Recorded, Copy
<1>5. want \in Nat /\ want >= 1 /\ at + want <= SourceSize
  <2>1. ImageChunk \in Nat /\ ImageChunk >= 1
    BY ImageAssumption
  <2> QED
    BY <2>1, <1>1, <1>4, Sizes DEF Least
<1>6. st \in Stacks /\ Honest(st) /\ st.bad = bad
  <2>1. passes \in Nat
    BY ImageAssumption DEF Passes, Never
  <2>2. st = [fails |-> fails, passes |-> passes, damage |-> damage, bad |-> bad]
    BY DEF Stack
  <2> HIDE DEF st
  <2>3. st \in Stacks /\ st.fails = fails /\ st.damage = damage /\ st.bad = bad
    BY <2>1, <2>2, <1>4 DEF Stacks, Source, Bads
  <2> QED
    BY <2>3 DEF Honest, Source
<1> HIDE DEF want, st
<1>7. Reads(r, st, at, want)
  BY <1>4, <1>5, <1>6, AdaptiveReadIs DEF Source
<1> HIDE DEF r
<1>8. /\ r.out \in Seq(Int) /\ r.st \in Stacks /\ Honest(r.st) /\ Len(r.out) <= want
      /\ Rights(r.out, at) /\ Len(r.out) \in Nat
      /\ BadUnits(r.st.bad) = BadUnits(bad) \cup Zeroes(r.out, at)
  BY <1>6, <1>7, LenProperties DEF Reads, Outs
<1>9. Lost' = Lost
  BY <1>1 DEF Lost, NearWeak
<1>10. Source'
  BY <1>1, <1>3, <1>8 DEF Source, Honest, Stacks
<1>11. Copy'
  BY <1>1, <1>9 DEF Copy
<1>12. Chunk'
  <2>1. CopyOf(r.out, at, Lost)
    BY <1>4, <1>8, RightsAre
  <2>2. at + Len(r.out) <= SourceSize
    <3>1. \A a, b, c, s \in Nat : a + b <= s /\ c <= b => a + c <= s
      OBVIOUS
    <3> QED
      BY ONLY <3>1, <1>4, <1>5, <1>8, Sizes
  <2> QED
    BY <2>1, <2>2, <1>1, <1>3, <1>8, <1>9 DEF Chunk
<1>13. Recorded'
  <2>1. bad' \in Seq(Bads)
    BY <1>3, <1>8 DEF Stacks, Bads
  <2> QED
    BY <2>1, <1>1, <1>3, <1>4, <1>8 DEF Recorded
<1> QED
  BY <1>1, <1>10, <1>11, <1>12, <1>13 DEF Complete

(* A part of the chunk, or all of it, is written.                          *)
LEMMA WrittenIs ==
  ASSUME pc = "imageWrite", Copy, Chunk, Recorded, NEW n \in 0 .. Len(current.body), NEW file,
         file = [image EXCEPT !.units = image.units \o SubSeq(current.body, 1, n)]
  PROVE  /\ file \in [units : Seq(Int), synced : Nat]
         /\ Len(file.units) <= SourceSize /\ CopyOf(file.units, 0, Lost)
<1> DEFINE part == SubSeq(current.body, 1, n)
<1>1. /\ current.body \in Seq(Int) /\ at + Len(current.body) <= SourceSize
      /\ CopyOf(current.body, at, Lost) /\ Len(current.body) \in Nat
  BY LenProperties DEF Chunk
<1>2. /\ image \in [units : Seq(Int), synced : Nat] /\ image.units \in Seq(Int)
      /\ at = Len(image.units) /\ at \in Nat /\ CopyOf(image.units, 0, Lost)
  BY LenProperties DEF Copy, Recorded
<1>3. part \in Seq(Int) /\ Len(part) = n /\ CopyOf(part, at, Lost)
  BY <1>1, <1>2, CopyStarts
<1> HIDE DEF part
<1>4. CopyOf(image.units \o part, 0, Lost)
  BY <1>2, <1>3, CopyGrows
<1>5. image.units \o part \in Seq(Int) /\ Len(image.units \o part) = at + n
  BY <1>2, <1>3, JoinIs
<1>6. file \in [units : Seq(Int), synced : Nat] /\ file.units = image.units \o part
  BY <1>2, <1>5 DEF part
<1>7. at + n <= SourceSize
  <2>1. \A a, b, s \in Nat : \A c \in 0 .. b : a + b <= s => a + c <= s
    OBVIOUS
  <2> QED
    BY ONLY <2>1, <1>1, <1>2, Sizes, n \in 0 .. Len(current.body)
<1> QED
  BY <1>4, <1>5, <1>6, <1>7

LEMMA WriteImageKeeps ==
  ASSUME WriteImage, Copy, Chunk, Recorded, UNCHANGED options
  PROVE  Copy' /\ Chunk' /\ Recorded' /\ Complete'
<1>1. /\ pc = "imageWrite" /\ pc' = "image" /\ UNCHANGED <<bad, startAt, weak, damage>>
      /\ image' = [image EXCEPT !.units = image.units \o current.body]
      /\ at' = at + Len(current.body)
  BY DEF WriteImage, Goto, options
<1>2. Lost' = Lost
  BY <1>1 DEF Lost, NearWeak
<1>3. /\ current.body \in Seq(Int) /\ at + Len(current.body) <= SourceSize
      /\ CopyOf(current.body, at, Lost) /\ Len(current.body) \in Nat
  BY <1>1, LenProperties DEF Chunk
<1>4. /\ image \in [units : Seq(Int), synced : Nat] /\ image.units \in Seq(Int)
      /\ at = Len(image.units) /\ at \in Nat /\ CopyOf(image.units, 0, Lost)
      /\ startAt \in 0 .. at /\ bad \in Seq(Bads)
      /\ BadUnits(bad) = Since(image.units, startAt) \cup Zeroes(current.body, at)
  BY <1>1, LenProperties DEF Copy, Recorded
<1>5. CopyOf(image.units \o current.body, 0, Lost)
  BY <1>3, <1>4, CopyGrows
<1>6. /\ image.units \o current.body \in Seq(Int)
      /\ Len(image.units \o current.body) = at + Len(current.body)
  BY <1>3, <1>4, JoinIs
<1>7. /\ image' \in [units : Seq(Int), synced : Nat]
      /\ image'.units = image.units \o current.body
  BY <1>1, <1>4, <1>6
<1>8. Since(image'.units, startAt) = Since(image.units, startAt) \cup Zeroes(current.body, at)
  BY <1>3, <1>4, <1>7, SinceGrows
<1>9. Copy'
  BY <1>2, <1>3, <1>5, <1>6, <1>7 DEF Copy
<1>10. Recorded'
  <2>1. at' = Len(image'.units) /\ startAt' \in 0 .. at'
    BY <1>1, <1>3, <1>4, <1>6, <1>7
  <2> QED
    BY <2>1, <1>1, <1>4, <1>8 DEF Recorded
<1> QED
  BY <1>1, <1>9, <1>10 DEF Chunk, Complete

(* A call that ends, but not with ok, leaves a copy as far as it went.     *)
LEMMA EndKeeps ==
  ASSUME Source, Copy, NEW how, Return(how), how # "ok", UNCHANGED <<fails, weak, damage>>,
         \/ image' = image
         \/ /\ pc = "imageWrite" /\ Chunk /\ Recorded
            /\ \E n \in 0 .. Len(current.body) :
                 image' = [image EXCEPT !.units = image.units \o SubSeq(current.body, 1, n)]
  PROVE  Source' /\ Copy' /\ Chunk' /\ Recorded' /\ Complete'
<1>1. pc' = "idle" /\ bad' = <<>> /\ result' = how /\ <<>> \in Seq(Bads)
  BY DEF Return, Forget
<1>2. Source'
  BY DEF Source
<1>3. Lost' = Lost
  BY DEF Lost, NearWeak
<1>4. /\ image' \in [units : Seq(Int), synced : Nat]
      /\ Len(image'.units) <= SourceSize /\ CopyOf(image'.units, 0, Lost)
  <2>1. CASE image' = image
    BY <2>1 DEF Copy
  <2>2. CASE /\ pc = "imageWrite" /\ Chunk /\ Recorded
             /\ \E n \in 0 .. Len(current.body) :
                  image' = [image EXCEPT !.units = image.units \o SubSeq(current.body, 1, n)]
    <3>1. PICK n \in 0 .. Len(current.body) :
            image' = [image EXCEPT !.units = image.units \o SubSeq(current.body, 1, n)]
      BY <2>2
    <3> DEFINE file == [image EXCEPT !.units = image.units \o SubSeq(current.body, 1, n)]
    <3>2. /\ file \in [units : Seq(Int), synced : Nat]
          /\ Len(file.units) <= SourceSize /\ CopyOf(file.units, 0, Lost)
      BY <2>2, WrittenIs
    <3>3. image' = file
      BY <3>1
    <3> HIDE DEF file
    <3> QED
      BY ONLY <3>2, <3>3
  <2> QED
    BY <2>1, <2>2
<1>5. Copy'
  BY <1>3, <1>4 DEF Copy
<1>6. Chunk' /\ Recorded' /\ Complete'
  BY <1>1 DEF Chunk, Recorded, Complete
<1> QED
  BY <1>2, <1>5, <1>6

LEMMA SyncImageKeeps ==
  ASSUME SyncImage, Copy, Recorded
  PROVE  Copy' /\ Chunk' /\ Recorded' /\ Complete'
<1>1. /\ pc = "image" /\ at >= SourceSize /\ pc' = "imageDone"
      /\ UNCHANGED <<bad, startAt, weak, damage>>
      /\ image' = [image EXCEPT !.synced = Len(image.units)] /\ badMap' = BadUnits(bad)
  BY DEF SyncImage, Goto, options, history, Map
<1>2. /\ image \in [units : Seq(Int), synced : Nat] /\ Len(image.units) \in Nat
      /\ at = Len(image.units) /\ startAt \in Nat /\ Len(image.units) <= SourceSize
      /\ bad \in Seq(Bads) /\ BadUnits(bad) = Since(image.units, startAt)
  BY <1>1, LenProperties DEF Copy, Recorded
<1>3. Lost' = Lost
  BY <1>1 DEF Lost, NearWeak
<1>4. image' \in [units : Seq(Int), synced : Nat] /\ image'.units = image.units
  BY <1>1, <1>2
<1>5. Copy'
  BY <1>3, <1>4 DEF Copy
<1>6. Len(image.units) = SourceSize
  BY <1>1, <1>2, Sizes
<1> QED
  BY <1>1, <1>2, <1>4, <1>5, <1>6 DEF Chunk, Recorded, Complete

LEMMA SaveImageKeeps ==
  ASSUME SaveImage, Copy, Complete
  PROVE  Copy' /\ Chunk' /\ Recorded' /\ Complete'
<1>1. /\ pc = "imageDone" /\ pc' = "idle" /\ bad' = <<>> /\ <<>> \in Seq(Bads)
      /\ UNCHANGED <<image, badMap, startAt, weak, damage>>
  BY DEF SaveImage, Return, Forget, options
<1>2. Lost' = Lost
  BY <1>1 DEF Lost, NearWeak
<1>3. Copy'
  BY <1>1, <1>2 DEF Copy
<1> QED
  BY <1>1, <1>3 DEF Chunk, Recorded, Complete

(* What a step does not touch stays; a new call begins with nothing read.  *)
LEMMA StartKeeps ==
  ASSUME StartNew \/ Resume, Source, Copy, Recorded
  PROVE  Source' /\ Copy' /\ Chunk' /\ Recorded' /\ Complete'
<1>1. pc = "idle" /\ pc' = "open" /\ UNCHANGED <<image, fails, bad, weak, damage>>
  <2>1. CASE StartNew
    BY <2>1 DEF StartNew, Goto, options
  <2>2. CASE Resume
    BY <2>2 DEF Resume, Goto, options, onDisk
  <2> QED
    BY <2>1, <2>2
<1>2. Lost' = Lost
  BY <1>1 DEF Lost, NearWeak
<1> QED
  BY <1>1, <1>2 DEF Source, Copy, Chunk, Recorded, Complete

LEMMA StillKeeps ==
  ASSUME Cancel \/ UNCHANGED vars, Source, Copy, Chunk, Recorded, Complete
  PROVE  Source' /\ Copy' /\ Chunk' /\ Recorded' /\ Complete'
<1>1. UNCHANGED <<image, badMap, fails, bad, current, at, startAt, pc, result, weak, damage>>
  <2>1. CASE Cancel
    BY <2>1 DEF Cancel, onDisk, memory, history, options
  <2>2. CASE UNCHANGED vars
    BY <2>2 DEF vars, onDisk, memory, history, options
  <2> QED
    BY <2>1, <2>2
<1>2. Lost' = Lost
  BY <1>1 DEF Lost, NearWeak
<1> QED
  BY <1>1, <1>2 DEF Source, Copy, Chunk, Recorded, Complete

LEMMA ImageKept == Control /\ ImageInv /\ [Next]_vars => ImageInv'
<1> SUFFICES ASSUME Control, ImageInv, [Next]_vars, mode' = "image", "power" \notin harm'
             PROVE  Source' /\ Copy' /\ Chunk' /\ Recorded' /\ Complete'
  BY DEF ImageInv
<1>1. mode = "image" /\ UNCHANGED <<mode, damage, weak>>
  <2>1. CASE Next
    BY <2>1, StepOptions DEF options
  <2>2. CASE UNCHANGED vars
    BY <2>2 DEF vars, options
  <2> QED
    BY <2>1, <2>2
<1>2. ASSUME "power" \notin harm
      PROVE  Source /\ Copy /\ Chunk /\ Recorded /\ Complete
  BY <1>1, <1>2 DEF ImageInv
<1>3. CASE StartNew \/ Resume
  <2>1. harm' = harm
    BY <1>3 DEF StartNew, Resume, history
  <2> QED
    BY <2>1, <1>2, <1>3, StartKeeps
<1>4. CASE Cancel \/ UNCHANGED vars
  <2>1. harm' = harm
    BY <1>4 DEF Cancel, vars, history
  <2> QED
    BY <2>1, <1>2, <1>4, StillKeeps
<1>5. CASE OpenImage
  <2>1. harm' = harm /\ fails' = fails
    BY <1>5 DEF OpenImage
  <2>2. Source'
    BY <2>1, <1>1, <1>2 DEF Source
  <2> QED
    BY <2>1, <2>2, <1>1, <1>2, <1>5, OpenImageKeeps
<1>6. CASE ImageCancelled
  <2>1. UNCHANGED <<harm, fails, image>> /\ Return("cancelled")
    BY <1>6 DEF ImageCancelled
  <2> QED
    BY <2>1, <1>1, <1>2, EndKeeps
<1>7. CASE ReadImage
  <2>1. harm' = harm
    BY <1>7 DEF ReadImage, history
  <2> QED
    BY <2>1, <1>2, <1>7, ReadImageKeeps
<1>8. CASE WriteImage
  <2>1. harm \subseteq harm' /\ fails' = fails /\ UNCHANGED options
    BY <1>8 DEF WriteImage, SaveSession
  <2>2. Source'
    BY <2>1, <1>1, <1>2 DEF Source
  <2> QED
    BY <2>1, <2>2, <1>2, <1>8, WriteImageKeeps
<1>9. CASE WriteImageFails
  <2>1. /\ harm \subseteq harm' /\ fails' = fails /\ Return("failed") /\ pc = "imageWrite"
        /\ \E n \in 0 .. Len(current.body) - 1 :
             image' = [image EXCEPT !.units = image.units \o SubSeq(current.body, 1, n)]
    BY <1>9 DEF WriteImageFails, Failed
  <2>2. Source /\ Copy /\ Chunk /\ Recorded
    BY <2>1, <1>2
  <2>3. Len(current.body) \in Nat
    BY <2>1, <2>2, LenProperties DEF Chunk
  <2>4. \E n \in 0 .. Len(current.body) :
          image' = [image EXCEPT !.units = image.units \o SubSeq(current.body, 1, n)]
    <3>1. \A m \in Nat : \A n \in 0 .. m - 1 : n \in 0 .. m
      OBVIOUS
    <3> QED
      BY <2>1, <2>3, <3>1
  <2> QED
    BY <2>1, <2>2, <2>4, <1>1, EndKeeps
<1>10. CASE SyncImageFails
  <2>1. harm \subseteq harm' /\ UNCHANGED <<fails, image>> /\ Return("failed")
    BY <1>10 DEF SyncImageFails, Failed
  <2> QED
    BY <2>1, <1>1, <1>2, EndKeeps
<1>11. CASE SyncImage
  <2>1. harm' = harm /\ fails' = fails
    BY <1>11 DEF SyncImage, history
  <2>2. Source'
    BY <2>1, <1>1, <1>2 DEF Source
  <2> QED
    BY <2>1, <2>2, <1>2, <1>11, SyncImageKeeps
<1>12. CASE SaveImage
  <2>1. harm \subseteq harm' /\ fails' = fails
    BY <1>12 DEF SaveImage, SaveSession
  <2>2. Source'
    BY <2>1, <1>1, <1>2 DEF Source
  <2> QED
    BY <2>1, <2>2, <1>2, <1>12, SaveImageKeeps
<1>13. CASE Kill
  <2>1. harm \subseteq harm' /\ fails' = fails /\ Return("killed") /\ image' \in Stored
    BY <1>13 DEF Kill
  <2>2. Source /\ Copy /\ Chunk /\ Recorded
    BY <2>1, <1>2
  <2>3. \/ image' = image
        \/ /\ pc = "imageWrite"
           /\ \E n \in 0 .. Len(current.body) :
                image' = [image EXCEPT !.units = image.units \o SubSeq(current.body, 1, n)]
    BY <2>1 DEF Stored
  <2> QED
    BY <2>1, <2>2, <2>3, <1>1, EndKeeps
<1>14. CASE Power
  <2>1. "power" \in harm'
    BY <1>14 DEF Power
  <2> QED
    BY <2>1
<1> QED
  BY <1>1, <1>3, <1>4, <1>5, <1>6, <1>7, <1>8, <1>9, <1>10, <1>11, <1>12, <1>13, <1>14,
     ImageSteps DEF ImageNext

LEMMA ImageHolds == Spec => [](Control /\ ImageInv)
<1>1. Control /\ ImageInv /\ [Next]_vars => (Control /\ ImageInv)'
  BY NextControl, ImageKept
<1> QED
  BY <1>1, InitControl, InitImage, PTL DEF Spec

(* A finished image is the source, unit for unit and to its last one, with *)
(* zeros only near units that did not read, whatever calls were cancelled, *)
(* killed or failed half way through a write before.                       *)
THEOREM ImageIsFaithful == Spec => []ImageFaithful
<1>1. ImageInv => ImageFaithful
  <2> SUFFICES ASSUME ImageInv, ImageDone
               PROVE  /\ Len(image.units) = SourceSize
                      /\ \A i \in 1 .. SourceSize :
                           \/ image.units[i] = i - 1
                           \/ image.units[i] = Zero /\ NearWeak(i - 1)
    BY DEF ImageFaithful
  <2>1. Len(image.units) = SourceSize /\ CopyOf(image.units, 0, Lost)
    BY DEF ImageInv, ImageDone, Complete, Copy
  <2>2. ASSUME NEW i \in 1 .. SourceSize
        PROVE  image.units[i] = i - 1 \/ (image.units[i] = Zero /\ NearWeak(i - 1))
    <3>1. 0 + i - 1 = i - 1
      BY Sizes
    <3>2. \/ image.units[i] = 0 + i - 1
          \/ image.units[i] = Zero /\ 0 + i - 1 \in Lost
      BY <2>1 DEF CopyOf
    <3> QED
      BY ONLY <3>1, <3>2 DEF Lost
  <2> QED
    BY <2>1, <2>2
<1> QED
  BY <1>1, ImageHolds, PTL

(* The map that is written with it has exactly the zeros that this call    *)
(* wrote.                                                                  *)
THEOREM MapIsOfThisCall == Spec => []MapOfThisCall
<1>1. ImageInv => MapOfThisCall
  <2> SUFFICES ASSUME ImageInv, ImageDone
               PROVE  badMap = {i - 1 : i \in {j \in startAt + 1 .. SourceSize :
                                               image.units[j] = Zero}}
    BY DEF MapOfThisCall
  <2>1. Len(image.units) = SourceSize /\ startAt \in Nat /\ badMap = Since(image.units, startAt)
    BY DEF ImageInv, ImageDone, Complete
  <2>2. badMap = {u \in {0 + i - 1 : i \in {j \in 1 .. SourceSize : image.units[j] = Zero}} :
                    u >= startAt}
    BY <2>1 DEF Since, Zeroes
  <2>3. \A i \in 1 .. SourceSize : 0 + i - 1 = i - 1 /\ (i - 1 >= startAt <=> i >= startAt + 1)
    BY <2>1, Sizes
  <2>4. \A i \in startAt + 1 .. SourceSize : i \in 1 .. SourceSize /\ i >= startAt + 1
    BY <2>1, Sizes
  <2>5. \A i \in 1 .. SourceSize : i >= startAt + 1 => i \in startAt + 1 .. SourceSize
    BY <2>1, Sizes
  <2> QED
    BY <2>2, <2>3, <2>4, <2>5
<1> QED
  BY <1>1, ImageHolds, PTL
=============================================================================
