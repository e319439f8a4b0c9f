-------------------------- MODULE DeepExtractProofs --------------------------
(***************************************************************************)
(* For any candidates a scan found, any chunk size, any files the carvers  *)
(* find and any order of cancels, failures, crashes and resumes:           *)
(*  - the index of an extraction is the scan's candidates, sorted and each *)
(*    once, and is there as long as the session can be gone on with;       *)
(*  - recovered files are never replaced, all of them are in the report of *)
(*    a session that ended, and a copy made twice is one an interruption   *)
(*    explains;                                                            *)
(*  - a session that ended without a write error has recovered what one    *)
(*    call that nobody disturbed would have.                               *)
(***************************************************************************)
EXTENDS Recover, TLAPS, WellFoundedInduction, FiniteSetTheorems, SequenceTheorems

Cand == [off : Nat, kind : Nat]

(* Sorted, and sorted with nothing twice.                                  *)
InOrder(s) == \A i, j \in DOMAIN s : i < j => ~Before(s[j], s[i])
Ascending(s) == \A i, j \in DOMAIN s : i < j => Before(s[i], s[j])

-----------------------------------------------------------------------------
(* A set of numbers has a least one.                                       *)
LEMMA LeastOf ==
  ASSUME NEW T, T \subseteq Nat, T # {}
  PROVE  \E x \in T : \A y \in T : x <= y
<1>1. PICK x \in T : \A y \in T : ~(<<y, x>> \in OpToRel(<, Nat))
  BY NatLessThanWellFounded, WFMin
<1>2. \A y \in T : ~(y < x)
  BY <1>1 DEF OpToRel
<1> QED
  BY <1>2

(* What a loop computes round by round, as a function of the round.        *)
Loop(g, N, S) == g \in [1 .. N -> [S -> S]]
Run(f, g, N, S, start) ==
  f \in [0 .. N -> S] /\ f[0] = start /\ \A n \in 1 .. N : f[n] = g[n][f[n - 1]]
LEMMA Iterated ==
  ASSUME NEW S, NEW N \in Nat, NEW start \in S, NEW g, Loop(g, N, S)
  PROVE  \E f : Run(f, g, N, S, start)
<1> USE DEF Loop
<1> DEFINE Solves(f, m) ==
             /\ f \in [0 .. m -> S] /\ f[0] = start
             /\ \A n \in 1 .. m : f[n] = g[n][f[n - 1]]
           Bad == {m \in 0 .. N : ~\E f \in [0 .. m -> S] : Solves(f, m)}
<1>1. Bad = {}
  <2> SUFFICES ASSUME Bad # {} PROVE FALSE
    OBVIOUS
  <2>1. PICK m \in Bad : \A k \in Bad : m <= k
    <3>1. Bad \subseteq Nat
      OBVIOUS
    <3> HIDE DEF Bad
    <3> QED
      BY <3>1, LeastOf
  <2>2. CASE m = 0
    <3>1. [n \in 0 .. 0 |-> start] \in [0 .. 0 -> S] /\ Solves([n \in 0 .. 0 |-> start], 0)
      OBVIOUS
    <3>2. ~\E f \in [0 .. 0 -> S] : Solves(f, 0)
      BY <2>1, <2>2
    <3> HIDE DEF Solves
    <3> QED
      BY <3>1, <3>2
  <2>3. CASE m # 0
    <3>0. m \in 1 .. N /\ m - 1 \in 0 .. N /\ ~(m <= m - 1) /\ m \in Nat
      BY <2>1, <2>3
    <3>1. m - 1 \notin Bad
      BY ONLY <2>1, <3>0
    <3>2. PICK f \in [0 .. m - 1 -> S] : Solves(f, m - 1)
      <4>1. ~(m - 1 \in 0 .. N /\ ~\E f \in [0 .. m - 1 -> S] : Solves(f, m - 1))
        BY <3>1
      <4> QED
        BY <3>0, <4>1
    <3> DEFINE h == [n \in 0 .. m |-> IF n = m THEN g[m][f[m - 1]] ELSE f[n]]
    <3>3. m - 1 \in 0 .. m - 1 /\ f[m - 1] \in S /\ g[m][f[m - 1]] \in S
      BY <3>0, <3>2
    <3>4. h \in [0 .. m -> S]
      BY <3>0, <3>2, <3>3
    <3>5. h[0] = start
      BY <3>0, <3>2
    <3>6. ASSUME NEW n \in 1 .. m PROVE h[n] = g[n][h[n - 1]]
      <4>1. n - 1 \in 0 .. m - 1 /\ n - 1 # m /\ n \in 0 .. m /\ n - 1 \in 0 .. m
        BY <3>0
      <4>2. h[n - 1] = f[n - 1]
        BY <4>1
      <4>3. CASE n = m
        BY <4>3, <4>2
      <4>4. CASE n # m
        <5>1. n \in 1 .. m - 1 /\ h[n] = f[n]
          BY <4>4, <4>1, <3>0
        <5> QED
          BY <5>1, <4>2, <3>2
      <4> QED
        BY <4>3, <4>4
    <3>7. Solves(h, m)
      BY <3>4, <3>5, <3>6
    <3> HIDE DEF Solves, h
    <3> QED
      BY <2>1, <3>4, <3>7
  <2> QED
    BY <2>2, <2>3
<1>2. PICK f \in [0 .. N -> S] : Solves(f, N)
  <2>1. ~(N \in 0 .. N /\ ~\E f \in [0 .. N -> S] : Solves(f, N))
    BY <1>1
  <2> QED
    BY <2>1
<1> QED
  BY <1>2 DEF Run

(* Induction, over the rounds of a loop.                                   *)
LEMMA Rounds ==
  ASSUME NEW N \in Nat, NEW Good, 0 \in Good, \A n \in 1 .. N : n - 1 \in Good => n \in Good
  PROVE  \A n \in 0 .. N : n \in Good
<1> DEFINE Bad == {n \in 0 .. N : n \notin Good}
<1> SUFFICES ASSUME Bad # {} PROVE FALSE
  OBVIOUS
<1>1. PICK n \in Bad : \A k \in Bad : n <= k
  <2>1. Bad \subseteq Nat
    OBVIOUS
  <2> HIDE DEF Bad
  <2> QED
    BY <2>1, LeastOf
<1>2. n \in 1 .. N /\ n - 1 \in 0 .. N /\ ~(n <= n - 1)
  BY <1>1
<1>3. n - 1 \in Good
  BY <1>1, <1>2
<1> QED
  BY <1>1, <1>2, <1>3

-----------------------------------------------------------------------------
(* The order of candidates is total.                                       *)
LEMMA BeforeTotal ==
  \A a, b \in Cand : Before(a, b) \/ Before(b, a) \/ a = b
  BY DEF Before, Cand

LEMMA BeforeStrict ==
  /\ \A a \in Cand : ~Before(a, a)
  /\ \A a, b \in Cand : Before(a, b) => ~Before(b, a)
  BY DEF Before, Cand

LEMMA BeforeTransitive ==
  /\ \A a, b, c \in Cand : Before(a, b) /\ Before(b, c) => Before(a, c)
  /\ \A a, b, c \in Cand : ~Before(b, a) /\ ~Before(c, b) => ~Before(c, a)
  BY DEF Before, Cand

(* Every file of candidates can be sorted.                                 *)
LEMMA OrderExists ==
  ASSUME NEW L \in Nat
  PROVE  \A items \in [1 .. L -> Cand] : Orders(items) # {}
<1> DEFINE Bad == {n \in Nat : \E items \in [1 .. n -> Cand] : Orders(items) = {}}
<1> SUFFICES Bad = {}
  OBVIOUS
<1> SUFFICES ASSUME Bad # {} PROVE FALSE
  OBVIOUS
<1>1. PICK n \in Bad : \A k \in Bad : n <= k
  <2>1. Bad \subseteq Nat
    OBVIOUS
  <2> HIDE DEF Bad
  <2> QED
    BY <2>1, LeastOf
<1>2. PICK items \in [1 .. n -> Cand] : Orders(items) = {}
  BY <1>1
<1>3. n \in Nat
  BY <1>1
<1>4. DOMAIN items = 1 .. n
  BY <1>2
<1>5. n # 0
  <2> SUFFICES ASSUME n = 0 PROVE FALSE
    OBVIOUS
  <2>1. [i \in {} |-> i] \in [{} -> {}]
    OBVIOUS
  <2>2. DOMAIN items = {}
    BY <1>4
  <2>3. [i \in {} |-> i] \in Orders(items)
    BY <2>1, <2>2 DEF Orders
  <2> QED
    BY <2>3, <1>2
<1> DEFINE m == n - 1
           front == [i \in 1 .. m |-> items[i]]
           c == items[n]
<1>6. m \in Nat /\ n = m + 1 /\ front \in [1 .. m -> Cand] /\ c \in Cand /\ 1 .. m \subseteq 1 .. n
  BY <1>2, <1>3, <1>5
<1>7. PICK p : p \in Orders(front)
  <2>1. m \notin Bad
    BY <1>1, <1>6
  <2> QED
    BY <2>1, <1>6
<1>8. /\ p \in [1 .. m -> 1 .. m]
      /\ \A i \in 1 .. m : \E j \in 1 .. m : p[j] = i
      /\ \A i, j \in 1 .. m : i < j => ~Before(items[p[j]], items[p[i]])
  <2>1. DOMAIN front = 1 .. m
    OBVIOUS
  <2>2. p \in [1 .. m -> 1 .. m] /\ \A i \in 1 .. m : \E j \in 1 .. m : p[j] = i
    BY <1>7, <2>1 DEF Orders
  <2>3. \A i, j \in 1 .. m : i < j => ~Before(front[p[j]], front[p[i]])
    BY <1>7, <2>1 DEF Orders
  <2>4. \A i \in 1 .. m : front[p[i]] = items[p[i]]
    BY <2>2
  <2> QED
    BY <2>2, <2>3, <2>4
<1> DEFINE Cuts == {k \in 0 .. m : \A i \in 1 .. m : k < i => Before(c, items[p[i]])}
<1>9. PICK k \in Cuts : \A l \in Cuts : k <= l
  <2>1. m \in Cuts /\ Cuts \subseteq Nat
    BY <1>6
  <2> HIDE DEF Cuts
  <2> QED
    BY <2>1, LeastOf
<1>10. k \in 0 .. m /\ (\A i \in 1 .. m : k < i => Before(c, items[p[i]])) /\ k \in Nat
  BY <1>9
<1>11. k # 0 => k \in 1 .. m /\ ~Before(c, items[p[k]])
  <2> SUFFICES ASSUME k # 0, Before(c, items[p[k]]) PROVE FALSE
    BY <1>10
  <2>1. k - 1 \in 0 .. m /\ ~(k <= k - 1)
    BY <1>10
  <2>2. \A i \in 1 .. m : k - 1 < i => Before(c, items[p[i]])
    <3> TAKE i \in 1 .. m
    <3>1. k - 1 < i => k < i \/ k = i
      BY <1>10
    <3> QED
      BY <3>1, <1>10
  <2>3. k - 1 \in Cuts
    BY <2>1, <2>2
  <2> QED
    BY <2>3, <2>1, <1>9
<1>12. \A i \in 1 .. m : i <= k => ~Before(c, items[p[i]])
  <2> TAKE i \in 1 .. m
  <2> SUFFICES ASSUME i <= k PROVE ~Before(c, items[p[i]])
    OBVIOUS
  <2>1. k \in 1 .. m /\ ~Before(c, items[p[k]])
    BY <1>10, <1>11
  <2>2. i = k \/ i < k
    BY <1>10
  <2>3. items[p[i]] \in Cand /\ items[p[k]] \in Cand
    BY <2>1, <1>8, <1>6, <1>2
  <2>4. i < k => ~Before(items[p[k]], items[p[i]])
    BY <2>1, <1>8
  <2> QED
    BY <2>1, <2>2, <2>3, <2>4, <1>6, BeforeTransitive
<1> DEFINE q == [i \in 1 .. n |-> IF i <= k THEN p[i] ELSE IF i = k + 1 THEN n ELSE p[i - 1]]
<1>13. \A i \in 1 .. n : /\ i <= k => i \in 1 .. m
                         /\ i > k + 1 => i - 1 \in 1 .. m
                         /\ i <= k \/ i = k + 1 \/ i > k + 1
  BY <1>6, <1>10
<1>14. q \in [1 .. n -> 1 .. n]
  <2> SUFFICES ASSUME NEW i \in 1 .. n PROVE q[i] \in 1 .. n
    OBVIOUS
  <2>0. n \in 1 .. n
    BY <1>3, <1>5
  <2>1. CASE i <= k
    BY <2>1, <1>13, <1>8, <1>6
  <2>2. CASE i = k + 1
    BY <2>0, <2>2, <1>10
  <2>3. CASE i > k + 1
    <3>1. ~(i <= k) /\ i # k + 1 /\ i - 1 \in 1 .. m
      BY <2>3, <1>13, <1>10
    <3> QED
      BY <3>1, <1>8, <1>6
  <2> QED
    BY <2>1, <2>2, <2>3, <1>13
<1>15. \A i \in 1 .. n : \E j \in 1 .. n : q[j] = i
  <2> TAKE i \in 1 .. n
  <2>1. CASE i = n
    <3>1. k + 1 \in 1 .. n /\ ~(k + 1 <= k)
      BY <1>10, <1>6
    <3>2. q[k + 1] = n
      BY <3>1
    <3> QED
      BY <3>1, <3>2, <2>1
  <2>2. CASE i # n
    <3>1. i \in 1 .. m
      BY <2>2, <1>6
    <3>2. PICK j \in 1 .. m : p[j] = i
      BY <3>1, <1>8
    <3>3. CASE j <= k
      <4>1. j \in 1 .. n /\ q[j] = p[j]
        BY <3>3, <1>6
      <4> QED
        BY <4>1, <3>2
    <3>4. CASE ~(j <= k)
      <4>1. j + 1 \in 1 .. n /\ ~(j + 1 <= k) /\ j + 1 # k + 1 /\ j + 1 - 1 = j
        BY <3>4, <1>6, <1>10
      <4>2. q[j + 1] = p[j + 1 - 1]
        BY <4>1
      <4> QED
        BY <4>1, <4>2, <3>2
    <3> QED
      BY <3>3, <3>4
  <2> QED
    BY <2>1, <2>2
<1>16. ASSUME NEW i \in 1 .. n, NEW j \in 1 .. n, i < j
       PROVE  ~Before(items[q[j]], items[q[i]])
  <2>a. \A l \in 1 .. m : p[l] \in 1 .. m /\ items[p[l]] \in Cand
    BY <1>8, <1>6, <1>2
  <2>1. CASE j <= k
    <3>1. i <= k /\ i \in 1 .. m /\ j \in 1 .. m
      BY <2>1, <1>13, <1>16, <1>10
    <3>2. q[i] = p[i] /\ q[j] = p[j]
      BY <3>1, <2>1
    <3> QED
      BY <3>1, <3>2, <1>8, <1>16
  <2>2. CASE j = k + 1
    <3>1. i <= k /\ i \in 1 .. m /\ ~(j <= k)
      BY <2>2, <1>13, <1>16, <1>10
    <3>2. q[i] = p[i] /\ q[j] = n
      BY <3>1, <2>2
    <3> QED
      BY <3>1, <3>2, <1>12
  <2>3. CASE j > k + 1
    <3>1. ~(j <= k) /\ j # k + 1 /\ j - 1 \in 1 .. m /\ k < j - 1
      BY <2>3, <1>13, <1>10
    <3>2. q[j] = p[j - 1]
      BY <3>1
    <3>3. CASE i <= k
      <4>1. i \in 1 .. m /\ q[i] = p[i] /\ i < j - 1
        BY <3>3, <3>1, <1>13, <1>10
      <4> QED
        BY <4>1, <3>1, <3>2, <1>8
    <3>4. CASE i = k + 1
      <4>1. ~(i <= k) /\ q[i] = n
        BY <3>4, <1>10
      <4>2. Before(c, items[p[j - 1]])
        BY <3>1, <1>10
      <4> QED
        BY <4>1, <4>2, <3>1, <3>2, <2>a, <1>6, BeforeStrict
    <3>5. CASE i > k + 1
      <4>1. ~(i <= k) /\ i # k + 1 /\ i - 1 \in 1 .. m /\ i - 1 < j - 1
        BY <3>5, <1>13, <1>10, <1>16
      <4>2. q[i] = p[i - 1]
        BY <4>1
      <4> QED
        BY <4>1, <4>2, <3>1, <3>2, <1>8
    <3> QED
      BY <3>3, <3>4, <3>5, <1>13
  <2> QED
    BY <2>1, <2>2, <2>3, <1>13
<1>17. q \in Orders(items)
  <2> HIDE DEF q
  <2> QED
    BY <1>4, <1>14, <1>15, <1>16 DEF Orders
<1> QED
  BY <1>17, <1>2

(* sort.Slice gives the same records in order.                             *)
LEMMA SortedIs ==
  ASSUME NEW items \in Seq(Cand)
  PROVE  /\ Sorted(items) \in Seq(Cand) /\ Len(Sorted(items)) = Len(items)
         /\ Elements(Sorted(items)) = Elements(items)
         /\ InOrder(Sorted(items))
<1> DEFINE order == CHOOSE p \in Orders(items) : TRUE
<1>1. DOMAIN items = 1 .. Len(items) /\ Len(items) \in Nat /\ items \in [1 .. Len(items) -> Cand]
  BY LenProperties
<1>2. order \in Orders(items)
  BY <1>1, OrderExists
<1>3. /\ order \in [DOMAIN items -> DOMAIN items]
      /\ \A i \in DOMAIN items : \E j \in DOMAIN items : order[j] = i
      /\ \A i, j \in DOMAIN items : i < j => ~Before(items[order[j]], items[order[i]])
  BY <1>2 DEF Orders
<1> HIDE DEF order
<1>4. Sorted(items) = [i \in 1 .. Len(items) |-> items[order[i]]]
  BY <1>1 DEF Sorted, order
<1>5. \A i \in 1 .. Len(items) : items[order[i]] \in Cand
  BY <1>1, <1>3
<1>6. Sorted(items) \in Seq(Cand) /\ Len(Sorted(items)) = Len(items)
      /\ DOMAIN Sorted(items) = DOMAIN items
  BY <1>1, <1>4, <1>5
<1>7. Elements(Sorted(items)) = Elements(items)
  BY <1>1, <1>3, <1>4, <1>6 DEF Elements
<1>8. InOrder(Sorted(items))
  BY <1>1, <1>3, <1>4, <1>6 DEF InOrder
<1> QED
  BY <1>6, <1>7, <1>8

-----------------------------------------------------------------------------
(* A record that is not before the last one written keeps the output in    *)
(* order.                                                                  *)
LEMMA AppendNewKeeps ==
  ASSUME NEW out \in Seq(Cand), NEW c \in Cand, Ascending(out),
         out # <<>> => ~Before(c, out[Len(out)])
  PROVE  /\ AppendNew(out, c) \in Seq(Cand) /\ Ascending(AppendNew(out, c))
         /\ Elements(AppendNew(out, c)) = Elements(out) \cup {c}
         /\ AppendNew(out, c) # <<>> /\ AppendNew(out, c)[Len(AppendNew(out, c))] = c
         /\ Len(AppendNew(out, c)) <= Len(out) + 1
<1>0. DOMAIN out = 1 .. Len(out) /\ Len(out) \in Nat /\ out \in [1 .. Len(out) -> Cand]
      /\ (out = <<>> <=> Len(out) = 0)
  BY LenProperties, EmptySeq
<1>1. CASE out # <<>> /\ out[Len(out)] = c
  <2>1. AppendNew(out, c) = out
    BY <1>1 DEF AppendNew
  <2>2. Len(out) \in DOMAIN out
    BY <1>0, <1>1
  <2> QED
    BY <1>0, <1>1, <2>1, <2>2 DEF Elements
<1>2. CASE ~(out # <<>> /\ out[Len(out)] = c)
  <2> DEFINE new == Append(out, c)
  <2>1. AppendNew(out, c) = new
    BY <1>2 DEF AppendNew
  <2>2. /\ new \in Seq(Cand) /\ Len(new) = Len(out) + 1 /\ DOMAIN new = 1 .. Len(out) + 1
        /\ \A i \in 1 .. Len(out) : new[i] = out[i]
        /\ new[Len(out) + 1] = c
    BY <1>0
  <2> HIDE DEF new
  <2>3. ASSUME NEW i \in DOMAIN new, NEW j \in DOMAIN new, i < j PROVE Before(new[i], new[j])
    <3>1. i \in 1 .. Len(out) /\ new[i] = out[i] /\ out[i] \in Cand
      BY <1>0, <2>2, <2>3
    <3>2. CASE j \in 1 .. Len(out)
      BY <3>1, <3>2, <2>2, <2>3, <1>0 DEF Ascending
    <3>3. CASE j = Len(out) + 1
      <4>1. Len(out) \in 1 .. Len(out) /\ out[Len(out)] \in Cand /\ out # <<>>
        BY <1>0, <3>1
      <4>2. Before(out[Len(out)], c)
        BY <4>1, <1>2, BeforeTotal
      <4>3. i = Len(out) \/ Before(out[i], out[Len(out)])
        BY <1>0, <3>1, <4>1 DEF Ascending
      <4> QED
        BY <3>1, <3>3, <4>1, <4>2, <4>3, <2>2, BeforeTransitive
    <3> QED
      BY <2>2, <3>2, <3>3, <1>0
  <2>4. Ascending(new)
    BY <2>3 DEF Ascending
  <2>5. Elements(new) = Elements(out) \cup {c}
    <3>1. \A i \in 1 .. Len(out) + 1 : i \in 1 .. Len(out) \/ i = Len(out) + 1
      BY <1>0
    <3>2. 1 .. Len(out) \subseteq 1 .. Len(out) + 1 /\ Len(out) + 1 \in 1 .. Len(out) + 1
      BY <1>0
    <3>3. Elements(new) \subseteq Elements(out) \cup {c}
      BY <1>0, <2>2, <3>1 DEF Elements
    <3>4. Elements(out) \cup {c} \subseteq Elements(new)
      BY <1>0, <2>2, <3>2 DEF Elements
    <3> QED
      BY <3>3, <3>4
  <2>6. new # <<>> /\ Len(new) <= Len(out) + 1
    BY <2>2, <1>0
  <2> QED
    BY <2>1, <2>2, <2>4, <2>5, <2>6
<1> QED
  BY <1>1, <1>2

(* dedupeCandidates keeps what a sorted chunk has, each once.              *)
LEMMA DedupeIs ==
  ASSUME NEW items \in Seq(Cand), InOrder(items)
  PROVE  /\ Dedupe(items) \in Seq(Cand) /\ Ascending(Dedupe(items))
         /\ Elements(Dedupe(items)) = Elements(items)
         /\ Len(Dedupe(items)) <= Len(items)
<1> DEFINE L == Len(items)
           g == [n \in 1 .. L |-> [x \in Seq(Cand) |-> AppendNew(x, items[n])]]
           kept == CHOOSE f : f = [n \in 0 .. Len(items) |->
                     IF n = 0 THEN <<>> ELSE AppendNew(f[n - 1], items[n])]
<1>0. L \in Nat /\ DOMAIN items = 1 .. L /\ items \in [1 .. L -> Cand]
  BY LenProperties
<1>1. <<>> \in Seq(Cand) /\ \A x \in Seq(Cand), c \in Cand : AppendNew(x, c) \in Seq(Cand)
  BY DEF AppendNew
<1>2. g \in [1 .. L -> [Seq(Cand) -> Seq(Cand)]]
  BY <1>0, <1>1
<1>3. PICK f \in [0 .. L -> Seq(Cand)] :
        f[0] = <<>> /\ \A n \in 1 .. L : f[n] = g[n][f[n - 1]]
  <2> DEFINE S == Seq(Cand)
             empty == <<>>
  <2>1. L \in Nat /\ empty \in S /\ Loop(g, L, S)
    BY <1>0, <1>1, <1>2 DEF Loop
  <2>2. \E f : Run(f, g, L, S, empty)
    <3> HIDE DEF g, L, kept, S, empty
    <3> QED
      BY ONLY <2>1, Iterated
  <2> HIDE DEF g
  <2> QED
    BY <2>2 DEF Run
<1>4. f = [n \in 0 .. L |-> IF n = 0 THEN <<>> ELSE AppendNew(f[n - 1], items[n])]
  <2>1. \A n \in 0 .. L : f[n] = IF n = 0 THEN <<>> ELSE g[n][f[n - 1]]
    <3>1. \A n \in 0 .. L : n # 0 => n \in 1 .. L
      BY <1>0
    <3> QED
      BY <1>3, <3>1
  <2>2. \A n \in 0 .. L : n # 0 => n \in 1 .. L /\ n - 1 \in 0 .. L
    BY <1>0
  <2>3. \A n \in 0 .. L : n # 0 => g[n][f[n - 1]] = AppendNew(f[n - 1], items[n])
    BY <1>3, <2>2
  <2> HIDE DEF g
  <2>4. \A n \in 0 .. L : f[n] = IF n = 0 THEN <<>> ELSE AppendNew(f[n - 1], items[n])
    BY <2>1, <2>3
  <2>5. f = [n \in 0 .. L |-> f[n]]
    BY <1>3
  <2> QED
    BY <2>4, <2>5
<1>5. kept = [n \in 0 .. L |-> IF n = 0 THEN <<>> ELSE AppendNew(kept[n - 1], items[n])]
  BY <1>4
<1>6. Dedupe(items) = kept[L]
  BY DEF Dedupe
<1> HIDE DEF kept, g
<1> DEFINE Part(n) == {items[i] : i \in 1 .. n}
           Right(n) == /\ kept[n] \in Seq(Cand) /\ Ascending(kept[n])
                       /\ Elements(kept[n]) = Part(n) /\ Len(kept[n]) <= n
                       /\ n # 0 => kept[n] # <<>> /\ kept[n][Len(kept[n])] = items[n]
                       /\ kept[n] # <<>> => n # 0
           Good == {n \in 0 .. L : Right(n)}
<1>7. 0 \in Good
  <2>1. kept[0] = <<>>
    BY <1>0, <1>5
  <2>2. Elements(<<>>) = {} /\ Part(0) = {} /\ Ascending(<<>>)
    BY DEF Elements, Ascending
  <2>3. Right(0)
    BY <1>1, <2>1, <2>2
  <2>4. 0 \in 0 .. L
    BY <1>0
  <2> HIDE DEF Right, L
  <2> QED
    BY <2>3, <2>4
<1>8. ASSUME NEW n \in 1 .. L, n - 1 \in Good PROVE n \in Good
  <2>1. n \in 0 .. L /\ n # 0 /\ n - 1 \in 0 .. L /\ Right(n - 1) /\ items[n] \in Cand
    BY <1>0, <1>8
  <2>2. kept[n] = AppendNew(kept[n - 1], items[n])
    BY <1>5, <2>1
  <2>3. kept[n - 1] # <<>> => ~Before(items[n], kept[n - 1][Len(kept[n - 1])])
    <3> SUFFICES ASSUME kept[n - 1] # <<>>
                 PROVE  ~Before(items[n], kept[n - 1][Len(kept[n - 1])])
      OBVIOUS
    <3>1. n - 1 # 0 /\ kept[n - 1][Len(kept[n - 1])] = items[n - 1]
      BY <2>1
    <3>2. n - 1 \in DOMAIN items /\ n \in DOMAIN items /\ n - 1 < n
      BY <1>0, <3>1, <2>1
    <3> QED
      BY <3>1, <3>2 DEF InOrder
  <2>4. /\ kept[n] \in Seq(Cand) /\ Ascending(kept[n])
        /\ Elements(kept[n]) = Elements(kept[n - 1]) \cup {items[n]}
        /\ kept[n] # <<>> /\ kept[n][Len(kept[n])] = items[n]
        /\ Len(kept[n]) <= Len(kept[n - 1]) + 1
    <3>1. kept[n - 1] \in Seq(Cand) /\ Ascending(kept[n - 1])
      BY <2>1
    <3> HIDE DEF Right
    <3> QED
      BY <2>1, <2>2, <2>3, <3>1, AppendNewKeeps
  <2>5. Part(n) = Part(n - 1) \cup {items[n]}
    <3>1. 1 .. n = (1 .. n - 1) \cup {n}
      BY <1>0
    <3> QED
      BY <3>1
  <2>6. Len(kept[n]) <= n
    BY <2>1, <2>4, <1>0
  <2> HIDE DEF Part
  <2> QED
    BY <2>1, <2>4, <2>5, <2>6
<1>9. L \in Good
  <2>1. L \in Nat /\ \A n \in 1 .. L : n - 1 \in Good => n \in Good
    BY <1>0, <1>8
  <2>2. L \in 0 .. L
    BY <1>0
  <2> HIDE DEF Good, L
  <2> QED
    BY ONLY <2>1, <2>2, <1>7, Rounds
<1>10. Elements(items) = Part(L)
  BY <1>0 DEF Elements
<1> HIDE DEF Part
<1> QED
  BY <1>6, <1>9, <1>10

-----------------------------------------------------------------------------
(* The rest of a chunk, once its head was popped.                          *)
LEMMA TailOf ==
  ASSUME NEW s \in Seq(Cand), s # <<>>, Ascending(s)
  PROVE  /\ s[1] \in Cand /\ Tail(s) \in Seq(Cand) /\ Len(Tail(s)) = Len(s) - 1
         /\ Ascending(Tail(s))
         /\ Elements(s) = {s[1]} \cup Elements(Tail(s))
         /\ \A x \in Elements(s) : ~Before(x, s[1])
<1>0. DOMAIN s = 1 .. Len(s) /\ Len(s) \in Nat /\ Len(s) >= 1 /\ s \in [1 .. Len(s) -> Cand]
  BY LenProperties, EmptySeq
<1>1. /\ Tail(s) \in Seq(Cand) /\ Len(Tail(s)) = Len(s) - 1 /\ DOMAIN Tail(s) = 1 .. Len(s) - 1
      /\ \A i \in 1 .. Len(s) - 1 : Tail(s)[i] = s[i + 1]
  BY <1>0
<1>2. s[1] \in Cand
  BY <1>0
<1>3. Ascending(Tail(s))
  <2>1. \A i \in 1 .. Len(s) - 1 : i + 1 \in DOMAIN s
    BY <1>0
  <2> QED
    BY <1>1, <2>1 DEF Ascending
<1>4. Elements(s) = {s[1]} \cup Elements(Tail(s))
  <2>1. \A i \in 1 .. Len(s) : i = 1 \/ (i - 1 \in 1 .. Len(s) - 1 /\ i - 1 + 1 = i)
    BY <1>0
  <2>2. \A i \in 1 .. Len(s) - 1 : i + 1 \in 1 .. Len(s)
    BY <1>0
  <2>3. 1 \in 1 .. Len(s)
    BY <1>0
  <2>4. ASSUME NEW i \in 1 .. Len(s) PROVE s[i] \in {s[1]} \cup Elements(Tail(s))
    <3>1. CASE i - 1 \in 1 .. Len(s) - 1 /\ i - 1 + 1 = i
      <4>1. Tail(s)[i - 1] = s[i] /\ i - 1 \in DOMAIN Tail(s)
        BY <1>1, <3>1
      <4> QED
        BY <4>1 DEF Elements
    <3> QED
      BY <2>1, <3>1
  <2>5. Elements(s) \subseteq {s[1]} \cup Elements(Tail(s))
    BY <1>0, <2>4 DEF Elements
  <2>6. {s[1]} \cup Elements(Tail(s)) \subseteq Elements(s)
    BY <1>0, <1>1, <2>2, <2>3 DEF Elements
  <2> QED
    BY <2>5, <2>6
<1>5. ASSUME NEW x \in Elements(s) PROVE ~Before(x, s[1])
  <2>1. PICK i \in 1 .. Len(s) : x = s[i]
    BY <1>0 DEF Elements
  <2>2. i = 1 \/ Before(s[1], s[i])
    BY <1>0, <2>1 DEF Ascending
  <2> QED
    BY <2>1, <2>2, <1>0, BeforeStrict
<1> QED
  BY <1>1, <1>2, <1>3, <1>4, <1>5

(* The heap has a smallest head.                                           *)
LEMMA LeastHeadIs ==
  ASSUME NEW chunks \in Seq(Seq(Cand)), Open(chunks) # {}
  PROVE  /\ LeastHead(chunks) \in Open(chunks)
         /\ \A j \in Open(chunks) : ~Before(chunks[j][1], chunks[LeastHead(chunks)][1])
<1> DEFINE N == Len(chunks)
           head(i) == chunks[i][1]
           Upto(n) == Open(chunks) \cap (1 .. n)
           HasLeast(n) == Upto(n) # {} => \E i \in Upto(n) : \A j \in Upto(n) : ~Before(head(j), head(i))
           Good == {n \in 0 .. N : HasLeast(n)}
<1>0. N \in Nat /\ DOMAIN chunks = 1 .. N /\ chunks \in [1 .. N -> Seq(Cand)]
  BY LenProperties
<1>1. \A i \in Open(chunks) : i \in 1 .. N /\ head(i) \in Cand
  <2> TAKE i \in Open(chunks)
  <2>1. i \in 1 .. N /\ chunks[i] \in Seq(Cand) /\ chunks[i] # <<>>
    BY <1>0 DEF Open
  <2> QED
    BY <2>1
<1>2. 0 \in Good
  BY <1>0
<1>3. ASSUME NEW n \in 1 .. N, n - 1 \in Good PROVE n \in Good
  <2>1. n \in 0 .. N /\ HasLeast(n - 1)
    BY <1>3, <1>0
  <2>2. CASE n \notin Open(chunks)
    <3>1. Upto(n) = Upto(n - 1)
      BY <2>2, <1>0
    <3>2. HasLeast(n)
      BY <2>1, <3>1
    <3> HIDE DEF HasLeast
    <3> QED
      BY <2>1, <3>2
  <2>3. CASE n \in Open(chunks)
    <3>1. Upto(n) = Upto(n - 1) \cup {n}
      BY <2>3, <1>0
    <3>2. HasLeast(n)
      <4>1. CASE Upto(n - 1) = {}
        <5>1. Upto(n) = {n}
          BY <3>1, <4>1
        <5>2. ~Before(head(n), head(n))
          BY <2>3, <1>1, BeforeStrict
        <5> HIDE DEF Upto, head
        <5> QED
          BY <5>1, <5>2
      <4>2. CASE Upto(n - 1) # {}
        <5>1. PICK i \in Upto(n - 1) : \A j \in Upto(n - 1) : ~Before(head(j), head(i))
          BY <2>1, <4>2
        <5>2. head(i) \in Cand /\ head(n) \in Cand /\ \A j \in Upto(n - 1) : head(j) \in Cand
          BY <1>1, <2>3
        <5> HIDE DEF Upto, head
        <5>3. CASE Before(head(n), head(i))
          <6>1. \A j \in Upto(n) : ~Before(head(j), head(n))
            <7> TAKE j \in Upto(n)
            <7>1. CASE j = n
              BY <7>1, <5>2, BeforeStrict
            <7>2. CASE j \in Upto(n - 1)
              <8>1. head(j) \in Cand /\ ~Before(head(j), head(i))
                BY <7>2, <5>1, <5>2
              <8>2. ~Before(head(i), head(n))
                BY <5>2, <5>3, BeforeStrict
              <8> QED
                BY <8>1, <8>2, <5>2, BeforeTransitive
            <7> QED
              BY <7>1, <7>2, <3>1
          <6> QED
            BY <3>1, <6>1
        <5>4. CASE ~Before(head(n), head(i))
          BY <3>1, <5>1, <5>4
        <5> QED
          BY <5>3, <5>4
      <4> QED
        BY <4>1, <4>2
    <3> HIDE DEF HasLeast
    <3> QED
      BY <2>1, <3>2
  <2> QED
    BY <2>2, <2>3
<1>4. HasLeast(N)
  <2>1. N \in 0 .. N /\ N \in Nat
    BY <1>0
  <2>2. \A n \in 1 .. N : n - 1 \in Good => n \in Good
    BY <1>3
  <2>3. N \in Good
    <3> HIDE DEF Good, N
    <3> QED
      BY ONLY <2>1, <2>2, <1>2, Rounds
  <2> HIDE DEF HasLeast
  <2> QED
    BY <2>3
<1>5. Upto(N) = Open(chunks)
  BY <1>1
<1>6. \E i \in Open(chunks) : \A j \in Open(chunks) : ~Before(chunks[j][1], chunks[i][1])
  <2> HIDE DEF Upto
  <2> QED
    BY <1>4, <1>5
<1> QED
  BY <1>6 DEF LeastHead

(* What a merge keeps true.                                                *)
Merging(m, all) ==
  /\ m.chunks \in Seq(Seq(Cand)) /\ m.out \in Seq(Cand) /\ Ascending(m.out)
  /\ \A i \in DOMAIN m.chunks :
       /\ Ascending(m.chunks[i])
       /\ m.out # <<>> => \A x \in Elements(m.chunks[i]) : ~Before(x, m.out[Len(m.out)])
  /\ Elements(m.out) \cup UNION {Elements(m.chunks[i]) : i \in DOMAIN m.chunks} = all
(* The records a merge has still to pop.                                   *)
Left(chunks) == {p \in (DOMAIN chunks) \X Nat : 1 <= p[2] /\ p[2] <= Len(chunks[p[1]])}

(* A pop writes the smallest record there is, and there is one less.       *)
LEMMA PopKeeps ==
  ASSUME NEW chunks, NEW out, NEW all, Merging([chunks |-> chunks, out |-> out], all),
         Open(chunks) # {}
  PROVE  \E new, written :
           /\ Pop([chunks |-> chunks, out |-> out]) = [chunks |-> new, out |-> written]
           /\ Merging([chunks |-> new, out |-> written], all)
           /\ \E p \in Left(chunks) : Left(new) = Left(chunks) \ {p}
<1> DEFINE i == LeastHead(chunks)
           s == chunks[i]
           new == [chunks EXCEPT ![i] = Tail(s)]
           written == AppendNew(out, s[1])
<1>0. /\ chunks \in Seq(Seq(Cand)) /\ out \in Seq(Cand) /\ Ascending(out)
      /\ \A k \in DOMAIN chunks :
           /\ Ascending(chunks[k])
           /\ out # <<>> => \A x \in Elements(chunks[k]) : ~Before(x, out[Len(out)])
      /\ Elements(out) \cup UNION {Elements(chunks[k]) : k \in DOMAIN chunks} = all
  BY DEF Merging
<1>1. /\ i \in Open(chunks)
      /\ \A j \in Open(chunks) : ~Before(chunks[j][1], s[1])
  BY <1>0, LeastHeadIs
<1>2. DOMAIN chunks = 1 .. Len(chunks) /\ Len(chunks) \in Nat /\ chunks \in [1 .. Len(chunks) -> Seq(Cand)]
  BY <1>0, LenProperties
<1>3. i \in DOMAIN chunks /\ s # <<>> /\ s \in Seq(Cand) /\ Ascending(s)
  BY <1>0, <1>1, <1>2 DEF Open
<1> HIDE DEF i
<1>4. /\ s[1] \in Cand /\ Tail(s) \in Seq(Cand) /\ Len(Tail(s)) = Len(s) - 1
      /\ Ascending(Tail(s)) /\ Elements(s) = {s[1]} \cup Elements(Tail(s))
      /\ \A x \in Elements(s) : ~Before(x, s[1])
  BY <1>3, TailOf
<1>5. Pop([chunks |-> chunks, out |-> out]) = [chunks |-> new, out |-> written]
  BY <1>1 DEF Pop, i
<1>6. /\ new \in Seq(Seq(Cand)) /\ DOMAIN new = DOMAIN chunks /\ new[i] = Tail(s)
      /\ \A k \in DOMAIN chunks : k # i => new[k] = chunks[k]
  <2>1. new \in [1 .. Len(chunks) -> Seq(Cand)]
    BY <1>2, <1>4
  <2> QED
    BY <1>2, <1>3, <2>1
<1>7. /\ written \in Seq(Cand) /\ Ascending(written) /\ Elements(written) = Elements(out) \cup {s[1]}
      /\ written # <<>> /\ written[Len(written)] = s[1]
  <2>1. out # <<>> => ~Before(s[1], out[Len(out)])
    BY <1>0, <1>3, <1>4
  <2> HIDE DEF s
  <2> QED
    BY <1>0, <1>4, <2>1, AppendNewKeeps
<1> HIDE DEF new, written
<1>8. ASSUME NEW k \in DOMAIN chunks
      PROVE  Ascending(new[k]) /\ \A x \in Elements(new[k]) : ~Before(x, s[1])
  <2>1. CASE k = i
    <3>1. Elements(new[k]) \subseteq Elements(s) /\ new[k] = Tail(s)
      BY <1>4, <1>6, <2>1
    <3> QED
      BY <3>1, <1>4
  <2>2. CASE k # i
    <3>1. new[k] = chunks[k] /\ Ascending(chunks[k]) /\ chunks[k] \in Seq(Cand)
      BY <1>0, <1>2, <1>6, <2>2
    <3>2. ASSUME NEW x \in Elements(chunks[k]) PROVE ~Before(x, s[1])
      <4>1. chunks[k] # <<>>
        BY <3>2 DEF Elements
      <4>2. k \in Open(chunks) /\ ~Before(chunks[k][1], s[1])
        BY <4>1, <1>1 DEF Open, s
      <4>3. chunks[k][1] \in Cand /\ ~Before(x, chunks[k][1])
        BY <3>1, <4>1, TailOf
      <4>4. x \in Cand
        BY <3>1 DEF Elements
      <4> QED
        BY <4>2, <4>3, <4>4, <1>4, BeforeTransitive
    <3> QED
      BY <3>1, <3>2
  <2> QED
    BY <2>1, <2>2
<1>9. UNION {Elements(chunks[k]) : k \in DOMAIN chunks}
      = {s[1]} \cup UNION {Elements(new[k]) : k \in DOMAIN chunks}
  <2>1. ASSUME NEW k \in DOMAIN chunks
        PROVE  /\ Elements(chunks[k]) \subseteq {s[1]} \cup Elements(new[k])
               /\ Elements(new[k]) \subseteq Elements(chunks[k])
    BY <1>4, <1>6
  <2>2. s[1] \in Elements(chunks[i])
    BY <1>4
  <2> QED
    BY <2>1, <2>2, <1>3
<1>10. Merging([chunks |-> new, out |-> written], all)
  <2>1. Elements(written) \cup UNION {Elements(new[k]) : k \in DOMAIN new} = all
    BY <1>0, <1>6, <1>7, <1>9
  <2> QED
    BY <1>6, <1>7, <1>8, <2>1 DEF Merging
<1>11. \E p \in Left(chunks) : Left(new) = Left(chunks) \ {p}
  <2> DEFINE p == <<i, Len(s)>>
  <2>1. Len(s) \in Nat /\ Len(s) >= 1
    BY <1>3, EmptySeq, LenProperties
  <2>2. p \in Left(chunks)
    BY <1>3, <2>1 DEF Left
  <2>3. ASSUME NEW k \in DOMAIN chunks, NEW j \in Nat
        PROVE  (1 <= j /\ j <= Len(new[k]))
               <=> ((1 <= j /\ j <= Len(chunks[k])) /\ <<k, j>> # p)
    <3>1. CASE k = i
      <4>1. Len(new[k]) = Len(s) - 1 /\ Len(chunks[k]) = Len(s) /\ (<<k, j>> # p <=> j # Len(s))
        BY <3>1, <1>4, <1>6
      <4> QED
        BY <4>1, <2>1
    <3>2. CASE k # i
      BY <3>2, <1>6
    <3> QED
      BY <3>1, <3>2
  <2>4. Left(new) = Left(chunks) \ {p}
    <3> HIDE DEF p
    <3>1. ASSUME NEW q \in (DOMAIN chunks) \X Nat PROVE q \in Left(new) <=> q \in Left(chunks) /\ q # p
      <4>1. q[1] \in DOMAIN chunks /\ q[2] \in Nat /\ q = <<q[1], q[2]>>
        OBVIOUS
      <4> QED
        BY <4>1, <2>3, <1>6 DEF Left
    <3>2. Left(new) \subseteq (DOMAIN chunks) \X Nat /\ Left(chunks) \subseteq (DOMAIN chunks) \X Nat
      BY <1>6 DEF Left
    <3> QED
      BY <3>1, <3>2
  <2> QED
    BY <2>2, <2>4
<1> QED
  BY <1>5, <1>10, <1>11

(* mergeCandidateChunks writes what the chunks have, in order and each     *)
(* once, in as many rounds as there are records.                           *)
LEMMA MergeIs ==
  ASSUME NEW chunks \in Seq(Seq(Cand)), \A i \in DOMAIN chunks : Ascending(chunks[i]),
         NEW records \in Nat, IsFiniteSet(Left(chunks)), Cardinality(Left(chunks)) <= records
  PROVE  /\ Merge(chunks, records) \in Seq(Cand) /\ Ascending(Merge(chunks, records))
         /\ Elements(Merge(chunks, records)) = UNION {Elements(chunks[i]) : i \in DOMAIN chunks}
<1> DEFINE S == [chunks : Seq(Seq(Cand)), out : Seq(Cand)]
           start == [chunks |-> chunks, out |-> <<>>]
           g == [n \in 1 .. records |-> [m \in S |-> Pop(m)]]
           popped == CHOOSE f : f = [n \in 0 .. records |->
                       IF n = 0 THEN [chunks |-> chunks, out |-> <<>>] ELSE Pop(f[n - 1])]
           all == UNION {Elements(chunks[i]) : i \in DOMAIN chunks}
<1>1. ASSUME NEW m \in S PROVE Pop(m) \in S
  <2>1. CASE Open(m.chunks) = {}
    BY <2>1 DEF Pop
  <2>2. CASE Open(m.chunks) # {}
    <3> DEFINE i == LeastHead(m.chunks)
               s == m.chunks[i]
    <3>1. i \in Open(m.chunks)
      BY <2>2, LeastHeadIs
    <3>2. /\ m.chunks \in [1 .. Len(m.chunks) -> Seq(Cand)] /\ Len(m.chunks) \in Nat
          /\ DOMAIN m.chunks = 1 .. Len(m.chunks)
      BY LenProperties
    <3>3. i \in 1 .. Len(m.chunks) /\ s \in Seq(Cand) /\ s # <<>>
      BY <3>1, <3>2 DEF Open
    <3> HIDE DEF i
    <3>4. s[1] \in Cand /\ Tail(s) \in Seq(Cand)
      <4>1. Len(s) \in Nat /\ Len(s) # 0 /\ s \in [1 .. Len(s) -> Cand]
        BY <3>3, EmptySeq, LenProperties
      <4> QED
        BY <4>1, <3>3
    <3>5. [m.chunks EXCEPT ![i] = Tail(s)] \in Seq(Seq(Cand))
      <4>1. [m.chunks EXCEPT ![i] = Tail(s)] \in [1 .. Len(m.chunks) -> Seq(Cand)]
        BY <3>2, <3>4
      <4> QED
        BY <3>2, <4>1
    <3>6. AppendNew(m.out, s[1]) \in Seq(Cand)
      BY <3>4 DEF AppendNew
    <3>7. Pop(m) = [chunks |-> [m.chunks EXCEPT ![i] = Tail(s)], out |-> AppendNew(m.out, s[1])]
      BY <2>2 DEF Pop, i
    <3> QED
      BY <3>5, <3>6, <3>7
  <2> QED
    BY <2>1, <2>2
<1>2. start \in S
  OBVIOUS
<1>3. \E f : Run(f, g, records, S, start)
  <2>1. Loop(g, records, S)
    <3> HIDE DEF S
    <3> QED
      BY <1>1 DEF Loop
  <2> HIDE DEF g, S, start, popped
  <2> QED
    BY ONLY records \in Nat, <2>1, <1>2, Iterated
<1>4. PICK f \in [0 .. records -> S] :
        f[0] = start /\ \A n \in 1 .. records : f[n] = g[n][f[n - 1]]
  <2> HIDE DEF g, S
  <2> QED
    BY <1>3 DEF Run
<1> HIDE DEF S, start
<1>5. f = [n \in 0 .. records |-> IF n = 0 THEN start ELSE Pop(f[n - 1])]
  <2>1. \A n \in 0 .. records : n # 0 => n \in 1 .. records /\ n - 1 \in 0 .. records
    OBVIOUS
  <2>2. \A n \in 0 .. records : n # 0 => f[n] = Pop(f[n - 1])
    BY <1>4, <2>1
  <2>3. \A n \in 0 .. records : f[n] = IF n = 0 THEN start ELSE Pop(f[n - 1])
    BY <1>4, <2>2
  <2>4. f = [n \in 0 .. records |-> f[n]]
    BY <1>4
  <2> QED
    BY <2>3, <2>4
<1>6. popped = [n \in 0 .. records |-> IF n = 0 THEN start ELSE Pop(popped[n - 1])]
  BY <1>5 DEF start
<1>7. Merge(chunks, records) = popped[records].out
  BY DEF Merge
<1> HIDE DEF popped, g
<1> DEFINE left(n) == Left(popped[n].chunks)
           Good == {n \in 0 .. records :
                      /\ \E c, o : popped[n] = [chunks |-> c, out |-> o]
                      /\ Merging(popped[n], all)
                      /\ IsFiniteSet(left(n)) /\ Cardinality(left(n)) <= records - n}
<1>8. 0 \in Good
  <2>1. popped[0] = [chunks |-> chunks, out |-> <<>>] /\ 0 \in 0 .. records
    BY <1>6 DEF start
  <2>2. Merging(popped[0], all)
    BY <2>1 DEF Merging, Elements, Ascending
  <2>3. left(0) = Left(chunks)
    BY <2>1
  <2>4. IsFiniteSet(left(0)) /\ Cardinality(left(0)) <= records - 0
    <3>1. Cardinality(Left(chunks)) \in Nat
      BY FS_CardinalityType
    <3> QED
      BY <2>3, <3>1
  <2> HIDE DEF all, left
  <2> QED
    BY <2>1, <2>2, <2>4
<1>9. ASSUME NEW n \in 1 .. records, n - 1 \in Good PROVE n \in Good
  <2>1. n \in 0 .. records /\ n - 1 \in 0 .. records /\ popped[n] = Pop(popped[n - 1])
    BY <1>6
  <2>2. PICK c, o : popped[n - 1] = [chunks |-> c, out |-> o]
    BY <1>9
  <2>3. /\ Merging(popped[n - 1], all) /\ IsFiniteSet(Left(c))
        /\ Cardinality(Left(c)) <= records - (n - 1) /\ Cardinality(Left(c)) \in Nat
    BY <1>9, <2>2, FS_CardinalityType
  <2>4. CASE Open(c) = {}
    <3>1. popped[n] = popped[n - 1]
      BY <2>1, <2>2, <2>4 DEF Pop
    <3>2. Left(c) = {}
      <4>1. c \in Seq(Seq(Cand))
        BY <2>2, <2>3 DEF Merging
      <4>2. \A k \in DOMAIN c : c[k] = <<>>
        BY <2>4 DEF Open
      <4>3. \A k \in DOMAIN c : Len(c[k]) = 0
        BY <4>2
      <4> QED
        BY <4>3 DEF Left
    <3>3. left(n) = {} /\ Cardinality({}) = 0 /\ IsFiniteSet({})
      BY <3>1, <3>2, <2>2, FS_EmptySet
    <3>4. Cardinality(left(n)) <= records - n
      BY <3>3
    <3> QED
      BY <2>1, <2>2, <2>3, <3>1, <3>3, <3>4
  <2>5. CASE Open(c) # {}
    <3>1. PICK new, written :
            /\ Pop([chunks |-> c, out |-> o]) = [chunks |-> new, out |-> written]
            /\ Merging([chunks |-> new, out |-> written], all)
            /\ \E p \in Left(c) : Left(new) = Left(c) \ {p}
      <4>1. Merging([chunks |-> c, out |-> o], all)
        BY <2>2, <2>3
      <4> HIDE DEF all
      <4> QED
        BY ONLY <4>1, <2>5, PopKeeps
    <3>2. popped[n] = [chunks |-> new, out |-> written]
      BY <2>1, <2>2, <3>1
    <3>3. IsFiniteSet(Left(new)) /\ Cardinality(Left(new)) = Cardinality(Left(c)) - 1
      BY <2>3, <3>1, FS_RemoveElement
    <3>4. left(n) = Left(new)
      BY <3>2
    <3>5. Cardinality(left(n)) <= records - n
      BY <2>3, <3>3, <3>4
    <3> HIDE DEF all, left
    <3> QED
      BY <2>1, <3>1, <3>2, <3>3, <3>4, <3>5
  <2> QED
    BY <2>4, <2>5
<1>10. records \in Good
  <2>1. \A n \in 1 .. records : n - 1 \in Good => n \in Good
    BY <1>9
  <2>2. records \in 0 .. records
    OBVIOUS
  <2> HIDE DEF Good
  <2> QED
    BY ONLY records \in Nat, <2>1, <2>2, <1>8, Rounds
<1>11. Merging(popped[records], all) /\ left(records) = {}
  <2>1. /\ Merging(popped[records], all) /\ IsFiniteSet(left(records))
        /\ Cardinality(left(records)) <= records - records
    BY <1>10
  <2>2. Cardinality(left(records)) \in Nat
    BY <2>1, FS_CardinalityType
  <2>3. Cardinality(left(records)) = 0
    BY <2>1, <2>2
  <2> HIDE DEF all, left
  <2> QED
    BY <2>1, <2>3, FS_EmptySet
<1>12. \A i \in DOMAIN popped[records].chunks : Elements(popped[records].chunks[i]) = {}
  <2> DEFINE c == popped[records].chunks
  <2>0. c \in Seq(Seq(Cand))
    BY <1>11 DEF Merging
  <2>1. ASSUME NEW i \in DOMAIN c PROVE Elements(c[i]) = {}
    <3>1. c[i] \in Seq(Cand)
      BY <2>0
    <3>2. Len(c[i]) \in Nat /\ DOMAIN c[i] = 1 .. Len(c[i])
      BY <3>1, LenProperties
    <3>3. <<i, Len(c[i])>> \notin Left(c)
      BY <1>11
    <3>4. ~(1 <= Len(c[i]) /\ Len(c[i]) <= Len(c[i]))
      BY <3>2, <3>3, <2>1 DEF Left
    <3>5. DOMAIN c[i] = {}
      BY <3>2, <3>4
    <3> QED
      BY <3>5 DEF Elements
  <2> QED
    BY <2>1
<1>13. Elements(popped[records].out) = all
  BY <1>11, <1>12 DEF Merging
<1> QED
  BY <1>7, <1>11, <1>13 DEF Merging

-----------------------------------------------------------------------------
(* The chunks are as many as it takes.                                     *)
LEMMA ChunkCount ==
  ASSUME NEW L \in Nat
  PROVE  LET count == (L + RecordsPerChunk - 1) \div RecordsPerChunk
         IN  /\ count \in Nat /\ L <= count * RecordsPerChunk
             /\ count # 0 => (count - 1) * RecordsPerChunk < L
             /\ L = 0 => count = 0
             /\ \A i \in 1 .. count : i # count => i * RecordsPerChunk < L
<1> DEFINE R == RecordsPerChunk
           a == L + R - 1
           count == a \div R
<1>1. R \in Nat \ {0} /\ a \in Nat
  BY ChunkAssumption
<1>2. count \in Nat /\ count * R <= a /\ a < count * R + R
  <2> HIDE DEF a, R
  <2> QED
    BY ONLY <1>1
<1> HIDE DEF count
<1>3. count # 0 => (count - 1) * R + R = count * R
  BY <1>1, <1>2
<1>4. count * R \in Nat /\ (count # 0 => (count - 1) * R \in Nat)
  BY <1>1, <1>2
<1>5. L <= count * R
  BY <1>1, <1>2, <1>4
<1>6. count # 0 => (count - 1) * R < L
  BY <1>1, <1>2, <1>3, <1>4
<1>7. L = 0 => count = 0
  BY <1>4, <1>6
<1>8. ASSUME NEW i \in 1 .. count, i # count PROVE i * R < L
  <2>1. i * R <= (count - 1) * R
    <3>1. i \in Nat /\ count - 1 \in Nat /\ i <= count - 1 /\ R \in Nat
      BY <1>1, <1>2, <1>8
    <3> HIDE DEF R
    <3> QED
      BY ONLY <3>1
  <2>2. i * R \in Nat /\ count # 0
    BY <1>1, <1>2, <1>8
  <2> QED
    BY <1>4, <1>6, <2>1, <2>2
<1> QED
  BY <1>2, <1>5, <1>6, <1>7, <1>8 DEF count

(* Each chunk is sorted without repetitions, and together they have what   *)
(* the file has.                                                           *)
LEMMA ChunksAre ==
  ASSUME NEW file \in Seq(Cand)
  PROVE  /\ Chunks(file) \in Seq(Seq(Cand))
         /\ \A i \in DOMAIN Chunks(file) :
              /\ Ascending(Chunks(file)[i])
              /\ Len(Chunks(file)[i]) <= RecordsPerChunk
              /\ (i - 1) * RecordsPerChunk + Len(Chunks(file)[i]) <= Len(file)
         /\ UNION {Elements(Chunks(file)[i]) : i \in DOMAIN Chunks(file)} = Elements(file)
<1> DEFINE L == Len(file)
           R == RecordsPerChunk
           count == (L + R - 1) \div R
           End(i) == IF i = count THEN L ELSE i * R
           part(i) == SubSeq(file, (i - 1) * R + 1, End(i))
<1>0. L \in Nat /\ DOMAIN file = 1 .. L /\ file \in [1 .. L -> Cand] /\ R \in Nat \ {0}
  BY ChunkAssumption, LenProperties
<1>1. /\ count \in Nat /\ L <= count * R
      /\ count # 0 => (count - 1) * R < L
      /\ \A i \in 1 .. count : i # count => i * R < L
  BY <1>0, ChunkCount
<1> HIDE DEF count, L, R
<1>2. Chunks(file) = [i \in 1 .. count |-> Dedupe(Sorted(part(i)))]
  BY DEF Chunks, count, L, R
<1>3. ASSUME NEW i \in 1 .. count
      PROVE  /\ (i - 1) * R \in Nat /\ End(i) \in Nat /\ (i - 1) * R < End(i)
             /\ End(i) <= L /\ End(i) - (i - 1) * R <= R
  <2>0. i \in Nat /\ i - 1 \in Nat /\ R \in Nat /\ count # 0 /\ i * R \in Nat
        /\ (i - 1) * R \in Nat /\ (i - 1) * R + R = i * R
    BY <1>0, <1>1
  <2>1. CASE i = count
    BY <1>0, <1>1, <2>0, <2>1
  <2>2. CASE i # count
    BY <1>0, <1>1, <2>0, <2>2
  <2> QED
    BY <2>1, <2>2
<1> HIDE DEF End
<1>4. ASSUME NEW i \in 1 .. count
      PROVE  /\ part(i) \in Seq(Cand)
             /\ Len(part(i)) = End(i) - (i - 1) * R
             /\ Elements(part(i)) = {file[j] : j \in (i - 1) * R + 1 .. End(i)}
  <2> DEFINE a == (i - 1) * R
             b == End(i)
             s == SubSeq(file, a + 1, b)
  <2>1. a \in Nat /\ b \in Nat /\ a < b /\ b <= L
    BY <1>3
  <2> HIDE DEF a, b
  <2>2. \A j \in a + 1 .. b : file[j] \in Cand
    BY <1>0, <2>1
  <2>3. s \in Seq(Cand) /\ Len(s) = b - (a + 1) + 1 /\ \A j \in 1 .. b - (a + 1) + 1 : s[j] = file[a + 1 + j - 1]
    <3>1. a + 1 \in Int /\ b \in Int /\ a + 1 <= b
      BY <2>1
    <3> QED
      BY <3>1, <2>2, SubSeqProperties
  <2> HIDE DEF s
  <2>4. Len(s) = b - a /\ DOMAIN s = 1 .. b - a /\ \A j \in 1 .. b - a : s[j] = file[a + j]
    <3>1. b - (a + 1) + 1 = b - a /\ \A j \in 1 .. b - a : a + 1 + j - 1 = a + j
      BY <2>1
    <3> QED
      BY <2>3, <3>1, LenProperties
  <2>5. Elements(s) = {file[j] : j \in a + 1 .. b}
    <3>1. \A j \in 1 .. b - a : a + j \in a + 1 .. b
      BY <2>1
    <3>2. \A j \in a + 1 .. b : j - a \in 1 .. b - a /\ a + (j - a) = j
      BY <2>1
    <3>3. Elements(s) \subseteq {file[j] : j \in a + 1 .. b}
      BY <2>4, <3>1 DEF Elements
    <3>4. \A j \in a + 1 .. b : s[j - a] = file[j]
      BY <2>4, <3>2
    <3>5. {file[j] : j \in a + 1 .. b} \subseteq Elements(s)
      BY <2>4, <3>2, <3>4 DEF Elements
    <3> QED
      BY <3>3, <3>5
  <2> QED
    BY <2>3, <2>4, <2>5 DEF a, b, s
<1> HIDE DEF part
<1>5. ASSUME NEW i \in 1 .. count
      PROVE  /\ Chunks(file)[i] \in Seq(Cand) /\ Ascending(Chunks(file)[i])
             /\ Len(Chunks(file)[i]) <= End(i) - (i - 1) * R
             /\ Len(Chunks(file)[i]) \in Nat
             /\ Elements(Chunks(file)[i]) = {file[j] : j \in (i - 1) * R + 1 .. End(i)}
  <2>1. part(i) \in Seq(Cand) /\ Len(part(i)) = End(i) - (i - 1) * R
    BY <1>4
  <2>2. Sorted(part(i)) \in Seq(Cand) /\ Len(Sorted(part(i))) = Len(part(i))
        /\ Elements(Sorted(part(i))) = Elements(part(i)) /\ InOrder(Sorted(part(i)))
    BY <2>1, SortedIs
  <2>3. Dedupe(Sorted(part(i))) \in Seq(Cand) /\ Ascending(Dedupe(Sorted(part(i))))
        /\ Elements(Dedupe(Sorted(part(i)))) = Elements(part(i))
        /\ Len(Dedupe(Sorted(part(i)))) <= Len(part(i))
    BY <2>2, DedupeIs
  <2>4. Chunks(file)[i] = Dedupe(Sorted(part(i)))
    BY <1>2
  <2> QED
    BY <2>1, <2>3, <2>4, <1>4, LenProperties
<1>6. DOMAIN Chunks(file) = 1 .. count /\ Chunks(file) \in Seq(Seq(Cand))
  <2>1. Chunks(file) \in [1 .. count -> Seq(Cand)]
    BY <1>2, <1>5
  <2> QED
    BY <1>1, <2>1
<1>7. ASSUME NEW i \in 1 .. count
      PROVE  /\ Len(Chunks(file)[i]) <= R
             /\ (i - 1) * R + Len(Chunks(file)[i]) <= L
  <2> DEFINE a == (i - 1) * R
             n == Len(Chunks(file)[i])
  <2>1. a \in Nat /\ End(i) \in Nat /\ End(i) <= L /\ End(i) - a <= R /\ n <= End(i) - a /\ n \in Nat
    BY <1>3, <1>5
  <2> HIDE DEF a, n
  <2>2. n <= R /\ a + n <= L
    BY <1>0, <2>1
  <2> QED
    BY <2>2 DEF a, n
<1>8. \A j \in 1 .. L : \E i \in 1 .. count : j \in (i - 1) * R + 1 .. End(i)
  <2> TAKE j \in 1 .. L
  <2> DEFINE T == {i \in Nat : j <= i * R}
  <2>1. count \in T
    <3>1. count * R \in Nat
      BY <1>0, <1>1
    <3> QED
      BY <1>0, <1>1, <3>1
  <2>2. PICK i \in T : \A k \in T : i <= k
    <3> HIDE DEF T
    <3>1. T \subseteq Nat
      BY DEF T
    <3> QED
      BY <2>1, <3>1, LeastOf
  <2>3. i \in Nat /\ j <= i * R /\ i <= count
    BY <2>1, <2>2
  <2>4. i # 0
    <3> SUFFICES ASSUME i = 0 PROVE FALSE
      OBVIOUS
    <3>1. i * R = 0
      BY <1>0
    <3> QED
      BY <2>3, <3>1
  <2>5. i - 1 \in Nat /\ i - 1 \notin T
    BY <2>2, <2>3, <2>4
  <2>6. (i - 1) * R \in Nat /\ ~(j <= (i - 1) * R)
    BY <1>0, <2>5
  <2>7. i \in 1 .. count /\ i * R \in Nat
    BY <1>0, <1>1, <2>3, <2>4
  <2>8. j <= End(i)
    BY <2>3, <1>0 DEF End
  <2>9. j \in (i - 1) * R + 1 .. End(i)
    BY <2>6, <2>8, <2>7, <1>3
  <2> QED
    BY <2>7, <2>9
<1>9. UNION {Elements(Chunks(file)[i]) : i \in 1 .. count} = Elements(file)
  <2>1. ASSUME NEW i \in 1 .. count PROVE Elements(Chunks(file)[i]) \subseteq Elements(file)
    <3>1. (i - 1) * R + 1 .. End(i) \subseteq 1 .. L
      BY <1>0, <1>3
    <3>2. {file[j] : j \in (i - 1) * R + 1 .. End(i)} \subseteq {file[j] : j \in 1 .. L}
      BY ONLY <3>1
    <3>3. Elements(file) = {file[j] : j \in 1 .. L}
      BY <1>0 DEF Elements
    <3> QED
      BY <1>5, <3>2, <3>3
  <2>2. ASSUME NEW j \in 1 .. L PROVE \E i \in 1 .. count : file[j] \in Elements(Chunks(file)[i])
    BY <1>5, <1>8
  <2>3. Elements(file) = {file[j] : j \in 1 .. L}
    BY <1>0 DEF Elements
  <2> QED
    BY <2>1, <2>2, <2>3
<1> QED
  BY <1>5, <1>6, <1>7, <1>9 DEF R, L

(* A merge has no more records to pop than the file had.                   *)
LEMMA LeftBounded ==
  ASSUME NEW file \in Seq(Cand)
  PROVE  IsFiniteSet(Left(Chunks(file))) /\ Cardinality(Left(Chunks(file))) <= Len(file)
<1> DEFINE chunks == Chunks(file)
           R == RecordsPerChunk
           L == Len(file)
           place == [p \in Left(chunks) |-> (p[1] - 1) * R + p[2]]
<1>1. /\ DOMAIN chunks = 1 .. Len(chunks) /\ Len(chunks) \in Nat
      /\ R \in Nat \ {0} /\ L \in Nat
      /\ \A i \in DOMAIN chunks : Len(chunks[i]) \in Nat /\ Len(chunks[i]) <= R /\ (i - 1) * R + Len(chunks[i]) <= L
  BY ChunksAre, LenProperties, ChunkAssumption
<1> HIDE DEF chunks, R, L
<1>2. ASSUME NEW p \in Left(chunks)
      PROVE  /\ p[1] \in Nat /\ p[1] >= 1 /\ p[2] \in Nat /\ p[2] >= 1 /\ p[2] <= R
             /\ (p[1] - 1) * R \in Nat /\ p = <<p[1], p[2]>>
             /\ (p[1] - 1) * R + p[2] <= L
  <2>1. p[1] \in DOMAIN chunks /\ p[2] \in Nat /\ 1 <= p[2] /\ p[2] <= Len(chunks[p[1]]) /\ p = <<p[1], p[2]>>
    BY DEF Left
  <2>2. p[1] \in Nat /\ p[1] >= 1 /\ p[1] - 1 \in Nat
    BY <1>1, <2>1
  <2>3. (p[1] - 1) * R \in Nat
    BY <1>1, <2>2
  <2> QED
    BY <1>1, <2>1, <2>2, <2>3
<1>3. ASSUME NEW p \in Left(chunks), NEW q \in Left(chunks), p[1] < q[1]
      PROVE  (p[1] - 1) * R + p[2] < (q[1] - 1) * R + q[2]
  <2>1. p[1] - 1 \in Nat /\ q[1] - 1 \in Nat /\ p[1] - 1 < q[1] - 1 /\ R \in Nat
    BY <1>1, <1>2, <1>3
  <2>2. (p[1] - 1) * R + R <= (q[1] - 1) * R
    BY ONLY <2>1
  <2> DEFINE u == (p[1] - 1) * R
             v == (q[1] - 1) * R
  <2>3. u \in Nat /\ v \in Nat /\ u + R <= v /\ p[2] \in Nat /\ p[2] <= R /\ q[2] \in Nat /\ q[2] >= 1
    BY <1>2, <2>2
  <2> HIDE DEF u, v
  <2>4. u + p[2] < v + q[2]
    <3>1. R \in Nat
      BY <1>1
    <3> QED
      BY ONLY <2>3, <3>1
  <2> QED
    BY <2>4 DEF u, v
<1>4. ASSUME NEW p \in Left(chunks), NEW q \in Left(chunks), place[p] = place[q]
      PROVE  p = q
  <2>1. ~(p[1] < q[1]) /\ ~(q[1] < p[1])
    BY <1>2, <1>3, <1>4
  <2>2. p[1] = q[1]
    BY <2>1, <1>2
  <2>3. p[2] = q[2]
    BY <2>2, <1>2, <1>4
  <2> QED
    BY <2>2, <2>3, <1>2
<1>5. place \in [Left(chunks) -> 1 .. L]
  <2>1. ASSUME NEW p \in Left(chunks) PROVE (p[1] - 1) * R + p[2] \in 1 .. L
    BY <1>1, <1>2
  <2> QED
    BY <2>1
<1>6. place \in Injection(Left(chunks), 1 .. L)
  <2> HIDE DEF place
  <2> QED
    BY <1>4, <1>5 DEF Injection, IsInjective
<1>7. IsFiniteSet(1 .. L) /\ Cardinality(1 .. L) = L
  <2>1. 1 \in Int /\ L \in Int
    BY <1>1
  <2>2. IsFiniteSet(1 .. L) /\ Cardinality(1 .. L) = IF 1 > L THEN 0 ELSE L - 1 + 1
    BY ONLY <2>1, FS_Interval
  <2> QED
    BY <1>1, <2>2
<1>8. IsFiniteSet(Left(chunks)) /\ Cardinality(Left(chunks)) <= L
  <2> HIDE DEF place
  <2> QED
    BY <1>6, <1>7, FS_Injection
<1> QED
  BY <1>8 DEF chunks, L

(* sortCandidateFile: the records of the file, in order and each once.     *)
THEOREM SortCandidatesIs ==
  ASSUME NEW file \in Seq(Cand)
  PROVE  /\ SortCandidates(file) \in Seq(Cand)
         /\ Elements(SortCandidates(file)) = Elements(file)
         /\ Ascending(SortCandidates(file))
<1> DEFINE chunks == Chunks(file)
<1>1. /\ chunks \in Seq(Seq(Cand)) /\ \A i \in DOMAIN chunks : Ascending(chunks[i])
      /\ UNION {Elements(chunks[i]) : i \in DOMAIN chunks} = Elements(file)
  BY ChunksAre
<1>2. IsFiniteSet(Left(chunks)) /\ Cardinality(Left(chunks)) <= Len(file) /\ Len(file) \in Nat
  BY LeftBounded, LenProperties
<1> HIDE DEF chunks
<1>3. CASE Len(chunks) = 1
  <2>1. SortCandidates(file) = chunks[1]
    BY <1>3 DEF SortCandidates, chunks
  <2>2. DOMAIN chunks = {1} /\ chunks[1] \in Seq(Cand)
    <3>1. DOMAIN chunks = 1 .. 1
      BY <1>1, <1>3, LenProperties
    <3>2. 1 .. 1 = {1}
      OBVIOUS
    <3>3. chunks[1] \in Seq(Cand)
      <4>1. 1 \in 1 .. Len(chunks)
        BY <1>3
      <4> QED
        BY <1>1, <4>1, ElementOfSeq
    <3> QED
      BY <3>1, <3>2, <3>3
  <2>3. UNION {Elements(chunks[i]) : i \in DOMAIN chunks} = Elements(chunks[1])
    BY <2>2
  <2> QED
    BY <1>1, <2>1, <2>2, <2>3
<1>4. CASE Len(chunks) # 1
  <2>1. SortCandidates(file) = Merge(chunks, Len(file))
    BY <1>4 DEF SortCandidates, chunks
  <2> QED
    BY <1>1, <1>2, <2>1, MergeIs
<1> QED
  BY <1>3, <1>4

-----------------------------------------------------------------------------
(* The call stays among the steps of its mode.                             *)
Control ==
  /\ mode \in {"image", "deep", "quick"} /\ pc \in Labels
  /\ mode = "image" => pc \in {"idle", "open", "image", "imageWrite", "imageDone"}
  /\ mode = "deep" =>
       /\ pc \in {"idle", "open", "deep", "deepCopy", "deepSave", "report", "reportBody",
                  "cancelled", "finished"}
       /\ pc \in {"report", "reportBody"} => next \in {"deep", "cancelled", "finished"}
  /\ mode = "quick" =>
       /\ pc \in {"idle", "open", "mft", "quick", "quickCopy", "report", "reportBody",
                  "cancelled", "finished", "failed"}
       /\ pc \in {"report", "reportBody"} => next \in {"cancelled", "finished", "failed"}

(* No two files have the same name.                                        *)
FilesInv ==
  /\ DOMAIN current = File
  /\ IsFiniteSet(files)
  /\ \A f, g \in files : f.name = g.name => f = g

(* The labels of each mode's own steps.                                    *)
LEMMA InitControl == Init => Control
  BY SourcesAssumption DEF Init, InitWith, Control, Labels

LEMMA ImageControl == Control /\ ImageNext => Control'
<1> SUFFICES ASSUME Control, ImageNext PROVE Control'
  OBVIOUS
<1> USE DEF Control, Labels, Goto, options
<1>1. CASE OpenImage
  BY <1>1 DEF OpenImage
<1>2. CASE ImageCancelled
  BY <1>2 DEF ImageCancelled, Return, Forget
<1>3. CASE ReadImage
  <2>1. mode = "image" /\ pc' = "imageWrite" /\ UNCHANGED <<mode, next>>
    BY <1>3 DEF ReadImage
  <2> QED
    BY <2>1
<1>4. CASE WriteImage
  <2>1. pc = "imageWrite" /\ pc' = "image" /\ UNCHANGED <<mode, next>>
    BY <1>4 DEF WriteImage
  <2> QED
    BY <2>1
<1>5. CASE WriteImageFails
  BY <1>5 DEF WriteImageFails, Failed, Return, Forget
<1>6. CASE SyncImageFails
  BY <1>6 DEF SyncImageFails, Failed, Return, Forget
<1>7. CASE SyncImage
  BY <1>7 DEF SyncImage
<1>8. CASE SaveImage
  BY <1>8 DEF SaveImage, Return, Forget
<1> QED
  BY <1>1, <1>2, <1>3, <1>4, <1>5, <1>6, <1>7, <1>8 DEF ImageNext

LEMMA DeepControl == Control /\ DeepNext => Control'
<1> SUFFICES ASSUME Control, DeepNext PROVE Control'
  OBVIOUS
<1> USE DEF Control, Labels, Goto, options
<1>1. CASE OpenIndex
  BY <1>1 DEF OpenIndex
<1>2. CASE IndexMissing
  BY <1>2 DEF IndexMissing, Return, Forget
<1>3. CASE DeepCancelled
  BY <1>3 DEF DeepCancelled
<1>4. CASE SkipCandidate
  BY <1>4 DEF SkipCandidate
<1>5. CASE CarveCandidate
  BY <1>5 DEF CarveCandidate
<1>6. CASE CopyFails
  BY <1>6 DEF CopyFails
<1>7. CASE CopyDone
  <2>1. pc = "deepCopy" /\ pc' \in {"deep", "deepSave"} /\ UNCHANGED <<mode, next>>
    BY <1>7 DEF CopyDone
  <2> QED
    BY <2>1
<1>8. CASE SaveDeep
  BY <1>8 DEF SaveDeep
<1>9. CASE CompleteDeep
  BY <1>9 DEF CompleteDeep
<1> QED
  BY <1>1, <1>2, <1>3, <1>4, <1>5, <1>6, <1>7, <1>8, <1>9 DEF DeepNext

LEMMA QuickControl == Control /\ QuickNext => Control'
<1> SUFFICES ASSUME Control, QuickNext PROVE Control'
  OBVIOUS
<1> USE DEF Control, Labels, Goto, options
<1>1. CASE OpenVolume
  <2>1. /\ mode = "quick" /\ mode' = mode
        /\ (pc' = "mft" \/ (next' = "failed" /\ pc' = "report"))
    BY <1>1 DEF OpenVolume, Report
  <2> QED
    BY <2>1
<1>2. CASE OpenPanics
  BY <1>2 DEF OpenPanics, Return, Forget
<1>3. CASE ScanRecord
  <2>1. UNCHANGED <<pc, next, mode>>
    BY <1>3 DEF ScanRecord
  <2> QED
    BY <2>1
<1>4. CASE QuickCancelled
  BY <1>4 DEF QuickCancelled, Report
<1>5. CASE ListDeleted
  BY <1>5 DEF ListDeleted
<1>6. CASE StartFile
  <2>1. pc = "quick" /\ pc' \in {"quick", "quickCopy"} /\ UNCHANGED <<mode, next>>
    BY <1>6 DEF StartFile
  <2> QED
    BY <2>1
<1>7. CASE CopyChunk
  <2>1. pc = "quickCopy" /\ pc' \in {"quick", "quickCopy"} /\ UNCHANGED <<mode, next>>
    BY <1>7 DEF CopyChunk, DropFile
  <2> QED
    BY <2>1
<1>8. CASE CopyStops
  BY <1>8 DEF CopyStops, DropFile
<1>9. CASE KeepFile
  <2>1. pc = "quickCopy" /\ pc' = "quick" /\ UNCHANGED <<mode, next>>
    BY <1>9 DEF KeepFile
  <2> QED
    BY <2>1
<1>10. CASE CompleteQuick
  BY <1>10 DEF CompleteQuick, Report
<1>11. CASE ReturnFailed
  BY <1>11 DEF ReturnFailed, Return, Forget
<1> QED
  BY <1>1, <1>2, <1>3, <1>4, <1>5, <1>6, <1>7, <1>8, <1>9, <1>10, <1>11 DEF QuickNext

LEMMA NextControl == Control /\ [Next]_vars => Control'
<1> SUFFICES ASSUME Control, [Next]_vars PROVE Control'
  OBVIOUS
<1>1. CASE ImageNext \/ DeepNext \/ QuickNext
  BY <1>1, ImageControl, DeepControl, QuickControl
<1> USE DEF Control, Labels, Goto, options
<1>2. CASE StartNew
  BY <1>2 DEF StartNew
<1>3. CASE Resume
  BY <1>3 DEF Resume
<1>4. CASE WriteReport
  <2>1. /\ pc \in {"report", "reportBody"} /\ UNCHANGED <<mode, next>>
        /\ pc' \in {"reportBody", next}
    BY <1>4 DEF WriteReport
  <2> QED
    BY <2>1
<1>5. CASE ReturnCancelled
  BY <1>5 DEF ReturnCancelled, Return, Forget
<1>6. CASE Finished
  BY <1>6 DEF Finished, Return, Forget
<1>7. CASE Cancel
  BY <1>7 DEF Cancel
<1>8. CASE Kill
  BY <1>8 DEF Kill, Return, Forget
<1>9. CASE Power
  BY <1>9 DEF Power, Return, Forget
<1>10. CASE UNCHANGED vars
  BY <1>10 DEF vars
<1> QED
  BY <1>1, <1>2, <1>3, <1>4, <1>5, <1>6, <1>7, <1>8, <1>9, <1>10 DEF Next, Call

(* A file that is stored gets a name that was free.                        *)
LEMMA UniquePathIsFree ==
  ASSUME IsFiniteSet(files), NEW base
  PROVE  /\ \A f \in files : f.name # UniquePath(base)
         /\ \E n \in Nat : UniquePath(base) = <<base, n>>
<1> DEFINE N == Cardinality(files) + 1
           Free == {n \in 1 .. N : ~Taken(base, n)}
           least == CHOOSE n \in 1 .. N : ~Taken(base, n) /\ \A k \in 1 .. n - 1 : Taken(base, k)
<1>1. Cardinality(files) \in Nat
  BY FS_CardinalityType
<1>2. Free # {}
  <2> SUFFICES ASSUME Free = {} PROVE FALSE
    OBVIOUS
  <2> DEFINE file == [n \in 1 .. N |-> CHOOSE f \in files : f.name = <<base, n>>]
  <2>1. \A n \in 1 .. N : file[n] \in files /\ file[n].name = <<base, n>>
    BY DEF Taken
  <2>2. file \in [1 .. N -> files]
    BY <2>1
  <2>3. IsFiniteSet(1 .. N) /\ Cardinality(1 .. N) = N
    <3>1. 1 \in Int /\ N \in Int /\ N >= 1
      BY <1>1
    <3>2. IsFiniteSet(1 .. N) /\ Cardinality(1 .. N) = IF 1 > N THEN 0 ELSE N - 1 + 1
      BY ONLY <3>1, FS_Interval
    <3> QED
      BY <3>1, <3>2
  <2>4. Cardinality(files) < Cardinality(1 .. N)
    BY <1>1, <2>3
  <2>5. \E x, y \in 1 .. N : x # y /\ file[x] = file[y]
    <3> DEFINE numbers == 1 .. N
    <3>1. file \in [numbers -> files] /\ IsFiniteSet(numbers) /\ IsFiniteSet(files)
          /\ Cardinality(files) < Cardinality(numbers)
      BY <2>2, <2>3, <2>4
    <3> HIDE DEF numbers, file
    <3>2. \E x, y \in numbers : x # y /\ file[x] = file[y]
      BY ONLY <3>1, FS_PigeonHole
    <3> QED
      BY <3>2 DEF numbers
  <2> HIDE DEF file, N
  <2> QED
    BY <2>1, <2>5
<1>3. PICK n \in Free : \A k \in Free : n <= k
  <2>1. Free \subseteq Nat
    BY <1>1
  <2> HIDE DEF Free
  <2> QED
    BY <1>2, <2>1, LeastOf
<1>4. \A k \in 1 .. n - 1 : Taken(base, k)
  <2> TAKE k \in 1 .. n - 1
  <2>1. k \in 1 .. N /\ ~(n <= k)
    BY <1>1
  <2> QED
    BY <1>3, <2>1
<1>5. least \in 1 .. N /\ ~Taken(base, least)
  BY <1>3, <1>4
<1>6. UniquePath(base) = <<base, least>>
  BY DEF UniquePath
<1> HIDE DEF least
<1>7. least \in Nat
  BY <1>1, <1>5
<1> QED
  BY <1>5, <1>6, <1>7 DEF Taken

(* Keep adds a file, and takes none away.                                  *)
LEMMA KeepAdds ==
  ASSUME NEW file, Keep(file), \A f \in files : f.name # file.name
  PROVE  IF Duplicate(file.body) THEN files' = files ELSE files' = files \cup {file}
<1>1. CASE Duplicate(file.body)
  BY <1>1 DEF Keep
<1>2. CASE ~Duplicate(file.body)
  <2>1. files' = {f \in files : f.name # file.name} \cup {file}
    BY <1>2 DEF Keep
  <2> QED
    BY <1>2, <2>1
<1> QED
  BY <1>1, <1>2

(* Nothing but the rename of a copied file touches the recovered files.    *)
LEMMA StepFiles ==
  ASSUME FilesInv, Next
  PROVE  /\ DOMAIN current' = File
         /\ files' = files
            \/ \E file : /\ files' = files \cup {file}
                         /\ \A f \in files : f.name # file.name
<1> DEFINE Shaped(c) == DOMAIN c = File
           Added == \E file : /\ files' = files \cup {file}
                              /\ \A f \in files : f.name # file.name
<1> SUFFICES Shaped(current') /\ (files' = files \/ Added)
  OBVIOUS
<1>0. Shaped(current) /\ IsFiniteSet(files)
  BY DEF FilesInv
<1>a. Shaped(Nothing)
  BY DEF Nothing, File
<1>b. \A body : Shaped([Nothing EXCEPT !.body = body])
  BY <1>a
<1>c. ASSUME NEW base, Keep([current EXCEPT !.name = UniquePath(base)])
      PROVE  files' = files \/ Added
  <2> DEFINE file == [current EXCEPT !.name = UniquePath(base)]
  <2>1. file.name = UniquePath(base)
    BY <1>0 DEF File
  <2>2. \A f \in files : f.name # file.name
    BY <1>0, <2>1, UniquePathIsFree
  <2> HIDE DEF file
  <2>3. Keep(file)
    BY <1>c DEF file
  <2> QED
    BY <2>2, <2>3, KeepAdds
<1> HIDE DEF Shaped, Added
<1> USE DEF onDisk, memory
<1>1. CASE StartNew \/ Resume \/ Cancel
  BY <1>0, <1>1 DEF StartNew, Resume, Cancel
<1>2. CASE WriteReport
  BY <1>0, <1>2 DEF WriteReport
<1>3. CASE ReturnCancelled \/ Finished \/ Kill \/ Power
  BY <1>a, <1>3 DEF ReturnCancelled, Finished, Kill, Power, Return, Forget
<1>4. CASE OpenImage \/ ImageCancelled \/ SyncImage \/ SaveImage \/ SyncImageFails
  BY <1>0, <1>a, <1>4 DEF OpenImage, ImageCancelled, SyncImage, SaveImage, SyncImageFails, Failed,
     Return, Forget
<1>5. CASE ReadImage
  <2>1. files' = files /\ \E body : current' = [Nothing EXCEPT !.body = body]
    BY <1>5 DEF ReadImage
  <2> QED
    BY <1>b, <2>1
<1>6. CASE WriteImage
  <2>1. files' = files /\ current' = Nothing
    BY <1>6 DEF WriteImage
  <2> QED
    BY <1>a, <2>1
<1>7. CASE WriteImageFails
  <2>1. files' = files /\ current' = Nothing
    BY <1>7 DEF WriteImageFails, Failed, Return, Forget
  <2> QED
    BY <1>a, <2>1
<1>8. CASE OpenIndex \/ IndexMissing \/ DeepCancelled \/ SkipCandidate \/ CopyFails
  BY <1>0, <1>a, <1>8 DEF OpenIndex, IndexMissing, DeepCancelled, SkipCandidate, CopyFails, Return,
     Forget
<1>9. CASE CarveCandidate
  <2>1. files' = files /\ \E body : current' = [Nothing EXCEPT !.body = body]
    BY <1>9 DEF CarveCandidate
  <2> QED
    BY <1>b, <2>1
<1>10. CASE CopyDone
  <2>1. current' = Nothing /\ \E base : Keep([current EXCEPT !.name = UniquePath(base)])
    BY <1>10 DEF CopyDone
  <2> QED
    BY <1>a, <1>c, <2>1
<1>11. CASE SaveDeep \/ CompleteDeep
  BY <1>0, <1>11 DEF SaveDeep, CompleteDeep
<1>12. CASE OpenVolume
  <2>1. UNCHANGED <<files, current>>
    BY <1>12 DEF OpenVolume
  <2> QED
    BY <1>0, <2>1
<1>13. CASE ScanRecord
  <2>1. UNCHANGED <<files, current>>
    BY <1>13 DEF ScanRecord
  <2> QED
    BY <1>0, <2>1
<1>14. CASE OpenPanics \/ QuickCancelled \/ ListDeleted \/ CompleteQuick \/ ReturnFailed
  BY <1>0, <1>a, <1>14 DEF OpenPanics, QuickCancelled, ListDeleted, CompleteQuick, ReturnFailed,
     Return, Forget
<1>15. CASE StartFile
  <2>1. /\ files' = files
        /\ \/ current' = current
           \/ \E n, b : current' = [name |-> n, cut |-> FALSE, body |-> b]
    BY <1>15 DEF StartFile
  <2>2. \A n, b : Shaped([name |-> n, cut |-> FALSE, body |-> b])
    BY DEF Shaped, File
  <2> QED
    BY <1>0, <2>1, <2>2
<1>16. CASE CopyChunk
  <2>1. /\ files' = files
        /\ \/ current' = Nothing
           \/ \E b, c : current' = [current EXCEPT !.body = @ \o b, !.cut = @ \/ c]
    BY <1>16 DEF CopyChunk, DropFile
  <2>2. \A b, c : Shaped([current EXCEPT !.body = @ \o b, !.cut = @ \/ c])
    BY <1>0 DEF Shaped
  <2> QED
    BY <1>a, <2>1, <2>2
<1>17. CASE CopyStops
  BY <1>a, <1>17 DEF CopyStops, DropFile
<1>18. CASE KeepFile
  <2>1. current' = Nothing /\ Keep([current EXCEPT !.name = UniquePath(current.name)])
    BY <1>18 DEF KeepFile
  <2> QED
    BY <1>a, <1>c, <2>1
<1> QED
  BY <1>1, <1>2, <1>3, <1>4, <1>5, <1>6, <1>7, <1>8, <1>9, <1>10, <1>11, <1>12, <1>13, <1>14,
     <1>15, <1>16, <1>17, <1>18 DEF Next, Call, ImageNext, DeepNext, QuickNext

(* The files stay finite many, each under a name of its own.               *)
LEMMA FilesKept == FilesInv /\ [Next]_vars => FilesInv'
<1> SUFFICES ASSUME FilesInv, [Next]_vars PROVE FilesInv'
  OBVIOUS
<1>1. CASE UNCHANGED vars
  BY <1>1 DEF vars, FilesInv, onDisk, memory
<1>2. CASE Next
  <2>1. DOMAIN current' = File
    BY <1>2, StepFiles
  <2>2. CASE files' = files
    BY <2>1, <2>2 DEF FilesInv
  <2>3. CASE files' # files
    <3>1. PICK file : files' = files \cup {file} /\ \A f \in files : f.name # file.name
      BY <1>2, <2>3, StepFiles
    <3>2. IsFiniteSet(files')
      BY <3>1, FS_AddElement DEF FilesInv
    <3>3. \A f, g \in files' : f.name = g.name => f = g
      BY <3>1 DEF FilesInv
    <3> QED
      BY <2>1, <3>2, <3>3 DEF FilesInv
  <2> QED
    BY <2>2, <2>3
<1> QED
  BY <1>1, <1>2

(* A file that was recovered is never replaced or removed, by any call of  *)
(* any mode: uniquePath always finds a free name.                          *)
THEOREM FilesAreKept == Spec => NeverOverwritten
<1>1. Init => FilesInv
  BY FS_EmptySet DEF Init, InitWith, FilesInv, Nothing, File
<1>2. FilesInv /\ [Next]_vars => [files \subseteq files']_files
  <2> SUFFICES ASSUME FilesInv, Next PROVE files \subseteq files' \/ files' = files
    BY DEF vars, onDisk
  <2> QED
    BY StepFiles
<1> QED
  BY <1>1, <1>2, FilesKept, PTL DEF Spec, NeverOverwritten

-----------------------------------------------------------------------------
(* The options of the session are those it was started with, and only a    *)
(* new session and the end of one touch the index.                         *)
LEMMA StepOptions ==
  ASSUME Next
  PROVE  UNCHANGED options /\ (index' = index \/ StartNew \/ Finished)
<1> USE DEF onDisk, memory
<1>1. CASE StartNew \/ Resume \/ Cancel \/ WriteReport
  BY <1>1 DEF StartNew, Resume, Cancel, WriteReport
<1>2. CASE ReturnCancelled \/ Finished \/ Kill \/ Power
  BY <1>2 DEF ReturnCancelled, Finished, Kill, Power
<1>3. CASE OpenImage \/ ImageCancelled \/ ReadImage \/ WriteImage
  BY <1>3 DEF OpenImage, ImageCancelled, ReadImage, WriteImage
<1>4. CASE SyncImage \/ SaveImage \/ SyncImageFails \/ WriteImageFails
  BY <1>4 DEF SyncImage, SaveImage, SyncImageFails, WriteImageFails, Failed
<1>5. CASE OpenIndex \/ IndexMissing \/ DeepCancelled \/ SkipCandidate \/ CarveCandidate
  BY <1>5 DEF OpenIndex, IndexMissing, DeepCancelled, SkipCandidate, CarveCandidate
<1>6. CASE CopyFails \/ CopyDone \/ SaveDeep \/ CompleteDeep
  BY <1>6 DEF CopyFails, CopyDone, SaveDeep, CompleteDeep
<1>7. CASE OpenVolume \/ OpenPanics \/ ScanRecord \/ QuickCancelled \/ ListDeleted
  BY <1>7 DEF OpenVolume, OpenPanics, ScanRecord, QuickCancelled, ListDeleted
<1>8. CASE StartFile \/ CopyChunk \/ CopyStops \/ KeepFile \/ CompleteQuick \/ ReturnFailed
  BY <1>8 DEF StartFile, CopyChunk, CopyStops, KeepFile, CompleteQuick, ReturnFailed
<1> QED
  BY <1>1, <1>2, <1>3, <1>4, <1>5, <1>6, <1>7, <1>8 DEF Next, Call, ImageNext, DeepNext, QuickNext

(* The steps of a deep session.                                            *)
DeepStep == StartNew \/ Resume \/ DeepNext \/ WriteReport \/ ReturnCancelled \/ Finished
            \/ Cancel \/ Kill
LEMMA DeepSteps ==
  ASSUME Control, mode = "deep", Next
  PROVE  DeepStep
<1>1. ~ImageNext
  <2>1. ~(OpenImage \/ ImageCancelled \/ ReadImage \/ SyncImage \/ SyncImageFails)
    BY DEF OpenImage, ImageCancelled, ReadImage, SyncImage, SyncImageFails
  <2>2. ~(WriteImage \/ WriteImageFails \/ SaveImage)
    BY DEF WriteImage, WriteImageFails, SaveImage, Control
  <2> QED
    BY <2>1, <2>2 DEF ImageNext
<1>2. ~QuickNext
  <2>1. ~(OpenVolume \/ OpenPanics \/ QuickCancelled)
    BY DEF OpenVolume, OpenPanics, QuickCancelled
  <2>2. ~(ScanRecord \/ ListDeleted \/ StartFile \/ CopyChunk \/ CopyStops)
    BY DEF ScanRecord, ListDeleted, StartFile, CopyChunk, CopyStops, Control
  <2>3. ~(KeepFile \/ CompleteQuick \/ ReturnFailed)
    BY DEF KeepFile, CompleteQuick, ReturnFailed, Control
  <2> QED
    BY <2>1, <2>2, <2>3 DEF QuickNext
<1>3. ~Power
  BY DEF Power
<1> QED
  BY <1>1, <1>2, <1>3 DEF DeepStep, Next, Call

(* The index is the sorted candidates until a call that finishes removes   *)
(* it, which is after the session was saved as done.                       *)
Finishing == pc = "finished" \/ (pc \in {"report", "reportBody"} /\ next = "finished")
Extracting == pc \in {"deep", "deepCopy", "deepSave", "report", "reportBody", "cancelled",
                      "finished"}
IndexInv ==
  /\ given \in Seq(Cand)
  /\ index \in {NoIndex, SortCandidates(given)}
  /\ mode = "deep" =>
       /\ Extracting => index # NoIndex
       /\ index = NoIndex \/ Finishing => saved = NoSession \/ saved.done \/ "save" \in harm

LEMMA NoIndexIsNone ==
  ASSUME NEW file \in Seq(Cand)
  PROVE  SortCandidates(file) # NoIndex
<1> SUFFICES ASSUME NoIndex \in Seq(Cand) PROVE FALSE
  BY SortCandidatesIs
<1>1. NoIndex[1] \in Cand
  BY ElementOfSeq DEF NoIndex
<1>2. NoIndex[1] = [off |-> -1, kind |-> 0]
  BY DEF NoIndex
<1> QED
  BY <1>1, <1>2 DEF Cand

LEMMA InitIndex == Init => IndexInv
<1> SUFFICES ASSUME Init PROVE IndexInv
  OBVIOUS
<1>1. pc = "idle" /\ index = NoIndex /\ saved = NoSession /\ next = "idle"
  BY DEF Init, InitWith
<1>2. given \in Seq(Cand)
  BY SourcesAssumption DEF Init, InitWith, Cand
<1> QED
  BY <1>1, <1>2 DEF IndexInv, Extracting, Finishing

(* The counts of a deep session: no more candidates are done than there    *)
(* are, a call that does not resume starts with the first, and what is     *)
(* copied is the file the carver found at the candidate before the next.   *)
All == SortCandidates(given)
Sessions ==
  [phase : {"none", "created", "extracting", "completed"}, processed : 0 .. Len(All),
   found : Nat, path : BOOLEAN, done : BOOLEAN]
CountsInv ==
  mode = "deep" =>
    /\ sess \in Sessions /\ saved \in Sessions
    /\ at \in Nat /\ found \in Nat /\ skip \in Nat /\ resumes \in Nat /\ crashes \in Nat
    /\ resumes = 0 /\ pc = "open" => sess.processed = 0
    /\ pc \in {"idle", "open"} => skip = 0
    /\ Extracting => at <= Len(All)
    /\ pc = "deepCopy" => at >= 1 /\ current.body = Body(All[at]) /\ WorthCarving(All[at])

LEMMA AllIs ==
  ASSUME IndexInv
  PROVE  /\ given \in Seq(Cand) /\ All \in Seq(Cand) /\ Len(All) \in Nat
         /\ All \in [1 .. Len(All) -> Cand]
         /\ Elements(All) = Elements(given) /\ Ascending(All)
         /\ mode = "deep" /\ Extracting => index = All
<1>1. given \in Seq(Cand)
  BY DEF IndexInv
<1>2. All \in Seq(Cand) /\ Elements(All) = Elements(given) /\ Ascending(All)
  BY <1>1, SortCandidatesIs DEF All
<1> QED
  BY <1>1, <1>2, LenProperties DEF IndexInv, All

LEMMA BodyIs ==
  ASSUME NEW c, c.off \in 0 .. RangeEnd - 1
  PROVE  Carved[c.off] \in Nat /\ Len(Body(c)) = Carved[c.off]
<1>1. Carved[c.off] \in Nat
  BY ExtractAssumption
<1> QED
  BY <1>1 DEF Body

LEMMA SessionsHave ==
  ASSUME Len(All) \in Nat
  PROVE  /\ NoSession \in Sessions /\ NewSession \in Sessions /\ NewSession.processed = 0
         /\ \A s \in Sessions, n \in 0 .. Len(All), m \in Nat :
              /\ [s EXCEPT !.phase = "extracting", !.processed = n, !.found = m] \in Sessions
              /\ [s EXCEPT !.phase = "completed", !.processed = n, !.found = m, !.done = TRUE]
                   \in Sessions
<1>1. NoSession \in Sessions
  BY DEF NoSession, Sessions
<1>2. NewSession \in Sessions
  BY <1>1 DEF NewSession, Sessions
<1>3. NewSession.processed = 0
  BY DEF NewSession, NoSession
<1>4. ASSUME NEW s \in Sessions, NEW n \in 0 .. Len(All), NEW m \in Nat
      PROVE  [s EXCEPT !.phase = "extracting", !.processed = n, !.found = m] \in Sessions
  BY DEF Sessions
<1>5. ASSUME NEW s \in Sessions, NEW n \in 0 .. Len(All), NEW m \in Nat
      PROVE  [s EXCEPT !.phase = "completed", !.processed = n, !.found = m, !.done = TRUE]
               \in Sessions
  BY DEF Sessions
<1> QED
  BY <1>1, <1>2, <1>3, <1>4, <1>5

LEMMA InitCounts == Init => CountsInv
<1> SUFFICES ASSUME Init, mode = "deep" PROVE CountsInv
  BY DEF CountsInv
<1>1. Len(All) \in Nat
  BY InitIndex, AllIs
<1>2. /\ sess = NoSession /\ saved = NoSession /\ at = 0 /\ found = 0 /\ skip = 0
      /\ resumes = 0 /\ crashes = 0 /\ pc = "idle"
  BY DEF Init, InitWith
<1>3. NoSession \in Sessions
  BY <1>1 DEF NoSession, Sessions
<1> QED
  BY <1>2, <1>3 DEF CountsInv, Extracting

LEMMA CountsKept ==
  ASSUME Control, IndexInv, CountsInv, [Next]_vars
  PROVE  CountsInv'
<1>1. CASE UNCHANGED vars
  BY <1>1 DEF vars, onDisk, memory, history, options, CountsInv, Extracting, Sessions, All,
     WorthCarving
<1>2. CASE Next
  <2> SUFFICES ASSUME mode' = "deep" PROVE CountsInv'
    BY DEF CountsInv
  <2>0. UNCHANGED <<mode, given>> /\ All' = All /\ Sessions' = Sessions /\ mode = "deep"
    BY <1>2, StepOptions DEF options, All, Sessions
  <2>a. /\ sess \in Sessions /\ saved \in Sessions
        /\ at \in Nat /\ found \in Nat /\ skip \in Nat /\ resumes \in Nat /\ crashes \in Nat
        /\ resumes = 0 /\ pc = "open" => sess.processed = 0
        /\ pc \in {"idle", "open"} => skip = 0
        /\ Extracting => at <= Len(All)
        /\ pc = "deepCopy" => at >= 1 /\ current.body = Body(All[at]) /\ WorthCarving(All[at])
    BY <2>0 DEF CountsInv
  <2>b. /\ Len(All) \in Nat /\ All \in [1 .. Len(All) -> Cand] /\ (Extracting => index = All)
    BY <2>0, AllIs
  <2>c. /\ NoSession \in Sessions /\ NewSession \in Sessions /\ NewSession.processed = 0
        /\ \A s \in Sessions : s.processed \in 0 .. Len(All) /\ s.found \in Nat
    <3>1. \A s \in Sessions : s.processed \in 0 .. Len(All) /\ s.found \in Nat
      BY DEF Sessions
    <3> QED
      BY <2>b, <3>1, SessionsHave
  <2> SUFFICES
        /\ sess' \in Sessions /\ saved' \in Sessions
        /\ at' \in Nat /\ found' \in Nat /\ skip' \in Nat /\ resumes' \in Nat /\ crashes' \in Nat
        /\ resumes' = 0 /\ pc' = "open" => sess'.processed = 0
        /\ pc' \in {"idle", "open"} => skip' = 0
        /\ Extracting' => at' <= Len(All)
        /\ pc' = "deepCopy" => at' >= 1 /\ current'.body = Body(All[at']) /\ WorthCarving(All[at])'
    BY <2>0 DEF CountsInv
  <2> HIDE DEF All, Sessions
  <2>d. Forget => /\ sess' = NoSession /\ at' = 0 /\ found' = 0 /\ skip' = 0 /\ pc' = "idle"
                  /\ ~Extracting'
    BY DEF Forget, Extracting
  <2>1. CASE StartNew
    <3>1. /\ pc' = "open" /\ pc = "idle" /\ sess' = NewSession /\ saved' = NewSession
          /\ UNCHANGED <<at, found, skip, resumes, crashes>>
      BY <2>1 DEF StartNew, Goto, history
    <3> QED
      BY <3>1, <2>a, <2>b, <2>c DEF Extracting
  <2>2. CASE Resume
    <3>1. /\ pc' = "open" /\ pc = "idle" /\ sess' = saved /\ resumes' = resumes + 1
          /\ UNCHANGED <<saved, at, found, skip, crashes>>
      BY <2>2 DEF Resume, Goto, onDisk
    <3> QED
      BY <3>1, <2>a, <2>b, <2>c DEF Extracting
  <2>3. CASE OpenIndex
    <3>1. /\ pc' = "deep" /\ at' = Least(sess.processed, Len(index)) /\ found' = sess.found
          /\ index # NoIndex
          /\ UNCHANGED <<sess, saved, skip, resumes, crashes>>
      BY <2>3 DEF OpenIndex, Goto, onDisk, history
    <3>2. index = All
      BY <3>1 DEF IndexInv, All
    <3>3. at' \in 0 .. Len(All)
      BY <3>1, <3>2, <2>a, <2>b, <2>c DEF Least
    <3> QED
      BY <3>1, <3>3, <2>a, <2>b, <2>c
  <2>4. CASE IndexMissing \/ ReturnCancelled \/ Finished
    <3>1. Forget /\ UNCHANGED <<saved, resumes, crashes>>
      BY <2>4 DEF IndexMissing, ReturnCancelled, Finished, Return, onDisk
    <3> QED
      BY <3>1, <2>a, <2>c, <2>d
  <2>5. CASE Kill
    <3>1. Forget /\ UNCHANGED <<saved, resumes>> /\ crashes' = crashes + 1
      BY <2>5 DEF Kill, Return
    <3> QED
      BY <3>1, <2>a, <2>c, <2>d
  <2>6. CASE DeepCancelled \/ Cancel
    <3>1. /\ UNCHANGED <<sess, saved, at, found, skip, resumes, crashes, current, index>>
          /\ \/ pc' = pc
             \/ pc = "deep" /\ pc' = "report"
      BY <2>6 DEF DeepCancelled, Cancel, memory, onDisk, history, Goto
    <3> QED
      BY <3>1, <2>0, <2>a, <2>b DEF Extracting, WorthCarving
  <2>7. CASE SkipCandidate
    <3>1. /\ pc = "deep" /\ at < Len(index) /\ at' = at + 1 /\ pc' = pc
          /\ UNCHANGED <<sess, saved, found, skip, resumes, crashes>>
      BY <2>7 DEF SkipCandidate, onDisk, history
    <3> QED
      BY <3>1, <2>a, <2>b DEF Extracting
  <2>8. CASE CarveCandidate
    <3>1. /\ pc = "deep" /\ at < Len(index) /\ at' = at + 1 /\ pc' = "deepCopy"
          /\ UNCHANGED <<sess, saved, found, skip, resumes, crashes>>
          /\ current' = [Nothing EXCEPT !.body = Body(Candidate)]
          /\ WorthCarving(Candidate)
      BY <2>8 DEF CarveCandidate, onDisk, history, Goto
    <3>2. Candidate = All[at'] /\ at' <= Len(All)
      BY <3>1, <2>a, <2>b DEF Candidate, Extracting
    <3>3. current'.body = Body(All[at']) /\ WorthCarving(All[at'])
      BY <3>1, <3>2 DEF Nothing
    <3>4. WorthCarving(All[at])'
      BY <3>3, <3>1, <2>0 DEF WorthCarving
    <3> QED
      BY <3>1, <3>2, <3>3, <3>4, <2>a
  <2>9. CASE CopyFails
    <3>1. /\ pc = "deepCopy" /\ pc' = "deep"
          /\ UNCHANGED <<sess, saved, at, found, skip, resumes, crashes>>
      BY <2>9 DEF CopyFails, onDisk, Goto
    <3> QED
      BY <3>1, <2>a DEF Extracting
  <2>10. CASE CopyDone
    <3>1. /\ pc = "deepCopy" /\ pc' \in {"deep", "deepSave"}
          /\ skip' = Greatest(skip, index[at].off + Len(current.body))
          /\ sess' = [sess EXCEPT !.phase = "extracting", !.processed = at, !.found = found']
          /\ UNCHANGED <<saved, at, resumes, crashes>>
          /\ found' \in {found, found + 1}
      BY <2>10 DEF CopyDone, Goto, history, Processed, Keep
    <3>2. at \in 1 .. Len(All) /\ index = All /\ All[at] \in Cand /\ WorthCarving(All[at])
      BY <3>1, <2>a, <2>b DEF Extracting
    <3>3. Len(current.body) \in Nat
      BY <3>1, <3>2, <2>a, BodyIs DEF WorthCarving
    <3>4. skip' \in Nat
      BY <3>1, <3>2, <3>3, <2>a DEF Greatest, Cand
    <3>5. sess' \in Sessions
      <4>1. at \in 0 .. Len(All) /\ found' \in Nat
        BY <3>1, <3>2, <2>a, <2>b
      <4>2. [sess EXCEPT !.phase = "extracting", !.processed = at, !.found = found'] \in Sessions
        BY <4>1, <2>a, <2>b, SessionsHave
      <4> QED
        BY <4>2, <3>1
    <3>6. found' \in Nat
      BY <3>1, <2>a
    <3> QED
      BY <3>1, <3>2, <3>4, <3>5, <3>6, <2>a
  <2>11. CASE SaveDeep
    <3>1. /\ pc = "deepSave" /\ pc' = "report" /\ saved' \in {saved, sess}
          /\ UNCHANGED <<sess, at, found, skip, resumes, crashes>>
      BY <2>11 DEF SaveDeep, SaveSession, memory, Goto
    <3> QED
      BY <3>1, <2>a DEF Extracting
  <2>12. CASE CompleteDeep
    <3>1. /\ pc = "deep" /\ pc' = "report" /\ saved' \in {saved, sess'}
          /\ sess' = [sess EXCEPT !.phase = "completed", !.processed = Len(index),
                                  !.found = found, !.done = TRUE]
          /\ UNCHANGED <<at, found, skip, resumes, crashes>>
      BY <2>12 DEF CompleteDeep, SaveSession, Goto
    <3>2. index = All
      BY <3>1, <2>b DEF Extracting
    <3>3. sess' \in Sessions
      <4>1. Len(All) \in 0 .. Len(All)
        BY <2>b
      <4> QED
        BY <3>1, <3>2, <4>1, <2>a, <2>b, SessionsHave
    <3> QED
      BY <3>1, <3>3, <2>a DEF Extracting
  <2>13. CASE WriteReport
    <3>1. /\ pc \in {"report", "reportBody"} /\ pc' \in {"reportBody", next}
          /\ UNCHANGED <<sess, saved, at, found, skip, resumes, crashes>>
      BY <2>13 DEF WriteReport, memory, Goto
    <3>2. pc' \in {"reportBody", "deep", "cancelled", "finished"} /\ Extracting
      BY <3>1, <2>0 DEF Control, Extracting
    <3> QED
      BY <3>1, <3>2, <2>a
  <2>14. DeepStep
    BY <1>2, <2>0, DeepSteps
  <2> QED
    BY <2>1, <2>2, <2>3, <2>4, <2>5, <2>6, <2>7, <2>8, <2>9, <2>10, <2>11, <2>12, <2>13, <2>14
       DEF DeepStep, DeepNext
<1> QED
  BY <1>1, <1>2

LEMMA IndexKept ==
  ASSUME Control, IndexInv, CountsInv, [Next]_vars
  PROVE  IndexInv'
<1>1. CASE UNCHANGED vars
  BY <1>1 DEF vars, onDisk, memory, history, options, IndexInv, Extracting, Finishing
<1>2. CASE Next
  <2>0. UNCHANGED <<mode, given>> /\ (index' = index \/ StartNew \/ Finished)
    BY <1>2, StepOptions DEF options
  <2>1. given' \in Seq(Cand) /\ index' \in {NoIndex, SortCandidates(given')}
    <3>1. CASE index' = index
      BY <2>0, <3>1 DEF IndexInv
    <3>2. CASE StartNew
      BY <2>0, <3>2 DEF IndexInv, StartNew
    <3>3. CASE Finished
      BY <2>0, <3>3 DEF IndexInv, Finished
    <3> QED
      BY <2>0, <3>1, <3>2, <3>3
  <2>2. ASSUME mode = "deep"
        PROVE  /\ Extracting' => index' # NoIndex
               /\ index' = NoIndex \/ Finishing' =>
                    saved' = NoSession \/ saved'.done \/ "save" \in harm'
    <3>0. /\ Extracting => index # NoIndex
          /\ index = NoIndex \/ Finishing => saved = NoSession \/ saved.done \/ "save" \in harm
      BY <2>2 DEF IndexInv
    <3> USE DEF Extracting, Finishing, Goto
    <3>1. CASE StartNew
      <4>1. index' = SortCandidates(given) /\ pc' = "open"
        BY <2>2, <3>1 DEF StartNew
      <4>2. index' # NoIndex
        BY <4>1, NoIndexIsNone DEF IndexInv
      <4> QED
        BY <4>1, <4>2
    <3>2. CASE Resume
      <4>1. pc' = "open" /\ UNCHANGED <<index, saved, harm>>
        BY <3>2 DEF Resume, onDisk
      <4> QED
        BY <4>1, <3>0
    <3>3. CASE OpenIndex
      <4>1. pc' = "deep" /\ index # NoIndex /\ UNCHANGED <<index, saved, harm>>
        BY <3>3 DEF OpenIndex, onDisk, history
      <4> QED
        BY <4>1, <3>0
    <3>4. CASE IndexMissing
      <4>1. pc' = "idle" /\ UNCHANGED <<index, saved, harm>>
        BY <3>4 DEF IndexMissing, Return, Forget, onDisk
      <4> QED
        BY <4>1, <3>0
    <3>5. CASE DeepCancelled
      <4>1. pc = "deep" /\ pc' = "report" /\ next' = "cancelled" /\ UNCHANGED <<index, saved, harm>>
        BY <3>5 DEF DeepCancelled, onDisk, history
      <4> QED
        BY <4>1, <3>0
    <3>6. CASE SkipCandidate \/ CarveCandidate
      <4>1. pc = "deep" /\ pc' \in {"deep", "deepCopy"} /\ UNCHANGED <<index, saved, harm>>
        BY <3>6 DEF SkipCandidate, CarveCandidate, onDisk, history
      <4> QED
        BY <4>1, <3>0
    <3>7. CASE CopyFails \/ CopyDone
      <4>1. pc = "deepCopy" /\ pc' \in {"deep", "deepSave"} /\ UNCHANGED index
        BY <3>7 DEF CopyFails, CopyDone, onDisk
      <4> QED
        BY <4>1, <3>0
    <3>8. CASE SaveDeep
      <4>1. pc = "deepSave" /\ pc' = "report" /\ next' = "deep" /\ UNCHANGED index
        BY <3>8 DEF SaveDeep
      <4> QED
        BY <4>1, <3>0
    <3>9. CASE CompleteDeep
      <4>1. pc = "deep" /\ UNCHANGED index /\ (saved' = sess' \/ "save" \in harm')
        BY <3>9 DEF CompleteDeep, SaveSession
      <4>2. sess'.done
        BY <3>9, <2>2 DEF CompleteDeep, CountsInv, Sessions
      <4> QED
        BY <4>1, <4>2, <3>0
    <3>10. CASE WriteReport
      <4>1. /\ pc \in {"report", "reportBody"} /\ pc' \in {"reportBody", next}
            /\ UNCHANGED <<index, saved, next>> /\ harm \subseteq harm'
        BY <3>10 DEF WriteReport
      <4>2. Extracting /\ index' # NoIndex
        BY <4>1, <3>0
      <4>3. Finishing' => Finishing
        BY <4>1, <2>2 DEF Control
      <4> QED
        BY <4>1, <4>2, <4>3, <3>0
    <3>11. CASE ReturnCancelled
      <4>1. pc' = "idle" /\ UNCHANGED <<index, saved, harm>>
        BY <3>11 DEF ReturnCancelled, Return, Forget, onDisk
      <4> QED
        BY <4>1, <3>0
    <3>12. CASE Finished
      <4>1. pc = "finished" /\ pc' = "idle" /\ UNCHANGED <<saved, harm>>
        BY <3>12 DEF Finished, Return, Forget
      <4> QED
        BY <4>1, <3>0
    <3>13. CASE Cancel
      <4>1. UNCHANGED <<pc, next, index, saved, harm>>
        BY <3>13 DEF Cancel, onDisk, history
      <4> QED
        BY <4>1, <3>0
    <3>14. CASE Kill
      <4>1. pc' = "idle" /\ UNCHANGED <<index, saved>> /\ harm \subseteq harm'
        BY <3>14 DEF Kill, Return, Forget
      <4> QED
        BY <4>1, <3>0
    <3>15. DeepStep
      BY <1>2, <2>2, DeepSteps
    <3> QED
      BY <3>1, <3>2, <3>3, <3>4, <3>5, <3>6, <3>7, <3>8, <3>9, <3>10, <3>11, <3>12, <3>13,
         <3>14, <3>15 DEF DeepStep, DeepNext
  <2> QED
    BY <2>0, <2>1, <2>2 DEF IndexInv
<1> QED
  BY <1>1, <1>2

(* These hold throughout.                                                  *)
LEMMA ControlHolds == Spec => [](Control /\ IndexInv /\ CountsInv)
<1>1. Control /\ IndexInv /\ CountsInv /\ [Next]_vars => (Control /\ IndexInv /\ CountsInv)'
  BY NextControl, IndexKept, CountsKept
<1> QED
  BY <1>1, InitControl, InitIndex, InitCounts, PTL DEF Spec

(* The index has every candidate of the scan once, in the order of the     *)
(* extraction, however the file was cut into chunks.                       *)
THEOREM IndexIsExact == Spec => []IndexExact
<1>1. IndexInv => IndexExact
  <2> SUFFICES ASSUME IndexInv, index # NoIndex
               PROVE  /\ Elements(index) = Elements(given)
                      /\ \A i, j \in DOMAIN index : i < j => Before(index[i], index[j])
    BY DEF IndexExact
  <2>1. index = SortCandidates(given) /\ given \in Seq(Cand)
    BY DEF IndexInv
  <2> QED
    BY <2>1, SortCandidatesIs DEF Ascending
<1> QED
  BY <1>1, ControlHolds, PTL

(* A session that was interrupted finds the index it goes on with: it is   *)
(* removed only after the session was saved as done.                       *)
THEOREM SessionKeepsIndex == Spec => []SessionHasIndex
<1>1. IndexInv => SessionHasIndex
  BY DEF IndexInv, SessionHasIndex
<1> QED
  BY <1>1, ControlHolds, PTL

-----------------------------------------------------------------------------
(* What a list of recovered files says is so: there is a file with the name*)
(* and the contents of each item that is no duplicate, a duplicate has the *)
(* name of such an item, and with SkipDuplicates no two of them have the   *)
(* same contents.                                                          *)
Bodies == {Body(c) : c \in [off : 0 .. RangeEnd - 1, kind : Nat]}
Item == [name : (Nat \X Nat) \X Nat, body : Bodies, dup : BOOLEAN]
ListInv(items, stored) ==
  /\ items \in Seq(Item)
  /\ \A i \in DOMAIN items :
       /\ \E k \in DOMAIN items : ~items[k].dup /\ items[k].name = items[i].name
       /\ ~items[i].dup =>
            \E f \in stored : f.name = items[i].name /\ f.body = items[i].body
  /\ SkipDuplicates =>
       \A i, k \in DOMAIN items :
         ~items[i].dup /\ ~items[k].dup /\ items[i].body = items[k].body => i = k
ListsInv ==
  mode = "deep" =>
    /\ ListInv(recovered, files) /\ ListInv(report.items, files)
    /\ report.state \in {"none", "ok", "torn"}
    /\ report.state = "none" => report.items = <<>>

(* An empty list says nothing, and a list stays true when a file is added. *)
LEMMA NothingListed ==
  ASSUME NEW stored
  PROVE  ListInv(<<>>, stored)
BY DEF ListInv

LEMMA ListKept ==
  ASSUME NEW items, NEW stored, NEW more, ListInv(items, stored), stored \subseteq more
  PROVE  ListInv(items, more)
BY DEF ListInv

(* What an item more is.                                                   *)
LEMMA AppendIs ==
  ASSUME NEW R, NEW items \in Seq(R), NEW x \in R
  PROVE  /\ Append(items, x) \in Seq(R)
         /\ DOMAIN items = 1 .. Len(items) /\ Len(items) \in Nat
         /\ DOMAIN Append(items, x) = 1 .. Len(items) + 1
         /\ \A i \in DOMAIN items : Append(items, x)[i] = items[i]
         /\ Append(items, x)[Len(items) + 1] = x
<1>1. Append(items, x) \in Seq(R) /\ Len(Append(items, x)) = Len(items) + 1
      /\ \A i \in 1 .. Len(items) : Append(items, x)[i] = items[i]
      /\ Append(items, x)[Len(items) + 1] = x
  BY AppendProperties
<1> QED
  BY <1>1, LenProperties

(* A recovered file is listed, and no other item has its contents.         *)
LEMMA ListFile ==
  ASSUME NEW items, NEW stored, NEW more, ListInv(items, stored), stored \subseteq more,
         NEW x \in Item, ~x.dup, NEW f \in more, f.name = x.name, f.body = x.body,
         SkipDuplicates => \A i \in DOMAIN items : items[i].body = x.body => items[i].dup
  PROVE  ListInv(Append(items, x), more)
<1> DEFINE longer == Append(items, x)
           last == Len(items) + 1
<1>1. /\ longer \in Seq(Item) /\ DOMAIN items = 1 .. Len(items) /\ Len(items) \in Nat
      /\ DOMAIN longer = 1 .. last
      /\ \A i \in DOMAIN items : longer[i] = items[i]
      /\ longer[last] = x
  <2>1. items \in Seq(Item)
    BY DEF ListInv
  <2> QED
    BY <2>1, AppendIs
<1>2. DOMAIN longer = DOMAIN items \cup {last} /\ last \notin DOMAIN items
  BY <1>1
<1> HIDE DEF longer, last
<1>3. ASSUME NEW i \in DOMAIN longer
      PROVE  /\ \E k \in DOMAIN longer : ~longer[k].dup /\ longer[k].name = longer[i].name
             /\ ~longer[i].dup => \E g \in more : g.name = longer[i].name
                                                  /\ g.body = longer[i].body
  <2>1. CASE i = last
    BY <1>1, <1>2, <2>1
  <2>2. CASE i \in DOMAIN items
    <3>1. PICK k \in DOMAIN items : ~items[k].dup /\ items[k].name = items[i].name
      BY <2>2 DEF ListInv
    <3>2. ~items[i].dup => \E g \in more : g.name = items[i].name /\ g.body = items[i].body
      BY <2>2 DEF ListInv
    <3> QED
      BY <1>1, <1>2, <2>2, <3>1, <3>2
  <2> QED
    BY <1>2, <2>1, <2>2
<1>4. ASSUME SkipDuplicates, NEW i \in DOMAIN longer, NEW k \in DOMAIN longer,
             ~longer[i].dup, ~longer[k].dup, longer[i].body = longer[k].body
      PROVE  i = k
  <2>1. CASE i \in DOMAIN items /\ k \in DOMAIN items
    BY <1>1, <1>4, <2>1 DEF ListInv
  <2>2. CASE i = last \/ k = last
    BY <1>1, <1>2, <1>4, <2>2
  <2> QED
    BY <1>2, <2>1, <2>2
<1> QED
  BY <1>1, <1>3, <1>4 DEF ListInv, longer

(* A duplicate is listed under the name of the file it repeats.            *)
LEMMA ListDuplicate ==
  ASSUME NEW items, NEW stored, ListInv(items, stored), NEW x \in Item, x.dup,
         NEW k \in DOMAIN items, ~items[k].dup, items[k].name = x.name
  PROVE  ListInv(Append(items, x), stored)
<1> DEFINE longer == Append(items, x)
           last == Len(items) + 1
<1>1. /\ longer \in Seq(Item) /\ DOMAIN items = 1 .. Len(items) /\ Len(items) \in Nat
      /\ DOMAIN longer = 1 .. last
      /\ \A i \in DOMAIN items : longer[i] = items[i]
      /\ longer[last] = x
  <2>1. items \in Seq(Item)
    BY DEF ListInv
  <2> QED
    BY <2>1, AppendIs
<1>2. DOMAIN longer = DOMAIN items \cup {last} /\ last \notin DOMAIN items
  BY <1>1
<1> HIDE DEF longer, last
<1>3. ASSUME NEW i \in DOMAIN longer
      PROVE  /\ \E j \in DOMAIN longer : ~longer[j].dup /\ longer[j].name = longer[i].name
             /\ ~longer[i].dup => \E g \in stored : g.name = longer[i].name
                                                    /\ g.body = longer[i].body
  <2>1. CASE i = last
    BY <1>1, <1>2, <2>1
  <2>2. CASE i \in DOMAIN items
    <3>1. PICK j \in DOMAIN items : ~items[j].dup /\ items[j].name = items[i].name
      BY <2>2 DEF ListInv
    <3>2. ~items[i].dup => \E g \in stored : g.name = items[i].name /\ g.body = items[i].body
      BY <2>2 DEF ListInv
    <3> QED
      BY <1>1, <1>2, <2>2, <3>1, <3>2
  <2> QED
    BY <1>2, <2>1, <2>2
<1>4. ASSUME SkipDuplicates, NEW i \in DOMAIN longer, NEW j \in DOMAIN longer,
             ~longer[i].dup, ~longer[j].dup, longer[i].body = longer[j].body
      PROVE  i = j
  <2>1. i \in DOMAIN items /\ j \in DOMAIN items
    BY <1>1, <1>2, <1>4
  <2> QED
    BY <1>1, <1>4, <2>1 DEF ListInv
<1> QED
  BY <1>1, <1>3, <1>4 DEF ListInv, longer

(* What the end of a copy does: the file is stored and listed, or listed   *)
(* as a duplicate of one that is.                                          *)
LEMMA CopyDoneIs ==
  ASSUME FilesInv, IndexInv, CountsInv, ListsInv, mode = "deep", CopyDone
  PROVE  \/ /\ files' = files
            /\ \E x \in Item, k \in DOMAIN recovered :
                 /\ recovered' = Append(recovered, x)
                 /\ x.dup /\ x.body = current.body
                 /\ ~recovered[k].dup /\ recovered[k].name = x.name /\ recovered[k].body = x.body
         \/ \E x \in Item, f \in files' :
              /\ files' = files \cup {f} /\ recovered' = Append(recovered, x)
              /\ ~x.dup /\ x.body = current.body /\ f.name = x.name /\ f.body = x.body
              /\ SkipDuplicates =>
                   \A i \in DOMAIN recovered : recovered[i].body = x.body => recovered[i].dup
<1> DEFINE c == All[at]
           file == [current EXCEPT !.name = UniquePath(<<found + 1, c.off>>)]
<1>1. /\ pc = "deepCopy" /\ index = All /\ at \in Nat /\ at >= 1 /\ at <= Len(All)
      /\ found \in Nat /\ current.body = Body(c) /\ WorthCarving(c)
  <2>1. pc = "deepCopy"
    BY DEF CopyDone
  <2> QED
    BY <2>1, AllIs DEF CountsInv, Extracting
<1>2. c \in Cand /\ c.off \in 0 .. RangeEnd - 1
  BY <1>1, AllIs DEF WorthCarving
<1>3. current.body \in Bodies
  <2>1. c \in [off : 0 .. RangeEnd - 1, kind : Nat]
    BY <1>2 DEF Cand
  <2> HIDE DEF c
  <2> QED
    BY <1>1, <2>1 DEF Bodies
<1>4. /\ file.name = UniquePath(<<found + 1, c.off>>) /\ file.body = current.body
      /\ \A f \in files : f.name # file.name
      /\ \E n \in Nat : file.name = <<<<found + 1, c.off>>, n>>
  BY UniquePathIsFree DEF FilesInv, File
<1>5. file.name \in (Nat \X Nat) \X Nat
  BY <1>1, <1>2, <1>4 DEF Cand
<1>6. Keep(file)
  BY <1>1 DEF CopyDone
<1> HIDE DEF file, c
<1>7. CASE Duplicate(file.body)
  <2> DEFINE known == CHOOSE i \in Known(file.body) : TRUE
             x == [name |-> recovered[known].name, body |-> file.body, dup |-> TRUE]
  <2>1. files' = files /\ recovered' = Append(recovered, x)
    BY <1>6, <1>7 DEF Keep
  <2>2. known \in Known(file.body)
    BY <1>7 DEF Duplicate
  <2> HIDE DEF known
  <2>3. /\ known \in DOMAIN recovered /\ recovered[known].body = file.body
        /\ ~recovered[known].dup
    BY <2>2 DEF Known
  <2>4. recovered[known] \in Item
    BY <2>3, ElementOfSeq, LenProperties DEF ListsInv, ListInv
  <2>5. recovered[known].name \in (Nat \X Nat) \X Nat
    BY <2>4 DEF Item
  <2>6. x \in Item
    BY <1>3, <1>4, <2>5 DEF Item
  <2>7. x.dup /\ x.body = current.body /\ recovered[known].name = x.name
        /\ recovered[known].body = x.body
    BY <1>4, <2>3
  <2> HIDE DEF x
  <2> QED
    BY <2>1, <2>3, <2>6, <2>7
<1>8. CASE ~Duplicate(file.body)
  <2> DEFINE x == [name |-> file.name, body |-> file.body, dup |-> FALSE]
  <2>1. files' = files \cup {file}
    BY <1>4, <1>6, <1>8, KeepAdds
  <2>2. recovered' = Append(recovered, x)
    BY <1>6, <1>8 DEF Keep
  <2>3. SkipDuplicates =>
          \A i \in DOMAIN recovered : recovered[i].body = file.body => recovered[i].dup
    BY <1>8 DEF Duplicate, Known
  <2>4. x \in Item
    BY <1>3, <1>4, <1>5 DEF Item
  <2>5. ~x.dup /\ x.body = current.body /\ file.name = x.name /\ file.body = x.body
    BY <1>4
  <2> HIDE DEF x
  <2> QED
    BY <2>1, <2>2, <2>3, <2>4, <2>5
<1> QED
  BY <1>7, <1>8

LEMMA InitLists == Init => ListsInv
BY NothingListed DEF Init, InitWith, ListsInv, NoReport

LEMMA ListsKept ==
  ASSUME Control, FilesInv, IndexInv, CountsInv, ListsInv, [Next]_vars
  PROVE  ListsInv'
<1>1. CASE UNCHANGED vars
  BY <1>1 DEF vars, onDisk, memory, options, ListsInv
<1>2. CASE Next
  <2> SUFFICES ASSUME mode' = "deep" PROVE ListsInv'
    BY DEF ListsInv
  <2>0. mode = "deep" /\ mode' = "deep"
    BY <1>2, StepOptions DEF options
  <2>a. /\ ListInv(recovered, files) /\ ListInv(report.items, files)
        /\ report.state \in {"none", "ok", "torn"}
        /\ report.state = "none" => report.items = <<>>
    BY <2>0 DEF ListsInv
  <2>b. ListInv(<<>>, files)
    BY NothingListed
  <2>1. CASE StartNew \/ Resume \/ Cancel
    <3>1. UNCHANGED <<recovered, files, report>>
      BY <2>1 DEF StartNew, Resume, Cancel, onDisk, memory
    <3> QED
      BY <2>0, <2>a, <3>1 DEF ListsInv
  <2>2. CASE DeepCancelled \/ SkipCandidate \/ CarveCandidate \/ CopyFails \/ SaveDeep
             \/ CompleteDeep
    <3>1. UNCHANGED <<recovered, files, report>>
      BY <2>2 DEF DeepCancelled, SkipCandidate, CarveCandidate, CopyFails, SaveDeep,
         CompleteDeep, onDisk, memory
    <3> QED
      BY <2>0, <2>a, <3>1 DEF ListsInv
  <2>3. CASE IndexMissing \/ ReturnCancelled \/ Finished \/ Kill
    <3>1. UNCHANGED <<files, report>> /\ recovered' = <<>>
      BY <2>3 DEF IndexMissing, ReturnCancelled, Finished, Kill, Return, Forget, onDisk
    <3> QED
      BY <2>0, <2>a, <2>b, <3>1 DEF ListsInv
  <2>4. CASE OpenIndex
    <3>1. UNCHANGED <<files, report>> /\ recovered' \in {<<>>, report.items}
      BY <2>4 DEF OpenIndex, LoadPrevious, onDisk
    <3> QED
      BY <2>0, <2>a, <2>b, <3>1 DEF ListsInv
  <2>5. CASE WriteReport
    <3>1. /\ UNCHANGED <<files, recovered>>
          /\ report' \in {report, Torn, [state |-> "ok", items |-> recovered]}
      BY <2>5 DEF WriteReport, memory
    <3> QED
      BY <2>0, <2>a, <2>b, <3>1 DEF ListsInv, Torn
  <2>6. CASE CopyDone
    <3>1. report' = report
      BY <2>6 DEF CopyDone
    <3>2. CASE files' = files /\ \E x \in Item, k \in DOMAIN recovered :
                 /\ recovered' = Append(recovered, x)
                 /\ x.dup /\ x.body = current.body
                 /\ ~recovered[k].dup /\ recovered[k].name = x.name /\ recovered[k].body = x.body
      <4>1. ListInv(recovered', files)
        BY <2>a, <3>2, ListDuplicate
      <4> QED
        BY <2>0, <2>a, <3>1, <3>2, <4>1 DEF ListsInv
    <3>3. CASE \E x \in Item, f \in files' :
              /\ files' = files \cup {f} /\ recovered' = Append(recovered, x)
              /\ ~x.dup /\ x.body = current.body /\ f.name = x.name /\ f.body = x.body
              /\ SkipDuplicates =>
                   \A i \in DOMAIN recovered : recovered[i].body = x.body => recovered[i].dup
      <4>1. PICK x \in Item, f \in files' :
              /\ files' = files \cup {f} /\ recovered' = Append(recovered, x)
              /\ ~x.dup /\ x.body = current.body /\ f.name = x.name /\ f.body = x.body
              /\ SkipDuplicates =>
                   \A i \in DOMAIN recovered : recovered[i].body = x.body => recovered[i].dup
        BY <3>3
      <4>2. f \in files' /\ files \subseteq files'
        BY <4>1
      <4>3. ListInv(Append(recovered, x), files')
        BY <2>a, <4>1, <4>2, ListFile
      <4>4. ListInv(report.items, files')
        BY <2>a, <4>2, ListKept
      <4> QED
        BY <2>0, <2>a, <3>1, <4>1, <4>3, <4>4 DEF ListsInv
    <3> QED
      BY <2>0, <2>6, <3>2, <3>3, CopyDoneIs
  <2>7. DeepStep
    BY <1>2, <2>0, DeepSteps
  <2> QED
    BY <2>1, <2>2, <2>3, <2>4, <2>5, <2>6, <2>7 DEF DeepStep, DeepNext
<1> QED
  BY <1>1, <1>2

-----------------------------------------------------------------------------
(* The files a list does not have: one for each kill, and for the report on*)
(* disk the one that was just renamed.  A report that does not parse is one*)
(* that is being written, if no kill and no failing write came between.    *)
UnlistedIn(items, stored) == {f \in stored : ~\E i \in DOMAIN items : items[i].name = f.name}
AtMost(some, n) == IsFiniteSet(some) /\ Cardinality(some) <= n
ListedInv ==
  mode = "deep" /\ harm \cap {"write", "torn"} = {} =>
    /\ report.state = "torn" => pc = "reportBody"
    /\ pc \in {"deep", "deepCopy", "deepSave", "report", "reportBody"} =>
         AtMost(UnlistedIn(recovered, files), crashes)
    /\ pc \in {"deepSave", "report"} => AtMost(UnlistedIn(report.items, files), crashes + 1)
    /\ pc \in {"idle", "open", "deep", "deepCopy", "cancelled", "finished"} =>
         AtMost(UnlistedIn(report.items, files), crashes)

(* Fewer elements, and one more.                                           *)
LEMMA Fewer ==
  ASSUME NEW some, NEW few, NEW n \in Nat, NEW m \in Nat, AtMost(some, n), few \subseteq some,
         n <= m
  PROVE  AtMost(few, m)
<1>1. IsFiniteSet(few) /\ Cardinality(few) <= Cardinality(some)
  BY FS_Subset DEF AtMost
<1>2. Cardinality(few) \in Nat /\ Cardinality(some) \in Nat
  BY <1>1, FS_CardinalityType DEF AtMost
<1> QED
  BY <1>1, <1>2 DEF AtMost

LEMMA OneMore ==
  ASSUME NEW some, NEW x, NEW n \in Nat, AtMost(some, n)
  PROVE  AtMost(some \cup {x}, n + 1)
<1>1. Cardinality(some) \in Nat
  BY FS_CardinalityType DEF AtMost
<1>2. IsFiniteSet(some \cup {x}) /\ Cardinality(some \cup {x}) \in
        {Cardinality(some), Cardinality(some) + 1}
  BY FS_AddElement DEF AtMost
<1> QED
  BY <1>1, <1>2 DEF AtMost

(* A file that is stored and listed at once is not missed, and a list that *)
(* grows misses no more.                                                   *)
LEMMA ListedMisses ==
  ASSUME NEW items \in Seq(Item), NEW stored, NEW x \in Item, NEW f, f.name = x.name
  PROVE  /\ UnlistedIn(Append(items, x), stored \cup {f}) \subseteq UnlistedIn(items, stored)
         /\ UnlistedIn(Append(items, x), stored) \subseteq UnlistedIn(items, stored)
<1>1. /\ DOMAIN items = 1 .. Len(items) /\ Len(items) \in Nat
      /\ DOMAIN Append(items, x) = 1 .. Len(items) + 1
      /\ \A i \in DOMAIN items : Append(items, x)[i] = items[i]
      /\ Append(items, x)[Len(items) + 1] = x
  BY AppendIs
<1>2. DOMAIN items \subseteq DOMAIN Append(items, x) /\ Len(items) + 1 \in DOMAIN Append(items, x)
  BY <1>1
<1> QED
  BY <1>1, <1>2 DEF UnlistedIn

(* Without duplicates, the files of the same contents are no more than the *)
(* files the list does not have.                                           *)
LEMMA CopiesAreUnlisted ==
  ASSUME NEW items, NEW stored, ListInv(items, stored), SkipDuplicates, IsFiniteSet(stored),
         \A f, g \in stored : f.name = g.name => f = g,
         NEW n \in Nat, AtMost(UnlistedIn(items, stored), n)
  PROVE  Cardinality(stored) - Cardinality({f.body : f \in stored}) <= n
<1> DEFINE unlisted == UnlistedIn(items, stored)
           listed == stored \ unlisted
           bodies == {f.body : f \in stored}
           contents == [f \in stored |-> f.body]
           original == [f \in listed |-> f.body]
<1>1. IsFiniteSet(bodies)
  <2>1. contents \in Surjection(stored, bodies)
    BY DEF Surjection
  <2> HIDE DEF contents, bodies
  <2> QED
    BY <2>1, FS_Surjection
<1>2. unlisted \subseteq stored
  BY DEF UnlistedIn
<1>3. \A f \in listed : f \in stored
                        /\ \E i \in DOMAIN items : ~items[i].dup /\ items[i].name = f.name
                                                   /\ items[i].body = f.body
  <2> TAKE f \in listed
  <2>1. PICK i \in DOMAIN items : items[i].name = f.name
    BY DEF UnlistedIn
  <2>2. PICK k \in DOMAIN items : ~items[k].dup /\ items[k].name = items[i].name
    BY DEF ListInv
  <2>3. PICK g \in stored : g.name = items[k].name /\ g.body = items[k].body
    BY <2>2 DEF ListInv
  <2>4. g = f
    BY <2>1, <2>2, <2>3
  <2> QED
    BY <2>1, <2>2, <2>3, <2>4
<1>4. original \in Injection(listed, bodies)
  <2>1. original \in [listed -> bodies]
    BY <1>3
  <2>2. ASSUME NEW f \in listed, NEW g \in listed, original[f] = original[g] PROVE f = g
    <3>1. PICK i \in DOMAIN items : ~items[i].dup /\ items[i].name = f.name
                                    /\ items[i].body = f.body
      BY <1>3
    <3>2. PICK k \in DOMAIN items : ~items[k].dup /\ items[k].name = g.name
                                    /\ items[k].body = g.body
      BY <1>3
    <3>3. i = k
      BY <2>2, <3>1, <3>2 DEF ListInv
    <3> QED
      BY <1>3, <3>1, <3>2, <3>3
  <2> HIDE DEF listed, bodies, original
  <2> QED
    BY <2>1, <2>2 DEF Injection, IsInjective
<1>5. Cardinality(listed) <= Cardinality(bodies) /\ IsFiniteSet(listed)
  <2> HIDE DEF listed, bodies, original
  <2> QED
    BY ONLY <1>1, <1>4, FS_Injection
<1>6. Cardinality(listed) = Cardinality(stored) - Cardinality(unlisted)
  <2>1. stored \cap unlisted = unlisted
    BY <1>2
  <2> HIDE DEF unlisted
  <2> QED
    BY <2>1, FS_Difference
<1>7. Cardinality(unlisted) \in Nat /\ Cardinality(unlisted) <= n
  BY FS_CardinalityType DEF AtMost
<1>8. Cardinality(listed) \in Nat /\ Cardinality(bodies) \in Nat /\ Cardinality(stored) \in Nat
  BY <1>1, <1>5, FS_CardinalityType
<1> HIDE DEF listed, unlisted, bodies
<1>9. Cardinality(stored) - Cardinality(bodies) <= n
  BY ONLY <1>5, <1>6, <1>7, <1>8, n \in Nat
<1> QED
  BY <1>9 DEF bodies

LEMMA InitListed == Init => ListedInv
<1> SUFFICES ASSUME Init PROVE ListedInv
  OBVIOUS
<1>1. files = {} /\ report = NoReport /\ crashes = 0 /\ pc = "idle"
  BY DEF Init, InitWith
<1>2. UnlistedIn(report.items, files) = {}
  BY <1>1 DEF UnlistedIn
<1> QED
  BY <1>1, <1>2, FS_EmptySet DEF ListedInv, AtMost, NoReport

LEMMA ListedKept ==
  ASSUME Control, FilesInv, IndexInv, CountsInv, ListsInv, ListedInv, [Next]_vars
  PROVE  ListedInv'
<1>1. CASE UNCHANGED vars
  <2>1. UNCHANGED <<mode, harm, report, pc, recovered, files, crashes>>
    BY <1>1 DEF vars, onDisk, memory, history, options
  <2> QED
    BY <2>1 DEF ListedInv
<1>2. CASE Next
  <2> DEFINE Most(items, n) == AtMost(UnlistedIn(items, files), n)
             Most1(items, n) == AtMost(UnlistedIn(items, files'), n)
  <2> SUFFICES ASSUME mode' = "deep", harm' \cap {"write", "torn"} = {}
               PROVE  /\ report'.state = "torn" => pc' = "reportBody"
                      /\ pc' \in {"deep", "deepCopy", "deepSave", "report", "reportBody"} =>
                           Most1(recovered', crashes')
                      /\ pc' \in {"deepSave", "report"} => Most1(report'.items, crashes' + 1)
                      /\ pc' \in {"idle", "open", "deep", "deepCopy", "cancelled", "finished"} =>
                           Most1(report'.items, crashes')
    BY DEF ListedInv
  <2>0. mode = "deep"
    BY <1>2, StepOptions DEF options
  <2>a. DeepStep
    BY <1>2, <2>0, DeepSteps
  <2>b. harm \subseteq harm'
    <3>1. CASE StartNew \/ Resume \/ Cancel \/ WriteReport \/ ReturnCancelled \/ Finished \/ Kill
      BY <3>1 DEF StartNew, Resume, Cancel, WriteReport, ReturnCancelled, Finished, Kill, history
    <3>2. CASE OpenIndex \/ IndexMissing \/ DeepCancelled \/ SkipCandidate \/ CarveCandidate
               \/ CopyFails \/ CopyDone
      BY <3>2 DEF OpenIndex, IndexMissing, DeepCancelled, SkipCandidate, CarveCandidate, CopyFails,
         CopyDone, history
    <3>3. CASE SaveDeep \/ CompleteDeep
      BY <3>3 DEF SaveDeep, CompleteDeep, SaveSession
    <3> QED
      BY <2>a, <3>1, <3>2, <3>3 DEF DeepStep, DeepNext
  <2>c. /\ report.state = "torn" => pc = "reportBody"
        /\ pc \in {"deep", "deepCopy", "deepSave", "report", "reportBody"} =>
             Most(recovered, crashes)
        /\ pc \in {"deepSave", "report"} => Most(report.items, crashes + 1)
        /\ pc \in {"idle", "open", "deep", "deepCopy", "cancelled", "finished"} =>
             Most(report.items, crashes)
    BY <2>0, <2>b DEF ListedInv
  <2>d. crashes \in Nat
    BY <2>0 DEF CountsInv
  <2>e. \A items : Most(items, crashes) => Most(items, crashes + 1)
    BY <2>d, Fewer
  <2>f. files' = files => \A items, n : Most1(items, n) = Most(items, n)
    OBVIOUS
  <2> HIDE DEF Most, Most1
  <2>1. CASE StartNew \/ Resume
    <3>1. UNCHANGED <<files, report, recovered, crashes>> /\ pc = "idle" /\ pc' = "open"
      BY <2>1 DEF StartNew, Resume, Goto, onDisk, history
    <3> QED
      BY <2>c, <2>f, <3>1
  <2>2. CASE OpenIndex
    <3>1. UNCHANGED <<files, report, crashes>> /\ pc = "open" /\ pc' = "deep"
          /\ recovered' = IF report.state = "ok" THEN report.items ELSE <<>>
      BY <2>2 DEF OpenIndex, LoadPrevious, Goto, onDisk, history
    <3>2. recovered' = report.items
      BY <2>0, <2>c, <3>1 DEF ListsInv
    <3> QED
      BY <2>c, <2>f, <3>1, <3>2
  <2>3. CASE IndexMissing \/ ReturnCancelled \/ Finished
    <3>1. UNCHANGED <<files, report, crashes>> /\ pc \in {"open", "cancelled", "finished"}
          /\ pc' = "idle"
      BY <2>3 DEF IndexMissing, ReturnCancelled, Finished, Return, Forget, onDisk
    <3> QED
      BY <2>c, <2>f, <3>1
  <2>4. CASE Kill
    <3>1. UNCHANGED <<files, report>> /\ crashes' = crashes + 1 /\ pc' = "idle" /\ pc # "reportBody"
      BY <2>4 DEF Kill, Return, Forget
    <3>2. pc \in {"idle", "open", "deep", "deepCopy", "deepSave", "report", "cancelled", "finished"}
      BY <2>0, <3>1 DEF Control
    <3> QED
      BY <2>c, <2>e, <2>f, <3>1, <3>2
  <2>5. CASE DeepCancelled \/ CompleteDeep
    <3>1. UNCHANGED <<files, report, recovered, crashes>> /\ pc = "deep" /\ pc' = "report"
      BY <2>5 DEF DeepCancelled, CompleteDeep, Goto, onDisk, memory, history
    <3> QED
      BY <2>c, <2>e, <2>f, <3>1
  <2>6. CASE SkipCandidate \/ CarveCandidate \/ CopyFails
    <3>1. UNCHANGED <<files, report, recovered, crashes>> /\ pc \in {"deep", "deepCopy"}
          /\ pc' \in {"deep", "deepCopy"}
      BY <2>6 DEF SkipCandidate, CarveCandidate, CopyFails, Goto, onDisk, history
    <3> QED
      BY <2>c, <2>f, <3>1
  <2>7. CASE Cancel
    <3>1. UNCHANGED <<files, report, recovered, crashes, pc>>
      BY <2>7 DEF Cancel, onDisk, memory, history
    <3> QED
      BY <2>c, <2>f, <3>1
  <2>8. CASE SaveDeep
    <3>1. UNCHANGED <<files, report, recovered, crashes>> /\ pc = "deepSave" /\ pc' = "report"
      BY <2>8 DEF SaveDeep, Goto, memory
    <3> QED
      BY <2>c, <2>f, <3>1
  <2>9. CASE WriteReport
    <3>1. /\ UNCHANGED <<files, recovered, crashes>>
          /\ \/ pc = "report" /\ report' = Torn /\ pc' = "reportBody"
             \/ pc = "reportBody" /\ report' = [state |-> "ok", items |-> recovered] /\ pc' = next
      BY <2>9 DEF WriteReport, Goto, memory
    <3>2. next \in {"deep", "cancelled", "finished"}
      BY <2>0, <3>1 DEF Control
    <3> QED
      BY <2>c, <2>f, <3>1, <3>2
  <2>10. CASE CopyDone
    <3>1. /\ report' = report /\ crashes' = crashes /\ pc = "deepCopy"
          /\ pc' \in {"deepSave", "deep"}
          /\ pc' = "deep" => Duplicate(current.body)
      <4>1. [current EXCEPT !.name = UniquePath(<<found + 1, index[at].off>>)].body = current.body
        BY DEF FilesInv, File
      <4> QED
        BY <2>10, <4>1 DEF CopyDone, Goto, history
    <3>2. recovered \in Seq(Item)
      BY <2>0 DEF ListsInv, ListInv
    <3>3. CASE files' = files /\ \E x \in Item : recovered' = Append(recovered, x)
      <4>1. UnlistedIn(recovered', files) \subseteq UnlistedIn(recovered, files)
        BY <3>2, <3>3, ListedMisses
      <4>2. Most(recovered', crashes)
        BY <2>c, <2>d, <3>1, <4>1, Fewer DEF Most
      <4> QED
        BY <2>c, <2>e, <2>f, <3>1, <3>3, <4>2
    <3>4. CASE \E x \in Item, f \in files' :
                 /\ files' = files \cup {f} /\ recovered' = Append(recovered, x)
                 /\ f.name = x.name /\ x.body = current.body /\ ~x.dup
                 /\ SkipDuplicates =>
                      \A i \in DOMAIN recovered : recovered[i].body = x.body => recovered[i].dup
      <4>1. PICK x \in Item, f \in files' :
                 /\ files' = files \cup {f} /\ recovered' = Append(recovered, x)
                 /\ f.name = x.name /\ x.body = current.body /\ ~x.dup
                 /\ SkipDuplicates =>
                      \A i \in DOMAIN recovered : recovered[i].body = x.body => recovered[i].dup
        BY <3>4
      <4>2. UnlistedIn(recovered', files') \subseteq UnlistedIn(recovered, files)
        BY <3>2, <4>1, ListedMisses
      <4>3. Most1(recovered', crashes)
        BY <2>c, <2>d, <3>1, <4>2, Fewer DEF Most, Most1
      <4>4. UnlistedIn(report.items, files') \subseteq UnlistedIn(report.items, files) \cup {f}
        BY <4>1 DEF UnlistedIn
      <4>5. Most1(report.items, crashes + 1)
        <5>1. AtMost(UnlistedIn(report.items, files) \cup {f}, crashes + 1)
          BY <2>c, <2>d, <3>1, OneMore DEF Most
        <5> QED
          BY <2>d, <4>4, <5>1, Fewer DEF Most1
      <4>6. pc' = "deepSave"
        BY <3>1, <4>1 DEF Duplicate, Known
      <4> QED
        BY <2>c, <3>1, <4>3, <4>5, <4>6
    <3> QED
      BY <2>0, <2>10, <3>3, <3>4, CopyDoneIs
  <2> QED
    BY <2>a, <2>1, <2>2, <2>3, <2>4, <2>5, <2>6, <2>7, <2>8, <2>9, <2>10 DEF DeepStep, DeepNext
<1> QED
  BY <1>1, <1>2

LEMMA ListedHolds == Spec => [](Control /\ FilesInv /\ IndexInv /\ CountsInv /\ ListsInv /\ ListedInv)
<1>1. Init => FilesInv
  BY FS_EmptySet DEF Init, InitWith, FilesInv, Nothing, File
<1>2. Control /\ FilesInv /\ IndexInv /\ CountsInv /\ ListsInv /\ ListedInv /\ [Next]_vars =>
        (Control /\ FilesInv /\ IndexInv /\ CountsInv /\ ListsInv /\ ListedInv)'
  BY NextControl, FilesKept, IndexKept, CountsKept, ListsKept, ListedKept
<1> QED
  BY <1>1, <1>2, InitControl, InitIndex, InitCounts, InitLists, InitListed, PTL DEF Spec

(* A file that was recovered is in the report of the call that ends the    *)
(* extraction, but for one per kill: between its rename and its report a   *)
(* file is lost to the report, and never more than that one.               *)
THEOREM ReportIsComplete == Spec => []ReportComplete
<1>1. ListedInv => ReportComplete
  <2> SUFFICES ASSUME ListedInv, DeepDone, harm \cap {"write", "torn"} = {}
               PROVE  Cardinality(Unlisted) <= crashes
    BY DEF ReportComplete
  <2>1. AtMost(UnlistedIn(report.items, files), crashes)
    BY DEF ListedInv, DeepDone
  <2>2. Unlisted = UnlistedIn(report.items, files)
    BY DEF Unlisted, UnlistedIn
  <2> QED
    BY <2>1, <2>2 DEF AtMost
<1> QED
  BY <1>1, ListedHolds, PTL

(* With SkipDuplicates, contents are stored a second time only after a kill*)
(* that came before the report with the first, in every state.             *)
THEOREM CopiesAreFew == Spec => []NoCopyTwice
<1>1. Control /\ FilesInv /\ CountsInv /\ ListsInv /\ ListedInv => NoCopyTwice
  <2> SUFFICES ASSUME Control, FilesInv, CountsInv, ListsInv, ListedInv, mode = "deep",
                      SkipDuplicates, harm \cap {"write", "torn"} = {}
               PROVE  Cardinality(files) - Cardinality({f.body : f \in files}) <= crashes
    BY DEF NoCopyTwice
  <2>1. \E items \in {recovered, report.items} : AtMost(UnlistedIn(items, files), crashes)
    BY DEF Control, ListedInv
  <2>2. PICK items \in {recovered, report.items} : AtMost(UnlistedIn(items, files), crashes)
    BY <2>1
  <2>3. ListInv(items, files)
    BY DEF ListsInv
  <2>4. crashes \in Nat
    BY DEF CountsInv
  <2>5. IsFiniteSet(files) /\ \A f, g \in files : f.name = g.name => f = g
    BY DEF FilesInv
  <2> QED
    BY ONLY <2>2, <2>3, <2>4, <2>5, SkipDuplicates, CopiesAreUnlisted
<1> QED
  BY <1>1, ListedHolds, PTL

-----------------------------------------------------------------------------
(* The undisturbed extraction, candidate by candidate.                     *)
Worth(c, skipped) ==
  c.kind < KindCount /\ c.off < RangeEnd /\ c.off >= skipped
  /\ Carved[c.off] > 0 /\ Carved[c.off] >= MinFileSize
End(c) == c.off + Carved[c.off]
Plans == [skip : Nat, bodies : SUBSET Bodies]
NoPlan == [skip |-> 0, bodies |-> {}]
Reached(c, u) ==
  IF ~Worth(c, u.skip) THEN u
  ELSE [skip |-> Greatest(u.skip, End(c)), bodies |-> u.bodies \cup {Body(c)}]

LEMMA ReachedIs ==
  ASSUME NEW c \in Cand, NEW u \in Plans
  PROVE  Reached(c, u) \in Plans
<1>1. CASE ~Worth(c, u.skip)
  BY <1>1 DEF Reached
<1>2. CASE Worth(c, u.skip)
  <2>1. c.off \in Nat /\ c.off \in 0 .. RangeEnd - 1 /\ c \in [off : 0 .. RangeEnd - 1, kind : Nat]
    BY <1>2, ExtractAssumption DEF Worth, Cand
  <2>2. End(c) \in Nat /\ u.skip \in Nat
    BY <2>1, BodyIs DEF End, Plans
  <2>3. Greatest(u.skip, End(c)) \in Nat
    BY <2>2 DEF Greatest
  <2>4. Body(c) \in Bodies
    BY <2>1 DEF Bodies
  <2>5. u.bodies \cup {Body(c)} \in SUBSET Bodies
    BY <2>4 DEF Plans
  <2> QED
    BY <1>2, <2>3, <2>5 DEF Reached, Plans
<1> QED
  BY <1>1, <1>2

LEMMA UndisturbedIs ==
  ASSUME IndexInv
  PROVE  /\ Undisturbed \in [0 .. Len(All) -> Plans] /\ Undisturbed[0] = NoPlan
         /\ \A n \in 1 .. Len(All) : Undisturbed[n] = Reached(All[n], Undisturbed[n - 1])
<1> DEFINE N == Len(All)
           g == [n \in 1 .. N |-> [u \in Plans |-> Reached(All[n], u)]]
           after == CHOOSE f : f = [n \in 0 .. N |->
                       IF n = 0 THEN NoPlan ELSE Reached(All[n], f[n - 1])]
<1>0. N \in Nat /\ \A n \in 1 .. N : All[n] \in Cand
  BY AllIs
<1>1. Undisturbed = after
  BY DEF Undisturbed, All, Reached, Worth, NoPlan, End
<1> HIDE DEF All
<1>2. NoPlan \in Plans
  BY DEF NoPlan, Plans
<1>3. Loop(g, N, Plans)
  BY <1>0, ReachedIs DEF Loop
<1>4. \E f : Run(f, g, N, Plans, NoPlan)
  <2> HIDE DEF g, N, after
  <2> QED
    BY ONLY <1>0, <1>2, <1>3, Iterated
<1>5. PICK f \in [0 .. N -> Plans] : f[0] = NoPlan /\ \A n \in 1 .. N : f[n] = g[n][f[n - 1]]
  <2> HIDE DEF g
  <2> QED
    BY <1>4 DEF Run
<1>6. f = [n \in 0 .. N |-> IF n = 0 THEN NoPlan ELSE Reached(All[n], f[n - 1])]
  <2>1. \A n \in 0 .. N : n # 0 => n \in 1 .. N /\ n - 1 \in 0 .. N
    BY <1>0
  <2>2. \A n \in 0 .. N : n # 0 => f[n] = Reached(All[n], f[n - 1])
    BY <1>5, <2>1
  <2>3. \A n \in 0 .. N : f[n] = IF n = 0 THEN NoPlan ELSE Reached(All[n], f[n - 1])
    BY <1>5, <2>2
  <2>4. f = [n \in 0 .. N |-> f[n]]
    BY <1>5
  <2> HIDE DEF N
  <2> QED
    BY <2>3, <2>4
<1>7. after = [n \in 0 .. N |-> IF n = 0 THEN NoPlan ELSE Reached(All[n], after[n - 1])]
  BY <1>6
<1> HIDE DEF after, g
<1> DEFINE Good == {n \in 0 .. N : after[n] \in Plans}
<1>8. \A n \in 1 .. N : n \in 0 .. N /\ n - 1 \in 0 .. N /\ n # 0
  BY <1>0
<1>9. 0 \in 0 .. N
  BY <1>0
<1>10. after[0] = NoPlan /\ \A n \in 1 .. N : after[n] = Reached(All[n], after[n - 1])
  <2> HIDE DEF N
  <2> QED
    BY <1>7, <1>8, <1>9
<1>11. 0 \in Good
  BY <1>2, <1>9, <1>10
<1>12. \A n \in 1 .. N : n - 1 \in Good => n \in Good
  BY <1>0, <1>8, <1>10, ReachedIs
<1>13. \A n \in 0 .. N : n \in Good
  <2> HIDE DEF Good, N
  <2> QED
    BY ONLY <1>0, <1>11, <1>12, Rounds
<1>14. after \in [0 .. N -> Plans]
  <2> HIDE DEF N
  <2>1. \A n \in 0 .. N : after[n] \in Plans
    BY <1>13
  <2>2. DOMAIN after = 0 .. N /\ after = [n \in 0 .. N |-> after[n]]
    BY <1>7
  <2> QED
    BY <2>1, <2>2
<1> QED
  BY <1>1, <1>10, <1>14

(* What is skipped after n candidates is nothing, or ends with one of them.*)
LEMMA SkippedIs ==
  ASSUME IndexInv
  PROVE  \A n \in 0 .. Len(All) :
           \/ Undisturbed[n].skip = 0
           \/ \E k \in 1 .. n : All[k].off \in 0 .. RangeEnd - 1
                                /\ Undisturbed[n].skip = End(All[k])
<1> DEFINE N == Len(All)
           Ends(n) == \/ Undisturbed[n].skip = 0
                      \/ \E k \in 1 .. n : All[k].off \in 0 .. RangeEnd - 1
                                           /\ Undisturbed[n].skip = End(All[k])
           Good == {n \in 0 .. N : Ends(n)}
<1>0. N \in Nat /\ \A n \in 1 .. N : All[n] \in Cand
  BY AllIs
<1>1. 0 \in Good
  BY <1>0, UndisturbedIs DEF NoPlan
<1>2. ASSUME NEW n \in 1 .. N, n - 1 \in Good PROVE n \in Good
  <2>0. n - 1 \in 0 .. N /\ Undisturbed[n - 1] \in Plans /\ n \in 0 .. N
    BY <1>0, UndisturbedIs
  <2>1. Undisturbed[n] = Reached(All[n], Undisturbed[n - 1])
    BY UndisturbedIs
  <2>2. 1 .. n - 1 \subseteq 1 .. n /\ n \in 1 .. n
    BY <1>0
  <2>3. Ends(n - 1)
    BY <1>2
  <2>4. CASE Undisturbed[n].skip = Undisturbed[n - 1].skip
    <3>1. Ends(n)
      BY <2>2, <2>3, <2>4
    <3> QED
      BY <2>0, <3>1
  <2>5. CASE Worth(All[n], Undisturbed[n - 1].skip) /\ Undisturbed[n].skip = End(All[n])
    <3>1. All[n].off \in 0 .. RangeEnd - 1
      BY <1>0, <2>5, ExtractAssumption DEF Worth, Cand
    <3>2. Ends(n)
      BY <2>2, <2>5, <3>1
    <3> QED
      BY <2>0, <3>2
  <2> QED
    BY <2>1, <2>4, <2>5 DEF Reached, Greatest
<1>3. \A n \in 0 .. N : n \in Good
  <2> HIDE DEF Good, N
  <2> QED
    BY ONLY <1>0, <1>1, <1>2, Rounds
<1> QED
  BY <1>3

(* The files there are have the contents an undisturbed extraction has     *)
(* after n candidates; what is skipped is what it skips, or no more once   *)
(* the call has forgotten it, which is enough without crossing candidates. *)
Covered(n) == \A body \in Undisturbed[n].bodies : \E f \in files : f.body = body
Behind(n) == IF resumes = 0 THEN skip = Undisturbed[n].skip ELSE skip <= Undisturbed[n].skip
Judged == "write" \notin harm /\ (resumes = 0 \/ ~Crossing)
Ready(n) == Covered(n) /\ Behind(n)
MissedInv ==
  mode = "deep" /\ Judged =>
    /\ Covered(saved.processed) /\ Covered(sess.processed)
    /\ pc = "deep" /\ ~cancel => Ready(at)
    /\ pc = "deepCopy" => Ready(at - 1)
    /\ pc = "deepSave" \/ (pc \in {"report", "reportBody"} /\ next = "deep") => Ready(at)
    /\ Finishing \/ result = "ok" => Covered(Len(All))

(* Where less is skipped, what is worth carving still is.                  *)
LEMMA WorthIs ==
  ASSUME NEW c \in Cand, NEW s \in Nat, skip \in Nat, skip <= s, Worth(c, s)
  PROVE  WorthCarving(c) /\ c.off \in 0 .. RangeEnd - 1
<1>1. c.off \in Nat /\ c.kind \in Nat
  BY DEF Cand
<1>2. MinFileSize \in Nat /\ KindCount \in Nat /\ RangeEnd \in Nat
  BY ExtractAssumption
<1>3. c.kind \in 0 .. KindCount - 1 /\ c.off \in 0 .. RangeEnd - 1
  BY <1>1, <1>2 DEF Worth
<1>4. c.off >= skip
  BY <1>1 DEF Worth
<1> QED
  BY <1>3, <1>4 DEF Worth, WorthCarving

LEMMA WorthThere ==
  ASSUME NEW c \in Cand, NEW s \in Nat, WorthCarving(c)
  PROVE  Worth(c, s) \/ c.off < s
<1>1. c.off \in Nat /\ KindCount \in Nat /\ RangeEnd \in Nat
  BY ExtractAssumption DEF Cand
<1>2. c.kind \in 0 .. KindCount - 1 /\ c.off \in 0 .. RangeEnd - 1
      /\ Carved[c.off] > 0 /\ Carved[c.off] >= MinFileSize
  BY DEF WorthCarving
<1>3. c.kind < KindCount /\ c.off < RangeEnd
  BY ONLY <1>1, <1>2
<1> QED
  BY <1>1, <1>2, <1>3 DEF Worth

LEMMA EndIs ==
  ASSUME NEW c \in Cand, c.off \in 0 .. RangeEnd - 1
  PROVE  c.off \in Nat /\ Carved[c.off] \in Nat /\ End(c) \in Nat
<1>1. c.off \in Nat /\ Carved[c.off] \in Nat
  BY BodyIs DEF Cand
<1> QED
  BY <1>1 DEF End

(* A candidate that is passed over is passed over undisturbed, too.        *)
LEMMA SkippedAlike ==
  ASSUME IndexInv, skip \in Nat, NEW n \in 0 .. Len(All) - 1, Ready(n),
         ~WorthCarving(All[n + 1])
  PROVE  Ready(n + 1)
<1> DEFINE c == All[n + 1]
           u == Undisturbed[n]
<1>1. /\ n \in 0 .. Len(All) /\ n + 1 \in 1 .. Len(All) /\ c \in Cand /\ u \in Plans
      /\ Undisturbed[n + 1] = Reached(c, u)
  <2>1. Len(All) \in Nat /\ n + 1 \in 1 .. Len(All) /\ n \in 0 .. Len(All) /\ (n + 1) - 1 = n
    BY AllIs
  <2>2. c \in Cand
    BY <2>1, AllIs
  <2>3. Undisturbed[n + 1] = Reached(All[n + 1], Undisturbed[(n + 1) - 1])
    BY <2>1, UndisturbedIs
  <2>4. u \in Plans
    BY <2>1, UndisturbedIs
  <2> QED
    BY <2>1, <2>2, <2>3, <2>4
<1>2. skip <= u.skip
  BY <1>1 DEF Ready, Behind, Plans
<1>3. ~Worth(c, u.skip)
  <2>1. u.skip \in Nat
    BY <1>1 DEF Plans
  <2> HIDE DEF c, u
  <2> QED
    BY <1>1, <1>2, <2>1, WorthIs DEF c
<1>4. Undisturbed[n + 1] = Undisturbed[n]
  BY <1>1, <1>3 DEF Reached
<1> QED
  BY <1>4 DEF Ready, Covered, Behind

(* Without crossing candidates a candidate that begins in a file ends in   *)
(* it.                                                                     *)
LEMMA EndsInside ==
  ASSUME IndexInv, ~Crossing, NEW n \in 1 .. Len(All), All[n].off \in 0 .. RangeEnd - 1,
         All[n].off < Undisturbed[n - 1].skip
  PROVE  End(All[n]) <= Undisturbed[n - 1].skip
<1> DEFINE c == All[n]
<1>1. Len(All) \in Nat /\ n - 1 \in 0 .. Len(All) /\ n \in Nat /\ All \in Seq(Cand)
      /\ DOMAIN All = 1 .. Len(All) /\ Ascending(All) /\ Elements(All) = Elements(given)
  BY AllIs, LenProperties
<1>2. c \in Cand /\ c.off \in Nat
  BY AllIs DEF Cand
<1>3. PICK k \in 1 .. n - 1 : All[k].off \in 0 .. RangeEnd - 1
                              /\ Undisturbed[n - 1].skip = End(All[k])
  <2>1. Undisturbed[n - 1].skip # 0
    BY <1>2
  <2> QED
    BY <1>1, <2>1, SkippedIs
<1> DEFINE d == All[k]
<1>4. k \in DOMAIN All /\ n \in DOMAIN All /\ k < n
  BY <1>1
<1>5. d \in Cand /\ d.off \in Nat
  BY <1>1, <1>4, AllIs DEF Cand
<1>6. d.off <= c.off
  BY <1>1, <1>2, <1>4, <1>5 DEF Ascending, Before
<1>7. d \in Elements(given) /\ c \in Elements(given)
  BY <1>1, <1>4 DEF Elements
<1>8. Carved[c.off] \in Nat /\ Carved[d.off] \in Nat
  BY <1>3, BodyIs
<1>9. CASE d.off = c.off
  BY <1>2, <1>3, <1>8, <1>9 DEF End
<1>10. CASE d.off < c.off
  <2>1. ~(End(d) < End(c))
    BY <1>3, <1>7, <1>10 DEF Crossing, End
  <2>2. End(c) \in Nat /\ End(d) \in Nat
    BY <1>2, <1>3, <1>5, EndIs
  <2> HIDE DEF c, d
  <2>3. End(c) <= End(d)
    BY ONLY <2>1, <2>2
  <2> QED
    BY <1>3, <2>3 DEF c, d
<1> QED
  BY <1>2, <1>5, <1>6, <1>9, <1>10

(* A candidate that is copied keeps up with the undisturbed extraction.    *)
LEMMA CopiedAlike ==
  ASSUME IndexInv, Judged, skip \in Nat, NEW n \in 1 .. Len(All), Ready(n - 1),
         WorthCarving(All[n]), skip' = Greatest(skip, End(All[n])),
         UNCHANGED <<given, resumes>>, files \subseteq files',
         \E f \in files' : f.body = Body(All[n])
  PROVE  Ready(n)'
<1> DEFINE c == All[n]
           u == Undisturbed[n - 1]
           v == Undisturbed[n]
<1>1. /\ c \in Cand /\ c.off \in 0 .. RangeEnd - 1 /\ c.off >= skip /\ End(c) \in Nat
      /\ u \in Plans /\ u.skip \in Nat /\ v = Reached(c, u) /\ c.off \in Nat
  <2>1. Len(All) \in Nat /\ n - 1 \in 0 .. Len(All) /\ c \in Cand
    BY AllIs
  <2>2. c.off \in 0 .. RangeEnd - 1 /\ c.off >= skip
    BY DEF WorthCarving
  <2>3. u \in Plans /\ v = Reached(c, u)
    BY <2>1, UndisturbedIs
  <2>4. u.skip \in Nat
    BY <2>3 DEF Plans
  <2> QED
    BY <2>1, <2>2, <2>3, <2>4, EndIs
<1>2. Undisturbed' = Undisturbed
  BY DEF Undisturbed
<1>3. Worth(c, u.skip) \/ c.off < u.skip
  BY <1>1, WorthThere
<1>4. Covered(n - 1) /\ skip <= u.skip /\ (resumes = 0 => skip = u.skip)
  BY <1>1 DEF Ready, Behind
<1>5. (\A body \in v.bodies : body \in u.bodies \/ body = Body(c))
  BY <1>1 DEF Reached
<1>6. Covered(n)'
  BY <1>2, <1>4, <1>5 DEF Covered
<1>7. resumes = 0 => Worth(c, u.skip)
  BY <1>1, <1>3, <1>4
<1>8. CASE Worth(c, u.skip)
  <2>1. v.skip = Greatest(u.skip, End(c))
    BY <1>1, <1>8 DEF Reached
  <2> HIDE DEF u, v, c
  <2>2. Greatest(skip, End(c)) <= Greatest(u.skip, End(c))
        /\ (resumes = 0 => Greatest(skip, End(c)) = Greatest(u.skip, End(c)))
    BY <1>1, <1>4 DEF Greatest
  <2>3. Behind(n)'
    BY <1>2, <2>1, <2>2 DEF Behind, v, c
  <2> QED
    BY <1>6, <2>3 DEF Ready
<1>9. CASE ~Worth(c, u.skip)
  <2>1. v = u /\ resumes # 0 /\ ~Crossing /\ c.off < u.skip
    BY <1>1, <1>3, <1>7, <1>9 DEF Reached, Judged
  <2>2. End(c) <= u.skip
    BY <1>1, <2>1, EndsInside
  <2> HIDE DEF u, v, c
  <2>3. Greatest(skip, End(c)) <= v.skip
    BY <1>4, <2>1, <2>2 DEF Greatest
  <2>4. Behind(n)'
    BY <1>2, <2>1, <2>3 DEF Behind, v, c
  <2> QED
    BY <1>6, <2>4 DEF Ready
<1> QED
  BY <1>8, <1>9

LEMMA InitMissed == Init => MissedInv
<1> SUFFICES ASSUME Init PROVE MissedInv
  OBVIOUS
<1>1. pc = "idle" /\ next = "idle" /\ saved = NoSession /\ sess = NoSession /\ result = "none"
  BY DEF Init, InitWith
<1>2. Undisturbed[0].bodies = {}
  BY InitIndex, UndisturbedIs DEF NoPlan
<1> QED
  BY <1>1, <1>2 DEF MissedInv, Covered, NoSession, Finishing

LEMMA MissedKept ==
  ASSUME Control, FilesInv, IndexInv, CountsInv, ListsInv, MissedInv, [Next]_vars
  PROVE  MissedInv'
<1>1. CASE UNCHANGED vars
  <2>1. UNCHANGED <<mode, given, harm, pc, next, cancel, result, files, saved, sess, at, skip, resumes>>
    BY <1>1 DEF vars, onDisk, memory, history, options
  <2>2. All' = All /\ Undisturbed' = Undisturbed /\ Crossing' = Crossing
    <3>1. All' = All
      BY <2>1 DEF All
    <3>2. Undisturbed' = Undisturbed
      BY <2>1 DEF Undisturbed
    <3>3. Crossing' = Crossing
      BY <2>1 DEF Crossing
    <3> QED
      BY <3>1, <3>2, <3>3
  <2> QED
    BY <2>1, <2>2 DEF MissedInv, Judged, Covered, Ready, Behind, Finishing
<1>2. CASE Next
  <2> SUFFICES ASSUME mode' = "deep", Judged'
               PROVE  /\ Covered(saved.processed)' /\ Covered(sess.processed)'
                      /\ pc' = "deep" /\ ~cancel' => Ready(at)'
                      /\ pc' = "deepCopy" => Ready(at - 1)'
                      /\ pc' = "deepSave" \/ (pc' \in {"report", "reportBody"} /\ next' = "deep")
                           => Ready(at)'
                      /\ Finishing' \/ result' = "ok" => Covered(Len(All))'
    BY DEF MissedInv
  <2>0. mode = "deep" /\ UNCHANGED <<mode, given>> /\ All' = All /\ Undisturbed' = Undisturbed
    <3>1. mode = "deep" /\ UNCHANGED <<mode, given>>
      BY <1>2, StepOptions DEF options
    <3>2. All' = All
      BY <3>1 DEF All
    <3>3. Undisturbed' = Undisturbed
      BY <3>1 DEF Undisturbed
    <3> QED
      BY <3>1, <3>2, <3>3
  <2>a. DeepStep
    BY <1>2, <2>0, DeepSteps
  <2>b. harm \subseteq harm' /\ (resumes' = resumes \/ Resume)
    <3>1. CASE StartNew \/ Resume \/ Cancel \/ WriteReport \/ ReturnCancelled \/ Finished \/ Kill
      BY <3>1 DEF StartNew, Resume, Cancel, WriteReport, ReturnCancelled, Finished, Kill, history
    <3>2. CASE OpenIndex \/ IndexMissing \/ DeepCancelled \/ SkipCandidate \/ CarveCandidate
               \/ CopyFails \/ CopyDone
      BY <3>2 DEF OpenIndex, IndexMissing, DeepCancelled, SkipCandidate, CarveCandidate, CopyFails,
         CopyDone, history
    <3>3. CASE SaveDeep \/ CompleteDeep
      BY <3>3 DEF SaveDeep, CompleteDeep, SaveSession
    <3> QED
      BY <2>a, <3>1, <3>2, <3>3 DEF DeepStep, DeepNext
  <2>c. /\ at \in Nat /\ skip \in Nat /\ resumes \in Nat /\ Len(All) \in Nat
        /\ sess.processed \in 0 .. Len(All) /\ saved.processed \in 0 .. Len(All)
        /\ resumes = 0 /\ pc = "open" => sess.processed = 0
        /\ pc \in {"idle", "open"} => skip = 0
        /\ Extracting => at <= Len(All) /\ index = All
        /\ pc = "deepCopy" => at >= 1 /\ current.body = Body(All[at]) /\ WorthCarving(All[at])
    <3>1. Len(All) \in Nat
      BY AllIs
    <3> QED
      BY <2>0, <3>1, AllIs DEF CountsInv, Sessions
  <2>d. Judged /\ "write" \notin harm' /\ Crossing' = Crossing /\ (resumes' # 0 => ~Crossing)
    <3>1. Crossing' = Crossing
      BY <2>0 DEF Crossing
    <3>2. resumes' = 0 => resumes = 0
      BY <2>b, <2>c DEF Resume
    <3> QED
      BY <2>b, <3>1, <3>2 DEF Judged
  <2>e. /\ Covered(saved.processed) /\ Covered(sess.processed)
        /\ pc = "deep" /\ ~cancel => Ready(at)
        /\ pc = "deepCopy" => Ready(at - 1)
        /\ pc = "deepSave" \/ (pc \in {"report", "reportBody"} /\ next = "deep") => Ready(at)
        /\ Finishing \/ result = "ok" => Covered(Len(All))
    BY <2>0, <2>d DEF MissedInv
  <2>f. files \subseteq files'
    BY <1>2, StepFiles
  <2>g. \A n : Covered(n) => Covered(n)'
    BY <2>0, <2>f DEF Covered
  <2>h. Covered(0)'
    BY <2>0, UndisturbedIs DEF Covered, NoPlan
  <2>i. skip' = skip /\ resumes' = resumes => \A n : Ready(n) => Ready(n)'
    BY <2>0, <2>g DEF Ready, Behind
  <2>j. \A n : Ready(n) => Covered(n)
    BY DEF Ready
  <2>k. NoSession.processed = 0 /\ NewSession.processed = 0
    BY DEF NoSession, NewSession
  <2> HIDE DEF All
  <2>1. CASE StartNew
    <3>1. pc' = "open" /\ sess' = NewSession /\ saved' = NewSession /\ result' = result
      BY <2>1 DEF StartNew, Goto, history
    <3> QED
      BY <2>0, <2>e, <2>g, <2>h, <2>k, <3>1 DEF Finishing
  <2>2. CASE Resume
    <3>1. pc' = "open" /\ sess' = saved /\ saved' = saved /\ result' = result
      BY <2>2 DEF Resume, Goto, onDisk
    <3> QED
      BY <2>0, <2>e, <2>g, <3>1 DEF Finishing
  <2>3. CASE OpenIndex
    <3>1. /\ pc = "open" /\ pc' = "deep" /\ index # NoIndex
          /\ at' = Least(sess.processed, Len(index))
          /\ UNCHANGED <<sess, saved, skip, resumes, result>>
      BY <2>3 DEF OpenIndex, Goto, onDisk, history
    <3>2. index = All
      BY <3>1 DEF IndexInv, All
    <3>3. at' = sess.processed /\ skip = 0
      BY <2>c, <3>1, <3>2 DEF Least
    <3>4. Undisturbed[at'].skip \in Nat /\ (at' = 0 => Undisturbed[at'].skip = 0)
      BY <2>c, <3>3, UndisturbedIs DEF Plans, NoPlan
    <3>5. Behind(at)'
      BY <2>0, <2>c, <3>1, <3>3, <3>4 DEF Behind
    <3>6. Covered(at)'
      BY <2>e, <2>g, <3>3
    <3> QED
      BY <2>0, <2>e, <2>g, <3>1, <3>5, <3>6 DEF Finishing, Ready
  <2>4. CASE IndexMissing \/ ReturnCancelled \/ Kill
    <3>1. pc' = "idle" /\ sess' = NoSession /\ saved' = saved /\ result' # "ok"
      BY <2>4 DEF IndexMissing, ReturnCancelled, Kill, Return, Forget, onDisk
    <3> QED
      BY <2>0, <2>e, <2>g, <2>h, <2>k, <3>1 DEF Finishing
  <2>5. CASE Finished
    <3>1. pc = "finished" /\ pc' = "idle" /\ sess' = NoSession /\ saved' = saved
      BY <2>5 DEF Finished, Return, Forget
    <3> QED
      BY <2>0, <2>e, <2>g, <2>h, <2>k, <3>1 DEF Finishing
  <2>6. CASE DeepCancelled
    <3>1. pc' = "report" /\ next' = "cancelled" /\ UNCHANGED <<sess, saved, result>>
      BY <2>6 DEF DeepCancelled, Goto, onDisk, memory, history
    <3> QED
      BY <2>0, <2>e, <2>g, <3>1 DEF Finishing
  <2>7. CASE Cancel
    <3>1. UNCHANGED <<pc, next, sess, saved, at, skip, resumes, result>> /\ cancel'
      BY <2>7 DEF Cancel, onDisk, memory, history
    <3>2. at - 1 = at' - 1
      BY <3>1
    <3> QED
      BY <2>0, <2>e, <2>g, <2>i, <3>1, <3>2 DEF Finishing
  <2>8. CASE SkipCandidate
    <3>1. /\ pc = "deep" /\ pc' = "deep" /\ ~cancel /\ at < Len(index) /\ at' = at + 1
          /\ ~WorthCarving(index[at + 1])
          /\ UNCHANGED <<sess, saved, skip, resumes, next, result>>
      BY <2>8 DEF SkipCandidate, Candidate, onDisk, history
    <3>2. index = All /\ at \in 0 .. Len(All) - 1
      BY <2>c, <3>1 DEF Extracting
    <3>3. Ready(at + 1)
      BY <2>c, <2>e, <3>1, <3>2, SkippedAlike
    <3>4. Ready(at)'
      BY <2>i, <3>1, <3>3
    <3> QED
      BY <2>0, <2>e, <2>g, <3>1, <3>4 DEF Finishing
  <2>9. CASE CarveCandidate
    <3>1. /\ pc = "deep" /\ pc' = "deepCopy" /\ ~cancel /\ at' = at + 1
          /\ UNCHANGED <<sess, saved, skip, resumes, next, result>>
      BY <2>9 DEF CarveCandidate, Goto, onDisk, history
    <3>2. at' - 1 = at
      BY <2>c, <3>1
    <3> QED
      BY <2>0, <2>e, <2>g, <2>i, <3>1, <3>2 DEF Finishing
  <2>10. CASE CopyFails
    <3>1. /\ pc' = "deep" /\ (cancel' \/ "write" \in harm')
          /\ UNCHANGED <<sess, saved, next, result>>
      BY <2>10 DEF CopyFails, Goto, onDisk
    <3> QED
      BY <2>0, <2>d, <2>e, <2>g, <3>1 DEF Finishing
  <2>11. CASE CopyDone
    <3>1. /\ pc = "deepCopy" /\ pc' \in {"deep", "deepSave"} /\ at' = at
          /\ skip' = Greatest(skip, index[at].off + Len(current.body))
          /\ sess' = [sess EXCEPT !.phase = "extracting", !.processed = at, !.found = found']
          /\ UNCHANGED <<saved, resumes, next, result>>
      BY <2>11 DEF CopyDone, Goto, history, Processed
    <3>2. /\ at \in 1 .. Len(All) /\ index = All /\ All[at] \in Cand /\ WorthCarving(All[at])
          /\ current.body = Body(All[at])
      BY <2>c, <3>1, AllIs DEF Extracting
    <3>3. skip' = Greatest(skip, End(All[at]))
      BY <3>1, <3>2, BodyIs DEF WorthCarving, End
    <3>4. \E f \in files' : f.body = current.body
      <4>1. CASE files' = files /\ \E k \in DOMAIN recovered :
                   ~recovered[k].dup /\ recovered[k].body = current.body
        BY <2>0, <4>1 DEF ListsInv, ListInv
      <4>2. CASE \E x \in Item, f \in files' : x.body = current.body /\ f.body = x.body
        BY <4>2
      <4> QED
        BY <2>0, <2>11, <4>1, <4>2, CopyDoneIs
    <3>5. Ready(at)'
      <4>1. Ready(at - 1)
        BY <2>e, <3>1
      <4>2. \A n : n = at => Ready(n)'
        BY <2>0, <2>c, <2>d, <2>f, <3>1, <3>2, <3>3, <3>4, <4>1, CopiedAlike
      <4> QED
        BY <3>1, <4>2 DEF Ready, Covered, Behind
    <3>6. sess'.processed = at
      BY <2>0, <3>1 DEF CountsInv, Sessions
    <3> QED
      BY <2>0, <2>e, <2>g, <2>j, <3>1, <3>5, <3>6 DEF Finishing, Ready
  <2>12. CASE SaveDeep
    <3>1. /\ pc = "deepSave" /\ pc' = "report" /\ next' = "deep" /\ saved' \in {saved, sess}
          /\ UNCHANGED <<sess, at, skip, resumes, result>>
      BY <2>12 DEF SaveDeep, SaveSession, memory, Goto
    <3> QED
      BY <2>0, <2>e, <2>g, <2>i, <3>1 DEF Finishing
  <2>13. CASE CompleteDeep
    <3>1. /\ pc = "deep" /\ ~cancel /\ at = Len(index) /\ pc' = "report" /\ next' = "finished"
          /\ saved' \in {saved, sess'} /\ result' = result
          /\ sess' = [sess EXCEPT !.phase = "completed", !.processed = Len(index),
                                  !.found = found, !.done = TRUE]
      BY <2>13 DEF CompleteDeep, SaveSession, Goto
    <3>2. sess'.processed = Len(All) /\ at = Len(All)
      BY <2>0, <2>c, <3>1 DEF CountsInv, Sessions, Extracting
    <3>3. Covered(Len(All))
      BY <2>e, <2>j, <3>1, <3>2
    <3>4. Covered(Len(All))' /\ Covered(sess.processed)' /\ Covered(saved.processed)'
      BY <2>0, <2>e, <2>g, <3>1, <3>2, <3>3
    <3> QED
      BY <3>1, <3>4
  <2>14. CASE WriteReport
    <3>1. /\ pc \in {"report", "reportBody"} /\ pc' \in {"reportBody", next}
          /\ UNCHANGED <<next, sess, saved, at, skip, resumes, result>>
      BY <2>14 DEF WriteReport, memory, Goto
    <3>2. next \in {"deep", "cancelled", "finished"}
      BY <2>0, <3>1 DEF Control
    <3> QED
      BY <2>0, <2>e, <2>g, <2>i, <3>1, <3>2 DEF Finishing
  <2> QED
    BY <2>a, <2>1, <2>2, <2>3, <2>4, <2>5, <2>6, <2>7, <2>8, <2>9, <2>10, <2>11, <2>12, <2>13,
       <2>14 DEF DeepStep, DeepNext
<1> QED
  BY <1>1, <1>2

(* An extraction that ends has recovered what an undisturbed one recovers, *)
(* however often it was cancelled or killed before and went on from the    *)
(* session: nothing the session counts as done is missing, and a call that *)
(* has forgotten what the last file covers passes over nothing more.       *)
THEOREM NothingIsMissed == Spec => []NothingMissed
<1>1. MissedInv => NothingMissed
  BY DEF MissedInv, NothingMissed, DeepDone, Judged, Covered, All
<1>2. Control /\ FilesInv /\ IndexInv /\ CountsInv /\ ListsInv /\ MissedInv /\ [Next]_vars =>
        MissedInv'
  BY MissedKept
<1> QED
  BY <1>1, <1>2, InitMissed, ListedHolds, PTL DEF Spec
=============================================================================
