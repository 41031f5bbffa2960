--------------------------- MODULE HeapQueueProofs ---------------------------
(***************************************************************************)
(* Proofs about core.PriorityQueue, for any number of items, any values    *)
(* and any integer priorities: the binary heap with its lookup table is    *)
(* sound and implements a map with priorities.                             *)
(*                                                                         *)
(* The loops of container/heap are recursive functions.  What they compute *)
(* is proved from the least number principle, which the library states     *)
(* without a parameter: a loop that stays in a set of states and goes down *)
(* in rank whenever it moves has stopped after as many turns as the rank   *)
(* it began with (LoopEnds).                                               *)
(***************************************************************************)
EXTENDS HeapQueue, FiniteSetTheorems, SequenceTheorems, TLAPS

-----------------------------------------------------------------------------
\* Induction and loops.

LEMMA LeastNumber ==
  ASSUME NEW T, T \subseteq Nat, T # {}
  PROVE  \E x \in T : \A y \in T : x <= y
<1>1. PICK x \in T : \A y \in T : ~ (<<y, x>> \in OpToRel(<, Nat))
  BY NatLessThanWellFounded, WFMin
<1>2. ASSUME NEW y \in T, y < x PROVE <<y, x>> \in OpToRel(<, Nat)
  BY <1>2, Zenon DEF OpToRel
<1>3. \A y \in T : ~ (y < x)
  BY <1>1, <1>2, Zenon
<1> QED
  BY <1>3

LEMMA Induction ==
  ASSUME NEW T, 0 \in T, \A n \in Nat : n \in T => n + 1 \in T
  PROVE  Nat \subseteq T
<1> SUFFICES ASSUME Nat \ T # {} PROVE FALSE
  OBVIOUS
<1>1. PICK m \in Nat \ T : \A y \in Nat \ T : m <= y
  BY LeastNumber
<1>2. m # 0 /\ m - 1 \in Nat
  OBVIOUS
<1>3. m - 1 \in T
  BY <1>1, <1>2
<1> QED
  BY <1>1, <1>2, <1>3

\* The first n turns of a loop from a.
Run(g, n, S, step, a) ==
  g \in [0..n -> S] /\ g[0] = a /\ \A k \in 0..(n - 1) : g[k + 1] = step[g[k]]

LEMMA RunsAgree ==
  ASSUME NEW S, NEW step, NEW a, NEW m \in Nat, NEW n \in Nat, m <= n,
         NEW f, Run(f, m, S, step, a), NEW g, Run(g, n, S, step, a)
  PROVE  \A k \in 0..m : f[k] = g[k]
<1> DEFINE T == {k \in Nat : k <= m => f[k] = g[k]}
<1>1. 0 \in T
  BY DEF Run
<1>2. ASSUME NEW k \in Nat, k \in T PROVE k + 1 \in T
  BY <1>2 DEF Run
<1>3. Nat \subseteq T
  <2> HIDE DEF T
  <2> QED
    BY <1>1, <1>2, Induction
<1> QED
  BY <1>3

LEMMA RunsExist ==
  ASSUME NEW S, NEW step \in [S -> S], NEW a \in S, NEW n \in Nat
  PROVE  \E g : Run(g, n, S, step, a)
<1> DEFINE T == {k \in Nat : \E g : Run(g, k, S, step, a)}
<1>1. 0 \in T
  <2>1. Run([k \in 0..0 |-> a], 0, S, step, a)
    BY DEF Run
  <2> QED
    BY <2>1
<1>2. ASSUME NEW k \in Nat, k \in T PROVE k + 1 \in T
  <2>1. PICK g : Run(g, k, S, step, a)
    BY <1>2
  <2> DEFINE h == [i \in 0..(k + 1) |-> IF i = k + 1 THEN step[g[k]] ELSE g[i]]
  <2>2. Run(h, k + 1, S, step, a)
    BY <2>1 DEF Run
  <2> HIDE DEF h
  <2> QED
    BY <2>2
<1>3. Nat \subseteq T
  <2> HIDE DEF T
  <2> QED
    BY <1>1, <1>2, Induction
<1> QED
  BY <1>3

\* All of its turns.
Loop(f, S, step, a) == f \in [Nat -> S] /\ f[0] = a /\ \A n \in Nat : f[n + 1] = step[f[n]]

LEMMA LoopExists ==
  ASSUME NEW S, NEW step \in [S -> S], NEW a \in S
  PROVE  \E f : Loop(f, S, step, a)
<1> DEFINE run(n) == CHOOSE g : Run(g, n, S, step, a)
           f == [n \in Nat |-> run(n)[n]]
<1>1. ASSUME NEW n \in Nat PROVE Run(run(n), n, S, step, a)
  BY RunsExist
<1> HIDE DEF run
<1>2. f \in [Nat -> S] /\ f[0] = a
  <2>1. \A n \in Nat : run(n)[n] \in S
    BY <1>1 DEF Run
  <2>2. run(0)[0] = a
    BY <1>1 DEF Run
  <2> QED
    BY <2>1, <2>2
<1>3. ASSUME NEW n \in Nat PROVE f[n + 1] = step[f[n]]
  <2>1. run(n + 1)[n + 1] = step[run(n + 1)[n]]
    BY <1>1 DEF Run
  <2>2. run(n)[n] = run(n + 1)[n]
    BY <1>1, RunsAgree
  <2> QED
    BY <2>1, <2>2
<1> HIDE DEF f
<1> QED
  BY <1>2, <1>3 DEF Loop

\* A loop whose rank goes down with every turn that changes something.
LEMMA LoopEnds ==
  ASSUME NEW S, NEW step \in [S -> S], NEW a \in S, NEW rank \in [S -> Nat], NEW N \in Nat,
         rank[a] <= N, \A x \in S : step[x] = x \/ rank[step[x]] < rank[x],
         NEW f, Loop(f, S, step, a)
  PROVE  f[N] \in S /\ step[f[N]] = f[N]
<1>1. f \in [Nat -> S] /\ f[0] = a /\ \A n \in Nat : f[n + 1] = step[f[n]]
  BY DEF Loop
<1> DEFINE T == {n \in Nat : step[f[n]] = f[n] \/ rank[f[n]] + n <= rank[a]}
<1>2. 0 \in T
  BY <1>1
<1>3. ASSUME NEW n \in Nat, n \in T PROVE n + 1 \in T
  <2>1. PICK x \in S : x = f[n]
    BY <1>1
  <2>2. f[n + 1] = step[x] /\ step[x] \in S
    BY <1>1, <2>1
  <2>3. CASE step[x] = x
    BY <2>1, <2>2, <2>3
  <2>4. CASE rank[x] + n <= rank[a] /\ step[x] # x
    <3>1. rank[step[x]] < rank[x] /\ rank[x] \in Nat /\ rank[step[x]] \in Nat /\ rank[a] \in Nat
      BY <2>2, <2>4
    <3> QED
      BY <2>2, <2>4, <3>1
  <2> QED
    BY <1>3, <2>1, <2>3, <2>4
<1>4. Nat \subseteq T
  <2> HIDE DEF T
  <2> QED
    BY <1>2, <1>3, Induction
<1>5. step[f[N]] = f[N] \/ rank[f[N]] + N <= rank[a]
  BY <1>4
<1>6. step[f[N]] = f[N]
  BY <1>1, <1>5
<1> QED
  BY <1>1, <1>6

-----------------------------------------------------------------------------
\* The heap order, by the priorities of the positions 1 to m.

LEMMA Half ==
  ASSUME NEW i \in Nat, i > 1
  PROVE  /\ i \div 2 \in Nat /\ 1 <= i \div 2 /\ i \div 2 < i
         /\ i = 2 * (i \div 2) \/ i = 2 * (i \div 2) + 1
OBVIOUS

LEMMA Children ==
  ASSUME NEW i \in Nat, NEW j \in Nat
  PROVE  i \div 2 = j <=> i = 2 * j \/ i = 2 * j + 1
OBVIOUS

Ordered(pr, m) == \A i \in 2..m : pr[i \div 2] >= pr[i]

\* Whatever may be wrong at j, the positions below j belong below its parent.
Bridged(pr, m, j) == \A i \in 2..m : i \div 2 = j /\ j > 1 => pr[j \div 2] >= pr[i]

\* The order holds but between j and its parent, but between j and its
\* children, or but between j and either.
OrderedButUp(pr, m, j) == Bridged(pr, m, j) /\ \A i \in 2..m : i # j => pr[i \div 2] >= pr[i]
OrderedButDown(pr, m, j) ==
  Bridged(pr, m, j) /\ \A i \in 2..m : i \div 2 # j => pr[i \div 2] >= pr[i]
OrderedAround(pr, m, j) ==
  Bridged(pr, m, j) /\ \A i \in 2..m : i # j /\ i \div 2 # j => pr[i \div 2] >= pr[i]

\* Two positions exchange their priorities.
Exchanged(pr, qr, N, i, j) ==
  qr[i] = pr[j] /\ qr[j] = pr[i] /\ \A k \in 1..N : k # i /\ k # j => qr[k] = pr[k]

LEMMA OneUp ==
  ASSUME NEW N \in Nat, NEW m \in 0..N, NEW pr \in [1..N -> Int], NEW qr \in [1..N -> Int],
         NEW j \in 2..m, OrderedButUp(pr, m, j), pr[j] > pr[j \div 2],
         Exchanged(pr, qr, N, j \div 2, j)
  PROVE  OrderedButUp(qr, m, j \div 2)
<1>1. PICK p : p = j \div 2
  OBVIOUS
<1>2. p \in 1..N /\ j \in 1..N /\ p < j /\ 1..m \subseteq 1..N
  BY <1>1, Half
<1>3. \A k \in 1..N : pr[k] \in Int /\ qr[k] \in Int
  OBVIOUS
<1>4. qr[p] = pr[j] /\ qr[j] = pr[p] /\ pr[j] > pr[p]
  BY <1>1 DEF Exchanged
<1>5. \A k \in 1..N : k # p /\ k # j => qr[k] = pr[k]
  BY <1>1 DEF Exchanged
<1>6. \A i \in 2..m : i # j => pr[i \div 2] >= pr[i]
  BY DEF OrderedButUp
<1>7. \A i \in 2..m : i \div 2 = j => pr[p] >= pr[i]
  BY <1>1 DEF OrderedButUp, Bridged
<1>8. ASSUME NEW i \in 2..m, i # p PROVE qr[i \div 2] >= qr[i]
  <2>1. PICK h : h = i \div 2
    OBVIOUS
  <2>2. h \in 1..N /\ h < i /\ i \in 1..N
    BY <1>2, <2>1, Half
  <2>3. CASE i = j
    <3>1. qr[p] >= qr[j]
      BY <1>2, <1>3, <1>4
    <3> QED
      BY <1>1, <2>3, <3>1
  <2>4. CASE i # j
    <3>1. qr[i] = pr[i]
      BY <1>5, <1>8, <2>2, <2>4
    <3>2. CASE h = p
      <4>1. pr[p] >= pr[i]
        BY <1>6, <2>1, <2>4, <3>2
      <4>2. qr[p] >= qr[i]
        BY <1>2, <1>3, <1>4, <2>2, <3>1, <4>1
      <4> QED
        BY <2>1, <3>2, <4>2
    <3>3. CASE h = j
      <4>1. pr[p] >= pr[i]
        BY <1>7, <2>1, <3>3
      <4> QED
        BY <1>2, <1>3, <1>4, <2>1, <2>2, <3>1, <3>3, <4>1
    <3>4. CASE h # p /\ h # j
      <4>1. pr[h] >= pr[i] /\ qr[h] = pr[h]
        BY <1>5, <1>6, <2>1, <2>2, <2>4, <3>4
      <4> QED
        BY <2>1, <3>1, <4>1
    <3> QED
      BY <3>2, <3>3, <3>4
  <2> QED
    BY <2>3, <2>4
<1>9. ASSUME NEW i \in 2..m, i \div 2 = p, p > 1 PROVE qr[p \div 2] >= qr[i]
  <2>1. PICK g : g = p \div 2
    OBVIOUS
  <2>2. g \in 1..N /\ g < p /\ p \in 2..m /\ i \in 1..N
    BY <1>2, <1>9, <2>1, Half
  <2>3. qr[g] = pr[g] /\ pr[g] >= pr[p]
    <3>1. pr[p \div 2] >= pr[p]
      <4>1. p # j
        BY <1>2
      <4> QED
        BY <1>6, <2>2, <4>1, Zenon
    <3> QED
      BY <1>2, <1>5, <2>1, <2>2, <3>1
  <2>4. CASE i = j
    <3>1. qr[j] = pr[p] /\ qr[g] >= pr[p]
      BY <1>4, <2>3, Zenon
    <3> QED
      BY <2>1, <2>4, <3>1
  <2>5. CASE i # j
    <3>1. i # p
      BY <1>2, <1>9, Half
    <3>2. qr[i] = pr[i] /\ pr[p] >= pr[i]
      BY <1>5, <1>6, <1>9, <2>2, <2>5, <3>1
    <3>3. qr[g] \in Int /\ pr[p] \in Int /\ qr[i] \in Int
      BY <1>2, <1>3, <2>2
    <3>4. qr[g] >= qr[i]
      BY <2>3, <1>3, <2>2, <3>2, <3>3
    <3> QED
      BY <2>1, <3>4
  <2> QED
    BY <2>4, <2>5
<1> QED
  BY <1>1, <1>8, <1>9 DEF OrderedButUp, Bridged

\* The child an item sinks under is the greater one.
LEMMA OneDown ==
  ASSUME NEW N \in Nat, NEW m \in 0..N, NEW pr \in [1..N -> Int], NEW qr \in [1..N -> Int],
         NEW j \in 1..m, OrderedAround(pr, m, j), NEW c \in 2..m, c \div 2 = j, pr[c] > pr[j],
         \A i \in 2..m : i \div 2 = j => pr[c] >= pr[i],
         Exchanged(pr, qr, N, j, c)
  PROVE  OrderedButDown(qr, m, c)
<1>1. j < c /\ j \in 1..N /\ c \in 1..N /\ 1..m \subseteq 1..N
  BY Half
<1>2. \A k \in 1..N : pr[k] \in Int /\ qr[k] \in Int
  OBVIOUS
<1>3. qr[j] = pr[c] /\ qr[c] = pr[j]
  BY DEF Exchanged
<1>4. \A k \in 1..N : k # j /\ k # c => qr[k] = pr[k]
  BY DEF Exchanged
<1>5. \A i \in 2..m : i # j /\ i \div 2 # j => pr[i \div 2] >= pr[i]
  BY DEF OrderedAround
<1>6. ASSUME NEW i \in 2..m, i \div 2 # c PROVE qr[i \div 2] >= qr[i]
  <2>1. PICK h : h = i \div 2
    OBVIOUS
  <2>2. h \in 1..N /\ h < i /\ i \in 1..N /\ h # c
    BY <1>1, <1>6, <2>1, Half
  <2>3. CASE i = c
    <3>1. qr[j] >= qr[c]
      BY <1>1, <1>2, <1>3
    <3> QED
      BY <2>3, <3>1
  <2>4. CASE i # c /\ h = j
    <3>1. qr[i] = pr[i] /\ pr[c] >= pr[i]
      <4>1. i # j /\ i \div 2 = j
        BY <2>1, <2>2, <2>4
      <4>2. pr[c] >= pr[i]
        BY <4>1
      <4> QED
        BY <1>4, <2>2, <2>4, <4>1, <4>2
    <3>2. qr[j] >= qr[i]
      BY <1>1, <1>2, <1>3, <2>2, <3>1
    <3> QED
      BY <2>1, <2>4, <3>2
  <2>5. CASE i = j
    <3>1. pr[h] >= pr[c]
      BY <2>1, <2>5 DEF OrderedAround, Bridged
    <3>2. qr[h] = pr[h]
      BY <1>4, <2>2, <2>5
    <3> QED
      BY <1>3, <2>1, <2>5, <3>1, <3>2
  <2>6. CASE i # c /\ h # j /\ i # j
    <3>1. qr[i] = pr[i] /\ qr[h] = pr[h]
      BY <1>4, <2>2, <2>6
    <3>2. pr[h] >= pr[i]
      BY <1>5, <2>1, <2>6
    <3> QED
      BY <2>1, <3>1, <3>2
  <2> QED
    BY <2>3, <2>4, <2>5, <2>6
<1>7. ASSUME NEW i \in 2..m, i \div 2 = c PROVE qr[c \div 2] >= qr[i]
  <2>1. c < i /\ i \in 1..N
    BY <1>1, <1>7, Half
  <2>2. qr[i] = pr[i] /\ pr[c] >= pr[i]
    BY <1>1, <1>4, <1>5, <1>7, <2>1
  <2> QED
    BY <1>3, <2>2
<1> QED
  BY <1>6, <1>7 DEF OrderedButDown, Bridged

LEMMA Orders ==
  ASSUME NEW m \in Nat, NEW pr, NEW j \in Nat \ {0}
  PROVE  /\ OrderedButDown(pr, m, j) => OrderedAround(pr, m, j)
         /\ OrderedButUp(pr, m, j) => OrderedAround(pr, m, j)
         /\ OrderedButUp(pr, m, j) /\ (j = 1 \/ pr[j \div 2] >= pr[j]) => Ordered(pr, m)
         /\ OrderedButDown(pr, m, j) /\ (\A i \in 2..m : i \div 2 = j => pr[j] >= pr[i])
              => Ordered(pr, m)
         /\ OrderedAround(pr, m, j) /\ (\A i \in 2..m : i \div 2 = j => pr[j] >= pr[i])
              => OrderedButUp(pr, m, j)
<1>1. OrderedButDown(pr, m, j) => OrderedAround(pr, m, j)
  BY DEF OrderedButDown, OrderedAround
<1>2. OrderedButUp(pr, m, j) => OrderedAround(pr, m, j)
  BY DEF OrderedButUp, OrderedAround
<1>3. OrderedButUp(pr, m, j) /\ (j = 1 \/ pr[j \div 2] >= pr[j]) => Ordered(pr, m)
  BY DEF OrderedButUp, Ordered
<1>4. OrderedButDown(pr, m, j) /\ (\A i \in 2..m : i \div 2 = j => pr[j] >= pr[i]) => Ordered(pr, m)
  BY DEF OrderedButDown, Ordered
<1>5. OrderedAround(pr, m, j) /\ (\A i \in 2..m : i \div 2 = j => pr[j] >= pr[i])
        => OrderedButUp(pr, m, j)
  BY DEF OrderedButUp, OrderedAround
<1> QED
  BY <1>1, <1>2, <1>3, <1>4, <1>5

\* One position has changed, and the order holds but around it.
LEMMA OneChanged ==
  ASSUME NEW N \in Nat, NEW m \in 0..N, NEW pr \in [1..N -> Int], NEW qr \in [1..N -> Int],
         NEW j \in 1..N, \A k \in 1..m : k # j => qr[k] = pr[k], Ordered(pr, m)
  PROVE  OrderedAround(qr, m, j)
<1>1. \A k \in 1..N : pr[k] \in Int /\ qr[k] \in Int
  OBVIOUS
<1>2. ASSUME NEW i \in 2..m, i # j, i \div 2 # j PROVE qr[i \div 2] >= qr[i]
  <2>1. PICK h : h = i \div 2
    OBVIOUS
  <2>2. h \in 1..m /\ i \in 1..m
    BY <2>1, Half
  <2>3. pr[h] >= pr[i]
    BY <2>1 DEF Ordered
  <2>4. qr[h] = pr[h] /\ qr[i] = pr[i]
    BY <1>2, <2>1, <2>2
  <2> QED
    BY <2>1, <2>3, <2>4
<1>3. ASSUME NEW i \in 2..m, i \div 2 = j, j > 1 PROVE qr[j \div 2] >= qr[i]
  <2>1. PICK g : g = j \div 2
    OBVIOUS
  <2>2. g \in 1..m /\ g < j /\ j < i /\ i \in 1..m /\ j \in 2..m /\ g \in 1..N /\ i \in 1..N
    BY <1>3, <2>1, Half
  <2>3. pr[g] >= pr[j]
    BY <2>1, <2>2 DEF Ordered
  <2>4. pr[j] >= pr[i]
    BY <1>3 DEF Ordered
  <2>5. qr[g] = pr[g]
    BY <2>2
  <2>6. qr[i] = pr[i]
    BY <2>2
  <2>7. qr[g] >= qr[i]
    BY <1>1, <2>2, <2>3, <2>4, <2>5, <2>6
  <2> QED
    BY <2>1, <2>7
<1> QED
  BY <1>2, <1>3 DEF OrderedAround, Bridged

\* The root of an ordered heap is a greatest one.
LEMMA RootIsGreatest ==
  ASSUME NEW N \in Nat, NEW pr \in [1..N -> Int], Ordered(pr, N)
  PROVE  \A i \in 1..N : pr[1] >= pr[i]
<1> DEFINE T == {i \in 1..N : pr[i] > pr[1]}
<1> SUFFICES ASSUME T # {} PROVE FALSE
  OBVIOUS
<1>1. T \subseteq Nat
  OBVIOUS
<1>2. PICK i \in T : \A j \in T : i <= j
  <2> HIDE DEF T
  <2> QED
    BY <1>1, LeastNumber
<1>3. i \in 2..N
  OBVIOUS
<1>4. PICK h : h = i \div 2
  OBVIOUS
<1>5. h \in 1..N /\ h < i
  BY <1>3, <1>4, Half
<1>6. pr[h] >= pr[i]
  BY <1>3, <1>4 DEF Ordered
<1>7. pr[h] \in Int /\ pr[i] \in Int /\ pr[1] \in Int /\ pr[i] > pr[1]
  BY <1>3, <1>5
<1>8. h \in T
  BY <1>5, <1>6, <1>7
<1> QED
  BY <1>2, <1>5, <1>8

-----------------------------------------------------------------------------
\* The heap and its items: each item is where it says it is.

Item == [value : Values, priority : Priorities, index : Nat]

WellFormed(s) ==
  /\ s.heap \in Seq(Keys)
  /\ s.items \in [DOMAIN s.items -> Item]
  /\ \A i \in 1..Len(s.heap) : s.heap[i] \in DOMAIN s.items /\ s.items[s.heap[i]].index = i
  /\ \A k \in DOMAIN s.items : s.items[k].index \in 1..Len(s.heap) /\ s.heap[s.items[k].index] = k

Prios(s) == [i \in 1..Len(s.heap) |-> s.items[s.heap[i]].priority]

\* Only positions change, and only those up to m.
SameItem(it, jt) == jt.value = it.value /\ jt.priority = it.priority
Kept(s, t, m) ==
  /\ Len(t.heap) = Len(s.heap)
  /\ DOMAIN t.items = DOMAIN s.items
  /\ \A k \in DOMAIN s.items : SameItem(s.items[k], t.items[k])
  /\ \A i \in (m + 1)..Len(s.heap) : t.heap[i] = s.heap[i]

LEMMA KeptOn ==
  ASSUME NEW s, NEW t, NEW u, NEW m, Kept(s, t, m), Kept(t, u, m)
  PROVE  Kept(s, u, m)
BY DEF Kept, SameItem

LEMMA Lengths ==
  ASSUME NEW s, WellFormed(s)
  PROVE  /\ Len(s.heap) \in Nat /\ DOMAIN s.heap = 1..Len(s.heap)
         /\ \A i \in 1..Len(s.heap) : s.heap[i] \in Keys
         /\ \A i, j \in 1..Len(s.heap) : s.heap[i] = s.heap[j] => i = j
         /\ Prios(s) \in [1..Len(s.heap) -> Int]
<1>1. Len(s.heap) \in Nat /\ DOMAIN s.heap = 1..Len(s.heap) /\ s.heap \in [1..Len(s.heap) -> Keys]
  BY LenProperties DEF WellFormed
<1>2. \A i \in 1..Len(s.heap) : s.items[s.heap[i]] \in Item
  BY DEF WellFormed
<1>3. \A i \in 1..Len(s.heap) : s.items[s.heap[i]].priority \in Int
  BY <1>2, QueueConstants DEF Item
<1>4. \A i, j \in 1..Len(s.heap) : s.heap[i] = s.heap[j] => i = j
  BY DEF WellFormed
<1> QED
  BY <1>1, <1>3, <1>4 DEF Prios

LEMMA ItemMoved ==
  ASSUME NEW it \in Item, NEW i \in Nat
  PROVE  LET jt == [it EXCEPT !.index = i]
         IN  jt \in Item /\ jt.index = i /\ SameItem(it, jt)
BY DEF Item, SameItem

LEMMA SwapWorks ==
  ASSUME NEW s, WellFormed(s), NEW i \in 1..Len(s.heap), NEW j \in 1..Len(s.heap),
         NEW t, t.heap = Swap(s, i, j).heap, t.items = Swap(s, i, j).items
  PROVE  /\ WellFormed(t)
         /\ Len(t.heap) = Len(s.heap) /\ DOMAIN t.items = DOMAIN s.items
         /\ \A k \in DOMAIN s.items : SameItem(s.items[k], t.items[k])
         /\ \A k \in 1..Len(s.heap) : k # i /\ k # j => t.heap[k] = s.heap[k]
         /\ Exchanged(Prios(s), Prios(t), Len(s.heap), i, j)
<1> DEFINE n == Len(s.heap)
<1>0. n \in Nat /\ DOMAIN s.heap = 1..n /\ (\A k \in 1..n : s.heap[k] \in Keys)
      /\ \A x, y \in 1..n : s.heap[x] = s.heap[y] => x = y
  BY Lengths
<1>1. t.heap = [s.heap EXCEPT ![i] = s.heap[j], ![j] = s.heap[i]]
  BY DEF Swap
<1>2. /\ Len(t.heap) = n /\ t.heap \in Seq(Keys)
      /\ t.heap[i] = s.heap[j] /\ t.heap[j] = s.heap[i]
      /\ \A k \in 1..n : k # i /\ k # j => t.heap[k] = s.heap[k]
  <2>1. PICK u : u = [s.heap EXCEPT ![i] = s.heap[j]]
    OBVIOUS
  <2>2. u \in Seq(Keys) /\ Len(u) = n /\ \A k \in 1..n : u[k] = IF k = i THEN s.heap[j] ELSE s.heap[k]
    BY <1>0, <2>1, ExceptSeq DEF WellFormed
  <2>3. t.heap = [u EXCEPT ![j] = s.heap[i]]
    BY <1>1, <2>1
  <2>4. t.heap \in Seq(Keys) /\ Len(t.heap) = n
        /\ \A k \in 1..n : t.heap[k] = IF k = j THEN s.heap[i] ELSE u[k]
    BY <1>0, <2>2, <2>3, ExceptSeq
  <2> QED
    BY <2>2, <2>4
<1>3. /\ DOMAIN t.items = DOMAIN s.items
      /\ \A k \in DOMAIN s.items :
           t.items[k] = CASE k = s.heap[j] -> [s.items[k] EXCEPT !.index = i]
                          [] k = s.heap[i] /\ i # j -> [s.items[k] EXCEPT !.index = j]
                          [] OTHER -> s.items[k]
  BY DEF Swap
<1>4. \A k \in DOMAIN s.items :
        /\ t.items[k] \in Item /\ SameItem(s.items[k], t.items[k])
        /\ t.items[k].index = IF k = s.heap[j] THEN i ELSE IF k = s.heap[i] THEN j
                                                ELSE s.items[k].index
  <2> SUFFICES ASSUME NEW k \in DOMAIN s.items
               PROVE  /\ t.items[k] \in Item /\ SameItem(s.items[k], t.items[k])
                      /\ t.items[k].index = IF k = s.heap[j] THEN i ELSE IF k = s.heap[i] THEN j
                                                              ELSE s.items[k].index
    OBVIOUS
  <2>1. s.items[k] \in Item
    BY DEF WellFormed
  <2>2. CASE k = s.heap[j]
    <3>1. ~ (k = s.heap[i] /\ i # j)
      BY <1>0, <2>2
    <3>2. t.items[k] = [s.items[k] EXCEPT !.index = i]
      BY <1>3, <2>2, <3>1
    <3> QED
      BY <2>1, <2>2, <3>2, ItemMoved
  <2>3. CASE k # s.heap[j] /\ k = s.heap[i]
    <3>1. t.items[k] = [s.items[k] EXCEPT !.index = j]
      BY <1>3, <2>3
    <3> QED
      BY <2>1, <2>3, <3>1, ItemMoved
  <2>4. CASE k # s.heap[j] /\ k # s.heap[i]
    <3>1. t.items[k] = s.items[k]
      BY <1>3, <2>4
    <3> QED
      BY <2>1, <2>4, <3>1 DEF SameItem
  <2> QED
    BY <2>2, <2>3, <2>4
<1>5. t.items \in [DOMAIN t.items -> Item]
  <2>1. PICK f : f = t.items
    OBVIOUS
  <2>2. f = [k \in DOMAIN s.items |->
                CASE k = s.heap[j] -> [s.items[k] EXCEPT !.index = i]
                  [] k = s.heap[i] /\ i # j -> [s.items[k] EXCEPT !.index = j]
                  [] OTHER -> s.items[k]]
    BY <2>1 DEF Swap
  <2>3. f = [k \in DOMAIN f |-> f[k]]
    BY <2>2
  <2>4. \A k \in DOMAIN f : f[k] \in Item
    BY <1>3, <1>4, <2>1
  <2>5. f \in [DOMAIN f -> Item]
    BY <2>3, <2>4
  <2> QED
    BY <2>1, <2>5
<1>6. \A k \in 1..n : t.heap[k] \in DOMAIN t.items /\ t.items[t.heap[k]].index = k
  <2> SUFFICES ASSUME NEW k \in 1..n PROVE t.heap[k] \in DOMAIN t.items /\ t.items[t.heap[k]].index = k
    OBVIOUS
  <2>1. s.heap[k] \in DOMAIN s.items /\ s.heap[i] \in DOMAIN s.items /\ s.heap[j] \in DOMAIN s.items
        /\ s.items[s.heap[k]].index = k
    BY DEF WellFormed
  <2>2. CASE k = i
    BY <1>2, <1>3, <1>4, <2>1, <2>2
  <2>3. CASE k = j /\ k # i
    <3>1. s.heap[i] # s.heap[j]
      BY <1>0, <2>3
    <3> QED
      BY <1>2, <1>3, <1>4, <2>1, <2>3, <3>1
  <2>4. CASE k # j /\ k # i
    <3>1. s.heap[k] # s.heap[j] /\ s.heap[k] # s.heap[i]
      BY <1>0, <2>4
    <3> QED
      BY <1>2, <1>3, <1>4, <2>1, <2>4, <3>1
  <2> QED
    BY <2>2, <2>3, <2>4
<1>7. \A k \in DOMAIN t.items : t.items[k].index \in 1..n /\ t.heap[t.items[k].index] = k
  <2> SUFFICES ASSUME NEW k \in DOMAIN s.items
               PROVE  t.items[k].index \in 1..n /\ t.heap[t.items[k].index] = k
    BY <1>3
  <2>1. s.items[k].index \in 1..n /\ s.heap[s.items[k].index] = k
    BY DEF WellFormed
  <2>2. CASE k = s.heap[j]
    BY <1>2, <1>4, <2>2
  <2>3. CASE k # s.heap[j] /\ k = s.heap[i]
    BY <1>2, <1>4, <2>3
  <2>4. CASE k # s.heap[j] /\ k # s.heap[i]
    <3>1. s.items[k].index # i /\ s.items[k].index # j
      BY <2>1, <2>4
    <3> QED
      BY <1>2, <1>4, <2>1, <2>4, <3>1
  <2> QED
    BY <2>2, <2>3, <2>4
<1>8. WellFormed(t)
  BY <1>2, <1>5, <1>6, <1>7 DEF WellFormed
<1>9. Exchanged(Prios(s), Prios(t), n, i, j)
  <2>1. \A k \in 1..n : Prios(t)[k] = t.items[t.heap[k]].priority
    BY <1>2 DEF Prios
  <2>2. \A k \in 1..n : Prios(s)[k] = s.items[s.heap[k]].priority /\ s.heap[k] \in DOMAIN s.items
    BY DEF Prios, WellFormed
  <2>3. \A k \in DOMAIN s.items : t.items[k].priority = s.items[k].priority
    BY <1>4 DEF SameItem
  <2> QED
    BY <1>2, <2>1, <2>2, <2>3 DEF Exchanged
<1> QED
  BY <1>2, <1>3, <1>4, <1>8, <1>9

-----------------------------------------------------------------------------
\* up.

LEMMA Placed ==
  ASSUME NEW s, WellFormed(s), NEW i, NEW m
  PROVE  WellFormed(At(s, i)) /\ Kept(s, At(s, i), m) /\ Prios(At(s, i)) = Prios(s)
BY DEF WellFormed, Kept, SameItem, Prios, At

\* A turn of a loop that swaps two of the first m positions.
LEMMA SwapKept ==
  ASSUME NEW s, WellFormed(s), NEW m \in 0..Len(s.heap), NEW i \in 1..m, NEW j \in 1..m, NEW k,
         NEW t, t = At(Swap(s, i, j), k)
  PROVE  /\ WellFormed(t) /\ Kept(s, t, m) /\ t.at = k
         /\ t = [heap |-> t.heap, items |-> t.items, at |-> k]
         /\ Exchanged(Prios(s), Prios(t), Len(s.heap), i, j)
<1>1. t.heap = Swap(s, i, j).heap /\ t.items = Swap(s, i, j).items /\ t.at = k
      /\ t = [heap |-> t.heap, items |-> t.items, at |-> k]
  BY DEF At
<1>2. i \in 1..Len(s.heap) /\ j \in 1..Len(s.heap) /\ Len(s.heap) \in Nat
  BY Lengths
<1>3. /\ WellFormed(t) /\ Len(t.heap) = Len(s.heap) /\ DOMAIN t.items = DOMAIN s.items
      /\ \A x \in DOMAIN s.items : SameItem(s.items[x], t.items[x])
      /\ \A x \in 1..Len(s.heap) : x # i /\ x # j => t.heap[x] = s.heap[x]
      /\ Exchanged(Prios(s), Prios(t), Len(s.heap), i, j)
  BY <1>1, <1>2, SwapWorks
<1>4. \A x \in (m + 1)..Len(s.heap) : t.heap[x] = s.heap[x]
  BY <1>2, <1>3
<1> QED
  BY <1>1, <1>3, <1>4 DEF Kept

UpStates(s, m) ==
  {x \in [heap : Seq(Keys), items : [DOMAIN s.items -> Item], at : 1..m] :
     WellFormed(x) /\ Kept(s, x, m) /\ OrderedButUp(Prios(x), m, x.at)}

LEMMA UpTurns ==
  ASSUME NEW s, WellFormed(s), NEW m \in 0..Len(s.heap), NEW x \in UpStates(s, m)
  PROVE  /\ UpTurn(x) \in UpStates(s, m)
         /\ UpTurn(x) = x => Ordered(Prios(x), m)
         /\ UpTurn(x) = x \/ UpTurn(x).at < x.at
<1>1. /\ x.at \in 1..m /\ WellFormed(x) /\ Kept(s, x, m) /\ OrderedButUp(Prios(x), m, x.at)
      /\ Len(x.heap) = Len(s.heap) /\ DOMAIN x.items = DOMAIN s.items
  BY DEF UpStates, Kept
<1>2. PICK p : p = x.at \div 2
  OBVIOUS
<1>3. Len(x.heap) \in Nat /\ m \in 0..Len(x.heap) /\ Prios(x) \in [1..Len(x.heap) -> Int]
  BY <1>1, Lengths
<1>4. CASE x.at > 1 /\ Less(x, x.at, p)
  <2>1. p \in 1..m /\ p < x.at /\ x.at \in 2..m /\ p \in 1..Len(x.heap) /\ x.at \in 1..Len(x.heap)
    BY <1>1, <1>2, <1>3, <1>4, Half
  <2>2. PICK t : t = At(Swap(x, p, x.at), p)
    OBVIOUS
  <2>3. UpTurn(x) = t
    BY <1>2, <1>4, <2>2 DEF UpTurn
  <2>4. /\ WellFormed(t) /\ Kept(x, t, m) /\ t.at = p
        /\ t = [heap |-> t.heap, items |-> t.items, at |-> p]
        /\ Exchanged(Prios(x), Prios(t), Len(x.heap), p, x.at)
    BY <1>1, <1>3, <2>1, <2>2, SwapKept
  <2>5. Prios(x)[x.at] > Prios(x)[p]
    BY <1>4, <2>1 DEF Less, Prios
  <2>6. Len(t.heap) = Len(x.heap) /\ Prios(t) \in [1..Len(x.heap) -> Int]
    BY <2>4, Lengths DEF Kept
  <2>7. OrderedButUp(Prios(t), m, p)
    BY <1>1, <1>2, <1>3, <2>1, <2>4, <2>5, <2>6, OneUp
  <2>8. Kept(s, t, m) /\ DOMAIN t.items = DOMAIN s.items
    <3>1. Kept(s, t, m)
      BY <1>1, <2>4, KeptOn
    <3> QED
      BY <3>1 DEF Kept
  <2>9. t \in [heap : Seq(Keys), items : [DOMAIN s.items -> Item], at : 1..m]
    BY <2>1, <2>4, <2>8 DEF WellFormed
  <2> QED
    BY <2>1, <2>3, <2>4, <2>7, <2>8, <2>9 DEF UpStates
<1>5. CASE ~ (x.at > 1 /\ Less(x, x.at, p))
  <2>1. UpTurn(x) = x
    BY <1>2, <1>5 DEF UpTurn
  <2>2. x.at = 1 \/ Prios(x)[p] >= Prios(x)[x.at]
    <3>1. CASE x.at = 1
      BY <3>1
    <3>2. CASE x.at # 1
      <4>1. x.at > 1 /\ x.at \in 1..Len(x.heap) /\ p \in 1..Len(x.heap)
        BY <1>1, <1>2, <1>3, <3>2, Half
      <4>2. ~ (Prios(x)[x.at] > Prios(x)[p])
        BY <1>5, <4>1 DEF Less, Prios
      <4>3. Prios(x)[x.at] \in Int /\ Prios(x)[p] \in Int
        BY <1>3, <4>1
      <4> QED
        BY <4>2, <4>3
    <3> QED
      BY <3>1, <3>2
  <2>3. Ordered(Prios(x), m)
    BY <1>1, <1>2, <1>3, <2>2, Orders
  <2> QED
    BY <2>1, <2>3
<1> QED
  BY <1>4, <1>5

LEMMA UpWorks ==
  ASSUME NEW s, WellFormed(s), NEW m \in 0..Len(s.heap), NEW i \in 1..m,
         OrderedButUp(Prios(s), m, i)
  PROVE  WellFormed(Up(s, i)) /\ Kept(s, Up(s, i), m) /\ Ordered(Prios(Up(s, i)), m)
<1>1. PICK S : S = UpStates(s, m)
  OBVIOUS
<1>2. Len(s.heap) \in Nat
  BY Lengths
<1>3. PICK a : a = At(s, i)
  OBVIOUS
<1>4. a \in S
  <2>1. a \in [heap : Seq(Keys), items : [DOMAIN s.items -> Item], at : 1..m]
    BY <1>3 DEF At, WellFormed
  <2>2. WellFormed(a) /\ Kept(s, a, m) /\ Prios(a) = Prios(s) /\ a.at = i
    BY <1>3, Placed DEF At
  <2> QED
    BY <1>1, <2>1, <2>2 DEF UpStates
<1> DEFINE step == [x \in S |-> UpTurn(x)]
           rank == [x \in S |-> x.at]
           Turns(g) == g = [k \in Nat |-> IF k = 0 THEN a ELSE UpTurn(g[k - 1])]
<1>5. step \in [S -> S] /\ \A x \in S : step[x] = UpTurn(x)
  BY <1>1, UpTurns
<1>6. rank \in [S -> Nat] /\ \A x \in S : rank[x] = x.at
  BY <1>1 DEF UpStates
<1> HIDE DEF step, rank
<1>7. \E g : Turns(g)
  <2>1. PICK f : Loop(f, S, step, a)
    BY <1>4, <1>5, LoopExists
  <2>2. f \in [Nat -> S] /\ f[0] = a /\ \A n \in Nat : f[n + 1] = step[f[n]]
    BY <2>1 DEF Loop
  <2>3. ASSUME NEW k \in Nat PROVE f[k] = IF k = 0 THEN a ELSE UpTurn(f[k - 1])
    <3>1. CASE k = 0
      BY <2>2, <3>1
    <3>2. CASE k # 0
      <4>1. PICK n \in Nat : n = k - 1
        BY <3>2
      <4>2. k = n + 1
        BY <4>1
      <4>3. f[n + 1] = step[f[n]] /\ f[n] \in S
        BY <2>2
      <4> QED
        BY <1>5, <3>2, <4>1, <4>2, <4>3
    <3> QED
      BY <3>1, <3>2
  <2>4. f = [k \in Nat |-> f[k]]
    BY <2>2
  <2>5. f = [k \in Nat |-> IF k = 0 THEN a ELSE UpTurn(f[k - 1])]
    BY <2>3, <2>4
  <2> QED
    BY <2>5
<1>8. PICK g : g = CHOOSE h : Turns(h)
  OBVIOUS
<1>9. Turns(g)
  BY <1>7, <1>8
<1>10. g[0] = a /\ \A n \in Nat : g[n + 1] = UpTurn(g[n])
  BY <1>9
<1>11. Up(s, i) = g[Len(s.heap)]
  BY <1>3, <1>8 DEF Up
<1>12. Loop(g, S, step, a)
  <2> DEFINE T == {n \in Nat : g[n] \in S}
  <2>1. 0 \in T
    BY <1>4, <1>10
  <2>2. ASSUME NEW n \in Nat, n \in T PROVE n + 1 \in T
    <3>1. UpTurn(g[n]) \in S
      BY <1>1, <2>2, UpTurns
    <3>2. g[n + 1] \in S
      BY <1>10, <3>1
    <3> QED
      BY <3>2
  <2>3. Nat \subseteq T
    <3> HIDE DEF T
    <3> QED
      BY <2>1, <2>2, Induction
  <2>4. g \in [Nat -> S]
    <3>1. g = [k \in Nat |-> g[k]]
      BY <1>9
    <3> QED
      BY <2>3, <3>1
  <2>5. \A n \in Nat : g[n + 1] = step[g[n]]
    BY <1>5, <1>10, <2>3
  <2> QED
    BY <1>10, <2>4, <2>5 DEF Loop
<1>13. \A x \in S : step[x] = x \/ rank[step[x]] < rank[x]
  BY <1>1, <1>5, <1>6, UpTurns
<1>14. rank[a] <= Len(s.heap)
  BY <1>2, <1>3, <1>4, <1>6 DEF At
<1>15. PICK x : x = g[Len(s.heap)]
  OBVIOUS
<1> HIDE DEF Turns
<1>16. x \in S /\ step[x] = x
  <2>1. PICK N \in Nat : N = Len(s.heap)
    BY <1>2
  <2>2. step \in [S -> S] /\ rank \in [S -> Nat] /\ rank[a] <= N
    BY <1>5, <1>6, <1>14, <2>1
  <2>3. g[N] \in S /\ step[g[N]] = g[N]
    BY <1>4, <1>12, <1>13, <2>2, LoopEnds
  <2> QED
    BY <1>15, <2>1, <2>3
<1>17. WellFormed(x) /\ Kept(s, x, m) /\ Ordered(Prios(x), m)
  BY <1>1, <1>5, <1>16, UpTurns DEF UpStates
<1> QED
  BY <1>11, <1>15, <1>17

-----------------------------------------------------------------------------
\* down.

\* Nothing is left to do below j.
AboveChildren(pr, m, j) == \A k \in 2..m : k \div 2 = j => pr[j] >= pr[k]

DownStates(s, m, i) ==
  {x \in [heap : Seq(Keys), items : [DOMAIN s.items -> Item], at : i..Len(s.heap)] :
     /\ WellFormed(x) /\ Kept(s, x, m)
     /\ OrderedAround(Prios(x), m, x.at)
     /\ x.at = i => x = At(s, i)
     /\ x.at > i => OrderedButDown(Prios(x), m, x.at)}

\* The child that down compares with.
GreaterChild(s, n, j) ==
  IF 2 * j + 1 <= n /\ Less(s, 2 * j + 1, 2 * j) THEN 2 * j + 1 ELSE 2 * j

LEMMA GreaterChildIs ==
  ASSUME NEW x, WellFormed(x), NEW m \in 0..Len(x.heap), NEW j \in Nat \ {0}, 2 * j <= m,
         NEW c, c = GreaterChild(x, m, j)
  PROVE  /\ c \in 2..m /\ c \div 2 = j /\ j < c /\ j \in 1..m
         /\ \A k \in 2..m : k \div 2 = j => Prios(x)[c] >= Prios(x)[k]
<1>1. Len(x.heap) \in Nat /\ Prios(x) \in [1..Len(x.heap) -> Int]
  BY Lengths
<1>2. c \in {2 * j, 2 * j + 1} /\ c \in 2..m
  BY <1>1 DEF GreaterChild
<1>3. c \div 2 = j /\ j < c /\ j \in 1..m
  BY <1>1, <1>2, Children
<1>4. ASSUME NEW k \in 2..m, k \div 2 = j PROVE Prios(x)[c] >= Prios(x)[k]
  <2>1. k = 2 * j \/ k = 2 * j + 1
    BY <1>1, <1>4, Children
  <2>2. k \in 1..Len(x.heap) /\ c \in 1..Len(x.heap) /\ 2 * j \in 1..Len(x.heap)
    BY <1>1, <1>2
  <2>3. Prios(x)[k] \in Int /\ Prios(x)[c] \in Int
    BY <1>1, <2>2
  <2>4. CASE k = c
    BY <2>3, <2>4
  <2>5. CASE k # c /\ k = 2 * j
    <3>1. c = 2 * j + 1 /\ Less(x, c, k)
      BY <1>2, <2>5 DEF GreaterChild
    <3>2. Prios(x)[c] > Prios(x)[k]
      BY <2>2, <3>1 DEF Less, Prios
    <3> QED
      BY <2>3, <3>2
  <2>6. CASE k # c /\ k = 2 * j + 1
    <3>1. c = 2 * j /\ ~Less(x, k, c)
      BY <1>1, <1>2, <2>6 DEF GreaterChild
    <3>2. ~ (Prios(x)[k] > Prios(x)[c])
      BY <2>2, <3>1 DEF Less, Prios
    <3> QED
      BY <2>3, <3>2
  <2> QED
    BY <2>1, <2>4, <2>5, <2>6
<1> QED
  BY <1>2, <1>3, <1>4

LEMMA DownTurns ==
  ASSUME NEW s, WellFormed(s), NEW m \in 0..Len(s.heap), NEW i \in 1..Len(s.heap),
         NEW x \in DownStates(s, m, i)
  PROVE  /\ DownTurn(x, m) \in DownStates(s, m, i)
         /\ DownTurn(x, m) = x => AboveChildren(Prios(x), m, x.at)
         /\ DownTurn(x, m) = x \/ DownTurn(x, m).at > x.at
<1>1. /\ x.at \in i..Len(s.heap) /\ WellFormed(x) /\ Kept(s, x, m)
      /\ OrderedAround(Prios(x), m, x.at)
      /\ Len(x.heap) = Len(s.heap) /\ DOMAIN x.items = DOMAIN s.items
  BY DEF DownStates, Kept
<1>2. /\ Len(s.heap) \in Nat /\ m \in 0..Len(x.heap) /\ Prios(x) \in [1..Len(x.heap) -> Int]
      /\ x.at \in Nat \ {0} /\ x.at \in 1..Len(x.heap)
  BY <1>1, Lengths
<1>3. PICK c : c = GreaterChild(x, m, x.at)
  OBVIOUS
<1>4. DownTurn(x, m) = IF 2 * x.at <= m /\ Less(x, c, x.at) THEN At(Swap(x, x.at, c), c) ELSE x
  BY <1>3 DEF DownTurn, GreaterChild
<1>5. CASE 2 * x.at <= m /\ Less(x, c, x.at)
  <2>1. /\ c \in 2..m /\ c \div 2 = x.at /\ x.at < c /\ x.at \in 1..m
        /\ \A k \in 2..m : k \div 2 = x.at => Prios(x)[c] >= Prios(x)[k]
    BY <1>1, <1>2, <1>3, <1>5, GreaterChildIs
  <2>2. PICK t : t = At(Swap(x, x.at, c), c)
    OBVIOUS
  <2>3. DownTurn(x, m) = t
    BY <1>4, <1>5, <2>2
  <2>4. c \in 1..m /\ c \in 1..Len(x.heap) /\ c \in i..Len(s.heap) /\ c > i
    BY <1>1, <1>2, <2>1
  <2>5. /\ WellFormed(t) /\ Kept(x, t, m) /\ t.at = c
        /\ t = [heap |-> t.heap, items |-> t.items, at |-> c]
        /\ Exchanged(Prios(x), Prios(t), Len(x.heap), x.at, c)
    BY <1>1, <1>2, <2>1, <2>2, <2>4, SwapKept
  <2>6. Prios(x)[c] > Prios(x)[x.at]
    BY <1>2, <1>5, <2>4 DEF Less, Prios
  <2>7. Len(t.heap) = Len(x.heap) /\ Prios(t) \in [1..Len(x.heap) -> Int]
    BY <2>5, Lengths DEF Kept
  <2>8. OrderedButDown(Prios(t), m, c)
    BY <1>1, <1>2, <2>1, <2>5, <2>6, <2>7, OneDown
  <2>9. OrderedAround(Prios(t), m, c)
    BY <1>2, <2>1, <2>8, Orders
  <2>10. Kept(s, t, m)
    BY <1>1, <2>5, KeptOn
  <2>11. DOMAIN t.items = DOMAIN s.items
    BY <2>10 DEF Kept
  <2>12. t \in [heap : Seq(Keys), items : [DOMAIN s.items -> Item], at : i..Len(s.heap)]
    BY <2>4, <2>5, <2>11 DEF WellFormed
  <2>13. t \in DownStates(s, m, i)
    BY <2>4, <2>5, <2>8, <2>9, <2>10, <2>12 DEF DownStates
  <2>14. t # x /\ t.at > x.at
    BY <1>2, <2>1, <2>5
  <2> QED
    BY <2>3, <2>13, <2>14
<1>6. CASE ~ (2 * x.at <= m /\ Less(x, c, x.at))
  <2>1. DownTurn(x, m) = x
    BY <1>4, <1>6
  <2>2. ASSUME NEW k \in 2..m, k \div 2 = x.at PROVE Prios(x)[x.at] >= Prios(x)[k]
    <3>0. PICK j \in Nat \ {0} : j = x.at
      BY <1>2
    <3>1. 2 * j <= m
      <4>1. k = 2 * j \/ k = 2 * j + 1
        BY <2>2, <3>0, Children
      <4>2. m \in Nat
        BY <1>2
      <4> QED
        BY <4>1, <4>2
    <3>2. c \in 2..m /\ Prios(x)[c] >= Prios(x)[k]
      <4>1. c = GreaterChild(x, m, j) /\ k \div 2 = j
        BY <1>3, <2>2, <3>0
      <4>2. WellFormed(x) /\ m \in 0..Len(x.heap)
        BY <1>1, <1>2
      <4>3. c \in 2..m /\ \A y \in 2..m : y \div 2 = j => Prios(x)[c] >= Prios(x)[y]
        BY <3>1, <4>1, <4>2, GreaterChildIs
      <4> QED
        BY <4>1, <4>3
    <3>3. c \in 1..Len(x.heap) /\ k \in 1..Len(x.heap)
      BY <1>2, <3>2
    <3>4. ~ (Prios(x)[c] > Prios(x)[x.at])
      BY <1>2, <1>6, <3>0, <3>1, <3>3 DEF Less, Prios
    <3>5. Prios(x)[c] \in Int /\ Prios(x)[k] \in Int /\ Prios(x)[x.at] \in Int
      BY <1>2, <3>3
    <3> QED
      BY <3>2, <3>4, <3>5
  <2> QED
    BY <2>1, <2>2 DEF AboveChildren
<1> QED
  BY <1>5, <1>6

\* Down reports with the position it ends at whether anything has moved; if
\* nothing has, the item is in order with its children.
LEMMA DownWorks ==
  ASSUME NEW s, WellFormed(s), NEW m \in 0..Len(s.heap), NEW i \in 1..Len(s.heap),
         OrderedAround(Prios(s), m, i), NEW d, d = Down(s, i, m)
  PROVE  /\ WellFormed(d) /\ Kept(s, d, m) /\ d.at \in i..Len(s.heap)
         /\ d.at > i => Ordered(Prios(d), m)
         /\ d.at = i => Prios(d) = Prios(s) /\ OrderedButUp(Prios(s), m, i)
<1>1. PICK S : S = DownStates(s, m, i)
  OBVIOUS
<1>2. Len(s.heap) \in Nat
  BY Lengths
<1>3. PICK a : a = At(s, i)
  OBVIOUS
<1>4. a \in S
  <2>1. a \in [heap : Seq(Keys), items : [DOMAIN s.items -> Item], at : i..Len(s.heap)]
    BY <1>2, <1>3 DEF At, WellFormed
  <2>2. WellFormed(a) /\ Kept(s, a, m) /\ Prios(a) = Prios(s) /\ a.at = i
    BY <1>3, Placed DEF At
  <2> QED
    BY <1>1, <1>2, <1>3, <2>1, <2>2 DEF DownStates
<1> DEFINE step == [x \in S |-> DownTurn(x, m)]
           rank == [x \in S |-> Len(s.heap) - x.at]
           Turns(g) == g = [k \in Nat |-> IF k = 0 THEN a ELSE DownTurn(g[k - 1], m)]
<1>5. step \in [S -> S] /\ \A x \in S : step[x] = DownTurn(x, m)
  BY <1>1, DownTurns
<1>6. rank \in [S -> Nat] /\ \A x \in S : rank[x] = Len(s.heap) - x.at
  <2>1. \A x \in S : x.at \in i..Len(s.heap)
    BY <1>1 DEF DownStates
  <2> QED
    BY <1>2, <2>1
<1> HIDE DEF step, rank
<1>7. \E g : Turns(g)
  <2>1. PICK f : Loop(f, S, step, a)
    BY <1>4, <1>5, LoopExists
  <2>2. f \in [Nat -> S] /\ f[0] = a /\ \A n \in Nat : f[n + 1] = step[f[n]]
    BY <2>1 DEF Loop
  <2>3. ASSUME NEW k \in Nat PROVE f[k] = IF k = 0 THEN a ELSE DownTurn(f[k - 1], m)
    <3>1. CASE k = 0
      BY <2>2, <3>1
    <3>2. CASE k # 0
      <4>1. PICK n \in Nat : n = k - 1
        BY <3>2
      <4>2. k = n + 1
        BY <4>1
      <4>3. f[n + 1] = step[f[n]] /\ f[n] \in S
        BY <2>2
      <4> QED
        BY <1>5, <3>2, <4>1, <4>2, <4>3
    <3> QED
      BY <3>1, <3>2
  <2>4. f = [k \in Nat |-> f[k]]
    BY <2>2
  <2>5. f = [k \in Nat |-> IF k = 0 THEN a ELSE DownTurn(f[k - 1], m)]
    BY <2>3, <2>4
  <2> QED
    BY <2>5
<1>8. PICK g : g = CHOOSE h : Turns(h)
  OBVIOUS
<1>9. Turns(g)
  BY <1>7, <1>8
<1>10. g[0] = a /\ \A n \in Nat : g[n + 1] = DownTurn(g[n], m)
  BY <1>9
<1>11. d = g[Len(s.heap)]
  BY <1>3, <1>8 DEF Down
<1>12. Loop(g, S, step, a)
  <2> DEFINE T == {n \in Nat : g[n] \in S}
  <2>1. 0 \in T
    BY <1>4, <1>10
  <2>2. ASSUME NEW n \in Nat, n \in T PROVE n + 1 \in T
    <3>1. DownTurn(g[n], m) \in S
      BY <1>1, <2>2, DownTurns
    <3>2. g[n + 1] \in S
      BY <1>10, <3>1
    <3> QED
      BY <3>2
  <2>3. Nat \subseteq T
    <3> HIDE DEF T
    <3> QED
      BY <2>1, <2>2, Induction
  <2>4. g \in [Nat -> S]
    <3>1. g = [k \in Nat |-> g[k]]
      BY <1>9
    <3> QED
      BY <2>3, <3>1
  <2>5. \A n \in Nat : g[n + 1] = step[g[n]]
    BY <1>5, <1>10, <2>3
  <2> QED
    BY <1>10, <2>4, <2>5 DEF Loop
<1>13. \A x \in S : step[x] = x \/ rank[step[x]] < rank[x]
  <2> SUFFICES ASSUME NEW x \in S, step[x] # x PROVE rank[step[x]] < rank[x]
    OBVIOUS
  <2>1. PICK y \in S : y = step[x]
    BY <1>5
  <2>2. y.at > x.at
    BY <1>1, <1>5, <2>1, DownTurns
  <2>3. y.at \in i..Len(s.heap) /\ x.at \in i..Len(s.heap)
    BY <1>1 DEF DownStates
  <2> QED
    BY <1>2, <1>6, <2>1, <2>2, <2>3
<1>14. rank[a] <= Len(s.heap)
  BY <1>2, <1>3, <1>4, <1>6 DEF At
<1> HIDE DEF Turns
<1>15. d \in S /\ step[d] = d
  <2>1. PICK N \in Nat : N = Len(s.heap)
    BY <1>2
  <2>2. step \in [S -> S] /\ rank \in [S -> Nat] /\ rank[a] <= N
    BY <1>5, <1>6, <1>14, <2>1
  <2>3. g[N] \in S /\ step[g[N]] = g[N]
    BY <1>4, <1>12, <1>13, <2>2, LoopEnds
  <2> QED
    BY <1>11, <2>1, <2>3
<1>16. AboveChildren(Prios(d), m, d.at)
  BY <1>1, <1>5, <1>15, DownTurns
<1>17. /\ WellFormed(d) /\ Kept(s, d, m) /\ d.at \in i..Len(s.heap)
       /\ OrderedAround(Prios(d), m, d.at)
       /\ d.at = i => d = a
       /\ d.at > i => OrderedButDown(Prios(d), m, d.at)
  BY <1>1, <1>3, <1>15 DEF DownStates
<1>18. m \in Nat /\ d.at \in Nat \ {0}
  BY <1>2, <1>17
<1>19. d.at > i => Ordered(Prios(d), m)
  BY <1>16, <1>17, <1>18, Orders DEF AboveChildren
<1>20. ASSUME d.at = i PROVE Prios(d) = Prios(s) /\ OrderedButUp(Prios(s), m, i)
  <2>1. Prios(d) = Prios(s)
    BY <1>3, <1>17, <1>20, Placed
  <2> QED
    BY <1>16, <1>17, <1>18, <1>20, <2>1, Orders DEF AboveChildren
<1> QED
  BY <1>17, <1>19, <1>20

-----------------------------------------------------------------------------
\* What is built from up and down.

LEMMA SettleWorks ==
  ASSUME NEW s, WellFormed(s), NEW m \in 0..Len(s.heap), NEW i \in 1..m,
         OrderedAround(Prios(s), m, i), NEW t, t = Settle(s, i, m)
  PROVE  WellFormed(t) /\ Kept(s, t, m) /\ Ordered(Prios(t), m)
<1>1. Len(s.heap) \in Nat /\ i \in 1..Len(s.heap)
  BY Lengths
<1>2. PICK d : d = Down(s, i, m)
  OBVIOUS
<1>3. /\ WellFormed(d) /\ Kept(s, d, m) /\ d.at \in i..Len(s.heap)
      /\ d.at > i => Ordered(Prios(d), m)
      /\ d.at = i => Prios(d) = Prios(s) /\ OrderedButUp(Prios(s), m, i)
  BY <1>1, <1>2, DownWorks
<1>4. CASE d.at > i
  BY <1>2, <1>3, <1>4 DEF Settle
<1>5. CASE ~ (d.at > i)
  <2>1. d.at = i
    BY <1>1, <1>3, <1>5
  <2>2. t = Up(s, i)
    BY <1>2, <1>5 DEF Settle
  <2> QED
    BY <1>3, <2>1, <2>2, UpWorks
<1> QED
  BY <1>4, <1>5

Sound(s) == WellFormed(s) /\ Ordered(Prios(s), Len(s.heap))

\* The item of k is gone and all others have kept value and priority.
Reduced(s, t, k) ==
  /\ DOMAIN t.items = DOMAIN s.items \ {k}
  /\ \A j \in DOMAIN t.items : SameItem(s.items[j], t.items[j])

LEMMA CutWorks ==
  ASSUME NEW s, WellFormed(s), NEW n \in Nat, Len(s.heap) = n + 1, Ordered(Prios(s), n),
         NEW t, t = CutLast(s)
  PROVE  Sound(t) /\ Reduced(s, t, s.heap[n + 1])
<1>1. PICK last : last = s.heap[n + 1]
  OBVIOUS
<1>2. t.heap = SubSeq(s.heap, 1, n) /\ t.items = [k \in DOMAIN s.items \ {last} |-> s.items[k]]
  BY <1>1 DEF CutLast
<1>3. \A i \in 1..(n + 1) : s.heap[i] \in Keys
  BY Lengths
<1>4. t.heap \in Seq(Keys) /\ Len(t.heap) = n /\ \A i \in 1..n : t.heap[i] = s.heap[i]
  <2>1. \A i \in 1..n : s.heap[i] \in Keys
    BY <1>3
  <2>2. /\ SubSeq(s.heap, 1, n) \in Seq(Keys)
        /\ Len(SubSeq(s.heap, 1, n)) = IF 1 <= n THEN n - 1 + 1 ELSE 0
        /\ \A i \in 1..(n - 1 + 1) : SubSeq(s.heap, 1, n)[i] = s.heap[1 + i - 1]
    BY <2>1, SubSeqProperties
  <2>3. Len(t.heap) = n
    BY <1>2, <2>2
  <2>4. ASSUME NEW i \in 1..n PROVE t.heap[i] = s.heap[i]
    <3>1. SubSeq(s.heap, 1, n)[i] = s.heap[1 + i - 1] /\ 1 + i - 1 = i
      BY <2>2
    <3> QED
      BY <1>2, <3>1
  <2> QED
    BY <1>2, <2>2, <2>3, <2>4
<1>5. DOMAIN t.items = DOMAIN s.items \ {last} /\ \A k \in DOMAIN t.items : t.items[k] = s.items[k]
  BY <1>2
<1>6. \A i \in 1..n : /\ s.heap[i] \in DOMAIN s.items /\ s.items[s.heap[i]].index = i
                      /\ s.heap[i] # last
  <2>1. \A i \in 1..n : i \in 1..(n + 1) /\ i # n + 1
    OBVIOUS
  <2>2. n + 1 \in 1..(n + 1)
    OBVIOUS
  <2> QED
    BY <1>1, <2>1, <2>2, Lengths DEF WellFormed
<1>7. ASSUME NEW k \in DOMAIN t.items
      PROVE  t.items[k].index \in 1..n /\ t.heap[t.items[k].index] = k
  <2>1. k \in DOMAIN s.items /\ k # last /\ t.items[k] = s.items[k]
    BY <1>5
  <2>2. s.items[k].index \in 1..(n + 1) /\ s.heap[s.items[k].index] = k
    BY <2>1 DEF WellFormed
  <2>3. s.items[k].index # n + 1
    BY <1>1, <2>1, <2>2
  <2>4. s.items[k].index \in 1..n
    BY <2>2, <2>3
  <2> QED
    BY <1>4, <2>1, <2>2, <2>4
<1>8. WellFormed(t)
  <2>1. t.items \in [DOMAIN t.items -> Item]
    BY <1>2 DEF WellFormed
  <2>2. \A i \in 1..n : t.heap[i] \in DOMAIN t.items /\ t.items[t.heap[i]].index = i
    BY <1>4, <1>5, <1>6
  <2> QED
    BY <1>4, <1>7, <2>1, <2>2 DEF WellFormed
<1>9. Ordered(Prios(t), n)
  <2>1. ASSUME NEW i \in 1..n PROVE Prios(t)[i] = Prios(s)[i]
    <3>1. t.items[t.heap[i]] = s.items[s.heap[i]]
      BY <1>4, <1>5, <1>6
    <3>2. i \in 1..Len(t.heap) /\ i \in 1..Len(s.heap)
      BY <1>4
    <3> QED
      BY <3>1, <3>2 DEF Prios
  <2>2. ASSUME NEW i \in 2..n PROVE Prios(t)[i \div 2] >= Prios(t)[i]
    <3>1. PICK h \in 1..n : h = i \div 2
      BY Half
    <3>2. Prios(s)[h] >= Prios(s)[i]
      BY <3>1 DEF Ordered
    <3> QED
      BY <2>1, <3>1, <3>2
  <2> QED
    BY <2>2 DEF Ordered
<1> QED
  BY <1>1, <1>4, <1>5, <1>8, <1>9 DEF Sound, Reduced, SameItem

\* The last item takes the place of the one at i, in an order that holds but
\* around i.
LEMMA SwapOut ==
  ASSUME NEW s, Sound(s), NEW n \in Nat, Len(s.heap) = n + 1, NEW i \in 1..(n + 1),
         NEW t, t = Swap(s, i, n + 1)
  PROVE  /\ WellFormed(t) /\ Kept(s, t, n + 1) /\ t.heap[n + 1] = s.heap[i]
         /\ OrderedAround(Prios(t), n, i)
<1>1. WellFormed(s) /\ Ordered(Prios(s), n + 1) /\ n + 1 \in 1..Len(s.heap) /\ i \in 1..Len(s.heap)
  BY DEF Sound
<1>2. /\ WellFormed(t)
      /\ Len(t.heap) = Len(s.heap) /\ DOMAIN t.items = DOMAIN s.items
      /\ \A k \in DOMAIN s.items : SameItem(s.items[k], t.items[k])
      /\ Exchanged(Prios(s), Prios(t), Len(s.heap), i, n + 1)
  BY <1>1, SwapWorks
<1>3. Kept(s, t, n + 1)
  <2>1. (n + 1 + 1)..Len(s.heap) = {}
    OBVIOUS
  <2> QED
    BY <1>2, <2>1 DEF Kept
<1>4. t.heap[n + 1] = s.heap[i]
  <2>1. s.heap \in [1..(n + 1) -> Keys]
    BY <1>1, LenProperties DEF WellFormed
  <2>2. t.heap = [s.heap EXCEPT ![i] = s.heap[n + 1], ![n + 1] = s.heap[i]]
    BY DEF Swap
  <2> QED
    BY <2>1, <2>2
<1>5. Ordered(Prios(s), n)
  BY <1>1 DEF Ordered
<1>6. \A k \in 1..n : k # i => Prios(t)[k] = Prios(s)[k]
  BY <1>2 DEF Exchanged
<1>7. Prios(s) \in [1..(n + 1) -> Int] /\ Prios(t) \in [1..(n + 1) -> Int]
  BY <1>1, <1>2, Lengths
<1>8. OrderedAround(Prios(t), n, i)
  <2>1. n + 1 \in Nat /\ n \in 0..(n + 1)
    OBVIOUS
  <2> QED
    BY <1>5, <1>6, <1>7, <2>1, OneChanged
<1> QED
  BY <1>2, <1>3, <1>4, <1>8

LEMMA ReducedOn ==
  ASSUME NEW s, NEW t, NEW u, NEW m, NEW k, Kept(s, t, m), Reduced(t, u, k)
  PROVE  Reduced(s, u, k)
BY DEF Kept, Reduced, SameItem

LEMMA RemoveWorks ==
  ASSUME NEW s, Sound(s), NEW i \in 1..Len(s.heap), NEW t, t = RemoveAt(s, i)
  PROVE  Sound(t) /\ Reduced(s, t, s.heap[i])
<1>1. WellFormed(s) /\ Ordered(Prios(s), Len(s.heap)) /\ Len(s.heap) \in Nat
  BY Lengths DEF Sound
<1>2. PICK n \in Nat : Len(s.heap) = n + 1
  <2>1. Len(s.heap) - 1 \in Nat /\ Len(s.heap) = (Len(s.heap) - 1) + 1
    BY <1>1
  <2> QED
    BY <2>1
<1>3. n = Len(s.heap) - 1
  BY <1>2
<1>4. CASE i = n + 1
  <2>1. t = CutLast(s)
    BY <1>3, <1>4 DEF RemoveAt
  <2>2. Ordered(Prios(s), n)
    BY <1>1, <1>2 DEF Ordered
  <2> QED
    BY <1>1, <1>2, <1>4, <2>1, <2>2, CutWorks
<1>5. CASE i # n + 1
  <2>1. PICK u : u = Swap(s, i, n + 1)
    OBVIOUS
  <2>2. /\ WellFormed(u) /\ Kept(s, u, n + 1) /\ u.heap[n + 1] = s.heap[i]
        /\ OrderedAround(Prios(u), n, i)
    BY <1>2, <2>1, SwapOut
  <2>3. Len(u.heap) = n + 1 /\ n \in 0..Len(u.heap) /\ i \in 1..n
    BY <1>2, <1>5, <2>2 DEF Kept
  <2>4. PICK v : v = Settle(u, i, n)
    OBVIOUS
  <2>5. WellFormed(v) /\ Kept(u, v, n) /\ Ordered(Prios(v), n)
    BY <2>2, <2>3, <2>4, SettleWorks
  <2>6. Len(v.heap) = n + 1 /\ v.heap[n + 1] = s.heap[i]
    BY <2>2, <2>3, <2>5 DEF Kept
  <2>7. t = CutLast(v)
    BY <1>3, <1>5, <2>1, <2>4 DEF RemoveAt
  <2>8. Sound(t) /\ Reduced(v, t, s.heap[i])
    BY <2>5, <2>6, <2>7, CutWorks
  <2>9. Reduced(u, t, s.heap[i])
    BY <2>5, <2>8, ReducedOn
  <2> QED
    BY <2>2, <2>8, <2>9, ReducedOn
<1> QED
  BY <1>4, <1>5

LEMMA PopWorks ==
  ASSUME NEW s, Sound(s), Len(s.heap) # 0, NEW t, t = PopRoot(s)
  PROVE  Sound(t) /\ Reduced(s, t, s.heap[1])
<1>1. WellFormed(s) /\ Ordered(Prios(s), Len(s.heap)) /\ Len(s.heap) \in Nat
  BY Lengths DEF Sound
<1>2. PICK n \in Nat : Len(s.heap) = n + 1
  <2>1. Len(s.heap) - 1 \in Nat /\ Len(s.heap) = (Len(s.heap) - 1) + 1
    BY <1>1
  <2> QED
    BY <2>1
<1>3. n = Len(s.heap) - 1 /\ 1 \in 1..(n + 1)
  BY <1>2
<1>4. PICK u : u = Swap(s, 1, n + 1)
  OBVIOUS
<1>5. /\ WellFormed(u) /\ Kept(s, u, n + 1) /\ u.heap[n + 1] = s.heap[1]
      /\ OrderedAround(Prios(u), n, 1)
  BY <1>2, <1>3, <1>4, SwapOut
<1>6. Len(u.heap) = n + 1 /\ n \in 0..Len(u.heap) /\ 1 \in 1..Len(u.heap)
  BY <1>2, <1>5 DEF Kept
<1>7. PICK d : d = Down(u, 1, n)
  OBVIOUS
<1>8. /\ WellFormed(d) /\ Kept(u, d, n) /\ d.at \in 1..Len(u.heap)
      /\ d.at > 1 => Ordered(Prios(d), n)
      /\ d.at = 1 => Prios(d) = Prios(u) /\ OrderedButUp(Prios(u), n, 1)
  BY <1>5, <1>6, <1>7, DownWorks
<1>9. Ordered(Prios(d), n)
  <2>1. CASE d.at > 1
    BY <1>8, <2>1
  <2>2. CASE d.at = 1
    BY <1>8, <2>2, Orders
  <2> QED
    BY <1>8, <2>1, <2>2
<1>10. Len(d.heap) = n + 1 /\ d.heap[n + 1] = s.heap[1]
  BY <1>5, <1>6, <1>8 DEF Kept
<1>11. t = CutLast(d)
  BY <1>3, <1>4, <1>7 DEF PopRoot
<1>12. Sound(t) /\ Reduced(d, t, s.heap[1])
  BY <1>8, <1>9, <1>10, <1>11, CutWorks
<1>13. Reduced(u, t, s.heap[1])
  BY <1>8, <1>12, ReducedOn
<1> QED
  BY <1>5, <1>12, <1>13, ReducedOn

-----------------------------------------------------------------------------
\* A new item, and one that is changed in its place.

Appended(s, k, it) ==
  [heap |-> Append(s.heap, k),
   items |-> [j \in DOMAIN s.items \cup {k} |-> IF j = k THEN it ELSE s.items[j]]]

LEMMA AppendWorks ==
  ASSUME NEW s, Sound(s), NEW k \in Keys, k \notin DOMAIN s.items, NEW v \in Values,
         NEW p \in Priorities, NEW n \in Nat, n = Len(s.heap) + 1, NEW it,
         it = [value |-> v, priority |-> p, index |-> n], NEW u, u = Appended(s, k, it)
  PROVE  WellFormed(u) /\ Len(u.heap) = n /\ OrderedButUp(Prios(u), n, n)
<1>1. /\ Len(s.heap) \in Nat /\ s.heap \in Seq(Keys)
      /\ \A i \in 1..Len(s.heap) : s.heap[i] \in DOMAIN s.items /\ s.items[s.heap[i]].index = i
      /\ \A j \in DOMAIN s.items : /\ s.items[j].index \in 1..Len(s.heap)
                                   /\ s.heap[s.items[j].index] = j /\ s.items[j] \in Item
  BY Lengths DEF Sound, WellFormed
<1>2. /\ u.heap \in Seq(Keys) /\ Len(u.heap) = n /\ u.heap[n] = k
      /\ \A i \in 1..Len(s.heap) : u.heap[i] = s.heap[i]
  BY <1>1 DEF Appended
<1>3. /\ DOMAIN u.items = DOMAIN s.items \cup {k} /\ u.items[k] = it
      /\ \A j \in DOMAIN s.items : u.items[j] = s.items[j]
  BY DEF Appended
<1>4. it \in Item /\ it.index = n
  BY DEF Item
<1>5. u.items \in [DOMAIN u.items -> Item]
  BY <1>1, <1>4 DEF Appended
<1>6. ASSUME NEW i \in 1..n PROVE u.heap[i] \in DOMAIN u.items /\ u.items[u.heap[i]].index = i
  <2>1. CASE i = n
    BY <1>2, <1>3, <1>4, <2>1
  <2>2. CASE i # n
    <3>1. i \in 1..Len(s.heap)
      BY <1>1, <2>2
    <3> QED
      BY <1>1, <1>2, <1>3, <3>1
  <2> QED
    BY <2>1, <2>2
<1>7. ASSUME NEW j \in DOMAIN u.items
      PROVE  u.items[j].index \in 1..n /\ u.heap[u.items[j].index] = j
  <2>1. CASE j = k
    <3>1. n \in 1..n
      BY <1>1
    <3> QED
      BY <1>2, <1>3, <1>4, <2>1, <3>1
  <2>2. CASE j # k
    <3>1. j \in DOMAIN s.items /\ u.items[j] = s.items[j]
      BY <1>3, <2>2
    <3>2. s.items[j].index \in 1..Len(s.heap) /\ s.heap[s.items[j].index] = j
      BY <1>1, <3>1
    <3>3. s.items[j].index \in 1..n
      BY <1>1, <3>2
    <3> QED
      BY <1>2, <3>1, <3>2, <3>3
  <2> QED
    BY <2>1, <2>2
<1>8. WellFormed(u)
  BY <1>2, <1>5, <1>6, <1>7 DEF WellFormed
<1>9. ASSUME NEW i \in 2..n, i # n PROVE Prios(u)[i \div 2] >= Prios(u)[i]
  <2>1. PICK h : h = i \div 2
    OBVIOUS
  <2>2. h \in 1..Len(s.heap) /\ i \in 2..Len(s.heap)
    BY <1>1, <1>9, <2>1, Half
  <2>3. Prios(s)[h] >= Prios(s)[i]
    BY <2>1, <2>2 DEF Sound, Ordered
  <2>4. \A j \in 1..Len(s.heap) : Prios(u)[j] = Prios(s)[j]
    <3>1. \A j \in 1..Len(s.heap) : j \in 1..Len(u.heap) /\ u.items[u.heap[j]] = s.items[s.heap[j]]
      BY <1>1, <1>2, <1>3
    <3> QED
      BY <3>1 DEF Prios
  <2> QED
    BY <2>1, <2>2, <2>3, <2>4
<1>10. Bridged(Prios(u), n, n)
  BY Half DEF Bridged
<1> QED
  BY <1>2, <1>8, <1>9, <1>10 DEF OrderedButUp

LEMMA AlterWorks ==
  ASSUME NEW s, Sound(s), NEW k \in DOMAIN s.items, NEW it \in Item,
         it.index = s.items[k].index, NEW u, u.heap = s.heap,
         u.items = [s.items EXCEPT ![k] = it]
  PROVE  /\ WellFormed(u) /\ Len(s.heap) \in 0..Len(u.heap)
         /\ it.index \in 1..Len(s.heap)
         /\ OrderedAround(Prios(u), Len(s.heap), it.index)
<1>1. /\ Len(s.heap) \in Nat /\ WellFormed(s) /\ Ordered(Prios(s), Len(s.heap))
      /\ \A i \in 1..Len(s.heap) : s.heap[i] \in DOMAIN s.items /\ s.items[s.heap[i]].index = i
      /\ \A j \in DOMAIN s.items : /\ s.items[j].index \in 1..Len(s.heap)
                                   /\ s.heap[s.items[j].index] = j
      /\ s.items \in [DOMAIN s.items -> Item]
  BY Lengths DEF Sound, WellFormed
<1>2. /\ DOMAIN u.items = DOMAIN s.items /\ u.items[k] = it
      /\ \A j \in DOMAIN s.items : j # k => u.items[j] = s.items[j]
      /\ \A j \in DOMAIN s.items : u.items[j].index = s.items[j].index
      /\ u.items \in [DOMAIN u.items -> Item]
  BY <1>1
<1>3. WellFormed(u)
  BY <1>1, <1>2 DEF WellFormed
<1>4. \A i \in 1..Len(s.heap) : i # it.index => Prios(u)[i] = Prios(s)[i]
  BY <1>1, <1>2 DEF Prios
<1>5. Prios(s) \in [1..Len(s.heap) -> Int] /\ Prios(u) \in [1..Len(s.heap) -> Int]
  BY <1>1, <1>3, Lengths
<1>6. it.index \in 1..Len(s.heap) /\ Len(s.heap) \in 0..Len(s.heap)
  BY <1>1
<1> QED
  BY <1>1, <1>3, <1>4, <1>5, <1>6, OneChanged

-----------------------------------------------------------------------------
\* Every call keeps the heap sound and is a call of the priority queue.

Content(s) == [k \in DOMAIN s.items |-> [value |-> s.items[k].value, priority |-> s.items[k].priority]]

LEMMA ContentsAre ==
  /\ Content(Current) = [k \in DOMAIN lookup |->
                           [value |-> lookup[k].value, priority |-> lookup[k].priority]]
  /\ Content(Current)' = [k \in DOMAIN lookup' |->
                            [value |-> lookup'[k].value, priority |-> lookup'[k].priority]]
  /\ Known = DOMAIN lookup /\ Known' = DOMAIN lookup'
BY DEF Content, Current, Known

LEMMA BecomesSound ==
  ASSUME NEW t, Sound(t), Becomes(t)
  PROVE  Sound(Current)'
BY DEF Sound, WellFormed, Prios, Current, Becomes

LEMMA PushStep ==
  ASSUME Sound(Current), NEW k \in Keys, NEW v \in Values, NEW p \in Priorities, Push(k, v, p)
  PROVE  Sound(Current)' /\ PQ!PQPush(k, v, p)
<1>1. CASE k \in Known
  <2>1. heap' = heap /\ lookup' = lookup /\ result' = FALSE
    BY <1>1 DEF Push
  <2>2. Sound(Current)'
    BY <2>1 DEF Current
  <2> QED
    BY <1>1, <2>1, <2>2 DEF PQ!PQPush, PQ!Held, Known
<1>2. CASE k \notin Known
  <2>1. PICK s : s = Current
    OBVIOUS
  <2>2. PICK n : n = Len(heap) + 1
    OBVIOUS
  <2>3. PICK it : it = [value |-> v, priority |-> p, index |-> n]
    OBVIOUS
  <2>4. PICK u : u = Appended(s, k, it)
    OBVIOUS
  <2>5. s.heap = heap /\ s.items = lookup /\ n \in Nat /\ Sound(s)
    BY <2>1, <2>2, Lengths DEF Current, Sound
  <2>6. WellFormed(u) /\ Len(u.heap) = n /\ OrderedButUp(Prios(u), n, n)
    <3>1. n = Len(s.heap) + 1 /\ k \notin DOMAIN s.items
      BY <1>2, <2>2, <2>5 DEF Known
    <3> QED
      BY <2>3, <2>4, <2>5, <3>1, AppendWorks
  <2>7. PICK t : t = Up(u, n)
    OBVIOUS
  <2>8. n \in 0..Len(u.heap) /\ n \in 1..n
    BY <2>2, <2>5, <2>6, Lengths DEF Sound
  <2>9. WellFormed(t) /\ Kept(u, t, n) /\ Ordered(Prios(t), n)
    BY <2>6, <2>7, <2>8, UpWorks
  <2>10. Becomes(t) /\ result' = TRUE
    BY <1>2, <2>2, <2>3, <2>4, <2>5, <2>7 DEF Push, Appended, Known
  <2>11. Sound(t)
    BY <2>6, <2>9 DEF Sound, Kept
  <2>12. /\ DOMAIN lookup' = Known \cup {k}
         /\ lookup'[k].value = v /\ lookup'[k].priority = p
         /\ \A j \in Known : j # k => /\ lookup'[j].value = lookup[j].value
                                      /\ lookup'[j].priority = lookup[j].priority
    <3>1. /\ DOMAIN u.items = Known \cup {k} /\ u.items[k].value = v /\ u.items[k].priority = p
          /\ \A j \in Known : j # k => u.items[j] = lookup[j]
      BY <2>3, <2>4, <2>5 DEF Appended, Known
    <3> QED
      BY <2>9, <2>10, <3>1 DEF Kept, SameItem, Becomes
  <2>13. Content(Current)' = [j \in Known \cup {k} |->
                               IF j = k THEN [value |-> v, priority |-> p] ELSE Content(Current)[j]]
    <3>1. ASSUME NEW j \in Known \cup {k}
          PROVE  [value |-> lookup'[j].value, priority |-> lookup'[j].priority]
                   = IF j = k THEN [value |-> v, priority |-> p] ELSE Content(Current)[j]
      <4>1. CASE j = k
        BY <2>12, <4>1
      <4>2. CASE j # k
        <5>1. j \in DOMAIN lookup /\ lookup'[j].value = lookup[j].value
              /\ lookup'[j].priority = lookup[j].priority
          BY <2>12, <3>1, <4>2 DEF Known
        <5> QED
          BY <4>2, <5>1, ContentsAre
      <4> QED
        BY <4>1, <4>2
    <3> QED
      BY <2>12, <3>1, ContentsAre
  <2>14. PQ!PQPush(k, v, p)
    BY <1>2, <2>10, <2>13, ContentsAre DEF PQ!PQPush, PQ!With, PQ!Held, Known
  <2> QED
    BY <2>10, <2>11, <2>14, BecomesSound
<1> QED
  BY <1>1, <1>2

LEMMA Settled ==
  ASSUME Sound(Current), NEW k \in Known, NEW it \in Item, it.index = lookup[k].index,
         NEW u, u.heap = heap, u.items = [lookup EXCEPT ![k] = it],
         Becomes(Settle(u, lookup[k].index, Len(heap)))
  PROVE  Sound(Current)' /\ Content(Current)' = PQ!With(k, it.value, it.priority)
<1>1. PICK s : s = Current
  OBVIOUS
<1>2. s.heap = heap /\ s.items = lookup /\ Sound(s) /\ k \in DOMAIN s.items
  BY <1>1 DEF Current, Known
<1>3. /\ WellFormed(u) /\ Len(s.heap) \in 0..Len(u.heap) /\ it.index \in 1..Len(s.heap)
      /\ OrderedAround(Prios(u), Len(s.heap), it.index)
  BY <1>2, AlterWorks
<1>4. PICK t : t = Settle(u, it.index, Len(s.heap))
  OBVIOUS
<1>5. WellFormed(t) /\ Kept(u, t, Len(s.heap)) /\ Ordered(Prios(t), Len(s.heap))
  BY <1>3, <1>4, SettleWorks
<1>6. Sound(t) /\ Becomes(t)
  BY <1>2, <1>4, <1>5 DEF Sound, Kept
<1>7. DOMAIN u.items = Known /\ u.items[k] = it /\ \A j \in Known : j # k => u.items[j] = lookup[j]
  BY DEF Known
<1>8. /\ DOMAIN lookup' = Known
      /\ lookup'[k].value = it.value /\ lookup'[k].priority = it.priority
      /\ \A j \in Known : j # k => /\ lookup'[j].value = lookup[j].value
                                   /\ lookup'[j].priority = lookup[j].priority
  BY <1>5, <1>6, <1>7 DEF Kept, SameItem, Becomes
<1>9. Content(Current)' = PQ!With(k, it.value, it.priority)
  <2>1. Known = Known \cup {k} /\ Known = DOMAIN lookup
    BY DEF Known
  <2> QED
    BY <1>8, <2>1, ContentsAre DEF PQ!With, PQ!Held
<1> QED
  BY <1>6, <1>9, BecomesSound

LEMMA UpdateStep ==
  ASSUME Sound(Current), NEW k \in Keys, NEW v \in Values, NEW p \in Priorities, Update(k, v, p)
  PROVE  Sound(Current)' /\ PQ!PQUpdate(k, v, p)
<1>1. CASE k \notin Known
  <2>1. heap' = heap /\ lookup' = lookup /\ result' = (k \in Known)
    BY <1>1 DEF Update
  <2>2. Sound(Current)'
    BY <2>1 DEF Current
  <2> QED
    BY <1>1, <2>1, <2>2 DEF PQ!PQUpdate, PQ!Held, Known
<1>2. CASE k \in Known
  <2>1. lookup \in [Known -> Item] /\ lookup[k] \in Item
    BY <1>2 DEF Sound, WellFormed, Current, Known
  <2>2. PICK it : it = [value |-> v, priority |-> p, index |-> lookup[k].index]
    OBVIOUS
  <2>3. it \in Item /\ it.index = lookup[k].index /\ it.value = v /\ it.priority = p
    BY <2>1, <2>2 DEF Item
  <2>4. PICK u : u = [Current EXCEPT !.items[k].value = v, !.items[k].priority = p]
    OBVIOUS
  <2>5. u.heap = heap /\ u.items = [lookup EXCEPT ![k] = it]
    <3>1. PICK f : f = [lookup EXCEPT ![k].value = v]
      OBVIOUS
    <3>2. u.heap = heap /\ u.items = [f EXCEPT ![k].priority = p]
      BY <2>4, <3>1 DEF Current
    <3>3. f[k] = [lookup[k] EXCEPT !.value = v]
      BY <1>2, <2>1, <3>1
    <3>4. it = [f[k] EXCEPT !.priority = p]
      <4>1. PICK lt \in Item : lt = lookup[k]
        BY <2>1
      <4>2. f[k] = [value |-> v, priority |-> lt.priority, index |-> lt.index]
        BY <3>3, <4>1 DEF Item
      <4> QED
        BY <2>2, <4>1, <4>2
    <3>5. [f EXCEPT ![k] = it] = [lookup EXCEPT ![k] = it]
      BY <2>1, <3>1
    <3> QED
      BY <3>2, <3>4, <3>5
  <2>6. Becomes(Settle(u, lookup[k].index, Len(heap))) /\ result' = TRUE
    BY <1>2, <2>4 DEF Update
  <2>7. Sound(Current)' /\ Content(Current)' = PQ!With(k, v, p)
    BY <1>2, <2>3, <2>5, <2>6, Settled
  <2> QED
    BY <1>2, <2>6, <2>7, ContentsAre DEF PQ!PQUpdate, PQ!Held
<1> QED
  BY <1>1, <1>2

LEMMA UpdatePriorityStep ==
  ASSUME Sound(Current), NEW k \in Keys, NEW p \in Priorities, UpdatePriority(k, p)
  PROVE  Sound(Current)' /\ PQ!PQUpdatePriority(k, p)
<1>1. CASE ~ (k \in Known /\ lookup[k].priority # p)
  <2>1. heap' = heap /\ lookup' = lookup /\ result' = (k \in Known)
    BY <1>1 DEF UpdatePriority
  <2>2. Sound(Current)'
    BY <2>1 DEF Current
  <2>3. k \in Known => Content(Current) = PQ!With(k, lookup[k].value, p)
    BY <1>1, ContentsAre DEF PQ!With, PQ!Held
  <2>4. k \in Known => Content(Current)[k].value = lookup[k].value
    BY ContentsAre
  <2>5. Content(Current)' = Content(Current)
    BY <2>1, ContentsAre
  <2> QED
    BY <2>1, <2>2, <2>3, <2>4, <2>5, ContentsAre DEF PQ!PQUpdatePriority, PQ!Held
<1>2. CASE k \in Known /\ lookup[k].priority # p
  <2>1. lookup \in [Known -> Item] /\ lookup[k] \in Item
    BY <1>2 DEF Sound, WellFormed, Current, Known
  <2>2. PICK it : it = [value |-> lookup[k].value, priority |-> p, index |-> lookup[k].index]
    OBVIOUS
  <2>3. /\ it \in Item /\ it.index = lookup[k].index /\ it.value = lookup[k].value
        /\ it.priority = p
    BY <2>1, <2>2 DEF Item
  <2>4. PICK u : u = [Current EXCEPT !.items[k].priority = p]
    OBVIOUS
  <2>5. u.heap = heap /\ u.items = [lookup EXCEPT ![k] = it]
    <3>1. u.heap = heap /\ u.items = [lookup EXCEPT ![k].priority = p]
      BY <2>4 DEF Current
    <3>2. it = [lookup[k] EXCEPT !.priority = p]
      BY <2>1, <2>2 DEF Item
    <3> QED
      BY <3>1, <3>2
  <2>6. Becomes(Settle(u, lookup[k].index, Len(heap))) /\ result' = TRUE
    BY <1>2, <2>4 DEF UpdatePriority
  <2>7. Sound(Current)' /\ Content(Current)' = PQ!With(k, lookup[k].value, p)
    BY <1>2, <2>3, <2>5, <2>6, Settled
  <2>8. Content(Current)[k].value = lookup[k].value
    BY <1>2, ContentsAre
  <2> QED
    BY <1>2, <2>6, <2>7, <2>8, ContentsAre DEF PQ!PQUpdatePriority, PQ!Held
<1> QED
  BY <1>1, <1>2

LEMMA ReducedContent ==
  ASSUME NEW t, Sound(t), NEW k, Reduced(Current, t, k), Becomes(t)
  PROVE  Sound(Current)' /\ Content(Current)' = PQ!Without(k)
<1>1. /\ DOMAIN lookup' = Known \ {k}
      /\ \A j \in Known \ {k} : /\ lookup'[j].value = lookup[j].value
                                /\ lookup'[j].priority = lookup[j].priority
  BY DEF Reduced, SameItem, Becomes, Current, Known
<1>2. Content(Current)' = PQ!Without(k)
  BY <1>1, ContentsAre DEF PQ!Without, PQ!Held
<1> QED
  BY <1>2, BecomesSound

LEMMA DropStep ==
  ASSUME Sound(Current), NEW k \in Keys, Drop(k)
  PROVE  Sound(Current)' /\ PQ!PQDrop(k)
<1>1. CASE k \notin Known
  <2>1. heap' = heap /\ lookup' = lookup /\ result' = (k \in Known)
    BY <1>1 DEF Drop
  <2>2. Sound(Current)'
    BY <2>1 DEF Current
  <2> QED
    BY <1>1, <2>1, <2>2 DEF PQ!PQDrop, PQ!Held, Known
<1>2. CASE k \in Known
  <2>1. PICK i : i = lookup[k].index
    OBVIOUS
  <2>2. i \in 1..Len(Current.heap) /\ Current.heap[i] = k
    BY <1>2, <2>1 DEF Sound, WellFormed, Current, Known
  <2>3. PICK t : t = RemoveAt(Current, i)
    OBVIOUS
  <2>4. Sound(t) /\ Reduced(Current, t, k)
    BY <2>2, <2>3, RemoveWorks
  <2>5. Becomes(t) /\ result' = TRUE
    BY <1>2, <2>1, <2>3 DEF Drop
  <2>6. Sound(Current)' /\ Content(Current)' = PQ!Without(k)
    BY <2>4, <2>5, ReducedContent
  <2> QED
    BY <1>2, <2>5, <2>6, ContentsAre DEF PQ!PQDrop, PQ!Held
<1> QED
  BY <1>1, <1>2

\* The root is one of highest priority.
LEMMA RootIsHighest ==
  ASSUME Sound(Current), heap # <<>>
  PROVE  /\ heap[1] \in PQ!Highest /\ heap[1] \in Known
         /\ Len(Current.heap) # 0
         /\ Content(Current)[heap[1]].value = lookup[heap[1]].value
<1>1. /\ Len(heap) \in Nat /\ heap \in Seq(Keys)
      /\ \A i \in 1..Len(heap) : heap[i] \in Known
      /\ \A j \in Known : lookup[j].index \in 1..Len(heap) /\ heap[lookup[j].index] = j
  BY Lengths DEF Sound, WellFormed, Current, Known
<1>2. Len(heap) # 0 /\ 1 \in 1..Len(heap)
  BY <1>1, EmptySeq
<1>3. PICK pr : pr = Prios(Current)
  OBVIOUS
<1>4. pr \in [1..Len(heap) -> Int] /\ Ordered(pr, Len(heap))
      /\ \A i \in 1..Len(heap) : pr[i] = lookup[heap[i]].priority
  BY <1>3, Lengths DEF Sound, Prios, Current
<1>5. \A i \in 1..Len(heap) : pr[1] >= pr[i]
  BY <1>1, <1>4, RootIsGreatest
<1>6. \A j \in Known : lookup[heap[1]].priority >= lookup[j].priority
  BY <1>1, <1>2, <1>4, <1>5
<1>7. heap[1] \in Known
  BY <1>1, <1>2
<1>8. heap[1] \in PQ!Highest
  BY <1>6, <1>7 DEF PQ!Highest, PQ!Held, Known
<1> QED
  BY <1>2, <1>7, <1>8, ContentsAre DEF Current

LEMMA EmptyHeap ==
  ASSUME Sound(Current), heap = <<>>
  PROVE  Known = {}
<1>1. Len(heap) = 0
  BY EmptySeq
<1>2. \A k \in Known : lookup[k].index \in 1..Len(heap)
  BY DEF Sound, WellFormed, Current, Known
<1> QED
  BY <1>1, <1>2

LEMMA PopStep ==
  ASSUME Sound(Current), Pop
  PROVE  Sound(Current)' /\ PQ!PQPop
<1>1. CASE heap = <<>>
  <2>1. heap' = heap /\ lookup' = lookup /\ result' = Absent
    BY <1>1 DEF Pop
  <2>2. Sound(Current)' /\ Known = {}
    BY <1>1, <2>1, EmptyHeap DEF Current
  <2> QED
    BY <2>1, <2>2 DEF PQ!PQPop, PQ!Held, Known
<1>2. CASE heap # <<>>
  <2>1. PICK t : t = PopRoot(Current)
    OBVIOUS
  <2>2. result' = lookup[heap[1]].value /\ Becomes(t)
    BY <1>2, <2>1 DEF Pop
  <2>3. Sound(t) /\ Reduced(Current, t, heap[1])
    <3>1. Sound(t) /\ Reduced(Current, t, Current.heap[1])
      BY <1>2, <2>1, RootIsHighest, PopWorks
    <3> QED
      BY <3>1 DEF Current
  <2>4. Sound(Current)' /\ Content(Current)' = PQ!Without(heap[1])
    BY <2>2, <2>3, ReducedContent
  <2> QED
    BY <1>2, <2>2, <2>4, RootIsHighest, ContentsAre DEF PQ!PQPop
<1> QED
  BY <1>1, <1>2

LEMMA PeekStep ==
  ASSUME Sound(Current), Peek
  PROVE  Sound(Current)' /\ PQ!PQPeek
<1>1. heap' = heap /\ lookup' = lookup
  BY DEF Peek
<1>2. Sound(Current)'
  BY <1>1 DEF Current
<1>3. CASE heap = <<>>
  <2>1. result' = Absent /\ Known = {}
    BY <1>3, EmptyHeap DEF Peek
  <2> QED
    BY <1>1, <1>2, <2>1 DEF PQ!PQPeek, PQ!Held, Known
<1>4. CASE heap # <<>>
  <2>1. result' = lookup[heap[1]].value
    BY <1>4 DEF Peek
  <2>2. PQ!Held # {}
    BY <1>4, RootIsHighest DEF PQ!Held, Known
  <2> QED
    BY <1>1, <1>2, <1>4, <2>1, <2>2, RootIsHighest, ContentsAre DEF PQ!PQPeek
<1> QED
  BY <1>3, <1>4

LEMMA HeapStep ==
  Sound(Current) /\ [HeapNext]_heapVars => Sound(Current)' /\ [PQ!PQNext]_(PQ!pqVars)
<1> SUFFICES ASSUME Sound(Current), [HeapNext]_heapVars
             PROVE  Sound(Current)' /\ [PQ!PQNext]_(PQ!pqVars)
  OBVIOUS
<1>1. CASE \E k \in Keys, v \in Values, p \in Priorities : Push(k, v, p) \/ Update(k, v, p)
  BY <1>1, PushStep, UpdateStep DEF PQ!PQNext
<1>2. CASE \E k \in Keys, p \in Priorities : UpdatePriority(k, p)
  BY <1>2, UpdatePriorityStep DEF PQ!PQNext
<1>3. CASE \E k \in Keys : Drop(k)
  BY <1>3, DropStep DEF PQ!PQNext
<1>4. CASE Pop
  BY <1>4, PopStep DEF PQ!PQNext
<1>5. CASE Peek
  BY <1>5, PeekStep DEF PQ!PQNext
<1>6. CASE UNCHANGED heapVars
  BY <1>6 DEF heapVars, Current, PQ!pqVars
<1> QED
  BY <1>1, <1>2, <1>3, <1>4, <1>5, <1>6 DEF HeapNext

LEMMA InitHeap == HeapInit => Sound(Current) /\ PQ!PQInit
<1> SUFFICES ASSUME HeapInit PROVE Sound(Current) /\ PQ!PQInit
  OBVIOUS
<1>1. heap = <<>> /\ lookup = [k \in {} |-> Absent] /\ result = Absent
  BY DEF HeapInit
<1>2. heap \in Seq(Keys) /\ Len(heap) = 0 /\ DOMAIN lookup = {} /\ 1..Len(heap) = {} /\ 2..Len(heap) = {}
  BY <1>1, EmptySeq
<1>3. lookup \in [DOMAIN lookup -> Item]
  BY <1>1
<1>4. Sound(Current)
  BY <1>2, <1>3 DEF Sound, WellFormed, Ordered, Current
<1>5. PQ!PQInit
  BY <1>1 DEF PQ!PQInit
<1> QED
  BY <1>4, <1>5

LEMMA SoundHolds == HeapSpec => []Sound(Current)
<1>1. HeapInit => Sound(Current)
  BY InitHeap
<1>2. Sound(Current) /\ [HeapNext]_heapVars => Sound(Current)'
  BY HeapStep
<1> QED
  BY <1>1, <1>2, PTL DEF HeapSpec

\* After any sequence of calls, on any number of items, every item is where it
\* says it is and no item is above one of higher priority.
THEOREM HeapStaysSound == HeapSpec => []HeapIsSound
<1>1. Sound(Current) => HeapIsSound
  <2> SUFFICES ASSUME Sound(Current) PROVE HeapIsSound
    OBVIOUS
  <2>1. /\ Len(heap) \in Nat /\ DOMAIN heap = 1..Len(heap) /\ heap \in Seq(Keys)
        /\ \A i \in 1..Len(heap) : heap[i] \in Known /\ heap[i] \in Keys
        /\ \A i, j \in 1..Len(heap) : heap[i] = heap[j] => i = j
        /\ \A j \in Known : lookup[j].index \in 1..Len(heap) /\ heap[lookup[j].index] = j
        /\ lookup \in [Known -> Item]
    BY Lengths DEF Sound, WellFormed, Current, Known
  <2>2. HeapTypeOK
    <3>1. DOMAIN lookup \subseteq Keys
      BY <2>1 DEF Known
    <3> QED
      BY <2>1, <3>1 DEF HeapTypeOK, Item, Known
  <2>3. Heaped = Known
    BY <2>1 DEF Heaped
  <2>4. Len(heap) = Cardinality(Known)
    <3>1. heap \in [1..Len(heap) -> Known]
      <4>1. heap \in [1..Len(heap) -> Keys]
        BY <2>1, LenProperties
      <4> QED
        BY <2>1, <4>1
    <3>2. \A j \in Known : \E i \in 1..Len(heap) : heap[i] = j
      BY <2>1
    <3>3. heap \in Injection(1..Len(heap), Known)
      <4>1. \A i, j \in 1..Len(heap) : heap[i] = heap[j] => i = j
        BY <2>1
      <4> QED
        BY <3>1, <4>1 DEF Injection, IsInjective
    <3>4. heap \in Surjection(1..Len(heap), Known)
      BY <3>1, <3>2 DEF Surjection
    <3>5. heap \in Bijection(1..Len(heap), Known)
      BY <3>3, <3>4 DEF Bijection
    <3>6. IsFiniteSet(1..Len(heap)) /\ Cardinality(1..Len(heap)) = Len(heap)
      <4>1. PICK n \in Nat : n = Len(heap)
        BY <2>1
      <4>2. 1 \in Int /\ n \in Int
        OBVIOUS
      <4>3. IsFiniteSet(1..n) /\ Cardinality(1..n) = IF 1 > n THEN 0 ELSE n - 1 + 1
        BY <4>2, FS_Interval
      <4>4. Cardinality(1..n) = n
        BY <4>3
      <4> QED
        BY <4>1, <4>3, <4>4
    <3> QED
      BY <3>5, <3>6, FS_Bijection DEF ExistsBijection
  <2>5. \A i \in 2..Len(heap) : lookup[heap[i \div 2]].priority >= lookup[heap[i]].priority
    <3> SUFFICES ASSUME NEW i \in 2..Len(heap)
                 PROVE  lookup[heap[i \div 2]].priority >= lookup[heap[i]].priority
      OBVIOUS
    <3>1. PICK h \in 1..Len(heap) : h = i \div 2
      BY <2>1, Half
    <3>2. Prios(Current)[h] >= Prios(Current)[i]
      BY <3>1 DEF Sound, Ordered, Current
    <3> QED
      BY <3>1, <3>2 DEF Prios, Current
  <2> QED
    BY <2>1, <2>2, <2>3, <2>4, <2>5 DEF HeapIsSound
<1> QED
  BY <1>1, SoundHolds, PTL

\* Every sequence of calls on the heap and its lookup table is one on a map with
\* priorities: what Pop and Peek give has the highest priority, what Drop and
\* Update act on is the item of that key, and no other item changes.
THEOREM HeapIsPriorityQueue == HeapSpec => ImplementsPriorityQueue
<1>1. HeapInit => PQ!PQInit
  BY InitHeap
<1>2. Sound(Current) /\ [HeapNext]_heapVars => [PQ!PQNext]_(PQ!pqVars)
  BY HeapStep
<1> QED
  BY <1>1, <1>2, SoundHolds, PTL DEF HeapSpec, ImplementsPriorityQueue, PQ!PQSpec
=============================================================================
