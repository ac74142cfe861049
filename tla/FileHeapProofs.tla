--------------------------- MODULE FileHeapProofs ---------------------------
(***************************************************************************)
(* Proofs about FileHeap for every finite set of polls, every expiry and   *)
(* every length of the queue: that container/heap's loops keep the polls   *)
(* and restore their order, that the top is a soonest poll, that a queued  *)
(* poll has its row, that a taken one is not queued again, and that a      *)
(* clean loses no survivor and queues nothing twice.                       *)
(***************************************************************************)
EXTENDS FileHeap, SequenceTheorems, FiniteSetTheorems, FunctionTheorems,
        WellFoundedInduction, TLAPS

(***************************************************************************)
(* Induction and recursion on the naturals, for sets and functions         *)
(***************************************************************************)
LEMMA SetInduction ==
  ASSUME NEW S, 0 \in S, \A n \in Nat : n \in S => n + 1 \in S
  PROVE  \A n \in Nat : n \in S
  <1> SUFFICES ASSUME NEW m \in Nat, m \notin S PROVE FALSE
    OBVIOUS
  <1> DEFINE T == Nat \ S
  <1>1. PICK x \in T : \A y \in T : ~ (<<y, x>> \in OpToRel(<, Nat))
    <2>1. T \subseteq Nat /\ T # {}
      OBVIOUS
    <2> HIDE DEF T
    <2> QED
      BY <2>1, NatLessThanWellFounded, WFMin
  <1>2. \A y \in T : ~ (y < x)
    BY <1>1 DEF OpToRel
  <1>3. x \in Nat /\ x # 0 /\ x \notin S
    OBVIOUS
  <1>4. x - 1 \in Nat /\ x - 1 < x /\ (x - 1) + 1 = x
    BY <1>3
  <1>5. x - 1 \in S
    BY <1>2, <1>4
  <1> QED
    BY <1>3, <1>4, <1>5

\* The first m + 1 values of the recursion that starts with a and goes on with g.
Starts(D, a, g, m) ==
  {h \in [0 .. m -> D] : h[0] = a /\ \A k \in 1 .. m : h[k] = g[<<k, h[k - 1]>>]}

LEMMA StartExists ==
  ASSUME NEW D, NEW a \in D, NEW g \in [Nat \X D -> D]
  PROVE  \A m \in Nat : Starts(D, a, g, m) # {}
  <1> DEFINE S == {m \in Nat : Starts(D, a, g, m) # {}}
  <1>1. 0 \in S
    <2>1. [k \in 0 .. 0 |-> a] \in Starts(D, a, g, 0)
      BY DEF Starts
    <2> QED
      BY <2>1
  <1>2. ASSUME NEW m \in Nat, m \in S PROVE m + 1 \in S
    <2>1. PICK h \in [0 .. m -> D] : h[0] = a /\ \A k \in 1 .. m : h[k] = g[<<k, h[k - 1]>>]
      BY <1>2 DEF Starts
    <2> DEFINE f == [k \in 0 .. m + 1 |-> IF k = m + 1 THEN g[<<m + 1, h[m]>>] ELSE h[k]]
    <2>2. h[m] \in D /\ g[<<m + 1, h[m]>>] \in D
      <3>1. h[m] \in D
        BY <2>1
      <3> QED
        BY <3>1
    <2>3. f \in [0 .. m + 1 -> D]
      BY <2>1, <2>2
    <2>4. f[0] = a
      BY <2>1
    <2>5. ASSUME NEW k \in 1 .. m + 1 PROVE f[k] = g[<<k, f[k - 1]>>]
      <3>1. CASE k = m + 1
        <4>1. k - 1 = m /\ k - 1 \in 0 .. m + 1 /\ m # m + 1
          BY <3>1
        <4>2. f[k - 1] = h[m]
          BY <4>1
        <4>3. f[m + 1] = g[<<m + 1, h[m]>>]
          OBVIOUS
        <4> HIDE DEF f
        <4> QED
          BY <3>1, <4>2, <4>3
      <3>2. CASE k # m + 1
        <4>1. k \in 1 .. m /\ k - 1 \in 0 .. m
          BY <3>2
        <4>2. \A j \in 0 .. m : j \in 0 .. m + 1 /\ j # m + 1
          OBVIOUS
        <4>3. \A j \in 0 .. m : f[j] = h[j]
          BY <4>2
        <4>4. f[k] = h[k] /\ f[k - 1] = h[k - 1]
          BY <4>1, <4>3
        <4> QED
          BY <2>1, <4>1, <4>4
      <3> QED
        BY <3>1, <3>2
    <2> HIDE DEF f
    <2>6. f \in Starts(D, a, g, m + 1)
      BY <2>3, <2>4, <2>5 DEF Starts
    <2> QED
      BY <2>6
  <1> HIDE DEF S
  <1>3. \A m \in Nat : m \in S
    BY <1>1, <1>2, SetInduction
  <1> QED
    BY <1>3 DEF S

LEMMA StartsAgree ==
  ASSUME NEW D, NEW a, NEW g, NEW m \in Nat, NEW n \in Nat, m <= n,
         NEW h \in Starts(D, a, g, m), NEW f \in Starts(D, a, g, n)
  PROVE  \A k \in 0 .. m : h[k] = f[k]
  <1> DEFINE S == {k \in Nat : k <= m => h[k] = f[k]}
  <1>1. 0 \in S
    BY DEF Starts
  <1>2. ASSUME NEW k \in Nat, k \in S PROVE k + 1 \in S
    <2> SUFFICES ASSUME k + 1 <= m PROVE h[k + 1] = f[k + 1]
      OBVIOUS
    <2>1. h[k] = f[k]
      BY <1>2
    <2>2. k + 1 \in 1 .. m /\ k + 1 \in 1 .. n /\ (k + 1) - 1 = k
      OBVIOUS
    <2> QED
      BY <2>1, <2>2 DEF Starts
  <1> HIDE DEF S
  <1>3. \A k \in Nat : k \in S
    BY <1>1, <1>2, SetInduction
  <1> QED
    BY <1>3 DEF S

\* A function may be defined by recursion on its argument.
Recursive(f, a, g) == f[0] = a /\ \A k \in Nat \ {0} : f[k] = g[<<k, f[k - 1]>>]

LEMMA RecursionExists ==
  ASSUME NEW D, NEW a \in D, NEW g \in [Nat \X D -> D]
  PROVE  \E f \in [Nat -> D] : Recursive(f, a, g)
  <1> DEFINE h(m) == CHOOSE h \in Starts(D, a, g, m) : TRUE
             f == [m \in Nat |-> h(m)[m]]
  <1>1. \A m \in Nat : h(m) \in Starts(D, a, g, m)
    BY StartExists
  <1> HIDE DEF h
  <1>2. \A m \in Nat : h(m) \in [0 .. m -> D] /\ h(m)[0] = a
    BY <1>1 DEF Starts
  <1>3. f \in [Nat -> D]
    BY <1>2
  <1>4. ASSUME NEW k \in Nat PROVE f[k] = IF k = 0 THEN a ELSE g[<<k, f[k - 1]>>]
    <2>1. CASE k = 0
      BY <1>2, <2>1
    <2>2. CASE k # 0
      <3>1. k - 1 \in Nat /\ k - 1 <= k /\ k - 1 \in 0 .. k - 1 /\ k \in 1 .. k
        BY <2>2
      <3>2. h(k - 1)[k - 1] = h(k)[k - 1]
        BY <1>1, <3>1, StartsAgree
      <3>3. h(k)[k] = g[<<k, h(k)[k - 1]>>]
        BY <1>1, <3>1 DEF Starts
      <3> QED
        BY <2>2, <3>1, <3>2, <3>3
    <2> QED
      BY <2>1, <2>2
  <1> HIDE DEF f
  <1> QED
    BY <1>3, <1>4 DEF Recursive
-----------------------------------------------------------------------------
(***************************************************************************)
(* The order, and sequences rearranged                                     *)
(***************************************************************************)
LEMMA LessIsAsymmetric ==
  ASSUME NEW x \in Items, NEW y \in Items, less(x, y)
  PROVE  ~ less(y, x)
  BY ExpiryAssumption DEF less

LEMMA NotLessIsTransitive ==
  ASSUME NEW x \in Items, NEW y \in Items, NEW z \in Items, ~ less(y, x), ~ less(z, y)
  PROVE  ~ less(z, x)
  BY ExpiryAssumption DEF less

\* t lists the elements of s in another order.
Order(n) ==
  {p \in [1 .. n -> 1 .. n] : /\ \A j, k \in 1 .. n : p[j] = p[k] => j = k
                             /\ \A j \in 1 .. n : \E k \in 1 .. n : p[k] = j}

Rearranged(s, t) ==
  /\ Len(t) = Len(s)
  /\ \E p \in Order(Len(s)) : \A k \in 1 .. Len(s) : t[k] = s[p[k]]

Swapped(s, i, j, t) ==
  \A k \in 1 .. Len(s) : t[k] = IF k = j THEN s[i] ELSE IF k = i THEN s[j] ELSE s[k]

LEMMA SwapIsSeq ==
  ASSUME NEW s \in Seq(Items), NEW i \in 1 .. Len(s), NEW j \in 1 .. Len(s)
  PROVE  /\ Swap(s, i, j) \in Seq(Items) /\ Len(Swap(s, i, j)) = Len(s)
         /\ Swapped(s, i, j, Swap(s, i, j))
  <1> DEFINE t == [s EXCEPT ![i] = s[j]]
  <1>1. s[i] \in Items /\ s[j] \in Items
    BY ElementOfSeq
  <1>2. /\ t \in Seq(Items) /\ Len(t) = Len(s)
        /\ \A k \in 1 .. Len(s) : t[k] = IF k = i THEN s[j] ELSE s[k]
    BY <1>1, ExceptSeq
  <1>3. Swap(s, i, j) = [t EXCEPT ![j] = s[i]]
    BY DEF Swap
  <1> HIDE DEF t
  <1>4. /\ [t EXCEPT ![j] = s[i]] \in Seq(Items) /\ Len([t EXCEPT ![j] = s[i]]) = Len(t)
        /\ \A k \in 1 .. Len(t) : [t EXCEPT ![j] = s[i]][k] = IF k = j THEN s[i] ELSE t[k]
    BY <1>1, <1>2, ExceptSeq
  <1> QED
    BY <1>2, <1>3, <1>4 DEF Swapped

LEMMA RearrangedItself ==
  ASSUME NEW s \in Seq(Items)
  PROVE  Rearranged(s, s)
  <1>1. Len(s) \in Nat
    OBVIOUS
  <1>2. [k \in 1 .. Len(s) |-> k] \in Order(Len(s))
    BY <1>1 DEF Order
  <1> QED
    BY <1>2 DEF Rearranged

LEMMA RearrangedSwap ==
  ASSUME NEW s \in Seq(Items), NEW t \in Seq(Items), Rearranged(s, t),
         NEW i \in 1 .. Len(s), NEW j \in 1 .. Len(s)
  PROVE  Rearranged(s, Swap(t, i, j))
  <1>1. Len(t) = Len(s) /\ Len(s) \in Nat
    BY DEF Rearranged
  <1>2. PICK p \in Order(Len(s)) : \A k \in 1 .. Len(s) : t[k] = s[p[k]]
    BY DEF Rearranged
  <1>3. PICK n : n = Len(s)
    OBVIOUS
  <1> DEFINE q == [k \in 1 .. n |-> IF k = j THEN p[i] ELSE IF k = i THEN p[j] ELSE p[k]]
  <1>4. q \in Order(n)
    <2>1. /\ p \in [1 .. n -> 1 .. n]
          /\ \A k, l \in 1 .. n : p[k] = p[l] => k = l
          /\ \A l \in 1 .. n : \E k \in 1 .. n : p[k] = l
      BY <1>2, <1>3 DEF Order
    <2>2. q \in [1 .. n -> 1 .. n]
      BY <1>3, <2>1
    <2>3. ASSUME NEW k \in 1 .. n, NEW l \in 1 .. n, q[k] = q[l] PROVE k = l
      BY <1>3, <2>1, <2>3
    <2>4. ASSUME NEW l \in 1 .. n PROVE \E k \in 1 .. n : q[k] = l
      <3>1. PICK k \in 1 .. n : p[k] = l
        BY <2>1
      <3>2. q[IF k = i THEN j ELSE IF k = j THEN i ELSE k] = l
        BY <1>3, <3>1
      <3> QED
        BY <1>3, <3>2
    <2> HIDE DEF q
    <2> QED
      BY <2>2, <2>3, <2>4 DEF Order
  <1>5. \A k \in 1 .. n : Swap(t, i, j)[k] = s[q[k]]
    <2>1. \A k \in 1 .. n : Swap(t, i, j)[k] = IF k = j THEN t[i] ELSE IF k = i THEN t[j] ELSE t[k]
      BY <1>1, <1>3, SwapIsSeq DEF Swapped
    <2>2. \A k \in 1 .. n : t[k] = s[p[k]]
      BY <1>2, <1>3
    <2> QED
      BY <1>3, <2>1, <2>2
  <1>6. Len(Swap(t, i, j)) = n
    BY <1>1, <1>3, SwapIsSeq
  <1> HIDE DEF q
  <1> QED
    BY <1>3, <1>4, <1>5, <1>6 DEF Rearranged

LEMMA RearrangedTransitive ==
  ASSUME NEW s \in Seq(Items), NEW t \in Seq(Items), NEW u \in Seq(Items),
         Rearranged(s, t), Rearranged(t, u)
  PROVE  Rearranged(s, u)
  <1>1. PICK n : n = Len(s) /\ n = Len(t) /\ n = Len(u)
    BY DEF Rearranged
  <1>2. PICK p \in Order(n) : \A k \in 1 .. n : t[k] = s[p[k]]
    BY <1>1 DEF Rearranged
  <1>3. PICK q \in Order(n) : \A k \in 1 .. n : u[k] = t[q[k]]
    BY <1>1 DEF Rearranged
  <1> DEFINE r == [k \in 1 .. n |-> p[q[k]]]
  <1>4. r \in Order(n)
    <2>1. /\ p \in [1 .. n -> 1 .. n] /\ q \in [1 .. n -> 1 .. n]
          /\ \A k, l \in 1 .. n : p[k] = p[l] => k = l
          /\ \A k, l \in 1 .. n : q[k] = q[l] => k = l
      BY DEF Order
    <2>2. r \in [1 .. n -> 1 .. n]
      BY <2>1
    <2>3. ASSUME NEW k \in 1 .. n, NEW l \in 1 .. n, r[k] = r[l] PROVE k = l
      BY <2>1, <2>3
    <2>4. ASSUME NEW l \in 1 .. n PROVE \E k \in 1 .. n : r[k] = l
      <3>1. PICK j \in 1 .. n : p[j] = l
        BY DEF Order
      <3>2. PICK k \in 1 .. n : q[k] = j
        BY DEF Order
      <3> QED
        BY <3>1, <3>2
    <2> HIDE DEF r
    <2> QED
      BY <2>2, <2>3, <2>4 DEF Order
  <1>5. \A k \in 1 .. n : u[k] = s[r[k]]
    BY <1>2, <1>3 DEF Order
  <1> HIDE DEF r
  <1> QED
    BY <1>1, <1>4, <1>5 DEF Rearranged
-----------------------------------------------------------------------------
(***************************************************************************)
(* down: the loop of one item                                              *)
(***************************************************************************)
\* Where the loop can be: a sequence of length L and a place in it.
Places(L) == {t \in Seq(Items) : Len(t) = L} \X (1 .. L)

LEMMA SinkIsPlace ==
  ASSUME NEW L \in Nat, NEW n \in 0 .. L, NEW at \in Places(L)
  PROVE  Sink(at, n) \in Places(L)
  <1>1. at[1] \in Seq(Items) /\ Len(at[1]) = L /\ at[2] \in 1 .. L
    BY DEF Places
  <1>2. CASE Settled(at[1], at[2], n)
    BY <1>2 DEF Sink
  <1>3. CASE ~ Settled(at[1], at[2], n)
    <2>1. PICK c : c = SmallerChild(at[1], at[2], n)
      OBVIOUS
    <2>2. c \in 1 .. L
      BY <1>1, <1>3, <2>1 DEF Settled, SmallerChild
    <2>3. Swap(at[1], at[2], c) \in Seq(Items) /\ Len(Swap(at[1], at[2], c)) = L
      BY <1>1, <2>2, SwapIsSeq
    <2>4. Sink(at, n) = <<Swap(at[1], at[2], c), c>>
      BY <1>3, <2>1 DEF Sink
    <2> QED
      BY <2>2, <2>3, <2>4 DEF Places
  <1> QED
    BY <1>2, <1>3

LEMMA RoundsStart ==
  ASSUME NEW s \in Seq(Items), NEW i \in 1 .. Len(s), NEW n \in 0 .. Len(s)
  PROVE  /\ Rounds(s, i, n)[0] = <<s, i>>
         /\ \A k \in Nat : Rounds(s, i, n)[k + 1] = Sink(Rounds(s, i, n)[k], n)
  <1>1. PICK D : D = Places(Len(s))
    OBVIOUS
  <1>2. PICK a : a = <<s, i>>
    OBVIOUS
  <1>3. a \in D
    BY <1>1, <1>2 DEF Places
  <1>g. PICK g : g = [x \in Nat \X D |-> Sink(x[2], n)]
    OBVIOUS
  <1>4. g \in [Nat \X D -> D]
    <2>1. \A x \in Nat \X D : Sink(x[2], n) \in D
      <3>1. \A y \in D : Sink(y, n) \in D
        BY <1>1, SinkIsPlace
      <3> QED
        BY <3>1
    <2> QED
      BY <1>g, <2>1
  <1>5. \A k \in Nat, y \in D : g[<<k, y>>] = Sink(y, n)
    BY <1>g
  <1>6. PICK f \in [Nat -> D] : Recursive(f, a, g)
    BY <1>3, <1>4, RecursionExists
  <1>7. \A k \in Nat : f[k] = IF k = 0 THEN a ELSE Sink(f[k - 1], n)
    <2>1. ASSUME NEW k \in Nat, k # 0 PROVE f[k] = Sink(f[k - 1], n)
      <3>1. k - 1 \in Nat
        BY <2>1
      <3>2. f[k] = g[<<k, f[k - 1]>>]
        BY <1>6, <2>1 DEF Recursive
      <3>3. f[k - 1] \in D
        BY <3>1
      <3> QED
        BY <1>5, <3>2, <3>3
    <2>2. f[0] = a
      BY <1>6 DEF Recursive
    <2> QED
      BY <2>1, <2>2
  <1>8. f = [k \in Nat |-> IF k = 0 THEN <<s, i>> ELSE Sink(f[k - 1], n)]
    <2>1. f = [k \in Nat |-> f[k]]
      OBVIOUS
    <2> QED
      BY <1>2, <1>7, <2>1, Zenon
  <1>9. Rounds(s, i, n) =
          [k \in Nat |-> IF k = 0 THEN <<s, i>> ELSE Sink(Rounds(s, i, n)[k - 1], n)]
    BY <1>8, Zenon DEF Rounds
  <1>10. PICK r : r = Rounds(s, i, n)
    OBVIOUS
  <1>11. r = [k \in Nat |-> IF k = 0 THEN <<s, i>> ELSE Sink(r[k - 1], n)]
    BY <1>9, <1>10, Zenon
  <1>12. \A k \in Nat : r[k] = IF k = 0 THEN <<s, i>> ELSE Sink(r[k - 1], n)
    BY <1>11, Zenon
  <1>13. ASSUME NEW k \in Nat PROVE r[k + 1] = Sink(r[k], n)
    <2>1. k + 1 \in Nat /\ k + 1 # 0 /\ (k + 1) - 1 = k
      OBVIOUS
    <2>2. r[k + 1] = Sink(r[(k + 1) - 1], n)
      BY <1>12, <2>1
    <2> QED
      BY <2>1, <2>2
  <1>14. r[0] = <<s, i>>
    BY <1>12
  <1> QED
    BY <1>10, <1>13, <1>14

\* The loop never leaves the sequence, only rearranges it, and leaves the places
\* from n + 1 on alone.
SinkKeeps(s, n, at) ==
  /\ at \in Places(Len(s))
  /\ Rearranged(s, at[1])
  /\ \A k \in n + 1 .. Len(s) : at[1][k] = s[k]

LEMMA SinkKeepsStep ==
  ASSUME NEW s \in Seq(Items), NEW n \in 0 .. Len(s), NEW at, SinkKeeps(s, n, at)
  PROVE  SinkKeeps(s, n, Sink(at, n))
  <1>1. /\ at[1] \in Seq(Items) /\ Len(at[1]) = Len(s) /\ at[2] \in 1 .. Len(s)
        /\ Len(s) \in Nat
    BY DEF SinkKeeps, Places
  <1>2. CASE Settled(at[1], at[2], n)
    BY <1>2 DEF Sink
  <1>3. CASE ~ Settled(at[1], at[2], n)
    <2>1. PICK t, i : t = at[1] /\ i = at[2]
      OBVIOUS
    <2>2. PICK c : c = SmallerChild(t, i, n)
      OBVIOUS
    <2>3. /\ t \in Seq(Items) /\ Len(t) = Len(s) /\ c \in 1 .. n /\ i \in 1 .. n
          /\ c \in 1 .. Len(t) /\ i \in 1 .. Len(t)
      <3>1. t \in Seq(Items) /\ Len(t) = Len(s) /\ i \in 1 .. Len(s)
        BY <1>1, <2>1
      <3>2. ~ (2*i > n)
        BY <1>3, <2>1 DEF Settled
      <3>3. c = 2*i \/ (c = 2*i + 1 /\ 2*i + 1 <= n)
        BY <2>2 DEF SmallerChild
      <3> QED
        BY <1>1, <3>1, <3>2, <3>3
    <2>4. Sink(at, n) = <<Swap(t, i, c), c>>
      BY <1>3, <2>1, <2>2 DEF Sink
    <2>5. Sink(at, n) \in Places(Len(s))
      BY <1>1, SinkIsPlace DEF SinkKeeps
    <2>6. Rearranged(s, Swap(t, i, c))
      <3>1. Rearranged(s, t)
        BY <2>1 DEF SinkKeeps
      <3> QED
        BY <1>1, <2>3, <3>1, RearrangedSwap
    <2>7. \A k \in n + 1 .. Len(s) : Swap(t, i, c)[k] = s[k]
      <3>1. Swapped(t, i, c, Swap(t, i, c))
        BY <1>1, <2>3, SwapIsSeq
      <3>2. \A k \in n + 1 .. Len(s) : k \in 1 .. Len(t) /\ k # c /\ k # i
        BY <1>1, <2>3
      <3>3. \A k \in n + 1 .. Len(s) : t[k] = s[k]
        BY <2>1 DEF SinkKeeps
      <3> QED
        BY <3>1, <3>2, <3>3 DEF Swapped
    <2> QED
      BY <2>4, <2>5, <2>6, <2>7 DEF SinkKeeps
  <1> QED
    BY <1>2, <1>3

LEMMA RoundsKeep ==
  ASSUME NEW s \in Seq(Items), NEW i \in 1 .. Len(s), NEW n \in 0 .. Len(s)
  PROVE  \A k \in Nat : SinkKeeps(s, n, Rounds(s, i, n)[k])
  <1>1. PICK r : r = Rounds(s, i, n)
    OBVIOUS
  <1>2. r[0] = <<s, i>> /\ \A k \in Nat : r[k + 1] = Sink(r[k], n)
    BY <1>1, RoundsStart
  <1> DEFINE S == {k \in Nat : SinkKeeps(s, n, r[k])}
  <1>3. 0 \in S
    <2>1. Rearranged(s, s)
      BY RearrangedItself
    <2>2. <<s, i>> \in Places(Len(s))
      BY DEF Places
    <2>3. <<s, i>>[1] = s
      OBVIOUS
    <2>4. SinkKeeps(s, n, <<s, i>>)
      BY <2>1, <2>2, <2>3 DEF SinkKeeps
    <2> QED
      BY <1>2, <2>4
  <1>4. ASSUME NEW k \in Nat, k \in S PROVE k + 1 \in S
    BY <1>2, <1>4, SinkKeepsStep
  <1> HIDE DEF S
  <1>5. \A k \in Nat : k \in S
    BY <1>3, <1>4, SetInduction
  <1> QED
    BY <1>1, <1>5 DEF S

\* Neither child of place k among the first n comes before it.
Above(s, n, k) ==
  /\ 2*k <= n => ~ less(s[2*k], s[k])
  /\ 2*k + 1 <= n => ~ less(s[2*k + 1], s[k])

\* From place lo on only the place the loop is at may be out of order, and the
\* children of that place are in order with its parent.
SinkOrders(at, lo, n) ==
  /\ lo <= at[2]
  /\ \A k \in lo .. n : k # at[2] => Above(at[1], n, k)
  /\ \A p \in lo .. n, c \in 1 .. n :
       at[2] \in {2*p, 2*p + 1} /\ c \in {2*at[2], 2*at[2] + 1} => ~ less(at[1][c], at[1][p])

\* The child the loop goes on with is the one that comes first.
LEMMA SmallerChildIsFirst ==
  ASSUME NEW s \in Seq(Items), NEW i \in 1 .. Len(s), NEW n \in 0 .. Len(s), 2*i <= n,
         NEW c, c = SmallerChild(s, i, n)
  PROVE  /\ c \in {2*i, 2*i + 1} /\ c \in 1 .. n
         /\ \A d \in {2*i, 2*i + 1} : d <= n => ~ less(s[d], s[c])
  <1>1. Len(s) \in Nat /\ \A k \in 1 .. Len(s) : s[k] \in Items
    BY ElementOfSeq
  <1>2. c \in {2*i, 2*i + 1} /\ c \in 1 .. n
    BY <1>1 DEF SmallerChild
  <1>3. ASSUME NEW d \in {2*i, 2*i + 1}, d <= n PROVE ~ less(s[d], s[c])
    <2>1. s[d] \in Items /\ s[c] \in Items
      BY <1>1, <1>2, <1>3
    <2>2. CASE d = c
      BY <2>1, <2>2, LessIsAsymmetric
    <2>3. CASE d # c /\ c = 2*i
      BY <1>3, <2>3 DEF SmallerChild
    <2>4. CASE d # c /\ c = 2*i + 1
      <3>1. less(s[2*i + 1], s[2*i])
        BY <2>4 DEF SmallerChild
      <3>2. d = 2*i
        BY <2>4
      <3> QED
        BY <2>1, <2>4, <3>1, <3>2, LessIsAsymmetric
    <2> QED
      BY <1>2, <2>2, <2>3, <2>4
  <1> QED
    BY <1>2, <1>3

LEMMA SettledIsAbove ==
  ASSUME NEW s \in Seq(Items), NEW i \in 1 .. Len(s), NEW n \in 0 .. Len(s), Settled(s, i, n)
  PROVE  Above(s, n, i)
  <1>1. Len(s) \in Nat /\ \A k \in 1 .. Len(s) : s[k] \in Items
    BY ElementOfSeq
  <1>2. CASE 2*i > n
    BY <1>1, <1>2 DEF Above
  <1>3. CASE 2*i <= n
    <2>1. PICK c : c = SmallerChild(s, i, n)
      OBVIOUS
    <2>2. /\ c \in {2*i, 2*i + 1} /\ c \in 1 .. n
          /\ \A d \in {2*i, 2*i + 1} : d <= n => ~ less(s[d], s[c])
      BY <1>3, <2>1, SmallerChildIsFirst
    <2>3. ~ less(s[c], s[i])
      BY <1>1, <1>3, <2>1 DEF Settled
    <2>4. ASSUME NEW d \in {2*i, 2*i + 1}, d <= n PROVE ~ less(s[d], s[i])
      <3>1. s[d] \in Items /\ s[c] \in Items /\ s[i] \in Items
        BY <1>1, <2>2, <2>4
      <3> QED
        BY <2>2, <2>3, <2>4, <3>1, NotLessIsTransitive
    <2> QED
      BY <2>4 DEF Above
  <1> QED
    BY <1>1, <1>2, <1>3

LEMMA SinkOrdersStep ==
  ASSUME NEW L \in Nat, NEW n \in 0 .. L, NEW lo \in Nat \ {0}, NEW at \in Places(L),
         SinkOrders(at, lo, n)
  PROVE  SinkOrders(Sink(at, n), lo, n)
  <1>1. PICK s, i : s = at[1] /\ i = at[2]
    OBVIOUS
  <1>2. s \in Seq(Items) /\ Len(s) = L /\ i \in 1 .. L
    BY <1>1 DEF Places
  <1>3. /\ lo <= i
        /\ \A k \in lo .. n : k # i => Above(s, n, k)
        /\ \A p \in lo .. n, c \in 1 .. n :
             i \in {2*p, 2*p + 1} /\ c \in {2*i, 2*i + 1} => ~ less(s[c], s[p])
    BY <1>1 DEF SinkOrders
  <1>4. CASE Settled(s, i, n)
    BY <1>1, <1>4 DEF Sink
  <1>5. CASE ~ Settled(s, i, n)
    <2>1. PICK c : c = SmallerChild(s, i, n)
      OBVIOUS
    <2>2. 2*i <= n
      BY <1>2, <1>5 DEF Settled
    <2>3. /\ c \in {2*i, 2*i + 1} /\ c \in 1 .. n
          /\ \A d \in {2*i, 2*i + 1} : d <= n => ~ less(s[d], s[c])
      BY <1>2, <2>1, <2>2, SmallerChildIsFirst
    <2>4. less(s[c], s[i])
      BY <1>5, <2>1 DEF Settled
    <2>5. PICK t : t = Swap(s, i, c)
      OBVIOUS
    <2>6. \A k \in 1 .. n : t[k] = IF k = c THEN s[i] ELSE IF k = i THEN s[c] ELSE s[k]
      <3>1. c \in 1 .. Len(s) /\ i \in 1 .. Len(s)
        BY <1>2, <2>3
      <3>2. Swapped(s, i, c, t)
        BY <1>2, <2>5, <3>1, SwapIsSeq
      <3> QED
        BY <1>2, <3>2 DEF Swapped
    <2>7. Sink(at, n) = <<t, c>>
      BY <1>1, <1>5, <2>1, <2>5 DEF Sink
    <2>8. i < c /\ i \in 1 .. n
      BY <1>2, <2>2, <2>3
    <2>9. \A k \in 1 .. n : s[k] \in Items
      BY <1>2, ElementOfSeq
    <2>10. lo <= c
      BY <1>2, <1>3, <2>3, <2>8
    <2>11. ASSUME NEW k \in lo .. n, k # c PROVE Above(t, n, k)
      <3> SUFFICES ASSUME NEW d \in {2*k, 2*k + 1}, d <= n
                   PROVE  ~ less(t[d], t[k])
        BY DEF Above
      <3>1. k \in 1 .. n /\ d \in 1 .. n /\ k < d
        OBVIOUS
      <3>2. CASE k = i
        <4>1. t[k] = s[c]
          BY <2>6, <2>8, <3>1, <3>2
        <4>2. CASE d = c
          <5>1. t[d] = s[i]
            BY <2>6, <3>1, <4>2
          <5> QED
            BY <2>3, <2>4, <2>8, <2>9, <4>1, <5>1, LessIsAsymmetric
        <4>3. CASE d # c
          <5>1. t[d] = s[d]
            BY <2>6, <3>1, <3>2, <4>3
          <5> QED
            BY <2>3, <3>2, <4>1, <5>1
        <4> QED
          BY <4>2, <4>3
      <3>3. CASE k # i
        <4>1. t[k] = s[k]
          BY <2>6, <2>11, <3>1, <3>3
        <4>2. d # c
          BY <2>3, <2>8, <3>1, <3>3
        <4>3. CASE d = i
          <5>1. t[d] = s[c]
            BY <2>6, <3>1, <4>2, <4>3
          <5>2. ~ less(s[c], s[k])
            BY <1>3, <2>3, <4>3
          <5> QED
            BY <4>1, <5>1, <5>2
        <4>4. CASE d # i
          <5>1. t[d] = s[d]
            BY <2>6, <3>1, <4>2, <4>4
          <5>2. ~ less(s[d], s[k])
            BY <1>3, <3>3 DEF Above
          <5> QED
            BY <4>1, <5>1, <5>2
        <4> QED
          BY <4>3, <4>4
      <3> QED
        BY <3>2, <3>3
    <2>12. ASSUME NEW p \in lo .. n, NEW e \in 1 .. n, c \in {2*p, 2*p + 1},
                  e \in {2*c, 2*c + 1}
           PROVE  ~ less(t[e], t[p])
      <3>1. p = i
        BY <2>3, <2>8, <2>12
      <3>2. e # c /\ e # i
        BY <2>3, <2>8, <2>12
      <3>3. t[e] = s[e] /\ t[p] = s[c]
        <4>1. t[e] = s[e]
          BY <2>6, <3>2
        <4>2. t[i] = s[c]
          BY <2>6, <2>8
        <4> QED
          BY <3>1, <4>1, <4>2
      <3>4. Above(s, n, c)
        <4>1. c \in lo .. n /\ c # i
          BY <2>3, <2>8, <2>10
        <4> QED
          BY <1>3, <4>1
      <3>5. e <= n
        OBVIOUS
      <3> QED
        BY <2>12, <3>3, <3>4, <3>5 DEF Above
    <2> QED
      <3>1. PICK u : u = <<t, c>>
        OBVIOUS
      <3>2. u[1] = t /\ u[2] = c
        BY <3>1
      <3>3. SinkOrders(u, lo, n)
        BY <2>10, <2>11, <2>12, <3>2 DEF SinkOrders
      <3> QED
        BY <2>7, <3>1, <3>3
  <1> QED
    BY <1>4, <1>5

\* Each round settles the loop or takes it to a later place.
LEMMA SinkAdvances ==
  ASSUME NEW L \in Nat, NEW n \in 0 .. L, NEW at \in Places(L)
  PROVE  /\ Settled(at[1], at[2], n) => Sink(at, n) = at
         /\ ~ Settled(at[1], at[2], n) => Sink(at, n)[2] >= at[2] + 1
  <1>1. PICK s, i : s = at[1] /\ i = at[2]
    OBVIOUS
  <1>2. i \in 1 .. L
    BY <1>1 DEF Places
  <1>3. CASE Settled(s, i, n)
    BY <1>1, <1>3 DEF Sink
  <1>4. CASE ~ Settled(s, i, n)
    <2>1. Sink(at, n)[2] = SmallerChild(s, i, n)
      BY <1>1, <1>4 DEF Sink
    <2>2. SmallerChild(s, i, n) >= i + 1
      BY <1>2 DEF SmallerChild
    <2> QED
      BY <1>1, <1>4, <2>1, <2>2
  <1> QED
    BY <1>1, <1>3, <1>4

\* down as a whole: it rearranges s, leaves the places from n + 1 on alone and,
\* when the places after i are in order, puts place i in order with them.
LEMMA DownKeeps ==
  ASSUME NEW s \in Seq(Items), NEW i \in 1 .. Len(s), NEW n \in 0 .. Len(s)
  PROVE  /\ Down(s, i, n) \in Seq(Items) /\ Len(Down(s, i, n)) = Len(s)
         /\ Rearranged(s, Down(s, i, n))
         /\ \A k \in n + 1 .. Len(s) : Down(s, i, n)[k] = s[k]
  <1>1. PICK at : at = Rounds(s, i, n)[n]
    OBVIOUS
  <1>2. SinkKeeps(s, n, at)
    BY <1>1, RoundsKeep
  <1>3. Down(s, i, n) = at[1]
    BY <1>1 DEF Down
  <1> QED
    BY <1>2, <1>3 DEF SinkKeeps, Places

LEMMA DownOrders ==
  ASSUME NEW s \in Seq(Items), NEW i \in 1 .. Len(s), NEW n \in 0 .. Len(s),
         \A k \in i + 1 .. n : Above(s, n, k)
  PROVE  \A k \in i .. n : Above(Down(s, i, n), n, k)
  <1>1. PICK r : r = Rounds(s, i, n)
    OBVIOUS
  <1>2. r[0] = <<s, i>> /\ \A k \in Nat : r[k + 1] = Sink(r[k], n)
    BY <1>1, RoundsStart
  <1>3. PICK L \in Nat : L = Len(s)
    OBVIOUS
  <1>4. \A k \in Nat : r[k] \in Places(L)
    BY <1>1, <1>3, RoundsKeep DEF SinkKeeps
  <1> DEFINE S == {k \in Nat : /\ SinkOrders(r[k], i, n)
                               /\ Settled(r[k][1], r[k][2], n) \/ r[k][2] >= k + 1}
  <1>5. 0 \in S
    <2>1. r[0][1] = s /\ r[0][2] = i
      BY <1>2
    <2>2. SinkOrders(r[0], i, n)
      <3>1. \A k \in i .. n : k # i => Above(s, n, k)
        OBVIOUS
      <3>2. \A p \in i .. n : i \notin {2*p, 2*p + 1}
        OBVIOUS
      <3> QED
        BY <2>1, <3>1, <3>2 DEF SinkOrders
    <2>3. r[0][2] >= 0 + 1
      BY <2>1
    <2> QED
      BY <2>2, <2>3
  <1>6. ASSUME NEW k \in Nat, k \in S PROVE k + 1 \in S
    <2>1. PICK at : at = r[k]
      OBVIOUS
    <2>2. at \in Places(L) /\ SinkOrders(at, i, n) /\ r[k + 1] = Sink(at, n)
      BY <1>2, <1>4, <1>6, <2>1
    <2>3. n \in 0 .. L /\ i \in Nat \ {0}
      BY <1>3
    <2>4. SinkOrders(r[k + 1], i, n)
      BY <2>2, <2>3, SinkOrdersStep
    <2>5. Settled(at[1], at[2], n) \/ at[2] >= k + 1
      BY <1>6, <2>1
    <2>6. at[2] \in 1 .. L
      BY <2>2 DEF Places
    <2>7. Settled(r[k + 1][1], r[k + 1][2], n) \/ r[k + 1][2] >= (k + 1) + 1
      <3>1. CASE Settled(at[1], at[2], n)
        <4>1. r[k + 1] = at
          BY <2>2, <2>3, <3>1, SinkAdvances
        <4> QED
          BY <3>1, <4>1
      <3>2. CASE ~ Settled(at[1], at[2], n)
        <4>1. Sink(at, n)[2] >= at[2] + 1
          BY <2>2, <2>3, <3>2, SinkAdvances
        <4>2. Sink(at, n) \in Places(L)
          BY <2>2, <2>3, SinkIsPlace
        <4>3. Sink(at, n)[2] \in Int
          BY <4>2 DEF Places
        <4>4. at[2] >= k + 1
          BY <2>5, <3>2
        <4> QED
          BY <2>2, <2>6, <4>1, <4>3, <4>4
      <3> QED
        BY <3>1, <3>2
    <2> QED
      BY <2>4, <2>7
  <1> HIDE DEF S
  <1>7. \A k \in Nat : k \in S
    BY <1>5, <1>6, SetInduction
  <1>8. PICK t, j : t = r[n][1] /\ j = r[n][2]
    OBVIOUS
  <1>9. t \in Seq(Items) /\ Len(t) = L /\ j \in 1 .. L
    BY <1>3, <1>4, <1>8 DEF Places
  <1>10. SinkOrders(r[n], i, n) /\ (Settled(t, j, n) \/ j >= n + 1)
    BY <1>7, <1>8 DEF S
  <1>11. Above(t, n, j)
    <2>1. Settled(t, j, n)
      BY <1>9, <1>10 DEF Settled
    <2> QED
      BY <1>3, <1>9, <2>1, SettledIsAbove
  <1>12. \A k \in i .. n : Above(t, n, k)
    BY <1>8, <1>10, <1>11 DEF SinkOrders
  <1>13. Down(s, i, n) = t
    BY <1>1, <1>8 DEF Down
  <1> QED
    BY <1>12, <1>13
-----------------------------------------------------------------------------
(***************************************************************************)
(* Init and Pop of container/heap                                          *)
(***************************************************************************)
\* No child comes before its parent.
IsHeap(s) == \A k \in 1 .. Len(s) : Above(s, Len(s), k)

LEMMA HeapifyStart ==
  ASSUME NEW s \in Seq(Items), NEW h, h = Len(s) \div 2
  PROVE  /\ h \in Nat /\ 2*h <= Len(s) /\ Len(s) <= 2*h + 1
         /\ Heapify(s)[0] = s
         /\ \A k \in 1 .. h : Heapify(s)[k] = Down(Heapify(s)[k - 1], h + 1 - k, Len(s))
  <1>1. h \in Nat /\ 2*h <= Len(s) /\ Len(s) <= 2*h + 1
    OBVIOUS
  <1>2. PICK D : D = {t \in Seq(Items) : Len(t) = Len(s)}
    OBVIOUS
  <1>3. s \in D
    BY <1>2
  <1>4. PICK g : g = [x \in Nat \X D |-> IF x[1] \in 1 .. h THEN Down(x[2], h + 1 - x[1], Len(s))
                                         ELSE x[2]]
    OBVIOUS
  <1>5. ASSUME NEW k \in 1 .. h, NEW y \in D PROVE Down(y, h + 1 - k, Len(s)) \in D
    <2>1. y \in Seq(Items) /\ Len(y) = Len(s)
      BY <1>2
    <2>2. h + 1 - k \in 1 .. Len(y) /\ Len(s) \in 0 .. Len(y)
      BY <1>1, <2>1
    <2> QED
      BY <1>2, <2>1, <2>2, DownKeeps
  <1>6. g \in [Nat \X D -> D]
    <2>1. ASSUME NEW x \in Nat \X D
          PROVE  (IF x[1] \in 1 .. h THEN Down(x[2], h + 1 - x[1], Len(s)) ELSE x[2]) \in D
      <3>1. PICK k, y : k = x[1] /\ y = x[2]
        OBVIOUS
      <3>2. y \in D
        BY <3>1
      <3> QED
        BY <1>5, <3>1, <3>2
    <2> QED
      BY <1>4, <2>1
  <1>7. \A k \in 1 .. h, y \in D : g[<<k, y>>] = Down(y, h + 1 - k, Len(s))
    BY <1>1, <1>4
  <1>8. PICK e \in [Nat -> D] : Recursive(e, s, g)
    BY <1>3, <1>6, RecursionExists
  <1>9. PICK f : f = [k \in 0 .. h |-> e[k]]
    OBVIOUS
  <1>10. ASSUME NEW k \in 0 .. h
         PROVE  f[k] = IF k = 0 THEN s ELSE Down(f[k - 1], h + 1 - k, Len(s))
    <2>1. CASE k = 0
      BY <1>8, <1>9, <2>1 DEF Recursive
    <2>2. CASE k # 0
      <3>1. k \in Nat \ {0} /\ k \in 1 .. h /\ k - 1 \in Nat /\ k - 1 \in 0 .. h
        BY <1>1, <2>2
      <3>2. e[k] = g[<<k, e[k - 1]>>] /\ e[k - 1] \in D
        BY <1>8, <3>1 DEF Recursive
      <3>3. e[k] = Down(e[k - 1], h + 1 - k, Len(s))
        BY <1>7, <3>1, <3>2
      <3> QED
        BY <1>9, <2>2, <3>1, <3>3
    <2> QED
      BY <2>1, <2>2
  <1>11. f = [k \in 0 .. Len(s) \div 2 |->
               IF k = 0 THEN s ELSE Down(f[k - 1], Len(s) \div 2 + 1 - k, Len(s))]
    <2>1. f = [k \in 0 .. h |-> f[k]]
      BY <1>9
    <2>2. f = [k \in 0 .. h |-> IF k = 0 THEN s ELSE Down(f[k - 1], h + 1 - k, Len(s))]
      BY <1>10, <2>1, Zenon
    <2> QED
      BY <2>2, Zenon
  <1>12. Heapify(s) =
           [k \in 0 .. Len(s) \div 2 |->
             IF k = 0 THEN s ELSE Down(Heapify(s)[k - 1], Len(s) \div 2 + 1 - k, Len(s))]
    BY <1>11, Zenon DEF Heapify
  <1>13. PICK r : r = Heapify(s)
    OBVIOUS
  <1>14. r = [k \in 0 .. h |-> IF k = 0 THEN s ELSE Down(r[k - 1], h + 1 - k, Len(s))]
    BY <1>12, <1>13, Zenon
  <1>15. \A k \in 0 .. h : r[k] = IF k = 0 THEN s ELSE Down(r[k - 1], h + 1 - k, Len(s))
    BY <1>14, Zenon
  <1>16. r[0] = s
    BY <1>1, <1>15
  <1>17. \A k \in 1 .. h : r[k] = Down(r[k - 1], h + 1 - k, Len(s))
    BY <1>1, <1>15
  <1> QED
    BY <1>1, <1>13, <1>16, <1>17

\* Init rearranges s into a heap.
LEMMA heapsInitIsHeap ==
  ASSUME NEW s \in Seq(Items)
  PROVE  /\ heapsInit(s) \in Seq(Items) /\ Len(heapsInit(s)) = Len(s)
         /\ Rearranged(s, heapsInit(s)) /\ IsHeap(heapsInit(s))
  <1>1. PICK h : h = Len(s) \div 2
    OBVIOUS
  <1>2. PICK r : r = Heapify(s)
    OBVIOUS
  <1>3. PICK L \in Nat : L = Len(s)
    OBVIOUS
  <1>4. /\ h \in Nat /\ 2*h <= L /\ L <= 2*h + 1
        /\ r[0] = s /\ \A k \in 1 .. h : r[k] = Down(r[k - 1], h + 1 - k, L)
    BY <1>1, <1>2, <1>3, HeapifyStart
  <1> DEFINE S == {k \in Nat : k <= h =>
                     /\ r[k] \in Seq(Items) /\ Len(r[k]) = L /\ Rearranged(s, r[k])
                     /\ \A j \in h + 1 - k .. L : Above(r[k], L, j)}
  <1>5. 0 \in S
    <2>1. Rearranged(s, s)
      BY RearrangedItself
    <2>2. \A j \in h + 1 .. L : Above(s, L, j)
      BY <1>4 DEF Above
    <2> QED
      BY <1>3, <1>4, <2>1, <2>2
  <1>6. ASSUME NEW k \in Nat, k \in S PROVE k + 1 \in S
    <2> SUFFICES ASSUME k + 1 <= h
                 PROVE  /\ r[k + 1] \in Seq(Items) /\ Len(r[k + 1]) = L
                        /\ Rearranged(s, r[k + 1])
                        /\ \A j \in h + 1 - (k + 1) .. L : Above(r[k + 1], L, j)
      OBVIOUS
    <2>1. PICK t : t = r[k]
      OBVIOUS
    <2>2. PICK i : i = h - k
      OBVIOUS
    <2>3. /\ t \in Seq(Items) /\ Len(t) = L /\ Rearranged(s, t)
          /\ \A j \in i + 1 .. L : Above(t, L, j)
      <3>1. k <= h /\ i + 1 = h + 1 - k
        BY <1>4, <2>2
      <3> QED
        BY <1>6, <2>1, <3>1
    <2>4. r[k + 1] = Down(t, i, L)
      <3>1. k + 1 \in 1 .. h /\ (k + 1) - 1 = k /\ h + 1 - (k + 1) = i
        BY <1>4, <2>2
      <3>2. r[k + 1] = Down(r[(k + 1) - 1], h + 1 - (k + 1), L)
        BY <1>4, <3>1
      <3> QED
        BY <2>1, <3>1, <3>2
    <2>5. i \in 1 .. Len(t) /\ L \in 0 .. Len(t)
      BY <1>4, <2>2, <2>3
    <2>6. /\ Down(t, i, L) \in Seq(Items) /\ Len(Down(t, i, L)) = L
          /\ Rearranged(t, Down(t, i, L))
      BY <2>3, <2>5, DownKeeps
    <2>7. Rearranged(s, Down(t, i, L))
      BY <2>3, <2>6, RearrangedTransitive
    <2>8. \A j \in i .. L : Above(Down(t, i, L), L, j)
      BY <2>3, <2>5, DownOrders
    <2>9. h + 1 - (k + 1) = i
      BY <1>4, <2>2
    <2> QED
      BY <2>4, <2>6, <2>7, <2>8, <2>9
  <1> HIDE DEF S
  <1>7. \A k \in Nat : k \in S
    BY <1>5, <1>6, SetInduction
  <1>8. /\ r[h] \in Seq(Items) /\ Len(r[h]) = L /\ Rearranged(s, r[h])
        /\ \A j \in h + 1 - h .. L : Above(r[h], L, j)
    BY <1>4, <1>7 DEF S
  <1>9. h + 1 - h = 1
    BY <1>4
  <1>10. heapsInit(s) = r[h]
    BY <1>1, <1>2 DEF heapsInit
  <1> QED
    BY <1>3, <1>8, <1>9, <1>10 DEF IsHeap

\* The n places of t list the n + 1 places of s but the first.
TopGone(n, s, t) ==
  \E w \in [1 .. n -> 2 .. n + 1] :
    /\ \A j, k \in 1 .. n : w[j] = w[k] => j = k
    /\ \A j \in 2 .. n + 1 : \E k \in 1 .. n : w[k] = j
    /\ \A k \in 1 .. n : t[k] = s[w[k]]

\* Pop leaves a heap of the other items: it gives the top of s away and keeps
\* every other place of s, once.
LEMMA heapsPopIsHeap ==
  ASSUME NEW s \in Seq(Items), s # <<>>, IsHeap(s)
  PROVE  /\ heapsPop(s) \in Seq(Items) /\ Len(heapsPop(s)) = Len(s) - 1
         /\ IsHeap(heapsPop(s))
         /\ TopGone(Len(s) - 1, s, heapsPop(s))
  <1>1. PICK L : L = Len(s)
    OBVIOUS
  <1>2. PICK n : n = L - 1
    OBVIOUS
  <1>3. L \in Nat /\ L >= 1 /\ n \in 0 .. L /\ n + 1 = L
    <2>1. Len(s) \in Nat /\ Len(s) # 0
      BY EmptySeq
    <2> QED
      BY <1>1, <1>2, <2>1
  <1>4. PICK t : t = Swap(s, 1, L)
    OBVIOUS
  <1>5. 1 \in 1 .. Len(s) /\ L \in 1 .. Len(s)
    BY <1>1, <1>3
  <1>6. /\ t \in Seq(Items) /\ Len(t) = L /\ Rearranged(s, t)
    <2>1. Rearranged(s, s)
      BY RearrangedItself
    <2> QED
      BY <1>1, <1>4, <1>5, <2>1, SwapIsSeq, RearrangedSwap
  <1>7. \A k \in 1 .. L : t[k] = IF k = L THEN s[1] ELSE IF k = 1 THEN s[L] ELSE s[k]
    <2>1. Swapped(s, 1, L, t)
      BY <1>4, <1>5, SwapIsSeq
    <2> QED
      BY <1>1, <2>1 DEF Swapped
  <1>8. PICK u : u = Down(t, 1, n)
    OBVIOUS
  <1>9. 1 \in 1 .. Len(t) /\ n \in 0 .. Len(t)
    BY <1>3, <1>6
  <1>10. /\ u \in Seq(Items) /\ Len(u) = L /\ Rearranged(t, u)
         /\ \A k \in n + 1 .. L : u[k] = t[k]
    BY <1>6, <1>8, <1>9, DownKeeps
  <1>11. \A k \in 1 .. n : Above(u, n, k)
    <2>1. ASSUME NEW k \in 1 + 1 .. n PROVE Above(t, n, k)
      <3>1. Above(s, L, k)
        BY <1>1, <1>3 DEF IsHeap
      <3>2. k # 1 /\ k # L /\ k \in 1 .. L
        BY <1>3
      <3>3. t[k] = s[k]
        BY <1>7, <3>2
      <3>4. \A d \in {2*k, 2*k + 1} : d <= n => d \in 1 .. L /\ d # 1 /\ d # L
        BY <1>3
      <3>5. \A d \in {2*k, 2*k + 1} : d <= n => t[d] = s[d]
        BY <1>7, <3>4
      <3> QED
        BY <1>3, <3>1, <3>3, <3>5 DEF Above
    <2> QED
      BY <1>6, <1>8, <1>9, <2>1, DownOrders
  <1>12. heapsPop(s) = SubSeq(u, 1, n)
    BY <1>1, <1>2, <1>4, <1>8 DEF heapsPop
  <1>13. PICK v : v = heapsPop(s)
    OBVIOUS
  <1>14. v \in Seq(Items) /\ Len(v) = n /\ \A k \in 1 .. n : v[k] = u[k]
    BY <1>3, <1>10, <1>12, <1>13
  <1>15. IsHeap(v)
    <2>1. ASSUME NEW k \in 1 .. n PROVE Above(v, n, k)
      <3>1. Above(u, n, k)
        BY <1>11
      <3>2. \A d \in {2*k, 2*k + 1} : d <= n => v[d] = u[d]
        BY <1>14
      <3> QED
        BY <1>14, <3>1, <3>2 DEF Above
    <2> QED
      BY <1>14, <2>1 DEF IsHeap
  <1>16. PICK p \in Order(L) : \A k \in 1 .. L : t[k] = s[p[k]]
    BY <1>1, <1>6 DEF Rearranged
  <1>17. PICK q \in Order(L) : \A k \in 1 .. L : u[k] = t[q[k]]
    BY <1>6, <1>10 DEF Rearranged
  <1>18. PICK m \in 1 .. L : q[m] = L
    BY <1>3 DEF Order
  <1>19. u[m] = u[L] /\ u[m] = t[q[m]] /\ u[L] = t[q[L]]
    BY <1>3, <1>10, <1>17, <1>18
  <1> DEFINE e == [k \in 1 .. n |-> IF k = m THEN q[L] ELSE q[k]]
             o == [k \in 1 .. n |-> IF e[k] = 1 THEN L ELSE e[k]]
  <1>20. /\ q \in [1 .. L -> 1 .. L]
         /\ \A j, k \in 1 .. L : q[j] = q[k] => j = k
         /\ \A j \in 1 .. L : \E k \in 1 .. L : q[k] = j
    BY DEF Order
  <1>21. e \in [1 .. n -> 1 .. n]
    <2>1. ASSUME NEW k \in 1 .. n PROVE (IF k = m THEN q[L] ELSE q[k]) \in 1 .. n
      <3>1. L \in 1 .. L /\ k \in 1 .. L /\ k # L
        BY <1>3
      <3>2. q[L] \in 1 .. L /\ q[k] \in 1 .. L
        BY <1>20, <3>1
      <3>3. k = m => q[L] # L
        BY <1>18, <1>20, <3>1
      <3>4. k # m => q[k] # L
        BY <1>18, <1>20, <3>1
      <3> QED
        BY <1>3, <3>2, <3>3, <3>4
    <2> QED
      BY <2>1
  <1>22. ASSUME NEW j \in 1 .. n, NEW k \in 1 .. n, e[j] = e[k] PROVE j = k
    <2>1. j \in 1 .. L /\ k \in 1 .. L /\ L \in 1 .. L /\ j # L /\ k # L
      BY <1>3
    <2>2. e[j] = (IF j = m THEN q[L] ELSE q[j]) /\ e[k] = IF k = m THEN q[L] ELSE q[k]
      OBVIOUS
    <2> HIDE DEF e
    <2> QED
      BY <1>20, <1>22, <2>1, <2>2
  <1>23. ASSUME NEW j \in 1 .. n PROVE \E k \in 1 .. n : e[k] = j
    <2>1. j \in 1 .. L /\ j # L /\ L \in 1 .. L
      BY <1>3
    <2>2. PICK k \in 1 .. L : q[k] = j
      BY <1>20, <2>1
    <2>3. CASE k = L
      <3>1. m # L
        BY <1>18, <2>1, <2>2, <2>3
      <3>2. m \in 1 .. n
        BY <1>3, <1>18, <3>1
      <3>3. e[m] = q[L]
        BY <3>2
      <3> QED
        BY <2>2, <2>3, <3>2, <3>3
    <2>4. CASE k # L
      <3>1. k \in 1 .. n /\ k # m
        BY <1>3, <1>18, <2>1, <2>2, <2>4
      <3>2. e[k] = q[k]
        BY <3>1
      <3> QED
        BY <2>2, <3>1, <3>2
    <2> QED
      BY <2>3, <2>4
  <1>24. \A k \in 1 .. n : u[k] = t[e[k]]
    <2>1. ASSUME NEW k \in 1 .. n PROVE u[k] = t[e[k]]
      <3>1. e[k] = IF k = m THEN q[L] ELSE q[k]
        OBVIOUS
      <3>2. k \in 1 .. L
        BY <1>3
      <3> HIDE DEF e
      <3> QED
        BY <1>17, <1>19, <3>1, <3>2
    <2> QED
      BY <2>1
  <1> HIDE DEF e
  <1>25. \A k \in 1 .. n : o[k] = IF e[k] = 1 THEN L ELSE e[k]
    OBVIOUS
  <1>26. o \in [1 .. n -> 2 .. L]
    <2>1. \A k \in 1 .. n : (IF e[k] = 1 THEN L ELSE e[k]) \in 2 .. L
      BY <1>3, <1>21
    <2> QED
      BY <2>1
  <1> HIDE DEF o
  <1>27. \A j, k \in 1 .. n : o[j] = o[k] => j = k
    BY <1>3, <1>21, <1>22, <1>25
  <1>28. ASSUME NEW j \in 2 .. L PROVE \E k \in 1 .. n : o[k] = j
    <2>1. CASE j = L
      <3>1. 1 \in 1 .. n
        BY <1>3
      <3>2. PICK k \in 1 .. n : e[k] = 1
        BY <1>23, <3>1
      <3> QED
        BY <1>25, <2>1, <3>2
    <2>2. CASE j # L
      <3>1. j \in 1 .. n /\ j # 1
        BY <1>3, <2>2
      <3>2. PICK k \in 1 .. n : e[k] = j
        BY <1>23, <3>1
      <3> QED
        BY <1>25, <3>1, <3>2
    <2> QED
      BY <2>1, <2>2
  <1>29. ASSUME NEW k \in 1 .. n PROVE v[k] = s[o[k]]
    <2>1. v[k] = t[e[k]]
      BY <1>14, <1>24
    <2>2. e[k] \in 1 .. n /\ e[k] \in 1 .. L /\ e[k] # L /\ 1 # L /\ 1 \in 1 .. L
      BY <1>3, <1>21
    <2>3. CASE e[k] = 1
      <3>1. t[1] = s[L]
        BY <1>7, <2>2
      <3>2. o[k] = L
        BY <1>25, <2>3
      <3> QED
        BY <2>1, <2>3, <3>1, <3>2
    <2>4. CASE e[k] # 1
      <3>1. t[e[k]] = s[e[k]]
        BY <1>7, <2>2, <2>4
      <3>2. o[k] = e[k]
        BY <1>25, <2>4
      <3> QED
        BY <2>1, <3>1, <3>2
    <2> QED
      BY <2>3, <2>4
  <1>30. Len(s) - 1 = n
    BY <1>1, <1>2
  <1>31. /\ v \in Seq(Items) /\ Len(v) = Len(s) - 1
    BY <1>14, <1>30
  <1>32. TopGone(n, s, v)
    <2>1. \E w \in [1 .. n -> 2 .. L] :
            /\ \A j, k \in 1 .. n : w[j] = w[k] => j = k
            /\ \A j \in 2 .. L : \E k \in 1 .. n : w[k] = j
            /\ \A k \in 1 .. n : v[k] = s[w[k]]
      BY <1>26, <1>27, <1>28, <1>29
    <2> QED
      BY <1>3, <2>1 DEF TopGone
  <1>33. TopGone(Len(s) - 1, s, heapsPop(s))
    BY <1>13, <1>30, <1>32, Zenon
  <1> QED
    BY <1>13, <1>15, <1>31, <1>33
-----------------------------------------------------------------------------
(***************************************************************************)
(* What the operations keep: the items, their copies, and the least top    *)
(***************************************************************************)
Ranged(s) == {s[k] : k \in 1 .. Len(s)}

LEMMA RangeIsRanged ==
  ASSUME NEW s \in Seq(Items)
  PROVE  Range(s) = Ranged(s) /\ Range(s) \subseteq Items
  <1>1. DOMAIN s = 1 .. Len(s)
    OBVIOUS
  <1>2. \A k \in 1 .. Len(s) : s[k] \in Items
    BY ElementOfSeq
  <1> QED
    BY <1>1, <1>2 DEF Range, Ranged

LEMMA RearrangedRange ==
  ASSUME NEW s \in Seq(Items), NEW t \in Seq(Items), Rearranged(s, t)
  PROVE  Range(t) = Range(s)
  <1>1. PICK n : n = Len(s) /\ n = Len(t)
    BY DEF Rearranged
  <1>2. PICK p \in Order(n) : \A k \in 1 .. n : t[k] = s[p[k]]
    BY <1>1 DEF Rearranged
  <1>3. \A k \in 1 .. n : p[k] \in 1 .. n /\ \E j \in 1 .. n : p[j] = k
    BY DEF Order
  <1>4. Range(s) = {s[k] : k \in 1 .. n} /\ Range(t) = {t[k] : k \in 1 .. n}
    BY <1>1, RangeIsRanged DEF Ranged
  <1>5. ASSUME NEW x \in Range(t) PROVE x \in Range(s)
    BY <1>2, <1>3, <1>4
  <1>6. ASSUME NEW x \in Range(s) PROVE x \in Range(t)
    <2>1. PICK k \in 1 .. n : x = s[k]
      BY <1>4
    <2>2. PICK j \in 1 .. n : p[j] = k
      BY <1>3
    <2>3. x = t[j]
      BY <1>2, <2>1, <2>2
    <2> QED
      BY <1>4, <2>3
  <1> QED
    BY <1>5, <1>6

LEMMA CopiesAreFinite ==
  ASSUME NEW s \in Seq(Items), NEW x
  PROVE  IsFiniteSet({k \in 1 .. Len(s) : s[k] = x})
  <1>1. IsFiniteSet(1 .. Len(s))
    BY FS_Interval
  <1> QED
    BY <1>1, FS_Subset

LEMMA RearrangedCopies ==
  ASSUME NEW s \in Seq(Items), NEW t \in Seq(Items), Rearranged(s, t), NEW x
  PROVE  Copies(t, x) = Copies(s, x)
  <1>1. PICK n : n = Len(s) /\ n = Len(t)
    BY DEF Rearranged
  <1>2. PICK p \in Order(n) : \A k \in 1 .. n : t[k] = s[p[k]]
    BY <1>1 DEF Rearranged
  <1>3. /\ p \in [1 .. n -> 1 .. n]
        /\ \A j, k \in 1 .. n : p[j] = p[k] => j = k
        /\ \A j \in 1 .. n : \E k \in 1 .. n : p[k] = j
    BY DEF Order
  <1>4. PICK S, T : S = {k \in 1 .. n : s[k] = x} /\ T = {k \in 1 .. n : t[k] = x}
    OBVIOUS
  <1>5. IsFiniteSet(S) /\ IsFiniteSet(T)
    BY <1>1, <1>4, CopiesAreFinite
  <1>6. PICK f : f = [k \in T |-> p[k]]
    OBVIOUS
  <1>7. f \in Bijection(T, S)
    <2>1. f \in [T -> S]
      BY <1>2, <1>3, <1>4, <1>6
    <2>2. \A j, k \in T : f[j] = f[k] => j = k
      BY <1>3, <1>4, <1>6
    <2>3. ASSUME NEW j \in S PROVE \E k \in T : f[k] = j
      <3>1. PICK k \in 1 .. n : p[k] = j
        BY <1>3, <1>4
      <3>2. k \in T
        BY <1>2, <1>4, <3>1
      <3> QED
        BY <1>6, <3>1, <3>2
    <2> QED
      BY <2>1, <2>2, <2>3, Fun_IsBij
  <1>8. Cardinality(T) = Cardinality(S)
    <2>1. ExistsBijection(T, S)
      BY <1>7 DEF ExistsBijection
    <2> QED
      BY <1>5, <2>1, FS_Bijection
  <1>9. DOMAIN s = 1 .. n /\ DOMAIN t = 1 .. n
    <2>1. DOMAIN s = 1 .. Len(s) /\ DOMAIN t = 1 .. Len(t)
      OBVIOUS
    <2> QED
      BY <1>1, <2>1
  <1> QED
    BY <1>4, <1>8, <1>9 DEF Copies

\* Every place of t holds what a place of its own in s holds.
Embedded(s, t) ==
  \E w \in [1 .. Len(t) -> 1 .. Len(s)] :
    /\ \A j, k \in 1 .. Len(t) : w[j] = w[k] => j = k
    /\ \A k \in 1 .. Len(t) : t[k] = s[w[k]]

LEMMA RearrangedEmbedded ==
  ASSUME NEW s \in Seq(Items), NEW t \in Seq(Items), Rearranged(s, t)
  PROVE  Embedded(s, t)
  <1>1. Len(t) = Len(s)
    BY DEF Rearranged
  <1>2. PICK p \in Order(Len(s)) : \A k \in 1 .. Len(s) : t[k] = s[p[k]]
    BY DEF Rearranged
  <1>3. PICK n : n = Len(s)
    OBVIOUS
  <1>4. p \in [1 .. n -> 1 .. n] /\ \A j, k \in 1 .. n : p[j] = p[k] => j = k
    BY <1>3 DEF Order
  <1> QED
    BY <1>1, <1>2, <1>3, <1>4 DEF Embedded

LEMMA PopEmbedded ==
  ASSUME NEW s \in Seq(Items), s # <<>>, IsHeap(s)
  PROVE  Embedded(s, heapsPop(s))
  <1>1. PICK n, t : n = Len(s) - 1 /\ t = heapsPop(s)
    OBVIOUS
  <1>2. n \in Nat /\ Len(s) = n + 1
    BY <1>1, EmptySeq
  <1>3. Len(t) = n /\ TopGone(n, s, t)
    BY <1>1, heapsPopIsHeap
  <1>4. PICK w \in [1 .. n -> 2 .. n + 1] :
          /\ \A j, k \in 1 .. n : w[j] = w[k] => j = k
          /\ \A k \in 1 .. n : t[k] = s[w[k]]
    BY <1>3 DEF TopGone
  <1>5. w \in [1 .. n -> 1 .. n + 1]
    BY <1>2, <1>4
  <1>6. Embedded(s, t)
    BY <1>2, <1>3, <1>4, <1>5 DEF Embedded
  <1> QED
    BY <1>1, <1>6

LEMMA EmbeddedRange ==
  ASSUME NEW s \in Seq(Items), NEW t \in Seq(Items), Embedded(s, t)
  PROVE  Range(t) \subseteq Range(s)
  <1>1. PICK m, n : m = Len(t) /\ n = Len(s)
    OBVIOUS
  <1>2. PICK w \in [1 .. m -> 1 .. n] : \A k \in 1 .. m : t[k] = s[w[k]]
    BY <1>1 DEF Embedded
  <1>3. Range(s) = {s[k] : k \in 1 .. n} /\ Range(t) = {t[k] : k \in 1 .. m}
    BY <1>1, RangeIsRanged DEF Ranged
  <1> QED
    BY <1>2, <1>3

\* The items that are in s twice are in T.
Doubles(s, T) == \A j, k \in 1 .. Len(s) : j # k /\ s[j] = s[k] => s[j] \in T

LEMMA EmbeddedDoubles ==
  ASSUME NEW s \in Seq(Items), NEW t \in Seq(Items), Embedded(s, t),
         NEW T, Doubles(s, T)
  PROVE  Doubles(t, T)
  <1>1. PICK m, n : m = Len(t) /\ n = Len(s)
    OBVIOUS
  <1>2. PICK w \in [1 .. m -> 1 .. n] :
          /\ \A j, k \in 1 .. m : w[j] = w[k] => j = k
          /\ \A k \in 1 .. m : t[k] = s[w[k]]
    BY <1>1 DEF Embedded
  <1> QED
    BY <1>1, <1>2 DEF Doubles

\* The top of a heap comes after no item of it.
LEMMA HeapTopIsFirst ==
  ASSUME NEW s \in Seq(Items), IsHeap(s)
  PROVE  \A k \in 1 .. Len(s) : ~ less(s[k], s[1])
  <1>1. PICK L \in Nat : L = Len(s)
    OBVIOUS
  <1>2. /\ \A k \in 1 .. L : s[k] \in Items
        /\ \A k \in 1 .. L : Above(s, L, k)
    BY <1>1, ElementOfSeq DEF IsHeap
  <1> DEFINE S == {m \in Nat : \A k \in 1 .. L : k <= m => ~ less(s[k], s[1])}
  <1>3. 0 \in S
    OBVIOUS
  <1>4. ASSUME NEW m \in Nat, m \in S PROVE m + 1 \in S
    <2> SUFFICES ASSUME m + 1 \in 1 .. L PROVE ~ less(s[m + 1], s[1])
      BY <1>4
    <2>1. 1 \in 1 .. L
      OBVIOUS
    <2>2. CASE m = 0
      BY <1>2, <2>1, <2>2, LessIsAsymmetric
    <2>3. CASE m # 0
      <3>1. PICK p : p = (m + 1) \div 2
        OBVIOUS
      <3>2. p \in 1 .. L /\ p <= m /\ (m + 1 = 2*p \/ m + 1 = 2*p + 1)
        BY <2>3, <3>1
      <3>3. ~ less(s[m + 1], s[p])
        <4>1. Above(s, L, p)
          BY <1>2, <3>2
        <4>2. m + 1 <= L
          OBVIOUS
        <4>3. CASE m + 1 = 2*p
          BY <4>1, <4>2, <4>3 DEF Above
        <4>4. CASE m + 1 = 2*p + 1
          BY <4>1, <4>2, <4>4 DEF Above
        <4> QED
          BY <3>2, <4>3, <4>4
      <3>4. ~ less(s[p], s[1])
        BY <1>4, <3>2
      <3> QED
        BY <1>2, <2>1, <3>2, <3>3, <3>4, NotLessIsTransitive
    <2> QED
      BY <2>2, <2>3
  <1> HIDE DEF S
  <1>5. \A m \in Nat : m \in S
    BY <1>3, <1>4, SetInduction
  <1> QED
    BY <1>1, <1>5 DEF S
-----------------------------------------------------------------------------
(***************************************************************************)
(* CleanQueue's pass                                                       *)
(***************************************************************************)
LEMMA KeepStart ==
  ASSUME NEW s \in Seq(Items), NEW S
  PROVE  /\ Keep(s, S)[0] = <<>>
         /\ \A k \in 1 .. Len(s) :
              Keep(s, S)[k] = IF s[k] \in S THEN Keep(s, S)[k - 1]
                              ELSE Append(Keep(s, S)[k - 1], s[k])
  <1>1. PICK D, n : D = Seq(Items) /\ n = Len(s)
    OBVIOUS
  <1>2. PICK a : a = <<>>
    OBVIOUS
  <1>3. a \in D /\ n \in Nat
    BY <1>1, <1>2
  <1> DEFINE Next1(k, y) == IF s[k] \in S THEN y ELSE Append(y, s[k])
  <1>4. PICK g : g = [x \in Nat \X D |-> IF x[1] \in 1 .. n THEN Next1(x[1], x[2]) ELSE x[2]]
    OBVIOUS
  <1>5. ASSUME NEW k \in 1 .. n, NEW y \in D PROVE Next1(k, y) \in D
    <2>1. s[k] \in Items
      BY <1>1, ElementOfSeq
    <2> QED
      BY <1>1, <2>1
  <1> HIDE DEF Next1
  <1>6. g \in [Nat \X D -> D]
    <2>1. ASSUME NEW x \in Nat \X D
          PROVE  (IF x[1] \in 1 .. n THEN Next1(x[1], x[2]) ELSE x[2]) \in D
      <3>1. PICK k, y : k = x[1] /\ y = x[2]
        OBVIOUS
      <3>2. y \in D
        BY <3>1
      <3> QED
        BY <1>5, <3>1, <3>2
    <2> QED
      BY <1>4, <2>1
  <1>7. \A k \in 1 .. n, y \in D : g[<<k, y>>] = Next1(k, y)
    BY <1>3, <1>4
  <1>8. PICK e \in [Nat -> D] : Recursive(e, a, g)
    BY <1>3, <1>6, RecursionExists
  <1>9. PICK f : f = [k \in 0 .. n |-> e[k]]
    OBVIOUS
  <1>10. ASSUME NEW k \in 0 .. n
         PROVE  f[k] = IF k = 0 THEN a ELSE Next1(k, f[k - 1])
    <2>1. CASE k = 0
      BY <1>8, <1>9, <2>1 DEF Recursive
    <2>2. CASE k # 0
      <3>1. k \in Nat \ {0} /\ k \in 1 .. n /\ k - 1 \in Nat /\ k - 1 \in 0 .. n
        BY <1>3, <2>2
      <3>2. e[k] = g[<<k, e[k - 1]>>] /\ e[k - 1] \in D
        BY <1>8, <3>1 DEF Recursive
      <3>3. e[k] = Next1(k, e[k - 1])
        BY <1>7, <3>1, <3>2
      <3> QED
        BY <1>9, <2>2, <3>1, <3>3
    <2> QED
      BY <2>1, <2>2
  <1>11. f = [k \in 0 .. Len(s) |-> IF k = 0 THEN <<>> ELSE Next1(k, f[k - 1])]
    <2>1. f = [k \in 0 .. n |-> f[k]]
      BY <1>9
    <2>2. f = [k \in 0 .. n |-> IF k = 0 THEN a ELSE Next1(k, f[k - 1])]
      BY <1>10, <2>1, Zenon
    <2> QED
      BY <1>1, <1>2, <2>2, Zenon
  <1>12. f = [k \in 0 .. Len(s) |->
               IF k = 0 THEN <<>>
               ELSE IF s[k] \in S THEN f[k - 1] ELSE Append(f[k - 1], s[k])]
    BY <1>11 DEF Next1
  <1>13. Keep(s, S) =
           [k \in 0 .. Len(s) |->
             IF k = 0 THEN <<>>
             ELSE IF s[k] \in S THEN Keep(s, S)[k - 1] ELSE Append(Keep(s, S)[k - 1], s[k])]
    BY <1>12, Zenon DEF Keep
  <1>14. PICK r : r = Keep(s, S)
    OBVIOUS
  <1>15. r = [k \in 0 .. n |->
               IF k = 0 THEN <<>>
               ELSE IF s[k] \in S THEN r[k - 1] ELSE Append(r[k - 1], s[k])]
    BY <1>1, <1>13, <1>14, Zenon
  <1>16. \A k \in 0 .. n : r[k] = IF k = 0 THEN <<>>
                                  ELSE IF s[k] \in S THEN r[k - 1] ELSE Append(r[k - 1], s[k])
    BY <1>15, Zenon
  <1>17. r[0] = <<>>
    BY <1>3, <1>16
  <1>18. \A k \in 1 .. n : r[k] = IF s[k] \in S THEN r[k - 1] ELSE Append(r[k - 1], s[k])
    BY <1>3, <1>16
  <1> QED
    BY <1>1, <1>14, <1>17, <1>18

\* What t lists are the places of s below n that hold nothing of S, once each.
Sifted(s, S, t, n) ==
  \E w \in [1 .. Len(t) -> 1 .. n] :
    /\ \A i, j \in 1 .. Len(t) : w[i] = w[j] => i = j
    /\ \A j \in 1 .. Len(t) : t[j] = s[w[j]] /\ t[j] \notin S
    /\ \A i \in 1 .. n : s[i] \notin S => \E j \in 1 .. Len(t) : w[j] = i

\* CleanQueue keeps the places of the queue whose polls it does not drop.
LEMMA KeepSifts ==
  ASSUME NEW s \in Seq(Items), NEW S, NEW t, t = Keep(s, S)[Len(s)]
  PROVE  t \in Seq(Items) /\ Sifted(s, S, t, Len(s))
  <1>1. PICK r, L : r = Keep(s, S) /\ L = Len(s)
    OBVIOUS
  <1>2. /\ L \in Nat /\ r[0] = <<>>
        /\ \A k \in 1 .. L : r[k] = IF s[k] \in S THEN r[k - 1] ELSE Append(r[k - 1], s[k])
    BY <1>1, KeepStart
  <1>3. \A k \in 1 .. L : s[k] \in Items
    BY <1>1, ElementOfSeq
  <1> DEFINE T == {k \in Nat : k <= L =>
                     r[k] \in Seq(Items) /\ Sifted(s, S, r[k], k)}
  <1>4. 0 \in T
    <2>1. r[0] \in Seq(Items) /\ Len(r[0]) = 0
      BY <1>2
    <2>2. PICK w : w = [j \in 1 .. 0 |-> j]
      OBVIOUS
    <2>3. w \in [1 .. 0 -> 1 .. 0] /\ 1 .. 0 = {}
      BY <2>2
    <2> QED
      BY <2>1, <2>3 DEF Sifted
  <1>5. ASSUME NEW k \in Nat, k \in T PROVE k + 1 \in T
    <2> SUFFICES ASSUME k + 1 <= L
                 PROVE  r[k + 1] \in Seq(Items) /\ Sifted(s, S, r[k + 1], k + 1)
      OBVIOUS
    <2>1. PICK u, n : u = r[k] /\ n = Len(u)
      OBVIOUS
    <2>2. k <= L /\ u \in Seq(Items) /\ n \in Nat
      BY <1>2, <1>5, <2>1
    <2>3. PICK w \in [1 .. n -> 1 .. k] :
            /\ \A i, j \in 1 .. n : w[i] = w[j] => i = j
            /\ \A j \in 1 .. n : u[j] = s[w[j]] /\ u[j] \notin S
            /\ \A i \in 1 .. k : s[i] \notin S => \E j \in 1 .. n : w[j] = i
      BY <1>5, <2>1, <2>2 DEF Sifted
    <2>4. r[k + 1] = IF s[k + 1] \in S THEN u ELSE Append(u, s[k + 1])
      <3>1. k + 1 \in 1 .. L /\ (k + 1) - 1 = k
        BY <1>2
      <3> QED
        BY <1>2, <2>1, <3>1
    <2>5. CASE s[k + 1] \in S
      <3>1. r[k + 1] = u
        BY <2>4, <2>5
      <3>2. w \in [1 .. n -> 1 .. k + 1]
        BY <2>3
      <3>3. ASSUME NEW i \in 1 .. k + 1, s[i] \notin S PROVE \E j \in 1 .. n : w[j] = i
        <4>1. i \in 1 .. k
          BY <2>5, <3>3
        <4> QED
          BY <2>3, <3>3, <4>1
      <3>4. Sifted(s, S, u, k + 1)
        BY <2>1, <2>3, <3>2, <3>3 DEF Sifted
      <3> QED
        BY <2>2, <3>1, <3>4
    <2>6. CASE s[k + 1] \notin S
      <3>1. PICK v, e : v = r[k + 1] /\ e = s[k + 1]
        OBVIOUS
      <3>2. v = Append(u, e) /\ e \in Items
        BY <1>2, <1>3, <2>4, <2>6, <3>1
      <3>3. /\ v \in Seq(Items) /\ Len(v) = n + 1
            /\ (\A j \in 1 .. n : v[j] = u[j]) /\ v[n + 1] = e
        BY <2>1, <2>2, <3>2, AppendProperties
      <3>4. PICK z : z = [j \in 1 .. n + 1 |-> IF j = n + 1 THEN k + 1 ELSE w[j]]
        OBVIOUS
      <3>5. z \in [1 .. n + 1 -> 1 .. k + 1]
        BY <2>2, <2>3, <3>4
      <3>6. \A i, j \in 1 .. n + 1 : z[i] = z[j] => i = j
        BY <2>2, <2>3, <3>4
      <3>7. ASSUME NEW j \in 1 .. n + 1 PROVE v[j] = s[z[j]] /\ v[j] \notin S
        <4>1. CASE j = n + 1
          BY <2>2, <2>6, <3>1, <3>3, <3>4, <4>1
        <4>2. CASE j # n + 1
          <5>1. j \in 1 .. n
            BY <2>2, <4>2
          <5>2. z[j] = w[j]
            BY <3>4, <4>2
          <5> QED
            BY <2>3, <3>3, <5>1, <5>2
        <4> QED
          BY <4>1, <4>2
      <3>8. ASSUME NEW i \in 1 .. k + 1, s[i] \notin S PROVE \E j \in 1 .. n + 1 : z[j] = i
        <4>1. CASE i = k + 1
          <5>1. n + 1 \in 1 .. n + 1 /\ z[n + 1] = k + 1
            BY <2>2, <3>4
          <5> QED
            BY <4>1, <5>1
        <4>2. CASE i # k + 1
          <5>1. i \in 1 .. k
            BY <4>2
          <5>2. PICK j \in 1 .. n : w[j] = i
            BY <2>3, <3>8, <5>1
          <5>3. j \in 1 .. n + 1 /\ z[j] = w[j]
            BY <2>2, <3>4
          <5> QED
            BY <5>2, <5>3
        <4> QED
          BY <4>1, <4>2
      <3>9. Sifted(s, S, v, k + 1)
        <4>1. \E y \in [1 .. n + 1 -> 1 .. k + 1] :
                /\ \A i, j \in 1 .. n + 1 : y[i] = y[j] => i = j
                /\ \A j \in 1 .. n + 1 : v[j] = s[y[j]] /\ v[j] \notin S
                /\ \A i \in 1 .. k + 1 : s[i] \notin S => \E j \in 1 .. n + 1 : y[j] = i
          BY <3>5, <3>6, <3>7, <3>8, Zenon
        <4>2. Len(v) = n + 1
          BY <3>3
        <4> QED
          BY <4>1, <4>2 DEF Sifted
      <3> QED
        BY <3>1, <3>3, <3>9
    <2> QED
      BY <2>5, <2>6
  <1> HIDE DEF T
  <1>6. \A k \in Nat : k \in T
    BY <1>4, <1>5, SetInduction
  <1>7. t = r[L]
    BY <1>1
  <1>8. L \in T /\ L <= L
    BY <1>2, <1>6
  <1> QED
    BY <1>1, <1>7, <1>8 DEF T

LEMMA KeepEmbedded ==
  ASSUME NEW s \in Seq(Items), NEW S, NEW t, t = Keep(s, S)[Len(s)]
  PROVE  t \in Seq(Items) /\ Embedded(s, t)
  <1>1. PICK m, n : m = Len(t) /\ n = Len(s)
    OBVIOUS
  <1>2. t \in Seq(Items) /\ Sifted(s, S, t, n)
    BY <1>1, KeepSifts
  <1>3. PICK w \in [1 .. m -> 1 .. n] :
          /\ \A i, j \in 1 .. m : w[i] = w[j] => i = j
          /\ \A j \in 1 .. m : t[j] = s[w[j]]
    BY <1>1, <1>2 DEF Sifted
  <1> QED
    BY <1>1, <1>2, <1>3 DEF Embedded

\* What is dropped is gone and the rest is there as often as before.
LEMMA KeepCopies ==
  ASSUME NEW s \in Seq(Items), NEW S, NEW t, t = Keep(s, S)[Len(s)], NEW x
  PROVE  Copies(t, x) = IF x \in S THEN 0 ELSE Copies(s, x)
  <1>1. PICK m, n : m = Len(t) /\ n = Len(s)
    OBVIOUS
  <1>2. t \in Seq(Items) /\ Sifted(s, S, t, n)
    BY <1>1, KeepSifts
  <1>3. DOMAIN s = 1 .. n /\ DOMAIN t = 1 .. m
    <2>1. DOMAIN s = 1 .. Len(s) /\ DOMAIN t = 1 .. Len(t)
      BY <1>2
    <2> QED
      BY <1>1, <2>1
  <1>4. PICK w \in [1 .. m -> 1 .. n] :
          /\ \A i, j \in 1 .. m : w[i] = w[j] => i = j
          /\ \A j \in 1 .. m : t[j] = s[w[j]] /\ t[j] \notin S
          /\ \A i \in 1 .. n : s[i] \notin S => \E j \in 1 .. m : w[j] = i
    BY <1>1, <1>2 DEF Sifted
  <1>5. PICK A, B : A = {k \in 1 .. n : s[k] = x} /\ B = {k \in 1 .. m : t[k] = x}
    OBVIOUS
  <1>6. IsFiniteSet(A) /\ IsFiniteSet(B)
    BY <1>1, <1>2, <1>5, CopiesAreFinite
  <1>7. Copies(s, x) = Cardinality(A) /\ Copies(t, x) = Cardinality(B)
    BY <1>3, <1>5 DEF Copies
  <1>8. CASE x \in S
    <2>1. B = {}
      BY <1>4, <1>5, <1>8
    <2> QED
      BY <1>7, <1>8, <2>1, FS_EmptySet
  <1>9. CASE x \notin S
    <2>1. PICK f : f = [k \in B |-> w[k]]
      OBVIOUS
    <2>2. f \in [B -> A]
      BY <1>4, <1>5, <2>1
    <2>3. \A j, k \in B : f[j] = f[k] => j = k
      BY <1>4, <1>5, <2>1
    <2>4. ASSUME NEW i \in A PROVE \E k \in B : f[k] = i
      <3>1. i \in 1 .. n /\ s[i] \notin S
        BY <1>5, <1>9
      <3>2. PICK k \in 1 .. m : w[k] = i
        BY <1>4, <3>1
      <3>3. k \in B
        BY <1>4, <1>5, <3>2
      <3> QED
        BY <2>1, <3>2, <3>3
    <2>5. f \in Bijection(B, A)
      BY <2>2, <2>3, <2>4, Fun_IsBij
    <2>6. ExistsBijection(B, A)
      BY <2>5 DEF ExistsBijection
    <2>7. Cardinality(B) = Cardinality(A)
      BY <1>6, <2>6, FS_Bijection
    <2> QED
      BY <1>7, <1>9, <2>7
  <1> QED
    BY <1>8, <1>9
-----------------------------------------------------------------------------
(***************************************************************************)
(* Listings and merges                                                     *)
(***************************************************************************)
LEMMA ListingHasNoDoubles ==
  ASSUME NEW S, S \subseteq Items, NEW s \in Listings(S)
  PROVE  /\ s \in Seq(Items) /\ Range(s) = S
         /\ \A j, k \in 1 .. Len(s) : s[j] = s[k] => j = k
  <1>1. IsFiniteSet(S)
    BY ItemsAssumption, FS_Subset
  <1>2. PICK n : n = Cardinality(S)
    OBVIOUS
  <1>3. n \in Nat
    BY <1>1, <1>2, FS_CardinalityType
  <1>4. s \in [1 .. n -> S] /\ Range(s) = S
    BY <1>2 DEF Listings
  <1>5. s \in Seq(Items) /\ Len(s) = n
    BY <1>3, <1>4
  <1>6. s \in Surjection(1 .. n, S)
    <2>1. \A x \in S : \E k \in 1 .. n : s[k] = x
      BY <1>4 DEF Range
    <2> QED
      BY <1>4, <2>1, Fun_IsSurj
  <1>7. IsFiniteSet(1 .. n) /\ Cardinality(1 .. n) = n
    BY <1>3, FS_Interval
  <1>8. s \in Injection(1 .. n, S)
    BY <1>2, <1>6, <1>7, FS_SurjSameCardinalityImpliesInj
  <1>9. \A j, k \in 1 .. n : s[j] = s[k] => j = k
    BY <1>4, <1>8 DEF Injection, IsInjective
  <1> QED
    BY <1>4, <1>5, <1>9

\* A merge queues what there was and what is merged, as a heap; the items that
\* are there twice were there twice in one of them or are in both.
LEMMA MergeIsHeap ==
  ASSUME NEW s \in Seq(Items), NEW l \in Seq(Items), NEW T, NEW U,
         Doubles(s, T), Doubles(l, T), NEW t, t = heapsInit(s \o l),
         T \subseteq U, Range(s) \cap Range(l) \subseteq U
  PROVE  /\ t \in Seq(Items) /\ IsHeap(t) /\ Rearranged(s \o l, t)
         /\ Range(t) = Range(s) \cup Range(l)
         /\ Doubles(t, U)
  <1>1. PICK c : c = s \o l
    OBVIOUS
  <1>2. PICK m, n : m = Len(s) /\ n = Len(l)
    OBVIOUS
  <1>3. /\ c \in Seq(Items) /\ Len(c) = m + n /\ m \in Nat /\ n \in Nat
        /\ \A k \in 1 .. m + n : c[k] = IF k <= m THEN s[k] ELSE l[k - m]
    BY <1>1, <1>2, ConcatProperties
  <1>4. t \in Seq(Items) /\ IsHeap(t) /\ Rearranged(c, t)
    BY <1>1, <1>3, heapsInitIsHeap
  <1>5. Range(c) = Range(s) \cup Range(l)
    BY <1>1, RangeConcatenation
  <1>6. Range(t) = Range(c)
    BY <1>3, <1>4, RearrangedRange
  <1>7. Doubles(c, U)
    <2>1. ASSUME NEW j \in 1 .. m + n, NEW k \in 1 .. m + n, j # k, c[j] = c[k]
          PROVE  c[j] \in U
      <3>1. Range(s) = {s[i] : i \in 1 .. m} /\ Range(l) = {l[i] : i \in 1 .. n}
        BY <1>2, RangeIsRanged DEF Ranged
      <3>2. CASE j <= m /\ k <= m
        <4>1. c[j] = s[j] /\ c[k] = s[k]
          BY <1>3, <3>2
        <4>2. j \in 1 .. m /\ k \in 1 .. m
          BY <1>3, <3>2
        <4>3. s[j] = s[k]
          BY <2>1, <4>1
        <4> QED
          BY <1>2, <2>1, <4>1, <4>2, <4>3 DEF Doubles
      <3>3. CASE j > m /\ k > m
        <4>1. c[j] = l[j - m] /\ c[k] = l[k - m]
          BY <1>3, <3>3
        <4>2. PICK a, b : a = j - m /\ b = k - m
          OBVIOUS
        <4>3. a \in 1 .. n /\ b \in 1 .. n /\ a # b
          BY <1>3, <2>1, <3>3, <4>2
        <4>4. c[j] = l[a] /\ l[a] = l[b]
          BY <2>1, <4>1, <4>2
        <4> QED
          BY <1>2, <4>3, <4>4 DEF Doubles
      <3>4. CASE j <= m /\ k > m
        <4>1. c[j] = s[j] /\ c[k] = l[k - m] /\ j \in 1 .. m /\ k - m \in 1 .. n
          BY <1>3, <3>4
        <4> QED
          BY <2>1, <3>1, <4>1
      <3>5. CASE j > m /\ k <= m
        <4>1. c[k] = s[k] /\ c[j] = l[j - m] /\ k \in 1 .. m /\ j - m \in 1 .. n
          BY <1>3, <3>5
        <4>2. PICK x : x = c[j]
          OBVIOUS
        <4>3. x = s[k] /\ x = l[j - m]
          BY <2>1, <4>1, <4>2
        <4>4. x \in Range(s) /\ x \in Range(l)
          BY <3>1, <4>1, <4>3
        <4> QED
          BY <4>2, <4>4
      <3> QED
        BY <1>3, <3>2, <3>3, <3>4, <3>5
    <2> QED
      BY <1>3, <2>1 DEF Doubles
  <1>8. Doubles(t, U)
    BY <1>3, <1>4, <1>7, RearrangedEmbedded, EmbeddedDoubles
  <1> QED
    BY <1>1, <1>4, <1>5, <1>6, <1>8

LEMMA EmptyQueue ==
  /\ <<>> \in Seq(Items) /\ Len(<<>>) = 0 /\ Range(<<>>) = {} /\ IsHeap(<<>>)
  /\ \A T : Doubles(<<>>, T)
  <1>1. <<>> \in Seq(Items) /\ Len(<<>>) = 0
    OBVIOUS
  <1>2. Range(<<>>) = {}
    <2>1. DOMAIN <<>> = {}
      OBVIOUS
    <2> QED
      BY <2>1 DEF Range
  <1> QED
    BY <1>1, <1>2 DEF IsHeap, Doubles
-----------------------------------------------------------------------------
(***************************************************************************)
(* The inductive invariant                                                 *)
(***************************************************************************)
\* The heap is one.  What is in memory twice is in twins: such items share one
\* row, which is why the durability of the queue cannot promise it to them.
\* Memory is empty unless the queue is up, and the file is while CleanQueue is
\* between its two steps: nothing is merged back on top of old contents.
QueueInv ==
  /\ IsHeap(data)
  /\ Doubles(data, twins)
  /\ Doubles(kept, twins)
  /\ phase # "up" => data = <<>>
  /\ phase = "cleaning" => file = {}

IInv == TypeOK /\ QueueIsDurable /\ NoResurrection /\ QueueInv

LEMMA InitIInv == Init => IInv
  BY EmptyQueue, TimeAssumption
  DEF Init, IInv, TypeOK, QueueIsDurable, NoResurrection, QueueInv, Queued

LEMMA TickKeepsIInv ==
  ASSUME IInv, Tick
  PROVE  IInv'
  <1>1. /\ now' \in 0 .. MaxTime
        /\ UNCHANGED <<phase, data, file, kept, unsaved, undeleted, twins>>
    BY TimeAssumption DEF IInv, TypeOK, Tick, history
  <1>2. TypeOK'
    BY <1>1 DEF IInv, TypeOK
  <1>3. QueueIsDurable' /\ NoResurrection'
    BY <1>1 DEF IInv, QueueIsDurable, NoResurrection, Queued
  <1>4. QueueInv'
    BY <1>1 DEF IInv, QueueInv
  <1> QED
    BY <1>2, <1>3, <1>4 DEF IInv

\* The rows after a merge of S over the rows base.
LEMMA MergeRowsCover ==
  ASSUME NEW S, NEW base, NEW ok \in BOOLEAN, MergeRows(S, base, ok)
  PROVE  /\ base \subseteq file' /\ file' \subseteq base \cup S
         /\ unsaved' \subseteq unsaved \cup S
         /\ base \cup unsaved \cup S \subseteq file' \cup unsaved'
  BY DEF MergeRows

LEMMA MergeKeepsIInv ==
  ASSUME IInv, NEW S \in SUBSET Items, NEW ok \in BOOLEAN, Merge(S, ok)
  PROVE  IInv'
  <1>1. /\ phase = "up" /\ MergeRows(S, file, ok)
        /\ undeleted' = undeleted \ S /\ twins' = twins \cup (S \cap Range(data))
        /\ phase' = phase /\ kept' = kept /\ now' = now
    BY DEF Merge, Queued
  <1>2. PICK l \in Listings(S) : data' = heapsInit(data \o l)
    BY DEF Merge
  <1>3. /\ data \in Seq(Items) /\ kept \in Seq(Items) /\ (kept # <<>> => phase = "cleaning")
        /\ file \subseteq Items /\ now \in 0 .. MaxTime /\ unsaved \subseteq Items
        /\ undeleted \subseteq Items /\ twins \subseteq Items
    BY DEF IInv, TypeOK
  <1>4. /\ l \in Seq(Items) /\ Range(l) = S
        /\ \A j, k \in 1 .. Len(l) : l[j] = l[k] => j = k
    BY <1>2, ListingHasNoDoubles
  <1>5. Doubles(data, twins) /\ Doubles(l, twins) /\ Doubles(kept, twins)
    BY <1>4 DEF IInv, QueueInv, Doubles
  <1>6. PICK t : t = data'
    OBVIOUS
  <1>7. PICK u : u = twins'
    OBVIOUS
  <1>8. /\ t \in Seq(Items) /\ IsHeap(t) /\ Range(t) = Range(data) \cup S /\ Doubles(t, u)
    <2>1. PICK s, T : s = data /\ T = twins
      OBVIOUS
    <2>2. s \in Seq(Items) /\ Doubles(s, T) /\ Doubles(l, T)
      BY <1>3, <1>5, <2>1
    <2>3. T \subseteq u /\ Range(s) \cap Range(l) \subseteq u
      BY <1>1, <1>4, <1>7, <2>1
    <2>4. t = heapsInit(s \o l)
      BY <1>2, <1>6, <2>1
    <2>5. /\ t \in Seq(Items) /\ IsHeap(t) /\ Range(t) = Range(s) \cup Range(l)
          /\ Doubles(t, u)
      BY <1>4, <2>2, <2>3, <2>4, MergeIsHeap
    <2> QED
      BY <1>4, <2>1, <2>5
  <1>9. TypeOK'
    <2>1. file' \subseteq Items /\ unsaved' \subseteq Items
      BY <1>1, <1>3, MergeRowsCover
    <2>2. undeleted' \subseteq Items /\ twins' \subseteq Items
      BY <1>1, <1>3
    <2> QED
      BY <1>1, <1>3, <1>6, <1>8, <2>1, <2>2 DEF TypeOK
  <1>10. QueueIsDurable'
    <2>1. Range(data) \cup S \subseteq file' \cup unsaved' \cup twins'
      <3>1. Range(data) \subseteq file \cup unsaved \cup twins
        BY DEF IInv, QueueIsDurable, Queued
      <3> QED
        BY <1>1, <3>1, MergeRowsCover
    <2> QED
      BY <1>6, <1>8, <2>1 DEF QueueIsDurable, Queued
  <1>11. NoResurrection'
    <2>1. file' \subseteq Range(data) \cup S \cup undeleted'
      <3>1. file \subseteq Range(data) \cup undeleted
        BY <1>1 DEF IInv, NoResurrection, Queued
      <3> QED
        BY <1>1, <3>1, MergeRowsCover
    <2> QED
      BY <1>6, <1>8, <2>1 DEF NoResurrection, Queued
  <1>12. QueueInv'
    <2>1. Doubles(kept, u)
      BY <1>1, <1>5, <1>7 DEF Doubles
    <2> QED
      BY <1>1, <1>6, <1>7, <1>8, <2>1 DEF QueueInv
  <1> QED
    BY <1>9, <1>10, <1>11, <1>12 DEF IInv

\* Taking the top: its row goes, unless that fails.  A second copy of it that
\* stays in the queue is a twin.
LEMMA TryTakeKeepsIInv ==
  ASSUME IInv, NEW ok \in BOOLEAN, TryTake(ok)
  PROVE  IInv'
  <1>1. /\ phase = "up" /\ data # <<>> /\ data' = heapsPop(data)
        /\ file' = IF ok THEN file \ {data[1]} ELSE file
        /\ undeleted' = IF ok THEN undeleted ELSE undeleted \cup {data[1]}
        /\ phase' = phase /\ kept' = kept /\ now' = now /\ unsaved' = unsaved /\ twins' = twins
    BY DEF TryTake
  <1>2. /\ data \in Seq(Items) /\ kept \in Seq(Items) /\ (kept # <<>> => phase = "cleaning")
        /\ file \subseteq Items /\ now \in 0 .. MaxTime /\ unsaved \subseteq Items
        /\ undeleted \subseteq Items /\ twins \subseteq Items
    BY DEF IInv, TypeOK
  <1>3. IsHeap(data) /\ Doubles(data, twins) /\ Doubles(kept, twins)
    BY DEF IInv, QueueInv
  <1>4. PICK t : t = data'
    OBVIOUS
  <1>5. PICK n : n = Len(data) - 1
    OBVIOUS
  <1>6. n \in Nat /\ Len(data) = n + 1
    BY <1>1, <1>2, <1>5, EmptySeq
  <1>7. t \in Seq(Items) /\ Len(t) = n /\ IsHeap(t) /\ TopGone(n, data, t)
    BY <1>1, <1>2, <1>3, <1>4, <1>5, heapsPopIsHeap
  <1>8. Doubles(t, twins)
    <2>1. Embedded(data, t)
      BY <1>1, <1>2, <1>3, <1>4, PopEmbedded
    <2> QED
      BY <1>2, <1>3, <1>7, <2>1, EmbeddedDoubles
  <1>9. PICK w \in [1 .. n -> 2 .. n + 1] :
          /\ \A j \in 2 .. n + 1 : \E k \in 1 .. n : w[k] = j
          /\ \A k \in 1 .. n : t[k] = data[w[k]]
    BY <1>7 DEF TopGone
  <1>10. /\ Range(data) = {data[k] : k \in 1 .. n + 1} /\ Range(t) = {t[k] : k \in 1 .. n}
    BY <1>2, <1>6, <1>7, RangeIsRanged DEF Ranged
  <1>11. data[1] \in Items
    BY <1>2, <1>6, ElementOfSeq
  <1>12. TypeOK'
    <2>1. file' \subseteq Items /\ undeleted' \subseteq Items
      BY <1>1, <1>2, <1>11
    <2> QED
      BY <1>1, <1>2, <1>4, <1>7, <2>1 DEF TypeOK
  <1>13. QueueIsDurable'
    <2>1. ASSUME NEW x \in Range(t) PROVE x \in file' \cup unsaved' \cup twins'
      <3>1. PICK k \in 1 .. n : x = t[k]
        BY <1>10
      <3>2. x = data[w[k]] /\ w[k] \in 1 .. n + 1 /\ w[k] # 1 /\ 1 \in 1 .. n + 1
        BY <1>6, <1>9, <3>1
      <3>3. CASE x = data[1]
        <4>1. x \in twins
          BY <1>3, <1>6, <3>2, <3>3 DEF Doubles
        <4> QED
          BY <1>1, <4>1
      <3>4. CASE x # data[1]
        <4>1. x \in file \cup unsaved \cup twins
          <5>1. x \in Range(data)
            BY <1>10, <3>2
          <5> QED
            BY <5>1 DEF IInv, QueueIsDurable, Queued
        <4> QED
          BY <1>1, <3>4, <4>1
      <3> QED
        BY <3>3, <3>4
    <2> QED
      BY <1>4, <2>1 DEF QueueIsDurable, Queued
  <1>14. NoResurrection'
    <2>1. ASSUME NEW x \in file' PROVE x \in Range(t) \cup undeleted'
      <3>1. x \in Range(data) \cup undeleted
        <4>1. x \in file
          BY <1>1
        <4> QED
          BY <1>1, <4>1 DEF IInv, NoResurrection, Queued
      <3>2. CASE x \in undeleted
        BY <1>1, <3>2
      <3>3. CASE x = data[1]
        BY <1>1, <3>3
      <3>4. CASE x \in Range(data) /\ x # data[1]
        <4>1. PICK j \in 1 .. n + 1 : x = data[j]
          BY <1>10, <3>4
        <4>2. j \in 2 .. n + 1
          BY <1>6, <3>4, <4>1
        <4>3. PICK k \in 1 .. n : w[k] = j
          BY <1>9, <4>2
        <4>4. x = t[k]
          BY <1>9, <4>1, <4>3
        <4> QED
          BY <1>10, <4>4
      <3> QED
        BY <3>1, <3>2, <3>3, <3>4
    <2> QED
      BY <1>4, <2>1 DEF NoResurrection, Queued
  <1>15. QueueInv'
    BY <1>1, <1>3, <1>4, <1>7, <1>8 DEF QueueInv
  <1> QED
    BY <1>12, <1>13, <1>14, <1>15 DEF IInv

\* Clearing: nothing is left in memory or in the file, and what is kept was in
\* the queue.
LEMMA ClearLockedKeepsIInv ==
  ASSUME IInv, NEW S, ClearLocked(S)
  PROVE  IInv'
  <1>1. kept' = Keep(data, S)[Len(data)]
    BY DEF ClearLocked
  <1>2. /\ phase' = "cleaning" /\ data' = <<>> /\ file' = {} /\ now' = now
        /\ unsaved' = unsaved /\ undeleted' = undeleted /\ twins' = twins
    BY DEF ClearLocked, history
  <1>3. /\ data \in Seq(Items) /\ now \in 0 .. MaxTime /\ unsaved \subseteq Items
        /\ undeleted \subseteq Items /\ twins \subseteq Items /\ Doubles(data, twins)
    BY DEF IInv, TypeOK, QueueInv
  <1>4. PICK t : t = kept'
    OBVIOUS
  <1>5. t \in Seq(Items) /\ Embedded(data, t)
    BY <1>1, <1>3, <1>4, KeepEmbedded
  <1>6. Doubles(t, twins)
    BY <1>3, <1>5, EmbeddedDoubles
  <1>7. TypeOK'
    BY <1>2, <1>3, <1>4, <1>5, EmptyQueue DEF TypeOK
  <1>8. QueueIsDurable' /\ NoResurrection'
    BY <1>2, EmptyQueue DEF QueueIsDurable, NoResurrection, Queued
  <1>9. QueueInv'
    BY <1>2, <1>4, <1>6, EmptyQueue DEF QueueInv
  <1> QED
    BY <1>7, <1>8, <1>9 DEF IInv

\* What a merge back queues: what was kept, as a heap.
LEMMA MergeBackQueuesKept ==
  ASSUME IInv, NEW ok \in BOOLEAN, MergeBack(ok), NEW t, t = data'
  PROVE  /\ t \in Seq(Items) /\ IsHeap(t) /\ Rearranged(kept, t)
         /\ Range(t) = Range(kept) /\ Doubles(t, twins)
  <1>1. data = <<>> /\ kept \in Seq(Items) /\ Doubles(data, twins) /\ Doubles(kept, twins)
    BY DEF IInv, TypeOK, QueueInv, MergeBack
  <1>2. data \o kept = kept
    BY <1>1, ConcatEmptySeq
  <1>3. t = heapsInit(data \o kept)
    BY DEF MergeBack
  <1>4. data \in Seq(Items) /\ Range(data) = {}
    BY <1>1, EmptyQueue
  <1>5. /\ t \in Seq(Items) /\ IsHeap(t) /\ Rearranged(data \o kept, t)
        /\ Range(t) = Range(data) \cup Range(kept) /\ Doubles(t, twins)
    <2>1. twins \subseteq twins /\ Range(data) \cap Range(kept) \subseteq twins
      BY <1>4
    <2>2. PICK s, l, T : s = data /\ l = kept /\ T = twins
      OBVIOUS
    <2>3. /\ s \in Seq(Items) /\ l \in Seq(Items) /\ Doubles(s, T) /\ Doubles(l, T)
          /\ T \subseteq T /\ Range(s) \cap Range(l) \subseteq T /\ t = heapsInit(s \o l)
      BY <1>1, <1>3, <1>4, <2>1, <2>2
    <2>4. /\ t \in Seq(Items) /\ IsHeap(t) /\ Rearranged(s \o l, t)
          /\ Range(t) = Range(s) \cup Range(l) /\ Doubles(t, T)
      BY <2>3, MergeIsHeap
    <2> QED
      BY <2>2, <2>4
  <1> QED
    BY <1>2, <1>4, <1>5

LEMMA MergeBackKeepsIInv ==
  ASSUME IInv, NEW ok \in BOOLEAN, MergeBack(ok)
  PROVE  IInv'
  <1>1. /\ phase = "cleaning" /\ phase' = "up" /\ kept' = <<>>
        /\ MergeRows(Range(kept), file, ok) /\ undeleted' = {} /\ now' = now /\ twins' = twins
    BY DEF MergeBack
  <1>2. /\ kept \in Seq(Items) /\ file = {} /\ now \in 0 .. MaxTime
        /\ unsaved \subseteq Items /\ twins \subseteq Items
    BY <1>1 DEF IInv, TypeOK, QueueInv
  <1>3. PICK t : t = data'
    OBVIOUS
  <1>4. t \in Seq(Items) /\ IsHeap(t) /\ Range(t) = Range(kept) /\ Doubles(t, twins)
    BY <1>3, MergeBackQueuesKept
  <1>5. Range(kept) \subseteq Items
    BY <1>2, RangeIsRanged
  <1>6. TypeOK'
    <2>1. file' \subseteq Items /\ unsaved' \subseteq Items
      BY <1>1, <1>2, <1>5, MergeRowsCover
    <2> QED
      BY <1>1, <1>2, <1>3, <1>4, <2>1, EmptyQueue DEF TypeOK
  <1>7. QueueIsDurable'
    <2>1. Range(kept) \subseteq file' \cup unsaved'
      BY <1>1, MergeRowsCover
    <2> QED
      BY <1>3, <1>4, <2>1 DEF QueueIsDurable, Queued
  <1>8. NoResurrection'
    <2>1. file' \subseteq Range(kept)
      BY <1>1, <1>2, MergeRowsCover
    <2> QED
      BY <1>3, <1>4, <2>1 DEF NoResurrection, Queued
  <1>9. QueueInv'
    BY <1>1, <1>3, <1>4, EmptyQueue DEF QueueInv
  <1> QED
    BY <1>6, <1>7, <1>8, <1>9 DEF IInv

LEMMA StopKeepsIInv ==
  ASSUME IInv, Stop
  PROVE  IInv'
  <1>1. /\ phase' = "down" /\ data' = <<>> /\ kept' = <<>>
        /\ unsaved' = {} /\ undeleted' = {} /\ twins' = {} /\ file' = file /\ now' = now
    BY DEF Stop
  <1>2. file \subseteq Items /\ now \in 0 .. MaxTime
    BY DEF IInv, TypeOK
  <1>3. TypeOK'
    BY <1>1, <1>2, EmptyQueue DEF TypeOK
  <1>4. QueueIsDurable' /\ NoResurrection'
    BY <1>1, EmptyQueue DEF QueueIsDurable, NoResurrection, Queued
  <1>5. QueueInv'
    BY <1>1, EmptyQueue DEF QueueInv
  <1> QED
    BY <1>3, <1>4, <1>5 DEF IInv

\* A restart queues the rows, each once.
LEMMA NewKeepsIInv ==
  ASSUME IInv, New
  PROVE  IInv'
  <1>1. /\ phase = "down" /\ data = <<>> /\ kept = <<>>
        /\ file' = file /\ kept' = kept /\ now' = now
        /\ unsaved' = unsaved /\ undeleted' = undeleted /\ twins' = twins
    BY DEF IInv, TypeOK, QueueInv, New, history
  <1>2. /\ file \subseteq Items /\ now \in 0 .. MaxTime /\ unsaved \subseteq Items
        /\ undeleted \subseteq Items /\ twins \subseteq Items
    BY DEF IInv, TypeOK
  <1>3. CASE \A x \in file : validate(x)
    <2>1. phase' = "up"
      BY <1>3 DEF New
    <2>2. PICK s \in Listings(file) : data' = heapsInit(s)
      BY <1>3 DEF New
    <2>3. /\ s \in Seq(Items) /\ Range(s) = file
          /\ \A j, k \in 1 .. Len(s) : s[j] = s[k] => j = k
      BY <1>2, <2>2, ListingHasNoDoubles
    <2>4. Doubles(s, twins)
      BY <2>3 DEF Doubles
    <2>5. PICK t : t = data'
      OBVIOUS
    <2>6. t \in Seq(Items) /\ IsHeap(t) /\ Rearranged(s, t)
      BY <2>2, <2>3, <2>5, heapsInitIsHeap
    <2>7. Range(t) = file /\ Doubles(t, twins)
      BY <2>3, <2>4, <2>6, RearrangedRange, RearrangedEmbedded, EmbeddedDoubles
    <2>8. TypeOK'
      BY <1>1, <1>2, <2>1, <2>5, <2>6, EmptyQueue DEF TypeOK
    <2>9. QueueIsDurable' /\ NoResurrection'
      BY <1>1, <2>5, <2>7 DEF QueueIsDurable, NoResurrection, Queued
    <2>10. QueueInv'
      BY <1>1, <2>1, <2>5, <2>6, <2>7, EmptyQueue DEF QueueInv
    <2> QED
      BY <2>8, <2>9, <2>10 DEF IInv
  <1>4. CASE ~ \A x \in file : validate(x)
    <2>1. phase' = "failed" /\ data' = data
      BY <1>4 DEF New
    <2>2. TypeOK'
      BY <1>1, <1>2, <2>1, EmptyQueue DEF TypeOK
    <2>3. QueueIsDurable' /\ NoResurrection'
      BY <1>1, <2>1, EmptyQueue DEF QueueIsDurable, NoResurrection, Queued
    <2>4. QueueInv'
      BY <1>1, <2>1, EmptyQueue DEF QueueInv
    <2> QED
      BY <2>2, <2>3, <2>4 DEF IInv
  <1> QED
    BY <1>3, <1>4

LEMMA NextKeepsIInv ==
  ASSUME IInv, [Next]_vars
  PROVE  IInv'
  <1>1. CASE Tick
    BY <1>1, TickKeepsIInv
  <1>2. ASSUME NEW S \in SUBSET Items, ClearLocked(S) PROVE IInv'
    BY <1>2, ClearLockedKeepsIInv
  <1>3. CASE Stop
    BY <1>3, StopKeepsIInv
  <1>4. CASE New
    BY <1>4, NewKeepsIInv
  <1>5. ASSUME NEW ok \in BOOLEAN, TryTake(ok) PROVE IInv'
    BY <1>5, TryTakeKeepsIInv
  <1>6. ASSUME NEW ok \in BOOLEAN, MergeBack(ok) PROVE IInv'
    BY <1>6, MergeBackKeepsIInv
  <1>7. ASSUME NEW ok \in BOOLEAN, NEW S \in SUBSET Items, Merge(S, ok) PROVE IInv'
    BY <1>7, MergeKeepsIInv
  <1>8. CASE UNCHANGED vars
    BY <1>8 DEF IInv, TypeOK, QueueIsDurable, NoResurrection, QueueInv, Queued, vars, history
  <1> QED
    BY <1>1, <1>2, <1>3, <1>4, <1>5, <1>6, <1>7, <1>8 DEF Next
-----------------------------------------------------------------------------
(***************************************************************************)
(* The theorems                                                            *)
(***************************************************************************)
LEMMA Invariance == Spec => []IInv
  <1>1. IInv /\ [Next]_vars => IInv'
    BY NextKeepsIInv
  <1> QED
    BY InitIInv, <1>1, PTL DEF Spec

\* The queue holds polls, whatever is pushed, taken, cleaned or read back.
THEOREM FileHeapTypeCorrect == Spec => []TypeOK
  <1>1. IInv => TypeOK
    BY DEF IInv
  <1> QED
    BY Invariance, <1>1, PTL

\* The item tryAddToBatch looks at (data[0]) is a soonest one after any history
\* of merges, takes, cleans and restarts, whatever the length of the queue.
THEOREM TopIsSoonestHolds == Spec => []TopIsSoonest
  <1>1. IInv => TopIsSoonest
    <2> SUFFICES ASSUME IInv, NEW x \in Queued
                 PROVE  /\ Expiry[data[1]] = NoExpiry => Expiry[x] = NoExpiry
                        /\ Expiry[x] # NoExpiry => Expiry[data[1]] <= Expiry[x]
      BY DEF TopIsSoonest
    <2>1. data \in Seq(Items) /\ IsHeap(data)
      BY DEF IInv, TypeOK, QueueInv
    <2>2. PICK k \in 1 .. Len(data) : x = data[k]
      BY <2>1, RangeIsRanged DEF Queued, Ranged
    <2>3. ~ less(x, data[1])
      BY <2>1, <2>2, HeapTopIsFirst
    <2>4. x \in Items /\ data[1] \in Items
      <3>1. 1 \in 1 .. Len(data)
        BY <2>1, <2>2
      <3> QED
        BY <2>1, <2>2, <3>1, ElementOfSeq
    <2> QED
      BY <2>3, <2>4, ExpiryAssumption DEF less
  <1> QED
    BY Invariance, <1>1, PTL

\* Push, tryAddToBatch, CleanQueue and New keep a row for what they queue, in
\* any order and with any of their writes failing, but for the polls whose
\* write failed and for equal polls.
THEOREM QueueIsDurableHolds == Spec => []QueueIsDurable
  <1>1. IInv => QueueIsDurable
    BY DEF IInv
  <1> QED
    BY Invariance, <1>1, PTL

\* What New reads after tryAddToBatch took a poll does not bring it back,
\* unless deleting its row failed.
THEOREM NoResurrectionHolds == Spec => []NoResurrection
  <1>1. IInv => NoResurrection
    BY DEF IInv
  <1> QED
    BY Invariance, <1>1, PTL

\* What a clean leaves queued is what it did not drop, as often as it was queued
\* before: the loop of CleanQueue keeps every survivor, and the merge queues each
\* as often as it was kept.
THEOREM CleanKeepsCountsHolds == Spec => CleanKeepsCounts
  <1>1. ASSUME IInv, NEW S \in SUBSET Items, ClearLocked(S), NEW x \in Items
        PROVE  Copies(kept', x) = IF x \in S THEN 0 ELSE Copies(data, x)
    <2>1. PICK s, t : s = data /\ t = kept'
      OBVIOUS
    <2>2. s \in Seq(Items) /\ t = Keep(s, S)[Len(s)]
      BY <1>1, <2>1 DEF IInv, TypeOK, ClearLocked
    <2>3. Copies(t, x) = IF x \in S THEN 0 ELSE Copies(s, x)
      BY <2>2, KeepCopies
    <2> QED
      BY <2>1, <2>3
  <1>2. ASSUME IInv, [Next]_vars, phase = "cleaning", phase' = "up", NEW x \in Items
        PROVE  Copies(data', x) = Copies(kept, x)
    <2>1. PICK ok \in BOOLEAN : MergeBack(ok)
      BY <1>2 DEF Next, vars, Tick, ClearLocked, Stop, New, TryTake, Merge
    <2>2. PICK t : t = data'
      OBVIOUS
    <2>3. t \in Seq(Items) /\ Rearranged(kept, t)
      BY <1>2, <2>1, <2>2, MergeBackQueuesKept
    <2>4. kept \in Seq(Items)
      BY <1>2 DEF IInv, TypeOK
    <2>5. Copies(t, x) = Copies(kept, x)
      BY <2>3, <2>4, RearrangedCopies
    <2> QED
      BY <2>2, <2>5
  <1>3. IInv /\ [Next]_vars =>
          [/\ \A S \in SUBSET Items : ClearLocked(S) =>
                \A x \in Items : Copies(kept', x) = IF x \in S THEN 0 ELSE Copies(data, x)
           /\ phase = "cleaning" /\ phase' = "up" =>
                \A x \in Items : Copies(data', x) = Copies(kept, x)]_vars
    BY <1>1, <1>2
  <1> QED
    BY Invariance, <1>3, PTL DEF Spec, CleanKeepsCounts
=============================================================================
