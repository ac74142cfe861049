---------------------------- MODULE QueueProofs ----------------------------
(***************************************************************************)
(* Proofs about the atomic queue and the audit log that reads one.         *)
(*                                                                         *)
(* About AtomicQueue, for every size of the ring and of the channel, any   *)
(* pushers and poppers, and under both flags: that it implements           *)
(* LossyQueue, and that values leave it once and in order.                 *)
(*                                                                         *)
(* About AuditLog, for any clients and any sizes: that a Close without     *)
(* error has flushed the queue, and that the file has what the consumer    *)
(* popped, once and in order.                                              *)
(***************************************************************************)
EXTENDS AtomicQueue, AuditLog, SequenceTheorems, TLAPS

(***************************************************************************)
(* Sequences                                                               *)
(***************************************************************************)
LEMMA MoveHead ==
  ASSUME NEW S, NEW s \in Seq(S), NEW t \in Seq(S), t # <<>>
  PROVE  Append(s, Head(t)) \o Tail(t) = s \o t
  <1>1. /\ Head(t) \in S /\ Tail(t) \in Seq(S) /\ Len(Tail(t)) = Len(t) - 1 /\ Head(t) = t[1]
        /\ \A i \in 1 .. Len(t) - 1 : Tail(t)[i] = t[i + 1]
        /\ Len(t) \in Nat \ {0} /\ Len(s) \in Nat
    BY HeadTailProperties, LenProperties, EmptySeq
  <1>2. /\ Append(s, Head(t)) \in Seq(S) /\ Len(Append(s, Head(t))) = Len(s) + 1
        /\ \A i \in 1 .. Len(s) : Append(s, Head(t))[i] = s[i]
        /\ Append(s, Head(t))[Len(s) + 1] = Head(t)
    BY <1>1, AppendProperties
  <1> DEFINE u == Append(s, Head(t))
             v == u \o Tail(t)
             w == s \o t
  <1>3. /\ v \in Seq(S) /\ Len(v) = Len(s) + Len(t)
        /\ \A i \in 1 .. Len(s) + Len(t) :
             v[i] = IF i <= Len(s) + 1 THEN u[i] ELSE Tail(t)[i - (Len(s) + 1)]
    <2> HIDE DEF u
    <2>1. u \in Seq(S) /\ Len(u) = Len(s) + 1
      BY <1>2 DEF u
    <2>2. (Len(s) + 1) + (Len(t) - 1) = Len(s) + Len(t)
      BY <1>1
    <2>3. /\ v \in Seq(S) /\ Len(v) = Len(u) + Len(Tail(t))
          /\ \A i \in 1 .. Len(u) + Len(Tail(t)) :
               v[i] = IF i <= Len(u) THEN u[i] ELSE Tail(t)[i - Len(u)]
      BY <1>1, <2>1, ConcatProperties
    <2>4. Len(u) + Len(Tail(t)) = Len(s) + Len(t)
      BY <1>1, <2>1, <2>2
    <2> HIDE DEF v
    <2> QED
      BY <2>1, <2>3, <2>4
  <1>4. /\ w \in Seq(S) /\ Len(w) = Len(s) + Len(t)
        /\ \A i \in 1 .. Len(s) + Len(t) : w[i] = IF i <= Len(s) THEN s[i] ELSE t[i - Len(s)]
    BY ConcatProperties
  <1> HIDE DEF v, w
  <1>5. ASSUME NEW i \in 1 .. Len(s) + Len(t) PROVE v[i] = w[i]
    <2>1. CASE i <= Len(s)
      BY <1>1, <1>2, <1>3, <1>4, <2>1
    <2>2. CASE i = Len(s) + 1
      <3>1. i - Len(s) = 1
        BY <1>1, <2>2
      <3>2. v[i] = Head(t)
        BY <1>1, <1>2, <1>3, <2>2
      <3>3. w[i] = t[1]
        BY <1>1, <1>4, <2>2, <3>1
      <3> QED
        BY <1>1, <3>2, <3>3
    <2>3. CASE i > Len(s) + 1
      <3>1. /\ i - (Len(s) + 1) \in 1 .. Len(t) - 1
            /\ (i - (Len(s) + 1)) + 1 = i - Len(s)
        BY <1>1, <1>5, <2>3
      <3>2. v[i] = Tail(t)[i - (Len(s) + 1)]
        <4>1. ~(i <= Len(s) + 1)
          BY <1>1, <1>5, <2>3
        <4> QED
          BY <1>3, <1>5, <4>1
      <3>3. w[i] = t[i - Len(s)]
        BY <1>1, <1>4, <1>5, <2>3
      <3> QED
        BY <1>1, <3>1, <3>2, <3>3
    <2> QED
      BY <1>1, <2>1, <2>2, <2>3
  <1> QED
    BY <1>3, <1>4, <1>5, SeqEqual DEF v, w

Rising(s) == \A i, j \in 1 .. Len(s) : i < j => s[i] < s[j]

LEMMA RisingAppend ==
  ASSUME NEW s \in Seq(Nat), NEW n \in Nat, Rising(s), \A i \in 1 .. Len(s) : s[i] <= n
  PROVE  Rising(Append(s, n + 1)) /\ \A i \in 1 .. Len(s) + 1 : Append(s, n + 1)[i] <= n + 1
  <1>1. /\ Len(Append(s, n + 1)) = Len(s) + 1
        /\ \A i \in 1 .. Len(s) : Append(s, n + 1)[i] = s[i]
        /\ Append(s, n + 1)[Len(s) + 1] = n + 1
        /\ Len(s) \in Nat /\ \A i \in 1 .. Len(s) : s[i] \in Nat
    BY AppendProperties, LenProperties
  <1>2. ASSUME NEW i \in 1 .. Len(s) + 1
        PROVE  /\ i \in 1 .. Len(s) \/ i = Len(s) + 1
               /\ Append(s, n + 1)[i] <= n + 1
    BY <1>1
  <1>3. ASSUME NEW i \in 1 .. Len(s) + 1, NEW j \in 1 .. Len(s) + 1, i < j
        PROVE  Append(s, n + 1)[i] < Append(s, n + 1)[j]
    <2>1. i \in 1 .. Len(s)
      BY <1>1, <1>3
    <2>2. CASE j = Len(s) + 1
      BY <1>1, <2>1, <2>2
    <2>3. CASE j \in 1 .. Len(s)
      BY <1>1, <1>3, <2>1, <2>3 DEF Rising
    <2> QED
      BY <1>2, <2>2, <2>3
  <1> QED
    BY <1>1, <1>2, <1>3 DEF Rising

\* A rising sequence still rises when one of its elements is left out.
LEMMA RisingWithout ==
  ASSUME NEW s \in Seq(Nat), NEW t \in Seq(Nat), t # <<>>, NEW n, Rising(s \o t),
         \A i \in 1 .. Len(s \o t) : (s \o t)[i] <= n
  PROVE  /\ Rising(s \o Tail(t)) /\ Len(s \o Tail(t)) + 1 = Len(s \o t)
         /\ \A i \in 1 .. Len(s \o Tail(t)) : (s \o Tail(t))[i] <= n
  <1> DEFINE v == s \o t
             w == s \o Tail(t)
             at(i) == IF i <= Len(s) THEN i ELSE i + 1
  <1>1. /\ Tail(t) \in Seq(Nat) /\ Len(Tail(t)) = Len(t) - 1
        /\ \A i \in 1 .. Len(t) - 1 : Tail(t)[i] = t[i + 1]
        /\ Len(t) \in Nat \ {0} /\ Len(s) \in Nat
    BY HeadTailProperties, LenProperties, EmptySeq
  <1>2. /\ Len(v) = Len(s) + Len(t)
        /\ \A i \in 1 .. Len(s) + Len(t) : v[i] = IF i <= Len(s) THEN s[i] ELSE t[i - Len(s)]
    BY ConcatProperties
  <1>3. /\ Len(w) = Len(s) + (Len(t) - 1)
        /\ \A i \in 1 .. Len(s) + (Len(t) - 1) :
             w[i] = IF i <= Len(s) THEN s[i] ELSE Tail(t)[i - Len(s)]
    BY <1>1, ConcatProperties
  <1>6. Rising(v) /\ \A i \in 1 .. Len(v) : v[i] <= n
    OBVIOUS
  <1> HIDE DEF v, w
  <1>4. ASSUME NEW i \in 1 .. Len(w) PROVE at(i) \in 1 .. Len(v) /\ w[i] = v[at(i)]
    <2>1. i \in 1 .. Len(s) + (Len(t) - 1)
      BY <1>3
    <2>2. CASE i <= Len(s)
      <3>1. i \in 1 .. Len(s) + Len(t) /\ at(i) = i
        BY <1>1, <2>1, <2>2
      <3>2. w[i] = s[i]
        BY <1>3, <2>1, <2>2
      <3>3. v[i] = s[i]
        BY <1>2, <2>2, <3>1
      <3> QED
        BY <1>2, <3>1, <3>2, <3>3
    <2>3. CASE i > Len(s)
      <3>1. /\ i - Len(s) \in 1 .. Len(t) - 1 /\ (i - Len(s)) + 1 = (i + 1) - Len(s)
            /\ i + 1 \in 1 .. Len(s) + Len(t) /\ ~(i + 1 <= Len(s)) /\ ~(i <= Len(s))
        BY <1>1, <2>1, <2>3
      <3>2. w[i] = t[(i + 1) - Len(s)]
        BY <1>1, <1>3, <2>1, <3>1
      <3>3. v[i + 1] = t[(i + 1) - Len(s)]
        BY <1>2, <3>1
      <3> QED
        BY <1>2, <3>1, <3>2, <3>3
    <2> QED
      BY <1>1, <2>1, <2>2, <2>3
  <1>5. ASSUME NEW i \in 1 .. Len(w), NEW j \in 1 .. Len(w), i < j PROVE at(i) < at(j)
    BY <1>1, <1>5
  <1>7. Rising(w)
    BY <1>4, <1>5, <1>6 DEF Rising
  <1>8. \A i \in 1 .. Len(w) : w[i] <= n
    BY <1>4, <1>6
  <1>9. Len(w) + 1 = Len(v)
    BY <1>1, <1>2, <1>3
  <1> QED
    BY <1>7, <1>8, <1>9 DEF v, w

\* A queue from which o was taken and which holds r and x, of n values put and d
\* dropped: in the order of their numbers, and none is missing.
InLine(o, r, x, n, d) ==
  /\ Rising((o \o r) \o x)
  /\ \A i \in 1 .. Len((o \o r) \o x) : ((o \o r) \o x)[i] <= n
  /\ Len((o \o r) \o x) + d = n

LEMMA LineEmpty == InLine(<<>>, <<>>, <<>>, 0, 0)
  <1>1. (<<>> \o <<>>) \o <<>> = <<>>
    OBVIOUS
  <1> QED
    BY <1>1 DEF InLine, Rising

LEMMA LinePut ==
  ASSUME NEW o \in Seq(Nat), NEW r \in Seq(Nat), NEW x \in Seq(Nat), NEW n \in Nat, NEW d \in Nat,
         InLine(o, r, x, n, d)
  PROVE  InLine(o, r, Append(x, n + 1), n + 1, d)
  <1> DEFINE line == (o \o r) \o x
  <1>1. o \o r \in Seq(Nat) /\ line \in Seq(Nat)
    BY ConcatProperties
  <1>2. (o \o r) \o Append(x, n + 1) = Append(line, n + 1)
    <2> DEFINE s == o \o r
    <2>1. s \in Seq(Nat) /\ n + 1 \in Nat
      BY <1>1
    <2> HIDE DEF s
    <2>2. s \o Append(x, n + 1) = Append(s \o x, n + 1)
      BY <2>1
    <2> QED
      BY <2>2 DEF s
  <1>3. Rising(line) /\ (\A i \in 1 .. Len(line) : line[i] <= n) /\ Len(line) + d = n
    BY DEF InLine
  <1> HIDE DEF line
  <1>4. Len(Append(line, n + 1)) = Len(line) + 1 /\ Len(line) \in Nat
    BY <1>1, AppendProperties, LenProperties
  <1>5. Len(Append(line, n + 1)) + d = n + 1
    <2>1. PICK m \in Nat : m = Len(line)
      BY <1>4
    <2>2. m + d = n
      BY <1>3, <2>1
    <2>3. (m + 1) + d = n + 1
      BY <2>2
    <2> QED
      BY <1>4, <2>1, <2>3
  <1>6. /\ Rising(Append(line, n + 1))
        /\ \A i \in 1 .. Len(line) + 1 : Append(line, n + 1)[i] <= n + 1
    BY <1>1, <1>3, RisingAppend
  <1> QED
    BY <1>2, <1>4, <1>5, <1>6 DEF InLine

LEMMA LineAccept ==
  ASSUME NEW o \in Seq(Nat), NEW r \in Seq(Nat), NEW x \in Seq(Nat), NEW n, NEW d,
         x # <<>>, InLine(o, r, x, n, d)
  PROVE  InLine(o, Append(r, Head(x)), Tail(x), n, d)
  <1>1. Head(x) \in Nat /\ o \o r \in Seq(Nat)
    BY HeadTailProperties, ConcatProperties
  <1>2. o \o Append(r, Head(x)) = Append(o \o r, Head(x))
    BY <1>1
  <1>3. (o \o Append(r, Head(x))) \o Tail(x) = (o \o r) \o x
    BY <1>1, <1>2, MoveHead
  <1> QED
    BY <1>3 DEF InLine

LEMMA LineTake ==
  ASSUME NEW o \in Seq(Nat), NEW r \in Seq(Nat), NEW x \in Seq(Nat), NEW n, NEW d,
         r # <<>>, InLine(o, r, x, n, d)
  PROVE  InLine(Append(o, Head(r)), Tail(r), x, n, d)
  <1>1. Append(o, Head(r)) \o Tail(r) = o \o r
    BY MoveHead
  <1> QED
    BY <1>1 DEF InLine

LEMMA LineRefuse ==
  ASSUME NEW o \in Seq(Nat), NEW r \in Seq(Nat), NEW x \in Seq(Nat), NEW n \in Nat, NEW d \in Nat,
         x # <<>>, InLine(o, r, x, n, d)
  PROVE  InLine(o, r, Tail(x), n, d + 1)
  <1> DEFINE s == o \o r
  <1>1. s \in Seq(Nat) /\ s \o x \in Seq(Nat) /\ Tail(x) \in Seq(Nat) /\ s \o Tail(x) \in Seq(Nat)
    BY HeadTailProperties, ConcatProperties
  <1>2. Rising(s \o x) /\ (\A i \in 1 .. Len(s \o x) : (s \o x)[i] <= n) /\ Len(s \o x) + d = n
    BY DEF InLine
  <1> HIDE DEF s
  <1>3. /\ Rising(s \o Tail(x)) /\ Len(s \o Tail(x)) + 1 = Len(s \o x)
        /\ \A i \in 1 .. Len(s \o Tail(x)) : (s \o Tail(x))[i] <= n
    BY <1>1, <1>2, RisingWithout
  <1>4. Len(s \o Tail(x)) \in Nat /\ Len(s \o x) \in Nat
    BY <1>1, LenProperties
  <1>5. Len(s \o Tail(x)) + (d + 1) = n
    <2>1. PICK m \in Nat : m = Len(s \o Tail(x))
      BY <1>4
    <2>2. (m + 1) + d = n
      BY <1>2, <1>3, <2>1
    <2>3. m + (d + 1) = n
      BY <2>2
    <2> QED
      BY <2>1, <2>3
  <1> QED
    BY <1>3, <1>5 DEF InLine, s

\* What was taken is in order, and the rest is accounted for.
LEMMA LineFacts ==
  ASSUME NEW o \in Seq(Nat), NEW r \in Seq(Nat), NEW x \in Seq(Nat), NEW n, NEW d,
         InLine(o, r, x, n, d)
  PROVE  Rising(o) /\ n = (Len(o) + Len(r) + Len(x)) + d
  <1> DEFINE u == o \o r
             line == u \o x
  <1>1. Len(o) \in Nat /\ Len(r) \in Nat /\ Len(x) \in Nat
    BY LenProperties
  <1>2. /\ u \in Seq(Nat) /\ Len(u) = Len(o) + Len(r)
        /\ \A i \in 1 .. Len(o) + Len(r) : u[i] = IF i <= Len(o) THEN o[i] ELSE r[i - Len(o)]
    BY ConcatProperties
  <1>3. Rising(line) /\ Len(line) + d = n
    BY DEF InLine
  <1> HIDE DEF u
  <1>4. /\ Len(line) = Len(u) + Len(x)
        /\ \A i \in 1 .. Len(u) + Len(x) : line[i] = IF i <= Len(u) THEN u[i] ELSE x[i - Len(u)]
    BY <1>2, ConcatProperties
  <1> HIDE DEF line
  <1>5. ASSUME NEW i \in 1 .. Len(o) PROVE i \in 1 .. Len(line) /\ line[i] = o[i]
    <2>1. /\ i \in 1 .. Len(o) + Len(r) /\ i <= Len(o)
          /\ i \in 1 .. (Len(o) + Len(r)) + Len(x) /\ i <= Len(o) + Len(r)
      BY <1>1, <1>5
    <2> QED
      BY <1>2, <1>4, <2>1
  <1>6. Rising(o)
    BY <1>3, <1>5 DEF Rising
  <1>7. Len(line) = Len(o) + Len(r) + Len(x)
    BY <1>2, <1>4
  <1> QED
    BY <1>3, <1>6, <1>7
-----------------------------------------------------------------------------
(***************************************************************************)
(* AtomicQueue                                                             *)
(***************************************************************************)
\* What the worker is about to write has room, and the slot it has written is
\* the one that storing the tail makes the last.
WorkerInv ==
  /\ wpc \in {"select", "put"} => ~(blockFull /\ Full)
  /\ wpc = "tail" => ~Full /\ ring[mask(tail)] = next

\* The head a popper loaded is not ahead of the head, and as long as it is the
\* head still, what the popper read is what the first slot holds.
PopperInv(p) ==
  /\ ppc[p] \in {"popTail", "read", "swap"} => hd[p] <= head
  /\ ppc[p] \in {"read", "swap"} => hd[p] < tail
  /\ ppc[p] = "swap" /\ hd[p] = head => val[p] = ring[mask(head)]

QueueIInv == QueueTypeOK /\ WorkerInv /\ \A p \in Poppers : PopperInv(p)
-----------------------------------------------------------------------------
LEMMA TimesMonotone ==
  ASSUME NEW n \in Nat, NEW a \in Int, NEW b \in Int, a <= b PROVE n * a <= n * b
  <1>1. n * (b - a) >= 0
    OBVIOUS
  <1>2. n * (b - a) = n * b - n * a
    OBVIOUS
  <1> QED
    BY <1>1, <1>2

\* A head that moved on leaves at least as much room.
LEMMA RoomMonotone ==
  ASSUME NEW t \in Nat, NEW h \in Nat, NEW k \in Nat, NEW s \in Nat, h <= k
  PROVE  (t <= h + s => t <= k + s) /\ (t - k >= s => t - h >= s)
  OBVIOUS

LEMMA MaskRange == ASSUME NEW i \in Nat PROVE mask(i) \in 0 .. RingSize - 1
  BY SizeAssumption DEF mask

\* Two positions less than RingSize apart are in different slots.
LEMMA MaskApart ==
  ASSUME NEW i \in Nat, NEW j \in Nat, i < j, j < i + RingSize PROVE mask(i) # mask(j)
  <1>1. i = RingSize * (i \div RingSize) + (i % RingSize)
    BY SizeAssumption
  <1>2. j = RingSize * (j \div RingSize) + (j % RingSize)
    BY SizeAssumption
  <1>3. PICK q \in Int : q = i \div RingSize
    BY SizeAssumption
  <1>4. PICK p \in Int : p = j \div RingSize
    BY SizeAssumption
  <1> SUFFICES ASSUME i % RingSize = j % RingSize PROVE FALSE
    BY DEF mask
  <1>r. PICK r \in Int : r = i % RingSize /\ r = j % RingSize
    BY SizeAssumption
  <1>5. i = RingSize * q + r /\ j = RingSize * p + r
    BY <1>1, <1>2, <1>3, <1>4, <1>r
  <1>8. RingSize * p \in Int /\ RingSize * q \in Int
    BY SizeAssumption
  <1>6. CASE p <= q
    BY <1>5, <1>6, <1>8, TimesMonotone, SizeAssumption
  <1>7. CASE q + 1 <= p
    <2>1. RingSize * (q + 1) = RingSize * q + RingSize
      BY SizeAssumption
    <2>2. RingSize * (q + 1) <= RingSize * p
      BY <1>7, TimesMonotone, SizeAssumption
    <2> QED
      BY <1>5, <1>8, <2>1, <2>2, SizeAssumption
  <1> QED
    BY <1>6, <1>7
-----------------------------------------------------------------------------
LEMMA QueueInitIInv == QueueInit => QueueIInv
  <1> SUFFICES ASSUME QueueInit PROVE QueueIInv
    OBVIOUS
  <1>1. QueueTypeOK
    <2>1. ring \in [0 .. RingSize - 1 -> Nat] /\ head \in Nat /\ tail \in Nat
      BY DEF QueueInit
    <2>2. head <= tail /\ tail <= head + RingSize
      BY SizeAssumption DEF QueueInit
    <2>3. channel \in Seq(Nat) /\ out \in Seq(Nat)
      BY DEF QueueInit
    <2>4. /\ ppc \in [Poppers -> {"idle"}] /\ upc \in [Pushers -> {"idle"}]
          /\ hd \in [Poppers -> Nat] /\ val \in [Poppers -> Nat]
      BY DEF QueueInit
    <2> QED
      BY <2>1, <2>2, <2>3, <2>4 DEF QueueInit, QueueTypeOK
  <1>2. WorkerInv /\ \A p \in Poppers : PopperInv(p)
    BY DEF QueueInit, WorkerInv, PopperInv
  <1> QED
    BY <1>1, <1>2 DEF QueueIInv

\* A step that leaves ring, head and tail alone, and the poppers' locals and the worker
\* where nothing is asked of them.
LEMMA PoppersKept ==
  ASSUME QueueIInv, UNCHANGED <<ringVars, popVars>> PROVE \A p \in Poppers : PopperInv(p)'
  BY DEF QueueIInv, PopperInv, ringVars, popVars

LEMMA WorkerKept ==
  ASSUME QueueIInv, UNCHANGED <<ringVars, blockFull, wpc, next>> PROVE WorkerInv'
  BY DEF QueueIInv, WorkerInv, ringVars, Full

\* A popper that moves and leaves the ring to the others.
LEMMA PopperMoves ==
  ASSUME QueueIInv, NEW p \in Poppers, UNCHANGED ringVars, PopperInv(p)',
         \A r \in Poppers \ {p} : ppc'[r] = ppc[r] /\ hd'[r] = hd[r] /\ val'[r] = val[r]
  PROVE  \A r \in Poppers : PopperInv(r)'
  <1> SUFFICES ASSUME NEW r \in Poppers PROVE PopperInv(r)'
    OBVIOUS
  <1>1. CASE r = p
    BY <1>1
  <1>2. CASE r # p
    <2>1. PopperInv(r) /\ ppc'[r] = ppc[r] /\ hd'[r] = hd[r] /\ val'[r] = val[r]
      BY <1>2 DEF QueueIInv
    <2> QED
      BY <2>1 DEF PopperInv, ringVars
  <1> QED
    BY <1>1, <1>2

LEMMA WorkerStepIInv == ASSUME QueueIInv, WorkerStep PROVE QueueIInv'
  <1> USE DEF QueueIInv
  <1>1. CASE AwaitRoom
    <2>1. QueueTypeOK'
      BY <1>1 DEF AwaitRoom, QueueTypeOK, ringVars, chanVars, stopVars, popVars
    <2>2. WorkerInv'
      BY <1>1 DEF AwaitRoom, WorkerInv, Full, ringVars
    <2> QED
      BY <1>1, <2>1, <2>2, PoppersKept DEF AwaitRoom
  <1>2. CASE Block
    <2>1. QueueTypeOK'
      BY <1>2 DEF Block, QueueTypeOK, ringVars, chanVars, stopVars, popVars
    <2>2. WorkerInv'
      BY <1>2 DEF Block, WorkerInv, Full, ringVars
    <2> QED
      BY <1>2, <2>1, <2>2, PoppersKept DEF Block
  <1>3. CASE TakeToken
    <2>1. QueueTypeOK'
      BY <1>3 DEF TakeToken, QueueTypeOK, ringVars, chanVars, stopVars, popVars
    <2>2. WorkerInv'
      BY <1>3 DEF TakeToken, WorkerInv, Full, ringVars
    <2> QED
      BY <1>3, <2>1, <2>2, PoppersKept DEF TakeToken
  <1>4. CASE Receive
    <2>1. next' \in Nat /\ channel' \in Seq(Nat)
      BY <1>4, HeadTailProperties DEF Receive, QueueTypeOK
    <2>2. QueueTypeOK'
      BY <1>4, <2>1 DEF Receive, QueueTypeOK, ringVars, stopVars, popVars
    <2> QED
      BY <1>4, <2>2, PoppersKept DEF Receive, WorkerInv, Full, ringVars
  <1>5. CASE DropNext
    BY <1>5, PoppersKept DEF DropNext, QueueTypeOK, WorkerInv, ringVars, chanVars, stopVars, popVars
  <1>6. CASE WriteSlot
    <2>1. mask(tail) \in 0 .. RingSize - 1 /\ head \in Nat /\ tail \in Nat /\ head <= tail
      BY MaskRange DEF QueueTypeOK
    <2>2. ring' \in [0 .. RingSize - 1 -> Nat] /\ ring'[mask(tail)] = next
      BY <1>6, <2>1 DEF WriteSlot, QueueTypeOK
    <2>3. QueueTypeOK'
      BY <1>6, <2>2 DEF WriteSlot, QueueTypeOK, chanVars, stopVars, popVars
    <2>4. (mask(tail))' = mask(tail)
      BY <1>6 DEF WriteSlot, mask
    <2>5. WorkerInv'
      BY <1>6, <2>2, <2>4 DEF WriteSlot, WorkerInv, Full
    <2>6. ASSUME NEW p \in Poppers PROVE PopperInv(p)'
      <3>1. ppc' = ppc /\ hd' = hd /\ val' = val /\ head' = head /\ tail' = tail /\ PopperInv(p)
        BY <1>6 DEF WriteSlot, popVars
      <3>2. ASSUME head < tail PROVE ring'[mask(head)] = ring[mask(head)]
        <4>1. tail < head + RingSize
          BY <1>6, <2>1, SizeAssumption DEF WriteSlot, Full
        <4>2. mask(head) # mask(tail) /\ mask(head) \in 0 .. RingSize - 1
          BY <2>1, <3>2, <4>1, MaskApart, MaskRange
        <4> QED
          BY <1>6, <2>1, <4>2 DEF WriteSlot, QueueTypeOK
      <3>3. (mask(head))' = mask(head)
        BY <3>1 DEF mask
      <3> QED
        BY <3>1, <3>2, <3>3 DEF PopperInv
    <2> QED
      BY <2>3, <2>5, <2>6
  <1>7. CASE StoreTail
    <2>1. head' = head /\ tail' = tail + 1 /\ ring' = ring /\ head \in Nat /\ tail \in Nat
      BY <1>7 DEF StoreTail, QueueTypeOK
    <2>2. tail' <= head' + RingSize
      BY <1>7, <2>1, SizeAssumption DEF StoreTail, WorkerInv, Full
    <2>3. QueueTypeOK'
      BY <1>7, <2>1, <2>2 DEF StoreTail, QueueTypeOK, chanVars, stopVars, popVars
    <2>4. WorkerInv'
      BY <1>7 DEF StoreTail, WorkerInv
    <2>5. ASSUME NEW p \in Poppers PROVE PopperInv(p)'
      <3>1. ppc' = ppc /\ hd' = hd /\ val' = val /\ PopperInv(p) /\ hd[p] \in Nat
        BY <1>7 DEF StoreTail, popVars, QueueTypeOK
      <3> QED
        BY <2>1, <3>1 DEF PopperInv
    <2> QED
      BY <2>3, <2>4, <2>5
  <1>8. CASE ReleaseSubscribers
    <2>1. ppc' = [p \in Poppers |-> IF ppc[p] = "asleep" THEN "idle" ELSE ppc[p]]
      BY <1>8 DEF ReleaseSubscribers, Release
    <2>2. QueueTypeOK'
      BY <1>8, <2>1 DEF ReleaseSubscribers, QueueTypeOK, ringVars, chanVars, stopVars
    <2>3. WorkerInv'
      BY <1>8 DEF ReleaseSubscribers, WorkerInv
    <2>4. \A p \in Poppers : PopperInv(p)'
      BY <1>8, <2>1 DEF ReleaseSubscribers, PopperInv, ringVars
    <2> QED
      BY <2>2, <2>3, <2>4
  <1>9. CASE EndWorker
    BY <1>9, PoppersKept
       DEF EndWorker, QueueTypeOK, WorkerInv, ringVars, chanVars, stopVars, popVars
  <1> QED
    BY <1>1, <1>2, <1>3, <1>4, <1>5, <1>6, <1>7, <1>8, <1>9 DEF WorkerStep

LEMMA PusherIInv ==
  ASSUME QueueIInv, NEW c \in Pushers, StartPush(c) \/ Send(c) \/ Refused(c) PROVE QueueIInv'
  <1>1. /\ UNCHANGED <<ringVars, popVars, workerVars, stopVars, blockFull, unblock, out>>
        /\ upc' \in [Pushers -> {"idle", "send"}]
    BY DEF QueueIInv, QueueTypeOK, StartPush, Send, Refused
  <1>2. channel' \in Seq(Nat) /\ pushed' \in Nat
    <2>1. channel \in Seq(Nat) /\ pushed \in Nat
      BY DEF QueueIInv, QueueTypeOK
    <2>2. CASE Send(c)
      BY <2>1, <2>2, AppendProperties DEF Send
    <2> QED
      BY <2>1, <2>2 DEF StartPush, Refused, chanVars
  <1>3. QueueTypeOK'
    BY <1>1, <1>2 DEF QueueIInv, QueueTypeOK, ringVars, popVars, workerVars, stopVars
  <1> QED
    BY <1>1, <1>3, PoppersKept, WorkerKept DEF QueueIInv, workerVars

LEMMA StopIInv == ASSUME QueueIInv, StartStop \/ StopStep PROVE QueueIInv'
  <1>1. CASE StartStop \/ CloseDone
    <2>1. QueueTypeOK'
      BY <1>1 DEF QueueIInv, QueueTypeOK, StartStop, CloseDone, ringVars, popVars, workerVars,
                  chanVars
    <2> QED
      BY <1>1, <2>1, PoppersKept, WorkerKept DEF QueueIInv, StartStop, CloseDone, workerVars
  <1>2. CASE ReleaseLast
    <2>1. ppc' = [p \in Poppers |-> IF ppc[p] = "asleep" THEN "idle" ELSE ppc[p]]
      BY <1>2 DEF ReleaseLast, Release
    <2>2. QueueTypeOK'
      BY <1>2, <2>1 DEF QueueIInv, QueueTypeOK, ReleaseLast, ringVars, workerVars, chanVars
    <2>3. \A p \in Poppers : PopperInv(p)'
      BY <1>2, <2>1 DEF QueueIInv, ReleaseLast, PopperInv, ringVars
    <2> QED
      BY <1>2, <2>2, <2>3, WorkerKept DEF QueueIInv, ReleaseLast, workerVars
  <1> QED
    BY <1>1, <1>2 DEF StopStep

\* Await and the loads of a Pop.
Loads(p) == WaitLock(p) \/ WaitHead(p) \/ WaitTail(p) \/ PopHead(p) \/ PopTail(p)
              \/ ReadSlot(p) \/ Signal(p)

LEMMA LoadsIInv == ASSUME QueueIInv, NEW p \in Poppers, Loads(p) PROVE QueueIInv'
  <1> USE DEF Loads, WaitLock, WaitHead, WaitTail, PopHead, PopTail, ReadSlot, Signal
  <1>1. /\ UNCHANGED <<blockFull, ringVars, chanVars, stopVars, workerVars, upc, out>>
        /\ unblock' \in {0, 1}
    BY DEF QueueIInv, QueueTypeOK
  <1>2. \A r \in Poppers \ {p} : ppc'[r] = ppc[r] /\ hd'[r] = hd[r] /\ val'[r] = val[r]
    BY DEF QueueIInv, QueueTypeOK
  <1>0. head \in Nat /\ tail \in Nat /\ ring \in [0 .. RingSize - 1 -> Nat]
    BY DEF QueueIInv, QueueTypeOK
  <1>3. /\ ppc' \in [Poppers -> {"idle", "again", "popTail", "read", "swap", "signal",
                                 "waitHead", "waitTail", "asleep"}]
        /\ hd' \in [Poppers -> Nat]
    <2>1. /\ ppc \in [Poppers -> {"idle", "again", "popTail", "read", "swap", "signal",
                                  "waitHead", "waitTail", "asleep"}]
          /\ hd \in [Poppers -> Nat] /\ head \in Nat
      BY <1>0 DEF QueueIInv, QueueTypeOK
    <2>2. CASE PopTail(p)
      BY <2>1, <2>2
    <2>3. CASE WaitTail(p)
      BY <2>1, <2>3
    <2> QED
      BY <2>1, <2>2, <2>3
  <1>4. val' \in [Poppers -> Nat]
    <2>1. mask(hd[p]) \in 0 .. RingSize - 1
      BY MaskRange DEF QueueIInv, QueueTypeOK
    <2> QED
      BY <1>0, <2>1 DEF QueueIInv, QueueTypeOK
  <1>5. QueueTypeOK'
    BY <1>1, <1>3, <1>4 DEF QueueIInv, QueueTypeOK, ringVars, workerVars, stopVars, chanVars
  <1>6. (mask(head))' = mask(head)
    BY <1>1 DEF ringVars, mask
  <1>7. PopperInv(p)'
    <2>1. head' = head /\ tail' = tail /\ ring' = ring /\ hd[p] \in Nat /\ PopperInv(p)
          /\ p \in DOMAIN ppc /\ p \in DOMAIN hd /\ p \in DOMAIN val /\ head <= tail
      BY <1>1 DEF QueueIInv, QueueTypeOK, ringVars
    <2>2. CASE ReadSlot(p)
      BY <1>0, <1>6, <2>1, <2>2 DEF PopperInv
    <2>3. CASE PopTail(p)
      BY <1>0, <2>1, <2>3 DEF PopperInv
    <2> QED
      BY <1>0, <2>1, <2>2, <2>3 DEF PopperInv
  <1> QED
    BY <1>1, <1>2, <1>5, <1>7, PopperMoves, WorkerKept DEF QueueIInv, workerVars

LEMMA SwapIInv == ASSUME QueueIInv, NEW p \in Poppers, CompareAndSwap(p) PROVE QueueIInv'
  <1>0. /\ UNCHANGED <<blockFull, ring, tail, chanVars, stopVars, workerVars, unblock, upc>>
        /\ wpc' = wpc /\ next' = next
    BY DEF workerVars, CompareAndSwap
  <1>1. /\ head \in Nat /\ tail \in Nat /\ tail' = tail /\ hd[p] \in Nat
        /\ head <= tail /\ tail <= head + RingSize
    BY DEF QueueIInv, QueueTypeOK, workerVars, CompareAndSwap
  <1>2. head' \in Nat /\ head <= head' /\ head' <= tail /\ head' <= head + 1
    BY <1>1 DEF QueueIInv, PopperInv, CompareAndSwap
  <1>3. out' \in Seq(Nat)
    <2>1. out \in Seq(Nat) /\ val[p] \in Nat
      BY DEF QueueIInv, QueueTypeOK
    <2>2. Append(out, val[p]) \in Seq(Nat)
      BY <2>1, AppendProperties
    <2> QED
      BY <2>1, <2>2 DEF CompareAndSwap
  <1>4. /\ ppc' \in [Poppers -> {"idle", "again", "popTail", "read", "swap", "signal",
                                 "waitHead", "waitTail", "asleep"}]
        /\ hd' \in [Poppers -> Nat] /\ val' \in [Poppers -> Nat]
    BY DEF QueueIInv, QueueTypeOK, CompareAndSwap, ForgetLocals, AfterPop
  <1>5. tail' <= head' + RingSize
    BY <1>1, <1>2, RoomMonotone, SizeAssumption
  <1>6. QueueTypeOK'
    BY <1>0, <1>1, <1>2, <1>3, <1>4, <1>5 DEF QueueIInv, QueueTypeOK, workerVars, stopVars, chanVars
  <1>7. (mask(tail))' = mask(tail)
    BY <1>0 DEF mask
  <1>8. WorkerInv'
    <2>1. Full' => Full
      BY <1>1, <1>2, RoomMonotone, SizeAssumption DEF Full
    <2> QED
      BY <1>0, <1>7, <2>1 DEF QueueIInv, WorkerInv
  <1>9. ASSUME NEW r \in Poppers PROVE PopperInv(r)'
    <2>1. CASE r = p
      BY <2>1 DEF QueueIInv, QueueTypeOK, PopperInv, CompareAndSwap, AfterPop
    <2>2. CASE r # p
      <3>1. ppc'[r] = ppc[r] /\ hd'[r] = hd[r] /\ val'[r] = val[r] /\ hd[r] \in Nat /\ PopperInv(r)
        BY <2>2 DEF QueueIInv, QueueTypeOK, CompareAndSwap, ForgetLocals
      <3>2. CASE head' = head
        BY <1>0, <3>1, <3>2 DEF PopperInv, mask
      <3>3. CASE head' # head
        BY <1>1, <1>2, <3>1, <3>3 DEF PopperInv
      <3> QED
        BY <3>2, <3>3
    <2> QED
      BY <2>1, <2>2
  <1> QED
    BY <1>6, <1>8, <1>9 DEF QueueIInv

LEMMA QueueNextIInv == QueueIInv /\ [QueueNext]_atomicVars => QueueIInv'
  <1> SUFFICES ASSUME QueueIInv, [QueueNext]_atomicVars PROVE QueueIInv'
    OBVIOUS
  <1>1. CASE UNCHANGED atomicVars
    BY <1>1, PoppersKept, WorkerKept DEF atomicVars, QueueIInv, QueueTypeOK, ringVars, chanVars,
         stopVars, workerVars, popVars
  <1>2. CASE \E p \in Poppers : Loads(p) \/ CompareAndSwap(p)
    BY <1>2, LoadsIInv, SwapIInv
  <1>3. CASE \E c \in Pushers : StartPush(c) \/ Send(c) \/ Refused(c)
    BY <1>3, PusherIInv
  <1> QED
    BY <1>1, <1>2, <1>3, WorkerStepIInv, StopIInv DEF QueueNext, PopStep, Loads

\* What the worker found out before it writes, and a popper before it swaps, is
\* still true when it acts, or the swap fails: whatever pushers, poppers and Stop
\* do in between, the ring is never over-filled and a stale head takes nothing.
THEOREM QueueInvariant == SafeSpec => []QueueIInv
  BY QueueInitIInv, QueueNextIInv, PTL DEF SafeSpec
-----------------------------------------------------------------------------
\* The abstract queue's inbox and items, as AtomicQueue maps them.
Inbox == InHand \o channel
RingItems == [i \in 1 .. (tail - head) |-> ring[mask(head + i - 1)]]

LEMMA InboxType ==
  ASSUME QueueIInv
  PROVE  Inbox \in Seq(Nat) /\ InHand \in Seq(Nat) /\ channel \in Seq(Nat)
  <1>1. channel \in Seq(Nat) /\ next \in Nat
    BY DEF QueueIInv, QueueTypeOK
  <1>2. InHand \in Seq(Nat)
    BY <1>1 DEF InHand
  <1> QED
    BY <1>1, <1>2, ConcatProperties DEF Inbox

LEMMA ItemsType ==
  ASSUME QueueIInv
  PROVE  /\ RingItems \in Seq(Nat) /\ Len(RingItems) = tail - head
         /\ \A i \in 1 .. (tail - head) : RingItems[i] = ring[mask(head + i - 1)]
  <1>1. head \in Nat /\ tail \in Nat /\ head <= tail /\ ring \in [0 .. RingSize - 1 -> Nat]
    BY DEF QueueIInv, QueueTypeOK
  <1>2. tail - head \in Nat
    BY <1>1
  <1>3. ASSUME NEW i \in 1 .. (tail - head) PROVE ring[mask(head + i - 1)] \in Nat
    <2>1. head + i - 1 \in Nat
      BY <1>1, <1>3
    <2>2. mask(head + i - 1) \in 0 .. RingSize - 1
      BY <2>1, MaskRange
    <2> QED
      BY <1>1, <2>2
  <1> QED
    BY <1>2, <1>3 DEF RingItems

LEMMA ItemsKept ==
  ASSUME QueueIInv, QueueIInv', head' = head, tail' = tail,
         \A i \in head .. tail - 1 : ring'[mask(i)] = ring[mask(i)]
  PROVE  RingItems' = RingItems
  <1>1. head \in Nat /\ tail \in Nat
    BY DEF QueueIInv, QueueTypeOK
  <1>2. \A i \in 1 .. (tail - head) : ring'[mask(head + i - 1)] = ring[mask(head + i - 1)]
    BY <1>1
  <1> QED
    BY <1>2 DEF RingItems, mask

\* What no step of the abstract queue is needed for.
LEMMA StutterIfSame ==
  ASSUME QueueIInv, QueueIInv', UNCHANGED <<blockFull, ringVars, channel, drops, out>>,
         InHand' = InHand
  PROVE  UNCHANGED Queue!queueVars
  <1>1. RingItems' = RingItems
    BY ItemsKept DEF ringVars, mask
  <1> QED
    BY <1>1 DEF Queue!queueVars, RingItems

LEMMA ReceiveStutters ==
  ASSUME QueueIInv, QueueIInv', Receive PROVE UNCHANGED Queue!queueVars
  <1>1. channel \in Seq(Nat) /\ channel # <<>> /\ channel' = Tail(channel)
        /\ next' = Head(channel) /\ InHand = <<>> /\ InHand' = <<next'>>
    BY DEF QueueIInv, QueueTypeOK, Receive, InHand
  <1>2. <<Head(channel)>> \o Tail(channel) = channel
    BY <1>1
  <1>3. <<>> \o channel = channel
    BY <1>1, ConcatEmptySeq
  <1>4. Inbox' = Inbox
    BY <1>1, <1>2, <1>3 DEF Inbox
  <1>5. RingItems' = RingItems
    BY ItemsKept DEF Receive, ringVars, mask
  <1> QED
    BY <1>4, <1>5 DEF Queue!queueVars, RingItems, Inbox, Receive

LEMMA SendPuts ==
  ASSUME QueueIInv, QueueIInv', NEW c \in Pushers, Send(c)
  PROVE  pushed' = pushed + 1 /\ pushed + 1 \in 1 .. MaxPushes /\ Queue!Put(pushed + 1)
  <1>1. pushed + 1 \in 1 .. MaxPushes
    BY PushesAssumption DEF QueueIInv, QueueTypeOK, Send
  <1>2. InHand' = InHand
    BY DEF Send, InHand, workerVars
  <1>3. channel' = Append(channel, pushed + 1)
    BY DEF Send
  <1>4. InHand \o Append(channel, pushed + 1) = Append(InHand \o channel, pushed + 1)
    BY <1>1, InboxType
  <1>5. RingItems' = RingItems
    BY ItemsKept DEF Send, ringVars, mask
  <1>6. Queue!Put(pushed + 1)
    BY <1>2, <1>3, <1>4, <1>5 DEF Queue!Put, Send, RingItems, workerVars
  <1> QED
    BY <1>1, <1>6 DEF Send

LEMMA DropRefuses == ASSUME QueueIInv, QueueIInv', DropNext PROVE Queue!Refuse
  <1>1. InHand = <<next>> /\ InHand' = <<>> /\ channel' = channel /\ next \in Nat
    BY DEF QueueIInv, QueueTypeOK, DropNext, InHand, chanVars
  <1>2. <<next>> \o channel # <<>> /\ Tail(<<next>> \o channel) = <<>> \o channel
    BY <1>1, InboxType
  <1>3. ~blockFull /\ tail - head = RingSize
    <2>1. head \in Nat /\ tail \in Nat /\ tail <= head + RingSize /\ tail - head >= RingSize
      BY DEF QueueIInv, QueueTypeOK, DropNext, Full
    <2>2. ~blockFull
      BY DEF QueueIInv, WorkerInv, DropNext
    <2> QED
      BY <2>1, <2>2, SizeAssumption
  <1>4. Len(RingItems) = RingSize /\ RingItems' = RingItems
    BY <1>3, ItemsType, ItemsKept DEF DropNext, ringVars, mask
  <1> QED
    BY <1>1, <1>2, <1>3, <1>4 DEF Queue!Refuse, DropNext, RingItems

LEMMA WriteSlotStutters ==
  ASSUME QueueIInv, QueueIInv', WriteSlot PROVE UNCHANGED Queue!queueVars
  <1>1. InHand' = InHand /\ channel' = channel
    BY DEF WriteSlot, InHand, chanVars
  <1>2. ASSUME NEW i \in head .. tail - 1 PROVE ring'[mask(i)] = ring[mask(i)]
    <2>1. head \in Nat /\ tail \in Nat /\ ring \in [0 .. RingSize - 1 -> Nat]
          /\ tail - head < RingSize
      BY SizeAssumption DEF QueueIInv, QueueTypeOK, WriteSlot, Full
    <2>2. i \in Nat /\ i < tail /\ tail < i + RingSize
      BY <1>2, <2>1, SizeAssumption
    <2>3. mask(i) # mask(tail) /\ mask(i) \in 0 .. RingSize - 1
      BY <2>1, <2>2, MaskApart, MaskRange
    <2> QED
      BY <2>1, <2>3 DEF WriteSlot
  <1>3. RingItems' = RingItems
    BY <1>2, ItemsKept DEF WriteSlot
  <1> QED
    BY <1>1, <1>3 DEF Queue!queueVars, RingItems, WriteSlot

LEMMA StoreTailAccepts == ASSUME QueueIInv, QueueIInv', StoreTail PROVE Queue!Accept
  <1>0. /\ head \in Nat /\ tail \in Nat /\ head <= tail /\ next \in Nat
        /\ tail - head < RingSize /\ ring[mask(tail)] = next
        /\ head' = head /\ tail' = tail + 1 /\ ring' = ring
    BY SizeAssumption DEF QueueIInv, QueueTypeOK, WorkerInv, StoreTail, Full
  <1>1. InHand = <<next>> /\ InHand' = <<>> /\ channel' = channel
    BY DEF StoreTail, InHand, chanVars
  <1>2. /\ <<next>> \o channel # <<>> /\ Tail(<<next>> \o channel) = <<>> \o channel
        /\ Head(<<next>> \o channel) = next
    BY <1>0, InboxType
  <1>3. RingItems' = Append(RingItems, next)
    <2>1. RingItems \in Seq(Nat) /\ Len(RingItems) = tail - head
      BY ItemsType
    <2>2. /\ RingItems' \in Seq(Nat) /\ Len(RingItems') = tail + 1 - head
          /\ \A i \in 1 .. (tail + 1 - head) : RingItems'[i] = ring[mask(head + i - 1)]
      <3>1. RingItems' = [i \in 1 .. (tail + 1 - head) |-> ring[mask(head + i - 1)]]
        BY <1>0 DEF RingItems, mask
      <3>2. tail + 1 - head \in Nat /\ ring \in [0 .. RingSize - 1 -> Nat]
        BY <1>0 DEF QueueIInv, QueueTypeOK
      <3>3. ASSUME NEW i \in 1 .. (tail + 1 - head) PROVE ring[mask(head + i - 1)] \in Nat
        <4>1. head + i - 1 \in Nat
          BY <1>0, <3>3
        <4>2. mask(head + i - 1) \in 0 .. RingSize - 1
          BY <4>1, MaskRange
        <4> QED
          BY <3>2, <4>2
      <3> QED
        BY <3>1, <3>2, <3>3
    <2>3. /\ Append(RingItems, next) \in Seq(Nat)
          /\ Len(Append(RingItems, next)) = tail - head + 1
          /\ \A i \in 1 .. (tail - head) : Append(RingItems, next)[i] = RingItems[i]
          /\ Append(RingItems, next)[tail - head + 1] = next
      BY <1>0, <2>1, AppendProperties
    <2>4. ASSUME NEW i \in 1 .. (tail + 1 - head)
          PROVE  RingItems'[i] = Append(RingItems, next)[i]
      <3>1. CASE i = tail + 1 - head
        <4>1. head + i - 1 = tail
          BY <1>0, <3>1
        <4> QED
          BY <1>0, <2>2, <2>3, <3>1, <4>1
      <3>2. CASE i # tail + 1 - head
        BY <1>0, <2>2, <2>3, <2>4, <3>2, ItemsType
      <3> QED
        BY <3>1, <3>2
    <2>5. Len(RingItems') = Len(Append(RingItems, next))
      BY <1>0, <2>2, <2>3
    <2> QED
      BY <2>2, <2>3, <2>4, <2>5, SeqEqual
  <1>4. Len(RingItems) < RingSize
    BY <1>0, ItemsType
  <1> QED
    BY <1>0, <1>1, <1>2, <1>3, <1>4 DEF Queue!Accept, StoreTail, RingItems

LEMMA SwapTakes ==
  ASSUME QueueIInv, QueueIInv', NEW p \in Poppers, CompareAndSwap(p)
  PROVE  Queue!TakeFirst \/ UNCHANGED Queue!queueVars
  <1>0. /\ head \in Nat /\ tail \in Nat /\ hd[p] \in Nat /\ head <= tail
        /\ ring' = ring /\ tail' = tail /\ wpc' = wpc /\ next' = next /\ channel' = channel
        /\ drops' = drops /\ blockFull' = blockFull
    BY DEF QueueIInv, QueueTypeOK, CompareAndSwap, workerVars, chanVars
  <1>1. InHand' = InHand
    BY <1>0 DEF InHand
  <1>2. CASE head # hd[p]
    <2>1. head' = head /\ out' = out
      BY <1>2 DEF CompareAndSwap
    <2> QED
      BY <1>0, <1>1, <2>1, StutterIfSame DEF ringVars
  <1>3. CASE head = hd[p]
    <2>0. head' = head + 1 /\ out' = Append(out, val[p])
      BY <1>3 DEF CompareAndSwap
    <2>1. head < tail /\ val[p] = ring[mask(head)]
      BY <1>3 DEF QueueIInv, PopperInv, CompareAndSwap
    <2>2. /\ RingItems \in Seq(Nat) /\ Len(RingItems) = tail - head
          /\ \A i \in 1 .. (tail - head) : RingItems[i] = ring[mask(head + i - 1)]
      BY ItemsType
    <2>3. RingItems # <<>>
      BY <1>0, <2>1, <2>2
    <2>4. Head(RingItems) = val[p]
      <3>1. head + 1 - 1 = head /\ 1 \in 1 .. (tail - head)
        BY <1>0, <2>1
      <3>2. Head(RingItems) = RingItems[1]
        BY <2>2, <2>3
      <3> QED
        BY <2>1, <2>2, <3>1, <3>2
    <2>5. RingItems' = Tail(RingItems)
      <3>1. /\ RingItems' \in Seq(Nat) /\ Len(RingItems') = tail - (head + 1)
            /\ \A i \in 1 .. (tail - (head + 1)) : RingItems'[i] = ring[mask((head + 1) + i - 1)]
        <4>1. RingItems' = [i \in 1 .. (tail - (head + 1)) |-> ring[mask((head + 1) + i - 1)]]
          BY <1>0, <2>0 DEF RingItems, mask
        <4>2. tail - (head + 1) \in Nat /\ ring \in [0 .. RingSize - 1 -> Nat]
          BY <1>0, <2>1 DEF QueueIInv, QueueTypeOK
        <4>3. ASSUME NEW i \in 1 .. (tail - (head + 1))
              PROVE  ring[mask((head + 1) + i - 1)] \in Nat
          <5>1. (head + 1) + i - 1 \in Nat
            BY <1>0, <4>3
          <5>2. mask((head + 1) + i - 1) \in 0 .. RingSize - 1
            BY <5>1, MaskRange
          <5> QED
            BY <4>2, <5>2
        <4> QED
          BY <4>1, <4>2, <4>3
      <3>2. /\ Tail(RingItems) \in Seq(Nat) /\ Len(Tail(RingItems)) = tail - head - 1
            /\ \A i \in 1 .. (tail - head - 1) : Tail(RingItems)[i] = RingItems[i + 1]
        BY <2>2, <2>3, HeadTailProperties
      <3>3. ASSUME NEW i \in 1 .. (tail - (head + 1))
            PROVE  RingItems'[i] = Tail(RingItems)[i]
        <4>1. /\ i + 1 \in 1 .. (tail - head) /\ i \in 1 .. (tail - head - 1)
              /\ head + (i + 1) - 1 = (head + 1) + i - 1
          BY <1>0, <2>1, <3>3
        <4>2. Tail(RingItems)[i] = ring[mask(head + (i + 1) - 1)]
          BY <2>2, <3>2, <4>1
        <4> QED
          BY <3>1, <3>3, <4>1, <4>2
      <3>4. Len(RingItems') = Len(Tail(RingItems))
        BY <1>0, <3>1, <3>2
      <3> QED
        BY <3>1, <3>2, <3>3, <3>4, SeqEqual
    <2> QED
      BY <1>0, <1>1, <2>0, <2>3, <2>4, <2>5 DEF Queue!TakeFirst, RingItems
  <1> QED
    BY <1>2, <1>3

LEMMA QueueInitRefines == QueueInit => Queue!QInit
  <1> SUFFICES ASSUME QueueInit PROVE Queue!QInit
    OBVIOUS
  <1>1. InHand = <<>> /\ channel = <<>>
    BY DEF QueueInit, InHand
  <1>2. <<>> \o <<>> = <<>>
    OBVIOUS
  <1>3. RingItems = <<>>
    <2>1. tail - head = 0 /\ 1 .. 0 = {}
      BY DEF QueueInit
    <2>2. RingItems = [i \in {} |-> ring[mask(head + i - 1)]]
      BY <2>1 DEF RingItems
    <2> QED
      BY <2>2
  <1> QED
    BY <1>1, <1>2, <1>3 DEF Queue!QInit, QueueInit, RingItems

\* The step of the abstract queue that a step of the queue is.
LEMMA QueueNextMaps ==
  ASSUME QueueIInv, QueueIInv', [QueueNext]_atomicVars
  PROVE  \/ pushed' = pushed + 1 /\ pushed + 1 \in 1 .. MaxPushes /\ Queue!Put(pushed + 1)
         \/ /\ pushed' = pushed
            /\ Queue!Accept \/ Queue!Refuse \/ Queue!TakeFirst \/ UNCHANGED Queue!queueVars
  <1>1. CASE \/ UNCHANGED atomicVars \/ AwaitRoom \/ Block \/ TakeToken \/ ReleaseSubscribers
             \/ EndWorker \/ StartStop \/ StopStep
             \/ \E c \in Pushers : StartPush(c) \/ Refused(c)
             \/ \E p \in Poppers : Loads(p)
    <2>1. /\ UNCHANGED <<blockFull, ringVars, channel, drops, out, next, pushed>>
          /\ \/ wpc' = wpc
             \/ wpc \notin {"put", "tail"} /\ wpc' \notin {"put", "tail"}
      BY <1>1 DEF atomicVars, AwaitRoom, Block, TakeToken, ReleaseSubscribers, EndWorker,
           StartStop, StopStep, CloseDone, ReleaseLast, StartPush, Refused, Loads, WaitLock,
           WaitHead, WaitTail, PopHead, PopTail, ReadSlot, Signal, workerVars, chanVars
    <2>2. InHand' = InHand
      BY <2>1 DEF InHand
    <2> QED
      BY <2>1, <2>2, StutterIfSame
  <1>2. CASE \E c \in Pushers : Send(c)
    BY <1>2, SendPuts
  <1>3. CASE \E p \in Poppers : CompareAndSwap(p)
    BY <1>3, SwapTakes DEF CompareAndSwap, chanVars
  <1>4. CASE Receive \/ DropNext \/ WriteSlot \/ StoreTail
    <2>1. pushed' = pushed
      BY <1>4 DEF Receive, DropNext, WriteSlot, StoreTail, chanVars
    <2> QED
      BY <1>4, <2>1, ReceiveStutters, DropRefuses, WriteSlotStutters, StoreTailAccepts
  <1> QED
    BY <1>1, <1>2, <1>3, <1>4 DEF QueueNext, WorkerStep, PopStep, Loads

LEMMA QueueNextRefines ==
  QueueIInv /\ QueueIInv' /\ [QueueNext]_atomicVars => [Queue!QNext]_(Queue!queueVars)
  BY QueueNextMaps DEF Queue!QNext

\* Each step of the ring, of the channel, of the worker and of the poppers is one
\* step of the queue that the code promises, which takes a value into its inbox,
\* accepts or drops the oldest of them, or hands out the first, or changes nothing.
THEOREM QueueImplements == SafeSpec => ImplementsQueue
  <1>1. QueueIInv /\ QueueIInv' /\ [QueueNext]_atomicVars => [Queue!QNext]_(Queue!queueVars)
    BY QueueNextRefines
  <1> QED
    BY <1>1, QueueInitRefines, QueueInvariant, PTL DEF ImplementsQueue, Queue!QSpec, SafeSpec
-----------------------------------------------------------------------------
\* The order of the values, through the channel, the ring and the pops.
LineInv == InLine(out, RingItems, Inbox, pushed, drops)

LEMMA LineInit == QueueInit => LineInv
  <1> SUFFICES ASSUME QueueInit PROVE LineInv
    OBVIOUS
  <1>1. out = <<>> /\ RingItems = <<>> /\ Inbox = <<>> /\ drops = 0 /\ pushed = 0
    BY QueueInitRefines DEF Queue!QInit, RingItems, Inbox, QueueInit
  <1> QED
    BY <1>1, LineEmpty DEF LineInv

LEMMA LineNext == QueueIInv /\ LineInv /\ QueueIInv' /\ [QueueNext]_atomicVars => LineInv'
  <1> SUFFICES ASSUME QueueIInv, QueueIInv', LineInv, [QueueNext]_atomicVars PROVE LineInv'
    OBVIOUS
  <1>1. /\ out \in Seq(Nat) /\ RingItems \in Seq(Nat) /\ Inbox \in Seq(Nat)
        /\ drops \in Nat /\ pushed \in Nat
    BY InboxType, ItemsType DEF QueueIInv, QueueTypeOK
  <1>2. CASE pushed' = pushed + 1 /\ Queue!Put(pushed + 1)
    <2>1. /\ Inbox' = Append(Inbox, pushed + 1) /\ RingItems' = RingItems /\ out' = out
          /\ drops' = drops
      BY <1>2 DEF Queue!Put, Inbox, RingItems
    <2>2. InLine(out, RingItems, Append(Inbox, pushed + 1), pushed + 1, drops)
      BY <1>1, LinePut DEF LineInv
    <2> QED
      BY <1>2, <2>1, <2>2 DEF LineInv
  <1>3. CASE pushed' = pushed /\ Queue!Accept
    <2>1. /\ Inbox # <<>> /\ Inbox' = Tail(Inbox) /\ RingItems' = Append(RingItems, Head(Inbox))
          /\ out' = out /\ drops' = drops
      BY <1>3 DEF Queue!Accept, Inbox, RingItems
    <2>2. InLine(out, Append(RingItems, Head(Inbox)), Tail(Inbox), pushed, drops)
      BY <1>1, <2>1, LineAccept DEF LineInv
    <2> QED
      BY <1>3, <2>1, <2>2 DEF LineInv
  <1>4. CASE pushed' = pushed /\ Queue!TakeFirst
    <2>1. /\ RingItems # <<>> /\ RingItems' = Tail(RingItems) /\ Inbox' = Inbox
          /\ out' = Append(out, Head(RingItems)) /\ drops' = drops
      BY <1>4 DEF Queue!TakeFirst, Inbox, RingItems
    <2>2. InLine(Append(out, Head(RingItems)), Tail(RingItems), Inbox, pushed, drops)
      BY <1>1, <2>1, LineTake DEF LineInv
    <2> QED
      BY <1>4, <2>1, <2>2 DEF LineInv
  <1>5. CASE pushed' = pushed /\ Queue!Refuse
    <2>1. /\ Inbox # <<>> /\ Inbox' = Tail(Inbox) /\ RingItems' = RingItems
          /\ out' = out /\ drops' = drops + 1
      BY <1>5 DEF Queue!Refuse, Inbox, RingItems
    <2>2. InLine(out, RingItems, Tail(Inbox), pushed, drops + 1)
      BY <1>1, <2>1, LineRefuse DEF LineInv
    <2> QED
      BY <1>5, <2>1, <2>2 DEF LineInv
  <1>6. CASE pushed' = pushed /\ UNCHANGED Queue!queueVars
    <2>1. Inbox' = Inbox /\ RingItems' = RingItems /\ out' = out /\ drops' = drops
      BY <1>6 DEF Queue!queueVars, Inbox, RingItems
    <2> QED
      BY <1>6, <2>1 DEF LineInv
  <1> QED
    BY <1>2, <1>3, <1>4, <1>5, <1>6, QueueNextMaps

\* What was pushed is taken in that order and no more than once, and is taken, counted
\* as dropped, in the ring or still to be decided upon: none is lost on the way.
OnceInOrder ==
  /\ Rising(out)
  /\ pushed = (Len(out) + (tail - head) + Len(InHand \o channel)) + drops

LEMMA LineIsOnce == QueueIInv /\ LineInv => OnceInOrder
  <1> SUFFICES ASSUME QueueIInv, LineInv PROVE OnceInOrder
    OBVIOUS
  <1>1. /\ out \in Seq(Nat) /\ RingItems \in Seq(Nat) /\ Inbox \in Seq(Nat)
        /\ Len(RingItems) = tail - head
    BY InboxType, ItemsType DEF QueueIInv, QueueTypeOK
  <1>2. InLine(out, RingItems, Inbox, pushed, drops)
    BY DEF LineInv
  <1>3. PICK o \in Seq(Nat), r \in Seq(Nat), x \in Seq(Nat) :
          o = out /\ r = RingItems /\ x = Inbox
    BY <1>1
  <1>4. Rising(o) /\ pushed = (Len(o) + Len(r) + Len(x)) + drops
    BY <1>2, <1>3, LineFacts
  <1> QED
    BY <1>1, <1>3, <1>4 DEF OnceInOrder, Inbox, Rising

\* Whatever the interleaving of the loads and swaps, a value pushed comes out at
\* most once and after those pushed before it, and is accounted for until then.
THEOREM OnceInOrderHolds == SafeSpec => []OnceInOrder
  <1>1. SafeSpec => []LineInv
    BY LineInit, LineNext, QueueInvariant, PTL DEF SafeSpec
  <1> QED
    BY <1>1, QueueInvariant, LineIsOnce, PTL
-----------------------------------------------------------------------------
(***************************************************************************)
(* AuditLog                                                                *)
(***************************************************************************)
\* Entries are numbered from 1; no entry in the consumer's hand is 0.
Entries == Nat \ {0}
Held == {entry} \ {0}

LogShape ==
  /\ inbox \in Seq(Entries) /\ items \in Seq(Entries) /\ taken \in Seq(Entries)
  /\ file \in Seq(Nat) /\ dropped \in Nat /\ entry \in Nat
  /\ active \in BOOLEAN /\ qopen \in BOOLEAN
  /\ entry # 0 => cpc \in {"write", "migrate", "written", "stuck", "gone"}

\* Where Close and the consumer are tells what is closed.
LogPhase ==
  /\ cpc \notin {"done", "gone"} => qopen
  /\ cpc \in {"empty", "ending", "done"} => ~active
  /\ lpc \in {"none", "add", "off"} => active

\* What was due when Close began is in the file or on its way to it.
DueInv ==
  /\ ~active => due \subseteq Range(file) \cup Range(items) \cup Held
  /\ cpc \in {"ending", "done"} => due \subseteq Range(file)

LogIInv == LogShape /\ LogPhase /\ DueInv /\ CloseFlushes

LEMMA RangeAppend ==
  ASSUME NEW S, NEW s \in Seq(S), NEW e \in S PROVE Range(Append(s, e)) = Range(s) \cup {e}
  BY AppendProperties, LenProperties DEF Range

LEMMA RangeHeadTail ==
  ASSUME NEW S, NEW s \in Seq(S), s # <<>> PROVE Range(s) = {Head(s)} \cup Range(Tail(s))
  <1>1. /\ DOMAIN s = 1 .. Len(s) /\ Len(s) \in Nat \ {0} /\ Head(s) = s[1]
        /\ DOMAIN Tail(s) = 1 .. Len(s) - 1
        /\ \A i \in 1 .. Len(s) - 1 : Tail(s)[i] = s[i + 1]
    BY HeadTailProperties, LenProperties, EmptySeq
  <1>2. ASSUME NEW i \in 1 .. Len(s) PROVE s[i] \in {Head(s)} \cup Range(Tail(s))
    <2>1. CASE i # 1
      <3>1. i - 1 \in 1 .. Len(s) - 1 /\ (i - 1) + 1 = i
        BY <1>1, <1>2, <2>1
      <3>2. s[i] = Tail(s)[i - 1]
        BY <1>1, <3>1
      <3> QED
        BY <1>1, <3>1, <3>2 DEF Range
    <2> QED
      BY <1>1, <2>1
  <1>3. ASSUME NEW i \in 1 .. Len(s) - 1 PROVE Tail(s)[i] \in Range(s)
    <2>1. i + 1 \in 1 .. Len(s)
      BY <1>1, <1>3
    <2> QED
      BY <1>1, <1>3, <2>1 DEF Range
  <1>4. Head(s) \in Range(s)
    BY <1>1 DEF Range
  <1> QED
    BY <1>1, <1>2, <1>3, <1>4 DEF Range
-----------------------------------------------------------------------------
LEMMA LogInitIInv == LogInit => LogIInv
  <1> SUFFICES ASSUME LogInit PROVE LogIInv
    OBVIOUS
  <1>1. LogShape
    BY DEF LogInit, QInit, LogShape
  <1>2. LogPhase /\ DueInv /\ CloseFlushes
    BY DEF LogInit, LogPhase, DueInv, CloseFlushes
  <1> QED
    BY <1>1, <1>2 DEF LogIInv

\* The number of a new entry.
LEMMA PutShape ==
  ASSUME LogShape, PutEntry
  PROVE  inbox' \in Seq(Entries) /\ UNCHANGED <<items, taken, dropped>>
  <1>1. 1 + Len(inbox) + Len(items) + Len(taken) + dropped \in Entries
    <2>1. Len(inbox) \in Nat /\ Len(items) \in Nat /\ Len(taken) \in Nat /\ dropped \in Nat
      BY LenProperties DEF LogShape
    <2> QED
      BY <2>1 DEF Entries
  <1> QED
    BY <1>1, AppendProperties DEF PutEntry, Put, LogShape

\* What no property is about: entries that are put, and clients.
LEMMA PutIInv ==
  ASSUME LogIInv, PutEntry \/ UNCHANGED queueVars,
         UNCHANGED <<cpc, entry, file, active, qopen, lpc, due>>
  PROVE  LogIInv'
  <1>1. inbox' \in Seq(Entries) /\ UNCHANGED <<items, taken, dropped>>
    BY PutShape DEF LogIInv, LogShape, queueVars
  <1>2. LogShape'
    BY <1>1 DEF LogIInv, LogShape
  <1>3. LogPhase' /\ DueInv' /\ CloseFlushes'
    BY <1>1 DEF LogIInv, LogPhase, DueInv, CloseFlushes, Held
  <1> QED
    BY <1>2, <1>3 DEF LogIInv

LEMMA CrashIInv ==
  ASSUME LogIInv, Crash, UNCHANGED crashKeeps PROVE LogIInv'
  <1>1. LogShape'
    BY DEF LogIInv, LogShape, Crash, crashKeeps, queueVars
  <1>2. LogPhase' /\ CloseFlushes'
    BY DEF LogPhase, CloseFlushes, Crash
  <1>3. DueInv'
    BY DEF LogIInv, DueInv, Held, Crash, crashKeeps, queueVars
  <1> QED
    BY <1>1, <1>2, <1>3 DEF LogIInv

LEMMA ClientIInv ==
  ASSUME LogIInv, NEW c \in Clients, Enqueue(c) \/ PushEntry(c) \/ PushLate(c)
  PROVE  LogIInv'
  <1>1. CASE Enqueue(c) \/ PushEntry(c)
    BY <1>1, PutIInv DEF Enqueue, PushEntry, consumerVars, closeVars
  <1>2. CASE PushLate(c) /\ Crash
    BY <1>2, CrashIInv DEF PushLate
  <1>3. CASE PushLate(c) /\ ~Crash
    BY <1>3, PutIInv DEF PushLate, crashKeeps
  <1> QED
    BY <1>1, <1>2, <1>3

LEMMA QueueWorkerIInv == ASSUME LogIInv, QueueWorker PROVE LogIInv'
  <1>0. UNCHANGED <<cpc, entry, file, active, qopen, lpc, due, taken>>
    BY DEF QueueWorker, consumerVars, closeVars, Accept, Refuse
  <1>1. /\ inbox \in Seq(Entries) /\ inbox # <<>> /\ items \in Seq(Entries) /\ dropped \in Nat
    BY DEF QueueWorker, Accept, Refuse, LogIInv, LogShape
  <1>2. Head(inbox) \in Entries /\ Tail(inbox) \in Seq(Entries)
    BY <1>1, HeadTailProperties
  <1>3. /\ items' \in Seq(Entries) /\ Range(items) \subseteq Range(items')
        /\ inbox' \in Seq(Entries) /\ dropped' \in Nat
    <2>1. CASE Accept
      BY <1>1, <1>2, <2>1, AppendProperties, RangeAppend DEF Accept
    <2>2. CASE Refuse
      BY <1>1, <1>2, <2>2 DEF Refuse
    <2> QED
      BY <2>1, <2>2 DEF QueueWorker
  <1>4. LogShape'
    BY <1>0, <1>3 DEF LogIInv, LogShape
  <1>5. LogPhase' /\ CloseFlushes'
    BY <1>0 DEF LogIInv, LogPhase, CloseFlushes
  <1>6. DueInv'
    BY <1>0, <1>3 DEF LogIInv, DueInv, Held
  <1> QED
    BY <1>4, <1>5, <1>6 DEF LogIInv

LEMMA ConsumerIInv == ASSUME LogIInv, Consumer PROVE LogIInv'
  <1>1. CASE LoopTop
    <2>1. LogShape' /\ LogPhase' /\ CloseFlushes'
      BY <1>1 DEF LoopTop, LogIInv, LogShape, LogPhase, CloseFlushes, queueVars, closeVars
    <2>2. DueInv'
      BY <1>1 DEF LoopTop, LogIInv, LogPhase, DueInv, Held, queueVars, closeVars
    <2> QED
      BY <2>1, <2>2 DEF LogIInv
  <1>2. CASE LoopEmpty
    <2>1. LogShape' /\ LogPhase' /\ CloseFlushes'
      BY <1>2 DEF LoopEmpty, LogIInv, LogShape, LogPhase, CloseFlushes, queueVars, closeVars
    <2>2. UNCHANGED <<items, file, entry, active, due>> /\ cpc = "empty" /\ entry = 0
      BY <1>2 DEF LoopEmpty, LogIInv, LogShape, queueVars, closeVars
    <2>3. items = <<>> => Range(items) = {}
      BY DEF Range
    <2>4. DueInv'
      BY <1>2, <2>2, <2>3 DEF LoopEmpty, LogIInv, LogPhase, DueInv, Held
    <2> QED
      BY <2>1, <2>4 DEF LogIInv
  <1>3. CASE AwaitPop
    <2>1. /\ items \in Seq(Entries) /\ items # <<>> /\ entry = 0
          /\ entry' = Head(items) /\ items' = Tail(items) /\ cpc' = "write"
          /\ UNCHANGED <<inbox, dropped, file, active, qopen, lpc, due>>
      BY <1>3 DEF AwaitPop, TakeFirst, LogIInv, LogShape, closeVars
    <2>2. Head(items) \in Entries /\ Tail(items) \in Seq(Entries)
      BY <2>1, HeadTailProperties
    <2>3. taken' \in Seq(Entries)
      BY <1>3, <2>2, AppendProperties DEF AwaitPop, TakeFirst, LogIInv, LogShape
    <2>4. LogShape'
      BY <2>1, <2>2, <2>3 DEF LogIInv, LogShape, Entries
    <2>5. LogPhase' /\ CloseFlushes'
      BY <1>3, <2>1 DEF AwaitPop, LogIInv, LogPhase, CloseFlushes
    <2>6. Range(items) = {entry'} \cup Range(items') /\ entry' # 0
      BY <2>1, <2>2, RangeHeadTail DEF Entries
    <2>7. DueInv'
      BY <2>1, <2>6 DEF LogIInv, DueInv, Held
    <2> QED
      BY <2>4, <2>5, <2>7 DEF LogIInv
  <1>4. CASE Migrate
    <2>1. LogShape' /\ LogPhase' /\ CloseFlushes'
      BY <1>4 DEF Migrate, LogIInv, LogShape, LogPhase, CloseFlushes, queueVars, closeVars
    <2>2. DueInv'
      BY <1>4 DEF Migrate, LogIInv, DueInv, Held, queueVars, closeVars
    <2> QED
      BY <2>1, <2>2 DEF LogIInv
  <1>5. CASE MigrateWarn
    <2>1. inbox' \in Seq(Entries) /\ UNCHANGED <<items, taken, dropped>>
      BY <1>5, PutShape DEF MigrateWarn, LogIInv, LogShape, queueVars
    <2>2. LogShape' /\ LogPhase' /\ CloseFlushes'
      BY <1>5, <2>1 DEF MigrateWarn, LogIInv, LogShape, LogPhase, CloseFlushes, closeVars
    <2>3. DueInv'
      BY <1>5, <2>1 DEF MigrateWarn, LogIInv, DueInv, Held, closeVars
    <2> QED
      BY <2>2, <2>3 DEF LogIInv
  <1>6. CASE WriteEntry
    <2>1. /\ UNCHANGED <<inbox, items, taken, dropped, active, qopen, lpc, due>>
          /\ file' = Append(file, entry) /\ entry' = 0 /\ cpc' = "top"
          /\ file \in Seq(Nat) /\ entry \in Nat
      BY <1>6 DEF WriteEntry, LogIInv, LogShape, queueVars, closeVars
    <2>2. file' \in Seq(Nat) /\ Range(file') = Range(file) \cup {entry}
      BY <2>1, AppendProperties, RangeAppend
    <2>3. LogShape'
      BY <2>1, <2>2 DEF LogIInv, LogShape
    <2>4. LogPhase' /\ CloseFlushes'
      BY <1>6, <2>1, <2>2 DEF WriteEntry, LogIInv, LogPhase, CloseFlushes
    <2>5. DueInv'
      BY <2>1, <2>2 DEF LogIInv, DueInv, Held
    <2> QED
      BY <2>3, <2>4, <2>5 DEF LogIInv
  <1>7. CASE WriteError /\ active
    BY <1>7, CrashIInv DEF WriteError
  <1>8. CASE WriteError /\ ~active
    <2>1. LogShape' /\ LogPhase' /\ CloseFlushes'
      BY <1>8 DEF WriteError, LogIInv, LogShape, LogPhase, CloseFlushes, queueVars, crashKeeps
    <2>2. DueInv'
      BY <1>8 DEF WriteError, LogIInv, DueInv, Held, queueVars, crashKeeps
    <2> QED
      BY <2>1, <2>2 DEF LogIInv
  <1> QED
    BY <1>1, <1>2, <1>3, <1>4, <1>5, <1>6, <1>7, <1>8 DEF Consumer

LEMMA CloseIInv == ASSUME LogIInv, StartClose \/ CloseStep \/ Timeout PROVE LogIInv'
  <1>1. CASE StartClose \/ Timeout
    <2>1. LogShape' /\ LogPhase' /\ CloseFlushes'
      BY <1>1 DEF StartClose, Timeout, LogIInv, LogShape, LogPhase, CloseFlushes, queueVars,
                  consumerVars
    <2>2. DueInv'
      BY <1>1 DEF StartClose, Timeout, LogIInv, DueInv, Held, queueVars, consumerVars
    <2> QED
      BY <2>1, <2>2 DEF LogIInv
  <1>2. CASE AddClosing
    <2>1. inbox' \in Seq(Entries) /\ UNCHANGED <<items, taken, dropped>>
      BY <1>2, PutShape DEF AddClosing, LogIInv
    <2>2. LogShape' /\ LogPhase' /\ CloseFlushes'
      BY <1>2, <2>1 DEF AddClosing, LogIInv, LogShape, LogPhase, CloseFlushes, consumerVars
    <2>3. DueInv'
      BY <1>2, <2>1 DEF AddClosing, LogIInv, DueInv, Held, consumerVars
    <2> QED
      BY <2>2, <2>3 DEF LogIInv
  <1>3. CASE Deactivate
    <2>1. LogShape'
      BY <1>3 DEF Deactivate, LogIInv, LogShape, queueVars, consumerVars
    <2>2. LogPhase' /\ CloseFlushes'
      BY <1>3 DEF Deactivate, LogIInv, LogPhase, CloseFlushes, consumerVars
    <2>3. DueInv'
      BY <1>3 DEF Deactivate, LogIInv, LogPhase, DueInv, Held, queueVars, consumerVars
    <2> QED
      BY <2>1, <2>2, <2>3 DEF LogIInv
  <1>4. CASE Finish
    <2>1. LogShape' /\ LogPhase'
      BY <1>4 DEF Finish, LogIInv, LogShape, LogPhase, queueVars
    <2>2. DueInv' /\ CloseFlushes'
      BY <1>4 DEF Finish, LogIInv, LogPhase, DueInv, CloseFlushes, Held, queueVars
    <2> QED
      BY <2>1, <2>2 DEF LogIInv
  <1> QED
    BY <1>1, <1>2, <1>3, <1>4 DEF CloseStep

LEMMA LogNextIInv == LogIInv /\ [LogNext]_logVars => LogIInv'
  <1> SUFFICES ASSUME LogIInv, [LogNext]_logVars PROVE LogIInv'
    OBVIOUS
  <1>1. CASE UNCHANGED logVars
    BY <1>1, PutIInv DEF logVars, consumerVars, closeVars
  <1>2. CASE \E c \in Clients : Enqueue(c) \/ PushEntry(c) \/ PushLate(c)
    BY <1>2, ClientIInv
  <1> QED
    BY <1>1, <1>2, QueueWorkerIInv, ConsumerIInv, CloseIInv DEF LogNext

\* Every entry that was accepted and unwritten when Close unset active is in the
\* file, in the queue or in the consumer's hand, so a Close that ended without an
\* error, whose consumer said it found nothing more, left none behind.
THEOREM CloseFlushesHolds == LogSpec => []CloseFlushes
  <1>1. LogIInv => CloseFlushes
    BY DEF LogIInv
  <1> QED
    BY <1>1, LogInitIInv, LogNextIInv, PTL DEF LogSpec
-----------------------------------------------------------------------------
\* What the consumer popped is in the file or in its hand, and it has something in
\* its hand when it is about to write.
HeldSeq == IF entry = 0 THEN <<>> ELSE <<entry>>

HoldInv ==
  /\ taken = file \o HeldSeq
  /\ cpc \in {"write", "migrate", "written"} => entry # 0

\* The numbers of the entries, from the channel to the file.
LogLineInv == \E n \in Nat : InLine(taken, items, inbox, n, dropped)

LEMMA LogTypes ==
  ASSUME LogIInv
  PROVE  /\ taken \in Seq(Nat) /\ items \in Seq(Nat) /\ inbox \in Seq(Nat) /\ file \in Seq(Nat)
         /\ dropped \in Nat /\ entry \in Nat
  BY DEF LogIInv, LogShape, Entries

LEMMA LogQueueSteps ==
  ASSUME [LogNext]_logVars
  PROVE  PutEntry \/ Accept \/ Refuse \/ TakeFirst \/ UNCHANGED queueVars
  BY DEF LogNext, logVars, QueueWorker, Consumer, LoopTop, LoopEmpty, AwaitPop, Migrate,
         MigrateWarn, WriteEntry, WriteError, StartClose, CloseStep, AddClosing, Deactivate, Finish,
         Timeout, Enqueue, PushEntry, PushLate, crashKeeps

LEMMA LogLineNext == LogIInv /\ LogLineInv /\ [LogNext]_logVars => LogLineInv'
  <1> SUFFICES ASSUME LogIInv, LogLineInv, [LogNext]_logVars PROVE LogLineInv'
    OBVIOUS
  <1>1. PICK n \in Nat : InLine(taken, items, inbox, n, dropped)
    BY DEF LogLineInv
  <1>0. PICK o \in Seq(Nat), r \in Seq(Nat), x \in Seq(Nat), d \in Nat :
          o = taken /\ r = items /\ x = inbox /\ d = dropped
    BY LogTypes
  <1>2. InLine(o, r, x, n, d)
    BY <1>0, <1>1
  <1>3. CASE PutEntry
    <2>1. n = (Len(o) + Len(r) + Len(x)) + d
      BY <1>2, LineFacts
    <2>2. Len(o) \in Nat /\ Len(r) \in Nat /\ Len(x) \in Nat
      BY LenProperties
    <2>3. 1 + Len(x) + Len(r) + Len(o) + d = n + 1
      BY <2>1, <2>2
    <2>4. inbox' = Append(x, n + 1) /\ taken' = o /\ items' = r /\ dropped' = d
      BY <1>0, <1>3, <2>3 DEF PutEntry, Put
    <2>5. InLine(o, r, Append(x, n + 1), n + 1, d)
      BY <1>2, LinePut
    <2>6. n + 1 \in Nat /\ InLine(taken', items', inbox', n + 1, dropped')
      BY <2>4, <2>5
    <2> QED
      BY <2>6 DEF LogLineInv
  <1>4. CASE Accept
    <2>1. /\ x # <<>> /\ inbox' = Tail(x) /\ items' = Append(r, Head(x)) /\ taken' = o
          /\ dropped' = d
      BY <1>0, <1>4 DEF Accept
    <2>2. InLine(o, Append(r, Head(x)), Tail(x), n, d)
      BY <1>2, <2>1, LineAccept
    <2>3. InLine(taken', items', inbox', n, dropped')
      BY <2>1, <2>2
    <2> QED
      BY <2>3 DEF LogLineInv
  <1>5. CASE Refuse
    <2>1. x # <<>> /\ inbox' = Tail(x) /\ items' = r /\ taken' = o /\ dropped' = d + 1
      BY <1>0, <1>5 DEF Refuse
    <2>2. InLine(o, r, Tail(x), n, d + 1)
      BY <1>2, <2>1, LineRefuse
    <2>3. InLine(taken', items', inbox', n, dropped')
      BY <2>1, <2>2
    <2> QED
      BY <2>3 DEF LogLineInv
  <1>6. CASE TakeFirst
    <2>1. /\ r # <<>> /\ items' = Tail(r) /\ inbox' = x /\ taken' = Append(o, Head(r))
          /\ dropped' = d
      BY <1>0, <1>6 DEF TakeFirst
    <2>2. InLine(Append(o, Head(r)), Tail(r), x, n, d)
      BY <1>2, <2>1, LineTake
    <2>3. InLine(taken', items', inbox', n, dropped')
      BY <2>1, <2>2
    <2> QED
      BY <2>3 DEF LogLineInv
  <1>7. CASE UNCHANGED queueVars
    BY <1>7 DEF LogLineInv, queueVars
  <1> QED
    BY <1>3, <1>4, <1>5, <1>6, <1>7, LogQueueSteps

LEMMA HoldNext == LogIInv /\ HoldInv /\ [LogNext]_logVars => HoldInv'
  <1> SUFFICES ASSUME LogIInv, HoldInv, [LogNext]_logVars PROVE HoldInv'
    OBVIOUS
  <1>1. CASE AwaitPop
    <2>1. /\ entry = 0 /\ file \in Seq(Nat) /\ taken = file \o <<>> /\ file' = file
          /\ items \in Seq(Entries) /\ items # <<>>
          /\ entry' = Head(items) /\ taken' = Append(taken, entry')
      BY <1>1 DEF AwaitPop, TakeFirst, LogIInv, LogShape, HoldInv, HeldSeq
    <2>2. entry' \in Nat /\ entry' # 0
      BY <2>1, HeadTailProperties DEF Entries
    <2>3. taken = file
      BY <2>1, ConcatEmptySeq
    <2>4. taken' = file \o <<entry'>>
      BY <2>1, <2>2, <2>3, AppendIsConcat
    <2> QED
      BY <2>1, <2>2, <2>4 DEF HoldInv, HeldSeq
  <1>2. CASE WriteEntry
    <2>1. /\ entry # 0 /\ entry \in Nat /\ file \in Seq(Nat) /\ taken = file \o <<entry>>
          /\ file' = Append(file, entry) /\ entry' = 0 /\ taken' = taken /\ cpc' = "top"
      BY <1>2 DEF WriteEntry, LogIInv, LogShape, HoldInv, HeldSeq, queueVars
    <2>2. file' \in Seq(Nat) /\ taken' = file'
      BY <2>1, AppendProperties, AppendIsConcat
    <2>3. taken' = file' \o <<>>
      BY <2>2, ConcatEmptySeq
    <2> QED
      BY <2>1, <2>3 DEF HoldInv, HeldSeq
  <1>3. CASE ~AwaitPop /\ ~WriteEntry
    <2>1. /\ taken' = taken /\ file' = file /\ entry' = entry
          /\ \/ cpc' = cpc
             \/ cpc' \notin {"write", "migrate", "written"}
             \/ cpc \in {"write", "migrate", "written"}
      BY <1>3 DEF LogNext, logVars, QueueWorker, Consumer, LoopTop, LoopEmpty, Migrate,
         MigrateWarn, WriteError, StartClose, CloseStep, AddClosing, Deactivate, Finish,
         Timeout, Enqueue, PushEntry, PushLate, Crash, crashKeeps, queueVars, consumerVars,
         closeVars, PutEntry, Put, Accept, Refuse
    <2> QED
      BY <2>1 DEF HoldInv, HeldSeq
  <1> QED
    BY <1>1, <1>2, <1>3

LEMMA LogOrderInit == LogInit => HoldInv /\ LogLineInv
  <1> SUFFICES ASSUME LogInit PROVE HoldInv /\ LogLineInv
    OBVIOUS
  <1>1. /\ taken = <<>> /\ items = <<>> /\ inbox = <<>> /\ file = <<>> /\ dropped = 0
        /\ entry = 0 /\ cpc = "top"
    BY DEF LogInit, QInit
  <1>2. <<>> \o <<>> = <<>>
    OBVIOUS
  <1>3. HoldInv
    BY <1>1, <1>2 DEF HoldInv, HeldSeq
  <1>4. InLine(taken, items, inbox, 0, dropped)
    BY <1>1, LineEmpty
  <1> QED
    BY <1>3, <1>4 DEF LogLineInv

\* The file has what the consumer popped, but for the entry in its hand, and has
\* it in the order in which the channel took it, no entry twice.
WrittenInOrder == Rising(file) /\ taken = file \o HeldSeq

LEMMA HoldIsOrder == LogIInv /\ HoldInv /\ LogLineInv => WrittenInOrder
  <1> SUFFICES ASSUME LogIInv, HoldInv, LogLineInv PROVE WrittenInOrder
    OBVIOUS
  <1>1. PICK n \in Nat : InLine(taken, items, inbox, n, dropped)
    BY DEF LogLineInv
  <1>2. PICK o \in Seq(Nat), r \in Seq(Nat), x \in Seq(Nat), f \in Seq(Nat), h \in Seq(Nat) :
          o = taken /\ r = items /\ x = inbox /\ f = file /\ h = HeldSeq
    <2>1. HeldSeq \in Seq(Nat)
      <3>1. entry \in Nat
        BY LogTypes
      <3>2. <<entry>> \in Seq(Nat) /\ <<>> \in Seq(Nat)
        BY <3>1
      <3> QED
        BY <3>2 DEF HeldSeq
    <2> QED
      BY <2>1, LogTypes
  <1>3. Rising(o)
    BY <1>1, <1>2, LineFacts
  <1>4. o = f \o h
    BY <1>2 DEF HoldInv
  <1>5. Len(f) \in Nat /\ Len(h) \in Nat
    BY LenProperties
  <1>6. ASSUME NEW i \in 1 .. Len(f) PROVE i \in 1 .. Len(o) /\ o[i] = f[i]
    <2>1. i \in 1 .. Len(f) + Len(h) /\ i <= Len(f)
      BY <1>5, <1>6
    <2> QED
      BY <1>4, <2>1, ConcatProperties
  <1>7. Rising(f)
    BY <1>3, <1>6 DEF Rising
  <1> QED
    BY <1>2, <1>7 DEF WrittenInOrder, HoldInv, Rising

\* However logging, the queue's worker, the consumer and Close interleave, the
\* consumer writes what it pops once, in the order of the log, whatever is dropped.
THEOREM WrittenInOrderHolds == LogSpec => []WrittenInOrder
  <1>1. LogSpec => []LogIInv
    BY LogInitIInv, LogNextIInv, PTL DEF LogSpec
  <1>2. LogSpec => [](HoldInv /\ LogLineInv)
    BY <1>1, LogOrderInit, HoldNext, LogLineNext, PTL DEF LogSpec
  <1> QED
    BY <1>1, <1>2, HoldIsOrder, PTL
=============================================================================
