--------------------------- MODULE PollStoreProofs ---------------------------
(***************************************************************************)
(* Proofs about PollStore for every set of polls, titles and handlers:     *)
(* type correctness, that a request that was answered holds for readers,   *)
(* that a Drop that is under way uncovers nothing, that a walk over the    *)
(* pages misses and repeats no more than left and joined the list, and     *)
(* that an export has the rows it should.                                  *)
(***************************************************************************)
EXTENDS PollStore, SequenceTheorems, FiniteSetTheorems, TLAPS

\* The tables a request has to reach for its answer to hold of a poll: what
\* it adds to `manual` shadows the other one.
Concerned(a, id) ==
  IF a.do = "row" /\ a.on[id] # NoRow THEN {"manual"} ELSE {"manual", "results"}

Touches(st, t, id) == st.table = t /\ id \in DOMAIN st.on

\* What request a leaves in the row of a poll.
Effect(a, id, row) ==
  CASE a.do = "row" -> row = a.on[id]
    [] a.do = "active" -> row # NoRow => row.active = a.on[id]
    [] a.do = "title" -> row # NoRow => row.override = a.on[id]

\* Of the statements q that are left to a, the last one that reaches the poll
\* does what a asks for; if none is left, it is done.
Settled(q, a, id, t, row) ==
  IF \E i \in 1 .. Len(q) : Touches(q[i], t, id)
    THEN \E i \in 1 .. Len(q) :
           /\ Touches(q[i], t, id) /\ q[i].do = a.do /\ q[i].on[id] = a.on[id]
           /\ \A j \in 1 .. Len(q) : j > i => ~ Touches(q[j], t, id)
    ELSE Effect(a, id, row)

\* The statements q that are left to a are about what a is about, and the
\* manual rows are deleted last.
Shape(q, a) ==
  \A i \in 1 .. Len(q) :
    /\ q[i].do = a.do
    /\ a.do = "row" => /\ q[i].on = a.on
                       /\ q[i].table = "manual" => i = Len(q)

Val(t) == IF t = "manual" THEN manual ELSE results

ShapeInv == \A h \in Handlers : asked[h] # NoRequest => Shape(todo[h], asked[h])

TakeInv ==
  \A h \in Handlers : asked[h] # NoRequest /\ answer[h] # "error" =>
    \A id \in DOMAIN asked[h].on \ clash[h] : \A t \in Concerned(asked[h], id) :
      Settled(todo[h], asked[h], id, t, Val(t)[id])

IInv == TypeOK /\ ShapeInv /\ TakeInv
-----------------------------------------------------------------------------
(***************************************************************************)
(* Statements                                                              *)
(***************************************************************************)
LEMMA StatementIs ==
  ASSUME NEW t \in {"manual", "results"}, NEW do \in Kinds, NEW ids \in SUBSET Ids,
         NEW on \in [ids -> To(do)]
  PROVE  /\ on \in On(do) /\ DOMAIN on = ids
         /\ Statement(t, do, on) \in Statements
         /\ Statement(t, do, on).table = t
         /\ Statement(t, do, on).do = do
         /\ Statement(t, do, on).on = on
  <1>1. on \in On(do)
    BY DEF On
  <1>2. Statement(t, do, on) \in [table : {"manual", "results"}, do : {do}, on : On(do)]
    BY <1>1 DEF Statement
  <1> QED
    BY <1>1, <1>2 DEF Statement, Statements

LEMMA RequestIs ==
  ASSUME NEW do \in Kinds, NEW on \in On(do)
  PROVE  [do |-> do, on |-> on] \in Requests
  <1>1. [do |-> do, on |-> on] \in [do : {do}, on : On(do)]
    OBVIOUS
  <1> QED
    BY <1>1 DEF Requests

LEMMA OnParts ==
  ASSUME NEW do, NEW on \in On(do)
  PROVE  DOMAIN on \subseteq Ids /\ \A id \in DOMAIN on : on[id] \in To(do)
  BY DEF On

LEMMA StatementParts ==
  ASSUME NEW st \in Statements
  PROVE  /\ st.table \in {"manual", "results"} /\ st.do \in Kinds
         /\ DOMAIN st.on \subseteq Ids /\ \A id \in DOMAIN st.on : st.on[id] \in To(st.do)
  <1>1. PICK do \in Kinds : st \in [table : {"manual", "results"}, do : {do}, on : On(do)]
    BY DEF Statements
  <1>2. st.do = do /\ st.table \in {"manual", "results"} /\ st.on \in On(do)
    BY <1>1
  <1> QED
    BY <1>2, OnParts

LEMMA RequestParts ==
  ASSUME NEW a \in Requests
  PROVE  /\ a.do \in Kinds /\ a.on \in On(a.do)
         /\ DOMAIN a.on \subseteq Ids /\ \A id \in DOMAIN a.on : a.on[id] \in To(a.do)
  <1>1. PICK do \in Kinds : a \in [do : {do}, on : On(do)]
    BY DEF Requests
  <1>2. a.do = do /\ a.on \in On(do)
    BY <1>1
  <1> QED
    BY <1>2, OnParts

LEMMA UpdateIs ==
  ASSUME NEW row \in Row \cup {NoRow}, NEW do \in Kinds, NEW to \in To(do)
  PROVE  /\ do = "row" => Update(row, do, to) = to
         /\ do # "row" /\ row = NoRow => Update(row, do, to) = NoRow
         /\ do = "active" /\ row # NoRow => Update(row, do, to) = [row EXCEPT !.active = to]
         /\ do = "title" /\ row # NoRow => Update(row, do, to) = [row EXCEPT !.override = to]
  BY DEF Update, Kinds

LEMMA UpdateType ==
  ASSUME NEW row \in Row \cup {NoRow}, NEW do \in Kinds, NEW to \in To(do)
  PROVE  Update(row, do, to) \in Row \cup {NoRow}
  <1>1. CASE do = "row"
    BY <1>1, UpdateIs DEF To
  <1>2. CASE do = "active"
    <2>1. to \in BOOLEAN
      BY <1>2 DEF To
    <2> QED
      BY <1>2, <2>1, UpdateIs DEF Row
  <1>3. CASE do = "title"
    <2>1. to \in Titles \cup {NoTitle}
      BY <1>3 DEF To
    <2> QED
      BY <1>3, <2>1, UpdateIs DEF Row
  <1> QED
    BY <1>1, <1>2, <1>3 DEF Kinds

\* A statement takes effect on the table it names only, and never empties a
\* row unless it deletes it.
LEMMA ApplyType ==
  ASSUME NEW table \in Table, NEW st \in Statements
  PROVE  /\ Apply(table, st) \in Table
         /\ \A id \in Ids : table[id] # NoRow /\ Apply(table, st)[id] = NoRow =>
              id \in DOMAIN st.on /\ st.do = "row" /\ st.on[id] = NoRow
  <1> SUFFICES ASSUME NEW id \in Ids
               PROVE  /\ Apply(table, st)[id] \in Row \cup {NoRow}
                      /\ table[id] # NoRow /\ Apply(table, st)[id] = NoRow =>
                           id \in DOMAIN st.on /\ st.do = "row" /\ st.on[id] = NoRow
    BY DEF Apply, Table
  <1>1. Apply(table, st)[id] =
          IF id \in DOMAIN st.on THEN Update(table[id], st.do, st.on[id]) ELSE table[id]
    BY DEF Apply
  <1>2. table[id] \in Row \cup {NoRow}
    BY DEF Table
  <1>3. CASE id \notin DOMAIN st.on
    BY <1>1, <1>2, <1>3
  <1>4. CASE id \in DOMAIN st.on
    <2>1. st.do \in Kinds /\ st.on[id] \in To(st.do)
      BY <1>4, StatementParts
    <2>2. Update(table[id], st.do, st.on[id]) \in Row \cup {NoRow}
      BY <1>2, <2>1, UpdateType
    <2>3. CASE st.do = "row"
      BY <1>1, <1>2, <1>4, <2>1, <2>2, <2>3, UpdateIs
    <2>4. CASE st.do # "row" /\ table[id] # NoRow
      <3>1. st.do \in {"active", "title"}
        BY <2>1, <2>4 DEF Kinds
      <3>2. Update(table[id], st.do, st.on[id]) \in Row
        BY <1>2, <2>1, <2>4, <3>1, UpdateIs DEF Row, To
      <3> QED
        BY <1>1, <1>4, <2>2, <3>2, StoreAssumption
    <2> QED
      BY <1>1, <1>4, <2>2, <2>3, <2>4
  <1> QED
    BY <1>3, <1>4
-----------------------------------------------------------------------------
(***************************************************************************)
(* What a request begins with: its statements leave what it asks for.      *)
(***************************************************************************)
\* Whatever the rows are when the statements begin.
Plan(q, a) ==
  /\ q \in Seq(Statements) /\ q # <<>> /\ Shape(q, a)
  /\ \A id \in DOMAIN a.on : \A t \in Concerned(a, id) : \A row :
       Settled(q, a, id, t, row)

LEMMA PairPlan ==
  ASSUME NEW do \in Kinds, NEW ids \in SUBSET Ids, NEW on \in [ids -> To(do)],
         NEW t1 \in {"manual", "results"}, NEW t2 \in {"manual", "results"}, t1 # t2,
         do = "row" => t2 = "manual"
  PROVE  Plan(<<Statement(t1, do, on), Statement(t2, do, on)>>, [do |-> do, on |-> on])
  <1> DEFINE q == <<Statement(t1, do, on), Statement(t2, do, on)>>
             a == [do |-> do, on |-> on]
  <1>1. /\ q \in Seq(Statements) /\ Len(q) = 2 /\ q # <<>>
        /\ q[1].table = t1 /\ q[1].do = do /\ q[1].on = on
        /\ q[2].table = t2 /\ q[2].do = do /\ q[2].on = on
    BY StatementIs
  <1>2. a.do = do /\ a.on = on
    OBVIOUS
  <1> HIDE DEF q, a
  <1>3. Shape(q, a)
    BY <1>1, <1>2 DEF Shape
  <1>4. ASSUME NEW id \in DOMAIN a.on, NEW t \in Concerned(a, id), NEW row
        PROVE  Settled(q, a, id, t, row)
    <2>1. t \in {"manual", "results"}
      BY DEF Concerned
    <2>2. CASE t = t1
      <3>1. Touches(q[1], t, id) /\ ~ Touches(q[2], t, id)
        BY <1>1, <1>2, <2>2 DEF Touches
      <3> QED
        BY <1>1, <1>2, <3>1 DEF Settled
    <2>3. CASE t = t2
      <3>1. Touches(q[2], t, id)
        BY <1>1, <1>2, <2>3 DEF Touches
      <3> QED
        BY <1>1, <1>2, <3>1 DEF Settled
    <2> QED
      BY <2>1, <2>2, <2>3
  <1> QED
    BY <1>1, <1>3, <1>4 DEF Plan, q, a

LEMMA AddPlan ==
  ASSUME NEW ids \in SUBSET Ids, NEW on \in [ids -> Row]
  PROVE  Plan(<<Statement("manual", "row", on)>>, [do |-> "row", on |-> on])
  <1> DEFINE q == <<Statement("manual", "row", on)>>
             a == [do |-> "row", on |-> on]
  <1>0. on \in [ids -> To("row")] /\ "row" \in Kinds
    BY DEF To, Kinds
  <1>1. /\ q \in Seq(Statements) /\ Len(q) = 1 /\ q # <<>>
        /\ q[1].table = "manual" /\ q[1].do = "row" /\ q[1].on = on
    BY <1>0, StatementIs
  <1>2. a.do = "row" /\ a.on = on
    OBVIOUS
  <1> HIDE DEF q, a
  <1>3. Shape(q, a)
    BY <1>1, <1>2 DEF Shape
  <1>4. ASSUME NEW id \in DOMAIN a.on, NEW t \in Concerned(a, id), NEW row
        PROVE  Settled(q, a, id, t, row)
    <2>1. a.on[id] \in Row
      BY <1>2
    <2>2. t = "manual"
      BY <1>2, <2>1, StoreAssumption DEF Concerned
    <2>3. Touches(q[1], t, id)
      BY <1>1, <1>2, <2>2 DEF Touches
    <2> QED
      BY <1>1, <1>2, <2>3 DEF Settled
  <1> QED
    BY <1>1, <1>3, <1>4 DEF Plan, q, a

ActivePair(p, flag, ids) ==
  /\ p \in Seq(Statements) /\ Len(p) = IF ids = {} THEN 0 ELSE 2
  /\ \A k \in 1 .. Len(p) :
       /\ p[k].table = IF k = 1 THEN "manual" ELSE "results"
       /\ p[k].do = "active"
       /\ DOMAIN p[k].on = ids /\ \A id \in ids : p[k].on[id] = flag

LEMMA ActiveStatements ==
  ASSUME NEW flag \in BOOLEAN, NEW ids \in SUBSET Ids
  PROVE  ActivePair(SetActiveIn(flag, ids), flag, ids)
  <1> DEFINE f == [id \in ids |-> flag]
             p == SetActiveIn(flag, ids)
  <1>1. CASE ids = {}
    BY <1>1 DEF SetActiveIn, ActivePair
  <1>2. CASE ids # {}
    <2>1. p = <<Statement("manual", "active", f), Statement("results", "active", f)>>
      BY <1>2 DEF SetActiveIn
    <2>2. f \in [ids -> To("active")] /\ "active" \in Kinds
      BY DEF To, Kinds
    <2>3. DOMAIN f = ids /\ \A id \in ids : f[id] = flag
      OBVIOUS
    <2> HIDE DEF f, p
    <2>4. /\ Statement("manual", "active", f) \in Statements
          /\ Statement("results", "active", f) \in Statements
      BY <2>2, StatementIs
    <2>5. p \in Seq(Statements) /\ Len(p) = 2
      BY <2>1, <2>4
    <2>6. /\ p[1].table = "manual" /\ p[1].do = "active" /\ p[1].on = f
          /\ p[2].table = "results" /\ p[2].do = "active" /\ p[2].on = f
      BY <2>1 DEF Statement
    <2>7. ActivePair(p, flag, ids)
      BY <1>2, <2>3, <2>5, <2>6 DEF ActivePair
    <2> QED
      BY <2>7 DEF p
  <1> QED
    BY <1>1, <1>2

\* A poll named on both lists of a request ends up active.
LEMMA ActivePlan ==
  ASSUME NEW ids \in SUBSET Ids, NEW act \in SUBSET Ids, ids \cup act # {}
  PROVE  Plan(SetActiveIn(FALSE, ids) \o SetActiveIn(TRUE, act),
              [do |-> "active", on |-> [id \in ids \cup act |-> id \in act]])
  <1>a. PICK on : on = [id \in ids \cup act |-> id \in act]
    OBVIOUS
  <1>b. PICK a : a = [do |-> "active", on |-> on]
    OBVIOUS
  <1>c. PICK p : p = SetActiveIn(FALSE, ids)
    OBVIOUS
  <1>d. PICK r : r = SetActiveIn(TRUE, act)
    OBVIOUS
  <1>e. PICK q : q = p \o r
    OBVIOUS
  <1>1. ActivePair(p, FALSE, ids)
    BY <1>c, ActiveStatements
  <1>2. ActivePair(r, TRUE, act)
    BY <1>d, ActiveStatements
  <1>3. a.do = "active" /\ a.on = on /\ DOMAIN on = ids \cup act
    BY <1>a, <1>b
  <1>4. \A id \in ids \cup act : on[id] = (id \in act)
    BY <1>a
  <1>5. /\ q \in Seq(Statements) /\ Len(q) = Len(p) + Len(r)
        /\ \A i \in 1 .. Len(q) : q[i] = IF i <= Len(p) THEN p[i] ELSE r[i - Len(p)]
    <2>1. p \in Seq(Statements) /\ r \in Seq(Statements)
      BY <1>1, <1>2 DEF ActivePair
    <2> QED
      BY <1>e, <2>1, ConcatProperties
  <1> USE DEF ActivePair
  <1>6. Len(q) \in {2, 4} /\ q # <<>>
    <2>1. Len(q) \in {2, 4}
      BY <1>1, <1>2, <1>5
    <2> QED
      BY <1>5, <2>1, EmptySeq
  <1>7. Shape(q, a)
    BY <1>1, <1>2, <1>3, <1>5 DEF Shape
  <1>8. ASSUME NEW id \in DOMAIN a.on, NEW t \in Concerned(a, id), NEW row
        PROVE  Settled(q, a, id, t, row)
    <2>1. t \in {"manual", "results"} /\ id \in ids \cup act
      BY <1>3 DEF Concerned
    <2> DEFINE k == IF t = "manual" THEN 1 ELSE 2
    <2>2. CASE id \in act
      <3>1. Len(r) = 2 /\ Len(p) \in {0, 2} /\ r[k].table = t /\ r[k].do = "active" /\ r[k].on[id] = TRUE
            /\ id \in DOMAIN r[k].on
        BY <1>1, <1>2, <2>1, <2>2
      <3>2. Len(p) + k \in 1 .. Len(q) /\ q[Len(p) + k] = r[k]
        BY <1>5, <3>1
      <3>3. ASSUME NEW j \in 1 .. Len(q), j > Len(p) + k PROVE ~ Touches(q[j], t, id)
        <4>1. k = 1 /\ j = Len(p) + 2
          BY <1>5, <3>1, <3>3
        <4>2. q[j] = r[2]
          BY <1>5, <3>1, <4>1
        <4> QED
          BY <1>2, <2>1, <2>2, <4>1, <4>2 DEF Touches
      <3>4. on[id] = TRUE
        BY <1>4, <2>1, <2>2
      <3>5. Touches(q[Len(p) + k], t, id)
        BY <3>1, <3>2 DEF Touches
      <3> HIDE DEF k
      <3> QED
        BY <1>3, <3>1, <3>2, <3>3, <3>4, <3>5 DEF Settled
    <2>3. CASE id \notin act
      <3>1. Len(p) = 2 /\ p[k].table = t /\ p[k].do = "active" /\ p[k].on[id] = FALSE
            /\ id \in DOMAIN p[k].on
        BY <1>1, <2>1, <2>3
      <3>2. k \in 1 .. Len(q) /\ q[k] = p[k]
        BY <1>2, <1>5, <3>1
      <3>3. ASSUME NEW j \in 1 .. Len(q), j > k PROVE ~ Touches(q[j], t, id)
        <4>1. CASE j = 2
          <5>0. k = 1 /\ t = "manual"
            BY <2>1, <3>3, <4>1
          <5>2. p[2].table = "results"
            <6>1. 2 \in 1 .. Len(p) /\ 2 # 1
              BY <3>1
            <6> QED
              BY <1>1, <6>1
          <5>3. q[2] = p[2]
            BY <1>5, <3>1, <4>1
          <5>1. q[j] = p[2] /\ p[2].table = "results"
            BY <4>1, <5>2, <5>3
          <5> QED
            BY <5>0, <5>1 DEF Touches
        <4>2. CASE j # 2
          <5>0. Len(r) \in {0, 2} /\ k \in {1, 2}
            BY <1>2
          <5>1. j - 2 \in 1 .. Len(r) /\ q[j] = r[j - 2]
            BY <1>5, <3>1, <3>3, <4>2, <5>0
          <5>2. DOMAIN q[j].on = act
            BY <1>2, <5>1
          <5> QED
            BY <2>3, <5>2 DEF Touches
        <4> QED
          BY <4>1, <4>2
      <3>4. on[id] = FALSE
        <4>1. on[id] = (id \in act)
          BY <1>4, <2>1
        <4>2. (id \in act) = FALSE
          BY <2>3
        <4> QED
          BY <4>1, <4>2, Zenon
      <3>5. Touches(q[k], t, id)
        BY <3>1, <3>2 DEF Touches
      <3> HIDE DEF k
      <3> QED
        BY <1>3, <3>1, <3>2, <3>3, <3>4, <3>5 DEF Settled
    <2> QED
      BY <2>2, <2>3
  <1> QED
    BY <1>a, <1>b, <1>c, <1>d, <1>e, <1>5, <1>6, <1>7, <1>8 DEF Plan

LEMMA RequestBegins ==
  ASSUME NEW h \in Handlers, Request(h)
  PROVE  \E do \in Kinds : \E on \in On(do) : \E q :
           Begin(h, do, on, q) /\ Plan(q, [do |-> do, on |-> on])
  <1>0. Batches \subseteq SUBSET Ids
    BY StoreAssumption
  <1>1. ASSUME NEW ids \in Batches \cup {{}}, NEW act \in Batches \cup {{}}, SetActive(h, ids, act)
        PROVE  \E do \in Kinds : \E on \in On(do) : \E q :
                 Begin(h, do, on, q) /\ Plan(q, [do |-> do, on |-> on])
    <2> DEFINE on == [id \in ids \cup act |-> id \in act]
               q == SetActiveIn(FALSE, ids) \o SetActiveIn(TRUE, act)
    <2>1. ids \in SUBSET Ids /\ act \in SUBSET Ids
      BY <1>0
    <2>2. "active" \in Kinds /\ on \in On("active")
      <3>1. on \in [ids \cup act -> To("active")]
        BY DEF To
      <3> QED
        BY <2>1, <3>1 DEF On, Kinds
    <2>3. Begin(h, "active", on, q) /\ ids \cup act # {}
      BY <1>1 DEF SetActive
    <2>4. Plan(q, [do |-> "active", on |-> on])
      BY <2>1, <2>3, ActivePlan
    <2> HIDE DEF on, q
    <2> QED
      BY <2>2, <2>3, <2>4
  <1>2. ASSUME NEW ids \in Batches, NEW on \in [ids -> Titles \cup {NoTitle}], SetTitle(h, on)
        PROVE  \E do \in Kinds : \E f \in On(do) : \E q :
                 Begin(h, do, f, q) /\ Plan(q, [do |-> do, on |-> f])
    <2>1. ids \in SUBSET Ids /\ "title" \in Kinds /\ on \in [ids -> To("title")]
      BY <1>0 DEF Kinds, To
    <2>2. Begin(h, "title", on, SetTitleOverride(on)) /\ on \in On("title")
      BY <1>2, <2>1 DEF SetTitle, On
    <2>3. Plan(SetTitleOverride(on), [do |-> "title", on |-> on])
      BY <2>1, PairPlan DEF SetTitleOverride
    <2> QED
      BY <2>1, <2>2, <2>3
  <1>3. ASSUME NEW ids \in Batches, DropPolls(h, ids)
        PROVE  \E do \in Kinds : \E on \in On(do) : \E q :
                 Begin(h, do, on, q) /\ Plan(q, [do |-> do, on |-> on])
    <2> DEFINE on == [id \in ids |-> NoRow]
    <2>1. ids \in SUBSET Ids /\ "row" \in Kinds /\ on \in [ids -> To("row")]
      BY <1>0 DEF Kinds, To
    <2>2. Begin(h, "row", on, Drop(ids)) /\ on \in On("row")
      BY <1>3, <2>1 DEF DropPolls, On
    <2>3. Plan(Drop(ids), [do |-> "row", on |-> on])
      BY <2>1, PairPlan DEF Drop
    <2> HIDE DEF on
    <2> QED
      BY <2>1, <2>2, <2>3
  <1>4. ASSUME NEW ids \in Batches, NEW titles \in [ids -> Titles], AddPolls(h, titles)
        PROVE  \E do \in Kinds : \E on \in On(do) : \E q :
                 Begin(h, do, on, q) /\ Plan(q, [do |-> do, on |-> on])
    <2> DEFINE on == ManualRows(titles)
    <2>1. ids \in SUBSET Ids /\ "row" \in Kinds /\ on \in [ids -> Row]
      BY <1>0 DEF Kinds, ManualRows, Row
    <2>2. on \in [ids -> To("row")]
      BY <2>1 DEF To
    <2>3. Begin(h, "row", on, <<Statement("manual", "row", on)>>) /\ on \in On("row")
      BY <1>4, <2>1, <2>2 DEF AddPolls, On
    <2>4. Plan(<<Statement("manual", "row", on)>>, [do |-> "row", on |-> on])
      BY <2>1, AddPlan
    <2> HIDE DEF on
    <2> QED
      BY <2>1, <2>3, <2>4
  <1> QED
    BY <1>1, <1>2, <1>3, <1>4 DEF Request
-----------------------------------------------------------------------------
(***************************************************************************)
(* Type correctness                                                        *)
(***************************************************************************)
LEMMA ListedFinite ==
  /\ Listed(FALSE) \subseteq Ids /\ Listed(FALSE)' \subseteq Ids
  /\ Cardinality(Listed(FALSE) \ Listed(FALSE)') \in Nat
  /\ Cardinality(Listed(FALSE)' \ Listed(FALSE)) \in Nat
  <1>1. Listed(FALSE) \subseteq Ids /\ Listed(FALSE)' \subseteq Ids
    BY DEF Listed
  <1>2. IsFiniteSet(Listed(FALSE) \ Listed(FALSE)') /\ IsFiniteSet(Listed(FALSE)' \ Listed(FALSE))
    BY <1>1, StoreAssumption, FS_Subset
  <1> QED
    BY <1>1, <1>2, FS_CardinalityType

\* The effect of a statement, table by table, and what it does to the
\* histories.
LEMMA Executed ==
  ASSUME TypeOK, NEW st \in Statements, NEW who, Execute(who, st)
  PROVE  /\ results' \in Table /\ manual' \in Table
         /\ steady' \subseteq Ids /\ lost' \in Nat /\ gained' \in Nat
         /\ clash' \in [Handlers -> SUBSET Ids]
         /\ \A h \in Handlers : clash[h] \subseteq clash'[h]
         /\ \A h \in Handlers : h # who /\ asked[h] # NoRequest =>
              clash'[h] = clash[h] \cup Contradicted(asked[h], st)
         /\ \A t \in {"manual", "results"} : \A id \in Ids :
              Val(t)'[id] = IF Touches(st, t, id) THEN Update(Val(t)[id], st.do, st.on[id])
                                                  ELSE Val(t)[id]
  <1>1. results' \in Table /\ manual' \in Table
    BY ApplyType DEF Execute, TypeOK
  <1>2. steady' \subseteq Ids /\ lost' \in Nat /\ gained' \in Nat
    <2>1. CASE walk # "on"
      BY <2>1 DEF Execute, TypeOK, listVars
    <2>2. CASE walk = "on"
      <3>1. PICK gone : gone = Cardinality(Listed(FALSE) \ Listed(FALSE)')
        OBVIOUS
      <3>2. PICK come : come = Cardinality(Listed(FALSE)' \ Listed(FALSE))
        OBVIOUS
      <3>3. lost' = lost + gone /\ gained' = gained + come
        BY <2>2, <3>1, <3>2, Zenon DEF Execute
      <3>4. gone \in Nat /\ come \in Nat
        BY <3>1, <3>2, ListedFinite, Zenon
      <3>5. steady' \subseteq steady
        <4>1. steady' = steady \cap Plain'
          BY <2>2, Zenon DEF Execute
        <4> HIDE DEF Plain
        <4> QED
          BY <4>1, Zenon
      <3> QED
        BY <3>3, <3>4, <3>5 DEF TypeOK
    <2> QED
      BY <2>1, <2>2
  <1>3. /\ clash' \in [Handlers -> SUBSET Ids]
        /\ \A h \in Handlers : clash[h] \subseteq clash'[h]
        /\ \A h \in Handlers : h # who /\ asked[h] # NoRequest =>
             clash'[h] = clash[h] \cup Contradicted(asked[h], st)
    <2>1. \A h \in Handlers : asked[h] # NoRequest => Contradicted(asked[h], st) \subseteq Ids
      BY RequestParts DEF Contradicted, TypeOK
    <2>2. clash' = [h \in Handlers |->
                      IF h = who \/ asked[h] = NoRequest THEN clash[h]
                      ELSE clash[h] \cup Contradicted(asked[h], st)]
      BY DEF Execute
    <2> QED
      BY <2>1, <2>2 DEF TypeOK
  <1>4. ASSUME NEW t \in {"manual", "results"}, NEW id \in Ids
        PROVE  Val(t)'[id] = IF Touches(st, t, id) THEN Update(Val(t)[id], st.do, st.on[id])
                                                   ELSE Val(t)[id]
    <2>1. st.table \in {"manual", "results"}
      BY StatementParts
    <2>2. IF st.table = "manual"
            THEN manual' = Apply(manual, st) /\ results' = results
            ELSE results' = Apply(results, st) /\ manual' = manual
      BY DEF Execute
    <2>3. /\ Apply(manual, st)[id] =
               IF id \in DOMAIN st.on THEN Update(manual[id], st.do, st.on[id]) ELSE manual[id]
          /\ Apply(results, st)[id] =
               IF id \in DOMAIN st.on THEN Update(results[id], st.do, st.on[id]) ELSE results[id]
      BY DEF Apply
    <2>4. CASE t = "manual"
      BY <2>1, <2>2, <2>3, <2>4 DEF Val, Touches
    <2>5. CASE t = "results"
      BY <2>1, <2>2, <2>3, <2>5 DEF Val, Touches
    <2> QED
      BY <2>4, <2>5
  <1> QED
    BY <1>1, <1>2, <1>3, <1>4

\* A worker's batch is a statement that adds rows.
LEMMA InsertIs ==
  ASSUME NEW ids \in Batches, Insert(ids)
  PROVE  \E st \in Statements : Execute("worker", st) /\ st.table = "results"
  <1> DEFINE on == [id \in ids |-> [title |-> Original[id], override |-> NoTitle, active |-> TRUE]]
  <1>1. ids \in SUBSET Ids
    BY StoreAssumption
  <1>2. on \in [ids -> To("row")] /\ "row" \in Kinds
    BY <1>1, StoreAssumption DEF To, Kinds, Row
  <1>3. Execute("worker", Statement("results", "row", on))
    BY DEF Insert
  <1> HIDE DEF on
  <1>4. Statement("results", "row", on) \in Statements /\ Statement("results", "row", on).table = "results"
    BY <1>1, <1>2, StatementIs
  <1> QED
    BY <1>3, <1>4

\* The statement a handler executes, and those that are left.
LEMMA NextStatement ==
  ASSUME TypeOK, NEW h \in Handlers, todo[h] # <<>>
  PROVE  /\ todo[h] \in Seq(Statements) /\ Len(todo[h]) \in Nat \ {0}
         /\ Head(todo[h]) \in Statements /\ Head(todo[h]) = todo[h][1]
         /\ Tail(todo[h]) \in Seq(Statements) /\ Len(Tail(todo[h])) = Len(todo[h]) - 1
         /\ \A i \in 1 .. Len(Tail(todo[h])) : Tail(todo[h])[i] = todo[h][i + 1]
         /\ Tail(todo[h]) = <<>> <=> Len(todo[h]) = 1
         /\ asked[h] \in Requests /\ answer[h] = "none"
  <1>1. todo[h] \in Seq(Statements) /\ Len(todo[h]) \in Nat \ {0}
    BY EmptySeq DEF TypeOK
  <1>2. /\ Head(todo[h]) \in Statements /\ Tail(todo[h]) \in Seq(Statements)
        /\ Len(Tail(todo[h])) = Len(todo[h]) - 1
        /\ \A i \in 1 .. Len(Tail(todo[h])) : Tail(todo[h])[i] = todo[h][i + 1]
    BY <1>1, HeadTailProperties
  <1>3. Head(todo[h]) = todo[h][1]
    BY <1>1
  <1>4. Tail(todo[h]) = <<>> <=> Len(todo[h]) = 1
    <2>1. Tail(todo[h]) = <<>> => Len(Tail(todo[h])) = 0
      BY EmptySeq
    <2>2. Tail(todo[h]) # <<>> => Len(Tail(todo[h])) # 0
      BY <1>2, EmptySeq
    <2> QED
      BY <1>1, <1>2, <2>1, <2>2
  <1>5. asked[h] \in Requests /\ answer[h] = "none"
    BY DEF TypeOK
  <1> QED
    BY <1>1, <1>2, <1>3, <1>4, <1>5

LEMMA InitTypeOK == Init => TypeOK
  BY StoreAssumption DEF Init, TypeOK, Table

LEMMA NextTypeOK == TypeOK /\ [Next]_vars => TypeOK'
  <1> SUFFICES ASSUME TypeOK, [Next]_vars PROVE TypeOK'
    OBVIOUS
  <1> USE DEF TypeOK, tables, requestVars, pageVars, listVars
  <1>1. ASSUME NEW h \in Handlers, Request(h) PROVE TypeOK'
    <2>a. PICK do \in Kinds : \E on \in On(do) : \E q :
            Begin(h, do, on, q) /\ Plan(q, [do |-> do, on |-> on])
      BY <1>1, RequestBegins
    <2>b. PICK on \in On(do) : \E q : Begin(h, do, on, q) /\ Plan(q, [do |-> do, on |-> on])
      BY <2>a
    <2>1. PICK q : Begin(h, do, on, q) /\ Plan(q, [do |-> do, on |-> on])
      BY <2>b
    <2>2. [do |-> do, on |-> on] \in Requests
      BY RequestIs
    <2>3. q \in Seq(Statements) /\ q # <<>>
      BY <2>1 DEF Plan
    <2>4. [do |-> do, on |-> on] # NoRequest
      BY <2>2, StoreAssumption
    <2>5. writes' \in 0 .. MaxWrites
      BY <2>1, StoreAssumption DEF Begin
    <2> QED
      BY <2>1, <2>2, <2>3, <2>4, <2>5 DEF Begin
  <1>2. ASSUME NEW h \in Handlers, Exec(h) PROVE TypeOK'
    <2>1. todo[h] # <<>> /\ Execute(h, Head(todo[h]))
      BY <1>2 DEF Exec
    <2>2. /\ Head(todo[h]) \in Statements /\ Tail(todo[h]) \in Seq(Statements)
          /\ Tail(todo[h]) = <<>> <=> Len(todo[h]) = 1
          /\ asked[h] \in Requests
      BY <2>1, NextStatement
    <2>3. /\ results' \in Table /\ manual' \in Table /\ clash' \in [Handlers -> SUBSET Ids]
          /\ steady' \subseteq Ids /\ lost' \in Nat /\ gained' \in Nat
      BY <2>1, <2>2, Executed
    <2>4. asked[h] # NoRequest
      BY <2>2, StoreAssumption
    <2>5. UNCHANGED pageVars /\ UNCHANGED <<asked, writes>>
      BY <1>2 DEF Exec, Execute
    <2>6. /\ todo' = [todo EXCEPT ![h] = Tail(todo[h])]
          /\ answer' = [answer EXCEPT ![h] = IF Tail(todo[h]) = <<>> THEN "ok" ELSE "none"]
      BY <1>2, <2>2 DEF Exec
    <2> QED
      BY <2>2, <2>3, <2>4, <2>5, <2>6
  <1>3. ASSUME NEW h \in Handlers, ExecFails(h) PROVE TypeOK'
    BY <1>3 DEF ExecFails
  <1>4. ASSUME NEW ids \in Batches, Insert(ids) PROVE TypeOK'
    <2>1. PICK st \in Statements : Execute("worker", st)
      BY <1>4, InsertIs
    <2>2. /\ results' \in Table /\ manual' \in Table /\ clash' \in [Handlers -> SUBSET Ids]
          /\ steady' \subseteq Ids /\ lost' \in Nat /\ gained' \in Nat
      BY <2>1, Executed
    <2>3. UNCHANGED pageVars /\ UNCHANGED <<todo, asked, answer>> /\ writes' \in 0 .. MaxWrites
      BY <1>4, StoreAssumption DEF Insert, Execute
    <2> QED
      BY <2>2, <2>3
  <1>5. CASE Crash
    BY <1>5 DEF Crash
  <1>6. CASE StartWalk \/ FetchFails
    <2>1. steady' \subseteq Ids
      <3>1. steady' = Plain \/ steady' = {}
        BY <1>6, Zenon DEF StartWalk, FetchFails
      <3>2. Plain \subseteq Listed(FALSE)
        BY DEF Plain
      <3> QED
        BY <3>1, <3>2, ListedFinite
    <2>2. /\ walk' \in {"on", "none"} /\ page' \in Nat /\ fetched' \in [Ids -> Nat]
          /\ lost' = 0 /\ gained' = 0
      <3>1. /\ walk' = "on" \/ walk' = "none"
            /\ page' = 1 \/ page' = 0
            /\ fetched' = [id \in Ids |-> 0]
            /\ lost' = 0 /\ gained' = 0
        BY <1>6, Zenon DEF StartWalk, FetchFails
      <3> QED
        BY <3>1
    <2>3. UNCHANGED <<tables, requestVars>>
      BY <1>6 DEF StartWalk, FetchFails
    <2> QED
      BY <2>1, <2>2, <2>3
  <1>7. CASE FetchPage
    <2>1. NextPage(page) \in Nat
      BY DEF NextPage
    <2> QED
      BY <1>7, <2>1 DEF FetchPage
  <1>8. CASE UNCHANGED vars
    BY <1>8 DEF vars
  <1> QED
    BY <1>1, <1>2, <1>3, <1>4, <1>5, <1>6, <1>7, <1>8 DEF Next
-----------------------------------------------------------------------------
(***************************************************************************)
(* Requests hold                                                           *)
(***************************************************************************)
LEMMA InitInv == Init => ShapeInv /\ TakeInv
  BY DEF Init, ShapeInv, TakeInv

\* What was done stays done under statements that do not contradict it.
LEMMA EffectKept ==
  ASSUME NEW a \in Requests, NEW id \in DOMAIN a.on, NEW st \in Statements,
         id \notin Contradicted(a, st), NEW t \in Concerned(a, id), Touches(st, t, id),
         NEW row \in Row \cup {NoRow}, Effect(a, id, row)
  PROVE  Effect(a, id, Update(row, st.do, st.on[id]))
  <1>1. /\ st.do \in Kinds /\ st.on[id] \in To(st.do) /\ id \in DOMAIN st.on
        /\ st.table = t
    BY StatementParts DEF Touches
  <1>2. a.do \in Kinds /\ a.on[id] \in To(a.do)
    BY RequestParts
  <1>3. ~ (IF a.do = "row" /\ a.on[id] # NoRow
             THEN st.table = "manual"
             ELSE \/ st.do = "row" /\ st.on[id] # NoRow
                  \/ st.do = a.do /\ st.on[id] # a.on[id])
    BY <1>1 DEF Contradicted
  <1>4. ~ (a.do = "row" /\ a.on[id] # NoRow)
    BY <1>1, <1>3 DEF Concerned
  <1>5. CASE st.do = "row"
    <2>1. Update(row, st.do, st.on[id]) = NoRow
      BY <1>1, <1>3, <1>4, <1>5, UpdateIs
    <2> QED
      BY <1>2, <1>4, <2>1 DEF Effect, Kinds
  <1>6. CASE st.do # "row" /\ row = NoRow
    <2>1. Update(row, st.do, st.on[id]) = NoRow
      BY <1>1, <1>6, UpdateIs
    <2> QED
      BY <1>6, <2>1
  <1>7. CASE st.do # "row" /\ row # NoRow
    <2>1. a.do \in {"active", "title"} /\ row \in Row
      BY <1>2, <1>4, <1>7 DEF Effect, Kinds
    <2>2. CASE st.do = "active"
      <3>1. Update(row, st.do, st.on[id]) = [row EXCEPT !.active = st.on[id]]
        BY <1>1, <1>7, <2>2, UpdateIs
      <3>2. a.do = "active" => st.on[id] = a.on[id]
        BY <1>3, <1>4, <2>2
      <3> QED
        BY <1>7, <2>1, <2>2, <3>1, <3>2 DEF Effect, Row
    <2>3. CASE st.do = "title"
      <3>1. Update(row, st.do, st.on[id]) = [row EXCEPT !.override = st.on[id]]
        BY <1>1, <1>7, <2>3, UpdateIs
      <3>2. a.do = "title" => st.on[id] = a.on[id]
        BY <1>3, <1>4, <2>3
      <3> QED
        BY <1>7, <2>1, <2>3, <3>1, <3>2 DEF Effect, Row
    <2> QED
      BY <1>1, <1>7, <2>2, <2>3 DEF Kinds
  <1> QED
    BY <1>5, <1>6, <1>7

\* A statement that does what the request asks for has its effect.
LEMMA EffectMade ==
  ASSUME NEW a \in Requests, NEW id \in DOMAIN a.on, NEW row \in Row \cup {NoRow}
  PROVE  Effect(a, id, Update(row, a.do, a.on[id]))
  <1>1. a.do \in Kinds /\ a.on[id] \in To(a.do)
    BY RequestParts
  <1>2. CASE a.do = "row"
    BY <1>1, <1>2, UpdateIs DEF Effect
  <1>3. CASE a.do = "active"
    <2>1. CASE row = NoRow
      BY <1>1, <1>3, <2>1, UpdateIs DEF Effect
    <2>2. CASE row # NoRow
      <3>1. Update(row, a.do, a.on[id]) = [row EXCEPT !.active = a.on[id]] /\ row \in Row
        BY <1>1, <1>3, <2>2, UpdateIs
      <3>2. Update(row, a.do, a.on[id]).active = a.on[id]
        BY <3>1 DEF Row
      <3> QED
        BY <1>3, <3>2 DEF Effect
    <2> QED
      BY <2>1, <2>2
  <1>4. CASE a.do = "title"
    <2>1. CASE row = NoRow
      BY <1>1, <1>4, <2>1, UpdateIs DEF Effect
    <2>2. CASE row # NoRow
      <3>1. Update(row, a.do, a.on[id]) = [row EXCEPT !.override = a.on[id]] /\ row \in Row
        BY <1>1, <1>4, <2>2, UpdateIs
      <3>2. Update(row, a.do, a.on[id]).override = a.on[id]
        BY <3>1 DEF Row
      <3> QED
        BY <1>4, <3>2 DEF Effect
    <2> QED
      BY <2>1, <2>2
  <1> QED
    BY <1>1, <1>2, <1>3, <1>4 DEF Kinds

\* Executing the first statement leaves the rest to settle the poll.
LEMMA SettledStep ==
  ASSUME NEW q \in Seq(Statements), NEW r \in Seq(Statements), Len(q) \in Nat \ {0},
         Len(r) = Len(q) - 1, \A i \in 1 .. Len(r) : r[i] = q[i + 1],
         NEW a \in Requests, NEW id \in DOMAIN a.on, NEW t,
         NEW row \in Row \cup {NoRow}, Settled(q, a, id, t, row)
  PROVE  Settled(r, a, id, t,
                 IF Touches(q[1], t, id) THEN Update(row, q[1].do, q[1].on[id]) ELSE row)
  <1>1. CASE \E i \in 1 .. Len(q) : Touches(q[i], t, id)
    <2>1. PICK i \in 1 .. Len(q) :
            /\ Touches(q[i], t, id) /\ q[i].do = a.do /\ q[i].on[id] = a.on[id]
            /\ \A j \in 1 .. Len(q) : j > i => ~ Touches(q[j], t, id)
      BY <1>1 DEF Settled
    <2>2. CASE i = 1
      <3>1. ASSUME NEW j \in 1 .. Len(r) PROVE ~ Touches(r[j], t, id)
        <4>1. j + 1 \in 1 .. Len(q) /\ j + 1 > 1 /\ r[j] = q[j + 1]
          OBVIOUS
        <4> QED
          BY <2>1, <2>2, <4>1
      <3>2. Effect(a, id, Update(row, q[1].do, q[1].on[id]))
        BY <2>1, <2>2, EffectMade
      <3> QED
        BY <2>1, <2>2, <3>1, <3>2 DEF Settled
    <2>3. CASE i # 1
      <3>1. i - 1 \in 1 .. Len(r) /\ r[i - 1] = q[i]
        BY <2>3
      <3>2. ASSUME NEW j \in 1 .. Len(r), j > i - 1 PROVE ~ Touches(r[j], t, id)
        <4>1. j + 1 \in 1 .. Len(q) /\ j + 1 > i /\ r[j] = q[j + 1]
          BY <3>2
        <4> QED
          BY <2>1, <4>1
      <3> QED
        BY <2>1, <3>1, <3>2 DEF Settled
    <2> QED
      BY <2>2, <2>3
  <1>2. CASE \A i \in 1 .. Len(q) : ~ Touches(q[i], t, id)
    <2>1. ~ Touches(q[1], t, id) /\ \A j \in 1 .. Len(r) : ~ Touches(r[j], t, id)
      BY <1>2
    <2>2. Effect(a, id, row)
      BY <1>2 DEF Settled
    <2> QED
      BY <2>1, <2>2 DEF Settled
  <1> QED
    BY <1>1, <1>2

LEMMA ShapeStep ==
  ASSUME NEW q, NEW r, Len(q) \in Nat \ {0}, Len(r) = Len(q) - 1,
         \A i \in 1 .. Len(r) : r[i] = q[i + 1], NEW a, Shape(q, a)
  PROVE  Shape(r, a)
  <1> SUFFICES ASSUME NEW i \in 1 .. Len(r)
               PROVE  /\ r[i].do = a.do
                      /\ a.do = "row" => /\ r[i].on = a.on
                                         /\ r[i].table = "manual" => i = Len(r)
    BY DEF Shape
  <1>1. i + 1 \in 1 .. Len(q) /\ r[i] = q[i + 1] /\ (i + 1 = Len(q) <=> i = Len(r))
    OBVIOUS
  <1> QED
    BY <1>1 DEF Shape

\* The step of one handler, as the others' requests see it.
Apart(h) ==
  \A g \in Handlers \ {h} :
    asked'[g] = asked[g] /\ todo'[g] = todo[g] /\ answer'[g] = answer[g]

LEMMA StepsApart ==
  ASSUME TypeOK, NEW h \in Handlers
  PROVE  /\ \A do, on, q : Begin(h, do, on, q) =>
              /\ Apart(h) /\ asked'[h] = [do |-> do, on |-> on] /\ todo'[h] = q
              /\ clash'[h] = {} /\ \A g \in Handlers \ {h} : clash'[g] = clash[g]
              /\ UNCHANGED tables
         /\ Exec(h) => Apart(h) /\ asked' = asked /\ todo'[h] = Tail(todo[h])
         /\ ExecFails(h) => Apart(h) /\ asked' = asked /\ todo'[h] = <<>>
                            /\ answer'[h] = "error" /\ UNCHANGED <<tables, clash>>
  BY DEF TypeOK, Begin, Exec, ExecFails, Apart

LEMMA NextShape == TypeOK /\ ShapeInv /\ [Next]_vars => ShapeInv'
  <1> SUFFICES ASSUME TypeOK, ShapeInv, [Next]_vars,
                      NEW g \in Handlers, asked'[g] # NoRequest
               PROVE  Shape(todo'[g], asked'[g])
    BY DEF ShapeInv
  <1>a. ASSUME asked'[g] = asked[g], todo'[g] = todo[g] PROVE Shape(todo'[g], asked'[g])
    BY <1>a DEF ShapeInv
  <1>1. ASSUME NEW h \in Handlers, Request(h) PROVE Shape(todo'[g], asked'[g])
    <2>a. PICK do \in Kinds : \E on \in On(do) : \E q :
            Begin(h, do, on, q) /\ Plan(q, [do |-> do, on |-> on])
      BY <1>1, RequestBegins
    <2>b. PICK on \in On(do) : \E q : Begin(h, do, on, q) /\ Plan(q, [do |-> do, on |-> on])
      BY <2>a
    <2>1. PICK q : Begin(h, do, on, q) /\ Plan(q, [do |-> do, on |-> on])
      BY <2>b
    <2>2. CASE g = h
      BY <2>1, <2>2, StepsApart DEF Plan
    <2>3. CASE g # h
      BY <1>a, <2>1, <2>3, StepsApart DEF Apart
    <2> QED
      BY <2>2, <2>3
  <1>2. ASSUME NEW h \in Handlers, Exec(h) PROVE Shape(todo'[g], asked'[g])
    <2>1. CASE g = h
      <3>1. todo[g] # <<>> /\ asked'[g] = asked[g] /\ todo'[g] = Tail(todo[g])
        BY <1>2, <2>1, StepsApart DEF Exec
      <3>2. Shape(todo[g], asked[g])
        BY <3>1 DEF ShapeInv
      <3> QED
        BY <3>1, <3>2, NextStatement, ShapeStep
    <2>2. CASE g # h
      BY <1>a, <1>2, <2>2, StepsApart DEF Apart
    <2> QED
      BY <2>1, <2>2
  <1>3. ASSUME NEW h \in Handlers, ExecFails(h) PROVE Shape(todo'[g], asked'[g])
    <2>1. CASE g = h
      BY <1>3, <2>1, StepsApart DEF Shape
    <2>2. CASE g # h
      BY <1>a, <1>3, <2>2, StepsApart DEF Apart
    <2> QED
      BY <2>1, <2>2
  <1>4. CASE Crash
    BY <1>4 DEF Crash
  <1>5. CASE \/ \E ids \in Batches : Insert(ids)
             \/ StartWalk \/ FetchPage \/ FetchFails \/ UNCHANGED vars
    <2>1. asked' = asked /\ todo' = todo
      BY <1>5 DEF Insert, StartWalk, FetchPage, FetchFails, vars, requestVars
    <2> QED
      BY <1>a, <2>1
  <1> QED
    BY <1>1, <1>2, <1>3, <1>4, <1>5 DEF Next

\* Whoever executes a statement that does not contradict a request, the poll
\* stays settled for it.
LEMMA SettledKept ==
  ASSUME TypeOK, TakeInv, NEW st \in Statements, NEW who, Execute(who, st),
         NEW g \in Handlers, g # who, asked[g] # NoRequest, answer[g] # "error",
         NEW id \in DOMAIN asked[g].on \ clash'[g], NEW t \in Concerned(asked[g], id)
  PROVE  Settled(todo[g], asked[g], id, t, Val(t)'[id])
  <1>1. asked[g] \in Requests /\ id \in Ids /\ t \in {"manual", "results"}
    BY RequestParts DEF TypeOK, Concerned
  <1>2. /\ clash'[g] = clash[g] \cup Contradicted(asked[g], st)
        /\ Val(t)'[id] = IF Touches(st, t, id) THEN Update(Val(t)[id], st.do, st.on[id])
                                               ELSE Val(t)[id]
    BY <1>1, Executed
  <1>3. Settled(todo[g], asked[g], id, t, Val(t)[id])
    BY <1>2 DEF TakeInv
  <1>4. Val(t)[id] \in Row \cup {NoRow}
    BY <1>1 DEF Val, TypeOK, Table
  <1>5. CASE Touches(st, t, id) /\ ~ \E i \in 1 .. Len(todo[g]) : Touches(todo[g][i], t, id)
    <2>1. Effect(asked[g], id, Val(t)[id])
      BY <1>3, <1>5 DEF Settled
    <2>2. Effect(asked[g], id, Val(t)'[id])
      BY <1>1, <1>2, <1>4, <1>5, <2>1, EffectKept
    <2> QED
      BY <1>5, <2>2 DEF Settled
  <1>6. CASE ~ Touches(st, t, id) \/ \E i \in 1 .. Len(todo[g]) : Touches(todo[g][i], t, id)
    BY <1>2, <1>3, <1>6 DEF Settled
  <1> QED
    BY <1>5, <1>6

LEMMA NextTake == TypeOK /\ TakeInv /\ [Next]_vars => TakeInv'
  <1> SUFFICES ASSUME TypeOK, TakeInv, [Next]_vars,
                      NEW g \in Handlers, asked'[g] # NoRequest, answer'[g] # "error",
                      NEW id \in DOMAIN asked'[g].on \ clash'[g],
                      NEW t \in Concerned(asked'[g], id)
               PROVE  Settled(todo'[g], asked'[g], id, t, Val(t)'[id])
    BY DEF TakeInv
  <1>a. ASSUME asked'[g] = asked[g], todo'[g] = todo[g], answer'[g] = answer[g],
               clash'[g] = clash[g], UNCHANGED tables
        PROVE  Settled(todo'[g], asked'[g], id, t, Val(t)'[id])
    <2>1. Val(t)' = Val(t)
      BY <1>a DEF Val, tables
    <2> QED
      BY <1>a, <2>1 DEF TakeInv
  <1>b. ASSUME NEW who, NEW st \in Statements, Execute(who, st), g # who,
               asked'[g] = asked[g], todo'[g] = todo[g], answer'[g] = answer[g]
        PROVE  Settled(todo'[g], asked'[g], id, t, Val(t)'[id])
    BY <1>b, SettledKept
  <1>1. ASSUME NEW h \in Handlers, Request(h)
        PROVE  Settled(todo'[g], asked'[g], id, t, Val(t)'[id])
    <2>a. PICK do \in Kinds : \E on \in On(do) : \E q :
            Begin(h, do, on, q) /\ Plan(q, [do |-> do, on |-> on])
      BY <1>1, RequestBegins
    <2>b. PICK on \in On(do) : \E q : Begin(h, do, on, q) /\ Plan(q, [do |-> do, on |-> on])
      BY <2>a
    <2>1. PICK q : Begin(h, do, on, q) /\ Plan(q, [do |-> do, on |-> on])
      BY <2>b
    <2>2. CASE g = h
      BY <2>1, <2>2, StepsApart DEF Plan
    <2>3. CASE g # h
      BY <1>a, <2>1, <2>3, StepsApart DEF Apart
    <2> QED
      BY <2>2, <2>3
  <1>2. ASSUME NEW h \in Handlers, Exec(h)
        PROVE  Settled(todo'[g], asked'[g], id, t, Val(t)'[id])
    <2>1. todo[h] # <<>> /\ Execute(h, Head(todo[h]))
      BY <1>2 DEF Exec
    <2>2. Head(todo[h]) \in Statements
      BY <2>1, NextStatement
    <2>3. CASE g = h
      <3>1. /\ asked'[g] = asked[g] /\ todo'[g] = Tail(todo[g])
            /\ asked[g] \in Requests /\ answer[g] = "none"
            /\ Head(todo[g]) = todo[g][1]
        BY <1>2, <2>1, <2>3, StepsApart, NextStatement
      <3>2. id \in DOMAIN asked[g].on \ clash[g] /\ t \in Concerned(asked[g], id)
        BY <2>1, <2>2, <3>1, Executed
      <3>3. id \in Ids /\ t \in {"manual", "results"}
        BY <3>1, <3>2, RequestParts DEF Concerned
      <3>4. Val(t)'[id] = IF Touches(todo[g][1], t, id)
                            THEN Update(Val(t)[id], todo[g][1].do, todo[g][1].on[id])
                            ELSE Val(t)[id]
        BY <2>1, <2>2, <2>3, <3>1, <3>3, Executed
      <3>5. Settled(todo[g], asked[g], id, t, Val(t)[id])
        BY <3>1, <3>2 DEF TakeInv
      <3>6. Val(t)[id] \in Row \cup {NoRow}
        BY <3>3 DEF Val, TypeOK, Table
      <3>7. /\ todo[g] \in Seq(Statements) /\ Len(todo[g]) \in Nat \ {0}
            /\ Tail(todo[g]) \in Seq(Statements) /\ Len(Tail(todo[g])) = Len(todo[g]) - 1
            /\ \A i \in 1 .. Len(Tail(todo[g])) : Tail(todo[g])[i] = todo[g][i + 1]
        BY <2>1, <2>3, NextStatement
      <3>8. Settled(Tail(todo[g]), asked[g], id, t, Val(t)'[id])
        <4>1. PICK q : q = todo[g]
          OBVIOUS
        <4>2. PICK r : r = Tail(todo[g])
          OBVIOUS
        <4>3. PICK a : a = asked[g]
          OBVIOUS
        <4>4. PICK row : row = Val(t)[id]
          OBVIOUS
        <4>5. /\ q \in Seq(Statements) /\ r \in Seq(Statements) /\ Len(q) \in Nat \ {0}
              /\ Len(r) = Len(q) - 1 /\ \A i \in 1 .. Len(r) : r[i] = q[i + 1]
          BY <3>7, <4>1, <4>2
        <4>6. /\ a \in Requests /\ id \in DOMAIN a.on /\ row \in Row \cup {NoRow}
              /\ Settled(q, a, id, t, row)
          BY <3>1, <3>2, <3>5, <3>6, <4>1, <4>3, <4>4
        <4>7. Settled(r, a, id, t,
                IF Touches(q[1], t, id) THEN Update(row, q[1].do, q[1].on[id]) ELSE row)
          BY <4>5, <4>6, SettledStep
        <4> QED
          BY <3>4, <4>1, <4>2, <4>3, <4>4, <4>7
      <3> QED
        BY <3>1, <3>8
    <2>4. CASE g # h
      BY <1>b, <1>2, <2>1, <2>2, <2>4, StepsApart DEF Apart
    <2> QED
      BY <2>3, <2>4
  <1>3. ASSUME NEW h \in Handlers, ExecFails(h)
        PROVE  Settled(todo'[g], asked'[g], id, t, Val(t)'[id])
    <2>1. g # h
      BY <1>3, StepsApart
    <2> QED
      BY <1>a, <1>3, <2>1, StepsApart DEF Apart
  <1>4. ASSUME NEW ids \in Batches, Insert(ids)
        PROVE  Settled(todo'[g], asked'[g], id, t, Val(t)'[id])
    <2>1. PICK st \in Statements : Execute("worker", st)
      BY <1>4, InsertIs
    <2>2. UNCHANGED <<todo, asked, answer>> /\ g # "worker"
      BY <1>4, StoreAssumption DEF Insert
    <2> QED
      BY <1>b, <2>1, <2>2
  <1>5. CASE Crash
    BY <1>5 DEF Crash
  <1>6. CASE StartWalk \/ FetchPage \/ FetchFails \/ UNCHANGED vars
    <2>1. UNCHANGED <<tables, requestVars>>
      BY <1>6 DEF StartWalk, FetchPage, FetchFails, vars
    <2> QED
      BY <1>a, <2>1 DEF requestVars
  <1> QED
    BY <1>1, <1>2, <1>3, <1>4, <1>5, <1>6 DEF Next

LEMMA StoreInvariant == Spec => []IInv
  <1>1. Init => IInv
    BY InitTypeOK, InitInv DEF IInv
  <1>2. IInv /\ [Next]_vars => IInv'
    BY NextTypeOK, NextShape, NextTake DEF IInv
  <1> QED
    BY <1>1, <1>2, PTL DEF Spec

\* Tables, requests and what is left of them keep their types.
THEOREM StoreTypeCorrect == Spec => []TypeOK
  <1>1. IInv => TypeOK
    BY DEF IInv
  <1> QED
    BY <1>1, StoreInvariant, PTL

LEMMA InvTakes == IInv => RequestTakes
  <1> SUFFICES ASSUME IInv, NEW h \in Handlers, answer[h] = "ok",
                      NEW id \in DOMAIN asked[h].on \ clash[h]
               PROVE  Holds(asked[h], id)
    BY DEF RequestTakes
  <1>1. todo[h] = <<>> /\ asked[h] \in Requests /\ asked[h] # NoRequest
    BY DEF IInv, TypeOK
  <1>2. /\ id \in Ids /\ asked[h].do \in Kinds
        /\ manual[id] \in Row \cup {NoRow} /\ results[id] \in Row \cup {NoRow}
    BY <1>1, RequestParts DEF IInv, TypeOK, Table
  <1>3. ASSUME NEW t \in Concerned(asked[h], id) PROVE Effect(asked[h], id, Val(t)[id])
    <2>1. Settled(<<>>, asked[h], id, t, Val(t)[id])
      BY <1>1 DEF IInv, TakeInv
    <2> QED
      BY <2>1 DEF Settled
  <1>4. Effect(asked[h], id, manual[id])
    BY <1>3 DEF Concerned, Val
  <1>5. CASE asked[h].do = "row" /\ asked[h].on[id] # NoRow
    BY <1>4, <1>5 DEF Effect, Holds, Shown
  <1>6. CASE ~ (asked[h].do = "row" /\ asked[h].on[id] # NoRow)
    <2>1. Effect(asked[h], id, results[id])
      BY <1>3, <1>6 DEF Concerned, Val
    <2>2. Effect(asked[h], id, Shown(id))
      BY <1>4, <2>1 DEF Shown
    <2>3. CASE asked[h].do = "row"
      BY <2>2, <2>3 DEF Effect, Holds
    <2>4. CASE asked[h].do = "active"
      BY <2>2, <2>4 DEF Effect, Holds
    <2>5. CASE asked[h].do = "title"
      BY <2>2, <2>5 DEF Effect, Holds, Title
    <2> QED
      BY <1>2, <2>3, <2>4, <2>5 DEF Kinds
  <1> QED
    BY <1>5, <1>6

\* A request that was answered without error holds for readers until somebody
\* contradicts it, in whichever of the two tables its polls live, and however
\* the statements of other requests, the workers and crashes come in between.
THEOREM RequestTakesHolds == Spec => []RequestTakes
  <1> QED
    BY InvTakes, StoreInvariant, PTL

LEMMA StepUncovers ==
  ASSUME IInv, [Next]_vars, NEW id \in Ids, manual[id] # NoRow, manual'[id] = NoRow
  PROVE  results[id] = NoRow \/ \E h \in Handlers : todo'[h] # todo[h] /\ id \in clash[h]
  <1>1. ASSUME NEW h \in Handlers, Exec(h)
        PROVE  results[id] = NoRow \/ (todo'[h] # todo[h] /\ id \in clash[h])
    <2> DEFINE st == Head(todo[h])
    <2>1. todo[h] # <<>> /\ Execute(h, st) /\ manual \in Table
      BY <1>1 DEF Exec, IInv, TypeOK, Table
    <2>2. /\ st \in Statements /\ st = todo[h][1] /\ Len(todo[h]) \in Nat \ {0}
          /\ asked[h] \in Requests /\ answer[h] = "none" /\ asked[h] # NoRequest
      BY <2>1, NextStatement, StoreAssumption DEF IInv
    <2>3. st.table = "manual" /\ manual' = Apply(manual, st)
      BY <2>1 DEF Execute
    <2>4. id \in DOMAIN st.on /\ st.do = "row" /\ st.on[id] = NoRow
      BY <2>1, <2>2, <2>3, ApplyType
    <2>5. Shape(todo[h], asked[h])
      BY <2>2 DEF IInv, ShapeInv
    <2>6. asked[h].do = "row" /\ st.on = asked[h].on /\ Len(todo[h]) = 1
      <3>1. 1 \in 1 .. Len(todo[h])
        BY <2>2
      <3>2. /\ st.do = asked[h].do
            /\ asked[h].do = "row" => /\ st.on = asked[h].on
                                      /\ st.table = "manual" => 1 = Len(todo[h])
        BY <2>2, <2>5, <3>1, Zenon DEF Shape
      <3> QED
        BY <2>3, <2>4, <3>2
    <2>a. todo'[h] # todo[h]
      <3>1. todo'[h] = Tail(todo[h])
        BY <1>1 DEF Exec, IInv, TypeOK
      <3>2. Len(Tail(todo[h])) = Len(todo[h]) - 1
        BY <2>1, NextStatement DEF IInv
      <3>3. Len(todo[h]) - 1 # Len(todo[h])
        BY <2>2
      <3> QED
        BY <3>1, <3>2, <3>3
    <2>7. SUFFICES ASSUME id \notin clash[h] PROVE results[id] = NoRow
      BY <2>a
    <2>8. "results" \in Concerned(asked[h], id)
      BY <2>4, <2>6 DEF Concerned
    <2>9. Settled(todo[h], asked[h], id, "results", results[id])
      <3>1. Settled(todo[h], asked[h], id, "results", Val("results")[id])
        BY <2>2, <2>4, <2>6, <2>7, <2>8 DEF IInv, TakeInv
      <3> QED
        BY <3>1 DEF Val
    <2>10. \A i \in 1 .. Len(todo[h]) : ~ Touches(todo[h][i], "results", id)
      BY <2>2, <2>3, <2>6 DEF Touches
    <2> QED
      BY <2>4, <2>6, <2>9, <2>10 DEF Settled, Effect
  <1>2. ASSUME NEW ids \in Batches, Insert(ids) PROVE FALSE
    <2>1. PICK st \in Statements : Execute("worker", st) /\ st.table = "results"
      BY <1>2, InsertIs
    <2> QED
      BY <2>1 DEF Execute
  <1>3. CASE \/ \E h \in Handlers : Request(h) \/ ExecFails(h)
             \/ Crash \/ StartWalk \/ FetchPage \/ FetchFails \/ UNCHANGED vars
    <2>1. manual' = manual
      BY <1>3 DEF Request, SetActive, SetTitle, DropPolls, AddPolls, Begin, ExecFails, Crash,
         StartWalk, FetchPage, FetchFails, vars, tables
    <2> QED
      BY <2>1
  <1> QED
    BY <1>1, <1>2, <1>3 DEF Next

\* Deleting a manual row never uncovers the results row below it, unless a
\* worker wrote that one since the Drop began.
THEOREM DropUncoversNothingHolds == Spec => DropUncoversNothing
  <1>1. IInv /\ [Next]_vars =>
          [\A id \in Ids : manual[id] # NoRow /\ manual'[id] = NoRow =>
             results[id] = NoRow
               \/ \E h \in Handlers : todo'[h] # todo[h] /\ id \in clash[h]]_vars
    BY StepUncovers
  <1> QED
    BY <1>1, StoreInvariant, PTL DEF Spec, DropUncoversNothing
-----------------------------------------------------------------------------
(***************************************************************************)
(* The walk over the pages                                                 *)
(***************************************************************************)
\* The polls of a list from position o on, which a walk that stands at o has
\* before it, and those it has behind it.
Top(list, o) == {id \in list : Offset(id, list) >= o}
Low(list, o) == list \ Top(list, o)

Ahead == PageSize * (page - 1)

\* A poll the walk has passed without seeing it, one it has seen twice, and
\* one it has seen and will see again.
Missed == {id \in steady : fetched[id] = 0 /\ id \notin Top(Listed(FALSE), Ahead)}
Repeated == {id \in Ids : fetched[id] > 1}
Again == {id \in Top(Listed(FALSE), Ahead) : fetched[id] > 0}

\* Each poll that leaves the list moves at most one poll past the walk unseen,
\* and each that joins it moves at most one back before it, or is one itself.
WalkInv ==
  /\ walk = "on" =>
       /\ page \in Nat \ {0}
       /\ steady \subseteq Plain
       /\ Cardinality(Missed) <= lost
       /\ Cardinality(Repeated \cup Again) <= gained
  /\ WalkFaithful

LEMMA Least ==
  ASSUME NEW S \in SUBSET Nat, S # {}
  PROVE  \E x \in S : \A y \in S : x <= y
  <1>1. PICK x \in S : \A y \in S : ~ (<<y, x>> \in OpToRel(<, Nat))
    BY NatLessThanWellFounded, WFMin
  <1>2. \A y \in S : ~ (y < x)
    BY <1>1 DEF OpToRel
  <1>3. \A y \in S : y \in Nat
    OBVIOUS
  <1>4. \A y \in S : x <= y
    BY <1>2, <1>3
  <1> QED
    BY <1>4

\* A finite set is what it has in common with another, and the rest.
LEMMA Parted ==
  ASSUME NEW S, NEW X, IsFiniteSet(S)
  PROVE  /\ Cardinality(S) \in Nat /\ Cardinality(S \cap X) \in Nat
         /\ Cardinality(S \ X) \in Nat
         /\ Cardinality(S) = Cardinality(S \cap X) + Cardinality(S \ X)
  <1>1. IsFiniteSet(S \cap X) /\ IsFiniteSet(S \ X)
    BY FS_Subset
  <1>2. (S \cap X) \cup (S \ X) = S /\ (S \cap X) \cap (S \ X) = {}
    OBVIOUS
  <1>3. Cardinality((S \cap X) \cup (S \ X)) =
          Cardinality(S \cap X) + Cardinality(S \ X) - Cardinality((S \cap X) \cap (S \ X))
    BY <1>1, FS_Union
  <1>4. /\ Cardinality(S) \in Nat /\ Cardinality(S \cap X) \in Nat
        /\ Cardinality(S \ X) \in Nat
    BY <1>1, FS_CardinalityType
  <1>5. Cardinality({}) = 0
    BY FS_EmptySet
  <1>6. Cardinality(S) = Cardinality(S \cap X) + Cardinality(S \ X) - 0
    BY <1>2, <1>3, <1>5, Zenon
  <1> QED
    BY <1>4, <1>6

\* The position of a poll orders a list as its ids do.
LEMMA Offsets ==
  ASSUME NEW L \in SUBSET Ids
  PROVE  /\ IsFiniteSet(L)
         /\ \A x \in Ids : Offset(x, L) \in Nat
         /\ \A x, y \in L : Offset(x, L) < Offset(y, L) <=> x < y
  <1>0. IsFiniteSet(L) /\ L \subseteq Nat
    BY StoreAssumption, FS_Subset
  <1>1. ASSUME NEW x PROVE IsFiniteSet({j \in L : j < x}) /\ Offset(x, L) \in Nat
    <2>1. IsFiniteSet({j \in L : j < x})
      BY <1>0, FS_Subset
    <2> QED
      BY <2>1, FS_CardinalityType DEF Offset
  <1>2. ASSUME NEW x \in L, NEW y \in L, x < y PROVE Offset(x, L) < Offset(y, L)
    <2> DEFINE B == {j \in L : j < x}
    <2>1. B \cup {x} \in SUBSET {j \in L : j < y} /\ x \notin B
      <3>1. x \in Nat /\ y \in Nat /\ \A j \in L : j \in Nat
        BY <1>0
      <3>2. \A j \in L : j < x => j < y
        BY <1>2, <3>1
      <3>3. \A z \in B \cup {x} : z \in L /\ z < y
        BY <1>2, <3>2
      <3>4. x \notin B
        BY <3>1
      <3> QED
        BY <3>3, <3>4
    <2>2. IsFiniteSet(B) /\ IsFiniteSet({j \in L : j < y})
      BY <1>1
    <2> HIDE DEF B
    <2>3. Cardinality(B \cup {x}) = Cardinality(B) + 1
      BY <2>1, <2>2, FS_AddElement
    <2>4. Cardinality(B \cup {x}) <= Cardinality({j \in L : j < y})
      BY <2>1, <2>2, FS_Subset
    <2>5. Offset(x, L) = Cardinality(B) /\ Offset(y, L) = Cardinality({j \in L : j < y})
      BY DEF B, Offset
    <2>6. Offset(x, L) \in Nat /\ Offset(y, L) \in Nat
      BY <1>1
    <2> QED
      BY <2>3, <2>4, <2>5, <2>6
  <1>3. ASSUME NEW x \in L, NEW y \in L, Offset(x, L) < Offset(y, L) PROVE x < y
    <2>1. x < y \/ x = y \/ y < x
      BY <1>0
    <2>2. Offset(x, L) \in Nat /\ Offset(y, L) \in Nat
      BY <1>1
    <2> QED
      BY <1>2, <1>3, <2>1, <2>2
  <1> QED
    BY <1>0, <1>1, <1>2, <1>3

\* There are at most o polls before position o, and o of them if there is one
\* at it; that one comes before all others from there on.
LEMMA LowIs ==
  ASSUME NEW L \in SUBSET Ids, NEW o \in Nat
  PROVE  /\ IsFiniteSet(Low(L, o)) /\ Cardinality(Low(L, o)) \in Nat
         /\ Cardinality(Low(L, o)) <= o
         /\ Top(L, o) # {} =>
              /\ Cardinality(Low(L, o)) = o
              /\ \E x \in Top(L, o) : Offset(x, L) = o
  <1>0. /\ IsFiniteSet(L) /\ L \subseteq Nat /\ \A x \in L : Offset(x, L) \in Nat
        /\ \A x, y \in L : Offset(x, L) < Offset(y, L) <=> x < y
    BY Offsets, StoreAssumption
  <1>1. IsFiniteSet(Low(L, o)) /\ Cardinality(Low(L, o)) \in Nat
    <2>1. Low(L, o) \in SUBSET L
      BY DEF Low
    <2> QED
      BY <1>0, <2>1, FS_Subset, FS_CardinalityType
  <1>2. Cardinality(Low(L, o)) <= o
    <2> DEFINE f == [x \in Low(L, o) |-> Offset(x, L)]
    <2>1. \A x \in Low(L, o) : x \in L /\ Offset(x, L) \in 0 .. (o - 1)
      BY <1>0 DEF Low, Top
    <2>2. \A x, y \in Low(L, o) : f[x] = f[y] => x = y
      <3> SUFFICES ASSUME NEW x \in Low(L, o), NEW y \in Low(L, o), f[x] = f[y]
                   PROVE  x = y
        OBVIOUS
      <3>1. x \in Nat /\ y \in Nat /\ Offset(x, L) = Offset(y, L)
        BY <1>0, <2>1
      <3>2. ~ (x < y) /\ ~ (y < x)
        BY <1>0, <2>1, <3>1
      <3> QED
        BY <3>1, <3>2
    <2>3. f \in [Low(L, o) -> 0 .. (o - 1)]
      BY <2>1
    <2>4. f \in Injection(Low(L, o), 0 .. (o - 1))
      BY <2>2, <2>3 DEF Injection, IsInjective
    <2> HIDE DEF f
    <2>5. IsFiniteSet(0 .. (o - 1)) /\ Cardinality(0 .. (o - 1)) = o
      <3>1. 0 \in Int /\ o - 1 \in Int
        OBVIOUS
      <3>2. /\ IsFiniteSet(0 .. (o - 1))
            /\ Cardinality(0 .. (o - 1)) = IF 0 > o - 1 THEN 0 ELSE (o - 1) - 0 + 1
        BY <3>1, FS_Interval
      <3> QED
        BY <3>2
    <2> QED
      BY <2>4, <2>5, FS_Injection
  <1>3. ASSUME Top(L, o) # {}
        PROVE  Cardinality(Low(L, o)) = o /\ \E x \in Top(L, o) : Offset(x, L) = o
    <2>1. Top(L, o) \in SUBSET Nat
      BY <1>0 DEF Top
    <2>2. PICK x \in Top(L, o) : \A y \in Top(L, o) : x <= y
      BY <1>3, <2>1, Least
    <2>3. x \in L /\ Offset(x, L) >= o
      BY DEF Top
    <2>4. {j \in L : j < x} = Low(L, o)
      <3>1. ASSUME NEW j \in L, j < x PROVE j \in Low(L, o)
        <4>1. j \notin Top(L, o)
          BY <1>0, <2>2, <2>3, <3>1
        <4> QED
          BY <4>1 DEF Low
      <3>2. ASSUME NEW j \in Low(L, o) PROVE j \in L /\ j < x
        <4>1. j \in L /\ Offset(j, L) < o
          BY <1>0 DEF Low, Top
        <4>2. Offset(j, L) < Offset(x, L)
          BY <1>0, <2>3, <4>1
        <4> QED
          BY <1>0, <2>3, <4>1, <4>2
      <3> QED
        BY <3>1, <3>2 DEF Low
    <2>5. Offset(x, L) = Cardinality(Low(L, o))
      BY <2>4 DEF Offset
    <2> QED
      BY <1>0, <1>1, <1>2, <2>3, <2>5
  <1> QED
    BY <1>1, <1>2, <1>3

\* When a list becomes another, no more polls come to lie from position o on
\* than join the list.
LEMMA Crossing ==
  ASSUME NEW K \in SUBSET Ids, NEW L \in SUBSET Ids, NEW o \in Nat
  PROVE  /\ IsFiniteSet(Top(K, o) \ Top(L, o))
         /\ Cardinality(Top(K, o) \ Top(L, o)) \in Nat
         /\ Cardinality(Top(K, o) \ Top(L, o)) <= Cardinality(K \ L)
  <1> DEFINE T == Top(K, o)
             B == Low(K, o)
             C == Low(L, o)
             A == K \ L
             X == Top(K, o) \ Top(L, o)
  <1>0. /\ K \subseteq Nat /\ L \subseteq Nat
        /\ IsFiniteSet(K) /\ \A x \in K : Offset(x, K) \in Nat
        /\ \A x, y \in K : Offset(x, K) < Offset(y, K) <=> x < y
        /\ IsFiniteSet(L) /\ \A x \in L : Offset(x, L) \in Nat
        /\ \A x, y \in L : Offset(x, L) < Offset(y, L) <=> x < y
    BY Offsets, StoreAssumption
  <1>1. /\ T \subseteq K /\ B = K \ T /\ C \subseteq L /\ A \subseteq K
        /\ X = (A \cap T) \cup (C \cap T)
    BY DEF Top, Low
  <1>2. IsFiniteSet(X) /\ IsFiniteSet(A) /\ IsFiniteSet(B) /\ IsFiniteSet(C)
    <2>1. X \in SUBSET K /\ A \in SUBSET K /\ B \in SUBSET K /\ C \in SUBSET L
      BY <1>1
    <2> HIDE DEF X, A, B, C
    <2> QED
      BY <1>0, <2>1, FS_Subset
  <1>3. \A x \in K : x \in T <=> Offset(x, K) >= o
    BY DEF Top
  <1>4. \A x \in L : x \in C <=> Offset(x, L) < o
    BY <1>0 DEF Top, Low
  <1>5. T # {} => Cardinality(B) = o
    BY LowIs
  <1>6. Cardinality(C) <= o
    BY LowIs
  <1> HIDE DEF T, B, C, A, X
  <1>7. /\ Cardinality(X) \in Nat /\ Cardinality(A) \in Nat
        /\ Cardinality(A \cap T) \in Nat
    BY <1>2, FS_CardinalityType, Parted
  <1>8. Cardinality(X) <= Cardinality(A)
    <2>1. CASE C \cap T = {}
      <3>1. X \in SUBSET A
        BY <1>1, <2>1
      <3> QED
        BY <1>2, <3>1, FS_Subset
    <2>2. CASE C \cap T # {}
      <3>1. PICK y : y \in C /\ y \in T
        BY <2>2
      <3>2. \A z \in B \cap L : z \in C /\ z \notin T
        <4> SUFFICES ASSUME NEW z \in B \cap L PROVE z \in C /\ z \notin T
          OBVIOUS
        <4>1. z \in K /\ z \notin T /\ y \in K /\ y \in L /\ z \in L
          BY <1>1, <3>1
        <4>2. Offset(z, K) < o /\ Offset(y, K) >= o
          BY <1>0, <1>3, <3>1, <4>1
        <4>3. Offset(z, K) < Offset(y, K)
          BY <1>0, <4>1, <4>2
        <4>4. Offset(z, L) < Offset(y, L)
          BY <1>0, <4>1, <4>3
        <4>5. Offset(y, L) < o
          BY <1>4, <3>1, <4>1
        <4>6. Offset(z, L) < o
          BY <1>0, <4>1, <4>4, <4>5
        <4> QED
          BY <1>4, <4>1, <4>6
      <3>3. B \cap L \in SUBSET (C \ T)
        BY <3>2
      <3>4. IsFiniteSet(C \ T) /\ Cardinality(B \cap L) <= Cardinality(C \ T)
        <4>1. IsFiniteSet(C \ T)
          BY <1>2, FS_Difference
        <4> QED
          BY <3>3, <4>1, FS_Subset
      <3>5. /\ Cardinality(C) = Cardinality(C \cap T) + Cardinality(C \ T)
            /\ Cardinality(C) \in Nat /\ Cardinality(C \cap T) \in Nat
            /\ Cardinality(C \ T) \in Nat
        BY <1>2, Parted
      <3>6. /\ Cardinality(B) = Cardinality(B \cap L) + Cardinality(B \ L)
            /\ Cardinality(B) \in Nat /\ Cardinality(B \cap L) \in Nat
            /\ Cardinality(B \ L) \in Nat
        BY <1>2, Parted
      <3>7. /\ Cardinality(A) = Cardinality(A \cap T) + Cardinality(A \ T)
            /\ Cardinality(A \ T) \in Nat
        BY <1>2, Parted
      <3>8. A \ T = B \ L
        BY <1>1 DEF A
      <3>9. Cardinality(X) <= Cardinality(A \cap T) + Cardinality(C \cap T)
        <4>1. IsFiniteSet(A \cap T) /\ IsFiniteSet(C \cap T)
          BY <1>2, FS_Intersection
        <4>2. Cardinality(X) = Cardinality(A \cap T) + Cardinality(C \cap T)
                                 - Cardinality((A \cap T) \cap (C \cap T))
          BY <1>1, <4>1, FS_Union
        <4>3. Cardinality((A \cap T) \cap (C \cap T)) \in Nat
          BY <4>1, Parted
        <4> QED
          BY <1>7, <3>5, <4>2, <4>3
      <3>10. Cardinality(B) = o
        BY <1>5, <3>1
      <3>11. Cardinality(A \ T) = Cardinality(B \ L)
        BY <3>8
      <3>12. Cardinality(C \cap T) <= Cardinality(A \ T)
        BY <1>6, <3>4, <3>5, <3>6, <3>10, <3>11
      <3> QED
        BY <1>7, <3>5, <3>7, <3>9, <3>12
    <2> QED
      BY <2>1, <2>2
  <1> QED
    BY <1>2, <1>7, <1>8 DEF X, A

\* A page holds the PageSize polls from its position on, and no page follows
\* one behind which nothing is left.
LEMMA PageIs ==
  ASSUME NEW p \in Nat \ {0}, NEW o \in Nat, o = PageSize * (p - 1)
  PROVE  /\ PageOf(p) = Top(Listed(FALSE), o) \ Top(Listed(FALSE), o + PageSize)
         /\ NextPage(p) = 0 => Top(Listed(FALSE), o + PageSize) = {}
         /\ NextPage(p) # 0 => NextPage(p) = p + 1
  <1>1. PICK L \in SUBSET Ids : L = Listed(FALSE)
    BY DEF Listed
  <1>2. PICK R : R = PageRecords(p)
    OBVIOUS
  <1>3. PageSize \in Nat \ {0}
    BY StoreAssumption
  <1>4. /\ IsFiniteSet(L) /\ L \subseteq Nat /\ \A x \in L : Offset(x, L) \in Nat
        /\ \A x, y \in L : Offset(x, L) < Offset(y, L) <=> x < y
    BY Offsets, StoreAssumption
  <1>l. ASSUME NEW q \in Nat
        PROVE  \A j : j \in Low(L, q) <=> j \in L /\ Offset(j, L) < q
    <2>1. \A j : j \in Low(L, q) <=> j \in L /\ ~ (Offset(j, L) >= q)
      BY Zenon DEF Low, Top
    <2>2. \A j : j \in L => (~ (Offset(j, L) >= q) <=> Offset(j, L) < q)
      BY <1>4, <1>l
    <2> QED
      BY <2>1, <2>2
  <1>5. R = {id \in L : Offset(id, L) >= o /\ Offset(id, L) < o + PageSize + 1}
    <2>1. PageSize + 1 > 0
      BY <1>3
    <2>2. R = {id \in L : Offset(id, L) >= o /\ Offset(id, L) < o + (PageSize + 1)}
      BY <1>1, <1>2, <2>1 DEF PageRecords, GetFinalized
    <2>3. o + (PageSize + 1) = o + PageSize + 1
      BY <1>3
    <2> QED
      BY <2>2, <2>3
  <1>6. IsFiniteSet(R) /\ R \subseteq L
    BY <1>4, <1>5, FS_Subset
  <1>7. ASSUME NEW id \in R PROVE Offset(id, R) = Offset(id, L) - o
    <2> DEFINE B == {j \in L : j < id}
               C == {j \in R : j < id}
    <2>0. id \in L /\ Offset(id, L) \in Nat /\ Offset(id, L) >= o
          /\ Offset(id, L) < o + PageSize + 1
      BY <1>4, <1>5, <1>7
    <2>1. Top(L, o) # {}
      BY <2>0 DEF Top
    <2>2. Cardinality(Low(L, o)) = o
      BY <2>1, LowIs
    <2>3. \A j \in L : j \in B <=> Offset(j, L) < Offset(id, L)
      BY <1>4, <2>0
    <2>4. B \cap Low(L, o) = Low(L, o)
      <3>1. \A j \in Low(L, o) : j \in L /\ Offset(j, L) \in Nat /\ Offset(j, L) < o
        BY <1>4, <1>l
      <3>2. \A j \in Low(L, o) : Offset(j, L) < Offset(id, L)
        BY <2>0, <3>1
      <3>3. \A j \in Low(L, o) : j \in B
        BY <2>3, <3>1, <3>2
      <3> HIDE DEF B
      <3> QED
        BY <3>3
    <2>5. B \ Low(L, o) = C
      <3>1. ASSUME NEW j \in B, j \notin Low(L, o) PROVE j \in R
        <4>1. j \in L /\ Offset(j, L) >= o
          BY <3>1 DEF Low, Top
        <4>2. Offset(j, L) < Offset(id, L)
          BY <2>3, <3>1, <4>1
        <4>3. Offset(j, L) < o + PageSize + 1
          BY <1>3, <1>4, <2>0, <4>1, <4>2
        <4> QED
          BY <1>5, <4>1, <4>3
      <3>2. ASSUME NEW j \in R, j < id PROVE j \in B /\ j \notin Low(L, o)
        BY <1>5, <3>2 DEF Low, Top
      <3> QED
        BY <3>1, <3>2
    <2>6. IsFiniteSet(B)
      BY <1>4, FS_Subset
    <2>7. Offset(id, L) = Cardinality(B) /\ Offset(id, R) = Cardinality(C)
      BY DEF Offset
    <2> HIDE DEF B, C
    <2>8. /\ Cardinality(B) = Cardinality(B \cap Low(L, o)) + Cardinality(B \ Low(L, o))
          /\ Cardinality(B \ Low(L, o)) \in Nat
      BY <2>6, Parted
    <2>9. Cardinality(B) = o + Cardinality(C) /\ Cardinality(C) \in Nat
      BY <2>2, <2>4, <2>5, <2>8
    <2> QED
      BY <2>7, <2>9
  <1>8. PageOf(p) = Top(L, o) \ Top(L, o + PageSize)
    <2>1. PageOf(p) = {id \in R : Offset(id, R) < PageSize}
      BY <1>2 DEF PageOf
    <2>2. \A id \in R : Offset(id, R) < PageSize <=> Offset(id, L) < o + PageSize
      BY <1>3, <1>4, <1>6, <1>7
    <2>3. PageOf(p) = {id \in R : Offset(id, L) < o + PageSize}
      BY <2>1, <2>2
    <2>4. \A id \in L : id \in R /\ Offset(id, L) < o + PageSize
                    <=> Offset(id, L) >= o /\ ~ (Offset(id, L) >= o + PageSize)
      BY <1>3, <1>4, <1>5
    <2> QED
      BY <1>6, <2>3, <2>4 DEF Top
  <1>9. ASSUME Top(L, o + PageSize) # {} PROVE Cardinality(R) > PageSize
    <2> DEFINE B == Low(L, o + PageSize)
               C == Low(L, o)
    <2>0. o + PageSize \in Nat
      BY <1>3
    <2>1. IsFiniteSet(B) /\ Cardinality(B) = o + PageSize
      BY <1>9, <2>0, LowIs
    <2>2. PICK x \in Top(L, o + PageSize) : Offset(x, L) = o + PageSize
      BY <1>9, <2>0, LowIs
    <2>3. IsFiniteSet(C) /\ Cardinality(C) \in Nat /\ Cardinality(C) <= o
      BY LowIs
    <2>4. B \cap C = C
      <3>1. \A j \in C : j \in L /\ Offset(j, L) \in Nat /\ Offset(j, L) < o
        BY <1>4, <1>l
      <3>2. \A j \in C : j \in B
        BY <1>3, <1>l, <2>0, <3>1
      <3> HIDE DEF B, C
      <3> QED
        BY <3>2
    <2>5. B \ C \in SUBSET R /\ x \in R /\ x \notin B \ C
      <3>1. \A j \in B \ C : j \in L /\ Offset(j, L) >= o /\ Offset(j, L) < o + PageSize
        BY <1>4, <2>0 DEF Low, Top
      <3>2. \A j \in B \ C : j \in R
        <4> SUFFICES ASSUME NEW j \in B \ C PROVE j \in R
          OBVIOUS
        <4>1. j \in L /\ Offset(j, L) >= o /\ Offset(j, L) < o + PageSize
          BY <3>1
        <4>2. Offset(j, L) < o + PageSize + 1
          BY <1>3, <1>4, <4>1
        <4> QED
          BY <1>5, <4>1, <4>2
      <3>3. x \in L
        BY DEF Top
      <3>4. x \in R
        BY <1>3, <1>5, <2>2, <3>3
      <3> QED
        BY <3>2, <3>4 DEF Low
    <2> HIDE DEF B, C
    <2>6. /\ Cardinality(B) = Cardinality(B \cap C) + Cardinality(B \ C)
          /\ Cardinality(B \ C) \in Nat
      BY <2>1, Parted
    <2>7. Cardinality(B \ C) >= PageSize
      BY <1>3, <2>1, <2>3, <2>4, <2>6
    <2>8. IsFiniteSet(B \ C)
      BY <2>1, FS_Difference
    <2>9. Cardinality((B \ C) \cup {x}) = Cardinality(B \ C) + 1
      BY <2>5, <2>8, FS_AddElement
    <2>10. (B \ C) \cup {x} \in SUBSET R
      BY <2>5
    <2>11. Cardinality((B \ C) \cup {x}) <= Cardinality(R) /\ Cardinality(R) \in Nat
      BY <1>6, <2>10, FS_Subset, FS_CardinalityType
    <2> QED
      BY <1>3, <2>6, <2>7, <2>9, <2>11
  <1>10. NextPage(p) = IF Cardinality(R) > PageSize THEN p + 1 ELSE 0
    BY <1>2 DEF NextPage
  <1>11. NextPage(p) # 0 => NextPage(p) = p + 1
    BY <1>10
  <1>12. NextPage(p) = 0 => Top(L, o + PageSize) = {}
    <2>1. p + 1 # 0
      OBVIOUS
    <2> QED
      BY <1>9, <1>10, <2>1
  <1> QED
    BY <1>1, <1>8, <1>11, <1>12

\* The history of the walk is finite, whatever it is.
LEMMA WalkFinite ==
  ASSUME NEW S \in SUBSET Ids
  PROVE  IsFiniteSet(S) /\ Cardinality(S) \in Nat
  BY StoreAssumption, FS_Subset, FS_CardinalityType

\* No set of polls outgrows another by more than what joins it.
LEMMA Grows ==
  ASSUME NEW S \in SUBSET Ids, NEW T \in SUBSET Ids, NEW X \in SUBSET Ids, T \subseteq S \cup X,
         NEW n \in Nat, Cardinality(S) <= n, NEW k \in Nat, Cardinality(X) <= k
  PROVE  Cardinality(T) <= n + k
  <1>1. /\ IsFiniteSet(S) /\ Cardinality(S) \in Nat /\ IsFiniteSet(X) /\ Cardinality(X) \in Nat
        /\ IsFiniteSet(T) /\ Cardinality(T) \in Nat
    BY WalkFinite
  <1>2. IsFiniteSet(S \cup X) /\ IsFiniteSet(S \cap X) /\ Cardinality(S \cap X) \in Nat
        /\ Cardinality(S \cup X) = Cardinality(S) + Cardinality(X) - Cardinality(S \cap X)
    BY <1>1, FS_Union, FS_Intersection, Parted
  <1>3. Cardinality(T) <= Cardinality(S \cup X)
    BY <1>2, FS_Subset
  <1>4. Cardinality(S \cup X) \in Nat
    BY <1>2, FS_CardinalityType
  <1> QED
    BY <1>1, <1>2, <1>3, <1>4

-----------------------------------------------------------------------------
\* The steps of the store and of the walk keep its bounds.
LEMMA ExecuteWalk ==
  ASSUME TypeOK, TypeOK', WalkInv, NEW st, NEW who, Execute(who, st)
  PROVE  WalkInv'
  <1>0. walk' = walk /\ page' = page /\ fetched' = fetched
    BY DEF Execute, pageVars
  <1>1. CASE walk # "on"
    <2>1. steady' = steady /\ lost' = lost /\ gained' = gained
      BY <1>1, Zenon DEF Execute, listVars
    <2> QED
      BY <1>0, <1>1, <2>1 DEF WalkInv, WalkFaithful
  <1>2. CASE walk = "on"
    <2>1. PICK L \in SUBSET Ids : L = Listed(FALSE)
      BY DEF Listed
    <2>2. PICK K \in SUBSET Ids : K = Listed(FALSE)'
      BY DEF Listed
    <2>a. PICK P \in SUBSET K : P = Plain'
      BY <2>2 DEF Plain
    <2>3. /\ steady' = steady \cap P
          /\ lost' = lost + Cardinality(L \ K) /\ gained' = gained + Cardinality(K \ L)
      BY <1>2, <2>1, <2>2, <2>a, Zenon DEF Execute
    <2>4. page \in Nat \ {0} /\ lost \in Nat /\ gained \in Nat /\ steady \subseteq L
      BY <1>2, <2>1 DEF WalkInv, TypeOK, Plain
    <2>5. PICK o : o = Ahead
      OBVIOUS
    <2>6. Ahead' = o /\ o \in Nat
      BY <1>0, <2>4, <2>5, StoreAssumption DEF Ahead
    <2>7. /\ Cardinality(Top(L, o) \ Top(K, o)) <= Cardinality(L \ K)
          /\ Cardinality(Top(K, o) \ Top(L, o)) <= Cardinality(K \ L)
      BY <2>6, Crossing
    <2>8. Cardinality(L \ K) \in Nat /\ Cardinality(K \ L) \in Nat
      BY WalkFinite
    <2>9. Missed = {id \in steady : fetched[id] = 0 /\ id \notin Top(L, o)}
      BY <2>1, <2>5 DEF Missed
    <2>10. Missed' = {id \in steady \cap P : fetched[id] = 0 /\ id \notin Top(K, o)}
      BY <1>0, <2>2, <2>3, <2>6 DEF Missed
    <2>11. Cardinality(Missed') <= lost + Cardinality(L \ K)
      <3>1. Missed' \subseteq Missed \cup (Top(L, o) \ Top(K, o))
        BY <2>4, <2>9, <2>10
      <3>2. /\ Missed \in SUBSET Ids /\ Missed' \in SUBSET Ids
            /\ Top(L, o) \ Top(K, o) \in SUBSET Ids
        BY <2>4, <2>9, <2>10 DEF Top
      <3>3. Cardinality(Missed) <= lost
        BY <1>2 DEF WalkInv
      <3> QED
        BY <2>4, <2>7, <2>8, <3>1, <3>2, <3>3, Grows
    <2>12. Again = {id \in Top(L, o) : fetched[id] > 0} /\ Again' = {id \in Top(K, o) : fetched[id] > 0}
      BY <1>0, <2>1, <2>2, <2>5, <2>6 DEF Again
    <2>13. Repeated' = Repeated /\ Repeated \in SUBSET Ids
      BY <1>0 DEF Repeated
    <2>14. Cardinality((Repeated \cup Again)') <= gained + Cardinality(K \ L)
      <3>1. (Repeated \cup Again)' \subseteq (Repeated \cup Again) \cup (Top(K, o) \ Top(L, o))
        BY <2>12, <2>13
      <3>2. /\ (Repeated \cup Again) \in SUBSET Ids /\ (Repeated \cup Again)' \in SUBSET Ids
            /\ Top(K, o) \ Top(L, o) \in SUBSET Ids
        BY <2>12, <2>13 DEF Top
      <3>3. Cardinality(Repeated \cup Again) <= gained
        BY <1>2 DEF WalkInv
      <3> QED
        BY <2>4, <2>7, <2>8, <3>1, <3>2, <3>3, Grows
    <2>15. walk' # "done"
      BY <1>0, <1>2
    <2>16. steady' \subseteq Plain'
      BY <2>3, <2>a
    <2> QED
      BY <1>0, <2>3, <2>4, <2>11, <2>14, <2>15, <2>16 DEF WalkInv, WalkFaithful
  <1> QED
    BY <1>1, <1>2

\* The last of some polls.
LEMMA Greatest ==
  ASSUME NEW S \in SUBSET Ids, S # {}
  PROVE  \E x \in S : \A y \in S : y <= x
  <1> DEFINE Above(x) == {y \in S : x < y}
  <1>1. \A y \in S : y \in Nat
    BY StoreAssumption
  <1>2. \A x \in S : Above(x) \in SUBSET Ids
    OBVIOUS
  <1>3. \A x \in S : IsFiniteSet(Above(x)) /\ Cardinality(Above(x)) \in Nat
    BY <1>2, WalkFinite
  <1> DEFINE D == {Cardinality(Above(x)) : x \in S}
  <1> HIDE DEF Above
  <1>4. D \in SUBSET Nat /\ D # {}
    BY <1>3
  <1>5. PICK d \in D : \A e \in D : d <= e
    BY <1>4, Least
  <1>6. PICK x \in S : d = Cardinality(Above(x))
    BY <1>5
  <1>7. ASSUME NEW y \in S, x < y PROVE FALSE
    <2>1. Above(y) \in SUBSET Above(x) /\ y \in Above(x) /\ y \notin Above(y)
      BY <1>1, <1>7 DEF Above
    <2>2. Cardinality(Above(y)) <= Cardinality(Above(x)) /\ Cardinality(Above(y)) # Cardinality(Above(x))
      BY <1>3, <2>1, FS_Subset
    <2>3. Cardinality(Above(x)) <= Cardinality(Above(y))
      BY <1>5, <1>6
    <2> QED
      BY <1>3, <2>2, <2>3
  <1>8. \A y \in S : y <= x
    BY <1>1, <1>7
  <1> QED
    BY <1>8

\* A page is its records, and of the plain ones the client gets a row: the votes
\* under their title are those of the last record that has it, a rating too.
LEMMA PlainHasRow ==
  ASSUME NEW p, PageOf(p) \in SUBSET Listed(FALSE)
  PROVE  /\ PageRows(p) \subseteq PageOf(p)
         /\ \A id \in Plain : id \in PageOf(p) => id \in PageRows(p)
  <1>1. PageRows(p) \subseteq PageOf(p)
    BY DEF PageRows
  <1>2. ASSUME NEW id \in Plain, id \in PageOf(p) PROVE id \in PageRows(p)
    <2>1. PICK R \in SUBSET Listed(FALSE) : R = PageOf(p)
      OBVIOUS
    <2> DEFINE M == {j \in R : MapKey(j) = PairTitle(id)}
    <2>2. M \in SUBSET Ids /\ id \in M
      BY <1>2, <2>1, ListedFinite DEF MapKey, PairTitle
    <2>3. PICK from \in M : \A j \in M : j <= from
      BY <2>2, Greatest
    <2>4. from \in R /\ MapKey(from) = PairTitle(id)
      BY <2>3
    <2>5. IsRating(from)
      <3>1. \A j \in Listed(FALSE) :
              Filter[Title(Shown(j))] = Filter[Title(Shown(id))] => IsRating(j)
        BY <1>2 DEF Plain
      <3> QED
        BY <2>4, <3>1 DEF MapKey, PairTitle
    <2>6. <<id, from>> \in ToCSV(R)
      <3>1. \A later \in R : MapKey(later) = PairTitle(id) => later <= from
        BY <2>3
      <3>2. <<id, from>> \in R \X R
        BY <1>2, <2>1, <2>4
      <3> QED
        BY <2>4, <2>5, <3>1, <3>2 DEF ToCSV
    <2> QED
      BY <1>2, <2>1, <2>4, <2>6 DEF PageRows
  <1> QED
    BY <1>1, <1>2

LEMMA FetchWalk ==
  ASSUME TypeOK, WalkInv, FetchPage
  PROVE  WalkInv'
  <1>1. PICK L \in SUBSET Ids : L = Listed(FALSE)
    BY DEF Listed
  <1>2. Listed(FALSE)' = L
    BY <1>1 DEF FetchPage, tables, Listed, Shown
  <1>3. PICK o : o = Ahead
    OBVIOUS
  <1>4. /\ page \in Nat \ {0} /\ lost \in Nat /\ gained \in Nat /\ steady \subseteq L
        /\ fetched \in [Ids -> Nat]
        /\ Cardinality(Missed) <= lost /\ Cardinality(Repeated \cup Again) <= gained
    BY <1>1 DEF WalkInv, TypeOK, FetchPage, Plain
  <1>5. o \in Nat /\ o = PageSize * (page - 1)
    BY <1>3, <1>4, StoreAssumption DEF Ahead
  <1>6. /\ PageOf(page) = Top(L, o) \ Top(L, o + PageSize)
        /\ NextPage(page) = 0 => Top(L, o + PageSize) = {}
        /\ NextPage(page) # 0 => NextPage(page) = page + 1
    BY <1>1, <1>4, <1>5, PageIs
  <1>p. /\ PageRows(page) \subseteq PageOf(page)
        /\ \A id \in steady : id \in PageOf(page) => id \in PageRows(page)
    <2>1. PageOf(page) \in SUBSET Listed(FALSE) /\ steady \subseteq Plain
      BY <1>1, <1>6 DEF Top, WalkInv, FetchPage
    <2> QED
      BY <2>1, PlainHasRow
  <1>7. /\ \A id \in Ids : fetched'[id] = fetched[id] + IF id \in PageRows(page) THEN 1 ELSE 0
        /\ page' = NextPage(page)
        /\ walk' = IF NextPage(page) = 0 THEN "done" ELSE "on"
        /\ steady' = steady /\ lost' = lost /\ gained' = gained
    BY DEF FetchPage, listVars
  <1>8. \A id \in Top(L, o + PageSize) : id \in Top(L, o)
    <2>1. /\ o \in Nat /\ PageSize \in Nat
          /\ \A id \in L : Offset(id, L) \in Nat
      BY <1>1, <1>5, StoreAssumption, Offsets
    <2> QED
      BY <2>1 DEF Top
  <1>m. Missed = {id \in steady : fetched[id] = 0 /\ id \notin Top(L, o)}
    BY <1>1, <1>3 DEF Missed
  <1>a. Again = {id \in Top(L, o) : fetched[id] > 0}
    BY <1>1, <1>3 DEF Again
  <1>9. \A id \in steady : fetched'[id] = 0 /\ id \notin Top(L, o + PageSize) => id \in Missed
    <2> SUFFICES ASSUME NEW id \in steady, fetched'[id] = 0, id \notin Top(L, o + PageSize)
                 PROVE  fetched[id] = 0 /\ id \notin Top(L, o)
      BY <1>m
    <2>1. id \in Ids /\ fetched[id] \in Nat
      BY <1>4
    <2>2. fetched[id] = 0 /\ id \notin PageRows(page)
      BY <1>7, <2>1
    <2>3. id \notin PageOf(page)
      BY <1>p, <2>2
    <2> QED
      BY <1>4, <1>6, <2>2, <2>3
  <1>10. Repeated' \subseteq Repeated \cup Again
    <2> SUFFICES ASSUME NEW id \in Ids, fetched'[id] > 1, ~ (fetched[id] > 1)
                 PROVE  id \in Again
      BY DEF Repeated
    <2>1. fetched[id] \in Nat
      BY <1>4
    <2>2. id \in PageOf(page) /\ fetched[id] > 0
      BY <1>7, <1>p, <2>1
    <2> QED
      BY <1>6, <1>a, <2>2
  <1>11. Missed \in SUBSET Ids /\ (Repeated \cup Again) \in SUBSET Ids
    BY <1>1, <1>4, <1>m, <1>a DEF Repeated, Top
  <1>12. CASE NextPage(page) = 0
    <2>1. {id \in steady : fetched'[id] = 0} \subseteq Missed
      BY <1>6, <1>9, <1>12
    <2>2. {id \in steady : fetched'[id] = 0} \in SUBSET Missed
      BY <2>1
    <2>3. Cardinality({id \in steady : fetched'[id] = 0}) <= lost
      <3>1. Cardinality({id \in steady : fetched'[id] = 0}) <= Cardinality(Missed)
        BY <1>11, <2>2, WalkFinite, FS_Subset
      <3>2. /\ Cardinality({id \in steady : fetched'[id] = 0}) \in Nat
            /\ Cardinality(Missed) \in Nat
        BY <1>11, <2>2, WalkFinite
      <3> QED
        BY <1>4, <3>1, <3>2
    <2>4. Cardinality(Repeated') <= gained
      <3>1. Repeated' \in SUBSET (Repeated \cup Again)
        BY <1>10
      <3>2. Cardinality(Repeated') <= Cardinality(Repeated \cup Again)
        BY <1>11, <3>1, WalkFinite, FS_Subset
      <3>3. Cardinality(Repeated') \in Nat /\ Cardinality(Repeated \cup Again) \in Nat
        BY <1>11, <3>1, WalkFinite
      <3> QED
        BY <1>4, <3>2, <3>3
    <2> QED
      BY <1>7, <1>12, <2>3, <2>4 DEF WalkInv, WalkFaithful, Repeated
  <1>13. CASE NextPage(page) # 0
    <2>1. page' = page + 1 /\ walk' = "on" /\ page' \in Nat \ {0}
      BY <1>4, <1>6, <1>7, <1>13
    <2>2. Ahead' = o + PageSize
      <3>1. page \in Int /\ PageSize \in Int
        BY <1>4, StoreAssumption
      <3>2. PageSize * ((page + 1) - 1) = PageSize * (page - 1) + PageSize
        BY <3>1
      <3> QED
        BY <1>5, <2>1, <3>2 DEF Ahead
    <2>3. Missed' \in SUBSET Missed
      BY <1>2, <1>7, <1>9, <2>2 DEF Missed
    <2>4. Again' \subseteq Repeated \cup Again
      <3>1. Again' = {id \in Top(L, o + PageSize) : fetched'[id] > 0}
        BY <1>2, <2>2 DEF Again
      <3> SUFFICES ASSUME NEW id \in Top(L, o + PageSize), fetched'[id] > 0
                   PROVE  id \in Again
        BY <3>1
      <3>2. id \in Ids /\ id \notin PageOf(page) /\ id \in Top(L, o)
        BY <1>6, <1>8 DEF Top
      <3>3. fetched[id] > 0
        BY <1>4, <1>7, <1>p, <3>2
      <3> QED
        BY <1>a, <3>2, <3>3
    <2>5. (Repeated \cup Again)' \in SUBSET (Repeated \cup Again)
      BY <1>10, <2>4
    <2>6. Cardinality(Missed') <= lost
      <3>1. Cardinality(Missed') <= Cardinality(Missed)
        BY <1>11, <2>3, WalkFinite, FS_Subset
      <3>2. Cardinality(Missed') \in Nat /\ Cardinality(Missed) \in Nat
        BY <1>11, <2>3, WalkFinite
      <3> QED
        BY <1>4, <3>1, <3>2
    <2>7. Cardinality((Repeated \cup Again)') <= gained
      <3>1. Cardinality((Repeated \cup Again)') <= Cardinality(Repeated \cup Again)
        BY <1>11, <2>5, WalkFinite, FS_Subset
      <3>2. /\ Cardinality((Repeated \cup Again)') \in Nat
            /\ Cardinality(Repeated \cup Again) \in Nat
        BY <1>11, <2>5, WalkFinite
      <3> QED
        BY <1>4, <3>1, <3>2
    <2>8. steady' \subseteq Plain'
      <3>1. Plain' = Plain
        BY DEF FetchPage, tables, Plain, Listed, Shown, IsRating
      <3>2. steady \subseteq Plain
        BY DEF WalkInv, FetchPage
      <3> QED
        BY <1>7, <3>1, <3>2
    <2> QED
      BY <1>7, <2>1, <2>6, <2>7, <2>8 DEF WalkInv, WalkFaithful
  <1> QED
    BY <1>12, <1>13

LEMMA StartsWalk ==
  ASSUME StartWalk
  PROVE  WalkInv'
  <1>1. PICK L \in SUBSET Ids : L = Listed(FALSE)
    BY DEF Listed
  <1>2. Listed(FALSE)' = L
    BY <1>1 DEF StartWalk, tables, Listed, Shown
  <1>3. /\ walk' = "on" /\ page' = 1 /\ steady' = Plain /\ lost' = 0 /\ gained' = 0
        /\ \A id \in Ids : fetched'[id] = 0
    BY <1>1 DEF StartWalk
  <1>4. Ahead' = 0
    BY <1>3, StoreAssumption DEF Ahead
  <1>5. \A id \in L : id \in Ids /\ id \in Top(L, 0)
    <2>1. \A id \in L : id \in Ids /\ Offset(id, L) \in Nat
      BY <1>1, Offsets
    <2> QED
      BY <2>1 DEF Top
  <1>6. Missed' = {}
    <2>1. steady' \subseteq L
      BY <1>1, <1>3 DEF Plain
    <2> QED
      BY <1>2, <1>4, <1>5, <2>1 DEF Missed
  <1>7. (Repeated \cup Again)' = {}
    <2>1. Repeated' = {}
      BY <1>3 DEF Repeated
    <2>2. Again' = {id \in Top(L, 0) : fetched'[id] > 0}
      BY <1>2, <1>4 DEF Again
    <2>3. \A id \in Top(L, 0) : fetched'[id] = 0
      BY <1>3, <1>5 DEF Top
    <2>4. Again' = {}
      BY <2>2, <2>3
    <2> QED
      BY <2>1, <2>4
  <1>8. Cardinality(Missed') = 0 /\ Cardinality((Repeated \cup Again)') = 0
    BY <1>6, <1>7, FS_EmptySet
  <1>9. page' \in Nat \ {0} /\ steady' \subseteq Plain'
    <2>1. page' \in Nat \ {0}
      BY <1>3
    <2>2. steady' = Plain'
      <3>1. Plain' = Plain
        BY DEF StartWalk, tables, Plain, Listed, Shown, IsRating
      <3> QED
        BY <1>3, <3>1
    <2> QED
      BY <2>1, <2>2, Zenon
  <1>10. Cardinality(Missed') <= lost' /\ Cardinality((Repeated \cup Again)') <= gained'
    BY <1>3, <1>8
  <1> QED
    BY <1>3, <1>9, <1>10 DEF WalkInv, WalkFaithful

LEMMA NextWalk == TypeOK /\ TypeOK' /\ WalkInv /\ [Next]_vars => WalkInv'
  <1> SUFFICES ASSUME TypeOK, TypeOK', WalkInv, [Next]_vars PROVE WalkInv'
    OBVIOUS
  <1>a. ASSUME UNCHANGED <<tables, pageVars, listVars>> PROVE WalkInv'
    <2>1. /\ walk' = walk /\ page' = page /\ fetched' = fetched /\ steady' = steady
          /\ lost' = lost /\ gained' = gained /\ results' = results /\ manual' = manual
      BY <1>a DEF tables, pageVars, listVars
    <2>2. Listed(FALSE)' = Listed(FALSE) /\ Plain' = Plain /\ Ahead' = Ahead
      BY <2>1 DEF Listed, Plain, IsRating, Shown, Ahead
    <2>3. Missed' = Missed /\ (Repeated \cup Again)' = (Repeated \cup Again)
      BY <2>1, <2>2 DEF Missed, Repeated, Again
    <2> QED
      BY <2>1, <2>2, <2>3 DEF WalkInv, WalkFaithful
  <1>1. ASSUME NEW h \in Handlers, Request(h) PROVE WalkInv'
    <2>1. PICK do \in Kinds : \E on \in On(do) : \E q :
            Begin(h, do, on, q) /\ Plan(q, [do |-> do, on |-> on])
      BY <1>1, RequestBegins
    <2>2. UNCHANGED <<tables, pageVars, listVars>>
      BY <2>1 DEF Begin
    <2> QED
      BY <1>a, <2>2
  <1>2. ASSUME NEW h \in Handlers, Exec(h) PROVE WalkInv'
    BY <1>2, ExecuteWalk DEF Exec
  <1>3. ASSUME NEW h \in Handlers, ExecFails(h) PROVE WalkInv'
    BY <1>3, <1>a DEF ExecFails
  <1>4. ASSUME NEW ids \in Batches, Insert(ids) PROVE WalkInv'
    BY <1>4, ExecuteWalk DEF Insert
  <1>5. CASE Crash \/ UNCHANGED vars
    BY <1>5, <1>a DEF Crash, vars
  <1>6. CASE FetchFails
    <2>1. walk' = "none"
      BY <1>6 DEF FetchFails
    <2> QED
      BY <2>1 DEF WalkInv, WalkFaithful
  <1> QED
    BY <1>1, <1>2, <1>3, <1>4, <1>5, <1>6, StartsWalk, FetchWalk DEF Next

\* Whatever is written while a client fetches page after page, of the ratings
\* that keep their filtered title to ratings it misses at most as many as left
\* the list, and it sees at most as many polls twice as joined it, for every size
\* of a page and of the list (fetchContent, GetPage, ToCSV).
THEOREM WalkFaithfulHolds == Spec => []WalkFaithful
  <1>1. Init => WalkInv
    BY DEF Init, WalkInv, WalkFaithful
  <1>2. TypeOK /\ TypeOK' /\ WalkInv /\ [Next]_vars => WalkInv'
    BY NextWalk
  <1>3. WalkInv => WalkFaithful
    BY DEF WalkInv
  <1> QED
    BY <1>1, <1>2, <1>3, StoreTypeCorrect, PTL DEF Spec
-----------------------------------------------------------------------------
(***************************************************************************)
(* The export                                                              *)
(***************************************************************************)
\* Without an offset and a limit every poll of the list is read.
LEMMA WholeList ==
  ASSUME NEW omitInactive \in BOOLEAN
  PROVE  GetFinalized(0, 0, omitInactive) = Listed(omitInactive)
  <1>1. PICK L \in SUBSET Ids : L = Listed(omitInactive)
    BY DEF Listed
  <1>2. \A id \in L : Offset(id, L) >= 0
    BY Offsets
  <1> QED
    BY <1>1, <1>2 DEF GetFinalized

\* A poll with a title of its own has the row of its own votes, although the
\* votes are kept under the title (ToCSV).
LEMMA ExportRows == RowsAreTheirPolls
  <1>1. PICK R \in SUBSET Ids : R = GetFinalized(0, 0, TRUE)
    BY WholeList DEF Listed
  <1> SUFFICES ASSUME NEW id \in R,
                      \A j \in R \ {id} : Filter[Title(Shown(j))] # Filter[Title(Shown(id))],
                      NEW from \in R
               PROVE  <<id, from>> \in ToCSV(R) <=> from = id /\ IsRating(id)
    BY <1>1 DEF RowsAreTheirPolls
  <1>2. \A j \in R : MapKey(j) = PairTitle(id) => j = id
    BY DEF MapKey, PairTitle
  <1>3. MapKey(id) = PairTitle(id) /\ id <= id
    <2>1. id \in Nat
      BY <1>1, StoreAssumption
    <2> QED
      BY <2>1 DEF MapKey, PairTitle
  <1>4. <<id, from>> \in ToCSV(R) <=>
          /\ MapKey(from) = PairTitle(id) /\ IsRating(from)
          /\ \A later \in R : MapKey(later) = PairTitle(id) => later <= from
    BY DEF ToCSV
  <1> QED
    BY <1>2, <1>3, <1>4

\* An export has, for every poll with a title of its own, the row of its own
\* votes if it is a rating and no other.
THEOREM RowsAreTheirPollsHolds == Spec => []RowsAreTheirPolls
  BY ExportRows, PTL
=============================================================================
