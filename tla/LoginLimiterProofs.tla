------------------------- MODULE LoginLimiterProofs -------------------------
(***************************************************************************)
(* Proofs about LoginLimiter for every set of addresses and handlers, every*)
(* number of failures and every length of a ban: type correctness, and that*)
(* the limiter, with its map that grows and is swept, implements           *)
(* LoginStrikes, which keeps the strikes of every address; and how many    *)
(* guesses an address gets.                                                *)
(***************************************************************************)
EXTENDS LoginLimiter, FiniteSetTheorems, FunctionTheorems, TLAPS

\* An address without an entry is as the zero value has it, which is what the
\* refinement needs of the sweep; a handler has answered only what it serves;
\* a failure that counts is less than a window old.
EntryInv ==
  /\ \A a \in Addresses \ entries :
       failures[a] = 0 /\ since[a] = Window /\ left[a] = -1
  /\ \A h \in Handlers : status[h] # 0 => serving[h] # Nobody

IInv == TypeOK /\ EntryInv

LEMMA InitIInv == Init => IInv
  BY LimiterAssumption DEF Init, IInv, TypeOK, EntryInv, Window, Never

LEMMA SweepKeeps ==
  ASSUME IInv, Sweep
  PROVE  /\ failures' \in [Addresses -> 0 .. MaxFailed - 1]
         /\ since' \in [Addresses -> 0 .. Window] /\ left' \in [Addresses -> -1 .. Ban]
         /\ entries' \subseteq Addresses /\ sinceSweep' \in 0 .. Window
         /\ \A a \in Addresses \ entries' :
              failures'[a] = 0 /\ since'[a] = Window /\ left'[a] = -1
         /\ \A a \in Addresses : IF a \in Swept
              THEN since[a] = Window /\ left[a] = -1 /\ since'[a] = Window /\ left'[a] = -1
              ELSE failures'[a] = failures[a] /\ since'[a] = since[a] /\ left'[a] = left[a]
  BY LimiterAssumption DEF IInv, TypeOK, EntryInv, Sweep, Swept, Over, Window

\* A handler that answered serves an address, and only its own entry changes.
LEMMA Serving ==
  ASSUME IInv, NEW h \in Handlers, status[h] # 0
  PROVE  serving[h] \in Addresses
  BY DEF IInv, TypeOK, EntryInv

FailuresNow(a) == (IF since[a] >= Window THEN 0 ELSE failures[a]) + 1

\* What recordLoginFailure does to the entry of a.
CountsFor(h, a) ==
  LET n == FailuresNow(a)
  IN /\ serving[h] = a /\ n \in Nat
     /\ entries' = entries \cup {a} /\ since' = [since EXCEPT ![a] = 0]
     /\ failures' = [failures EXCEPT ![a] = IF n >= MaxFailed THEN 0 ELSE n]
     /\ left' = [left EXCEPT ![a] = IF n >= MaxFailed THEN Ban ELSE left[a]]
     /\ recent' = [recent EXCEPT ![a][0] = @ + 1]
     /\ Return(h)

\* What clearLoginFailures does to it.
ClearsFor(h, a) ==
  /\ serving[h] = a /\ Zero(a) /\ entries' = entries \ {a}
  /\ recent' = [recent EXCEPT ![a] = Never]
  /\ Return(h)

LEMMA Counted ==
  ASSUME IInv, NEW h \in Handlers, recordLoginFailure(h)
  PROVE  \E a \in Addresses : CountsFor(h, a)
  <1>1. serving[h] \in Addresses
    BY Serving DEF recordLoginFailure, isFailedLogin
  <1>2. left = [left EXCEPT ![serving[h]] = left[serving[h]]]
    BY <1>1 DEF IInv, TypeOK
  <1>3. FailuresNow(serving[h]) \in Nat
    BY <1>1, LimiterAssumption DEF FailuresNow, IInv, TypeOK
  <1> WITNESS serving[h] \in Addresses
  <1> QED
    BY <1>1, <1>2, <1>3 DEF recordLoginFailure, CountsFor, FailuresNow

LEMMA Cleared ==
  ASSUME IInv, NEW h \in Handlers, clearLoginFailures(h)
  PROVE  \E a \in Addresses : ClearsFor(h, a)
  <1>1. serving[h] \in Addresses
    BY Serving DEF clearLoginFailures
  <1> WITNESS serving[h] \in Addresses
  <1> QED
    BY DEF clearLoginFailures, ClearsFor

\* Every step of the limiter keeps the invariant.
LEMMA NextIInv == IInv /\ [Next]_vars => IInv'
  <1> SUFFICES ASSUME IInv, [Next]_vars PROVE IInv'
    OBVIOUS
  <1> USE LimiterAssumption
  <1>1. ASSUME NEW h \in Handlers, NEW a \in Addresses, Admit(h, a) PROVE IInv'
    BY <1>1, SweepKeeps DEF Admit, IInv, TypeOK, EntryInv
  <1>2. ASSUME NEW h \in Handlers, NEW a \in Addresses, TurnAway(h, a) PROVE IInv'
    BY <1>2, SweepKeeps DEF TurnAway, IInv, TypeOK, EntryInv
  <1>3. ASSUME NEW h \in Handlers, Serve(h) PROVE IInv'
    BY <1>3 DEF Serve, IInv, TypeOK, EntryInv, entryVars, Answers
  <1>4. ASSUME NEW h \in Handlers, recordLoginFailure(h) PROVE IInv'
    <2>1. PICK a \in Addresses : CountsFor(h, a)
      BY <1>4, Counted
    <2>2. recent' \in [Addresses -> [0 .. Window - 1 -> Nat]]
      BY <2>1 DEF CountsFor, IInv, TypeOK, Window
    <2>3. since' \in [Addresses -> 0 .. Window]
      BY <2>1 DEF CountsFor, IInv, TypeOK, Window
    <2>4. left' \in [Addresses -> -1 .. Ban]
      BY <2>1 DEF CountsFor, IInv, TypeOK
    <2>5. failures' \in [Addresses -> 0 .. MaxFailed - 1]
      BY <2>1 DEF CountsFor, IInv, TypeOK
    <2>6. \A b \in Addresses \ entries' :
            failures'[b] = 0 /\ since'[b] = Window /\ left'[b] = -1
      BY <2>1 DEF CountsFor, IInv, TypeOK, EntryInv
    <2>7. \A g \in Handlers : status'[g] # 0 => serving'[g] # Nobody
      BY <2>1 DEF CountsFor, Return, IInv, TypeOK, EntryInv
    <2>8. /\ serving' \in [Handlers -> Addresses \cup {Nobody}]
          /\ status' \in [Handlers -> Answers \cup {0}]
          /\ entries' \subseteq Addresses /\ sinceSweep' \in 0 .. Window
      BY <2>1 DEF CountsFor, Return, IInv, TypeOK
    <2> QED
      BY <2>2, <2>3, <2>4, <2>5, <2>6, <2>7, <2>8 DEF IInv, TypeOK, EntryInv
  <1>5. ASSUME NEW h \in Handlers, clearLoginFailures(h) PROVE IInv'
    <2>1. PICK a \in Addresses : ClearsFor(h, a)
      BY <1>5, Cleared
    <2> QED
      BY <2>1 DEF ClearsFor, Zero, Return, Never, IInv, TypeOK, EntryInv, Window
  <1>6. ASSUME NEW h \in Handlers, CountNothing(h) PROVE IInv'
    BY <1>6 DEF CountNothing, Return, entryVars, IInv, TypeOK, EntryInv
  <1>7. CASE Tick
    <2>1. recent' \in [Addresses -> [0 .. Window - 1 -> Nat]]
      BY <1>7 DEF Tick, IInv, TypeOK, Window
    <2>2. since' \in [Addresses -> 0 .. Window] /\ sinceSweep' \in 0 .. Window
      BY <1>7 DEF Tick, IInv, TypeOK, Window
    <2>3. left' \in [Addresses -> -1 .. Ban]
      BY <1>7 DEF Tick, IInv, TypeOK
    <2>4. \A b \in Addresses \ entries' :
            failures'[b] = 0 /\ since'[b] = Window /\ left'[b] = -1
      BY <1>7 DEF Tick, IInv, TypeOK, EntryInv, Window
    <2>5. UNCHANGED <<entries, failures, serving, status>>
      BY <1>7 DEF Tick
    <2> QED
      BY <2>1, <2>2, <2>3, <2>4, <2>5 DEF IInv, TypeOK, EntryInv
  <1>8. CASE UNCHANGED vars
    BY <1>8 DEF vars, entryVars, IInv, TypeOK, EntryInv
  <1> QED
    BY <1>1, <1>2, <1>3, <1>4, <1>5, <1>6, <1>7, <1>8 DEF Next, Finish
-----------------------------------------------------------------------------
LEMMA LimiterInvariant == Spec => []IInv
  BY InitIInv, NextIInv, PTL DEF Spec

\* The state of the limiter keeps its types: in particular the count of an
\* entry stays below MaxFailed, since the failure that reaches it starts a ban
\* and resets it.
THEOREM LimiterTypeCorrect == Spec => []TypeOK
  <1>1. IInv => TypeOK
    BY DEF IInv
  <1> QED
    BY <1>1, LimiterInvariant, PTL
-----------------------------------------------------------------------------
LEMMA StrikesInit == Init => Strikes!Init
  BY LimiterAssumption DEF Init, Strikes!Init, Window

LEMMA StrikesNext == IInv /\ [Next]_vars => [Strikes!Next]_(Strikes!sVars)
  <1> SUFFICES ASSUME IInv, [Next]_vars PROVE [Strikes!Next]_(Strikes!sVars)
    OBVIOUS
  <1> USE LimiterAssumption
  <1> DEFINE S(a) == IF since[a] >= Window THEN 0 ELSE failures[a]
             F(a) == Window - since[a]
             B(a) == IF left[a] < 0 THEN 0 ELSE left[a]
  <1>0. ASSUME Sweep
        PROVE  \A a \in Addresses : S(a)' = S(a) /\ F(a)' = F(a) /\ B(a)' = B(a)
    BY <1>0, SweepKeeps DEF IInv, TypeOK, Window
  <1>1. ASSUME NEW h \in Handlers, NEW a \in Addresses, Admit(h, a)
        PROVE  Strikes!Try(h, a)
    <2>1. B(a) = 0
      BY <1>1 DEF Admit, Banned, Swept, Over, IInv, TypeOK, EntryInv
    <2> QED
      BY <1>1, <2>1, <1>0 DEF Admit, Strikes!Try
  <1>2. ASSUME NEW h \in Handlers, NEW a \in Addresses, TurnAway(h, a)
        PROVE  UNCHANGED Strikes!sVars
    BY <1>2, <1>0 DEF TurnAway, Strikes!sVars
  <1>3. ASSUME NEW h \in Handlers, Serve(h)
        PROVE  UNCHANGED Strikes!sVars
    BY <1>3 DEF Serve, entryVars, Strikes!sVars
  <1>4. ASSUME NEW h \in Handlers, recordLoginFailure(h)
        PROVE  Strikes!Strike(h)
    <2>1. PICK a \in Addresses : CountsFor(h, a)
      BY <1>4, Counted
    <2>2. \A b \in Addresses : b # a =>
            failures'[b] = failures[b] /\ since'[b] = since[b] /\ left'[b] = left[b]
      BY <2>1 DEF CountsFor, IInv, TypeOK
    <2>3. \A b \in Addresses : b # a => S(b)' = S(b) /\ F(b)' = F(b) /\ B(b)' = B(b)
      BY <2>2
    <2>4. since'[a] = 0 /\ F(a)' = Ban
      BY <2>1 DEF CountsFor, IInv, TypeOK, Window
    <2>5. FailuresNow(a) = S(a) + 1
      BY DEF FailuresNow
    <2>6. S(a)' = IF FailuresNow(a) >= MaxFailed THEN 0 ELSE S(a) + 1
      BY <2>1, <2>4, <2>5 DEF CountsFor, IInv, TypeOK, Window
    <2>7. B(a)' = IF FailuresNow(a) >= MaxFailed THEN Ban ELSE B(a)
      BY <2>1 DEF CountsFor, IInv, TypeOK, Window
    <2>8. Strikes!Leave(h)
      BY <2>1 DEF CountsFor, Return, Strikes!Leave
    <2> HIDE DEF S, F, B
    <2>9. /\ [b \in Addresses |-> F(b)'] = [[b \in Addresses |-> F(b)] EXCEPT ![a] = Ban]
          /\ [b \in Addresses |-> S(b)'] = [[b \in Addresses |-> S(b)] EXCEPT
                ![a] = IF FailuresNow(a) >= MaxFailed THEN 0 ELSE S(a) + 1]
          /\ [b \in Addresses |-> B(b)'] = [[b \in Addresses |-> B(b)] EXCEPT
                ![a] = IF FailuresNow(a) >= MaxFailed THEN Ban ELSE B(a)]
      BY <2>3, <2>4, <2>6, <2>7
    <2>10. /\ FailuresNow(a) = [b \in Addresses |-> S(b)][a] + 1
           /\ S(a) = [b \in Addresses |-> S(b)][a]
           /\ [b \in Addresses |-> B(b)] = [[b \in Addresses |-> B(b)] EXCEPT ![a] = B(a)]
      BY <2>5
    <2> USE DEF S, F, B
    <2> QED
      BY <2>1, <2>8, <2>9, <2>10 DEF CountsFor, Strikes!Strike
  <1>5. ASSUME NEW h \in Handlers, clearLoginFailures(h)
        PROVE  Strikes!Forgive(h)
    <2>1. PICK a \in Addresses : ClearsFor(h, a)
      BY <1>5, Cleared
    <2>2. \A b \in Addresses : b # a =>
            failures'[b] = failures[b] /\ since'[b] = since[b] /\ left'[b] = left[b]
      BY <2>1 DEF ClearsFor, Zero, IInv, TypeOK
    <2>3. \A b \in Addresses : b # a => S(b)' = S(b) /\ F(b)' = F(b) /\ B(b)' = B(b)
      BY <2>2
    <2>4. S(a)' = 0 /\ F(a)' = 0 /\ B(a)' = 0
      BY <2>1 DEF ClearsFor, Zero, IInv, TypeOK, Window
    <2>5. Strikes!Leave(h)
      BY <2>1 DEF ClearsFor, Return, Strikes!Leave
    <2> QED
      BY <2>1, <2>3, <2>4, <2>5 DEF ClearsFor, Strikes!Forgive
  <1>6. ASSUME NEW h \in Handlers, CountNothing(h)
        PROVE  Strikes!Ignore(h)
    BY <1>6 DEF CountNothing, Return, entryVars, IInv, TypeOK, EntryInv,
                Strikes!Leave, Strikes!Ignore
  <1>7. ASSUME Tick PROVE Strikes!Tick
    <2>1. ASSUME NEW a \in Addresses
          PROVE  /\ F(a)' = Strikes!Less(F(a)) /\ B(a)' = Strikes!Less(B(a))
                 /\ S(a)' = IF F(a) <= 1 THEN 0 ELSE S(a)
      <3>1. /\ since[a] \in 0 .. Window /\ left[a] \in Int /\ Window \in Nat
            /\ failures'[a] = failures[a]
        BY <1>7 DEF Tick, IInv, TypeOK, Window
      <3>2. since'[a] = IF since[a] < Window THEN since[a] + 1 ELSE since[a]
        BY <1>7 DEF Tick
      <3>3. left'[a] = IF left[a] < 0 THEN -1 ELSE left[a] - 1
        BY <1>7 DEF Tick
      <3> QED
        BY <3>1, <3>2, <3>3 DEF Strikes!Less
    <2>2. UNCHANGED serving
      BY <1>7 DEF Tick
    <2> QED
      BY <2>1, <2>2 DEF Strikes!Tick
  <1>8. CASE UNCHANGED vars
    BY <1>8 DEF vars, entryVars, Strikes!sVars
  <1> QED
    BY <1>1, <1>2, <1>3, <1>4, <1>5, <1>6, <1>7, <1>8
    DEF Next, Finish, Strikes!Next

\* The limiter counts, bans and forgets like LoginStrikes, for any number of
\* requests that pass its check together: what the sweep deletes never
\* mattered, and a failure counted late starts a ban it would have started.
THEOREM LimiterImplementsStrikes == Spec => ImplementsStrikes
  BY StrikesInit, StrikesNext, LimiterInvariant, PTL
  DEF Spec, ImplementsStrikes, Strikes!Spec
-----------------------------------------------------------------------------
(***************************************************************************)
(* How many guesses an address gets                                        *)
(***************************************************************************)
Count(a) == IF since[a] >= Window THEN 0 ELSE failures[a]
ServedFor(a) == {h \in Handlers : serving[h] = a}

\* No guess is younger than lastFailure.  While an address is banned, what it
\* has in the window and what is still served for it stay within the bound.
\* And the strikes of an address cover its guesses from the time the ban began
\* to be over: those of a ban are out of the window when the ban ends.
BoundOf(a) ==
  /\ IsFiniteSet(Guesses(recent[a], Window))
  /\ \A age \in 0 .. Window - 1 : age < since[a] => recent[a][age] = 0
  /\ left[a] > 0 =>
       Cardinality(Guesses(recent[a], Window)) + Cardinality(ServedFor(a))
         <= MaxFailed + Cardinality(Handlers) - 1
  /\ \A m \in 0 .. Window :
       m <= Window - left[a] => Cardinality(Guesses(recent[a], m)) <= Count(a)

BoundInv == \A a \in Addresses : BoundOf(a)

LEMMA GuessIn ==
  ASSUME NEW r, NEW m \in Nat
  PROVE  \A g : g \in Guesses(r, m) <=>
           \E age \in 0 .. m - 1 : \E k \in 1 .. r[age] : g = <<age, k>>
  BY DEF Guesses

\* The guesses of fewer ticks are among those of more.
LEMMA GuessesOfLess ==
  ASSUME NEW r, NEW m \in Nat, NEW n \in Nat, m <= n, IsFiniteSet(Guesses(r, n))
  PROVE  /\ IsFiniteSet(Guesses(r, m))
         /\ Cardinality(Guesses(r, m)) \in Nat /\ Cardinality(Guesses(r, n)) \in Nat
         /\ Cardinality(Guesses(r, m)) <= Cardinality(Guesses(r, n))
  <1>1. Guesses(r, m) \in SUBSET Guesses(r, n)
    <2>1. 0 .. m - 1 \subseteq 0 .. n - 1
      OBVIOUS
    <2> QED
      BY <2>1 DEF Guesses
  <1> QED
    BY <1>1, FS_Subset, FS_CardinalityType

\* A window without a guess has none.
LEMMA NoGuess ==
  ASSUME NEW r, NEW m \in Nat, \A age \in 0 .. m - 1 : r[age] = 0
  PROVE  Guesses(r, m) = {} /\ IsFiniteSet(Guesses(r, m)) /\ Cardinality(Guesses(r, m)) = 0
  <1>1. 1 .. 0 = {}
    OBVIOUS
  <1>2. \A g : g \notin Guesses(r, m)
    BY <1>1, GuessIn
  <1> QED
    BY <1>2, FS_EmptySet

\* A guess that is counted is one more.
LEMMA OneGuess ==
  ASSUME NEW r \in [0 .. Window - 1 -> Nat], NEW q \in [0 .. Window - 1 -> Nat],
         q = [r EXCEPT ![0] = @ + 1], NEW m \in 0 .. Window,
         IsFiniteSet(Guesses(r, Window))
  PROVE  /\ IsFiniteSet(Guesses(q, m)) /\ Cardinality(Guesses(q, m)) \in Nat
         /\ Cardinality(Guesses(q, m)) <= Cardinality(Guesses(r, m)) + 1
         /\ Cardinality(Guesses(r, m)) \in Nat
  <1>0. Window \in Nat \ {0} /\ m \in Nat
    BY LimiterAssumption DEF Window
  <1>1. IsFiniteSet(Guesses(r, m)) /\ Cardinality(Guesses(r, m)) \in Nat
    BY <1>0, GuessesOfLess
  <1>2. Guesses(q, m) \subseteq Guesses(r, m) \cup {<<0, r[0] + 1>>}
    <2> SUFFICES ASSUME NEW g \in Guesses(q, m), g # <<0, r[0] + 1>>
                 PROVE  g \in Guesses(r, m)
      OBVIOUS
    <2>1. PICK age \in 0 .. m - 1 : \E k \in 1 .. q[age] : g = <<age, k>>
      BY DEF Guesses
    <2>2. PICK k \in 1 .. q[age] : g = <<age, k>>
      BY <2>1
    <2>3. age \in 0 .. Window - 1 /\ 0 \in 0 .. Window - 1
      BY <1>0
    <2>4. q[age] = IF age = 0 THEN r[age] + 1 ELSE r[age]
      BY <2>3
    <2>5. k \in 1 .. r[age]
      <3>1. r[age] \in Nat
        BY <2>3
      <3>2. age = 0 => k # r[age] + 1
        BY <2>2
      <3> QED
        BY <2>2, <2>4, <3>1, <3>2
    <2> QED
      BY <1>0, <2>1, <2>2, <2>5, GuessIn
  <1>3. /\ IsFiniteSet(Guesses(r, m) \cup {<<0, r[0] + 1>>})
        /\ Cardinality(Guesses(r, m) \cup {<<0, r[0] + 1>>}) <= Cardinality(Guesses(r, m)) + 1
        /\ Cardinality(Guesses(r, m) \cup {<<0, r[0] + 1>>}) \in Nat
    <2> DEFINE S == Guesses(r, m)
               T == S \cup {<<0, r[0] + 1>>}
    <2> HIDE DEF S
    <2>1. IsFiniteSet(S) /\ Cardinality(S) \in Nat
      BY <1>1 DEF S
    <2>2. /\ IsFiniteSet(T)
          /\ Cardinality(T) = IF <<0, r[0] + 1>> \in S THEN Cardinality(S) ELSE Cardinality(S) + 1
      BY <2>1, FS_AddElement
    <2> QED
      BY <2>1, <2>2 DEF S
  <1>4. /\ IsFiniteSet(Guesses(q, m)) /\ Cardinality(Guesses(q, m)) \in Nat
        /\ Cardinality(Guesses(q, m)) <= Cardinality(Guesses(r, m) \cup {<<0, r[0] + 1>>})
    BY <1>2, <1>3, FS_Subset, FS_CardinalityType
  <1> QED
    BY <1>1, <1>3, <1>4

\* When everything gets older, the guesses of m ticks are those that were of
\* m - 1, and the oldest are forgotten.
LEMMA OlderGuesses ==
  ASSUME NEW r \in [0 .. Window - 1 -> Nat], NEW q \in [0 .. Window - 1 -> Nat],
         \A age \in 0 .. Window - 1 : q[age] = IF age = 0 THEN 0 ELSE r[age - 1],
         NEW m \in 1 .. Window, IsFiniteSet(Guesses(r, Window))
  PROVE  /\ IsFiniteSet(Guesses(q, m))
         /\ Cardinality(Guesses(q, m)) = Cardinality(Guesses(r, m - 1))
  <1>0. Window \in Nat \ {0} /\ m \in Nat /\ m - 1 \in Nat /\ m - 1 <= Window
    BY LimiterAssumption DEF Window
  <1>1. IsFiniteSet(Guesses(r, m - 1))
    BY <1>0, GuessesOfLess
  <1> DEFINE S == Guesses(r, m - 1)
             T == Guesses(q, m)
             f == [g \in S |-> <<g[1] + 1, g[2]>>]
  <1>2. \A g : g \in S <=> \E age \in 0 .. m - 2 : \E k \in 1 .. r[age] : g = <<age, k>>
    <2>1. \A g : g \in S <=>
            \E age \in 0 .. (m - 1) - 1 : \E k \in 1 .. r[age] : g = <<age, k>>
      BY DEF Guesses
    <2>2. (m - 1) - 1 = m - 2
      BY <1>0
    <2> HIDE DEF S
    <2> QED
      BY <2>1, <2>2
  <1>3. \A g : g \in T <=> \E age \in 0 .. m - 1 : \E k \in 1 .. q[age] : g = <<age, k>>
    BY DEF Guesses
  <1>4. \A age \in 0 .. m - 2 : age + 1 \in 0 .. m - 1 /\ q[age + 1] = r[age]
    <2> SUFFICES ASSUME NEW age \in 0 .. m - 2
                 PROVE  age + 1 \in 0 .. m - 1 /\ q[age + 1] = r[age]
      OBVIOUS
    <2>1. age + 1 \in 0 .. Window - 1 /\ age + 1 # 0 /\ (age + 1) - 1 = age
      BY <1>0
    <2> QED
      BY <1>0, <2>1
  <1> HIDE DEF S, T
  <1>5. \A g \in S : f[g] \in T
    <2> SUFFICES ASSUME NEW g \in S PROVE <<g[1] + 1, g[2]>> \in T
      OBVIOUS
    <2>1. PICK age \in 0 .. m - 2 : \E k \in 1 .. r[age] : g = <<age, k>>
      BY <1>2
    <2>2. PICK k \in 1 .. r[age] : g = <<age, k>>
      BY <2>1
    <2>3. <<g[1] + 1, g[2]>> = <<age + 1, k>>
      BY <2>2
    <2> QED
      BY <1>3, <1>4, <2>2, <2>3
  <1>6. \A t \in T : \E g \in S : f[g] = t
    <2> SUFFICES ASSUME NEW t \in T PROVE \E g \in S : f[g] = t
      OBVIOUS
    <2>1. PICK age \in 0 .. m - 1 : \E k \in 1 .. q[age] : t = <<age, k>>
      BY <1>3
    <2>2. PICK k \in 1 .. q[age] : t = <<age, k>>
      BY <2>1
    <2>3. age # 0
      <3>1. 1 .. 0 = {} /\ 0 \in 0 .. Window - 1
        BY <1>0
      <3> QED
        BY <2>2, <3>1
    <2>4. age - 1 \in 0 .. m - 2 /\ (age - 1) + 1 = age
      BY <1>0, <2>3
    <2>5. q[age] = r[age - 1]
      BY <1>4, <2>4
    <2>6. <<age - 1, k>> \in S
      BY <1>2, <2>2, <2>4, <2>5
    <2>7. f[<<age - 1, k>>] = <<age, k>>
      BY <2>4, <2>6
    <2> QED
      BY <2>2, <2>6, <2>7
  <1>7. \A g, h \in S : f[g] = f[h] => g = h
    <2> SUFFICES ASSUME NEW g \in S, NEW h \in S, f[g] = f[h] PROVE g = h
      OBVIOUS
    <2>1. PICK a \in 0 .. m - 2 : \E k \in 1 .. r[a] : g = <<a, k>>
      BY <1>2
    <2>2. PICK k \in 1 .. r[a] : g = <<a, k>>
      BY <2>1
    <2>3. PICK b \in 0 .. m - 2 : \E l \in 1 .. r[b] : h = <<b, l>>
      BY <1>2
    <2>4. PICK l \in 1 .. r[b] : h = <<b, l>>
      BY <2>3
    <2>5. <<a + 1, k>> = <<b + 1, l>>
      BY <2>2, <2>4
    <2>6. a = b /\ k = l
      BY <2>5
    <2> QED
      BY <2>2, <2>4, <2>6
  <1>8. f \in [S -> T]
    BY <1>5
  <1> HIDE DEF f
  <1>9. f \in Bijection(S, T)
    BY <1>6, <1>7, <1>8 DEF Bijection, Injection, Surjection, IsInjective
  <1>10. ExistsBijection(S, T)
    BY <1>9 DEF ExistsBijection
  <1>11. IsFiniteSet(T) /\ Cardinality(T) = Cardinality(S)
    BY <1>1, <1>10, FS_Bijection DEF S
  <1> QED
    BY <1>11 DEF S, T

LEMMA ServedFinite ==
  ASSUME NEW a, NEW S, S \subseteq ServedFor(a)
  PROVE  /\ IsFiniteSet(S) /\ IsFiniteSet(ServedFor(a))
         /\ Cardinality(S) \in Nat /\ Cardinality(ServedFor(a)) \in Nat
         /\ Cardinality(Handlers) \in Nat
         /\ Cardinality(S) <= Cardinality(ServedFor(a))
         /\ Cardinality(ServedFor(a)) <= Cardinality(Handlers)
  <1>1. ServedFor(a) \subseteq Handlers
    BY DEF ServedFor
  <1>2. IsFiniteSet(ServedFor(a)) /\ Cardinality(ServedFor(a)) <= Cardinality(Handlers)
    BY <1>1, HandlersAssumption, FS_Subset
  <1>3. IsFiniteSet(S) /\ Cardinality(S) <= Cardinality(ServedFor(a))
    BY <1>2, FS_Subset
  <1> QED
    BY <1>2, <1>3, HandlersAssumption, FS_CardinalityType

\* A step that leaves the guesses and the entry of an address alone, but for
\* what the sweep does to them, and lets nobody in while the address is banned.
LEMMA BoundKept ==
  ASSUME IInv, NEW a \in Addresses, BoundOf(a),
         recent'[a] = recent[a], since'[a] = since[a], left'[a] = left[a],
         Count(a)' = Count(a), left[a] > 0 => ServedFor(a)' \subseteq ServedFor(a)
  PROVE  BoundOf(a)'
  <1>1. /\ IsFiniteSet(Guesses(recent[a], Window))
        /\ Cardinality(Guesses(recent[a], Window)) \in Nat
    BY FS_CardinalityType DEF BoundOf
  <1>2. /\ MaxFailed \in Nat /\ left[a] \in Int
    BY LimiterAssumption DEF IInv, TypeOK
  <1>3. left[a] > 0 => /\ Cardinality(ServedFor(a)') <= Cardinality(ServedFor(a))
                       /\ Cardinality(ServedFor(a)') \in Nat
                       /\ Cardinality(ServedFor(a)) \in Nat
                       /\ Cardinality(Handlers) \in Nat
    <2>1. PICK S : S = ServedFor(a)'
      OBVIOUS
    <2> QED
      BY <2>1, ServedFinite
  <1>4. left'[a] > 0 =>
          Cardinality(Guesses(recent'[a], Window)) + Cardinality(ServedFor(a)')
            <= MaxFailed + Cardinality(Handlers) - 1
    <2>1. left[a] > 0 => Cardinality(Guesses(recent[a], Window)) + Cardinality(ServedFor(a))
            <= MaxFailed + Cardinality(Handlers) - 1
      BY DEF BoundOf
    <2> QED
      BY <1>1, <1>2, <1>3, <2>1
  <1>5. \A m \in 0 .. Window :
          m <= Window - left'[a] => Cardinality(Guesses(recent'[a], m)) <= Count(a)'
    BY DEF BoundOf
  <1>6. \A age \in 0 .. Window - 1 : age < since'[a] => recent'[a][age] = 0
    BY DEF BoundOf
  <1> QED
    BY <1>1, <1>4, <1>5, <1>6 DEF BoundOf

\* A guess is counted.  If it starts the ban, the guesses of the address are
\* the strikes and this one: at most MaxFailed, and the handler that brought
\* it is not among those still served.  If the address is banned already, one
\* of those still served becomes one of those counted.
LEMMA BoundCounted ==
  ASSUME IInv, NEW h \in Handlers, NEW a \in Addresses, BoundOf(a), CountsFor(h, a)
  PROVE  BoundOf(a)'
  <1> DEFINE N == Cardinality(Handlers)
             G(m) == Cardinality(Guesses(recent[a], m))
             H(m) == Cardinality(Guesses(recent'[a], m))
             n == FailuresNow(a)
  <1>0. /\ Window \in Nat \ {0} /\ MaxFailed \in Nat \ {0} /\ Window = Ban
        /\ left[a] \in -1 .. Ban /\ since[a] \in 0 .. Window
        /\ failures[a] \in 0 .. MaxFailed - 1
        /\ recent[a] \in [0 .. Window - 1 -> Nat]
    BY LimiterAssumption DEF IInv, TypeOK, Window
  <1>1. /\ recent'[a] = [recent[a] EXCEPT ![0] = @ + 1]
        /\ recent'[a] \in [0 .. Window - 1 -> Nat]
    BY <1>0 DEF CountsFor, IInv, TypeOK
  <1>2. n = Count(a) + 1 /\ Count(a) \in 0 .. MaxFailed - 1
    BY <1>0 DEF Count, FailuresNow
  <1>3. /\ since'[a] = 0
        /\ failures'[a] = IF n >= MaxFailed THEN 0 ELSE n
        /\ left'[a] = IF n >= MaxFailed THEN Ban ELSE left[a]
    BY DEF CountsFor, IInv, TypeOK
  <1>4. Count(a)' = IF n >= MaxFailed THEN 0 ELSE n
    BY <1>0, <1>3 DEF Count
  <1>5. IsFiniteSet(Guesses(recent[a], Window))
    BY DEF BoundOf
  <1>6. ASSUME NEW m \in 0 .. Window
        PROVE  /\ IsFiniteSet(Guesses(recent'[a], m))
               /\ H(m) \in Nat /\ G(m) \in Nat /\ H(m) <= G(m) + 1
    <2>1. PICK r \in [0 .. Window - 1 -> Nat] : r = recent[a]
      BY <1>0
    <2>2. PICK q \in [0 .. Window - 1 -> Nat] : q = recent'[a]
      BY <1>1
    <2>3. q = [r EXCEPT ![0] = @ + 1] /\ IsFiniteSet(Guesses(r, Window))
      BY <1>1, <1>5, <2>1, <2>2
    <2>4. /\ IsFiniteSet(Guesses(q, m)) /\ Cardinality(Guesses(q, m)) \in Nat
          /\ Cardinality(Guesses(q, m)) <= Cardinality(Guesses(r, m)) + 1
          /\ Cardinality(Guesses(r, m)) \in Nat
      BY <1>6, <2>1, <2>2, <2>3, OneGuess
    <2> QED
      BY <2>1, <2>2, <2>4
  <1>7. /\ Cardinality(ServedFor(a)') \in Nat /\ Cardinality(ServedFor(a)) \in Nat
        /\ N \in Nat /\ Cardinality(ServedFor(a)') = Cardinality(ServedFor(a)) - 1
        /\ Cardinality(ServedFor(a)) <= N
    <2>1. ServedFor(a)' = ServedFor(a) \ {h} /\ h \in ServedFor(a)
      BY LimiterAssumption DEF ServedFor, CountsFor, Return, IInv, TypeOK
    <2>2. PICK S : S = ServedFor(a)
      OBVIOUS
    <2>3. IsFiniteSet(S) /\ Cardinality(S) \in Nat /\ N \in Nat /\ Cardinality(S) <= N
      BY <2>2, ServedFinite
    <2>4. Cardinality(S \ {h}) = Cardinality(S) - 1 /\ IsFiniteSet(S \ {h})
      BY <2>1, <2>2, <2>3, FS_RemoveElement
    <2>5. Cardinality(S \ {h}) \in Nat
      BY <2>4, FS_CardinalityType
    <2> QED
      BY <2>1, <2>2, <2>3, <2>4, <2>5
  <1>8. \A m \in 0 .. Window : m <= Window - left[a] => G(m) <= Count(a)
    BY DEF BoundOf
  <1>9. left[a] > 0 => G(Window) + Cardinality(ServedFor(a)) <= MaxFailed + N - 1
    BY DEF BoundOf
  <1>10. Window \in 0 .. Window
    BY <1>0
  <1>11. H(Window) \in Nat /\ G(Window) \in Nat /\ H(Window) <= G(Window) + 1
    BY <1>6, <1>10
  <1> HIDE DEF N, G, H, n
  <1>12. left'[a] > 0 => H(Window) + Cardinality(ServedFor(a)') <= MaxFailed + N - 1
    <2>1. CASE left[a] > 0
      BY <1>0, <1>7, <1>9, <1>11, <2>1
    <2>2. CASE left[a] <= 0
      <3>1. G(Window) <= Count(a)
        BY <1>0, <1>8, <1>10, <2>2
      <3>2. left'[a] > 0 => n >= MaxFailed
        BY <1>0, <1>3, <2>2
      <3> QED
        BY <1>0, <1>2, <1>7, <1>11, <3>1, <3>2
    <2> QED
      BY <1>0, <2>1, <2>2
  <1>13. ASSUME NEW m \in 0 .. Window, m <= Window - left'[a]
         PROVE  H(m) <= Count(a)'
    <2>1. CASE n >= MaxFailed
      <3>1. m = 0 /\ m \in Nat /\ 0 .. m - 1 = {}
        BY <1>0, <1>3, <1>13, <2>1
      <3>2. Cardinality(Guesses(recent'[a], m)) = 0
        <4>1. \A q : (\A age \in 0 .. m - 1 : q[age] = 0) => Cardinality(Guesses(q, m)) = 0
          BY <3>1, NoGuess
        <4> QED
          BY <3>1, <4>1
      <3> QED
        BY <1>4, <2>1, <3>2 DEF H
    <2>2. CASE ~ n >= MaxFailed
      <3>1. m <= Window - left[a]
        BY <1>3, <1>13, <2>2
      <3>2. G(m) <= Count(a) /\ G(m) \in Nat /\ H(m) \in Nat /\ H(m) <= G(m) + 1
        BY <1>6, <1>8, <1>13, <3>1
      <3> QED
        BY <1>2, <1>4, <2>2, <3>2
    <2> QED
      BY <2>1, <2>2
  <1>14. \A age \in 0 .. Window - 1 : age < since'[a] => recent'[a][age] = 0
    BY <1>3
  <1> QED
    BY <1>6, <1>10, <1>12, <1>13, <1>14 DEF BoundOf, N, H

\* A success forgets the guesses with the strikes.
LEMMA BoundCleared ==
  ASSUME IInv, NEW h \in Handlers, NEW a \in Addresses, ClearsFor(h, a)
  PROVE  BoundOf(a)'
  <1>0. Window \in Nat \ {0}
    BY LimiterAssumption DEF Window
  <1>1. /\ recent'[a] = Never /\ since'[a] = Window /\ left'[a] = -1
    BY DEF ClearsFor, Zero, IInv, TypeOK
  <1>2. Count(a)' = 0
    BY <1>0, <1>1 DEF Count
  <1>3. \A age \in 0 .. Window - 1 : Never[age] = 0
    BY DEF Never
  <1>4. ASSUME NEW m \in 0 .. Window
        PROVE  IsFiniteSet(Guesses(Never, m)) /\ Cardinality(Guesses(Never, m)) = 0
    <2>1. m \in Nat /\ \A age \in 0 .. m - 1 : Never[age] = 0
      BY <1>0, <1>3
    <2> QED
      BY <2>1, NoGuess
  <1>5. IsFiniteSet(Guesses(Never, Window))
    BY <1>0, <1>4
  <1> QED
    BY <1>1, <1>2, <1>3, <1>4, <1>5 DEF BoundOf

\* Everything gets older, the ban included: what was in the window up to its
\* last tick but one is in it now, and what the ban does not cover neither.
LEMMA BoundOlder ==
  ASSUME IInv, NEW a \in Addresses, BoundOf(a), Tick
  PROVE  BoundOf(a)'
  <1> DEFINE G(m) == Cardinality(Guesses(recent[a], m))
             H(m) == Cardinality(Guesses(recent'[a], m))
  <1>0. /\ Window \in Nat \ {0} /\ MaxFailed \in Nat \ {0}
        /\ left[a] \in -1 .. Window /\ since[a] \in 0 .. Window
        /\ failures[a] \in 0 .. MaxFailed - 1
        /\ recent[a] \in [0 .. Window - 1 -> Nat]
    BY LimiterAssumption DEF IInv, TypeOK, Window
  <1>1. /\ since'[a] = IF since[a] < Window THEN since[a] + 1 ELSE since[a]
        /\ left'[a] = IF left[a] < 0 THEN -1 ELSE left[a] - 1
        /\ recent'[a] = [age \in 0 .. Window - 1 |->
                           IF age = 0 THEN 0 ELSE recent[a][age - 1]]
        /\ failures'[a] = failures[a] /\ serving' = serving
    BY DEF Tick
  <1>2. recent'[a] \in [0 .. Window - 1 -> Nat]
    BY <1>0, <1>1
  <1>3. /\ IsFiniteSet(Guesses(recent[a], Window))
        /\ \A age \in 0 .. Window - 1 : age < since[a] => recent[a][age] = 0
        /\ left[a] > 0 => G(Window) + Cardinality(ServedFor(a))
                            <= MaxFailed + Cardinality(Handlers) - 1
        /\ \A m \in 0 .. Window : m <= Window - left[a] => G(m) <= Count(a)
    BY DEF BoundOf
  <1>4. ASSUME NEW m \in 1 .. Window
        PROVE  IsFiniteSet(Guesses(recent'[a], m)) /\ H(m) = G(m - 1)
    <2>1. PICK r \in [0 .. Window - 1 -> Nat] : r = recent[a]
      BY <1>0
    <2>2. PICK q \in [0 .. Window - 1 -> Nat] : q = recent'[a]
      BY <1>2
    <2>3. /\ \A age \in 0 .. Window - 1 : q[age] = IF age = 0 THEN 0 ELSE r[age - 1]
          /\ IsFiniteSet(Guesses(r, Window))
      BY <1>1, <1>3, <2>1, <2>2
    <2>4. /\ IsFiniteSet(Guesses(q, m))
          /\ Cardinality(Guesses(q, m)) = Cardinality(Guesses(r, m - 1))
      BY <1>4, <2>1, <2>2, <2>3, OlderGuesses
    <2> QED
      BY <2>1, <2>2, <2>4
  <1>5. Window \in 1 .. Window
    BY <1>0
  <1>6. /\ G(Window) \in Nat /\ H(Window) \in Nat /\ H(Window) <= G(Window)
    <2>1. PICK r : r = recent[a]
      OBVIOUS
    <2>2. Window - 1 \in Nat /\ Window \in Nat /\ Window - 1 <= Window
      BY <1>0
    <2>3. /\ Cardinality(Guesses(r, Window - 1)) \in Nat
          /\ Cardinality(Guesses(r, Window)) \in Nat
          /\ Cardinality(Guesses(r, Window - 1)) <= Cardinality(Guesses(r, Window))
      BY <1>3, <2>1, <2>2, GuessesOfLess
    <2> QED
      BY <1>4, <1>5, <2>1, <2>3
  <1>7. ServedFor(a)' = ServedFor(a)
    BY <1>1 DEF ServedFor
  <1>8. \A age \in 0 .. Window - 1 : age < since'[a] => recent'[a][age] = 0
    BY <1>0, <1>1, <1>3
  <1>9. ASSUME NEW m \in 0 .. Window, \A age \in 0 .. m - 1 : recent'[a][age] = 0
        PROVE  H(m) = 0
    <2>1. PICK q : q = recent'[a]
      OBVIOUS
    <2>2. m \in Nat /\ \A age \in 0 .. m - 1 : q[age] = 0
      BY <1>9, <2>1
    <2>3. Cardinality(Guesses(q, m)) = 0
      BY <2>2, NoGuess
    <2> QED
      BY <2>1, <2>3
  <1> HIDE DEF G, H
  <1>10. /\ Count(a)' = IF since'[a] >= Window THEN 0 ELSE Count(a)
         /\ Count(a)' \in Nat
    BY <1>0, <1>1 DEF Count
  <1>11. left'[a] > 0 => H(Window) + Cardinality(ServedFor(a)')
                           <= MaxFailed + Cardinality(Handlers) - 1
    <2>1. left'[a] > 0 => left[a] > 0
      BY <1>0, <1>1
    <2>2. Cardinality(ServedFor(a)) \in Nat /\ Cardinality(Handlers) \in Nat
      BY ServedFinite
    <2> QED
      BY <1>0, <1>3, <1>6, <1>7, <2>1, <2>2
  <1>12. ASSUME NEW m \in 0 .. Window, m <= Window - left'[a]
         PROVE  H(m) <= Count(a)'
    <2>1. CASE m = 0
      <3>1. 0 .. m - 1 = {}
        BY <2>1
      <3>2. H(m) = 0
        BY <1>9, <1>12, <3>1
      <3> QED
        BY <1>10, <3>2
    <2>2. CASE since'[a] >= Window
      <3>0. since'[a] \in Int
        BY <1>0, <1>1
      <3>1. \A age \in 0 .. m - 1 : recent'[a][age] = 0
        BY <1>0, <1>8, <1>12, <2>2, <3>0
      <3>2. H(m) = 0
        BY <1>9, <1>12, <3>1
      <3> QED
        BY <1>10, <3>2
    <2>3. CASE m # 0 /\ ~ since'[a] >= Window
      <3>1. m \in 1 .. Window /\ m - 1 \in 0 .. Window
        BY <1>0, <2>3
      <3>4. m - 1 <= Window - left[a]
        <4>1. left'[a] >= left[a] - 1 /\ left'[a] \in Int
          BY <1>0, <1>1
        <4> QED
          BY <1>0, <1>12, <4>1
      <3>2. H(m) = G(m - 1)
        BY <1>4, <3>1
      <3>3. G(m - 1) <= Count(a)
        BY <1>3, <3>1, <3>4
      <3> QED
        BY <1>10, <2>3, <3>2, <3>3
    <2> QED
      BY <2>1, <2>2, <2>3
  <1> QED
    BY <1>4, <1>5, <1>8, <1>11, <1>12 DEF BoundOf, H

LEMMA BoundInit == Init => BoundInv
  <1> SUFFICES ASSUME Init, NEW a \in Addresses PROVE BoundOf(a)
    BY DEF BoundInv
  <1>0. Window \in Nat \ {0}
    BY LimiterAssumption DEF Window
  <1>1. recent[a] = Never /\ since[a] = Window /\ left[a] = -1
    BY DEF Init
  <1>2. Count(a) = 0
    BY <1>0, <1>1 DEF Count
  <1>3. \A age \in 0 .. Window - 1 : Never[age] = 0
    BY DEF Never
  <1>4. ASSUME NEW m \in 0 .. Window
        PROVE  IsFiniteSet(Guesses(Never, m)) /\ Cardinality(Guesses(Never, m)) = 0
    <2>1. m \in Nat /\ \A age \in 0 .. m - 1 : Never[age] = 0
      BY <1>0, <1>3
    <2> QED
      BY <2>1, NoGuess
  <1>5. IsFiniteSet(Guesses(Never, Window))
    BY <1>0, <1>4
  <1> QED
    BY <1>1, <1>2, <1>3, <1>4, <1>5 DEF BoundOf

\* An address that a handler finishes for is not another's.
LEMMA LeavesOthers ==
  ASSUME IInv, NEW h \in Handlers, NEW b \in Addresses, Return(h)
  PROVE  ServedFor(b)' \subseteq ServedFor(b)
  BY LimiterAssumption DEF ServedFor, Return, IInv, TypeOK

LEMMA BoundNext == IInv /\ BoundInv /\ [Next]_vars => BoundInv'
  <1> SUFFICES ASSUME IInv, BoundInv, [Next]_vars, NEW b \in Addresses PROVE BoundOf(b)'
    BY DEF BoundInv
  <1>0. BoundOf(b)
    BY DEF BoundInv
  <1>1. ASSUME Sweep, UNCHANGED recent
        PROVE  recent'[b] = recent[b] /\ since'[b] = since[b] /\ left'[b] = left[b]
               /\ Count(b)' = Count(b)
    BY <1>1, SweepKeeps DEF Count
  <1>2. ASSUME NEW h \in Handlers, NEW a \in Addresses, Admit(h, a) PROVE BoundOf(b)'
    <2>1. left[b] > 0 => ServedFor(b)' \subseteq ServedFor(b)
      <3>1. a = b => left[b] <= 0
        BY <1>2, LimiterAssumption DEF Admit, Banned, Swept, Over, IInv, TypeOK, EntryInv
      <3>2. a # b => ServedFor(b)' \subseteq ServedFor(b)
        BY <1>2 DEF Admit, ServedFor, IInv, TypeOK
      <3>3. left[b] \in Int
        BY DEF IInv, TypeOK
      <3> QED
        BY <3>1, <3>2, <3>3
    <2>2. Sweep /\ UNCHANGED recent
      BY <1>2 DEF Admit
    <2> QED
      BY <1>0, <1>1, <2>1, <2>2, BoundKept
  <1>3. ASSUME NEW h \in Handlers, NEW a \in Addresses, TurnAway(h, a) PROVE BoundOf(b)'
    <2>1. Sweep /\ UNCHANGED recent /\ ServedFor(b)' = ServedFor(b)
      BY <1>3 DEF TurnAway, ServedFor
    <2> QED
      BY <1>0, <1>1, <2>1, BoundKept
  <1>4. ASSUME NEW h \in Handlers, Serve(h) PROVE BoundOf(b)'
    BY <1>0, <1>4, BoundKept DEF Serve, entryVars, ServedFor, Count
  <1>5. ASSUME NEW h \in Handlers, recordLoginFailure(h) PROVE BoundOf(b)'
    <2>1. PICK a \in Addresses : CountsFor(h, a)
      BY <1>5, Counted
    <2>2. CASE a = b
      BY <1>0, <2>1, <2>2, BoundCounted
    <2>3. CASE a # b
      <3>1. /\ recent'[b] = recent[b] /\ since'[b] = since[b] /\ left'[b] = left[b]
            /\ failures'[b] = failures[b] /\ Return(h)
        BY <2>1, <2>3 DEF CountsFor, IInv, TypeOK
      <3>2. Count(b)' = Count(b)
        BY <3>1 DEF Count
      <3> QED
        BY <1>0, <3>1, <3>2, LeavesOthers, BoundKept
    <2> QED
      BY <2>2, <2>3
  <1>6. ASSUME NEW h \in Handlers, clearLoginFailures(h) PROVE BoundOf(b)'
    <2>1. PICK a \in Addresses : ClearsFor(h, a)
      BY <1>6, Cleared
    <2>2. CASE a = b
      BY <2>1, <2>2, BoundCleared
    <2>3. CASE a # b
      <3>1. /\ recent'[b] = recent[b] /\ since'[b] = since[b] /\ left'[b] = left[b]
            /\ failures'[b] = failures[b] /\ Return(h)
        BY <2>1, <2>3 DEF ClearsFor, Zero, IInv, TypeOK
      <3>2. Count(b)' = Count(b)
        BY <3>1 DEF Count
      <3> QED
        BY <1>0, <3>1, <3>2, LeavesOthers, BoundKept
    <2> QED
      BY <2>2, <2>3
  <1>7. ASSUME NEW h \in Handlers, CountNothing(h) PROVE BoundOf(b)'
    <2>1. UNCHANGED <<entryVars, recent>> /\ Return(h)
      BY <1>7 DEF CountNothing
    <2>2. Count(b)' = Count(b)
      BY <2>1 DEF Count, entryVars
    <2> QED
      BY <1>0, <2>1, <2>2, LeavesOthers, BoundKept DEF entryVars
  <1>8. CASE Tick
    BY <1>0, <1>8, BoundOlder
  <1>9. CASE UNCHANGED vars
    BY <1>0, <1>9, BoundKept DEF vars, entryVars, ServedFor, Count
  <1> QED
    BY <1>2, <1>3, <1>4, <1>5, <1>6, <1>7, <1>8, <1>9 DEF Next, Finish

LEMMA BoundIsEnough == IInv /\ BoundInv => GuessesBounded
  <1> SUFFICES ASSUME IInv, BoundInv, NEW a \in Addresses
               PROVE  Cardinality(Guesses(recent[a], Window))
                        <= MaxFailed + Cardinality(Handlers) - 1
    BY DEF GuessesBounded
  <1>0. /\ Window \in Nat \ {0} /\ MaxFailed \in Nat \ {0} /\ left[a] \in -1 .. Ban
        /\ failures[a] \in 0 .. MaxFailed - 1 /\ BoundOf(a)
    BY LimiterAssumption DEF IInv, TypeOK, Window, BoundInv
  <1>1. /\ Cardinality(Guesses(recent[a], Window)) \in Nat
        /\ Cardinality(ServedFor(a)) \in Nat /\ Cardinality(Handlers) \in Nat
    BY <1>0, ServedFinite, FS_CardinalityType DEF BoundOf
  <1>2. CASE left[a] > 0
    BY <1>0, <1>1, <1>2 DEF BoundOf
  <1>3. CASE left[a] <= 0
    <2>1. Window \in 0 .. Window /\ Window <= Window - left[a]
      BY <1>0, <1>3
    <2>2. Cardinality(Guesses(recent[a], Window)) <= Count(a)
      BY <1>0, <2>1 DEF BoundOf
    <2>3. Count(a) \in 0 .. MaxFailed - 1
      BY <1>0 DEF Count
    <2> QED
      BY <1>0, <1>1, <2>2, <2>3
  <1> QED
    BY <1>0, <1>2, <1>3

\* However the requests for an address interleave, and whatever the map and
\* its sweep forget, an address gets no more than MaxFailed guesses in any
\* window without a success, and one for each other handler that had passed
\* the check before the last of them was counted.
THEOREM GuessesBoundedHolds == Spec => []GuessesBounded
  <1>1. Spec => []BoundInv
    BY BoundInit, BoundNext, LimiterInvariant, PTL DEF Spec
  <1> QED
    BY <1>1, LimiterInvariant, BoundIsEnough, PTL
=============================================================================
