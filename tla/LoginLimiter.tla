---------------------------- MODULE LoginLimiter ----------------------------
(***************************************************************************)
(* The limiter around the routes of api/login: loginLimiter checks the ban *)
(* of the caller's address, serves the request, and counts what it         *)
(* answered, in three steps that other requests come between.              *)
(*                                                                         *)
(* Times are kept relative to the present: Tick makes every entry older.   *)
(* A handler reads the clock and takes the lock in one step.               *)
(***************************************************************************)
EXTENDS Integers, FiniteSets

CONSTANTS Addresses, Handlers,
          MaxFailed,    \* MAX_FAILED_LOGINS
          Ban,          \* LOGIN_BAN_DURATION and FAILURE_WINDOW, in ticks
          Nobody

ASSUME LimiterAssumption ==
  MaxFailed \in Nat \ {0} /\ Ban \in Nat \ {0} /\ Nobody \notin Addresses

ASSUME HandlersAssumption == IsFiniteSet(Handlers)

Window == Ban

VARIABLES
  failures,     \* per entry of byIP: failures counted
  since,        \* ticks since lastFailure, Window for Window or more
  left,         \* ticks until bannedUntil, -1 when it has passed
  entries,      \* the keys of byIP
  sinceSweep,   \* ticks since lastSweep
  serving,      \* the address whose login each handler serves
  status,       \* what it answered, 0 before
  recent        \* per address and age: failures counted since its last success

entryVars == <<failures, since, left, entries>>
vars == <<entryVars, sinceSweep, serving, status, recent>>

\* The zero value of loginAttempts, and what is left of a deleted entry.
Zero(a) ==
  /\ failures' = [failures EXCEPT ![a] = 0]
  /\ since' = [since EXCEPT ![a] = Window]
  /\ left' = [left EXCEPT ![a] = -1]

Never == [age \in 0 .. Window - 1 |-> 0]

Init ==
  /\ failures = [a \in Addresses |-> 0] /\ since = [a \in Addresses |-> Window]
  /\ left = [a \in Addresses |-> -1] /\ entries = {}
  /\ sinceSweep = Window
  /\ serving = [h \in Handlers |-> Nobody] /\ status = [h \in Handlers |-> 0]
  /\ recent = [a \in Addresses |-> Never]
-----------------------------------------------------------------------------
\* Mutant of Over: one of the two is enough.
OverEither(a) == left[a] < 0 \/ since[a] >= Window

Over(a) == left[a] < 0 /\ since[a] >= Window

\* sweepAttempts: entries nobody needs any more go, once in a Window.
Swept == {a \in entries : sinceSweep >= Window /\ Over(a)}

Sweep ==
  /\ entries' = entries \ Swept
  /\ failures' = [a \in Addresses |-> IF a \in Swept THEN 0 ELSE failures[a]]
  /\ since' = [a \in Addresses |-> IF a \in Swept THEN Window ELSE since[a]]
  /\ left' = [a \in Addresses |-> IF a \in Swept THEN -1 ELSE left[a]]
  /\ sinceSweep' = IF sinceSweep >= Window THEN 0 ELSE sinceSweep

\* loginBannedUntil, after the sweep
Banned(a) == a \in entries \ Swept /\ left[a] > 0

\* MiddlewareLoginLimiter, `count` set: the request is served if not banned.
Admit(h, a) ==
  /\ serving[h] = Nobody
  /\ ~ Banned(a)
  /\ Sweep
  /\ serving' = [serving EXCEPT ![h] = a]
  /\ UNCHANGED <<status, recent>>

\* Mutant of TurnAway: an attempt that is turned away is a failure too.
TurnAwayCounted(h, a) ==
  /\ serving[h] = Nobody
  /\ Banned(a)
  /\ left' = [left EXCEPT ![a] = Ban]
  /\ UNCHANGED <<failures, since, entries, sinceSweep, serving, status, recent>>

\* blockLoginBanned, or a route that is only checked for a ban
\* (MiddlewareLoginBanCheck): nothing is counted.
TurnAway(h, a) ==
  /\ serving[h] = Nobody
  /\ Sweep
  /\ UNCHANGED <<serving, status, recent>>

\* The statuses of ValidateLogin and GetLoginTokenJSON: a body that does not
\* parse (400), an id or a password no account can have (422), a pair that
\* none has (401), a database error (500), a session (200).
Answers == {200, 400, 401, 422, 500}

Serve(h) ==
  /\ serving[h] # Nobody /\ status[h] = 0
  /\ \E code \in Answers : status' = [status EXCEPT ![h] = code]
  /\ UNCHANGED <<entryVars, sinceSweep, serving, recent>>

isFailedLogin(code) == code \in {401, 422}

\* The middleware returns after it has counted.
Return(h) ==
  /\ serving' = [serving EXCEPT ![h] = Nobody] /\ status' = [status EXCEPT ![h] = 0]
  /\ UNCHANGED sinceSweep

\* Mutant of recordLoginFailure: the ban is set by the failure after the last one.
RecordOneMore(h) ==
  LET a == serving[h]
      n == (IF since[a] >= Window THEN 0 ELSE failures[a]) + 1
  IN /\ isFailedLogin(status[h])
     /\ entries' = entries \cup {a}
     /\ since' = [since EXCEPT ![a] = 0]
     /\ IF n > MaxFailed
          THEN failures' = [failures EXCEPT ![a] = 0] /\ left' = [left EXCEPT ![a] = Ban]
          ELSE failures' = [failures EXCEPT ![a] = n] /\ UNCHANGED left
     /\ recent' = [recent EXCEPT ![a][0] = @ + 1]
     /\ Return(h)

recordLoginFailure(h) ==
  LET a == serving[h]
      n == (IF since[a] >= Window THEN 0 ELSE failures[a]) + 1
  IN /\ isFailedLogin(status[h])
     /\ entries' = entries \cup {a}
     /\ since' = [since EXCEPT ![a] = 0]
     /\ IF n >= MaxFailed
          THEN failures' = [failures EXCEPT ![a] = 0] /\ left' = [left EXCEPT ![a] = Ban]
          ELSE failures' = [failures EXCEPT ![a] = n] /\ UNCHANGED left
     /\ recent' = [recent EXCEPT ![a][0] = @ + 1]
     /\ Return(h)

clearLoginFailures(h) ==
  /\ status[h] \in 1 .. 399
  /\ entries' = entries \ {serving[h]}
  /\ Zero(serving[h])
  /\ recent' = [recent EXCEPT ![serving[h]] = Never]
  /\ Return(h)

\* Neither a guess nor a login.
CountNothing(h) ==
  /\ status[h] >= 400 /\ ~ isFailedLogin(status[h])
  /\ UNCHANGED <<entryVars, recent>>
  /\ Return(h)

Tick ==
  LET older(n) == IF n < Window THEN n + 1 ELSE n
  IN /\ since' = [a \in Addresses |-> older(since[a])]
     /\ sinceSweep' = older(sinceSweep)
     /\ left' = [a \in Addresses |-> IF left[a] < 0 THEN -1 ELSE left[a] - 1]
     /\ recent' = [a \in Addresses |-> [age \in 0 .. Window - 1 |->
                     IF age = 0 THEN 0 ELSE recent[a][age - 1]]]
     /\ UNCHANGED <<failures, entries, serving, status>>

Finish(h) == Serve(h) \/ recordLoginFailure(h) \/ clearLoginFailures(h) \/ CountNothing(h)

Next ==
  \/ Tick
  \/ \E h \in Handlers : \/ \E a \in Addresses : Admit(h, a) \/ TurnAway(h, a)
                         \/ Finish(h)

\* Time passes, and a request that is served comes to its end.
Fairness == WF_vars(Tick) /\ \A h \in Handlers : WF_vars(Finish(h))

Spec == Init /\ [][Next]_vars /\ Fairness
-----------------------------------------------------------------------------
(***************************************************************************)
(* Properties                                                              *)
(***************************************************************************)
TypeOK ==
  /\ failures \in [Addresses -> 0 .. MaxFailed - 1]
  /\ since \in [Addresses -> 0 .. Window] /\ left \in [Addresses -> -1 .. Ban]
  /\ entries \subseteq Addresses /\ sinceSweep \in 0 .. Window
  /\ serving \in [Handlers -> Addresses \cup {Nobody}]
  /\ status \in [Handlers -> Answers \cup {0}]
  /\ recent \in [Addresses -> [0 .. Window - 1 -> Nat]]

\* The guesses of the last m ticks: their age, and their number among those of
\* the same age.
Guesses(counts, m) == UNION {{age} \X (1 .. counts[age]) : age \in 0 .. m - 1}

\* The guesses an address gets in any Window without a success in between:
\* MaxFailed, and one for each other handler that had passed the check
\* before the last of them was counted.
GuessesBounded ==
  \A a \in Addresses :
    Cardinality(Guesses(recent[a], Window)) <= MaxFailed + Cardinality(Handlers) - 1

\* The map with its sweep is invisible: the limiter counts and bans like one
\* that keeps the strikes of every address for ever.
Strikes == INSTANCE LoginStrikes WITH
  strikes <- [a \in Addresses |-> IF since[a] >= Window THEN 0 ELSE failures[a]],
  fresh <- [a \in Addresses |-> Window - since[a]],
  shut <- [a \in Addresses |-> IF left[a] < 0 THEN 0 ELSE left[a]],
  trying <- serving

ImplementsStrikes == Strikes!Spec

\* A ban ends, however often the address knocks while it lasts.
BanEnds == \A a \in Addresses : left[a] > 0 ~> left[a] <= 0
=============================================================================
