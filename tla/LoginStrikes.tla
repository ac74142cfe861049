---------------------------- MODULE LoginStrikes ----------------------------
(***************************************************************************)
(* What the login limiter promises (api/login/ratelimit.go): an address    *)
(* that fails MaxFailed times is shut out for Ban ticks, a failure is      *)
(* forgotten when no other follows within Ban ticks (FAILURE_WINDOW is     *)
(* LOGIN_BAN_DURATION), and a login that succeeds forgives everything.     *)
(* No map that grows, no sweep: every address has its strikes.             *)
(***************************************************************************)
EXTENDS Naturals

CONSTANTS Addresses, Handlers, MaxFailed, Ban,
          Nobody        \* no address

VARIABLES strikes,      \* failures that count
          fresh,        \* ticks until they are forgotten
          shut,         \* ticks until the address may try again
          trying        \* the address whose login each handler serves

sVars == <<strikes, fresh, shut, trying>>

Init ==
  /\ strikes = [a \in Addresses |-> 0] /\ fresh = [a \in Addresses |-> 0]
  /\ shut = [a \in Addresses |-> 0] /\ trying = [h \in Handlers |-> Nobody]

Try(h, a) ==
  /\ trying[h] = Nobody /\ shut[a] = 0
  /\ trying' = [trying EXCEPT ![h] = a]
  /\ UNCHANGED <<strikes, fresh, shut>>

Leave(h) == trying[h] # Nobody /\ trying' = [trying EXCEPT ![h] = Nobody]

Strike(h) ==
  LET a == trying[h]
  IN /\ Leave(h)
     /\ fresh' = [fresh EXCEPT ![a] = Ban]
     /\ IF strikes[a] + 1 >= MaxFailed
          THEN strikes' = [strikes EXCEPT ![a] = 0] /\ shut' = [shut EXCEPT ![a] = Ban]
          ELSE strikes' = [strikes EXCEPT ![a] = @ + 1] /\ UNCHANGED shut

Forgive(h) ==
  LET a == trying[h]
  IN /\ Leave(h)
     /\ strikes' = [strikes EXCEPT ![a] = 0] /\ fresh' = [fresh EXCEPT ![a] = 0]
     /\ shut' = [shut EXCEPT ![a] = 0]

Ignore(h) == Leave(h) /\ UNCHANGED <<strikes, fresh, shut>>

Less(n) == IF n = 0 THEN 0 ELSE n - 1

Tick ==
  /\ fresh' = [a \in Addresses |-> Less(fresh[a])]
  /\ shut' = [a \in Addresses |-> Less(shut[a])]
  /\ strikes' = [a \in Addresses |-> IF fresh[a] <= 1 THEN 0 ELSE strikes[a]]
  /\ UNCHANGED trying

Next ==
  \/ Tick
  \/ \E h \in Handlers : \/ \E a \in Addresses : Try(h, a)
                         \/ Strike(h) \/ Forgive(h) \/ Ignore(h)

Spec == Init /\ [][Next]_sVars
=============================================================================
