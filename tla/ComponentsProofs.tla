-------------------------- MODULE ComponentsProofs --------------------------
(***************************************************************************)
(* Proofs about Components for every set of users and handlers and every   *)
(* number of sessions: type correctness with the holder of the manager's   *)
(* mutex, that callbacks of a session run one at a time, that what a search *)
(* found is pushed once, and that inverse sends nobody to a group for good *)
(* that does not know him.                                                 *)
(***************************************************************************)
EXTENDS Components, TLAPS

\* From the swap of busy to the end of the run, close included.
Inside == {"call", "close", "closing", "delete"}

\* A handler that registers or runs a session has one, of a real group, and a
\* user; one that was pressed has a user, and a group once inverse gave it one.
Serving ==
  \A h \in Handlers :
    /\ pc[h] \in {"rules", "inverse", "write", "swap"} \cup Inside =>
         /\ target[h] \in 1 .. made /\ group[target[h]] \in Groups
         /\ user[h] \in Users
    /\ pc[h] \in {"press", "find"} => user[h] \in Users
    /\ pc[h] = "find" => place[h] \in Groups

\* A session stays in the map of the group it was registered in.
Filed ==
  \A g \in Groups, u \in Users : data[g][u] # 0 => group[data[g][u]] = g

\* Whoever runs a session holds its busy flag, alone.
BusyInv ==
  \A h \in Handlers : pc[h] \in Inside =>
    /\ target[h] \in busy
    /\ \A k \in Handlers : k # h /\ target[k] = target[h] => pc[k] \notin Inside

\* A session was pushed, once, exactly if it found polls and its close ran; one
\* that is deleted was closed.
PushInv ==
  /\ \A s \in Sessions : pushes[s] = IF s \in stopped \cap found THEN 1 ELSE 0
  /\ \A h \in Handlers :
       pc[h] = "delete" /\ group[target[h]] = "load" => target[h] \in stopped

IInv == TypeOK /\ Serving /\ Filed /\ BusyInv /\ PushInv
-----------------------------------------------------------------------------
(***************************************************************************)
(* The initial state                                                       *)
(***************************************************************************)
LEMMA InitIInv == Init => IInv /\ InverseHasSession
  <1> SUFFICES ASSUME Init PROVE IInv /\ InverseHasSession
    OBVIOUS
  <1>1. TypeOK
    BY HandlersAssumption, BoundAssumption DEF Init, TypeOK, Sessions
  <1>2. Serving /\ Filed /\ BusyInv /\ PushInv /\ InverseHasSession
    BY DEF Init, Serving, Filed, BusyInv, PushInv, InverseHasSession, Inside
  <1> QED
    BY <1>1, <1>2 DEF IInv
-----------------------------------------------------------------------------
(***************************************************************************)
(* Types                                                                   *)
(***************************************************************************)
MapsOK ==
  /\ inverse \in [Users -> Groups \cup {NoOne}]
  /\ data \in [Groups -> [Users -> 0 .. made]]
  /\ mutex \in Handlers \cup {NoOne}

SessionsOK ==
  /\ made \in 0 .. MaxSessions
  /\ owner \in [Sessions -> Users \cup {NoOne}] /\ group \in [Sessions -> Groups \cup {NoOne}]
  /\ busy \subseteq 1 .. made /\ stopped \subseteq 1 .. made /\ found \subseteq 1 .. made
  /\ pushes \in [Sessions -> Nat]

LocalsOK ==
  /\ pc \in [Handlers -> {"idle", "rules", "inverse", "write", "press", "find", "swap", "call",
                          "close", "closing", "delete", "gone"}]
  /\ place \in [Handlers -> Groups \cup {NoOne}] /\ target \in [Handlers -> 0 .. made]
  /\ user \in [Handlers -> Users \cup {NoOne}] /\ button \in [Handlers -> Buttons \cup {NoOne}]

MutexOK ==
  \A h \in Handlers : pc[h] # "gone" => (pc[h] \in {"closing", "delete"} <=> mutex = h)

TypesOK == MapsOK /\ SessionsOK /\ LocalsOK /\ MutexOK

LEMMA TypeParts == (TypeOK <=> TypesOK) /\ (TypeOK' <=> TypesOK')
  BY DEF TypeOK, TypesOK, MapsOK, SessionsOK, LocalsOK, MutexOK

LEMMA StepMapsOK ==
  ASSUME IInv, NEW h \in Handlers, Step(h)
  PROVE  MapsOK'
  <1> USE TypeParts DEF IInv, TypesOK, MapsOK, SessionsOK, maps, sessionVars, handlerVars
  <1>1. CASE applyRules(h)
    BY <1>1, BoundAssumption DEF applyRules, Serving
  <1>2. CASE PushInverse(h)
    BY <1>2 DEF PushInverse, Serving
  <1>3. CASE WriteData(h)
    BY <1>3 DEF WriteData, Serving
  <1>4. CASE CloseLock(h)
    BY <1>4 DEF CloseLock
  <1>5. CASE CloseCallback(h)
    BY <1>5 DEF CloseCallback
  <1>6. CASE CloseDelete(h)
    <2>1. group[target[h]] \in Groups /\ user[h] \in Users
      BY <1>6 DEF CloseDelete, Serving, Inside
    <2>2. /\ inverse' = [inverse EXCEPT ![user[h]] = NoOne]
          /\ data' = [data EXCEPT ![group[target[h]]][user[h]] = 0]
          /\ mutex' = NoOne /\ made' = made
      BY <1>6 DEF CloseDelete
    <2> QED
      BY <2>1, <2>2
  <1>7. CASE \/ FindGroup(h) \/ FindSession(h) \/ SetBusy(h)
             \/ UnknownId(h) \/ LoadContinue(h) \/ Done(h)
    BY <1>7 DEF FindGroup, FindSession, SetBusy, UnknownId, LoadContinue, Done
  <1> QED
    BY <1>1, <1>2, <1>3, <1>4, <1>5, <1>6, <1>7 DEF Step

LEMMA StepSessionsOK ==
  ASSUME IInv, NEW h \in Handlers, Step(h)
  PROVE  SessionsOK'
  <1> USE TypeParts, BoundAssumption DEF IInv, TypesOK, SessionsOK, Sessions, sessionVars
  <1>1. CASE \/ applyRules(h) \/ PushInverse(h) \/ WriteData(h)
             \/ FindGroup(h) \/ FindSession(h) \/ CloseLock(h)
    BY <1>1 DEF applyRules, PushInverse, WriteData, FindGroup, FindSession, CloseLock
  <1>2. CASE SetBusy(h)
    BY <1>2 DEF SetBusy, Serving, Inside
  <1>3. CASE LoadContinue(h)
    BY <1>3 DEF LoadContinue, Called, EndRun, Serving, Inside
  <1>4. CASE UnknownId(h) \/ Done(h) \/ CloseDelete(h)
    BY <1>4 DEF UnknownId, Done, CloseDelete, EndRun
  <1>5. CASE CloseCallback(h)
    <2>1. target[h] \in 1 .. made
      BY <1>5 DEF CloseCallback, Serving, Inside
    <2>2. pushes' = [pushes EXCEPT ![target[h]] = pushes[target[h]] + 1] \/ pushes' = pushes
      BY <1>5 DEF CloseCallback
    <2>3. stopped' \subseteq stopped \cup {target[h]} /\ busy' \subseteq busy
      BY <1>5 DEF CloseCallback, EndRun
    <2>4. pushes' \in [Sessions -> Nat]
      <3>1. target[h] \in Sessions /\ pushes \in [Sessions -> Nat]
        BY <2>1
      <3> QED
        BY <2>2, <3>1
    <2>5. UNCHANGED <<owner, group, found, made>>
      BY <1>5 DEF CloseCallback
    <2> QED
      BY <2>1, <2>3, <2>4, <2>5
  <1> QED
    BY <1>1, <1>2, <1>3, <1>4, <1>5 DEF Step

\* A handler moves on with its session, or it returns.
Moves(h) ==
  /\ pc[h] \in {"rules", "inverse", "swap", "call", "close", "closing"}
  /\ UNCHANGED handlerVars
  /\ \E at \in {"inverse", "write", "call", "close", "closing", "delete"} : Goto(h, at)

LEMMA StepMoves ==
  ASSUME NEW h \in Handlers, Step(h)
  PROVE  Moves(h) \/ Return(h) \/ FindGroup(h) \/ FindSession(h)
  <1> USE DEF Moves
  <1>1. CASE applyRules(h) \/ PushInverse(h) \/ CloseLock(h)
    BY <1>1 DEF applyRules, PushInverse, CloseLock, sessionVars
  <1>2. CASE WriteData(h) \/ UnknownId(h) \/ LoadContinue(h) \/ CloseDelete(h)
    BY <1>2 DEF WriteData, UnknownId, LoadContinue, CloseDelete, EndRun
  <1>3. CASE SetBusy(h)
    BY <1>3 DEF SetBusy
  <1>4. CASE Done(h) \/ CloseCallback(h)
    BY <1>4 DEF Done, Called, CloseCallback, EndRun
  <1> QED
    BY <1>1, <1>2, <1>3, <1>4 DEF Step

LEMMA StepLocalsOK ==
  ASSUME IInv, NEW h \in Handlers, Step(h)
  PROVE  LocalsOK'
  <1>1. TypesOK /\ made' = made
    <2>1. made' = made
      BY DEF Step, applyRules, PushInverse, WriteData, FindGroup, FindSession, SetBusy, UnknownId,
             LoadContinue, Done, CloseLock, CloseCallback, CloseDelete, sessionVars
    <2> QED
      BY <2>1, TypeParts DEF IInv
  <1>2. CASE Moves(h)
    BY <1>1, <1>2 DEF Moves, Goto, handlerVars, TypesOK, LocalsOK
  <1>3. CASE Return(h)
    BY <1>1, <1>3 DEF Return, Goto, TypesOK, SessionsOK, LocalsOK
  <1>4. CASE FindGroup(h)
    <2>1. CASE Return(h)
      BY <1>3, <2>1
    <2>2. CASE /\ inverse[user[h]] # NoOne
               /\ place' = [place EXCEPT ![h] = inverse[user[h]]] /\ Goto(h, "find")
               /\ UNCHANGED <<user, button, target>>
      <3>1. inverse[user[h]] \in Groups
        BY <1>1, <1>4, <2>2 DEF FindGroup, IInv, Serving, TypesOK, MapsOK
      <3> QED
        BY <1>1, <2>2, <3>1 DEF Goto, TypesOK, LocalsOK
    <2> QED
      BY <1>4, <2>1, <2>2 DEF FindGroup
  <1>5. CASE FindSession(h)
    <2>1. CASE Return(h)
      BY <1>3, <2>1
    <2>2. CASE /\ target' = [target EXCEPT ![h] = data[place[h]][user[h]]]
               /\ Goto(h, "swap") /\ UNCHANGED <<user, button, place>>
      <3>1. data[place[h]][user[h]] \in 0 .. made
        BY <1>1, <1>5 DEF FindSession, IInv, Serving, TypesOK, MapsOK
      <3> QED
        BY <1>1, <2>2, <3>1 DEF Goto, TypesOK, LocalsOK
    <2> QED
      BY <1>5, <2>1, <2>2 DEF FindSession
  <1> QED
    BY <1>2, <1>3, <1>4, <1>5, StepMoves

LEMMA StepMutexOK ==
  ASSUME IInv, NEW h \in Handlers, Step(h)
  PROVE  MutexOK'
  <1> USE TypeParts, HandlersAssumption DEF IInv, TypesOK, LocalsOK, MutexOK, Goto, Return, maps
  <1>1. CASE applyRules(h) \/ PushInverse(h) \/ WriteData(h)
    BY <1>1 DEF applyRules, PushInverse, WriteData
  <1>2. CASE FindGroup(h) \/ FindSession(h) \/ SetBusy(h)
    BY <1>2 DEF FindGroup, FindSession, SetBusy
  <1>3. CASE UnknownId(h) \/ LoadContinue(h) \/ Done(h)
    BY <1>3 DEF UnknownId, LoadContinue, Done, Called, EndRun
  <1>4. CASE CloseLock(h)
    BY <1>4 DEF CloseLock
  <1>5. CASE CloseCallback(h)
    BY <1>5 DEF CloseCallback, EndRun
  <1>6. CASE CloseDelete(h)
    BY <1>6 DEF CloseDelete, EndRun
  <1> QED
    BY <1>1, <1>2, <1>3, <1>4, <1>5, <1>6 DEF Step

LEMMA StepTypeOK ==
  ASSUME IInv, NEW h \in Handlers, Step(h)
  PROVE  TypeOK'
  BY StepMapsOK, StepSessionsOK, StepLocalsOK, StepMutexOK, TypeParts DEF TypesOK
-----------------------------------------------------------------------------
(***************************************************************************)
(* What handlers work on                                                   *)
(***************************************************************************)
\* Sessions keep their group, and handlers of others what they have.
LEMMA StepKeeps ==
  ASSUME NEW h \in Handlers, Step(h)
  PROVE  /\ made' = made /\ group' = group
         /\ LocalsOK => \A k \in Handlers \ {h} :
              /\ pc'[k] = pc[k] /\ target'[k] = target[k]
              /\ user'[k] = user[k] /\ place'[k] = place[k]
  <1>1. made' = made /\ group' = group
    BY DEF Step, applyRules, PushInverse, WriteData, FindGroup, FindSession, SetBusy, UnknownId,
           LoadContinue, Done, CloseLock, CloseCallback, CloseDelete, sessionVars
  <1>2. \/ Moves(h) \/ Return(h)
        \/ /\ UNCHANGED <<user, button, target>> /\ Goto(h, "find")
           /\ place' = [place EXCEPT ![h] = inverse[user[h]]]
        \/ /\ UNCHANGED <<user, button, place>> /\ Goto(h, "swap")
           /\ target' = [target EXCEPT ![h] = data[place[h]][user[h]]]
    BY StepMoves DEF FindGroup, FindSession
  <1> QED
    BY <1>1, <1>2 DEF Moves, Return, Goto, LocalsOK, handlerVars

LEMMA StepServing ==
  ASSUME IInv, NEW h \in Handlers, Step(h)
  PROVE  Serving'
  <1> USE DEF Serving, Inside
  <1>1. LocalsOK /\ MapsOK
    BY TypeParts DEF IInv, TypesOK
  <1>2. made' = made /\ group' = group
    BY StepKeeps
  <1>3. ASSUME NEW k \in Handlers \ {h} PROVE Serving!(k)'
    BY <1>1, <1>2, <1>3, StepKeeps DEF IInv
  <1>4. Serving!(h)'
    <2>1. CASE Return(h)
      BY <1>1, <2>1 DEF Return, Goto, LocalsOK
    <2>2. CASE Moves(h)
      BY <1>1, <1>2, <2>2 DEF Moves, Goto, LocalsOK, handlerVars, IInv
    <2>3. CASE FindGroup(h)
      BY <1>1, <2>1, <2>3 DEF FindGroup, Goto, LocalsOK, MapsOK, IInv
    <2>4. CASE FindSession(h)
      BY <1>1, <1>2, <2>1, <2>4 DEF FindSession, Goto, LocalsOK, MapsOK, IInv, Filed
    <2> QED
      BY <2>1, <2>2, <2>3, <2>4, StepMoves
  <1> QED
    BY <1>3, <1>4

\* Only a Register files a session, in the group it was made for.
LEMMA StepFiled ==
  ASSUME IInv, NEW h \in Handlers, Step(h)
  PROVE  Filed'
  <1>1. group' = group
    BY StepKeeps
  <1>2. MapsOK /\ LocalsOK /\ Serving
    BY TypeParts DEF IInv, TypesOK
  <1>3. CASE applyRules(h)
    <2>1. group[target[h]] \in Groups
      BY <1>2, <1>3 DEF applyRules, Serving
    <2>2. \A g \in Groups, u \in Users : data'[g][u] # 0 => data'[g][u] = data[g][u]
      BY <1>2, <1>3, <2>1 DEF applyRules, MapsOK
    <2> QED
      BY <1>1, <2>2 DEF Filed, IInv
  <1>4. CASE WriteData(h)
    <2>1. group[target[h]] \in Groups /\ user[h] \in Users
      BY <1>2, <1>4 DEF WriteData, Serving
    <2>2. \A g \in Groups, u \in Users :
            \/ data'[g][u] = data[g][u]
            \/ g = group[target[h]] /\ data'[g][u] = target[h]
      BY <1>2, <1>4, <2>1 DEF WriteData, MapsOK
    <2> QED
      BY <1>1, <2>2 DEF Filed, IInv
  <1>5. CASE CloseDelete(h)
    <2>1. group[target[h]] \in Groups /\ user[h] \in Users
      BY <1>2, <1>5 DEF CloseDelete, Serving, Inside
    <2>2. \A g \in Groups, u \in Users : data'[g][u] # 0 => data'[g][u] = data[g][u]
      BY <1>2, <1>5, <2>1 DEF CloseDelete, MapsOK
    <2> QED
      BY <1>1, <2>2 DEF Filed, IInv
  <1>6. ASSUME data' = data PROVE Filed'
    BY <1>1, <1>6 DEF Filed, IInv
  <1> QED
    BY <1>3, <1>4, <1>5, <1>6
    DEF Step, PushInverse, FindGroup, FindSession, SetBusy, UnknownId, LoadContinue, Done,
        CloseLock, CloseCallback, maps
-----------------------------------------------------------------------------
(***************************************************************************)
(* One callback of a session at a time                                     *)
(***************************************************************************)
LEMMA StepBusyInv ==
  ASSUME IInv, NEW h \in Handlers, Step(h)
  PROVE  BusyInv'
  <1> USE DEF BusyInv, Inside
  <1>1. LocalsOK /\ BusyInv
    BY TypeParts DEF IInv, TypesOK
  <1>2. \A k \in Handlers \ {h} : pc'[k] = pc[k] /\ target'[k] = target[k]
    BY <1>1, StepKeeps
  \* The flag is set by who enters, and cleared by who leaves.
  <1>3. CASE SetBusy(h)
    BY <1>1, <1>2, <1>3 DEF SetBusy, LocalsOK, Goto, Return, handlerVars
  <1>4. CASE UnknownId(h) \/ LoadContinue(h) \/ CloseDelete(h)
    BY <1>1, <1>2, <1>4 DEF UnknownId, LoadContinue, CloseDelete, Called, EndRun, LocalsOK, Goto, Return
  <1>5. CASE Done(h)
    BY <1>1, <1>2, <1>5 DEF Done, Called, EndRun, LocalsOK, Goto, Return, handlerVars
  <1>6. CASE CloseCallback(h)
    BY <1>1, <1>2, <1>6 DEF CloseCallback, EndRun, LocalsOK, Goto, Return, handlerVars
  <1>7. CASE CloseLock(h)
    BY <1>1, <1>2, <1>7 DEF CloseLock, LocalsOK, Goto, sessionVars, handlerVars
  <1>8. CASE applyRules(h) \/ PushInverse(h) \/ WriteData(h) \/ FindGroup(h) \/ FindSession(h)
    <2>1. busy' = busy /\ pc[h] \notin Inside /\ pc'[h] \notin Inside
      BY <1>1, <1>8
      DEF applyRules, PushInverse, WriteData, FindGroup, FindSession, Goto, Return, LocalsOK, sessionVars
    <2> QED
      BY <1>1, <1>2, <2>1
  <1> QED
    BY <1>3, <1>4, <1>5, <1>6, <1>7, <1>8 DEF Step
-----------------------------------------------------------------------------
(***************************************************************************)
(* What was found is pushed once                                           *)
(***************************************************************************)
LEMMA StepPushInv ==
  ASSUME IInv, NEW h \in Handlers, Step(h)
  PROVE  PushInv'
  <1>1. LocalsOK /\ SessionsOK /\ Serving /\ BusyInv /\ PushInv
    BY TypeParts DEF IInv, TypesOK
  <1>2. /\ group' = group
        /\ \A k \in Handlers \ {h} : pc'[k] = pc[k] /\ target'[k] = target[k]
    BY <1>1, StepKeeps
  <1>3. CASE LoadContinue(h)
    <2>1. pushes' = pushes /\ stopped' = stopped /\ pc'[h] = "idle"
      BY <1>1, <1>3 DEF LoadContinue, EndRun, Return, Goto, LocalsOK
    <2>2. \A s : s \in stopped' \cap found' <=> s \in stopped \cap found
      BY <1>3 DEF LoadContinue
    <2> QED
      BY <1>1, <1>2, <2>1, <2>2 DEF PushInv
  <1>4. CASE CloseCallback(h)
    <2>1. target[h] \in Sessions /\ group[target[h]] \in Groups
      BY <1>1, <1>4, BoundAssumption DEF CloseCallback, Serving, Inside, SessionsOK, Sessions
    <2>2. CASE group[target[h]] = "load" /\ target[h] \notin stopped
      <3>1. /\ stopped' = stopped \cup {target[h]} /\ found' = found
            /\ pushes' = [pushes EXCEPT ![target[h]] =
                            IF target[h] \in found THEN pushes[target[h]] + 1 ELSE pushes[target[h]]]
            /\ pc'[h] = "delete" => target'[h] = target[h]
        BY <1>1, <1>4, <2>2 DEF CloseCallback, EndRun, Return, Goto, LocalsOK, handlerVars
      <3>2. pushes[target[h]] = 0
        BY <1>1, <2>1, <2>2 DEF PushInv
      <3> QED
        BY <1>1, <1>2, <2>1, <3>1, <3>2 DEF PushInv, SessionsOK
    <2>3. CASE ~ (group[target[h]] = "load" /\ target[h] \notin stopped)
      <3>1. UNCHANGED <<stopped, found, pushes, target>> /\ pc'[h] = "delete"
        BY <1>1, <1>4, <2>3 DEF CloseCallback, Goto, LocalsOK, handlerVars
      <3> QED
        BY <1>1, <1>2, <2>3, <3>1 DEF PushInv
    <2> QED
      BY <2>2, <2>3
  <1>5. ASSUME UNCHANGED <<stopped, found, pushes>>, pc'[h] # "delete"
        PROVE  PushInv'
    BY <1>1, <1>2, <1>5 DEF PushInv
  <1>6. CASE \/ applyRules(h) \/ PushInverse(h) \/ WriteData(h) \/ FindGroup(h) \/ FindSession(h)
             \/ SetBusy(h) \/ UnknownId(h) \/ Done(h) \/ CloseLock(h) \/ CloseDelete(h)
    <2>1. UNCHANGED <<stopped, found, pushes>>
      BY <1>6 DEF applyRules, PushInverse, WriteData, FindGroup, FindSession, SetBusy, UnknownId,
                  Done, CloseLock, CloseDelete, sessionVars
    <2>2. pc'[h] # "delete"
      BY <1>1, <1>6
      DEF applyRules, PushInverse, WriteData, FindGroup, FindSession, SetBusy, UnknownId, Done,
          CloseLock, CloseDelete, EndRun, Return, Goto, LocalsOK
    <2> QED
      BY <1>5, <2>1, <2>2
  <1> QED
    BY <1>3, <1>4, <1>6 DEF Step
-----------------------------------------------------------------------------
(***************************************************************************)
(* The other steps, and the theorems                                       *)
(***************************************************************************)
\* A new session is known to its handler only.
LEMMA CommandIInv ==
  ASSUME IInv, NEW h \in Handlers, NEW u \in Users, NEW g \in Groups, Command(h, u, g)
  PROVE  IInv'
  <1> USE HandlersAssumption, BoundAssumption DEF Command, maps
  <1>1. TypesOK /\ Serving /\ Filed /\ BusyInv /\ PushInv
    BY TypeParts DEF IInv
  <1>2. made' = made + 1 /\ made' \in Sessions /\ made \in Nat
    BY <1>1 DEF TypesOK, SessionsOK, Sessions
  <1>3. \A s \in 1 .. made : s \in Sessions /\ s # made' /\ group'[s] = group[s]
    BY <1>1, <1>2 DEF TypesOK, SessionsOK, Sessions
  <1>4. group'[made'] = g
    BY <1>1, <1>2 DEF TypesOK, SessionsOK
  <1>5. /\ pc'[h] = "rules" /\ target'[h] = made' /\ user'[h] = u
        /\ \A k \in Handlers \ {h} :
             pc'[k] = pc[k] /\ target'[k] = target[k] /\ user'[k] = user[k]
    BY <1>1 DEF TypesOK, LocalsOK, Goto
  <1>6. TypesOK'
    <2>1. MapsOK'
      BY <1>1, <1>2 DEF TypesOK, MapsOK
    <2>2. SessionsOK'
      BY <1>1, <1>2 DEF TypesOK, SessionsOK, Sessions
    <2>3. LocalsOK'
      BY <1>1, <1>2 DEF TypesOK, LocalsOK, Goto
    <2>4. MutexOK'
      BY <1>1, <1>5 DEF TypesOK, MutexOK
    <2> QED
      BY <2>1, <2>2, <2>3, <2>4 DEF TypesOK
  <1>7. Serving'
    BY <1>1, <1>2, <1>3, <1>4, <1>5 DEF Serving, Inside
  <1>8. Filed'
    BY <1>1, <1>2, <1>3 DEF Filed, TypesOK, MapsOK
  <1>9. BusyInv'
    BY <1>1, <1>2, <1>3, <1>5 DEF BusyInv, Serving, Inside
  <1>10. PushInv'
    BY <1>1, <1>2, <1>3, <1>5 DEF PushInv, Serving, Inside
  <1> QED
    BY <1>6, <1>7, <1>8, <1>9, <1>10, TypeParts DEF IInv

LEMMA PressIInv ==
  ASSUME IInv, NEW h \in Handlers, NEW u \in Users, NEW b \in Buttons, Press(h, u, b)
  PROVE  IInv'
  <1> USE DEF Press, maps, sessionVars
  <1>1. TypesOK /\ Serving /\ Filed /\ BusyInv /\ PushInv
    BY TypeParts DEF IInv
  <1>2. /\ pc'[h] = "press" /\ user'[h] = u
        /\ \A k \in Handlers \ {h} : pc'[k] = pc[k] /\ user'[k] = user[k]
    BY <1>1 DEF TypesOK, LocalsOK, Goto
  <1>3. TypesOK'
    <2>1. MapsOK' /\ SessionsOK'
      BY <1>1 DEF TypesOK, MapsOK, SessionsOK
    <2>2. LocalsOK'
      BY <1>1 DEF TypesOK, LocalsOK, Goto
    <2>3. MutexOK'
      BY <1>1, <1>2 DEF TypesOK, MutexOK
    <2> QED
      BY <2>1, <2>2, <2>3 DEF TypesOK
  <1>4. Serving'
    BY <1>1, <1>2 DEF Serving, Inside
  <1>5. Filed' /\ BusyInv' /\ PushInv'
    BY <1>1, <1>2 DEF Filed, BusyInv, PushInv, Inside
  <1> QED
    BY <1>3, <1>4, <1>5, TypeParts DEF IInv

LEMMA ThrowIInv ==
  ASSUME IInv, Throw
  PROVE  IInv'
  <1> USE DEF Throw, maps, sessionVars, handlerVars
  <1>1. TypesOK /\ Filed /\ PushInv
    BY TypeParts DEF IInv
  <1>2. \A h \in Handlers : pc'[h] = "gone"
    OBVIOUS
  <1>3. TypesOK'
    BY <1>1, <1>2 DEF TypesOK, MapsOK, SessionsOK, LocalsOK, MutexOK
  <1>4. Serving' /\ Filed' /\ BusyInv' /\ PushInv'
    BY <1>1, <1>2 DEF Serving, Filed, BusyInv, PushInv, Inside
  <1> QED
    BY <1>3, <1>4, TypeParts DEF IInv

\* A session leaves the maps with its user's entry of inverse, or its user has
\* another one written soon.
LEMMA StepInverse ==
  ASSUME IInv, InverseHasSession, NEW h \in Handlers, Step(h)
  PROVE  InverseHasSession'
  <1>1. MapsOK /\ LocalsOK /\ Serving
    BY TypeParts DEF IInv, TypesOK
  <1>2. /\ group' = group
        /\ \A k \in Handlers \ {h} :
             pc'[k] = pc[k] /\ target'[k] = target[k] /\ user'[k] = user[k]
    BY <1>1, StepKeeps
  <1>3. CASE applyRules(h)
    <2>1. group[target[h]] \in Groups /\ pc[h] \notin {"write", "gone"}
      BY <1>1, <1>3 DEF applyRules, Serving
    <2>2. \A u \in Users : inverse'[u] # NoOne =>
            /\ inverse'[u] = inverse[u]
            /\ data[inverse[u]][u] # 0 => data'[inverse[u]][u] # 0
      BY <1>1, <1>3, <2>1 DEF applyRules, MapsOK
    <2> QED
      BY <1>2, <2>1, <2>2 DEF InverseHasSession
  <1>4. CASE PushInverse(h)
    <2>1. /\ user[h] \in Users /\ pc[h] \notin {"write", "gone"} /\ data' = data
          /\ pc'[h] = "write" /\ user'[h] = user[h] /\ target'[h] = target[h]
      BY <1>1, <1>4 DEF PushInverse, Serving, LocalsOK, Goto, handlerVars
    <2>2. inverse' = [inverse EXCEPT ![user[h]] = group[target[h]]]
      BY <1>4 DEF PushInverse
    <2>3. ASSUME NEW u \in Users, inverse'[u] # NoOne
          PROVE  \/ data'[inverse'[u]][u] # 0
                 \/ \E k \in Handlers : /\ pc'[k] \in {"write", "gone"} /\ user'[k] = u
                                        /\ group'[target'[k]] = inverse'[u]
      <3>1. CASE u = user[h]
        BY <1>1, <1>2, <2>1, <2>2, <3>1 DEF MapsOK
      <3>2. CASE u # user[h]
        BY <1>1, <1>2, <2>1, <2>2, <2>3, <3>2 DEF MapsOK, InverseHasSession
      <3> QED
        BY <3>1, <3>2
    <2> QED
      BY <2>3 DEF InverseHasSession
  <1>5. CASE WriteData(h)
    <2>1. /\ group[target[h]] \in Groups /\ user[h] \in Users /\ target[h] # 0
          /\ inverse' = inverse
      BY <1>1, <1>5 DEF WriteData, Serving
    <2>2. /\ data'[group[target[h]]][user[h]] # 0
          /\ \A g \in Groups, u \in Users : data[g][u] # 0 => data'[g][u] # 0
      BY <1>1, <1>5, <2>1 DEF WriteData, MapsOK
    <2> QED
      BY <1>1, <1>2, <2>1, <2>2 DEF InverseHasSession, MapsOK
  <1>6. CASE CloseDelete(h)
    <2>1. group[target[h]] \in Groups /\ user[h] \in Users /\ pc[h] \notin {"write", "gone"}
      BY <1>1, <1>6 DEF CloseDelete, Serving, Inside
    <2>2. \A u \in Users : inverse'[u] # NoOne =>
            /\ u # user[h] /\ inverse'[u] = inverse[u]
            /\ data'[inverse[u]][u] = data[inverse[u]][u]
      BY <1>1, <1>6, <2>1 DEF CloseDelete, MapsOK
    <2> QED
      BY <1>2, <2>1, <2>2 DEF InverseHasSession
  <1>7. CASE \/ FindGroup(h) \/ FindSession(h) \/ SetBusy(h) \/ UnknownId(h)
             \/ LoadContinue(h) \/ Done(h) \/ CloseLock(h) \/ CloseCallback(h)
    <2>1. UNCHANGED <<inverse, data>> /\ pc[h] \notin {"write", "gone"}
      BY <1>7 DEF FindGroup, FindSession, SetBusy, UnknownId, LoadContinue, Done, Called, CloseLock,
                  CloseCallback, maps
    <2> QED
      BY <1>2, <2>1 DEF InverseHasSession
  <1> QED
    BY <1>3, <1>4, <1>5, <1>6, <1>7 DEF Step

LEMMA NextIInv == IInv /\ [Next]_vars => IInv'
  <1> SUFFICES ASSUME IInv, [Next]_vars PROVE IInv'
    OBVIOUS
  <1>1. ASSUME NEW h \in Handlers, Step(h) PROVE IInv'
    BY <1>1, StepTypeOK, StepServing, StepFiled, StepBusyInv, StepPushInv DEF IInv
  <1>2. ASSUME NEW h \in Handlers, NEW u \in Users, NEW g \in Groups, Command(h, u, g) PROVE IInv'
    BY <1>2, CommandIInv
  <1>3. ASSUME NEW h \in Handlers, NEW u \in Users, NEW b \in Buttons, Press(h, u, b) PROVE IInv'
    BY <1>3, PressIInv
  <1>4. CASE Throw
    BY <1>4, ThrowIInv
  <1>5. CASE UNCHANGED vars
    <2>1. TypesOK'
      BY <1>5, TypeParts
      DEF IInv, TypesOK, MapsOK, SessionsOK, LocalsOK, MutexOK, vars, maps, sessionVars, handlerVars
    <2>2. Serving' /\ Filed' /\ BusyInv' /\ PushInv'
      BY <1>5 DEF IInv, Serving, Filed, BusyInv, PushInv, vars, maps, sessionVars, handlerVars
    <2> QED
      BY <2>1, <2>2, TypeParts DEF IInv
  <1> QED
    BY <1>1, <1>2, <1>3, <1>4, <1>5 DEF Next

LEMMA NextInverse == IInv /\ InverseHasSession /\ [Next]_vars => InverseHasSession'
  <1> SUFFICES ASSUME IInv, InverseHasSession, [Next]_vars PROVE InverseHasSession'
    OBVIOUS
  <1>1. TypesOK /\ Serving
    BY TypeParts DEF IInv
  <1>2. ASSUME NEW h \in Handlers, Step(h) PROVE InverseHasSession'
    BY <1>2, StepInverse
  <1>3. ASSUME NEW h \in Handlers, NEW u \in Users, NEW g \in Groups, Command(h, u, g)
        PROVE  InverseHasSession'
    <2>1. UNCHANGED <<inverse, data>> /\ pc[h] = "idle"
      BY <1>3 DEF Command, maps
    <2>2. \A k \in Handlers \ {h} :
            pc'[k] = pc[k] /\ target'[k] = target[k] /\ user'[k] = user[k]
      BY <1>1, <1>3 DEF Command, Goto, TypesOK, LocalsOK
    <2>3. \A s \in 0 .. made : group'[s] = group[s]
      BY <1>1, <1>3, BoundAssumption DEF Command, TypesOK, SessionsOK, Sessions
    <2>4. \A k \in Handlers : target[k] \in 0 .. made
      BY <1>1 DEF TypesOK, LocalsOK
    <2> QED
      BY <2>1, <2>2, <2>3, <2>4 DEF InverseHasSession
  <1>4. ASSUME NEW h \in Handlers, NEW u \in Users, NEW b \in Buttons, Press(h, u, b)
        PROVE  InverseHasSession'
    <2>1. UNCHANGED <<inverse, data, group, target>> /\ pc[h] = "idle"
      BY <1>4 DEF Press, maps, sessionVars
    <2>2. \A k \in Handlers \ {h} : pc'[k] = pc[k] /\ user'[k] = user[k]
      BY <1>1, <1>4 DEF Press, Goto, TypesOK, LocalsOK
    <2> QED
      BY <2>1, <2>2 DEF InverseHasSession
  <1>5. CASE Throw
    BY <1>5 DEF Throw, InverseHasSession, maps, sessionVars, handlerVars
  <1>6. CASE UNCHANGED vars
    BY <1>6 DEF InverseHasSession, vars, maps, sessionVars, handlerVars
  <1> QED
    BY <1>2, <1>3, <1>4, <1>5, <1>6 DEF Next

LEMMA ComponentsInvariant == Spec => []IInv
  BY InitIInv, NextIInv, PTL DEF Spec

\* Every variable has its type, and the manager's mutex is held by exactly the
\* handler between CloseLock and the end of its close.
THEOREM ComponentsTypeCorrect == Spec => []TypeOK
  <1>1. IInv => TypeOK
    BY DEF IInv
  <1> QED
    BY <1>1, ComponentsInvariant, PTL

\* The busy flag alone makes the callbacks of a session exclusive, whatever is
\* registered, invalidated and closed meanwhile.
THEOREM OneCallbackHolds == Spec => []OneCallback
  <1>1. IInv => OneCallback
    BY DEF IInv, BusyInv, Inside, OneCallback
  <1> QED
    BY <1>1, ComponentsInvariant, PTL

\* What a search found is handed to Push at most once, and before its own close
\* forgets it.
THEOREM SavedOnceHolds == Spec => []SavedOnce
  <1>1. IInv => SavedOnce
    <2> SUFFICES ASSUME IInv PROVE SavedOnce
      OBVIOUS
    <2>1. \A s \in Sessions : pushes[s] <= 1
      BY DEF IInv, PushInv
    <2>2. ASSUME NEW h \in Handlers, pc[h] = "delete", group[target[h]] = "load", target[h] \in found
          PROVE  pushes[target[h]] = 1
      <3>1. target[h] \in Sessions
        BY <2>2, BoundAssumption DEF IInv, Serving, Inside, TypeOK, Sessions
      <3> QED
        BY <2>2, <3>1 DEF IInv, PushInv
    <2> QED
      BY <2>1, <2>2 DEF SavedOnce
  <1> QED
    BY <1>1, ComponentsInvariant, PTL

\* Whom inverse sends to a group has a session there, or one about to be written.
THEOREM InverseHasSessionHolds == Spec => []InverseHasSession
  BY InitIInv, NextInverse, ComponentsInvariant, PTL DEF Spec
=============================================================================
