------------------------- MODULE DictionariesProofs -------------------------
(***************************************************************************)
(* Proofs about Dictionaries for every set of users, keys, handlers and    *)
(* batches: type correctness, that a dictionary and its file differ only   *)
(* while somebody is to write or failed to, that a closed dictionary is    *)
(* read-only, and that ranks come from above.                              *)
(***************************************************************************)
EXTENDS Dictionaries, SequenceTheorems, WellFoundedInduction, TLAPS

\* Who holds a mutex between two steps is in the middle of a rewrite of an
\* open dictionary, whose file has no rows.
WriteInv ==
  \A d \in Dicts : mutex[d] # Nobody =>
    /\ ~ closed[d] /\ file[d] = Blank
    /\ looked[mutex[d]] /\ Op(mutex[d]) = Write(d)

IInv == TypeOK /\ WriteInv /\ Saved
-----------------------------------------------------------------------------
LEMMA NoOperation ==
  ASSUME NEW d
  PROVE  RequestOn(d, <<>>)
  BY DEF RequestOn

\* The first operation of a request is on its dictionary, and what follows it
\* is a request on it too; only a write is the last one.
LEMMA FirstOperation ==
  ASSUME NEW d, NEW ops, RequestOn(d, ops), ops # <<>>
  PROVE  /\ Head(ops) \in Operation(d) /\ Head(ops).dict = d
         /\ RequestOn(d, Tail(ops))
         /\ Head(ops).do = "write" => Tail(ops) = <<>> /\ Head(ops) = Write(d)
         /\ Head(ops).do = "set" => /\ Tail(ops) # <<>>
                                    /\ Head(ops).key \in Keys /\ Head(ops).to \in Entries(d)
  <1>1. ops \in Seq(Operation(d)) /\ Len(ops) \in Nat \ {0}
    BY EmptySeq DEF RequestOn
  <1>2. /\ Head(ops) \in Operation(d) /\ Tail(ops) \in Seq(Operation(d))
        /\ Len(Tail(ops)) = Len(ops) - 1
        /\ \A i \in 1 .. Len(Tail(ops)) : Tail(ops)[i] = ops[i + 1]
    BY <1>1, HeadTailProperties
  <1>3. Head(ops) = ops[1]
    BY <1>1
  <1>4. Head(ops).do = "write" <=> Len(ops) = 1
    BY <1>1, <1>3 DEF RequestOn
  <1>5. Tail(ops) = <<>> <=> Len(ops) = 1
    <2>1. Tail(ops) = <<>> => Len(Tail(ops)) = 0
      BY EmptySeq
    <2>2. Tail(ops) # <<>> => Len(Tail(ops)) \in Nat \ {0}
      BY <1>2, EmptySeq
    <2> QED
      BY <1>1, <1>2, <2>1, <2>2
  <1>6. RequestOn(d, Tail(ops))
    <2>1. ASSUME NEW i \in 1 .. Len(Tail(ops))
          PROVE  Tail(ops)[i].do = "write" <=> i = Len(Tail(ops))
      <3>1. i + 1 \in 1 .. Len(ops) /\ Tail(ops)[i] = ops[i + 1]
        BY <1>1, <1>2
      <3>2. ops[i + 1].do = "write" <=> i + 1 = Len(ops)
        BY <3>1 DEF RequestOn
      <3>3. i = Len(Tail(ops)) <=> i + 1 = Len(ops)
        BY <1>1, <1>2
      <3> QED
        BY <3>1, <3>2, <3>3
    <2> QED
      BY <1>2, <2>1 DEF RequestOn
  <1>7. /\ Head(ops).dict = d /\ Head(ops).do \in {"set", "write"}
        /\ Head(ops).do = "write" => Head(ops) = Write(d)
        /\ Head(ops).do = "set" => Head(ops).key \in Keys /\ Head(ops).to \in Entries(d)
    BY <1>2 DEF Operation, Write
  <1> QED
    BY <1>2, <1>4, <1>5, <1>6, <1>7

LEMMA BatchIsRequest ==
  ASSUME NEW batch \in AliasBatches
  PROVE  LET ops == [i \in 1 .. Len(batch) |-> Change("aliases", batch[i][1], batch[i][2])]
                      \o <<Write("aliases")>>
         IN RequestOn("aliases", ops) /\ ops # <<>>
  <1> DEFINE O == Operation("aliases")
             changes == [i \in 1 .. Len(batch) |-> Change("aliases", batch[i][1], batch[i][2])]
             ops == changes \o <<Write("aliases")>>
  <1>1. batch \in Seq(Keys \X Entries("aliases")) /\ Len(batch) \in Nat
    BY BatchesAssumption
  <1>2. \A i \in 1 .. Len(batch) : /\ changes[i] \in O /\ changes[i].do = "set"
    <2> SUFFICES ASSUME NEW i \in 1 .. Len(batch)
                 PROVE  changes[i] \in O /\ changes[i].do = "set"
      OBVIOUS
    <2>1. batch[i] \in Keys \X Entries("aliases")
      BY <1>1, ElementOfSeq
    <2> QED
      BY <2>1 DEF Operation, Change
  <1>3. changes \in Seq(O) /\ Len(changes) = Len(batch)
    BY <1>1, <1>2, IsASeq
  <1>4. <<Write("aliases")>> \in Seq(O) /\ Len(<<Write("aliases")>>) = 1
    BY DEF Operation, Write
  <1>5. /\ ops \in Seq(O) /\ Len(ops) = Len(batch) + 1
        /\ \A i \in 1 .. Len(batch) + 1 : ops[i] =
             IF i <= Len(batch) THEN changes[i] ELSE <<Write("aliases")>>[i - Len(batch)]
    <2> HIDE DEF changes, O
    <2> QED
      BY <1>1, <1>3, <1>4, ConcatProperties
  <1>6. ops[Len(batch) + 1] = Write("aliases")
    BY <1>1, <1>5
  <1>7. \A i \in 1 .. Len(ops) : ops[i].do = "write" <=> i = Len(ops)
    <2> HIDE DEF changes
    <2> QED
      BY <1>1, <1>2, <1>5, <1>6 DEF Write
  <1>8. ops # <<>>
    BY <1>1, <1>5, EmptySeq
  <1> QED
    BY <1>5, <1>7, <1>8 DEF RequestOn

LEMMA RankIsRequest ==
  ASSUME NEW target \in Users, NEW rank \in 0 .. MaxRank
  PROVE  RequestOn("ranks", <<Change("ranks", target, rank), Write("ranks")>>)
  BY DictionariesAssumption DEF RequestOn, Operation, Entries, Change, Write

\* The operation a handler is at.
LEMMA CurrentOperation ==
  ASSUME TypeOK, NEW h \in Handlers, todo[h] # <<>>
  PROVE  /\ Op(h).dict \in Dicts /\ RequestOn(Op(h).dict, todo[h])
         /\ RequestOn(Op(h).dict, Tail(todo[h]))
         /\ Op(h).do = "write" => Tail(todo[h]) = <<>> /\ Op(h) = Write(Op(h).dict)
         /\ Op(h).do = "set" => /\ Tail(todo[h]) # <<>> /\ Head(Tail(todo[h])).dict = Op(h).dict
                                /\ Op(h).key \in Keys /\ Op(h).to \in Entries(Op(h).dict)
  <1>1. PICK d \in Dicts : RequestOn(d, todo[h])
    BY DEF TypeOK
  <1>2. Op(h).dict = d
    BY <1>1, FirstOperation DEF Op
  <1> QED
    BY <1>1, <1>2, FirstOperation DEF Op
-----------------------------------------------------------------------------
(***************************************************************************)
(* Types, in three parts                                                   *)
(***************************************************************************)
DictsOK ==
  /\ DOMAIN data = Dicts /\ DOMAIN file = Dicts
  /\ \A d \in Dicts : data[d] \in [Keys -> Entries(d)] /\ file[d] \in [Keys -> Entries(d)]
  /\ mutex \in [Dicts -> Handlers \cup {Nobody}] /\ closed \in [Dicts -> BOOLEAN]

HandlersOK ==
  /\ looked \in [Handlers -> BOOLEAN]
  /\ DOMAIN todo = Handlers /\ \A h \in Handlers : \E d \in Dicts : RequestOn(d, todo[h])
  /\ command \in [Handlers -> Command \cup {NoCommand}]
  /\ \A h \in Handlers : /\ looked[h] => todo[h] # <<>>
                         /\ command[h] # NoCommand => todo[h] = <<>>

RestOK ==
  /\ unsaved \subseteq Dicts
  /\ session \in {"up", "ending", "ranks closed", "ended", "dead"}
  /\ requests \in 0 .. MaxRequests

LEMMA TypeParts ==
  /\ TypeOK <=> DictsOK /\ HandlersOK /\ RestOK
  /\ TypeOK' <=> DictsOK' /\ HandlersOK' /\ RestOK'
  BY DEF TypeOK, DictsOK, HandlersOK, RestOK

LEMMA BlankIsDict ==
  ASSUME NEW d \in Dicts
  PROVE  Blank \in [Keys -> Entries(d)]
  BY DEF Blank, Entries

LEMMA RankIsRank ==
  ASSUME DictsOK, NEW u \in Users
  PROVE  Rank(u) \in 0 .. MaxRank
  BY DictionariesAssumption DEF Rank, DictsOK, Entries

LEMMA NoRequests ==
  ASSUME todo' = [h \in Handlers |-> <<>>], looked' = [h \in Handlers |-> FALSE],
         command' = [h \in Handlers |-> NoCommand]
  PROVE  HandlersOK'
  BY NoOperation, DictionariesAssumption DEF HandlersOK

LEMMA InitTypeOK == Init => TypeOK
  <1> SUFFICES ASSUME Init PROVE TypeOK
    OBVIOUS
  <1>1. DictsOK
    BY StoredAssumption DEF Init, DictsOK
  <1>2. HandlersOK
    BY NoOperation, DictionariesAssumption DEF Init, HandlersOK
  <1>3. RestOK
    BY DictionariesAssumption DEF Init, RestOK
  <1> QED
    BY <1>1, <1>2, <1>3, TypeParts

LEMMA DoneType ==
  ASSUME TypeOK, NEW h \in Handlers, todo[h] # <<>>, Done(h)
  PROVE  HandlersOK' /\ session' = session /\ requests' = requests
  <1>1. RequestOn(Op(h).dict, Tail(todo[h])) /\ Op(h).dict \in Dicts
    BY CurrentOperation
  <1> QED
    BY <1>1 DEF Done, TypeOK, HandlersOK

LEMMA FailType ==
  ASSUME TypeOK, NEW h \in Handlers, todo[h] # <<>>, Fail(h)
  PROVE  HandlersOK' /\ RestOK'
  <1>1. Op(h).dict \in Dicts
    BY CurrentOperation
  <1> QED
    BY <1>1, NoOperation DEF Fail, TypeOK, HandlersOK, RestOK

LEMMA StepTypeOK ==
  ASSUME TypeOK, NEW h \in Handlers, Step(h)
  PROVE  TypeOK'
  <1>0. DictsOK /\ HandlersOK /\ RestOK
    BY TypeParts
  <1>1. ASSUME NEW batch \in AliasBatches, SetAliases(h, batch) PROVE TypeOK'
    <2>1. PICK ops : RequestOn("aliases", ops) /\ ops # <<>> /\ todo' = [todo EXCEPT ![h] = ops]
      BY <1>1, BatchIsRequest DEF SetAliases
    <2>2. HandlersOK'
      BY <1>0, <1>1, <2>1, DictionariesAssumption DEF SetAliases, Idle, Request, HandlersOK
    <2>3. Request
      BY <1>1 DEF SetAliases
    <2>4. DictsOK'
      BY <1>0, <2>3 DEF Request, dictVars, DictsOK
    <2>5. RestOK'
      <3>1. MaxRequests \in Nat /\ requests \in 0 .. MaxRequests
        BY <1>0, DictionariesAssumption DEF RestOK
      <3>2. requests < MaxRequests /\ requests' = requests + 1 /\ UNCHANGED <<unsaved, session>>
        BY <2>3 DEF Request
      <3>3. requests' \in 0 .. MaxRequests
        BY <3>1, <3>2
      <3> QED
        BY <1>0, <3>2, <3>3 DEF RestOK
    <2> QED
      BY <2>2, <2>4, <2>5, TypeParts
  <1>2. ASSUME NEW sender \in Users, NEW target \in Users, NEW rank \in 0 .. MaxRank,
               Modrank(h, sender, target, rank)
        PROVE  TypeOK'
    <2>1. [sender |-> sender, target |-> target, rank |-> rank, senderRank |-> NoValue]
            \in Command
      BY DEF Command, Entries
    <2>2. HandlersOK'
      BY <1>0, <1>2, <2>1 DEF Modrank, Idle, Request, HandlersOK
    <2>3. DictsOK' /\ RestOK'
      BY <1>0, <1>2, DictionariesAssumption DEF Modrank, Request, dictVars, DictsOK, RestOK
    <2> QED
      BY <2>2, <2>3, TypeParts
  <1>3. CASE ReadSender(h)
    <2>1. command[h] \in Command
      BY <1>0, <1>3 DEF ReadSender, HandlersOK
    <2>2. Rank(command[h].sender) \in Entries("ranks")
      BY <1>0, <2>1, RankIsRank DEF Command, Entries
    <2>3. [command[h] EXCEPT !.senderRank = Rank(command[h].sender)] \in Command
      BY <2>1, <2>2 DEF Command
    <2>4. HandlersOK'
      BY <1>0, <1>3, <2>1, <2>3 DEF ReadSender, HandlersOK
    <2>5. DictsOK' /\ RestOK'
      BY <1>0, <1>3 DEF ReadSender, dictVars, DictsOK, RestOK
    <2> QED
      BY <2>4, <2>5, TypeParts
  <1>4. CASE Judge(h)
    <2>1. command[h] \in Command
      BY <1>0, <1>4 DEF Judge, HandlersOK
    <2>2. PICK ops : /\ RequestOn("ranks", ops)
                     /\ todo' = [todo EXCEPT ![h] = ops]
      BY <1>4, <2>1, RankIsRequest, NoOperation DEF Judge, Command
    <2>3. HandlersOK'
      <3>1. ~ looked[h]
        BY <1>0, <1>4 DEF Judge, HandlersOK
      <3> QED
        BY <1>0, <1>4, <2>2, <3>1, DictionariesAssumption DEF Judge, HandlersOK
    <2>4. DictsOK' /\ RestOK'
      BY <1>0, <1>4 DEF Judge, dictVars, DictsOK, RestOK
    <2> QED
      BY <2>3, <2>4, TypeParts
  <1>5. CASE Look(h)
    <2>1. DictsOK'
      BY <1>0, <1>5 DEF Look, dictVars, DictsOK
    <2>2. todo[h] # <<>>
      BY <1>5 DEF Look
    <2>3. HandlersOK' /\ RestOK'
      <3>1. CASE Fail(h)
        BY <2>2, <3>1, FailType
      <3>2. CASE ~ Fail(h)
        BY <1>0, <1>5, <3>2 DEF Look, HandlersOK, RestOK
      <3> QED
        BY <3>1, <3>2
    <2> QED
      BY <2>1, <2>3, TypeParts
  <1>6. ASSUME looked[h] PROVE todo[h] # <<>>
    BY <1>0, <1>6 DEF HandlersOK
  <1>7. CASE FindClosed(h)
    <2>1. DictsOK'
      BY <1>0, <1>7 DEF FindClosed, dictVars, DictsOK
    <2> QED
      BY <1>6, <1>7, <2>1, FailType, TypeParts DEF FindClosed
  <1>8. CASE ChangeOne(h)
    <2>1. todo[h] # <<>>
      BY <1>6, <1>8 DEF ChangeOne
    <2>2. Op(h).dict \in Dicts /\ Op(h).key \in Keys /\ Op(h).to \in Entries(Op(h).dict)
      BY <1>8, <2>1, CurrentOperation DEF ChangeOne
    <2>3. DictsOK'
      BY <1>0, <1>8, <2>2 DEF ChangeOne, Set, DictsOK
    <2>4. HandlersOK' /\ RestOK'
      BY <1>0, <1>8, <2>1, DoneType DEF ChangeOne, RestOK
    <2> QED
      BY <2>3, <2>4, TypeParts
  <1>9. CASE WriteDelete(h)
    <2>1. todo[h] # <<>>
      BY <1>6, <1>9 DEF WriteDelete
    <2>2. PICK d \in Dicts : d = Op(h).dict
      BY <2>1, CurrentOperation
    <2>3. DictsOK'
      BY <1>0, <1>9, <2>2, BlankIsDict DEF WriteDelete, DeleteAll, DictsOK
    <2>4. HandlersOK' /\ RestOK'
      <3>1. CASE data[d] = Blank
        BY <1>0, <1>9, <2>1, <2>2, <3>1, DoneType DEF WriteDelete, RestOK
      <3>2. CASE data[d] # Blank
        BY <1>0, <1>9, <2>2, <3>2 DEF WriteDelete, handlerVars, HandlersOK, RestOK
      <3> QED
        BY <3>1, <3>2
    <2> QED
      BY <2>3, <2>4, TypeParts
  <1>10. CASE WriteReplace(h)
    <2>1. todo[h] # <<>>
      BY <1>6, <1>10 DEF WriteReplace
    <2>2. PICK d \in Dicts : d = Op(h).dict
      BY <2>1, CurrentOperation
    <2>3. [k \in Keys |-> IF data[d][k] = NoValue THEN file[d][k] ELSE data[d][k]]
            \in [Keys -> Entries(d)]
      BY <1>0 DEF DictsOK
    <2>4. DictsOK'
      BY <1>0, <1>10, <2>2, <2>3 DEF WriteReplace, Replace, DictsOK
    <2>5. HandlersOK' /\ RestOK'
      BY <1>0, <1>10, <2>1, DoneType DEF WriteReplace, RestOK
    <2> QED
      BY <2>4, <2>5, TypeParts
  <1>11. CASE WriteFails(h)
    <2>1. DictsOK'
      BY <1>0, <1>11 DEF WriteFails, DeleteFails, ReplaceFails, dictVars, DictsOK
    <2> QED
      BY <1>6, <1>11, <2>1, FailType, TypeParts DEF WriteFails
  <1> QED
    BY <1>1, <1>2, <1>3, <1>4, <1>5, <1>7, <1>8, <1>9, <1>10, <1>11 DEF Step

LEMMA NextTypeOK == TypeOK /\ [Next]_vars => TypeOK'
  <1> SUFFICES ASSUME TypeOK, [Next]_vars PROVE TypeOK'
    OBVIOUS
  <1>0. DictsOK /\ HandlersOK /\ RestOK
    BY TypeParts
  <1>1. ASSUME NEW h \in Handlers, Step(h) PROVE TypeOK'
    BY <1>1, StepTypeOK
  <1>2. CASE CloseSession
    BY <1>2 DEF CloseSession, dictVars, handlerVars, TypeOK
  <1>3. CASE CloseRanks
    BY <1>3 DEF CloseRanks, Close, handlerVars, TypeOK
  <1>4. CASE CloseAliases
    BY <1>4 DEF CloseAliases, Close, handlerVars, TypeOK
  <1>5. CASE Restart
    <2>1. DictsOK'
      BY <1>0, <1>5 DEF Restart, New, DictsOK
    <2>2. HandlersOK'
      BY <1>5, NoRequests DEF Restart
    <2>3. RestOK'
      BY <1>0, <1>5 DEF Restart, RestOK
    <2> QED
      BY <2>1, <2>2, <2>3, TypeParts
  <1>6. CASE UNCHANGED vars
    BY <1>6 DEF vars, dictVars, handlerVars, TypeOK
  <1> QED
    BY <1>1, <1>2, <1>3, <1>4, <1>5, <1>6 DEF Next
-----------------------------------------------------------------------------
(***************************************************************************)
(* Rewrites under the mutex, and what is saved                             *)
(***************************************************************************)
\* Handlers that do not move keep their places and what they hold.
Moves(h) ==
  \A g \in Handlers \ {h} : todo'[g] = todo[g] /\ looked'[g] = looked[g]

LEMMA StepMoves ==
  ASSUME TypeOK, NEW h \in Handlers, Step(h)
  PROVE  Moves(h)
  <1>1. ASSUME NEW batch \in AliasBatches, SetAliases(h, batch) PROVE Moves(h)
    BY <1>1 DEF SetAliases, Request, Moves, TypeOK
  <1>2. ASSUME NEW sender \in Users, NEW target \in Users, NEW rank \in 0 .. MaxRank,
               Modrank(h, sender, target, rank)
        PROVE  Moves(h)
    BY <1>2 DEF Modrank, Request, Moves
  <1>3. ASSUME Done(h) \/ Fail(h) \/ UNCHANGED <<todo, looked>> PROVE Moves(h)
    BY <1>3 DEF Done, Fail, Moves, TypeOK
  <1>4. CASE Look(h)
    BY <1>4 DEF Look, Fail, Moves, TypeOK
  <1>5. CASE Judge(h)
    BY <1>5 DEF Judge, Moves, TypeOK
  <1> QED
    BY <1>1, <1>2, <1>3, <1>4, <1>5
    DEF Step, ReadSender, FindClosed, ChangeOne, WriteDelete, WriteReplace, WriteFails, handlerVars

LEMMA StepWriteInv ==
  ASSUME TypeOK, TypeOK', WriteInv, NEW h \in Handlers, Step(h)
  PROVE  WriteInv'
  <1>0. /\ Moves(h)
        /\ \A d \in Dicts : mutex[d] \in Handlers \cup {Nobody}
        /\ Nobody \notin Handlers
    BY StepMoves, DictionariesAssumption DEF TypeOK
  <1>1. ASSUME UNCHANGED dictVars, \A d \in Dicts : mutex[d] # h
        PROVE  WriteInv'
    BY <1>0, <1>1 DEF WriteInv, Moves, Op, Blank, dictVars
  <1>2. ASSUME NEW d \in Dicts, mutex[d] = h
        PROVE  looked[h] /\ todo[h] # <<>> /\ command[h] = NoCommand /\ Op(h) = Write(d) /\ ~ closed[d]
    BY <1>0, <1>2 DEF WriteInv, TypeOK
  <1>3. ASSUME NEW batch \in AliasBatches, SetAliases(h, batch) PROVE WriteInv'
    BY <1>1, <1>2, <1>3 DEF SetAliases, Request, Idle
  <1>4. ASSUME NEW sender \in Users, NEW target \in Users, NEW rank \in 0 .. MaxRank,
               Modrank(h, sender, target, rank)
        PROVE  WriteInv'
    BY <1>1, <1>2, <1>4 DEF Modrank, Request, Idle
  <1>5. CASE ReadSender(h)
    BY <1>1, <1>2, <1>5 DEF ReadSender
  <1>6. CASE Judge(h)
    BY <1>1, <1>2, <1>6 DEF Judge
  <1>7. CASE Look(h)
    BY <1>1, <1>2, <1>7 DEF Look
  <1>8. CASE FindClosed(h)
    <2>1. \A d \in Dicts : mutex[d] # h
      BY <1>0, <1>2, <1>8 DEF FindClosed, Free, Write
    <2> QED
      BY <1>1, <1>8, <2>1 DEF FindClosed
  <1>9. CASE ChangeOne(h)
    <2>1. \A d \in Dicts : mutex[d] # h
      BY <1>2, <1>9 DEF ChangeOne, Write
    <2> QED
      BY <1>0, <1>9, <2>1 DEF ChangeOne, Set, WriteInv, Moves, Op, Blank
  <1>10. CASE WriteDelete(h)
    <2>1. todo[h] # <<>> /\ looked[h] /\ Op(h).do = "write"
      BY <1>10 DEF WriteDelete, TypeOK
    <2>2. PICK d \in Dicts : Op(h) = Write(d) /\ Op(h).dict = d
      BY <2>1, CurrentOperation
    <2>3. Free(d) /\ ~ closed[d] /\ closed' = closed
      BY <1>10, <2>2 DEF WriteDelete, DeleteAll
    <2>4. /\ file' = [file EXCEPT ![d] = Blank]
          /\ mutex' = [mutex EXCEPT ![d] = IF data[d] = Blank THEN Nobody ELSE h]
      BY <1>10, <2>2 DEF WriteDelete, DeleteAll
    <2>5. ASSUME NEW c \in Dicts \ {d}, mutex[c] = h PROVE FALSE
      <3>1. Op(h) = Write(c)
        BY <1>2, <2>5
      <3> QED
        BY <2>2, <3>1 DEF Write
    <2>6. data[d] # Blank => todo' = todo /\ looked' = looked
      BY <1>10, <2>2 DEF WriteDelete, handlerVars
    <2>7. DOMAIN file = Dicts /\ mutex \in [Dicts -> Handlers \cup {Nobody}]
      BY DEF TypeOK
    <2>8. ASSUME NEW c \in Dicts, mutex'[c] # Nobody
          PROVE  /\ ~ closed'[c] /\ file'[c] = Blank
                 /\ looked'[mutex'[c]] /\ Head(todo'[mutex'[c]]) = Write(c)
      <3>1. CASE c = d
        BY <2>1, <2>2, <2>3, <2>4, <2>6, <2>7, <2>8, <3>1 DEF Op
      <3>2. CASE c # d
        BY <1>0, <2>3, <2>4, <2>5, <2>7, <2>8, <3>2 DEF WriteInv, Moves, Op
      <3> QED
        BY <3>1, <3>2
    <2> QED
      BY <2>8 DEF WriteInv, Op, Blank
  <1>11. ASSUME NEW d \in Dicts, Op(h).dict = d, mutex' = [mutex EXCEPT ![d] = Nobody],
                closed' = closed, \A c \in Dicts \ {d} : file'[c] = file[c]
         PROVE  WriteInv'
    <2>1. \A c \in Dicts \ {d} : mutex[c] # h
      BY <1>2, <1>11 DEF Write
    <2>2. mutex'[d] = Nobody /\ \A c \in Dicts \ {d} : mutex'[c] = mutex[c]
      BY <1>11 DEF TypeOK
    <2> QED
      BY <1>0, <1>11, <2>1, <2>2 DEF WriteInv, Moves, Op, Blank
  <1>12. CASE WriteReplace(h)
    <2>1. PICK d \in Dicts : Op(h).dict = d
      BY <1>12, CurrentOperation DEF WriteReplace, TypeOK
    <2> QED
      BY <1>11, <1>12, <2>1 DEF WriteReplace, Replace, TypeOK
  <1>13. CASE WriteFails(h)
    <2>1. PICK d \in Dicts : Op(h).dict = d
      BY <1>13, CurrentOperation DEF WriteFails, TypeOK
    <2>2. CASE DeleteFails(d)
      <3>1. \A c \in Dicts : mutex[c] # h
        BY <1>0, <1>2, <2>1, <2>2 DEF DeleteFails, Free, Write
      <3> QED
        BY <1>1, <2>2, <3>1 DEF DeleteFails
    <2>3. CASE ReplaceFails(d, h)
      BY <1>11, <2>1, <2>3 DEF ReplaceFails
    <2> QED
      BY <1>13, <2>1, <2>2, <2>3 DEF WriteFails
  <1> QED
    BY <1>3, <1>4, <1>5, <1>6, <1>7, <1>8, <1>9, <1>10, <1>12, <1>13 DEF Step

LEMMA NextWriteInv == TypeOK /\ TypeOK' /\ WriteInv /\ [Next]_vars => WriteInv'
  <1> SUFFICES ASSUME TypeOK, TypeOK', WriteInv, [Next]_vars PROVE WriteInv'
    OBVIOUS
  <1>1. ASSUME NEW h \in Handlers, Step(h) PROVE WriteInv'
    BY <1>1, StepWriteInv
  <1>2. CASE CloseSession
    BY <1>2 DEF CloseSession, dictVars, handlerVars, WriteInv, Op, Blank
  <1>3. ASSUME NEW d \in Dicts, Close(d), UNCHANGED handlerVars PROVE WriteInv'
    BY <1>3 DEF Close, Free, handlerVars, WriteInv, Op, Blank, TypeOK
  <1>4. CASE CloseRanks \/ CloseAliases
    BY <1>3, <1>4, DictionariesAssumption DEF CloseRanks, CloseAliases
  <1>5. CASE Restart
    BY <1>5 DEF Restart, New, WriteInv
  <1>6. CASE UNCHANGED vars
    BY <1>6 DEF vars, dictVars, handlerVars, WriteInv, Op, Blank
  <1> QED
    BY <1>1, <1>2, <1>4, <1>5, <1>6 DEF Next
-----------------------------------------------------------------------------
LEMMA StepSaved ==
  ASSUME TypeOK, TypeOK', WriteInv, Saved, NEW h \in Handlers, Step(h)
  PROVE  Saved'
  <1>0. Moves(h) /\ Nobody \notin Handlers /\ session' = session
    BY StepMoves, DictionariesAssumption
    DEF Step, SetAliases, Modrank, Request, ReadSender, Judge, Look, FindClosed, ChangeOne,
        WriteDelete, WriteReplace, WriteFails, Done, Fail
  \* Who is to write may move on when the dictionary is as its file again, or
  \* when its failure is on record.
  <1>1. ASSUME NEW d \in Dicts,
               \A c \in Dicts \ {d} : data'[c] = data[c] /\ file'[c] = file[c],
               todo[h] # <<>> => Op(h).dict = d,
               unsaved \ {d} \subseteq unsaved',
               \/ data'[d] = file'[d] \/ d \in unsaved'
               \/ todo'[h] # <<>> /\ Head(todo'[h]).dict = d
        PROVE  Saved'
    BY <1>0, <1>1 DEF Saved, Moves, Op
  <1>2. ASSUME UNCHANGED dictVars, unsaved \subseteq unsaved',
               todo[h] # <<>> => \/ todo'[h] = todo[h] \/ Op(h).dict \in unsaved'
        PROVE  Saved'
    BY <1>0, <1>2 DEF Saved, Moves, Op, dictVars
  <1>3. ASSUME NEW batch \in AliasBatches, SetAliases(h, batch) PROVE Saved'
    <2>1. Request /\ todo[h] = <<>>
      BY <1>3 DEF SetAliases, Idle
    <2> QED
      BY <1>2, <2>1 DEF Request
  <1>4. ASSUME NEW sender \in Users, NEW target \in Users, NEW rank \in 0 .. MaxRank,
               Modrank(h, sender, target, rank)
        PROVE  Saved'
    BY <1>2, <1>4 DEF Modrank, Request
  <1>5. CASE ReadSender(h)
    BY <1>2, <1>5 DEF ReadSender
  <1>6. CASE Judge(h)
    BY <1>2, <1>6 DEF Judge, TypeOK
  <1>7. CASE Look(h)
    BY <1>2, <1>7 DEF Look, Fail
  <1>8. CASE FindClosed(h)
    BY <1>2, <1>8 DEF FindClosed, Fail
  <1>9. ASSUME looked[h]
        PROVE  todo[h] # <<>> /\ \E d \in Dicts : d = Op(h).dict
    BY <1>9, CurrentOperation DEF TypeOK
  <1>10. CASE ChangeOne(h)
    <2>1. PICK d \in Dicts : d = Op(h).dict
      BY <1>9, <1>10 DEF ChangeOne
    <2>2. \A c \in Dicts \ {d} : data'[c] = data[c] /\ file'[c] = file[c]
      BY <1>10, <2>1 DEF ChangeOne, Set, TypeOK
    <2>3. todo'[h] = Tail(todo[h]) /\ todo'[h] # <<>> /\ Head(todo'[h]).dict = d
      BY <1>9, <1>10, <2>1, CurrentOperation DEF ChangeOne, Done, TypeOK
    <2> QED
      BY <1>1, <1>10, <2>1, <2>2, <2>3 DEF ChangeOne
  <1>11. CASE WriteDelete(h)
    <2>1. PICK d \in Dicts : d = Op(h).dict
      BY <1>9, <1>11 DEF WriteDelete
    <2>2. /\ data' = data /\ file'[d] = Blank
          /\ \A c \in Dicts \ {d} : file'[c] = file[c]
      BY <1>11, <2>1 DEF WriteDelete, DeleteAll, TypeOK
    <2>3. CASE data[d] = Blank
      <3>1. unsaved' = unsaved \ {d}
        BY <1>11, <2>1, <2>3 DEF WriteDelete
      <3> QED
        BY <1>1, <2>1, <2>2, <2>3, <3>1
    <2>4. CASE data[d] # Blank
      <3>1. unsaved' = unsaved /\ todo' = todo
        BY <1>11, <2>1, <2>4 DEF WriteDelete, handlerVars
      <3>2. todo[h] # <<>>
        BY <1>9, <1>11 DEF WriteDelete
      <3> QED
        BY <1>1, <2>1, <2>2, <3>1, <3>2 DEF Op
    <2> QED
      BY <2>3, <2>4
  <1>12. CASE WriteReplace(h)
    <2>1. PICK d \in Dicts : d = Op(h).dict
      BY <1>9, <1>12 DEF WriteReplace
    <2>2. file[d] = Blank
      BY <1>0, <1>12, <2>1 DEF WriteReplace, Replace, WriteInv
    <2>3. data[d] \in [Keys -> Entries(d)]
      BY DEF TypeOK
    <2>4. /\ data' = data /\ \A c \in Dicts \ {d} : file'[c] = file[c]
          /\ file'[d] = [k \in Keys |-> IF data[d][k] = NoValue THEN file[d][k] ELSE data[d][k]]
      BY <1>12, <2>1 DEF WriteReplace, Replace, TypeOK
    <2>5. file'[d] = data[d]
      BY <2>2, <2>3, <2>4 DEF Blank
    <2>6. unsaved' = unsaved \ {d}
      BY <1>12, <2>1 DEF WriteReplace
    <2> QED
      BY <1>1, <2>1, <2>4, <2>5, <2>6
  <1>13. CASE WriteFails(h)
    <2>1. PICK d \in Dicts : d = Op(h).dict
      BY <1>9, <1>13 DEF WriteFails
    <2>2. data' = data /\ file' = file
      BY <1>13 DEF WriteFails, DeleteFails, ReplaceFails, dictVars
    <2>3. unsaved' = unsaved \cup {d}
      BY <1>13, <2>1 DEF WriteFails, Fail
    <2> QED
      BY <1>1, <2>1, <2>2, <2>3
  <1> QED
    BY <1>3, <1>4, <1>5, <1>6, <1>7, <1>8, <1>10, <1>11, <1>12, <1>13 DEF Step

LEMMA NextSaved == TypeOK /\ TypeOK' /\ WriteInv /\ Saved /\ [Next]_vars => Saved'
  <1> SUFFICES ASSUME TypeOK, TypeOK', WriteInv, Saved, [Next]_vars PROVE Saved'
    OBVIOUS
  <1>1. ASSUME NEW h \in Handlers, Step(h) PROVE Saved'
    BY <1>1, StepSaved
  <1>2. CASE CloseSession \/ CloseRanks \/ CloseAliases
    BY <1>2 DEF CloseSession, CloseRanks, CloseAliases, Close, dictVars, handlerVars, Saved, Op
  <1>3. CASE Restart
    BY <1>3 DEF Restart, New, Saved
  <1>4. CASE UNCHANGED vars
    BY <1>4 DEF vars, dictVars, handlerVars, Saved, Op
  <1> QED
    BY <1>1, <1>2, <1>3, <1>4 DEF Next
-----------------------------------------------------------------------------
LEMMA DictionariesInvariant == Spec => []IInv
  <1>1. Init => IInv
    BY InitTypeOK DEF Init, IInv, WriteInv, Saved
  <1>2. IInv /\ [Next]_vars => IInv'
    BY NextTypeOK, NextWriteInv, NextSaved DEF IInv
  <1> QED
    BY <1>1, <1>2, PTL DEF Spec

\* The state keeps its types: every request is a list of operations on one
\* dictionary that ends with its SyncWrite, however it is cut short.
THEOREM DictionariesTypeCorrect == Spec => []TypeOK
  <1>1. IInv => TypeOK
    BY DEF IInv
  <1> QED
    BY <1>1, DictionariesInvariant, PTL

\* However the changes and rewrites of requests interleave, a dictionary and
\* its file differ only while one of them has still to write, or after one
\* failed.
THEOREM SavedHolds == Spec => []Saved
  <1>1. IInv => Saved
    BY DEF IInv
  <1> QED
    BY <1>1, DictionariesInvariant, PTL

\* Close waits for a rewrite that is under way, and what waits for Close
\* finds the dictionary closed: nothing changes it or its file any more.
THEOREM ClosedIsReadOnly == Spec => ReadOnlyAfterClose
  <1> DEFINE A == \A d \in Dicts : closed[d] /\ closed'[d] =>
                    data'[d] = data[d] /\ file'[d] = file[d]
  <1>1. IInv /\ [Next]_vars => A \/ UNCHANGED vars
    <2> SUFFICES ASSUME IInv, Next, NEW d \in Dicts, closed[d], closed'[d]
                 PROVE  data'[d] = data[d] /\ file'[d] = file[d]
      OBVIOUS
    <2>1. mutex[d] = Nobody
      BY DEF IInv, WriteInv
    <2>2. ASSUME NEW h \in Handlers, Step(h)
          PROVE  data'[d] = data[d] /\ file'[d] = file[d]
      <3>1. h # Nobody
        BY DictionariesAssumption
      <3> QED
        BY <2>1, <2>2, <3>1
        DEF Step, SetAliases, Modrank, Request, ReadSender, Judge, Look, FindClosed,
            ChangeOne, WriteDelete, WriteReplace, WriteFails, dictVars,
            Set, DeleteAll, Replace, DeleteFails, ReplaceFails, IInv, TypeOK
    <2>3. ~ Restart
      BY DEF Restart, New
    <2> QED
      BY <2>2, <2>3 DEF Next, CloseSession, CloseRanks, CloseAliases, Close, dictVars
  <1> QED
    BY <1>1, DictionariesInvariant, PTL DEF Spec, ReadOnlyAfterClose
-----------------------------------------------------------------------------
(***************************************************************************)
(* Ranks                                                                   *)
(***************************************************************************)
\* The highest rank in memory is t, it bounds what /modrank has read, and
\* nobody who holds it is about to be changed: so it stays held, whatever
\* became of the ranks that were compared.
Top(t) ==
  /\ \A u \in Users : Rank(u) <= t
  /\ \E u \in Users : Rank(u) = t
  /\ \A h \in Handlers : command[h] # NoCommand /\ command[h].senderRank # NoValue =>
       command[h].senderRank <= t
  /\ \A h \in Handlers : todo[h] # <<>> /\ Op(h).do = "set" /\ Op(h).dict = "ranks" =>
       /\ Op(h).key \in Users /\ Op(h).to \in 0 .. MaxRank
       /\ Op(h).to < t /\ Rank(Op(h).key) < t
       /\ Tail(todo[h]) = <<Write("ranks")>>

TopInv == Users = {} \/ \E t \in 0 .. MaxRank : Top(t)

LEMMA Highest ==
  ASSUME NEW f \in [Users -> 0 .. MaxRank], Users # {}
  PROVE  \E u \in Users : \A w \in Users : f[w] <= f[u]
  <1> DEFINE T == {MaxRank - f[u] : u \in Users}
  <1>1. T \subseteq Nat /\ T # {}
    BY DictionariesAssumption
  <1>2. PICK x \in T : \A y \in T : ~ (<<y, x>> \in OpToRel(<, Nat))
    <2> HIDE DEF T
    <2> QED
      BY <1>1, NatLessThanWellFounded, WFMin
  <1>3. \A y \in T : ~ (y < x)
    BY <1>1, <1>2 DEF OpToRel
  <1>4. PICK u \in Users : x = MaxRank - f[u]
    OBVIOUS
  <1>5. ASSUME NEW w \in Users PROVE f[w] <= f[u]
    <2>1. ~ (MaxRank - f[w] < MaxRank - f[u])
      BY <1>3, <1>4
    <2> QED
      BY <2>1, DictionariesAssumption
  <1> QED
    BY <1>5

\* With no request under way the highest rank is bound enough.
LEMMA Quiet ==
  ASSUME DictsOK, \A h \in Handlers : todo[h] = <<>> /\ command[h] = NoCommand
  PROVE  TopInv
  <1> SUFFICES ASSUME Users # {} PROVE \E t \in 0 .. MaxRank : Top(t)
    BY DEF TopInv
  <1> DEFINE f == [u \in Users |-> Rank(u)]
  <1>1. f \in [Users -> 0 .. MaxRank]
    BY RankIsRank
  <1>2. PICK u \in Users : \A w \in Users : f[w] <= f[u]
    <2> HIDE DEF f
    <2> QED
      BY <1>1, Highest
  <1>3. Rank(u) \in 0 .. MaxRank /\ \A w \in Users : Rank(w) <= Rank(u)
    BY <1>2, RankIsRank
  <1> QED
    BY <1>3 DEF Top

\* A step of a handler changes the ranks in memory only to set one, and the
\* file only to delete its rows or to make it what is in memory.
LEMMA StepRanks ==
  ASSUME IInv, NEW h \in Handlers, Step(h)
  PROVE  \/ /\ data'["ranks"] = data["ranks"]
            /\ file'["ranks"] \in {file["ranks"], Blank, data["ranks"]}
         \/ ChangeOne(h) /\ Op(h).dict = "ranks" /\ file' = file
  <1>0. "ranks" \in Dicts /\ Nobody \notin Handlers /\ TypeOK /\ WriteInv
    BY DictionariesAssumption DEF IInv
  <1>1. CASE WriteReplace(h)
    <2>1. file'["ranks"] = file["ranks"] \/ Op(h).dict = "ranks"
      BY <1>0, <1>1 DEF WriteReplace, Replace, TypeOK
    <2>2. ASSUME Op(h).dict = "ranks" PROVE file'["ranks"] = data["ranks"]
      <3>1. file["ranks"] = Blank
        BY <1>0, <1>1, <2>2 DEF WriteReplace, Replace, WriteInv
      <3>2. data["ranks"] \in [Keys -> Entries("ranks")]
        BY <1>0 DEF TypeOK
      <3>3. file'["ranks"] = [k \in Keys |-> IF data["ranks"][k] = NoValue
                                THEN file["ranks"][k] ELSE data["ranks"][k]]
        BY <1>0, <1>1, <2>2 DEF WriteReplace, Replace, TypeOK
      <3> QED
        BY <3>1, <3>2, <3>3 DEF Blank
    <2> QED
      BY <1>1, <2>1, <2>2 DEF WriteReplace, Replace
  <1>2. CASE WriteDelete(h)
    BY <1>0, <1>2 DEF WriteDelete, DeleteAll, TypeOK
  <1>3. CASE ChangeOne(h)
    BY <1>0, <1>3 DEF ChangeOne, Set, TypeOK
  <1> QED
    BY <1>1, <1>2, <1>3
    DEF Step, SetAliases, Modrank, Request, ReadSender, Judge, Look, FindClosed, WriteFails,
        DeleteFails, ReplaceFails, dictVars

LEMMA StepTop ==
  ASSUME IInv, NEW h \in Handlers, Step(h), NEW t \in 0 .. MaxRank, Top(t)
  PROVE  Top(t)'
  <1>0. TypeOK /\ DictsOK /\ HandlersOK /\ Moves(h) /\ "ranks" \in Dicts
    BY TypeParts, StepMoves, DictionariesAssumption DEF IInv
  <1>1. \A u \in Users : Rank(u) \in 0 .. MaxRank
    BY <1>0, RankIsRank
  \* The ranks stay, and what the handler is about to do is bounded.
  <1>2. ASSUME data'["ranks"] = data["ranks"],
               \A g \in Handlers \ {h} : command'[g] = command[g],
               command'[h] # NoCommand /\ command'[h].senderRank # NoValue =>
                 command'[h].senderRank <= t,
               todo'[h] # <<>> /\ Head(todo'[h]).do = "set" /\ Head(todo'[h]).dict = "ranks" =>
                 /\ Head(todo'[h]).key \in Users /\ Head(todo'[h]).to \in 0 .. MaxRank
                 /\ Head(todo'[h]).to < t /\ Rank(Head(todo'[h]).key) < t
                 /\ Tail(todo'[h]) = <<Write("ranks")>>
        PROVE  Top(t)'
    BY <1>0, <1>2 DEF Top, Rank, Op, Moves
  <1>3. ASSUME data'["ranks"] = data["ranks"], command' = command,
               todo'[h] \in {<<>>, todo[h]}
        PROVE  Top(t)'
    BY <1>2, <1>3 DEF Top, Op
  <1>4. ASSUME NEW batch \in AliasBatches, SetAliases(h, batch) PROVE Top(t)'
    <2>1. PICK ops : /\ RequestOn("aliases", ops) /\ ops # <<>>
                     /\ todo' = [todo EXCEPT ![h] = ops]
      BY <1>4, BatchIsRequest DEF SetAliases
    <2>2. Head(todo'[h]).dict = "aliases"
      BY <1>0, <2>1, FirstOperation DEF TypeOK
    <2>3. data' = data /\ command' = command
      BY <1>4 DEF SetAliases, Request, dictVars
    <2> QED
      BY <1>2, <2>2, <2>3 DEF Top
  <1>5. ASSUME NEW sender \in Users, NEW target \in Users, NEW rank \in 0 .. MaxRank,
               Modrank(h, sender, target, rank)
        PROVE  Top(t)'
    <2>1. /\ data' = data /\ todo' = todo /\ todo[h] = <<>>
          /\ command'[h].senderRank = NoValue
          /\ \A g \in Handlers \ {h} : command'[g] = command[g]
      BY <1>0, <1>5 DEF Modrank, Idle, Request, dictVars, TypeOK
    <2> QED
      BY <1>2, <2>1
  <1>6. CASE ReadSender(h)
    <2>1. command[h] \in Command
      BY <1>0, <1>6 DEF ReadSender, TypeOK
    <2>2. command'[h].senderRank = Rank(command[h].sender) /\ command[h].sender \in Users
      BY <1>0, <1>6, <2>1 DEF ReadSender, TypeOK, Command
    <2>3. command'[h].senderRank <= t
      BY <2>2 DEF Top
    <2>4. /\ data' = data /\ todo' = todo /\ todo[h] = <<>>
          /\ \A g \in Handlers \ {h} : command'[g] = command[g]
      BY <1>0, <1>6 DEF ReadSender, dictVars, TypeOK
    <2> QED
      BY <1>2, <2>3, <2>4
  <1>7. CASE Judge(h)
    <2> DEFINE c == command[h]
    <2>1. c \in Command /\ c.senderRank # NoValue /\ c # NoCommand
      BY <1>0, <1>7 DEF Judge, TypeOK
    <2>2. c.senderRank \in 0 .. MaxRank /\ c.senderRank <= t
      BY <2>1, DictionariesAssumption DEF Command, Entries, Top
    <2>3. /\ data' = data /\ command'[h] = NoCommand
          /\ \A g \in Handlers \ {h} : command'[g] = command[g]
          /\ todo'[h] = IF MayRank(c)
               THEN <<Change("ranks", c.target, c.rank), Write("ranks")>> ELSE <<>>
      BY <1>0, <1>7 DEF Judge, dictVars, TypeOK
    <2>4. CASE ~ MayRank(c)
      BY <1>2, <2>3, <2>4
    <2>5. CASE MayRank(c)
      <3>1. Head(todo'[h]) = Change("ranks", c.target, c.rank)
            /\ Tail(todo'[h]) = <<Write("ranks")>>
        BY <2>3, <2>5
      <3>2. c.target \in Users /\ c.rank \in 0 .. MaxRank
        BY <2>1 DEF Command
      <3>3. c.rank < t /\ Rank(c.target) < t
        BY <1>1, <2>2, <2>5, <3>2 DEF MayRank
      <3> HIDE DEF c
      <3> QED
        BY <1>2, <2>3, <3>1, <3>2, <3>3 DEF Change
    <2> QED
      BY <2>4, <2>5
  <1>8. CASE Look(h)
    BY <1>0, <1>3, <1>8 DEF Look, Fail, dictVars, TypeOK
  <1>9. CASE FindClosed(h)
    BY <1>0, <1>3, <1>9 DEF FindClosed, Fail, dictVars, TypeOK
  <1>10. CASE ChangeOne(h)
    <2>1. todo[h] # <<>> /\ Op(h).do = "set" /\ command' = command /\ todo'[h] = Tail(todo[h])
      BY <1>0, <1>10 DEF ChangeOne, Done, TypeOK
    <2>2. CASE Op(h).dict # "ranks"
      <3>1. data'["ranks"] = data["ranks"]
        BY <1>10, <2>2, <1>0 DEF ChangeOne, Set, TypeOK
      <3>2. Head(todo'[h]).dict # "ranks"
        BY <1>0, <2>1, <2>2, CurrentOperation
      <3> QED
        BY <1>2, <2>1, <3>1, <3>2 DEF Top
    <2>3. CASE Op(h).dict = "ranks"
      <3> DEFINE key == Op(h).key
                 to == Op(h).to
      <3>1. /\ key \in Users /\ to \in 0 .. MaxRank /\ to < t /\ Rank(key) < t
            /\ todo'[h] = <<Write("ranks")>>
        BY <2>1, <2>3 DEF Top
      <3>2. /\ data' = [data EXCEPT !["ranks"][key] = to] /\ key \in Keys
        BY <1>10, <2>3, <3>1, DictionariesAssumption DEF ChangeOne, Set
      <3>3. \A u \in Users : Rank(u)' = IF u = key THEN to ELSE Rank(u)
        BY <1>0, <3>1, <3>2, DictionariesAssumption DEF Rank, DictsOK
      <3>4. \A u \in Users : Rank(u)' <= t /\ (Rank(u) < t => Rank(u)' < t)
        BY <1>1, <3>1, <3>3 DEF Top
      <3>5. \E u \in Users : Rank(u)' = t
        BY <1>1, <3>1, <3>3 DEF Top
      <3>6. \A g \in Handlers : todo'[g] # <<>> /\ Head(todo'[g]).do = "set" =>
              g # h /\ todo'[g] = todo[g]
        BY <1>0, <3>1 DEF Moves, Write
      <3> HIDE DEF key, to
      <3>7. ASSUME NEW g \in Handlers, todo'[g] # <<>>,
                   Head(todo'[g]).do = "set", Head(todo'[g]).dict = "ranks"
            PROVE  \E u \in Users :
                     /\ Head(todo'[g]).key = u /\ Rank(u)' < t
                     /\ Head(todo'[g]).to \in 0 .. MaxRank /\ Head(todo'[g]).to < t
                     /\ Tail(todo'[g]) = <<Write("ranks")>>
        <4>1. todo'[g] = todo[g]
          BY <3>6, <3>7
        <4>2. /\ Head(todo[g]).key \in Users /\ Head(todo[g]).to \in 0 .. MaxRank
              /\ Head(todo[g]).to < t /\ Rank(Head(todo[g]).key) < t
              /\ Tail(todo[g]) = <<Write("ranks")>>
          BY <3>7, <4>1 DEF Top, Op
        <4>3. PICK u \in Users : u = Head(todo[g]).key
          BY <4>2
        <4>4. Rank(u)' < t
          BY <3>4, <4>2, <4>3
        <4> QED
          BY <4>1, <4>2, <4>3, <4>4
      <3>8. \A g \in Handlers :
              command'[g] # NoCommand /\ command'[g].senderRank # NoValue =>
                command'[g].senderRank <= t
        BY <2>1 DEF Top
      <3>9. Top(t)' <=>
              /\ \A u \in Users : Rank(u)' <= t
              /\ \E u \in Users : Rank(u)' = t
              /\ \A g \in Handlers :
                   command'[g] # NoCommand /\ command'[g].senderRank # NoValue =>
                     command'[g].senderRank <= t
              /\ \A g \in Handlers :
                   todo'[g] # <<>> /\ Head(todo'[g]).do = "set" /\ Head(todo'[g]).dict = "ranks" =>
                     /\ Head(todo'[g]).key \in Users /\ Head(todo'[g]).to \in 0 .. MaxRank
                     /\ Head(todo'[g]).to < t /\ (Rank(Op(g).key) < t)'
                     /\ Tail(todo'[g]) = <<Write("ranks")>>
        BY DEF Top, Op
      <3>10. ASSUME NEW g \in Handlers, NEW u \in Users, Head(todo'[g]).key = u, Rank(u)' < t
             PROVE  (Rank(Op(g).key) < t)'
        BY <3>10 DEF Rank, Op
      <3> QED
        BY <3>4, <3>5, <3>7, <3>8, <3>9, <3>10
    <2> QED
      BY <2>2, <2>3
  <1>11. ASSUME Done(h), todo[h] # <<>>, Op(h).do = "write", data' = data PROVE Top(t)'
    <2>1. todo'[h] = <<>>
      BY <1>0, <1>11, CurrentOperation DEF Done, TypeOK
    <2> QED
      BY <1>3, <1>11, <2>1 DEF Done
  <1>12. CASE WriteDelete(h)
    BY <1>0, <1>3, <1>11, <1>12 DEF WriteDelete, DeleteAll, handlerVars, TypeOK
  <1>13. CASE WriteReplace(h)
    BY <1>0, <1>11, <1>13 DEF WriteReplace, Replace, TypeOK
  <1>14. CASE WriteFails(h)
    BY <1>0, <1>3, <1>14 DEF WriteFails, DeleteFails, ReplaceFails, Fail, dictVars, TypeOK
  <1> QED
    BY <1>4, <1>5, <1>6, <1>7, <1>8, <1>9, <1>10, <1>12, <1>13, <1>14 DEF Step

LEMMA NextTop == IInv /\ IInv' /\ TopInv /\ [Next]_vars => TopInv'
  <1> SUFFICES ASSUME IInv, IInv', TopInv, [Next]_vars PROVE TopInv'
    OBVIOUS
  <1> SUFFICES ASSUME Users # {} PROVE TopInv'
    BY DEF TopInv
  <1>1. PICK t \in 0 .. MaxRank : Top(t)
    BY DEF TopInv
  <1>2. ASSUME NEW h \in Handlers, Step(h) PROVE TopInv'
    BY <1>1, <1>2, StepTop DEF TopInv
  <1>3. ASSUME UNCHANGED <<data, todo, command>> PROVE TopInv'
    BY <1>1, <1>3 DEF TopInv, Top, Rank, Op
  <1>4. CASE CloseSession \/ CloseRanks \/ CloseAliases \/ UNCHANGED vars
    BY <1>3, <1>4 DEF CloseSession, CloseRanks, CloseAliases, Close, dictVars, handlerVars, vars
  <1>5. CASE Restart
    <2>1. \A h \in Handlers : todo'[h] = <<>> /\ command'[h] = NoCommand
      BY <1>5 DEF Restart
    <2>2. DictsOK'
      BY TypeParts DEF IInv
    <2>3. (DictsOK /\ \A h \in Handlers : todo[h] = <<>> /\ command[h] = NoCommand)' => TopInv'
      BY Quiet, PTL
    <2> QED
      BY <2>1, <2>2, <2>3
  <1> QED
    BY <1>2, <1>4, <1>5 DEF Next

\* Who holds a rank after a step that only deletes or restores what memory
\* and file have, held it before.
LEMMA HoldersFromBefore ==
  ASSUME NEW r, "ranks" \in Dicts,
         data'["ranks"] \in {data["ranks"], file["ranks"]},
         file'["ranks"] \in {file["ranks"], Blank, data["ranks"]}
  PROVE  Holders(r)' \subseteq Holders(r)
  <1> SUFFICES ASSUME NEW u \in Users, NEW dict \in {data', file'},
                      dict["ranks"][u] # NoValue, dict["ranks"][u] >= r
               PROVE  u \in Holders(r)
    BY DEF Holders
  <1>1. dict["ranks"] \in {data["ranks"], file["ranks"], Blank}
    OBVIOUS
  <1>2. u \in Keys /\ Blank[u] = NoValue
    BY DictionariesAssumption DEF Blank
  <1>3. dict["ranks"] # Blank
    BY <1>2
  <1> QED
    BY <1>1, <1>3 DEF Holders

\* /modrank hands out no rank that nobody stands above, although it sets one
\* after other commands changed the ranks it compared.
THEOREM RanksComeFromAbove == Spec => RankFromAbove
  <1> DEFINE A == \A r \in 1 .. MaxRank : Holders(r + 1) = {} => Holders(r)' \subseteq Holders(r)
  <1>1. IInv /\ TopInv /\ [Next]_vars => A \/ UNCHANGED vars
    <2> SUFFICES ASSUME IInv, TopInv, Next, NEW r \in 1 .. MaxRank, Holders(r + 1) = {}
                 PROVE  Holders(r)' \subseteq Holders(r)
      OBVIOUS
    <2>0. "ranks" \in Dicts /\ DictsOK
      BY TypeParts, DictionariesAssumption DEF IInv
    <2>1. ASSUME NEW h \in Handlers, ChangeOne(h), Op(h).dict = "ranks", file' = file
          PROVE  Holders(r)' \subseteq Holders(r)
      <3>1. Op(h).do = "set" /\ todo[h] # <<>>
        BY <2>1 DEF ChangeOne, IInv, TypeOK
      <3>2. CASE Users = {}
        BY <3>2 DEF Holders
      <3>3. CASE Users # {}
        <4>1. PICK t \in 0 .. MaxRank : Top(t)
          BY <3>3 DEF TopInv
        <4>2. PICK key \in Users, to \in 0 .. MaxRank :
                key = Op(h).key /\ to = Op(h).to /\ to < t
          BY <2>1, <3>1, <4>1 DEF Top
        <4>3. data' = [data EXCEPT !["ranks"][key] = to] /\ key \in Keys
          BY <2>1, <4>2, DictionariesAssumption DEF ChangeOne, Set
        <4>4. to < r
          <5> SUFFICES ASSUME to >= r PROVE FALSE
            BY <4>2, DictionariesAssumption
          <5>1. PICK w \in Users : Rank(w) = t
            BY <4>1 DEF Top
          <5>2. t >= r + 1
            BY <4>1, <4>2, DictionariesAssumption
          <5>3. data["ranks"][w] # NoValue /\ data["ranks"][w] = t
            BY <5>1, <5>2, <4>1, DictionariesAssumption DEF Rank
          <5> QED
            BY <5>2, <5>3 DEF Holders
        <4>5. \A u \in Users : data'["ranks"][u] = IF u = key THEN to ELSE data["ranks"][u]
          BY <2>0, <4>3, DictionariesAssumption DEF DictsOK
        <4> SUFFICES ASSUME NEW u \in Users, NEW dict \in {data', file'},
                            dict["ranks"][u] # NoValue, dict["ranks"][u] >= r
                     PROVE  u \in Holders(r)
          BY DEF Holders
        <4>6. CASE dict = file'
          BY <2>1, <4>6 DEF Holders
        <4>7. CASE dict = data'
          <5>1. u # key
            BY <4>4, <4>5, <4>7, <4>2, DictionariesAssumption
          <5> QED
            BY <4>5, <4>7, <5>1 DEF Holders
        <4> QED
          BY <4>6, <4>7
      <3> QED
        BY <3>2, <3>3
    <2>2. ASSUME NEW h \in Handlers, Step(h) PROVE Holders(r)' \subseteq Holders(r)
      BY <2>0, <2>1, <2>2, StepRanks, HoldersFromBefore
    <2>3. CASE CloseSession \/ CloseRanks \/ CloseAliases \/ Restart
      BY <2>0, <2>3, HoldersFromBefore
      DEF CloseSession, CloseRanks, CloseAliases, Close, Restart, New, dictVars
    <2> QED
      BY <2>2, <2>3 DEF Next
  <1>2. Init => TopInv
    BY InitTypeOK, TypeParts, Quiet DEF Init
  <1>3. IInv /\ IInv' /\ TopInv /\ [Next]_vars => TopInv'
    BY NextTop
  <1> QED
    BY <1>1, <1>2, <1>3, DictionariesInvariant, PTL DEF Spec, RankFromAbove
=============================================================================
