---------------------------- MODULE Dictionaries ----------------------------
(***************************************************************************)
(* The two dictionaries of the bot, the aliases and the ranks of users,    *)
(* with everything that changes them: /alias and the API of aliases,       *)
(* /modrank, the end of the session and the restart of the process.        *)
(*                                                                         *)
(* A request is a list of operations on one dictionary that ends with a    *)
(* SyncWrite; each operation is a critical section of its own, so requests *)
(* interleave between them.  The first operation that fails ends it.       *)
(***************************************************************************)
EXTENDS FileDict, Sequences, FiniteSets

CONSTANTS Users,        \* accepted keys: members of the guild
          Aliases,      \* the names they may have
          MaxRank,      \* MANAGER
          Promoter,     \* PROMOTER, the trust /modrank asks for
          AliasBatches, \* lists of changes requests may bring
          Stored,       \* the files the first start finds
          Handlers,     \* goroutines of the gateway and the web server
          MaxRequests,  \* bound on the requests
          NoCommand

\* What an entry of dictionary d may be.
Entries(d) == (IF d = "aliases" THEN Aliases ELSE 0 .. MaxRank) \cup {NoValue}

\* A /modrank that is under way: senderRank is NoValue until it was read.
Command == [sender : Users, target : Users, rank : 0 .. MaxRank,
            senderRank : Entries("ranks")]

ASSUME DictionariesAssumption ==
  /\ Users \subseteq Accepted /\ Accepted \subseteq Keys
  /\ Dicts = {"aliases", "ranks"}
  /\ MaxRank \in Nat /\ Promoter \in 0 .. MaxRank /\ NoValue \notin 0 .. MaxRank
  /\ Nobody \notin Handlers /\ NoCommand \notin Command /\ MaxRequests \in Nat

ASSUME BatchesAssumption == AliasBatches \subseteq Seq(Keys \X Entries("aliases"))

ASSUME StoredAssumption ==
  DOMAIN Stored = Dicts /\ \A d \in Dicts : Stored[d] \in [Keys -> Entries(d)]

VARIABLES
  todo,         \* the operations each handler has left
  looked,       \* whether it found the dictionary open, before the mutex
  command,      \* the /modrank each handler is about to judge
  unsaved,      \* dictionaries with a failed operation since their last write
  session,      \* "up", "ending", "ranks closed", "ended", "dead"
  requests

handlerVars == <<todo, looked, command>>
vars == <<dictVars, handlerVars, unsaved, session, requests>>

Rank(u) == IF data["ranks"][u] = NoValue THEN 0 ELSE data["ranks"][u]

Init ==
  /\ data = Stored /\ file = Stored
  /\ mutex = [d \in Dicts |-> Nobody] /\ closed = [d \in Dicts |-> FALSE]
  /\ todo = [h \in Handlers |-> <<>>]
  /\ looked = [h \in Handlers |-> FALSE]
  /\ command = [h \in Handlers |-> NoCommand]
  /\ unsaved = {} /\ session = "up" /\ requests = 0

Idle(h) == todo[h] = <<>> /\ command[h] = NoCommand

Request ==
  /\ session # "dead" /\ requests < MaxRequests
  /\ requests' = requests + 1
  /\ UNCHANGED <<dictVars, looked, unsaved, session>>
-----------------------------------------------------------------------------
(***************************************************************************)
(* Requests                                                                *)
(***************************************************************************)
Change(d, key, value) == [do |-> "set", dict |-> d, key |-> key, to |-> value]
Write(d) == [do |-> "write", dict |-> d]

\* SetAliases, DropAliases and /alias, which has one alias to set: all
\* changes, then Write.  The web server runs until the process ends.
SetAliases(h, batch) ==
  /\ Idle(h) /\ Request
  /\ todo' = [todo EXCEPT ![h] =
       [i \in 1 .. Len(batch) |-> Change("aliases", batch[i][1], batch[i][2])]
         \o <<Write("aliases")>>]
  /\ UNCHANGED command

\* The gateway dispatches /modrank to who is trusted enough (CanUse).
Modrank(h, sender, target, rank) ==
  /\ Idle(h) /\ session = "up"
  /\ Free("ranks") /\ Rank(sender) >= Promoter
  /\ Request
  /\ command' = [command EXCEPT ![h] =
       [sender |-> sender, target |-> target, rank |-> rank, senderRank |-> NoValue]]
  /\ UNCHANGED todo

ReadSender(h) ==
  /\ command[h] # NoCommand /\ command[h].senderRank = NoValue
  /\ Free("ranks")
  /\ command' = [command EXCEPT ![h].senderRank = Rank(command[h].sender)]
  /\ UNCHANGED <<dictVars, todo, looked, unsaved, session, requests>>

\* Mutant of MayRank: one's own rank can be given.
MayRankEqual(c) == c.rank <= c.senderRank /\ Rank(c.target) < c.senderRank

MayRank(c) == c.rank < c.senderRank /\ Rank(c.target) < c.senderRank

\* The target's rank is read and the request granted or refused.
Judge(h) ==
  /\ command[h] # NoCommand /\ command[h].senderRank # NoValue
  /\ Free("ranks")
  /\ todo' = [todo EXCEPT ![h] =
       IF MayRank(command[h])
         THEN <<Change("ranks", command[h].target, command[h].rank), Write("ranks")>>
         ELSE <<>>]
  /\ command' = [command EXCEPT ![h] = NoCommand]
  /\ UNCHANGED <<dictVars, looked, unsaved, session, requests>>
-----------------------------------------------------------------------------
(***************************************************************************)
(* Operations                                                              *)
(***************************************************************************)
Op(h) == Head(todo[h])

Done(h) ==
  /\ todo' = [todo EXCEPT ![h] = Tail(@)]
  /\ looked' = [looked EXCEPT ![h] = FALSE]
  /\ UNCHANGED <<command, session, requests>>

\* An error: the rest of the request is not tried.
Fail(h) ==
  /\ todo' = [todo EXCEPT ![h] = <<>>]
  /\ looked' = [looked EXCEPT ![h] = FALSE]
  /\ unsaved' = unsaved \cup {Op(h).dict}
  /\ UNCHANGED <<command, session, requests>>

\* lockOrClosed, before the mutex
Look(h) ==
  /\ todo[h] # <<>> /\ ~ looked[h]
  /\ IF closed[Op(h).dict]
       THEN Fail(h)
       ELSE /\ looked' = [looked EXCEPT ![h] = TRUE]
            /\ UNCHANGED <<todo, command, unsaved, session, requests>>
  /\ UNCHANGED dictVars

\* ... and after it
FindClosed(h) ==
  /\ looked[h] /\ Free(Op(h).dict) /\ closed[Op(h).dict]
  /\ Fail(h)
  /\ UNCHANGED dictVars

ChangeOne(h) ==
  /\ looked[h] /\ Op(h).do = "set"
  /\ Set(Op(h).dict, Op(h).key, Op(h).to)
  /\ Done(h) /\ UNCHANGED unsaved

WriteDelete(h) ==
  LET d == Op(h).dict
  IN /\ looked[h] /\ Op(h).do = "write"
     /\ DeleteAll(d, h)
     /\ IF data[d] = Blank
          THEN Done(h) /\ unsaved' = unsaved \ {d}
          ELSE UNCHANGED <<handlerVars, unsaved, session, requests>>

WriteReplace(h) ==
  /\ looked[h] /\ Op(h).do = "write"
  /\ Replace(Op(h).dict, h)
  /\ Done(h) /\ unsaved' = unsaved \ {Op(h).dict}

WriteFails(h) ==
  /\ looked[h] /\ Op(h).do = "write"
  /\ DeleteFails(Op(h).dict) \/ ReplaceFails(Op(h).dict, h)
  /\ Fail(h)
-----------------------------------------------------------------------------
(***************************************************************************)
(* EndSession and main                                                     *)
(***************************************************************************)
\* The session with Discord is closed: no command arrives any more.
CloseSession ==
  /\ session = "up" /\ session' = "ending"
  /\ UNCHANGED <<dictVars, handlerVars, unsaved, requests>>

CloseRanks ==
  /\ session = "ending" /\ session' = "ranks closed"
  /\ Close("ranks")
  /\ UNCHANGED <<handlerVars, unsaved, requests>>

CloseAliases ==
  /\ session = "ranks closed" /\ session' = "ended"
  /\ Close("aliases")
  /\ UNCHANGED <<handlerVars, unsaved, requests>>

\* main returns, or the process is killed, or the runtime ends it because
\* GetAliases runs through the map without its mutex; it starts again, or
\* does not if a file has a key that New does not accept.
Restart ==
  /\ session # "dead"
  /\ New
  /\ session' = IF \A d \in Dicts : Readable(d) THEN "up" ELSE "dead"
  /\ todo' = [h \in Handlers |-> <<>>] /\ looked' = [h \in Handlers |-> FALSE]
  /\ command' = [h \in Handlers |-> NoCommand]
  /\ unsaved' = {}
  /\ UNCHANGED requests
-----------------------------------------------------------------------------
Step(h) ==
  \/ \E batch \in AliasBatches : SetAliases(h, batch)
  \/ \E sender, target \in Users, rank \in 0 .. MaxRank : Modrank(h, sender, target, rank)
  \/ ReadSender(h) \/ Judge(h)
  \/ Look(h) \/ FindClosed(h) \/ ChangeOne(h)
  \/ WriteDelete(h) \/ WriteReplace(h) \/ WriteFails(h)

Next ==
  \/ \E h \in Handlers : Step(h)
  \/ CloseSession \/ CloseRanks \/ CloseAliases \/ Restart

Spec == Init /\ [][Next]_vars
-----------------------------------------------------------------------------
(***************************************************************************)
(* Properties                                                              *)
(***************************************************************************)
\* A request has operations on one dictionary, and the last one writes it.
Operation(d) ==
  [do : {"set"}, dict : {d}, key : Keys, to : Entries(d)] \cup [do : {"write"}, dict : {d}]

RequestOn(d, ops) ==
  /\ ops \in Seq(Operation(d))
  /\ \A i \in 1 .. Len(ops) : ops[i].do = "write" <=> i = Len(ops)

TypeOK ==
  /\ DOMAIN data = Dicts /\ DOMAIN file = Dicts
  /\ \A d \in Dicts : data[d] \in [Keys -> Entries(d)] /\ file[d] \in [Keys -> Entries(d)]
  /\ mutex \in [Dicts -> Handlers \cup {Nobody}] /\ closed \in [Dicts -> BOOLEAN]
  /\ looked \in [Handlers -> BOOLEAN]
  /\ DOMAIN todo = Handlers /\ \A h \in Handlers : \E d \in Dicts : RequestOn(d, todo[h])
  /\ command \in [Handlers -> Command \cup {NoCommand}]
  /\ \A h \in Handlers : /\ looked[h] => todo[h] # <<>>
                         /\ command[h] # NoCommand => todo[h] = <<>>
  /\ unsaved \subseteq Dicts
  /\ session \in {"up", "ending", "ranks closed", "ended", "dead"}
  /\ requests \in 0 .. MaxRequests

\* A dictionary and its file differ only while a request that changed it has
\* still to write, or after one failed: no interleaving of changes and
\* rewrites of the whole file leaves a change, or the key of a dropped
\* entry, behind.
Saved ==
  \A d \in Dicts : session # "dead" /\ file[d] # data[d] =>
    d \in unsaved \/ \E h \in Handlers : todo[h] # <<>> /\ Op(h).dict = d

\* A dictionary that was closed is read-only for good: a request that found
\* it open and waited for the mutex changes nothing any more, and a rewrite
\* is not cut short between its two statements.
ReadOnlyAfterClose ==
  [][\A d \in Dicts : closed[d] /\ closed'[d] =>
       data'[d] = data[d] /\ file'[d] = file[d]]_vars

\* Who holds rank r or a higher one, in memory or in the file.
Holders(r) ==
  {u \in Users : \E dict \in {data, file} :
     dict["ranks"][u] # NoValue /\ dict["ranks"][u] >= r}

\* A rank comes from above: as long as nobody stands above rank r, nobody
\* reaches it, although /modrank compares ranks that others may change before
\* it sets one, and a restart brings older ranks back.
RankFromAbove ==
  [][\A r \in 1 .. MaxRank : Holders(r + 1) = {} => Holders(r)' \subseteq Holders(r)]_vars
=============================================================================
