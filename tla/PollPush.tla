------------------------------ MODULE PollPush ------------------------------
(***************************************************************************)
(* PollManager.Push taken apart: how the set of ids, the results table and *)
(* the file heap, three structures with no common lock, keep duplicates    *)
(* out of the queue while commands, results workers and CleanQueue run     *)
(* concurrently (managers/polls/data.go, results_worker.go, datas/set).    *)
(*                                                                         *)
(* A behaviour is one run of the process: it starts with the polls New     *)
(* read from the file, which are in the queue and not in the new set.      *)
(*                                                                         *)
(* A worker holds one poll here (InsertBatch has whole batches), the order *)
(* of the heap and the sleeping workers are left out (PollWorkers).  Of    *)
(* the failures of the queue's file only the one that ends CleanQueue in   *)
(* the middle matters here: the others change rows only (FileHeap).        *)
(***************************************************************************)
EXTENDS Integers, FiniteSets

CONSTANTS Ids,        \* message ids of polls
          Callers,    \* goroutines of the commands that push polls
          Takers,     \* results workers
          Loaded,     \* ids read from the queue's file
          MaxCopies,  \* bound on the copies of a poll in the queue
          MaxPush     \* bound on the polls of one command

ASSUME LoadedAssumption == Loaded \subseteq Ids
ASSUME CopiesAssumption == MaxCopies \in Nat \ {0}
ASSUME ProcsAssumption == Callers \cap Takers = {}

Procs == Callers \cup Takers

VARIABLES
  copies,   \* copies of each poll in the heap
  seen,     \* man.set
  rows,     \* ids with a row in the results table
  locked,   \* CleanQueue holds the heap's lock
  stale,    \* ids CleanQueue still has to remove from the set
  pc,       \* where each goroutine is
  todo,     \* values a Push has still to look at
  pruned,   \* values it will merge
  cur,      \* the value it looks at, as a set of at most one id
  held,     \* the poll a worker took, as a set of at most one id
  \* history, read by the properties only
  due,      \* ids seated and not written, dropped or skipped since
  tainted,  \* ids loaded, or put in the set by two goroutines at once
  stranded  \* ids a CleanQueue that failed left in the set without a poll

heapVars == <<copies, seen, rows, locked, stale>>
localVars == <<todo, pruned, cur>>
pushHistory == <<due, tainted, stranded>>
pushVars == <<heapVars, pc, localVars, held, pushHistory>>

Queued == {p \in Ids : copies[p] > 0}

\* The set is new and empty; the queue is what the file held.  A poll may be in
\* both the file and the results, since a row of the file can fail to delete.
PushInit ==
  /\ copies = [p \in Ids |-> IF p \in Loaded THEN 1 ELSE 0]
  /\ seen = {} /\ rows \in SUBSET Ids
  /\ locked = FALSE /\ stale = {}
  /\ pc = [c \in Procs |-> "idle"]
  /\ todo = [c \in Procs |-> {}] /\ pruned = [c \in Procs |-> {}]
  /\ cur = [c \in Procs |-> {}] /\ held = [c \in Procs |-> {}]
  /\ due = Loaded /\ tainted = Loaded /\ stranded = {}
-----------------------------------------------------------------------------
(***************************************************************************)
(* Push                                                                    *)
(***************************************************************************)
MoveTo(c, place) == pc' = [pc EXCEPT ![c] = place]

\* A goroutine calls Push with some values.
Enter(c, S) ==
  /\ MoveTo(c, "has") /\ todo' = [todo EXCEPT ![c] = S]
  /\ UNCHANGED <<heapVars, pruned, cur, pushHistory>>

\* A command pushes the polls it found.
CommandPush(c, S) ==
  /\ pc[c] = "idle" /\ S # {} /\ Cardinality(S) <= MaxPush
  /\ Enter(c, S)
  /\ UNCHANGED held

\* TryInsert looks the next id up: already there, it is a duplicate.
Has(c, p) ==
  /\ pc[c] = "has" /\ p \in todo[c]
  /\ todo' = [todo EXCEPT ![c] = @ \ {p}]
  /\ IF p \in seen
     THEN UNCHANGED <<pc, cur>>
     ELSE MoveTo(c, "insert") /\ cur' = [cur EXCEPT ![c] = {p}]
  /\ UNCHANGED <<heapVars, pruned, held, pushHistory>>

\* TryInsert writes the id in the map; nothing excludes another goroutine that
\* found it absent at the same time.
TryInsert(c) ==
  /\ pc[c] = "insert" /\ MoveTo(c, "lookup")
  /\ seen' = seen \cup cur[c]
  /\ tainted' = tainted \cup (cur[c] \cap seen)
  /\ UNCHANGED <<copies, rows, locked, stale, localVars, held, due, stranded>>

\* Mutant of HasFinalized: the id of a poll with results stays in the set.
KeepFinalizedId(c) ==
  /\ pc[c] = "lookup" /\ cur[c] \subseteq rows
  /\ MoveTo(c, "has") /\ cur' = [cur EXCEPT ![c] = {}]
  /\ UNCHANGED <<heapVars, todo, pruned, held, pushHistory>>

\* hasFinalized finds a row: the poll is a duplicate, its id is to be removed.
HasFinalized(c) ==
  /\ pc[c] = "lookup" /\ cur[c] \subseteq rows
  /\ MoveTo(c, "undo")
  /\ UNCHANGED <<heapVars, localVars, held, pushHistory>>

\* Mutant of NotFinalized: the insertion is undone for every value.
UndoAlways(c) ==
  /\ pc[c] = "lookup" /\ MoveTo(c, "has")
  /\ pruned' = [pruned EXCEPT ![c] = @ \cup cur[c]]
  /\ seen' = seen \ cur[c]
  /\ cur' = [cur EXCEPT ![c] = {}]
  /\ UNCHANGED <<copies, rows, locked, stale, todo, held, pushHistory>>

\* It finds none, or its query fails, which reads the same.
NotFinalized(c) ==
  /\ pc[c] = "lookup" /\ MoveTo(c, "has")
  /\ pruned' = [pruned EXCEPT ![c] = @ \cup cur[c]]
  /\ cur' = [cur EXCEPT ![c] = {}]
  /\ UNCHANGED <<heapVars, todo, held, pushHistory>>

UndoInsert(c) ==
  /\ pc[c] = "undo" /\ MoveTo(c, "has")
  /\ seen' = seen \ cur[c] /\ stranded' = stranded \ cur[c]
  /\ cur' = [cur EXCEPT ![c] = {}]
  /\ UNCHANGED <<copies, rows, locked, stale, todo, pruned, held, due, tainted>>

\* Back in the caller: a worker that still has its poll goes on with its batch.
Return(c) == MoveTo(c, IF held[c] = {} THEN "idle" ELSE "retried")

\* Every value was looked at: the rest is merged into the heap, under its lock.
Merge(c) ==
  /\ pc[c] = "has" /\ todo[c] = {} /\ Return(c)
  /\ pruned[c] # {} => ~locked
  /\ \A p \in pruned[c] : copies[p] < MaxCopies
  /\ copies' = [p \in Ids |-> IF p \in pruned[c] THEN copies[p] + 1 ELSE copies[p]]
  /\ due' = due \cup pruned[c] /\ stranded' = stranded \ pruned[c]
  /\ pruned' = [pruned EXCEPT ![c] = {}]
  /\ UNCHANGED <<seen, rows, locked, stale, todo, cur, held, tainted>>
-----------------------------------------------------------------------------
(***************************************************************************)
(* A results worker                                                        *)
(***************************************************************************)
\* TryTake, under the lock.
TryTake(w, p) ==
  /\ pc[w] = "idle" /\ MoveTo(w, "took")
  /\ ~locked /\ copies[p] > 0
  /\ copies' = [copies EXCEPT ![p] = @ - 1]
  /\ held' = [held EXCEPT ![w] = {p}]
  /\ UNCHANGED <<seen, rows, locked, stale, localVars, pushHistory>>

\* man.set.Remove after the take.
RemoveTaken(w) ==
  /\ pc[w] = "took" /\ MoveTo(w, "held")
  /\ seen' = seen \ held[w] /\ stranded' = stranded \ held[w]
  /\ UNCHANGED <<copies, rows, locked, stale, localVars, held, due, tainted>>

\* The batch with the poll's row is written.
Write(w) ==
  /\ pc[w] = "held" /\ MoveTo(w, "idle")
  /\ rows' = rows \cup held[w] /\ due' = due \ held[w]
  /\ held' = [held EXCEPT ![w] = {}]
  /\ UNCHANGED <<copies, seen, locked, stale, localVars, tainted, stranded>>

\* The message is gone and the poll is dropped, or an error skips it and a later
\* poll of the batch moves the cutoff past it.
DropHeld(w) ==
  /\ pc[w] = "held" /\ MoveTo(w, "idle")
  /\ due' = due \ held[w]
  /\ held' = [held EXCEPT ![w] = {}]
  /\ UNCHANGED <<heapVars, localVars, tainted, stranded>>

\* Insert pushes a poll that is not finalized while the worker still has it.
PushAgain(w) ==
  /\ pc[w] = "held"
  /\ Enter(w, held[w])
  /\ UNCHANGED held

\* The batch is over and the poll was below its cutoff: the worker forgets it.
Forget(w) ==
  /\ pc[w] = "retried" /\ MoveTo(w, "idle")
  /\ held' = [held EXCEPT ![w] = {}]
  /\ UNCHANGED <<heapVars, localVars, pushHistory>>

\* Mutant of GiveBack: the worker drops what it should give back.
DropTail(w) ==
  /\ pc[w] \in {"held", "retried"} /\ MoveTo(w, "idle")
  /\ held' = [held EXCEPT ![w] = {}]
  /\ UNCHANGED <<heapVars, localVars, pushHistory>>

\* The worker pushes the tail of its batch, or the whole of one that failed.
GiveBack(w) ==
  /\ pc[w] \in {"held", "retried"}
  /\ Enter(w, held[w])
  /\ held' = [held EXCEPT ![w] = {}]
-----------------------------------------------------------------------------
(***************************************************************************)
(* CleanQueue                                                              *)
(***************************************************************************)
CleanLock ==
  /\ ~locked /\ locked' = TRUE
  /\ UNCHANGED <<copies, seen, rows, stale, pc, localVars, held, pushHistory>>

\* Polls whose messages are gone leave the heap: clear, then merge the rest.
CleanDrop(S) ==
  /\ locked /\ stale = {} /\ S # {} /\ S \subseteq Queued
  /\ copies' = [p \in Ids |-> IF p \in S THEN 0 ELSE copies[p]]
  /\ stale' = S /\ due' = due \ S
  /\ UNCHANGED <<seen, rows, locked, pc, localVars, held, tainted, stranded>>

\* The clear goes through and the merge of the rest fails, after it changed the
\* memory: CleanQueue returns, and the dropped ids stay in the set.
CleanFails(S) ==
  /\ locked /\ stale = {} /\ S # {} /\ S \subseteq Queued /\ S # Queued
  /\ copies' = [p \in Ids |-> IF p \in S THEN 0 ELSE copies[p]]
  /\ due' = due \ S /\ stranded' = stranded \cup (S \cap seen)
  /\ locked' = FALSE
  /\ UNCHANGED <<seen, rows, stale, pc, localVars, held, tainted>>

\* Their ids leave the set, one by one.
CleanSet(p) ==
  /\ p \in stale /\ stale' = stale \ {p}
  /\ seen' = seen \ {p}
  /\ UNCHANGED <<copies, rows, locked, pc, localVars, held, pushHistory>>

\* CleanQueue is over, or had nothing to drop, or its clear failed.
CleanUnlock ==
  /\ locked /\ stale = {} /\ locked' = FALSE
  /\ UNCHANGED <<copies, seen, rows, stale, pc, localVars, held, pushHistory>>
-----------------------------------------------------------------------------
PushStep(c) ==
  \/ \E p \in Ids : Has(c, p)
  \/ TryInsert(c) \/ HasFinalized(c) \/ NotFinalized(c) \/ UndoInsert(c) \/ Merge(c)

TakerStep(w) ==
  \/ \E p \in Ids : TryTake(w, p)
  \/ RemoveTaken(w) \/ Write(w) \/ DropHeld(w)
  \/ PushAgain(w) \/ Forget(w) \/ GiveBack(w)

CleanStep ==
  \/ CleanLock \/ CleanUnlock
  \/ \E S \in SUBSET Ids : CleanDrop(S) \/ CleanFails(S)
  \/ \E p \in Ids : CleanSet(p)

PushNext ==
  \/ \E c \in Callers, S \in SUBSET Ids : CommandPush(c, S)
  \/ \E c \in Procs : PushStep(c)
  \/ \E w \in Takers : TakerStep(w)
  \/ CleanStep

PushSpec == PushInit /\ [][PushNext]_pushVars
-----------------------------------------------------------------------------
AtMostOne == {{}} \cup {{p} : p \in Ids}

PushTypeOK ==
  /\ copies \in [Ids -> 0 .. MaxCopies]
  /\ seen \subseteq Ids /\ rows \subseteq Ids
  /\ locked \in BOOLEAN /\ stale \subseteq Ids /\ (stale # {} => locked)
  /\ pc \in [Procs -> {"idle", "has", "insert", "lookup", "undo", "took", "held", "retried"}]
  /\ todo \in [Procs -> SUBSET Ids] /\ pruned \in [Procs -> SUBSET Ids]
  /\ cur \in [Procs -> AtMostOne] /\ held \in [Procs -> AtMostOne]
  /\ due \subseteq Ids /\ tainted \subseteq Ids /\ stranded \subseteq Ids

\* The goroutine that put the id in the set and has not merged the poll yet, or
\* that took the poll and has not removed its id.
Owns(c, p) ==
  \/ pc[c] \in {"lookup", "undo"} /\ p \in cur[c]
  \/ p \in pruned[c]
  \/ pc[c] = "took" /\ p \in held[c]

\* "a message that no longer exists must not keep occupying its slot": an id is
\* in the set only while its poll is queued or some goroutine is between its
\* steps on the set and on the heap, and will either seat the poll or remove
\* the id.  Otherwise the poll could not be queued again until the next start.
\* The code keeps this but for one path: a CleanQueue whose merge fails leaves
\* the ids it dropped, and nothing else ever does.
NoOrphan ==
  \A p \in seen : p \in Queued \cup stale \cup stranded \/ \E c \in Procs : Owns(c, p)

\* One copy of the poll at most, in the queue or on its way to or from it, and
\* while there is one its id is in the set.
Single(p) ==
  /\ copies[p] <= 1
  /\ p \in Queued \cup stale => p \in seen
  /\ p \in Queued => p \notin stale
  /\ \A c \in Procs : Owns(c, p) =>
       /\ p \in seen /\ p \notin Queued \cup stale
       /\ \A d \in Procs \ {c} : ~Owns(d, p)

\* A poll that was neither loaded nor raced into the set is never seated twice.
NoTwin == \A p \in Ids \ tainted : Single(p)

\* In the hands of a goroutine that will give it back, write it or drop it; a
\* worker that pushed its poll for a retry may simply forget it.
InHand(c) ==
  todo[c] \cup cur[c] \cup pruned[c] \cup (IF pc[c] \in {"took", "held"} THEN held[c] ELSE {})

InFlight == UNION {InHand(c) : c \in Procs}

\* A poll that was seated is not lost when a worker gives it back and is refused,
\* whoever holds its id at that moment and however the steps of the goroutines
\* mix, raced insertions included.
PushKeepsPolls == due \subseteq Queued \cup InFlight \cup rows

-----------------------------------------------------------------------------
(***************************************************************************)
(* The inductive invariant behind them.                                    *)
(***************************************************************************)
\* What a goroutine has in hand at each place.
PlaceInv ==
  \A c \in Procs :
    /\ cur[c] # {} <=> pc[c] \in {"insert", "lookup", "undo"}
    /\ pc[c] \in {"idle", "took", "held", "retried"} => todo[c] = {} /\ pruned[c] = {}
    /\ todo[c] \cap cur[c] = {} /\ todo[c] \cap pruned[c] = {} /\ cur[c] \cap pruned[c] = {}
    /\ pc[c] = "undo" => cur[c] \subseteq rows
    /\ pc[c] \in {"took", "held", "retried"} => held[c] # {}
    /\ pc[c] = "idle" => held[c] = {}

PushIInv ==
  /\ PushTypeOK /\ PlaceInv /\ NoOrphan /\ NoTwin
  /\ (stale \cup stranded) \cap due = {} /\ PushKeepsPolls
=============================================================================
