------------------------------ MODULE FileHeap ------------------------------
(***************************************************************************)
(* The poll queue: a binary heap in memory and its rows in a database file *)
(* (datas/fileheap, with the order and the check of managers/polls).       *)
(*                                                                         *)
(* Every operation holds the heap's lock, so it is one step; an Exec on    *)
(* the file may fail, and the process may crash, which is also what a crash *)
(* in the middle of an operation comes to.  CleanQueue has its own steps,  *)
(* since it runs two Execs.                                                *)
(*                                                                         *)
(* An item is a queued poll with its expiry; a retry with a later expiry   *)
(* is another item.  A row is keyed by the hash of the item's JSON: equal  *)
(* items share one row.                                                    *)
(***************************************************************************)
EXTENDS Integers, Sequences, FiniteSets, Functions

CONSTANTS Items,    \* polls as they are queued
          Expiry,   \* the expiry of each, or NoExpiry
          NoExpiry, \* a nil expiry
          MaxTime,  \* bound on the clock
          MaxLen    \* bound on the length of the queue

ASSUME ItemsAssumption == IsFiniteSet(Items)
ASSUME ExpiryAssumption == NoExpiry \notin Int /\ Expiry \in [Items -> Int \cup {NoExpiry}]
ASSUME TimeAssumption == MaxTime \in Nat

VARIABLES
  phase,      \* "up", "cleaning", "down" or "failed" (New returned an error)
  data,       \* heap.inner.data
  file,       \* items with a row
  kept,       \* what CleanQueue is about to merge back
  now,        \* the clock
  \* history, read by the properties only
  unsaved,    \* items whose row failed to be written
  undeleted,  \* items whose row failed to be deleted
  twins       \* items that were in the heap twice

history == <<unsaved, undeleted, twins>>
vars == <<phase, data, file, kept, now, history>>

Queued == Range(data)
Copies(s, x) == Cardinality({k \in DOMAIN s : s[k] = x})
-----------------------------------------------------------------------------
(***************************************************************************)
(* The order and the heap                                                  *)
(***************************************************************************)
\* Mutant of less: a nil expiry comes first.
NilFirst(l, r) ==
  /\ Expiry[r] # NoExpiry
  /\ Expiry[l] # NoExpiry => Expiry[l] < Expiry[r]

\* Soonest expiry first; a nil one sinks.
less(l, r) ==
  /\ Expiry[l] # NoExpiry
  /\ Expiry[r] # NoExpiry => Expiry[l] < Expiry[r]

Swap(s, i, j) == [s EXCEPT ![i] = s[j], ![j] = s[i]]

\* container/heap, down: s[i] sinks among the first n places.  (Places start at
\* 1 here.)
SmallerChild(s, i, n) ==
  IF 2*i + 1 <= n /\ less(s[2*i + 1], s[2*i]) THEN 2*i + 1 ELSE 2*i

\* The loop is at place i of s.
Settled(s, i, n) == 2*i > n \/ ~less(s[SmallerChild(s, i, n)], s[i])

Sink(at, n) ==
  LET s == at[1]
      i == at[2]
  IN  IF Settled(s, i, n) THEN at
      ELSE <<Swap(s, i, SmallerChild(s, i, n)), SmallerChild(s, i, n)>>

\* Where the loop is after each round.
Rounds(s, i, n) ==
  LET at[k \in Nat] == IF k = 0 THEN <<s, i>> ELSE Sink(at[k - 1], n)
  IN  at

\* It is over after n rounds at the latest.
Down(s, i, n) == Rounds(s, i, n)[n][1]

\* container/heap, Init: every parent sinks, from the last to the first.
Heapify(s) ==
  LET sunk[k \in 0 .. Len(s) \div 2] ==
        IF k = 0 THEN s ELSE Down(sunk[k - 1], Len(s) \div 2 + 1 - k, Len(s))
  IN  sunk

\* Mutant of heapsInit: values are appended without restoring the order.
NoInit(s) == s

heapsInit(s) == Heapify(s)[Len(s) \div 2]

\* container/heap, Pop, without the item it returns: s[1].
heapsPop(s) ==
  LET n == Len(s) - 1
  IN  SubSeq(Down(Swap(s, 1, Len(s)), 1, n), 1, n)

\* CleanQueue's pass over the first k places: what is not in S is kept.
Keep(s, S) ==
  LET keep[k \in 0 .. Len(s)] ==
        IF k = 0 THEN <<>>
        ELSE IF s[k] \in S THEN keep[k - 1] ELSE Append(keep[k - 1], s[k])
  IN  keep

\* The sequences that list each item of S once.
Listings(S) == {s \in [1 .. Cardinality(S) -> S] : Range(s) = S}
-----------------------------------------------------------------------------
Init ==
  /\ phase = "up" /\ data = <<>> /\ file = {} /\ kept = <<>> /\ now = 0
  /\ unsaved = {} /\ undeleted = {} /\ twins = {}

\* The clock, which the bound MaxTime stops.
Tick ==
  /\ now < MaxTime /\ now' = now + 1
  /\ UNCHANGED <<phase, data, file, kept, history>>

\* MergeLocked: memory first, then one REPLACE for all the rows.
MergeRows(S, base, ok) ==
  /\ file' = IF ok THEN base \cup S ELSE base
  /\ unsaved' = IF ok THEN unsaved \ S ELSE unsaved \cup S

\* Merge, from Push.
Merge(S, ok) ==
  /\ phase = "up" /\ S # {}
  /\ Len(data) + Cardinality(S) <= MaxLen
  /\ \E s \in Listings(S) : data' = heapsInit(data \o s)
  /\ MergeRows(S, file, ok)
  /\ undeleted' = undeleted \ S /\ twins' = twins \cup (S \cap Queued)
  /\ UNCHANGED <<phase, kept, now>>

\* The question tryAddToBatch asks of the top.
Expired(x) == Expiry[x] # NoExpiry => Expiry[x] <= now

\* Mutant of TryTake: the row is left in the file.
TakeNoDelete(ok) ==
  /\ phase = "up" /\ data # <<>> /\ Expired(data[1])
  /\ data' = heapsPop(data)
  /\ UNCHANGED <<phase, file, kept, now, history>>

\* Mutant of TryTake: the row of the new top is deleted.
TakeDeletesNext(ok) ==
  /\ phase = "up" /\ data # <<>> /\ Expired(data[1])
  /\ data' = heapsPop(data)
  /\ file' = file \ {data'[k] : k \in {1} \cap DOMAIN data'}
  /\ UNCHANGED <<phase, kept, now, history>>

\* TryTake: the top leaves the heap, then its row is deleted.
TryTake(ok) ==
  /\ phase = "up" /\ data # <<>> /\ Expired(data[1])
  /\ data' = heapsPop(data)
  /\ file' = IF ok THEN file \ {data[1]} ELSE file
  /\ undeleted' = IF ok THEN undeleted ELSE undeleted \cup {data[1]}
  /\ UNCHANGED <<phase, kept, now, unsaved, twins>>

\* Mutant of ClearLocked: the rows go and the memory stays.
ClearFileOnly(S) ==
  /\ phase = "up" /\ S # {} /\ S \subseteq Queued
  /\ kept' = Keep(data, S)[Len(data)]
  /\ file' = {} /\ phase' = "cleaning"
  /\ UNCHANGED <<data, now, history>>

\* CleanQueue drops the polls S and clears the rows, then the memory.  A clear
\* that fails changes nothing.
ClearLocked(S) ==
  /\ phase = "up" /\ S # {} /\ S \subseteq Queued
  /\ kept' = Keep(data, S)[Len(data)]
  /\ file' = {} /\ data' = <<>> /\ phase' = "cleaning"
  /\ UNCHANGED <<now, history>>

\* CleanQueue merges the rest back.
MergeBack(ok) ==
  /\ phase = "cleaning" /\ phase' = "up"
  /\ data' = heapsInit(data \o kept) /\ kept' = <<>>
  /\ MergeRows(Range(kept), file, ok)
  /\ undeleted' = {}
  /\ UNCHANGED <<now, twins>>

\* The process ends, by a crash or after Close.
Stop ==
  /\ phase \in {"up", "cleaning"} /\ phase' = "down"
  /\ data' = <<>> /\ kept' = <<>>
  /\ unsaved' = {} /\ undeleted' = {} /\ twins' = {}
  /\ UNCHANGED <<file, now>>

\* validate, the check of every item New reads; polls without a guild are left
\* out.
validate(x) == Expiry[x] # NoExpiry

\* New reads the rows in any order; one that does not pass the check fails it.
New ==
  /\ phase = "down"
  /\ IF \A x \in file : validate(x)
     THEN /\ phase' = "up"
          /\ \E s \in Listings(file) : data' = heapsInit(s)
     ELSE phase' = "failed" /\ UNCHANGED data
  /\ UNCHANGED <<file, kept, now, history>>

Next ==
  \/ Tick \/ Stop \/ New
  \/ \E S \in SUBSET Items : ClearLocked(S)
  \/ \E ok \in BOOLEAN : TryTake(ok) \/ MergeBack(ok) \/ \E S \in SUBSET Items : Merge(S, ok)

Spec == Init /\ [][Next]_vars
-----------------------------------------------------------------------------
TypeOK ==
  /\ phase \in {"up", "cleaning", "down", "failed"}
  /\ data \in Seq(Items)
  /\ kept \in Seq(Items) /\ (kept # <<>> => phase = "cleaning")
  /\ file \subseteq Items /\ now \in 0 .. MaxTime
  /\ unsaved \subseteq Items /\ undeleted \subseteq Items /\ twins \subseteq Items

\* After every merge, take, clean and restart the top is a soonest poll: a poll
\* that is due is never behind one that is not, nor behind one without expiry.
TopIsSoonest ==
  \A x \in Queued :
    /\ Expiry[data[1]] = NoExpiry => Expiry[x] = NoExpiry
    /\ Expiry[x] # NoExpiry => Expiry[data[1]] <= Expiry[x]

\* A queued poll survives a crash: it has its row, unless writing the row failed
\* or there were two equal copies, whose one row goes with the first.
QueueIsDurable == Queued \subseteq file \cup unsaved \cup twins

\* A poll that was taken is not queued again by a restart: its row is gone,
\* unless deleting it failed.
NoResurrection ==
  phase \in {"up", "cleaning"} => file \subseteq Queued \cup undeleted

\* "only cleared once the file agrees", and CleanQueue rewrites the queue: of a
\* clean that is not cut short by a crash the survivors come out queued exactly as
\* often as before, neither lost nor put on top of the old contents, and none of
\* the polls it dropped does.
CleanKeepsCounts ==
  [][/\ \A S \in SUBSET Items : ClearLocked(S) =>
          \A x \in Items : Copies(kept', x) = IF x \in S THEN 0 ELSE Copies(data, x)
     /\ phase = "cleaning" /\ phase' = "up" =>
          \A x \in Items : Copies(data', x) = Copies(kept, x)]_vars
=============================================================================
