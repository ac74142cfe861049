---------------------------- MODULE AtomicQueue ----------------------------
(***************************************************************************)
(* The queue of datas/atomicqueue: a ring that one worker goroutine fills  *)
(* from a channel and any number of goroutines pop without a lock, with    *)
(* Await for those that want to sleep until there is something to pop.     *)
(*                                                                         *)
(* Each atomic load, store and compare-and-swap is a step; so is each      *)
(* access to the ring, which a popper may read while the worker writes it. *)
(* (The slots are pointers: a racing read is of the old or the new one.)   *)
(* Values are numbered in the order in which the channel takes them.       *)
(***************************************************************************)
EXTENDS Integers, Sequences

CONSTANTS Pushers, Poppers,  \* goroutines
          RingSize,          \* slots of the ring
          BufferSize,        \* buffer of the worker's channel
          MaxPushes          \* bound on the values pushed

ASSUME SizeAssumption == RingSize \in Nat \ {0}
ASSUME ChannelAssumption == BufferSize \in Nat \ {0}
ASSUME PushesAssumption == MaxPushes \in Nat

VARIABLES
  blockFull, \* F_BLOCKFULL; otherwise F_DROPFULL
  ring,      \* queue.data; 0 is an empty slot
  head, tail,
  channel,   \* worker.channel
  running,   \* states.active
  done,      \* worker.done is closed
  unblock,   \* tokens in awaitUnblockChannel
  drops,     \* values dropped
  wpc,       \* where the worker is
  next,      \* the value in its hand
  ppc,       \* where each popper is
  hd,        \* the head it loaded
  val,       \* the value it read
  upc,       \* where each pusher is
  spc,       \* where Stop is
  \* history, read by the properties only
  pushed,    \* values the channel took
  out        \* values popped, in the order of the swaps

ringVars == <<ring, head, tail>>
chanVars == <<channel, pushed>>
stopVars == <<running, done, spc>>
workerVars == <<wpc, next, drops>>
popVars == <<ppc, hd, val>>
atomicVars == <<blockFull, ringVars, chanVars, stopVars, workerVars, popVars, unblock, upc, out>>

mask(i) == i % RingSize
Full == tail - head >= RingSize   \* asked by the worker only, whose tail it is

QueueInit ==
  /\ blockFull \in BOOLEAN
  /\ ring = [i \in 0 .. RingSize - 1 |-> 0] /\ head = 0 /\ tail = 0
  /\ channel = <<>> /\ pushed = 0
  /\ running = TRUE /\ done = FALSE /\ spc = "none"
  /\ unblock = 0 /\ drops = 0
  /\ wpc = "full" /\ next = 0
  /\ ppc = [p \in Poppers |-> "idle"]
  /\ hd = [p \in Poppers |-> 0] /\ val = [p \in Poppers |-> 0]
  /\ upc = [c \in Pushers |-> "idle"]
  /\ out = <<>>
-----------------------------------------------------------------------------
(***************************************************************************)
(* subscribers: Release closes the channel that every sleeper waits on; a  *)
(* later Wait makes a new one.  Both hold the mutex.                       *)
(***************************************************************************)
Locked == \E p \in Poppers : ppc[p] \in {"waitHead", "waitTail"}

Release ==
  /\ ~Locked
  /\ ppc' = [p \in Poppers |-> IF ppc[p] = "asleep" THEN "idle" ELSE ppc[p]]

\* Await: under the mutex, sleep if the queue is active and empty.
WaitLock(p) ==
  /\ ppc[p] = "idle" /\ ~Locked /\ running
  /\ ppc' = [ppc EXCEPT ![p] = "waitHead"]
  /\ UNCHANGED <<blockFull, ringVars, chanVars, stopVars, workerVars, hd, val, unblock, upc, out>>

WaitHead(p) ==
  /\ ppc[p] = "waitHead" /\ ppc' = [ppc EXCEPT ![p] = "waitTail"]
  /\ hd' = [hd EXCEPT ![p] = head]
  /\ UNCHANGED <<blockFull, ringVars, chanVars, stopVars, workerVars, val, unblock, upc, out>>

WaitTail(p) ==
  /\ ppc[p] = "waitTail"
  /\ ppc' = [ppc EXCEPT ![p] = IF hd[p] = tail THEN "asleep" ELSE "idle"]
  /\ hd' = [hd EXCEPT ![p] = 0]
  /\ UNCHANGED <<blockFull, ringVars, chanVars, stopVars, workerVars, val, unblock, upc, out>>
-----------------------------------------------------------------------------
(***************************************************************************)
(* worker.Start                                                            *)
(***************************************************************************)
\* Under F_BLOCKFULL a full ring is waited out, one token at a time.
AwaitRoom ==
  /\ wpc = "full" /\ ~(blockFull /\ Full) /\ wpc' = "select"
  /\ UNCHANGED <<blockFull, ringVars, chanVars, stopVars, popVars, next, drops, unblock, upc, out>>

\* Mutant of Block: it blocks under F_DROPFULL too.
BlockAlways ==
  /\ wpc = "full" /\ Full /\ wpc' = "blocked"
  /\ UNCHANGED <<blockFull, ringVars, chanVars, stopVars, popVars, next, drops, unblock, upc, out>>

Block ==
  /\ wpc = "full" /\ blockFull /\ Full /\ wpc' = "blocked"
  /\ UNCHANGED <<blockFull, ringVars, chanVars, stopVars, popVars, next, drops, unblock, upc, out>>

TakeToken ==
  /\ wpc = "blocked" /\ unblock > 0
  /\ unblock' = unblock - 1 /\ wpc' = "full"
  /\ UNCHANGED <<blockFull, ringVars, chanVars, stopVars, popVars, next, drops, upc, out>>

Receive ==
  /\ wpc = "select" /\ channel # <<>>
  /\ next' = Head(channel) /\ channel' = Tail(channel) /\ wpc' = "put"
  /\ UNCHANGED <<blockFull, ringVars, pushed, stopVars, popVars, drops, unblock, upc, out>>

\* "only reachable under F_DROPFULL"
DropNext ==
  /\ wpc = "put" /\ Full
  /\ drops' = drops + 1 /\ wpc' = "full" /\ next' = 0
  /\ UNCHANGED <<blockFull, ringVars, chanVars, stopVars, popVars, unblock, upc, out>>

WriteSlot ==
  /\ wpc = "put" /\ ~Full
  /\ ring' = [ring EXCEPT ![mask(tail)] = next] /\ wpc' = "tail"
  /\ UNCHANGED <<blockFull, head, tail, chanVars, stopVars, popVars>>
  /\ UNCHANGED <<next, drops, unblock, upc, out>>

\* Mutant of StoreTail: the sleepers are not released.
StoreTailQuietly ==
  /\ wpc = "tail" /\ tail' = tail + 1 /\ wpc' = "full" /\ next' = 0
  /\ UNCHANGED <<blockFull, ring, head, chanVars, stopVars, popVars, drops, unblock, upc, out>>

StoreTail ==
  /\ wpc = "tail" /\ tail' = tail + 1 /\ wpc' = "release" /\ next' = 0
  /\ UNCHANGED <<blockFull, ring, head, chanVars, stopVars, popVars, drops, unblock, upc, out>>

ReleaseSubscribers ==
  /\ wpc = "release" /\ Release /\ wpc' = "full"
  /\ UNCHANGED <<blockFull, ringVars, chanVars, stopVars, next, drops, hd, val, unblock, upc, out>>

\* Either select may see that the queue was stopped; the deferred Stop finds
\* it done.
EndWorker ==
  /\ wpc \in {"blocked", "select"} /\ done /\ wpc' = "ended"
  /\ UNCHANGED <<blockFull, ringVars, chanVars, stopVars, popVars, next, drops, unblock, upc, out>>

WorkerStep ==
  \/ AwaitRoom \/ Block \/ TakeToken \/ Receive \/ DropNext \/ WriteSlot
  \/ StoreTail \/ ReleaseSubscribers \/ EndWorker
-----------------------------------------------------------------------------
(***************************************************************************)
(* Push and Pop                                                            *)
(***************************************************************************)
StartPush(c) ==
  /\ upc[c] = "idle" /\ ~done /\ upc' = [upc EXCEPT ![c] = "send"]
  /\ UNCHANGED <<blockFull, ringVars, chanVars, stopVars, workerVars, popVars, unblock, out>>

Send(c) ==
  /\ upc[c] = "send" /\ Len(channel) < BufferSize /\ pushed < MaxPushes
  /\ pushed' = pushed + 1 /\ channel' = Append(channel, pushed + 1)
  /\ upc' = [upc EXCEPT ![c] = "idle"]
  /\ UNCHANGED <<blockFull, ringVars, stopVars, workerVars, popVars, unblock, out>>

\* Push returns "closed".
Refused(c) ==
  /\ upc[c] = "send" /\ done /\ upc' = [upc EXCEPT ![c] = "idle"]
  /\ UNCHANGED <<blockFull, ringVars, chanVars, stopVars, workerVars, popVars, unblock, out>>

PopHead(p) ==
  /\ ppc[p] \in {"idle", "again"}
  /\ hd' = [hd EXCEPT ![p] = head] /\ ppc' = [ppc EXCEPT ![p] = "popTail"]
  /\ UNCHANGED <<blockFull, ringVars, chanVars, stopVars, workerVars, val, unblock, upc, out>>

\* An empty queue ends the Pop with an error.
PopTail(p) ==
  /\ ppc[p] = "popTail"
  /\ IF hd[p] = tail
     THEN ppc' = [ppc EXCEPT ![p] = "idle"] /\ hd' = [hd EXCEPT ![p] = 0]
     ELSE ppc' = [ppc EXCEPT ![p] = "read"] /\ UNCHANGED hd
  /\ UNCHANGED <<blockFull, ringVars, chanVars, stopVars, workerVars, val, unblock, upc, out>>

ReadSlot(p) ==
  /\ ppc[p] = "read" /\ ppc' = [ppc EXCEPT ![p] = "swap"]
  /\ val' = [val EXCEPT ![p] = ring[mask(hd[p])]]
  /\ UNCHANGED <<blockFull, ringVars, chanVars, stopVars, workerVars, hd, unblock, upc, out>>

\* Mutant of AfterPop: the worker is not told.
NoSignal == "idle"

AfterPop == IF blockFull THEN "signal" ELSE "idle"

\* The locals of a tryPop that returns are gone.
ForgetLocals(p) == hd' = [hd EXCEPT ![p] = 0] /\ val' = [val EXCEPT ![p] = 0]

\* Mutant of CompareAndSwap: the head is stored whatever it is by now.
StoreHead(p) ==
  /\ ppc[p] = "swap" /\ head' = hd[p] + 1 /\ out' = Append(out, val[p])
  /\ ppc' = [ppc EXCEPT ![p] = AfterPop] /\ ForgetLocals(p)
  /\ UNCHANGED <<blockFull, ring, tail, chanVars, stopVars, workerVars, unblock, upc>>

\* A swap that fails starts over.
CompareAndSwap(p) ==
  /\ ppc[p] = "swap"
  /\ IF head = hd[p]
     THEN /\ head' = head + 1 /\ out' = Append(out, val[p])
          /\ ppc' = [ppc EXCEPT ![p] = AfterPop]
     ELSE ppc' = [ppc EXCEPT ![p] = "again"] /\ UNCHANGED <<head, out>>
  /\ ForgetLocals(p)
  /\ UNCHANGED <<blockFull, ring, tail, chanVars, stopVars, workerVars, unblock, upc>>

\* The token of a pop goes into a buffer of one; one more is not needed.
Signal(p) ==
  /\ ppc[p] = "signal" /\ unblock' = 1 /\ ppc' = [ppc EXCEPT ![p] = "idle"]
  /\ UNCHANGED <<blockFull, ringVars, chanVars, stopVars, workerVars, hd, val, upc, out>>

PopStep(p) == PopTail(p) \/ ReadSlot(p) \/ CompareAndSwap(p) \/ Signal(p)
                \/ (ppc[p] = "again" /\ PopHead(p))
-----------------------------------------------------------------------------
(***************************************************************************)
(* Stop, once                                                              *)
(***************************************************************************)
StartStop ==
  /\ spc = "none" /\ spc' = "close" /\ running' = FALSE
  /\ UNCHANGED <<blockFull, ringVars, chanVars, done, workerVars, popVars, unblock, upc, out>>

CloseDone ==
  /\ spc = "close" /\ spc' = "release" /\ done' = TRUE
  /\ UNCHANGED <<blockFull, ringVars, chanVars, running, workerVars, popVars, unblock, upc, out>>

ReleaseLast ==
  /\ spc = "release" /\ Release /\ spc' = "stopped"
  /\ UNCHANGED <<blockFull, ringVars, chanVars, running, done, workerVars>>
  /\ UNCHANGED <<hd, val, unblock, upc, out>>

StopStep == CloseDone \/ ReleaseLast

QueueNext ==
  \/ WorkerStep \/ StartStop \/ StopStep
  \/ \E c \in Pushers : StartPush(c) \/ Send(c) \/ Refused(c)
  \/ \E p \in Poppers : WaitLock(p) \/ WaitHead(p) \/ WaitTail(p) \/ PopHead(p) \/ PopStep(p)

\* Goroutines run.  Nobody has to push, pop, sleep or stop.
QueueFairness ==
  /\ WF_atomicVars(WorkerStep) /\ WF_atomicVars(StopStep)
  /\ \A p \in Poppers : WF_atomicVars(WaitHead(p) \/ WaitTail(p)) /\ WF_atomicVars(PopStep(p))
  \* A Go mutex does not starve.
  /\ SF_atomicVars(ReleaseSubscribers) /\ SF_atomicVars(ReleaseLast)

SafeSpec == QueueInit /\ [][QueueNext]_atomicVars
QueueSpec == SafeSpec /\ QueueFairness
-----------------------------------------------------------------------------
QueueTypeOK ==
  /\ blockFull \in BOOLEAN /\ running \in BOOLEAN /\ done \in BOOLEAN
  /\ ring \in [0 .. RingSize - 1 -> Nat] /\ head \in Nat /\ tail \in Nat
  /\ channel \in Seq(Nat) /\ pushed \in Nat /\ next \in Nat
  /\ unblock \in {0, 1} /\ drops \in Nat
  /\ wpc \in {"full", "blocked", "select", "put", "tail", "release", "ended"}
  /\ ppc \in [Poppers -> {"idle", "again", "popTail", "read", "swap", "signal",
                          "waitHead", "waitTail", "asleep"}]
  /\ hd \in [Poppers -> Nat] /\ val \in [Poppers -> Nat]
  /\ upc \in [Pushers -> {"idle", "send"}]
  /\ spc \in {"none", "close", "release", "stopped"}
  /\ out \in Seq(Nat)
  /\ head <= tail /\ tail <= head + RingSize

InHand == IF wpc \in {"put", "tail"} THEN <<next>> ELSE <<>>

Queue == INSTANCE LossyQueue WITH
  Size <- RingSize,
  Values <- 1 .. MaxPushes,
  inbox <- InHand \o channel,
  items <- [i \in 1 .. (tail - head) |-> ring[mask(head + i - 1)]],
  taken <- out,
  dropped <- drops,
  blocks <- blockFull

\* Whatever the poppers and the worker interleave, values come out in the order
\* in which they went in, each once, and only a full ring drops one: a popper
\* that read a slot the worker was already writing again fails its swap.
ImplementsQueue == Queue!QSpec

\* A goroutine asleep in Await is woken once there is something to pop or the
\* queue is stopped: no push falls between its look at the ring and its sleep.
SleepersWake ==
  \A p \in Poppers :
    (ppc[p] = "asleep" /\ (head # tail \/ ~running)) ~> ppc[p] # "asleep"

\* Under F_BLOCKFULL the worker does not stay blocked on a ring with room,
\* though a pop makes room first and sends its token later.
BlockedHasRoom == (wpc = "blocked" /\ ~Full) ~> wpc # "blocked"

\* A push never waits for the poppers under F_DROPFULL.
PushReturns ==
  \A c \in Pushers :
    (upc[c] = "send" /\ ~blockFull) ~> Len(channel) < BufferSize \/ done
=============================================================================
