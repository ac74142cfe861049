---------------------------- MODULE PollWorkers ----------------------------
(***************************************************************************)
(* The pool of results workers of the poll manager: how they share the     *)
(* queue, sleep and are woken, and how Close stops them                    *)
(* (managers/polls/results_worker.go, polls.go, data.go).                  *)
(*                                                                         *)
(* What happens between a worker and the Insert goroutine of its batch is  *)
(* reduced to its effects on the queue and the results; InsertBatch gives  *)
(* the handshake and is checked to implement this module for one worker.   *)
(*                                                                         *)
(* Push is one step here (PollPush takes it apart).  Without a restart the *)
(* ids in man.set are those of the queue, so a Push is refused by `queue`. *)
(* Time is abstracted: whether the top of the heap is due is chosen at     *)
(* every look.                                                             *)
(***************************************************************************)
EXTENDS FiniteSets, Integers

CONSTANTS Polls,     \* message ids of polls
          Workers,   \* worker ids, NUM_WORKERS of them
          MaxBatch   \* WRITE_MAX_BATCH

ASSUME BatchAssumption == MaxBatch \in Nat \ {0}

VARIABLES
  queue,    \* ids in the file heap (and in man.set)
  results,  \* ids with a row in the results table
  closed,   \* the heap is closed
  wpc,      \* where each worker is
  batch,    \* what each worker holds
  insert,   \* whether an Insert goroutine of the worker still runs
  spc,      \* the Stop call of each worker
  cpc,      \* PollManager.Close
  \* history, read by the properties only
  known,    \* polls some Push has seated
  gone,     \* polls dropped because Discord has no such message
  lost,     \* polls skipped below the cutoff of a written batch
  torn      \* a Stop returned while its worker may go on

queueVars == <<queue, results, closed>>
workerVars == <<wpc, batch, insert>>
stopVars == <<spc, cpc, torn>>
history == <<known, gone, lost>>
vars == <<queueVars, workerVars, stopVars, history>>

Asleep == {"sleepEmpty", "sleepTop"}

Init ==
  /\ queue = {} /\ results = {} /\ closed = FALSE
  /\ wpc \in [Workers -> {"unstarted", "loop"}]   \* StartWorker was called for each
  /\ batch = [w \in Workers |-> {}]
  /\ insert = [w \in Workers |-> FALSE]
  /\ spc = [w \in Workers |-> "none"]
  /\ cpc = "none" /\ torn = FALSE
  /\ known = {} /\ gone = {} /\ lost = {}
-----------------------------------------------------------------------------
(***************************************************************************)
(* Shared operations                                                       *)
(***************************************************************************)
\* releaseSubscribers: every worker blocked in a send on queueSubCh goes on.
Released(pc) == [w \in Workers |-> IF pc[w] \in Asleep THEN "loop" ELSE pc[w]]

\* The set and the results lookup of Push; a failing lookup sees no results.
Lookups == {results, {}}

Push(S, final) ==
  LET new == IF closed THEN {} ELSE S \ (queue \cup final)
  IN  /\ queue' = queue \cup new
      /\ known' = known \cup new

\* Push releases the subscribers if the top of the heap changed: always when
\* the heap was empty, else if the new poll is due first.
PushWakes(pc) ==
  \/ /\ queue' # queue
     /\ wpc' = Released(pc)
  \/ /\ queue' = queue \/ queue # {}
     /\ wpc' = pc

\* A command or the API submits a poll.
Submit(p) ==
  /\ \E final \in Lookups : Push({p}, final)
  /\ PushWakes(wpc)
  /\ UNCHANGED <<results, closed, batch, insert, stopVars, gone, lost>>
-----------------------------------------------------------------------------
(***************************************************************************)
(* The worker                                                              *)
(***************************************************************************)
Goto(w, place) == [wpc EXCEPT ![w] = place]

Unhalted(w) == spc[w] # "send"

\* go worker.Start(): the goroutine runs some time after StartWorker returned.
StartLoop(w) ==
  /\ wpc[w] = "unstarted" /\ wpc' = Goto(w, "loop")
  /\ UNCHANGED <<queueVars, batch, insert, stopVars, history>>

\* Mutant of Take: the subscribers are not released.
TakeQuietly(w, p) ==
  /\ wpc[w] = "loop" /\ Unhalted(w) /\ ~closed
  /\ Cardinality(batch[w]) < MaxBatch
  /\ p \in queue
  /\ queue' = queue \ {p}
  /\ batch' = [batch EXCEPT ![w] = @ \cup {p}]
  /\ UNCHANGED <<results, closed, wpc, insert, stopVars, history>>

\* tryAddToBatch takes the top, removes its id and releases the subscribers.
Take(w, p) ==
  /\ wpc[w] = "loop" /\ Unhalted(w) /\ ~closed
  /\ Cardinality(batch[w]) < MaxBatch
  /\ p \in queue
  /\ queue' = queue \ {p}
  /\ batch' = [batch EXCEPT ![w] = @ \cup {p}]
  /\ wpc' = Released(wpc)
  /\ UNCHANGED <<results, closed, insert, stopVars, history>>

\* Nothing to take with nothing in the batch: the worker is about to sleep,
\* on an empty (or closed) heap or on a top that is not due.
FindEmpty(w) ==
  /\ wpc[w] = "loop" /\ Unhalted(w) /\ batch[w] = {}
  /\ queue = {} \/ closed
  /\ wpc' = Goto(w, "gapEmpty")
  /\ UNCHANGED <<queueVars, batch, insert, stopVars, history>>

\* Mutant of FindNotDue: a worker with a part of a batch waits for the rest.
WaitForRest(w) ==
  /\ wpc[w] = "loop" /\ Unhalted(w) /\ Cardinality(batch[w]) < MaxBatch
  /\ queue # {} /\ ~closed
  /\ wpc' = Goto(w, "gapTop")
  /\ UNCHANGED <<queueVars, batch, insert, stopVars, history>>

FindNotDue(w) ==
  /\ wpc[w] = "loop" /\ Unhalted(w) /\ batch[w] = {}
  /\ queue # {} /\ ~closed
  /\ wpc' = Goto(w, "gapTop")
  /\ UNCHANGED <<queueVars, batch, insert, stopVars, history>>

\* waitForPoll blocks in its select; only from here on can it be released.
FallAsleep(w) ==
  /\ Unhalted(w)
  /\ \/ wpc[w] = "gapEmpty" /\ wpc' = Goto(w, "sleepEmpty")
     \/ wpc[w] = "gapTop" /\ wpc' = Goto(w, "sleepTop")
  /\ UNCHANGED <<queueVars, batch, insert, stopVars, history>>

\* The deadline of the top the worker saw.
DeadlineWakes(w) ==
  /\ wpc[w] = "sleepTop" /\ wpc' = Goto(w, "loop")
  /\ UNCHANGED <<queueVars, batch, insert, stopVars, history>>

\* The batch is full, or nothing more is due: go man.Insert(...).
StartInsert(w) ==
  /\ wpc[w] = "loop" /\ batch[w] # {} /\ ~insert[w]
  /\ wpc' = Goto(w, "busy")
  /\ insert' = [insert EXCEPT ![w] = TRUE]
  /\ UNCHANGED <<queueVars, batch, stopVars, history>>

\* Insert has ended: the worker gives back what is not settled, and loses what
\* was skipped below the cutoff of a written batch.
Finish(w) ==
  /\ wpc[w] = "busy" /\ ~insert[w]
  /\ \E Q, L \in SUBSET batch[w] :
       /\ closed \/ batch[w] \subseteq Q \cup L \cup queue \cup results \cup gone
       /\ \E final \in Lookups : Push(Q, final)
       /\ lost' = lost \cup L
  /\ batch' = [batch EXCEPT ![w] = {}]
  /\ PushWakes(Goto(w, "loop"))
  /\ UNCHANGED <<results, closed, insert, stopVars, gone>>
-----------------------------------------------------------------------------
(***************************************************************************)
(* The Insert goroutine of a worker's batch, by its effects.  It runs on   *)
(* when its worker is stopped in the middle of the batch.                  *)
(***************************************************************************)
\* A poll Discord has not finalized is pushed back with a later expiry.
Retry(w, p) ==
  /\ insert[w] /\ p \in batch[w]
  /\ \E final \in Lookups : Push({p}, final)
  /\ PushWakes(wpc)
  /\ UNCHANGED <<results, closed, batch, insert, stopVars, gone, lost>>

\* A poll without a message is dropped by the worker.
Drop(w, p) ==
  /\ insert[w] /\ wpc[w] = "busy" /\ p \in batch[w]
  /\ gone' = gone \cup {p}
  /\ UNCHANGED <<queueVars, workerVars, stopVars, known, lost>>

\* The rows are written, by one statement; or there is none, or it fails.
EndInsert(w) ==
  /\ insert[w]
  /\ \E W \in SUBSET batch[w] : results' = results \cup W
  /\ insert' = [insert EXCEPT ![w] = FALSE]
  /\ UNCHANGED <<queue, closed, wpc, batch, stopVars, history>>
-----------------------------------------------------------------------------
(***************************************************************************)
(* Close runs Stop of every worker, all at once, releases the subscribers,  *)
(* and closes the heap when every Stop has returned.                        *)
(***************************************************************************)
CloseRelease ==
  /\ cpc # "closed" /\ cpc' = "stopping"
  /\ wpc' = Released(wpc)
  /\ UNCHANGED <<queueVars, batch, insert, spc, torn, history>>

\* Stop of a busy or paused worker sends halt; of any other it returns at once.
StopCall(w) ==
  /\ cpc # "closed" /\ cpc' = "stopping"
  /\ spc[w] = "none"
  /\ IF wpc[w] = "unstarted"
     THEN /\ spc' = [spc EXCEPT ![w] = "done"]
          /\ torn' = TRUE
          /\ UNCHANGED wpc
     ELSE /\ spc' = [spc EXCEPT ![w] = "send"]
          /\ wpc' = Released(wpc)
          /\ UNCHANGED torn
  /\ UNCHANGED <<queueVars, batch, insert, history>>

\* checkForStop, or the select of waitForPoll, receives from halt.
SeeHalt(w) ==
  /\ spc[w] = "send" /\ spc' = [spc EXCEPT ![w] = "ack"]
  /\ wpc[w] \in {"loop", "gapEmpty", "gapTop", "busy"} \cup Asleep
  /\ wpc' = Goto(w, "cleanup")
  /\ UNCHANGED <<queueVars, batch, insert, cpc, torn, history>>

\* The stopped worker pushes its batch from the cutoff on.
Cleanup(w) ==
  /\ wpc[w] = "cleanup"
  /\ \E Q \in SUBSET batch[w], final \in Lookups : Push(Q, final)
  /\ PushWakes(Goto(w, "ack"))
  /\ UNCHANGED <<results, closed, batch, insert, stopVars, gone, lost>>

\* Mutant of Acknowledge: the worker ends without sending its ack.
EndUnacknowledged(w) ==
  /\ wpc[w] = "ack" /\ wpc' = Goto(w, "stopped")
  /\ UNCHANGED <<queueVars, batch, insert, stopVars, history>>

\* wr.halt <- 0 meets the second select of Stop.
Acknowledge(w) ==
  /\ wpc[w] = "ack" /\ wpc' = Goto(w, "stopped")
  /\ spc[w] = "ack" /\ spc' = [spc EXCEPT ![w] = "push"]
  /\ UNCHANGED <<queueVars, batch, insert, cpc, torn, history>>

\* Mutant of StopPush: Stop trusts the worker's cleanup to have pushed all.
StopPushesNothing(w) ==
  /\ spc[w] = "push" /\ spc' = [spc EXCEPT ![w] = "done"]
  /\ UNCHANGED <<queueVars, workerVars, cpc, torn, history>>

\* Stop pushes the whole batch.
StopPush(w) ==
  /\ spc[w] = "push" /\ spc' = [spc EXCEPT ![w] = "done"]
  /\ \E final \in Lookups : Push(batch[w], final)
  /\ PushWakes(wpc)
  /\ UNCHANGED <<results, closed, batch, insert, cpc, torn, gone, lost>>

\* WORKER_TIMEOUT_DURATION passes in either select of Stop.
StopTimeout(w) ==
  /\ spc[w] \in {"send", "ack"} /\ spc' = [spc EXCEPT ![w] = "timedout"]
  /\ torn' = TRUE
  /\ UNCHANGED <<queueVars, workerVars, cpc, history>>

\* wg.Wait() is over: man.queue.Close().
CloseHeap ==
  /\ cpc = "stopping" /\ cpc' = "closed"
  /\ \A w \in Workers : spc[w] \in {"done", "timedout"}
  /\ closed' = TRUE
  /\ UNCHANGED <<queue, results, workerVars, spc, torn, history>>
-----------------------------------------------------------------------------
WorkerStep(w) ==
  \/ StartLoop(w) \/ FindEmpty(w) \/ FindNotDue(w) \/ FallAsleep(w)
  \/ DeadlineWakes(w) \/ StartInsert(w) \/ Finish(w) \/ Cleanup(w)
  \/ \E p \in Polls : Take(w, p)

InsertStep(w) == EndInsert(w) \/ \E p \in Polls : Retry(w, p) \/ Drop(w, p)

StopStep(w) == StopCall(w) \/ SeeHalt(w) \/ Acknowledge(w) \/ StopPush(w)

Next ==
  \/ \E p \in Polls : Submit(p)
  \/ \E w \in Workers : WorkerStep(w) \/ InsertStep(w) \/ StopStep(w) \/ StopTimeout(w)
  \/ CloseRelease \/ CloseHeap

\* Runnable goroutines run; Insert ends, its calls to Discord being bounded by
\* the HTTP client; a queued poll's expiry passes, so a worker that looks again
\* and again finds a poll due.  Submissions, Close and timeouts need not happen.
Fairness ==
  /\ \A w \in Workers :
       /\ WF_vars(WorkerStep(w)) /\ WF_vars(EndInsert(w)) 
       /\ WF_vars(cpc = "stopping" /\ StopStep(w))
       /\ SF_vars(\E p \in Polls : Take(w, p))
  /\ WF_vars(CloseHeap)

SafeSpec == Init /\ [][Next]_vars
Spec == SafeSpec /\ Fairness
-----------------------------------------------------------------------------
\* A worker waits only while it holds nothing.
TypeOK ==
  /\ queue \subseteq Polls /\ results \subseteq Polls /\ closed \in BOOLEAN
  /\ wpc \in [Workers -> {"unstarted", "loop", "gapEmpty", "gapTop", "busy",
                          "cleanup", "ack", "stopped"} \cup Asleep]
  /\ \A w \in Workers : wpc[w] \in {"gapEmpty", "gapTop"} \cup Asleep => batch[w] = {}
  /\ batch \in [Workers -> SUBSET Polls] /\ insert \in [Workers -> BOOLEAN]
  /\ spc \in [Workers -> {"none", "send", "ack", "push", "done", "timedout"}]
  /\ cpc \in {"none", "stopping", "closed"} /\ torn \in BOOLEAN
  /\ known \subseteq Polls /\ gone \subseteq Polls /\ lost \subseteq Polls

\* What is in the hands of a worker whose Stop has not returned.
Held == UNION {batch[w] : w \in {v \in Workers : spc[v] # "done"}}

\* While the pool runs, while it is stopped and when it is closed, a poll that
\* was ever seated is queued, held, written, gone, or was skipped below a
\* cutoff: neither the other workers nor a Stop in the middle of a batch loses
\* it, and once Close has returned nothing is only in memory.  (Not when a Stop
\* gave up.)
PollsKept == ~torn => known \subseteq queue \cup Held \cup results \cup gone \cup lost

\* Close does not depend on the timeouts of Stop.
CloseEnds == cpc = "stopping" ~> cpc = "closed"

\* A worker asleep on an empty queue does not sleep through a poll as long as
\* another worker is up or asleep on a deadline: that one's take releases it.
TakeWakesSleepers ==
  \A w, v \in Workers :
    (wpc[w] = "sleepEmpty" /\ queue # {} /\ cpc = "none"
       /\ wpc[v] \in {"loop", "busy", "gapTop", "sleepTop"})
    ~> wpc[w] # "sleepEmpty"

\* "release subs if top changes": a poll pushed to an empty queue ends the sleep
\* of every worker that found the queue empty.
PushWakesSleepers ==
  \A w \in Workers :
    (wpc[w] = "sleepEmpty" /\ queue # {}) ~> wpc[w] # "sleepEmpty"
=============================================================================
