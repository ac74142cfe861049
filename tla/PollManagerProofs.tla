------------------------- MODULE PollManagerProofs -------------------------
(***************************************************************************)
(* Proofs about the poll manager.                                          *)
(*                                                                         *)
(* About PollWorkers, for every set of polls and workers and every batch   *)
(* size: type correctness, and that nothing is lost between several        *)
(* workers, their Insert goroutines and a Close that stops them.           *)
(*                                                                         *)
(* About PollPush, for every set of ids, callers and workers: an id        *)
(* occupies the set only for a poll, a poll is seated once, and a poll     *)
(* given back is not lost.                                                 *)
(***************************************************************************)
EXTENDS PollPush, PollWorkers, TLAPS

(***************************************************************************)
(* PollWorkers                                                             *)
(***************************************************************************)
\* How far each Stop has come, seen from both ends.  Unless a Stop gave up, a
\* worker whose Stop returned has ended, and the heap is open while one runs.
StopInv ==
  /\ \A w \in Workers :
       /\ spc[w] = "push" => wpc[w] = "stopped"
       /\ spc[w] = "done" /\ ~torn => wpc[w] = "stopped"
       /\ spc[w] = "timedout" => torn
  /\ closed => \A w \in Workers : spc[w] \in {"done", "timedout"}

IInv == TypeOK /\ StopInv /\ PollsKept

LEMMA PushFacts ==
  ASSUME NEW S, NEW final, Push(S, final)
  PROVE  /\ queue \subseteq queue' /\ queue' \subseteq queue \cup S
         /\ known' \subseteq known \cup queue' /\ known' \subseteq known \cup S
  BY DEF Push

LEMMA PushSeats ==
  ASSUME NEW S, NEW final \in Lookups, Push(S, final), ~closed
  PROVE  S \subseteq queue' \cup results
  BY DEF Push, Lookups

\* Releasing the subscribers moves a sleeping worker to its loop and no other.
LEMMA WakeFacts ==
  ASSUME NEW at, PushWakes(at) \/ wpc' = Released(at), NEW w \in Workers,
         at \in [Workers -> {"unstarted", "loop", "gapEmpty", "gapTop", "busy",
                             "cleanup", "ack", "stopped"} \cup Asleep]
  PROVE  /\ wpc' \in [Workers -> {"unstarted", "loop", "gapEmpty", "gapTop", "busy",
                                  "cleanup", "ack", "stopped"} \cup Asleep]
         /\ wpc'[w] = at[w] \/ (at[w] \in Asleep /\ wpc'[w] = "loop")
         /\ at[w] = "stopped" <=> wpc'[w] = "stopped"
  BY DEF PushWakes, Released, Asleep

\* What TypeOK says of the places after a release that leaves the batches alone.
WakeKept ==
  /\ wpc' \in [Workers -> {"unstarted", "loop", "gapEmpty", "gapTop", "busy",
                           "cleanup", "ack", "stopped"} \cup Asleep]
  /\ \A v \in Workers : wpc'[v] \in {"gapEmpty", "gapTop"} \cup Asleep => batch[v] = {}

LEMMA WakeKeepsType ==
  ASSUME TypeOK, PushWakes(wpc) \/ wpc' = Released(wpc) \/ wpc' = wpc
  PROVE  WakeKept
  BY WakeFacts DEF TypeOK, PushWakes, Released, WakeKept, Asleep
-----------------------------------------------------------------------------
LEMMA InitTypeOK == Init => TypeOK
  BY DEF Init, TypeOK, Asleep

LEMMA NextTypeOK == TypeOK /\ [Next]_vars => TypeOK'
  <1> SUFFICES ASSUME TypeOK, [Next]_vars PROVE TypeOK'
    OBVIOUS
  <1> USE DEF TypeOK
  <1>1. ASSUME NEW p \in Polls, Submit(p) PROVE TypeOK'
    <2>1. queue' \subseteq Polls /\ known' \subseteq Polls
      BY <1>1, PushFacts DEF Submit
    <2>2. PushWakes(wpc)
      BY <1>1 DEF Submit
    <2>3. WakeKept
      BY <2>2, WakeKeepsType
    <2> QED
      BY <1>1, <2>1, <2>3 DEF Submit, stopVars, WakeKept
  <1>2. ASSUME NEW w \in Workers, WorkerStep(w) PROVE TypeOK'
    <2>1. CASE StartLoop(w)
      BY <2>1 DEF StartLoop, Goto, queueVars, stopVars, history, Asleep
    <2>2. CASE FindEmpty(w) \/ FindNotDue(w)
      BY <2>2 DEF FindEmpty, FindNotDue, Goto, queueVars, stopVars, history, Asleep
    <2>3. CASE FallAsleep(w)
      BY <2>3 DEF FallAsleep, Goto, queueVars, stopVars, history, Asleep
    <2>4. CASE DeadlineWakes(w)
      BY <2>4 DEF DeadlineWakes, Goto, queueVars, stopVars, history, Asleep
    <2>5. CASE StartInsert(w)
      BY <2>5 DEF StartInsert, Goto, queueVars, stopVars, history, Asleep
    <2>6. CASE Finish(w)
      <3>1. PICK Q \in SUBSET batch[w], L \in SUBSET batch[w], final \in Lookups :
              Push(Q, final) /\ lost' = lost \cup L
        BY <2>6 DEF Finish
      <3>2. queue' \subseteq Polls /\ known' \subseteq Polls /\ lost' \subseteq Polls
        BY <3>1, PushFacts
      <3>3. PushWakes(Goto(w, "loop")) /\ Goto(w, "loop") \in [Workers ->
              {"unstarted", "loop", "gapEmpty", "gapTop", "busy",
               "cleanup", "ack", "stopped"} \cup Asleep]
        BY <2>6 DEF Finish, Goto
      <3>4. \A v \in Workers : wpc'[v] = Goto(w, "loop")[v] \/ wpc'[v] = "loop"
        BY <3>3, WakeFacts
      <3>5. wpc' \in [Workers -> {"unstarted", "loop", "gapEmpty", "gapTop", "busy",
                                  "cleanup", "ack", "stopped"} \cup Asleep]
        BY <3>3, WakeFacts
      <3>6. batch' = [batch EXCEPT ![w] = {}]
        BY <2>6 DEF Finish
      <3>7. \A v \in Workers : wpc'[v] \in {"gapEmpty", "gapTop"} \cup Asleep => batch'[v] = {}
        BY <3>4, <3>6 DEF Goto, Asleep
      <3> QED
        BY <2>6, <3>2, <3>5, <3>6, <3>7 DEF Finish, stopVars
    <2>7. CASE Cleanup(w)
      <3>1. PICK Q \in SUBSET batch[w], final \in Lookups : Push(Q, final)
        BY <2>7 DEF Cleanup
      <3>2. queue' \subseteq Polls /\ known' \subseteq Polls
        BY <3>1, PushFacts
      <3>3. PushWakes(Goto(w, "ack")) /\ Goto(w, "ack") \in [Workers ->
              {"unstarted", "loop", "gapEmpty", "gapTop", "busy",
               "cleanup", "ack", "stopped"} \cup Asleep]
        BY <2>7 DEF Cleanup, Goto
      <3>4. \A v \in Workers : wpc'[v] = Goto(w, "ack")[v] \/ wpc'[v] = "loop"
        BY <3>3, WakeFacts
      <3>5. wpc' \in [Workers -> {"unstarted", "loop", "gapEmpty", "gapTop", "busy",
                                  "cleanup", "ack", "stopped"} \cup Asleep]
        BY <3>3, WakeFacts
      <3>6. \A v \in Workers : wpc'[v] \in {"gapEmpty", "gapTop"} \cup Asleep => batch[v] = {}
        BY <3>4 DEF Goto, Asleep
      <3> QED
        BY <2>7, <3>2, <3>5, <3>6 DEF Cleanup, stopVars
    <2>8. ASSUME NEW p \in Polls, Take(w, p) PROVE TypeOK'
      <3>1. wpc' \in [Workers -> {"unstarted", "loop", "gapEmpty", "gapTop", "busy",
                                  "cleanup", "ack", "stopped"} \cup Asleep]
        BY <2>8, WakeFacts DEF Take
      <3>2. \A v \in Workers : wpc'[v] = wpc[v] \/ wpc'[v] = "loop"
        BY <2>8, WakeFacts DEF Take
      <3>3. \A v \in Workers : wpc'[v] \in {"gapEmpty", "gapTop"} \cup Asleep => batch'[v] = {}
        BY <2>8, <3>2 DEF Take, Asleep
      <3> QED
        BY <2>8, <3>1, <3>3 DEF Take, stopVars, history
    <2> QED
      BY <1>2, <2>1, <2>2, <2>3, <2>4, <2>5, <2>6, <2>7, <2>8 DEF WorkerStep
  <1>3. ASSUME NEW w \in Workers, InsertStep(w) PROVE TypeOK'
    <2>1. CASE EndInsert(w)
      BY <2>1 DEF EndInsert, stopVars, history
    <2>2. ASSUME NEW p \in Polls, Retry(w, p) PROVE TypeOK'
      <3>1. queue' \subseteq Polls /\ known' \subseteq Polls
        BY <2>2, PushFacts DEF Retry
      <3>2. PushWakes(wpc)
        BY <2>2 DEF Retry
      <3>3. WakeKept
        BY <3>2, WakeKeepsType
      <3> QED
        BY <2>2, <3>1, <3>3 DEF Retry, stopVars, WakeKept
    <2>3. ASSUME NEW p \in Polls, Drop(w, p) PROVE TypeOK'
      BY <2>3 DEF Drop, queueVars, workerVars, stopVars
    <2> QED
      BY <1>3, <2>1, <2>2, <2>3 DEF InsertStep
  <1>4. ASSUME NEW w \in Workers, StopStep(w) PROVE TypeOK'
    <2>1. CASE StopCall(w)
      <3>1. wpc' = wpc \/ wpc' = Released(wpc)
        BY <2>1 DEF StopCall
      <3>2. wpc' \in [Workers -> {"unstarted", "loop", "gapEmpty", "gapTop", "busy",
                                  "cleanup", "ack", "stopped"} \cup Asleep]
        BY <3>1, WakeFacts
      <3>3. \A v \in Workers : wpc'[v] = wpc[v] \/ wpc'[v] = "loop"
        BY <3>1, WakeFacts
      <3>4. \A v \in Workers : wpc'[v] \in {"gapEmpty", "gapTop"} \cup Asleep => batch[v] = {}
        BY <3>3 DEF Asleep
      <3>5. /\ spc' \in [Workers -> {"none", "send", "ack", "push", "done", "timedout"}]
            /\ torn' \in BOOLEAN /\ cpc' = "stopping"
            /\ UNCHANGED <<queue, results, closed, batch, insert, known, gone, lost>>
        BY <2>1 DEF StopCall, queueVars, history
      <3> QED
        BY <3>2, <3>4, <3>5
    <2>2. CASE SeeHalt(w)
      BY <2>2 DEF SeeHalt, Goto, queueVars, history, Asleep
    <2>3. CASE Acknowledge(w)
      BY <2>3 DEF Acknowledge, Goto, queueVars, history, Asleep
    <2>4. CASE StopPush(w)
      <3>1. queue' \subseteq Polls /\ known' \subseteq Polls
        BY <2>4, PushFacts DEF StopPush
      <3>2. PushWakes(wpc)
        BY <2>4 DEF StopPush
      <3>3. WakeKept
        BY <3>2, WakeKeepsType
      <3> QED
        BY <2>4, <3>1, <3>3 DEF StopPush, WakeKept
    <2> QED
      BY <1>4, <2>1, <2>2, <2>3, <2>4 DEF StopStep
  <1>5. ASSUME NEW w \in Workers, StopTimeout(w) PROVE TypeOK'
    BY <1>5 DEF StopTimeout, queueVars, workerVars, history
  <1>6. CASE CloseRelease
    <2>1. WakeKept
      BY <1>6, WakeKeepsType DEF CloseRelease
    <2> QED
      BY <1>6, <2>1 DEF CloseRelease, queueVars, history, WakeKept
  <1>7. CASE CloseHeap
    BY <1>7 DEF CloseHeap, workerVars, history
  <1>8. CASE UNCHANGED vars
    BY <1>8 DEF vars, queueVars, workerVars, stopVars, history
  <1> QED
    BY <1>1, <1>2, <1>3, <1>4, <1>5, <1>6, <1>7, <1>8 DEF Next
-----------------------------------------------------------------------------
\* A place change keeps StopInv if no stopped worker moves.
LEMMA StopInvKept ==
  ASSUME StopInv, UNCHANGED <<spc, torn, closed>>,
         \A v \in Workers : wpc[v] = "stopped" => wpc'[v] = "stopped"
  PROVE  StopInv'
  BY DEF StopInv

LEMMA NextStop == TypeOK /\ StopInv /\ [Next]_vars => StopInv'
  <1> SUFFICES ASSUME TypeOK, StopInv, [Next]_vars PROVE StopInv'
    OBVIOUS
  <1>a. ASSUME NEW at, PushWakes(at) \/ wpc' = Released(at),
               at \in [Workers -> {"unstarted", "loop", "gapEmpty", "gapTop", "busy",
                                   "cleanup", "ack", "stopped"} \cup Asleep],
               \A v \in Workers : wpc[v] = "stopped" => at[v] = "stopped"
        PROVE  \A v \in Workers : wpc[v] = "stopped" => wpc'[v] = "stopped"
    BY <1>a, WakeFacts
  <1>1. ASSUME NEW p \in Polls, Submit(p) PROVE StopInv'
    BY <1>1, <1>a, StopInvKept DEF Submit, stopVars, TypeOK
  <1>2. ASSUME NEW w \in Workers, WorkerStep(w) PROVE StopInv'
    <2>1. CASE StartLoop(w) \/ FindEmpty(w) \/ FindNotDue(w) \/ FallAsleep(w)
                 \/ DeadlineWakes(w) \/ StartInsert(w)
      <3>1. \A v \in Workers : wpc[v] = "stopped" => wpc'[v] = "stopped"
        BY <2>1 DEF StartLoop, FindEmpty, FindNotDue, FallAsleep, DeadlineWakes,
                    StartInsert, Goto, TypeOK
      <3>2. UNCHANGED <<spc, torn, closed>>
        BY <2>1 DEF StartLoop, FindEmpty, FindNotDue, FallAsleep, DeadlineWakes,
                    StartInsert, stopVars, queueVars
      <3> QED
        BY <3>1, <3>2, StopInvKept
    <2>2. CASE Finish(w)
      <3>1. \A v \in Workers : wpc[v] = "stopped" => Goto(w, "loop")[v] = "stopped"
        BY <2>2 DEF Finish, Goto, TypeOK
      <3>2. Goto(w, "loop") \in [Workers -> {"unstarted", "loop", "gapEmpty", "gapTop",
                                 "busy", "cleanup", "ack", "stopped"} \cup Asleep]
        BY DEF Goto, TypeOK
      <3>3. PushWakes(Goto(w, "loop"))
        BY <2>2 DEF Finish
      <3>4. UNCHANGED <<spc, torn, closed>>
        BY <2>2 DEF Finish, stopVars
      <3>5. \A v \in Workers : wpc[v] = "stopped" => wpc'[v] = "stopped"
        BY <1>a, <3>1, <3>2, <3>3
      <3> QED
        BY <3>4, <3>5, StopInvKept
    <2>3. CASE Cleanup(w)
      <3>1. \A v \in Workers : wpc[v] = "stopped" => Goto(w, "ack")[v] = "stopped"
        BY <2>3 DEF Cleanup, Goto, TypeOK
      <3>2. Goto(w, "ack") \in [Workers -> {"unstarted", "loop", "gapEmpty", "gapTop",
                                "busy", "cleanup", "ack", "stopped"} \cup Asleep]
        BY DEF Goto, TypeOK
      <3>3. PushWakes(Goto(w, "ack"))
        BY <2>3 DEF Cleanup
      <3>4. UNCHANGED <<spc, torn, closed>>
        BY <2>3 DEF Cleanup, stopVars
      <3>5. \A v \in Workers : wpc[v] = "stopped" => wpc'[v] = "stopped"
        BY <1>a, <3>1, <3>2, <3>3
      <3> QED
        BY <3>4, <3>5, StopInvKept
    <2>4. ASSUME NEW p \in Polls, Take(w, p) PROVE StopInv'
      BY <2>4, <1>a, StopInvKept DEF Take, stopVars, TypeOK
    <2> QED
      BY <1>2, <2>1, <2>2, <2>3, <2>4 DEF WorkerStep
  <1>3. ASSUME NEW w \in Workers, InsertStep(w) PROVE StopInv'
    <2>1. CASE EndInsert(w)
      BY <2>1, StopInvKept DEF EndInsert, stopVars
    <2>2. ASSUME NEW p \in Polls, Retry(w, p) PROVE StopInv'
      BY <2>2, <1>a, StopInvKept DEF Retry, stopVars, TypeOK
    <2>3. ASSUME NEW p \in Polls, Drop(w, p) PROVE StopInv'
      BY <2>3, StopInvKept DEF Drop, queueVars, workerVars, stopVars
    <2> QED
      BY <1>3, <2>1, <2>2, <2>3 DEF InsertStep
  <1>4. ASSUME NEW w \in Workers, StopStep(w) PROVE StopInv'
    <2>1. CASE StopCall(w)
      <3>1. CASE wpc[w] = "unstarted"
        BY <2>1, <3>1 DEF StopCall, StopInv, TypeOK, queueVars
      <3>2. CASE wpc[w] # "unstarted"
        <4>1. \A v \in Workers : wpc[v] = "stopped" => wpc'[v] = "stopped"
          BY <2>1, <3>2, <1>a DEF StopCall, TypeOK
        <4>2. spc' = [spc EXCEPT ![w] = "send"] /\ UNCHANGED <<torn, closed>> /\ spc[w] = "none"
          BY <2>1, <3>2 DEF StopCall, queueVars
        <4> QED
          BY <4>1, <4>2 DEF StopInv, TypeOK
      <3> QED
        BY <3>1, <3>2
    <2>2. CASE SeeHalt(w)
      <3>1. wpc[w] # "stopped"
        BY <2>2 DEF SeeHalt, Asleep
      <3> QED
        BY <2>2, <3>1 DEF SeeHalt, StopInv, TypeOK, Goto, queueVars
    <2>3. CASE Acknowledge(w)
      BY <2>3 DEF Acknowledge, StopInv, TypeOK, Goto, queueVars
    <2>4. CASE StopPush(w)
      <3>1. \A v \in Workers : wpc[v] = "stopped" => wpc'[v] = "stopped"
        BY <2>4, <1>a DEF StopPush, TypeOK
      <3> QED
        BY <2>4, <3>1 DEF StopPush, StopInv, TypeOK
    <2> QED
      BY <1>4, <2>1, <2>2, <2>3, <2>4 DEF StopStep
  <1>5. ASSUME NEW w \in Workers, StopTimeout(w) PROVE StopInv'
    BY <1>5 DEF StopTimeout, StopInv, TypeOK, queueVars, workerVars
  <1>6. CASE CloseRelease
    <2>1. \A v \in Workers : wpc[v] = "stopped" => wpc'[v] = "stopped"
      BY <1>6, <1>a DEF CloseRelease, TypeOK
    <2> QED
      BY <1>6, <2>1, StopInvKept DEF CloseRelease, queueVars
  <1>7. CASE CloseHeap
    BY <1>7 DEF CloseHeap, StopInv, workerVars
  <1>8. CASE UNCHANGED vars
    BY <1>8, StopInvKept DEF vars, queueVars, workerVars, stopVars
  <1> QED
    BY <1>1, <1>2, <1>3, <1>4, <1>5, <1>6, <1>7, <1>8 DEF Next
-----------------------------------------------------------------------------
(***************************************************************************)
(* PollsKept: a step that only moves polls between the places it names.    *)
(***************************************************************************)
LEMMA KeptStep ==
  ASSUME PollsKept, ~torn' => ~torn,
         ~torn' => queue \subseteq queue' \cup Held',
         results \subseteq results', gone \subseteq gone', lost \subseteq lost',
         known' \subseteq known \cup queue',
         ~torn' => Held \subseteq queue' \cup Held' \cup results' \cup gone' \cup lost'
  PROVE  PollsKept'
  BY DEF PollsKept

LEMMA HeldSame ==
  ASSUME UNCHANGED batch, \A w \in Workers : spc'[w] = "done" <=> spc[w] = "done"
  PROVE  Held' = Held
  BY DEF Held

LEMMA NextKept == TypeOK /\ StopInv /\ PollsKept /\ [Next]_vars => PollsKept'
  <1> SUFFICES ASSUME TypeOK, StopInv, PollsKept, [Next]_vars PROVE PollsKept'
    OBVIOUS
  <1>1. ASSUME NEW p \in Polls, Submit(p) PROVE PollsKept'
    <2>1. queue \subseteq queue' /\ known' \subseteq known \cup queue'
      BY <1>1, PushFacts DEF Submit
    <2>2. Held' = Held
      BY <1>1, HeldSame DEF Submit, stopVars
    <2> QED
      BY <1>1, <2>1, <2>2, KeptStep DEF Submit, stopVars
  <1>2. ASSUME NEW w \in Workers, WorkerStep(w) PROVE PollsKept'
    <2>1. CASE StartLoop(w) \/ FindEmpty(w) \/ FindNotDue(w) \/ FallAsleep(w)
                 \/ DeadlineWakes(w) \/ StartInsert(w)
      BY <2>1 DEF StartLoop, FindEmpty, FindNotDue, FallAsleep, DeadlineWakes,
                  StartInsert, queueVars, stopVars, history, PollsKept, Held
    <2>2. CASE Finish(w)
      <3> SUFFICES ASSUME ~torn PROVE PollsKept'
        BY <2>2 DEF Finish, stopVars, PollsKept
      <3>1. PICK Q \in SUBSET batch[w], L \in SUBSET batch[w] :
              /\ closed \/ batch[w] \subseteq Q \cup L \cup queue \cup results \cup gone
              /\ \E final \in Lookups : Push(Q, final)
              /\ lost' = lost \cup L
        BY <2>2 DEF Finish
      <3>2. ~closed
        BY <2>2 DEF Finish, StopInv
      <3>3. PICK final \in Lookups : Push(Q, final)
        BY <3>1
      <3>4. /\ queue \subseteq queue' /\ known' \subseteq known \cup queue'
            /\ Q \subseteq queue' \cup results
        BY <3>2, <3>3, PushFacts, PushSeats
      <3>5. Held \subseteq Held' \cup batch[w]
        BY <2>2 DEF Finish, Held, TypeOK, stopVars
      <3>6. Held \subseteq queue' \cup Held' \cup results \cup gone \cup lost'
        BY <3>1, <3>2, <3>4, <3>5
      <3> QED
        BY <2>2, <3>1, <3>4, <3>6, KeptStep DEF Finish
    <2>3. CASE Cleanup(w)
      <3>1. queue \subseteq queue' /\ known' \subseteq known \cup queue'
        BY <2>3, PushFacts DEF Cleanup
      <3>2. Held' = Held
        BY <2>3, HeldSame DEF Cleanup, stopVars
      <3> QED
        BY <2>3, <3>1, <3>2, KeptStep DEF Cleanup, stopVars
    <2>4. ASSUME NEW p \in Polls, Take(w, p) PROVE PollsKept'
      <3>1. ~torn => spc[w] # "done"
        BY <2>4 DEF Take, StopInv
      <3>2. Held \subseteq Held' /\ (~torn => p \in Held')
        BY <2>4, <3>1 DEF Take, Held, TypeOK, stopVars
      <3>3. ~torn => queue \subseteq queue' \cup Held'
        BY <2>4, <3>2 DEF Take
      <3> QED
        BY <2>4, <3>2, <3>3, KeptStep DEF Take, stopVars, history
    <2> QED
      BY <1>2, <2>1, <2>2, <2>3, <2>4 DEF WorkerStep
  <1>3. ASSUME NEW w \in Workers, InsertStep(w) PROVE PollsKept'
    <2>1. CASE EndInsert(w)
      BY <2>1, HeldSame, KeptStep DEF EndInsert, stopVars, history
    <2>2. ASSUME NEW p \in Polls, Retry(w, p) PROVE PollsKept'
      <3>1. queue \subseteq queue' /\ known' \subseteq known \cup queue'
        BY <2>2, PushFacts DEF Retry
      <3>2. Held' = Held
        BY <2>2, HeldSame DEF Retry, stopVars
      <3> QED
        BY <2>2, <3>1, <3>2, KeptStep DEF Retry, stopVars
    <2>3. ASSUME NEW p \in Polls, Drop(w, p) PROVE PollsKept'
      BY <2>3, HeldSame, KeptStep DEF Drop, queueVars, workerVars, stopVars
    <2> QED
      BY <1>3, <2>1, <2>2, <2>3 DEF InsertStep
  <1>4. ASSUME NEW w \in Workers, StopStep(w) PROVE PollsKept'
    <2>1. CASE StopCall(w)
      <3> SUFFICES ASSUME ~torn' PROVE PollsKept'
        BY DEF PollsKept
      <3>1. spc' = [spc EXCEPT ![w] = "send"] /\ spc[w] = "none" /\ ~torn
        BY <2>1 DEF StopCall
      <3>2. UNCHANGED <<queue, results, closed, batch, insert, known, gone, lost>>
        BY <2>1 DEF StopCall, queueVars, history
      <3>3. Held' = Held
        BY <3>1, <3>2, HeldSame DEF TypeOK
      <3> QED
        BY <3>1, <3>2, <3>3, KeptStep
    <2>2. CASE SeeHalt(w)
      <3>1. Held' = Held
        BY <2>2, HeldSame DEF SeeHalt, TypeOK
      <3> QED
        BY <2>2, <3>1, KeptStep DEF SeeHalt, queueVars, history
    <2>3. CASE Acknowledge(w)
      <3>1. Held' = Held
        BY <2>3, HeldSame DEF Acknowledge, TypeOK
      <3> QED
        BY <2>3, <3>1, KeptStep DEF Acknowledge, queueVars, history
    <2>4. CASE StopPush(w)
      <3>1. ~closed
        BY <2>4 DEF StopPush, StopInv
      <3>2. PICK final \in Lookups : Push(batch[w], final)
        BY <2>4 DEF StopPush
      <3>3. /\ queue \subseteq queue' /\ known' \subseteq known \cup queue'
            /\ batch[w] \subseteq queue' \cup results
        BY <3>1, <3>2, PushFacts, PushSeats
      <3>4. Held \subseteq Held' \cup batch[w]
        BY <2>4 DEF StopPush, Held, TypeOK
      <3> QED
        BY <2>4, <3>3, <3>4, KeptStep DEF StopPush
    <2> QED
      BY <1>4, <2>1, <2>2, <2>3, <2>4 DEF StopStep
  <1>5. ASSUME NEW w \in Workers, StopTimeout(w) PROVE PollsKept'
    BY <1>5 DEF StopTimeout, PollsKept
  <1>6. CASE CloseRelease
    BY <1>6, HeldSame, KeptStep DEF CloseRelease, queueVars, history
  <1>7. CASE CloseHeap
    BY <1>7, HeldSame, KeptStep DEF CloseHeap, workerVars, history
  <1>8. CASE UNCHANGED vars
    BY <1>8, HeldSame, KeptStep DEF vars, queueVars, workerVars, stopVars, history
  <1> QED
    BY <1>1, <1>2, <1>3, <1>4, <1>5, <1>6, <1>7, <1>8 DEF Next
-----------------------------------------------------------------------------
\* The inductive invariant holds of every behaviour of the pool, whatever the
\* number of workers, because of what Stop and Close do in which order.
THEOREM PoolInvariant == SafeSpec => []IInv
  <1>1. Init => IInv
    BY InitTypeOK DEF Init, IInv, StopInv, PollsKept
  <1>2. IInv /\ [Next]_vars => IInv'
    BY NextTypeOK, NextStop, NextKept DEF IInv
  <1> QED
    BY <1>1, <1>2, PTL DEF SafeSpec

\* Every worker that waits, in waitForPoll or on its way there, has an empty
\* batch; and the state keeps its types.
THEOREM PoolTypeCorrect == Spec => []TypeOK
  <1>1. IInv => TypeOK
    BY DEF IInv
  <1> QED
    BY <1>1, PoolInvariant, PTL DEF Spec

\* No poll that was seated is lost between the workers, their Insert goroutines
\* and a Close in the middle of their batches, for any number of workers and
\* polls and any batch size, except those Insert skips.
THEOREM PoolKeepsPolls == Spec => []PollsKept
  <1>1. IInv => PollsKept
    BY DEF IInv
  <1> QED
    BY <1>1, PoolInvariant, PTL DEF Spec
-----------------------------------------------------------------------------
(***************************************************************************)
(* PollPush                                                                *)
(***************************************************************************)
\* One step of Next, by its actor.
Step ==
  \/ \E c \in Procs : PushStep(c)
  \/ \E c \in Callers, S \in SUBSET Ids : CommandPush(c, S)
  \/ \E w \in Takers : TakerStep(w)
  \/ CleanStep
  \/ UNCHANGED pushVars

LEMMA NextIsStep == [PushNext]_pushVars <=> Step
  BY DEF PushNext, Step

LEMMA PushInitIInv == PushInit => PushIInv
  <1> SUFFICES ASSUME PushInit PROVE PushIInv
    OBVIOUS
  <1>1. PushTypeOK
    <2>1. copies \in [Ids -> 0 .. MaxCopies]
      BY CopiesAssumption DEF PushInit
    <2>2. /\ cur \in [Procs -> AtMostOne] /\ held \in [Procs -> AtMostOne]
          /\ todo \in [Procs -> SUBSET Ids] /\ pruned \in [Procs -> SUBSET Ids]
      BY DEF PushInit, AtMostOne
    <2>3. pc \in [Procs -> {"idle", "has", "insert", "lookup", "undo",
                             "took", "held", "retried"}]
      BY DEF PushInit
    <2> QED
      BY <2>1, <2>2, <2>3, LoadedAssumption DEF PushInit, PushTypeOK
  <1>2. PlaceInv
    BY DEF PushInit, PlaceInv
  <1>3. NoOrphan /\ NoTwin
    BY LoadedAssumption DEF PushInit, NoOrphan, NoTwin, Single, Owns, Queued
  <1>4. (stale \cup stranded) \cap due = {} /\ PushKeepsPolls
    <2>1. ASSUME NEW p \in Loaded PROVE p \in Ids /\ copies[p] > 0
      <3>1. p \in Ids
        BY LoadedAssumption
      <3>2. copies[p] = 1
        BY <3>1 DEF PushInit
      <3> QED
        BY <3>1, <3>2
    <2> QED
      BY <2>1 DEF PushInit, PushKeepsPolls, Queued
  <1> QED
    BY <1>1, <1>2, <1>3, <1>4 DEF PushIInv
-----------------------------------------------------------------------------
LEMMA PushNextTypeOK == PushTypeOK /\ [PushNext]_pushVars => PushTypeOK'
  <1> SUFFICES ASSUME PushTypeOK, [PushNext]_pushVars PROVE PushTypeOK'
    OBVIOUS
  <1> USE DEF PushTypeOK, MoveTo, heapVars, localVars, pushHistory, AtMostOne
  <1>1. ASSUME NEW c \in Procs, PushStep(c) PROVE PushTypeOK'
    <2>1. ASSUME NEW p \in Ids, Has(c, p) PROVE PushTypeOK'
      BY <2>1 DEF Has
    <2>2. CASE TryInsert(c)
      <3>1. cur[c] \subseteq Ids
        OBVIOUS
      <3> QED
        BY <2>2, <3>1 DEF TryInsert
    <2>3. CASE HasFinalized(c)
      BY <2>3 DEF HasFinalized
    <2>4. CASE NotFinalized(c)
      <3>1. cur[c] \subseteq Ids
        OBVIOUS
      <3> QED
        BY <2>4, <3>1 DEF NotFinalized
    <2>5. CASE UndoInsert(c)
      BY <2>5 DEF UndoInsert
    <2>6. CASE Merge(c)
      <3>1. copies' \in [Ids -> 0 .. MaxCopies]
        BY <2>6, CopiesAssumption DEF Merge
      <3>2. pc' \in [Procs -> {"idle", "has", "insert", "lookup", "undo",
                                "took", "held", "retried"}]
        BY <2>6 DEF Merge, Return
      <3> QED
        BY <2>6, <3>1, <3>2 DEF Merge
    <2> QED
      BY <1>1, <2>1, <2>2, <2>3, <2>4, <2>5, <2>6 DEF PushStep
  <1>2. ASSUME NEW c \in Callers, NEW S \in SUBSET Ids, CommandPush(c, S) PROVE PushTypeOK'
    BY <1>2 DEF CommandPush, Enter, Procs
  <1>3. ASSUME NEW w \in Takers, TakerStep(w) PROVE PushTypeOK'
    <2>0. w \in Procs
      BY DEF Procs
    <2>1. ASSUME NEW p \in Ids, TryTake(w, p) PROVE PushTypeOK'
      BY <2>0, <2>1, CopiesAssumption DEF TryTake
    <2>2. CASE RemoveTaken(w)
      BY <2>0, <2>2 DEF RemoveTaken
    <2>3. CASE Write(w) \/ DropHeld(w) \/ Forget(w)
      <3>1. held[w] \subseteq Ids
        BY <2>0
      <3> QED
        BY <2>0, <2>3, <3>1 DEF Write, DropHeld, Forget
    <2>4. CASE PushAgain(w) \/ GiveBack(w)
      <3>1. held[w] \subseteq Ids
        BY <2>0
      <3> QED
        BY <2>0, <2>4, <3>1 DEF PushAgain, GiveBack, Enter
    <2> QED
      BY <1>3, <2>1, <2>2, <2>3, <2>4 DEF TakerStep
  <1>4. CASE CleanStep
    <2>1. CASE CleanLock \/ CleanUnlock
      BY <2>1 DEF CleanLock, CleanUnlock
    <2>2. ASSUME NEW S \in SUBSET Ids, CleanDrop(S) \/ CleanFails(S) PROVE PushTypeOK'
      <3>1. copies' = [p \in Ids |-> IF p \in S THEN 0 ELSE copies[p]]
        BY <2>2 DEF CleanDrop, CleanFails
      <3>2. copies' \in [Ids -> 0 .. MaxCopies]
        BY <3>1, CopiesAssumption
      <3>3. CASE CleanDrop(S)
        BY <3>2, <3>3 DEF CleanDrop
      <3>4. CASE CleanFails(S)
        BY <3>2, <3>4 DEF CleanFails
      <3> QED
        BY <2>2, <3>3, <3>4
    <2>3. ASSUME NEW p \in Ids, CleanSet(p) PROVE PushTypeOK'
      BY <2>3 DEF CleanSet
    <2> QED
      BY <1>4, <2>1, <2>2, <2>3 DEF CleanStep
  <1>5. CASE UNCHANGED pushVars
    BY <1>5 DEF pushVars
  <1> QED
    BY <1>1, <1>2, <1>3, <1>4, <1>5, NextIsStep DEF Step
-----------------------------------------------------------------------------
\* The places: only the step's own goroutine changes its place and its hands,
\* and the results only grow.
LEMMA PlaceKept ==
  ASSUME PushTypeOK, PlaceInv, UNCHANGED <<pc, todo, pruned, cur, held>>, rows \subseteq rows'
  PROVE  PlaceInv'
  BY DEF PlaceInv

LEMMA NextPlace == PushTypeOK /\ PlaceInv /\ [PushNext]_pushVars => PlaceInv'
  <1> SUFFICES ASSUME PushTypeOK, PlaceInv, [PushNext]_pushVars PROVE PlaceInv'
    OBVIOUS
  <1> USE DEF PlaceInv, MoveTo, heapVars, localVars, pushHistory
  <1>1. ASSUME NEW c \in Procs, PushStep(c) PROVE PlaceInv'
    <2>1. ASSUME NEW p \in Ids, Has(c, p) PROVE PlaceInv'
      BY <2>1 DEF Has, PushTypeOK
    <2>2. CASE TryInsert(c)
      BY <2>2 DEF TryInsert, PushTypeOK
    <2>3. CASE HasFinalized(c)
      BY <2>3 DEF HasFinalized, PushTypeOK
    <2>4. CASE NotFinalized(c)
      BY <2>4 DEF NotFinalized, PushTypeOK
    <2>5. CASE UndoInsert(c)
      BY <2>5 DEF UndoInsert, PushTypeOK
    <2>6. CASE Merge(c)
      BY <2>6 DEF Merge, Return, PushTypeOK
    <2> QED
      BY <1>1, <2>1, <2>2, <2>3, <2>4, <2>5, <2>6 DEF PushStep
  <1>2. ASSUME NEW c \in Callers, NEW S \in SUBSET Ids, CommandPush(c, S) PROVE PlaceInv'
    BY <1>2 DEF CommandPush, Enter, Procs, PushTypeOK
  <1>3. ASSUME NEW w \in Takers, TakerStep(w) PROVE PlaceInv'
    <2>0. w \in Procs
      BY DEF Procs
    <2>1. ASSUME NEW p \in Ids, TryTake(w, p) PROVE PlaceInv'
      BY <2>0, <2>1 DEF TryTake, PushTypeOK
    <2>2. CASE RemoveTaken(w)
      BY <2>0, <2>2 DEF RemoveTaken, PushTypeOK
    <2>3. CASE Write(w) \/ DropHeld(w) \/ Forget(w)
      BY <2>0, <2>3 DEF Write, DropHeld, Forget, PushTypeOK
    <2>4. CASE PushAgain(w) \/ GiveBack(w)
      BY <2>0, <2>4 DEF PushAgain, GiveBack, Enter, PushTypeOK
    <2> QED
      BY <1>3, <2>1, <2>2, <2>3, <2>4 DEF TakerStep
  <1>4. CASE CleanStep
    BY <1>4, PlaceKept DEF CleanStep, CleanLock, CleanUnlock, CleanDrop, CleanFails, CleanSet
  <1>5. CASE UNCHANGED pushVars
    BY <1>5, PlaceKept DEF pushVars
  <1> QED
    BY <1>1, <1>2, <1>3, <1>4, <1>5, NextIsStep DEF Step
-----------------------------------------------------------------------------
(***************************************************************************)
(* Who owns an id.  A step of one goroutine leaves the others' ids alone.  *)
(***************************************************************************)
LEMMA OwnsLocal ==
  ASSUME NEW d, NEW p, pc'[d] = pc[d], cur'[d] = cur[d],
         pruned'[d] = pruned[d], held'[d] = held[d]
  PROVE  Owns(d, p)' <=> Owns(d, p)
  BY DEF Owns

\* The step of a goroutine, as the other goroutines see it.
Alone(c) ==
  \A d \in Procs \ {c} : /\ pc'[d] = pc[d] /\ cur'[d] = cur[d] /\ todo'[d] = todo[d]
                         /\ pruned'[d] = pruned[d] /\ held'[d] = held[d]

LEMMA StepsAlone ==
  ASSUME PushTypeOK, NEW c \in Procs,
         \/ PushStep(c)
         \/ \E S \in SUBSET Ids : CommandPush(c, S)
         \/ c \in Takers /\ TakerStep(c)
  PROVE  Alone(c)
  <1> USE DEF Alone, PushTypeOK, MoveTo, heapVars, localVars
  <1>1. CASE PushStep(c)
    BY <1>1 DEF PushStep, Has, TryInsert, HasFinalized, NotFinalized, UndoInsert, Merge, Return
  <1>2. CASE \E S \in SUBSET Ids : CommandPush(c, S)
    BY <1>2 DEF CommandPush, Enter
  <1>3. CASE TakerStep(c)
    BY <1>3 DEF TakerStep, TryTake, RemoveTaken, Write, DropHeld, PushAgain, Forget, GiveBack, Enter
  <1> QED
    BY <1>1, <1>2, <1>3

\* What an id is owned by after each kind of step of c.
LEMMA OwnedAfter ==
  ASSUME PushTypeOK, PlaceInv, NEW c \in Procs, NEW p \in Ids
  PROVE  /\ \A q \in Ids : Has(c, q) => (Owns(c, p)' <=> Owns(c, p))
         /\ TryInsert(c) => (Owns(c, p)' <=> p \in cur[c] \/ Owns(c, p))
         /\ HasFinalized(c) \/ NotFinalized(c) => (Owns(c, p)' <=> Owns(c, p))
         /\ UndoInsert(c) => /\ Owns(c, p) <=> p \in cur[c] \cup pruned[c]
                             /\ Owns(c, p)' <=> p \in pruned[c]
         /\ Merge(c) => ~Owns(c, p)' /\ (Owns(c, p) <=> p \in pruned[c])
         /\ \A S : CommandPush(c, S) => ~Owns(c, p) /\ ~Owns(c, p)'
         /\ \A q \in Ids : TryTake(c, q) => ~Owns(c, p) /\ (Owns(c, p)' <=> p = q)
         /\ RemoveTaken(c) => ~Owns(c, p)' /\ (Owns(c, p) <=> p \in held[c])
         /\ Write(c) \/ DropHeld(c) \/ Forget(c) \/ PushAgain(c) \/ GiveBack(c)
              => ~Owns(c, p) /\ ~Owns(c, p)'
  <1> USE DEF Owns, PushTypeOK, PlaceInv, MoveTo, localVars
  <1>1. \A q \in Ids : Has(c, q) => (Owns(c, p)' <=> Owns(c, p))
    BY DEF Has
  <1>2. TryInsert(c) => (Owns(c, p)' <=> p \in cur[c] \/ Owns(c, p))
    BY DEF TryInsert
  <1>3. HasFinalized(c) \/ NotFinalized(c) => (Owns(c, p)' <=> Owns(c, p))
    BY DEF HasFinalized, NotFinalized
  <1>4. UndoInsert(c) => /\ Owns(c, p) <=> p \in cur[c] \cup pruned[c]
                         /\ Owns(c, p)' <=> p \in pruned[c]
    BY DEF UndoInsert
  <1>5. Merge(c) => ~Owns(c, p)' /\ (Owns(c, p) <=> p \in pruned[c])
    BY DEF Merge, Return
  <1>6. \A S : CommandPush(c, S) => ~Owns(c, p) /\ ~Owns(c, p)'
    BY DEF CommandPush, Enter
  <1>7. \A q \in Ids : TryTake(c, q) => ~Owns(c, p) /\ (Owns(c, p)' <=> p = q)
    BY DEF TryTake
  <1>8. RemoveTaken(c) => ~Owns(c, p)' /\ (Owns(c, p) <=> p \in held[c])
    BY DEF RemoveTaken
  <1>9. Write(c) \/ DropHeld(c) \/ Forget(c) \/ PushAgain(c) \/ GiveBack(c)
          => ~Owns(c, p) /\ ~Owns(c, p)'
    BY DEF Write, DropHeld, Forget, PushAgain, GiveBack, Enter
  <1> QED
    BY <1>1, <1>2, <1>3, <1>4, <1>5, <1>6, <1>7, <1>8, <1>9
-----------------------------------------------------------------------------
(***************************************************************************)
(* NoOrphan: whoever gives up an id removes it from the set or seats it.   *)
(***************************************************************************)
\* An id keeps its reason to be in the set if its owners and the queue do.
LEMMA OrphanStep ==
  ASSUME NoOrphan, NEW c \in Procs, Alone(c), stale' = stale,
         \A p \in seen' : p \in seen \/ Owns(c, p)',
         \A p \in seen' : Owns(c, p) => Owns(c, p)' \/ p \in Queued',
         \A p \in seen' : p \in Queued => p \in Queued' \/ Owns(c, p)',
         \A p \in seen' : p \in stranded => p \in stranded' \/ p \in Queued'
  PROVE  NoOrphan'
  <1> SUFFICES ASSUME NEW p \in seen'
               PROVE  p \in Queued' \cup stale' \cup stranded' \/ \E d \in Procs : Owns(d, p)'
    BY DEF NoOrphan
  <1>1. CASE Owns(c, p)'
    BY <1>1
  <1>2. CASE p \in seen
    <2>1. CASE p \in Queued \cup stale \cup stranded \/ Owns(c, p)
      BY <2>1
    <2>2. CASE \E d \in Procs \ {c} : Owns(d, p)
      BY <2>2, OwnsLocal DEF Alone
    <2> QED
      BY <1>2, <2>1, <2>2 DEF NoOrphan
  <1> QED
    BY <1>1, <1>2

LEMMA NextNoOrphan == PushTypeOK /\ PlaceInv /\ NoOrphan /\ [PushNext]_pushVars => NoOrphan'
  <1> SUFFICES ASSUME PushTypeOK, PlaceInv, NoOrphan, [PushNext]_pushVars PROVE NoOrphan'
    OBVIOUS
  <1>a. seen \subseteq Ids
    BY DEF PushTypeOK
  <1>1. ASSUME NEW c \in Procs, PushStep(c) PROVE NoOrphan'
    <2>0. Alone(c)
      BY <1>1, StepsAlone
    <2>1. ASSUME NEW p \in Ids, Has(c, p) PROVE NoOrphan'
      <3>1. UNCHANGED <<copies, seen, stale, stranded>>
        BY <2>1 DEF Has, heapVars, pushHistory
      <3> QED
        BY <1>a, <2>0, <2>1, <3>1, OwnedAfter, OrphanStep DEF Queued
    <2>2. CASE TryInsert(c)
      <3>1. seen' = seen \cup cur[c] /\ UNCHANGED <<copies, stale, stranded>> /\ cur[c] \subseteq Ids
        BY <2>2 DEF TryInsert, PushTypeOK, AtMostOne
      <3> QED
        BY <1>a, <2>0, <2>2, <3>1, OwnedAfter, OrphanStep DEF Queued
    <2>3. CASE HasFinalized(c) \/ NotFinalized(c)
      <3>1. UNCHANGED <<copies, seen, stale, stranded>>
        BY <2>3 DEF HasFinalized, NotFinalized, heapVars, pushHistory
      <3> QED
        BY <1>a, <2>0, <2>3, <3>1, OwnedAfter, OrphanStep DEF Queued
    <2>4. CASE UndoInsert(c)
      <3>1. seen' = seen \ cur[c] /\ stranded' = stranded \ cur[c] /\ UNCHANGED <<copies, stale>>
        BY <2>4 DEF UndoInsert
      <3> QED
        BY <1>a, <2>0, <2>4, <3>1, OwnedAfter, OrphanStep DEF Queued
    <2>5. CASE Merge(c)
      <3>1. UNCHANGED <<seen, stale>> /\ Queued' = Queued \cup (pruned[c] \cap Ids)
            /\ stranded' = stranded \ pruned[c]
        BY <2>5 DEF Merge, Queued, PushTypeOK
      <3> QED
        BY <1>a, <2>0, <2>5, <3>1, OwnedAfter, OrphanStep
    <2> QED
      BY <1>1, <2>1, <2>2, <2>3, <2>4, <2>5 DEF PushStep
  <1>2. ASSUME NEW c \in Callers, NEW S \in SUBSET Ids, CommandPush(c, S) PROVE NoOrphan'
    <2>1. c \in Procs /\ Alone(c)
      BY <1>2, StepsAlone DEF Procs
    <2>2. UNCHANGED <<copies, seen, stale, stranded>>
      BY <1>2 DEF CommandPush, Enter, heapVars, pushHistory
    <2> QED
      BY <1>2, <1>a, <2>1, <2>2, OwnedAfter, OrphanStep DEF Queued
  <1>3. ASSUME NEW w \in Takers, TakerStep(w) PROVE NoOrphan'
    <2>0. w \in Procs /\ Alone(w)
      BY <1>3, StepsAlone DEF Procs
    <2>1. ASSUME NEW p \in Ids, TryTake(w, p) PROVE NoOrphan'
      <3>1. UNCHANGED <<seen, stale, stranded>> /\ Queued \subseteq Queued' \cup {p}
        BY <2>1 DEF TryTake, pushHistory, Queued, PushTypeOK
      <3> QED
        BY <1>a, <2>0, <2>1, <3>1, OwnedAfter, OrphanStep
    <2>2. CASE RemoveTaken(w)
      <3>1. seen' = seen \ held[w] /\ stranded' = stranded \ held[w] /\ UNCHANGED <<copies, stale>>
        BY <2>2 DEF RemoveTaken
      <3> QED
        BY <1>a, <2>0, <2>2, <3>1, OwnedAfter, OrphanStep DEF Queued
    <2>3. CASE Write(w) \/ DropHeld(w) \/ Forget(w) \/ PushAgain(w) \/ GiveBack(w)
      <3>1. UNCHANGED <<copies, seen, stale, stranded>>
        BY <2>3 DEF Write, DropHeld, Forget, PushAgain, GiveBack, Enter, heapVars, pushHistory
      <3> QED
        BY <1>a, <2>0, <2>3, <3>1, OwnedAfter, OrphanStep DEF Queued
    <2> QED
      BY <1>3, <2>1, <2>2, <2>3 DEF TakerStep
  <1>4. CASE CleanStep
    <2>0. CleanStep => \A d \in Procs, p \in Ids : Owns(d, p)' <=> Owns(d, p)
      BY DEF CleanStep, CleanLock, CleanUnlock, CleanDrop, CleanFails, CleanSet, localVars, Owns
    <2>1. CASE CleanLock \/ CleanUnlock
      BY <1>4, <1>a, <2>0, <2>1 DEF CleanLock, CleanUnlock, pushHistory, NoOrphan, Queued
    <2>2. ASSUME NEW S \in SUBSET Ids, CleanDrop(S) PROVE NoOrphan'
      <3>1. Queued \subseteq Queued' \cup S /\ stale' = S /\ stale = {} /\ seen' = seen
            /\ stranded' = stranded
        BY <2>2 DEF CleanDrop, Queued, PushTypeOK
      <3> QED
        BY <1>4, <1>a, <2>0, <3>1 DEF NoOrphan
    <2>3. ASSUME NEW p \in Ids, CleanSet(p) PROVE NoOrphan'
      <3>1. Queued' = Queued /\ stale' = stale \ {p} /\ seen' = seen \ {p}
            /\ stranded' = stranded
        BY <2>3 DEF CleanSet, Queued, pushHistory
      <3> QED
        BY <1>4, <1>a, <2>0, <3>1 DEF NoOrphan
    <2>4. ASSUME NEW S \in SUBSET Ids, CleanFails(S) PROVE NoOrphan'
      <3>1. Queued \subseteq Queued' \cup S /\ stale' = stale /\ seen' = seen
            /\ stranded' = stranded \cup (S \cap seen)
        BY <2>4 DEF CleanFails, Queued, PushTypeOK
      <3> QED
        BY <1>4, <1>a, <2>0, <3>1 DEF NoOrphan
    <2> QED
      BY <1>4, <2>1, <2>2, <2>3, <2>4 DEF CleanStep
  <1>5. CASE UNCHANGED pushVars
    BY <1>5 DEF pushVars, heapVars, localVars, pushHistory, NoOrphan, Queued, Owns
  <1> QED
    BY <1>1, <1>2, <1>3, <1>4, <1>5, NextIsStep DEF Step
-----------------------------------------------------------------------------
(***************************************************************************)
(* NoTwin: as long as nobody races an id into the set, its owner is unique. *)
(***************************************************************************)
\* A step of c that changes nothing about p keeps it single.
LEMMA SingleKept ==
  ASSUME NEW p \in Ids, NEW c \in Procs, Single(p), Alone(c),
         copies'[p] = copies[p], p \in stale' <=> p \in stale,
         p \in seen' <=> p \in seen, Owns(c, p)' <=> Owns(c, p)
  PROVE  Single(p)'
  <1>1. \A d \in Procs : Owns(d, p)' <=> Owns(d, p)
    BY OwnsLocal DEF Alone
  <1>2. p \in Queued' <=> p \in Queued
    BY DEF Queued
  <1> QED
    BY <1>1, <1>2 DEF Single

LEMMA NextNoTwin == PushTypeOK /\ PlaceInv /\ NoTwin /\ [PushNext]_pushVars => NoTwin'
  <1> SUFFICES ASSUME PushTypeOK, PlaceInv, NoTwin, [PushNext]_pushVars,
                      NEW p \in Ids, p \notin tainted'
               PROVE  Single(p)'
    BY DEF NoTwin
  <1>a. tainted \subseteq tainted'
    <2>1. UNCHANGED tainted \/ \E c \in Procs : TryInsert(c)
      BY NextIsStep DEF Step, PushStep, TakerStep, CleanStep, Has, HasFinalized, NotFinalized,
         UndoInsert, Merge, CommandPush, Enter, TryTake, RemoveTaken, Write, DropHeld, PushAgain, Forget,
         GiveBack, CleanLock, CleanUnlock, CleanDrop, CleanFails, CleanSet, pushVars, pushHistory
    <2> QED
      BY <2>1 DEF TryInsert
  <1>b. Single(p)
    BY <1>a DEF NoTwin
  <1>1. ASSUME NEW c \in Procs, PushStep(c) PROVE Single(p)'
    <2>0. Alone(c)
      BY <1>1, StepsAlone
    <2>a. \A d \in Procs \ {c} : Owns(d, p)' <=> Owns(d, p)
      BY <2>0, OwnsLocal DEF Alone
    <2>1. ASSUME NEW q \in Ids, Has(c, q) PROVE Single(p)'
      BY <1>b, <2>0, <2>1, OwnedAfter, SingleKept DEF Has, heapVars
    <2>2. CASE TryInsert(c)
      <3>1. seen' = seen \cup cur[c] /\ UNCHANGED <<copies, stale>>
            /\ tainted' = tainted \cup (cur[c] \cap seen)
        BY <2>2 DEF TryInsert
      <3>2. CASE p \notin cur[c]
        BY <1>b, <2>0, <2>2, <3>1, <3>2, OwnedAfter, SingleKept
      <3>3. CASE p \in cur[c]
        <4>1. p \notin seen
          BY <3>1, <3>3
        <4>2. p \notin Queued \cup stale /\ \A d \in Procs : ~Owns(d, p)
          BY <1>b, <4>1 DEF Single
        <4>3. p \notin Queued' \cup stale' /\ p \in seen' /\ \A d \in Procs \ {c} : ~Owns(d, p)'
          BY <2>a, <3>1, <3>3, <4>2 DEF Queued
        <4>4. copies'[p] <= 1
          BY <1>b, <3>1 DEF Single
        <4> QED
          BY <4>3, <4>4 DEF Single
      <3> QED
        BY <3>2, <3>3
    <2>3. CASE HasFinalized(c) \/ NotFinalized(c)
      BY <1>b, <2>0, <2>3, OwnedAfter, SingleKept DEF HasFinalized, NotFinalized, heapVars
    <2>4. CASE UndoInsert(c)
      <3>1. seen' = seen \ cur[c] /\ UNCHANGED <<copies, stale>> /\ cur[c] \cap pruned[c] = {}
        BY <2>4 DEF UndoInsert, PlaceInv
      <3>2. CASE p \notin cur[c]
        BY <1>b, <2>0, <2>4, <3>1, <3>2, OwnedAfter, SingleKept
      <3>3. CASE p \in cur[c]
        <4>1. Owns(c, p) /\ ~Owns(c, p)'
          BY <2>4, <3>1, <3>3, OwnedAfter
        <4>2. p \notin Queued' \cup stale' /\ \A d \in Procs : ~Owns(d, p)'
          BY <1>b, <2>a, <3>1, <4>1 DEF Single, Queued
        <4>3. copies'[p] <= 1
          BY <1>b, <3>1 DEF Single
        <4> QED
          BY <4>2, <4>3 DEF Single
      <3> QED
        BY <3>2, <3>3
    <2>5. CASE Merge(c)
      <3>1. UNCHANGED <<seen, stale>>
            /\ copies'[p] = IF p \in pruned[c] THEN copies[p] + 1 ELSE copies[p]
        BY <2>5 DEF Merge
      <3>2. CASE p \notin pruned[c]
        BY <1>b, <2>0, <2>5, <3>1, <3>2, OwnedAfter, SingleKept
      <3>3. CASE p \in pruned[c]
        <4>1. Owns(c, p) /\ ~Owns(c, p)'
          BY <2>5, <3>3, OwnedAfter
        <4>2. p \in seen /\ p \notin Queued \cup stale /\ \A d \in Procs \ {c} : ~Owns(d, p)
          BY <1>b, <4>1 DEF Single
        <4>3. copies[p] = 0
          BY <4>2 DEF Queued, PushTypeOK
        <4>4. \A d \in Procs : ~Owns(d, p)'
          BY <2>a, <4>1, <4>2
        <4>5. copies'[p] <= 1 /\ p \in seen' /\ p \notin stale'
          BY <3>1, <3>3, <4>2, <4>3
        <4> QED
          BY <4>4, <4>5 DEF Single
      <3> QED
        BY <3>2, <3>3
    <2> QED
      BY <1>1, <2>1, <2>2, <2>3, <2>4, <2>5 DEF PushStep
  <1>2. ASSUME NEW c \in Callers, NEW S \in SUBSET Ids, CommandPush(c, S) PROVE Single(p)'
    <2>1. c \in Procs /\ Alone(c)
      BY <1>2, StepsAlone DEF Procs
    <2> QED
      BY <1>2, <1>b, <2>1, OwnedAfter, SingleKept DEF CommandPush, Enter, heapVars
  <1>3. ASSUME NEW w \in Takers, TakerStep(w) PROVE Single(p)'
    <2>0. w \in Procs /\ Alone(w)
      BY <1>3, StepsAlone DEF Procs
    <2>a. \A d \in Procs \ {w} : Owns(d, p)' <=> Owns(d, p)
      BY <2>0, OwnsLocal DEF Alone
    <2>1. ASSUME NEW q \in Ids, TryTake(w, q) PROVE Single(p)'
      <3>1. /\ UNCHANGED <<seen, stale>> /\ copies[q] > 0
            /\ copies'[p] = IF p = q THEN copies[p] - 1 ELSE copies[p]
        BY <2>1 DEF TryTake, PushTypeOK
      <3>2. CASE p # q
        BY <1>b, <2>0, <2>1, <3>1, <3>2, OwnedAfter, SingleKept
      <3>3. CASE p = q
        <4>1. p \in Queued
          BY <3>1, <3>3 DEF Queued
        <4>2. p \in seen /\ p \notin stale /\ (\A d \in Procs : ~Owns(d, p)) /\ copies[p] = 1
          BY <1>b, <3>1, <3>3, <4>1 DEF Single, PushTypeOK
        <4>3. copies'[p] = 0
          BY <3>1, <3>3, <4>2
        <4>4. p \notin Queued'
          BY <4>3 DEF Queued
        <4>5. \A d \in Procs \ {w} : ~Owns(d, p)'
          BY <2>a, <4>2
        <4> QED
          BY <3>1, <4>2, <4>3, <4>4, <4>5 DEF Single
      <3> QED
        BY <3>2, <3>3
    <2>2. CASE RemoveTaken(w)
      <3>1. seen' = seen \ held[w] /\ UNCHANGED <<copies, stale>>
        BY <2>2 DEF RemoveTaken
      <3>2. CASE p \notin held[w]
        BY <1>b, <2>0, <2>2, <3>1, <3>2, OwnedAfter, SingleKept
      <3>3. CASE p \in held[w]
        <4>1. Owns(w, p) /\ ~Owns(w, p)'
          BY <2>0, <2>2, <3>3, OwnedAfter
        <4>2. p \notin Queued' \cup stale' /\ \A d \in Procs : ~Owns(d, p)'
          BY <1>b, <2>0, <2>a, <3>1, <4>1 DEF Single, Queued
        <4>3. copies'[p] <= 1
          BY <1>b, <3>1 DEF Single
        <4> QED
          BY <4>2, <4>3 DEF Single
      <3> QED
        BY <3>2, <3>3
    <2>3. CASE Write(w) \/ DropHeld(w) \/ Forget(w) \/ PushAgain(w) \/ GiveBack(w)
      <3>1. UNCHANGED <<copies, seen, stale>>
        BY <2>3 DEF Write, DropHeld, Forget, PushAgain, GiveBack, Enter, heapVars
      <3> QED
        BY <1>b, <2>0, <2>3, <3>1, OwnedAfter, SingleKept
    <2> QED
      BY <1>3, <2>1, <2>2, <2>3 DEF TakerStep
  <1>4. CASE CleanStep
    <2>0. \A d \in Procs : Owns(d, p)' <=> Owns(d, p)
      BY <1>4 DEF CleanStep, CleanLock, CleanUnlock, CleanDrop, CleanFails, CleanSet, localVars, Owns
    <2>1. CASE CleanLock \/ CleanUnlock
      BY <1>b, <2>0, <2>1 DEF CleanLock, CleanUnlock, Single, Queued
    <2>2. ASSUME NEW S \in SUBSET Ids, CleanDrop(S) PROVE Single(p)'
      <3>1. /\ stale' = S /\ stale = {} /\ seen' = seen /\ S \subseteq Queued
            /\ copies'[p] = IF p \in S THEN 0 ELSE copies[p]
        BY <2>2 DEF CleanDrop
      <3>2. p \in Queued' <=> p \in Queued \ S
        BY <3>1 DEF Queued
      <3>3. copies'[p] <= 1
        BY <1>b, <3>1 DEF Single
      <3> QED
        BY <1>b, <2>0, <3>1, <3>2, <3>3 DEF Single
    <2>3. ASSUME NEW q \in Ids, CleanSet(q) PROVE Single(p)'
      <3>1. /\ Queued' = Queued /\ q \in stale /\ copies' = copies
            /\ stale' = stale \ {q} /\ seen' = seen \ {q}
        BY <2>3 DEF CleanSet, Queued
      <3> QED
        BY <1>b, <2>0, <3>1 DEF Single
    <2>4. ASSUME NEW S \in SUBSET Ids, CleanFails(S) PROVE Single(p)'
      <3>1. /\ stale' = stale /\ seen' = seen
            /\ copies'[p] = IF p \in S THEN 0 ELSE copies[p]
        BY <2>4 DEF CleanFails
      <3>2. p \in Queued' <=> p \in Queued \ S
        BY <3>1 DEF Queued
      <3>3. copies'[p] <= 1
        BY <1>b, <3>1 DEF Single
      <3> QED
        BY <1>b, <2>0, <3>1, <3>2, <3>3 DEF Single
    <2> QED
      BY <1>4, <2>1, <2>2, <2>3, <2>4 DEF CleanStep
  <1>5. CASE UNCHANGED pushVars
    BY <1>5, <1>b DEF pushVars, heapVars, localVars, Single, Queued, Owns
  <1> QED
    BY <1>1, <1>2, <1>3, <1>4, <1>5, NextIsStep DEF Step
-----------------------------------------------------------------------------
(***************************************************************************)
(* PushKeepsPolls: a poll leaves a goroutine's hands only for the queue or *)
(* the results, or because another one has its id, which by NoOrphan still *)
(* stands for a poll.                                                      *)
(***************************************************************************)
Somewhere(p) == p \in Queued \cup rows \/ \E c \in Procs : p \in InHand(c)

LEMMA KeepsIsSomewhere ==
  ASSUME PushTypeOK PROVE PushKeepsPolls <=> \A p \in due : Somewhere(p)
  BY DEF PushKeepsPolls, InFlight, Somewhere

LEMMA OwnedInHand ==
  ASSUME NEW c, NEW p, Owns(c, p) PROVE p \in InHand(c)
  BY DEF Owns, InHand

LEMMA SomewhereStep ==
  ASSUME NEW p, NEW c \in Procs, Somewhere(p), Alone(c), rows \subseteq rows',
         p \in Queued => Somewhere(p)', p \in InHand(c) => Somewhere(p)'
  PROVE  Somewhere(p)'
  <1>1. CASE p \in Queued \/ p \in InHand(c)
    BY <1>1
  <1>2. CASE p \in rows
    BY <1>2 DEF Somewhere
  <1>3. CASE \E d \in Procs \ {c} : p \in InHand(d)
    <2>1. PICK d \in Procs \ {c} : p \in InHand(d)
      BY <1>3
    <2>2. p \in InHand(d)'
      BY <2>1 DEF InHand, Alone
    <2> QED
      BY <2>1, <2>2 DEF Somewhere
  <1> QED
    BY <1>1, <1>2, <1>3 DEF Somewhere

DueInv == (stale \cup stranded) \cap due = {} /\ PushKeepsPolls

LEMMA NextDue ==
  PushTypeOK /\ PushTypeOK' /\ PlaceInv /\ NoOrphan /\ DueInv /\ [PushNext]_pushVars => DueInv'
  <1> SUFFICES ASSUME PushTypeOK, PushTypeOK', PlaceInv, NoOrphan, DueInv, [PushNext]_pushVars
               PROVE  DueInv'
    OBVIOUS
  <1>a. \A p \in due : Somewhere(p) /\ p \notin stale \cup stranded
    BY KeepsIsSomewhere DEF DueInv
  <1>b. SUFFICES ASSUME NEW p \in due' PROVE Somewhere(p)' /\ p \notin stale' \cup stranded'
    BY <1>b DEF DueInv, PushKeepsPolls, InFlight, Somewhere
  <1>c. p \in Ids
    BY DEF PushTypeOK
  <1>d. ASSUME NEW c \in Procs, p \in InHand(c)' PROVE Somewhere(p)'
    BY <1>d DEF Somewhere
  <1>e. ASSUME p \in (Queued \cup rows)' PROVE Somewhere(p)'
    BY <1>e DEF Somewhere
  <1>1. ASSUME NEW c \in Procs, PushStep(c) PROVE Somewhere(p)' /\ p \notin stale' \cup stranded'
    <2>0. Alone(c)
      BY <1>1, StepsAlone
    <2>1. ASSUME NEW q \in Ids, Has(c, q) PROVE Somewhere(p)' /\ p \notin stale' \cup stranded'
      <3>1. UNCHANGED <<copies, seen, rows, stale, due, stranded>>
        BY <2>1 DEF Has, heapVars, pushHistory
      <3>2. Somewhere(p) /\ p \notin stale \cup stranded /\ Queued' = Queued
        BY <1>a, <3>1 DEF Queued
      <3>3. p \in Queued => Somewhere(p)'
        BY <1>e, <3>2
      <3>4. ASSUME p \in InHand(c) PROVE Somewhere(p)'
        <4>1. CASE p # q \/ q \notin seen
          <5>1. /\ pc[c] = "has" /\ pc'[c] \in {"has", "insert"} /\ cur[c] = {}
                /\ todo'[c] = todo[c] \ {q} /\ pruned'[c] = pruned[c]
            BY <2>1 DEF Has, MoveTo, PushTypeOK, PlaceInv
          <5>2. p = q => cur'[c] = {q}
            BY <2>1, <4>1 DEF Has, PushTypeOK
          <5>3. p \in InHand(c)'
            BY <3>4, <5>1, <5>2 DEF InHand
          <5> QED
            BY <5>3, <1>d
        <4>2. CASE p = q /\ q \in seen
          <5>1. CASE p \in Queued
            BY <3>3, <5>1
          <5>2. CASE \E d \in Procs : Owns(d, p)
            <6>1. PICK d \in Procs : Owns(d, p)
              BY <5>2
            <6>2. Owns(d, p)'
              BY <6>1, <2>0, <2>1, <1>c, OwnedAfter, OwnsLocal DEF Alone
            <6>3. p \in InHand(d)'
              BY <6>2 DEF Owns, InHand
            <6> QED
              BY <6>3, <1>d
          <5> QED
            BY <3>2, <4>2, <5>1, <5>2 DEF NoOrphan
        <4> QED
          BY <4>1, <4>2
      <3> QED
        BY <2>0, <3>1, <3>2, <3>3, <3>4, SomewhereStep
    <2>2. CASE TryInsert(c) \/ HasFinalized(c) \/ NotFinalized(c)
      <3>1. UNCHANGED <<copies, rows, stale, due, stranded>>
        BY <2>2 DEF TryInsert, HasFinalized, NotFinalized, heapVars, pushHistory
      <3>2. p \in InHand(c) => p \in InHand(c)'
        BY <2>2 DEF TryInsert, HasFinalized, NotFinalized, localVars, InHand, MoveTo, PushTypeOK
      <3> QED
        BY <1>a, <1>d, <1>e, <2>0, <3>1, <3>2, SomewhereStep DEF Queued
    <2>3. CASE UndoInsert(c)
      <3>1. UNCHANGED <<copies, rows, stale, due>> /\ cur[c] \subseteq rows
            /\ stranded' \subseteq stranded
        BY <2>3 DEF UndoInsert, pushHistory, PlaceInv
      <3>2. p \in InHand(c) => p \in InHand(c)' \/ p \in rows'
        BY <2>3, <3>1 DEF UndoInsert, InHand, MoveTo, PushTypeOK
      <3> QED
        BY <1>a, <1>d, <1>e, <2>0, <3>1, <3>2, SomewhereStep DEF Queued
    <2>4. CASE Merge(c)
      <3>1. UNCHANGED <<rows, stale>> /\ due' = due \cup pruned[c]
            /\ Queued' = Queued \cup (pruned[c] \cap Ids) /\ stranded' = stranded \ pruned[c]
        BY <2>4 DEF Merge, Queued, PushTypeOK
      <3>2. pruned[c] # {} => stale = {}
        BY <2>4 DEF Merge, PushTypeOK
      <3>3. p \in InHand(c) => p \in pruned[c]
        BY <2>4 DEF Merge, InHand, PlaceInv
      <3>4. p \in pruned[c] \/ (p \in due /\ Somewhere(p) /\ p \notin stale \cup stranded)
        BY <1>a, <3>1
      <3>5. p \in pruned[c] => Somewhere(p)' /\ p \notin stale' \cup stranded'
        BY <1>c, <1>e, <3>1, <3>2
      <3>6. p \in Queued => Somewhere(p)'
        BY <1>e, <3>1
      <3> QED
        BY <2>0, <3>1, <3>3, <3>4, <3>5, <3>6, SomewhereStep
    <2> QED
      BY <1>1, <2>1, <2>2, <2>3, <2>4 DEF PushStep
  <1>2. ASSUME NEW c \in Callers, NEW S \in SUBSET Ids, CommandPush(c, S)
        PROVE  Somewhere(p)' /\ p \notin stale' \cup stranded'
    <2>1. c \in Procs /\ Alone(c)
      BY <1>2, StepsAlone DEF Procs
    <2>2. UNCHANGED <<copies, rows, stale, due, stranded>>
      BY <1>2 DEF CommandPush, Enter, heapVars, pushHistory
    <2>3. p \notin InHand(c)
      BY <1>2, <2>1 DEF CommandPush, InHand, PlaceInv
    <2> QED
      BY <1>a, <1>e, <2>1, <2>2, <2>3, SomewhereStep DEF Queued
  <1>3. ASSUME NEW w \in Takers, TakerStep(w) PROVE Somewhere(p)' /\ p \notin stale' \cup stranded'
    <2>0. w \in Procs /\ Alone(w)
      BY <1>3, StepsAlone DEF Procs
    <2>1. ASSUME NEW q \in Ids, TryTake(w, q) PROVE Somewhere(p)' /\ p \notin stale' \cup stranded'
      <3>1. UNCHANGED <<rows, stale, due, stranded>> /\ Queued \subseteq Queued' \cup {q}
        BY <2>1 DEF TryTake, Queued, PushTypeOK, pushHistory
      <3>2. q \in InHand(w)' /\ p \notin InHand(w)
        BY <2>0, <2>1 DEF TryTake, MoveTo, InHand, PlaceInv, PushTypeOK
      <3>3. p \in Queued => Somewhere(p)'
        BY <1>d, <1>e, <2>0, <3>1, <3>2
      <3> QED
        BY <1>a, <2>0, <3>1, <3>2, <3>3, SomewhereStep
    <2>2. CASE RemoveTaken(w) \/ PushAgain(w) \/ GiveBack(w) \/ Forget(w)
      <3>1. UNCHANGED <<copies, rows, stale, due>> /\ stranded' \subseteq stranded
        BY <2>2 DEF RemoveTaken, PushAgain, GiveBack, Forget, Enter, heapVars, pushHistory
      <3>2. p \in InHand(w) => p \in InHand(w)'
        BY <2>0, <2>2 DEF RemoveTaken, PushAgain, GiveBack, Forget, Enter, localVars, InHand, MoveTo,
           PlaceInv, PushTypeOK
      <3> QED
        BY <1>a, <1>d, <1>e, <2>0, <3>1, <3>2, SomewhereStep DEF Queued
    <2>3. CASE Write(w) \/ DropHeld(w)
      <3>1. UNCHANGED <<copies, stale, stranded>> /\ due' = due \ held[w] /\ rows \subseteq rows'
        BY <2>3 DEF Write, DropHeld, heapVars
      <3>2. p \notin InHand(w)
        BY <2>0, <2>3, <3>1 DEF Write, DropHeld, InHand, PlaceInv
      <3> QED
        BY <1>a, <1>e, <2>0, <3>1, <3>2, SomewhereStep DEF Queued
    <2> QED
      BY <1>3, <2>1, <2>2, <2>3 DEF TakerStep
  <1>4. CASE CleanStep
    <2>0. rows' = rows /\ \A d \in Procs : InHand(d)' = InHand(d)
      BY <1>4 DEF CleanStep, CleanLock, CleanUnlock, CleanDrop, CleanFails, CleanSet, localVars, InHand
    <2>1. CASE CleanLock \/ CleanUnlock
      BY <1>a, <2>0, <2>1 DEF CleanLock, CleanUnlock, pushHistory, Somewhere, Queued
    <2>2. ASSUME NEW S \in SUBSET Ids, CleanDrop(S) \/ CleanFails(S)
          PROVE  Somewhere(p)' /\ p \notin stale' \cup stranded'
      <3>1. Queued \subseteq Queued' \cup S /\ stale' \subseteq stale \cup S /\ due' = due \ S
            /\ stranded' \subseteq stranded \cup S
        BY <2>2 DEF CleanDrop, CleanFails, Queued, PushTypeOK
      <3> QED
        BY <1>a, <2>0, <3>1 DEF Somewhere
    <2>3. ASSUME NEW q \in Ids, CleanSet(q) PROVE Somewhere(p)' /\ p \notin stale' \cup stranded'
      BY <1>a, <2>0, <2>3 DEF CleanSet, pushHistory, Somewhere, Queued
    <2> QED
      BY <1>4, <2>1, <2>2, <2>3 DEF CleanStep
  <1>5. CASE UNCHANGED pushVars
    BY <1>5, <1>a DEF pushVars, heapVars, localVars, pushHistory, Somewhere, Queued, InHand
  <1> QED
    BY <1>1, <1>2, <1>3, <1>4, <1>5, NextIsStep DEF Step
-----------------------------------------------------------------------------
\* What each command and worker has in hand fits the heap, the set and the rows
\* at every step of Push, of a take and of CleanQueue, however they interleave.
THEOREM PushInvariant == PushSpec => []PushIInv
  <1>1. PushInit => PushIInv
    BY PushInitIInv
  <1>2. PushIInv /\ [PushNext]_pushVars => PushIInv'
    BY PushNextTypeOK, NextPlace, NextNoOrphan, NextNoTwin, NextDue DEF PushIInv, DueInv
  <1> QED
    BY <1>1, <1>2, PTL DEF PushSpec

\* An id is in the set only for a poll that is queued or on its way, unless a
\* CleanQueue failed to merge the survivors and left it there: no mix of pushes,
\* takes, lookups and CleanQueue makes a poll impossible to queue otherwise.
THEOREM NoOrphanHolds == PushSpec => []NoOrphan
  <1>1. PushIInv => NoOrphan
    BY DEF PushIInv
  <1> QED
    BY <1>1, PushInvariant, PTL

\* A poll not loaded from the file and not raced into the set has one copy.
THEOREM NoTwinHolds == PushSpec => []NoTwin
  <1>1. PushIInv => NoTwin
    BY DEF PushIInv
  <1> QED
    BY <1>1, PushInvariant, PTL

\* A seated poll that a worker gives back is seated again, or another goroutine
\* has it, or it has its row, even when two goroutines race in the set.
THEOREM PushKeepsPollsHolds == PushSpec => []PushKeepsPolls
  <1>1. PushIInv => PushKeepsPolls
    BY DEF PushIInv
  <1> QED
    BY <1>1, PushInvariant, PTL
=============================================================================
