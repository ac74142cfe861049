---------------------------- MODULE InsertBatch ----------------------------
(***************************************************************************)
(* One results worker of the poll manager and the Insert goroutine it      *)
(* starts for each batch (managers/polls/results_worker.go and             *)
(* finalized.go), with the Stop call that may interrupt them at any point. *)
(*                                                                         *)
(* The two goroutines talk over two unbuffered Go channels: `done`/`ch`,   *)
(* which carries integers both ways, and `cher`, which carries errors from *)
(* Insert to the worker.  A send and its receive are one step of both.     *)
(*                                                                         *)
(* Time is abstracted: a queued poll may be ripe or not at any moment.     *)
(* What Discord answers about a poll is chosen afresh at every attempt.    *)
(***************************************************************************)
EXTENDS Integers, Sequences, FiniteSets, Functions

CONSTANTS Polls,     \* message ids of polls
          MaxBatch   \* WRITE_MAX_BATCH

ASSUME MaxBatchAssumption == MaxBatch \in Nat \ {0}

\* The integers sent on `done`; zero and the negatives are indices of the batch.
INS_WRITE_FAILED == 1
INS_WRITE_SUCCESS == 2
INS_FETCH_CONTINUE == 3
INS_ERR_NEW == 5
INS_ERR_RECOVER_BREAK_IGNORE == 6
INS_ERR_RECOVER_DROP == 9

VARIABLES
  \* the poll manager
  queue,       \* ids in the file heap
  seen,        \* man.set, the ids a Push must refuse
  results,     \* ids with a row in the results table
  closed,      \* the heap is closed
  \* the worker
  wpc,         \* where the worker is
  batch,       \* wr.batch, also the polls Insert walks over
  finalIndex,  \* cutoff: everything from it on is given back
  wmsg,        \* the status in the worker's hand
  \* the Insert goroutine
  ipc,         \* where Insert is, or the channel operation it is blocked in
  cur,         \* the loop index i
  rows,        \* indices whose rows are in the statement being built
  imsg,        \* the integer Insert is sending on done
  err,         \* the kind of the last error sent on cher
  \* the Stop call
  spc,
  \* history, read by the properties only
  known,       \* polls some Push has seated
  gone,        \* polls the worker said it dropped
  skipped,     \* indices skipped after a transient error, this batch
  lost         \* polls skipped below the cutoff of a written batch

manVars == <<queue, seen, results, closed>>
workerVars == <<wpc, batch, finalIndex, wmsg>>
insertVars == <<ipc, cur, rows, imsg, err>>
history == <<known, gone, skipped, lost>>
vars == <<manVars, workerVars, insertVars, spc, history>>

Members == Range(batch)
At(i) == batch[i + 1]                              \* batch[i] in Go
From(i) == {At(k) : k \in i .. (Len(batch) - 1)}   \* batch[i:] in Go

Init ==
  /\ queue = {} /\ seen = {} /\ results = {} /\ closed = FALSE
  /\ wpc = "fill" /\ batch = <<>> /\ finalIndex = 0 /\ wmsg = 0
  /\ ipc = "idle" /\ cur = 0 /\ rows = {} /\ imsg = 0 /\ err = "none"
  /\ spc = "none"
  /\ known = {} /\ gone = {} /\ skipped = {} /\ lost = {}
-----------------------------------------------------------------------------
(***************************************************************************)
(* PollManager.Push.  An id in the set is a duplicate; so is one with a    *)
(* results row, unless the lookup fails: hasFinalized answers false then.  *)
(* On a closed heap the merge fails after the ids were put in the set.     *)
(***************************************************************************)
Lookups == {results, {}}

Push(S, final) ==
  LET new == S \ (seen \cup final)
  IN  /\ seen' = seen \cup new
      /\ queue' = IF closed THEN queue ELSE queue \cup new
      /\ known' = IF closed THEN known ELSE known \cup new

\* A command or the API submits a poll, at any time, possibly not for the
\* first time.
Submit(p) ==
  /\ \E final \in Lookups : Push({p}, final)
  /\ UNCHANGED <<results, closed, workerVars, insertVars, spc, gone, skipped, lost>>
-----------------------------------------------------------------------------
(***************************************************************************)
(* Variables local to a finished call are reset, they are dead in the code. *)
(*                                                                         *)
(* The worker.  "fill" is the head of the outer loop and "inner" that of   *)
(* the inner one: both check halt, so they are the only places where Stop  *)
(* is heard.                                                               *)
(***************************************************************************)
\* Mutant of Unhalted: the loops run on without looking at halt.
NeverChecksHalt == TRUE

\* checkForStop finds nobody sending on halt
Unhalted == spc # "send"

\* tryAddToBatch takes the top of the heap.
Take(p) ==
  /\ wpc = "fill" /\ Unhalted /\ ~closed
  /\ Len(batch) < MaxBatch
  /\ p \in queue
  /\ queue' = queue \ {p}
  /\ seen' = seen \ {p}
  /\ batch' = Append(batch, p)
  /\ UNCHANGED <<results, closed, wpc, finalIndex, wmsg, insertVars, spc, history>>

\* The batch is full, or nothing more is ripe: go man.Insert(...).  A batch
\* filled by the last take goes to Insert without another look at halt.
StartInsert ==
  /\ wpc = "fill" /\ ipc = "idle"
  /\ batch # <<>>
  /\ Unhalted \/ Len(batch) = MaxBatch
  /\ wpc' = "inner"
  /\ ipc' = "fetch" /\ cur' = 0 /\ rows' = {}
  /\ UNCHANGED <<manVars, batch, finalIndex, wmsg, imsg, err, spc, history>>

\* The inner loop enters handleInsertStatus and blocks in its select.
AwaitStatus ==
  /\ wpc = "inner" /\ Unhalted
  /\ wpc' = "select"
  /\ UNCHANGED <<manVars, batch, finalIndex, wmsg, insertVars, spc, history>>

\* case err = <-cher
ReceiveErr ==
  /\ wpc = "select" /\ ipc = "sendErr"
  /\ wpc' = "status"
  /\ ipc' = "send"
  /\ UNCHANGED <<manVars, batch, finalIndex, wmsg, cur, rows, imsg, err, spc, history>>

\* status = <-ch, from the select or after an error.  A final status ends
\* Insert; any other makes both sides turn around on the same channel.
ReceiveStatus ==
  /\ wpc \in {"select", "status"} /\ ipc = "send"
  /\ wmsg' = imsg /\ imsg' = 0
  /\ IF imsg \in {INS_WRITE_FAILED, INS_WRITE_SUCCESS}
     THEN wpc' = "requeue" /\ ipc' = "idle"
     ELSE wpc' = "reply" /\ ipc' = "recv"
  /\ UNCHANGED <<manVars, batch, finalIndex, cur, rows, err, spc, history>>

\* What handleInsertStatus sends back.
Answer ==
  IF wmsg # INS_ERR_NEW THEN INS_FETCH_CONTINUE
  ELSE IF err = "gone" THEN INS_ERR_RECOVER_DROP
  ELSE INS_ERR_RECOVER_BREAK_IGNORE

\* Mutant of ContinueAfterIndex: the cutoff is the index, not one past it.
CutoffShort ==
  /\ wpc = "reply" /\ ipc = "recv"
  /\ Answer = INS_FETCH_CONTINUE
  /\ wpc' = "inner" /\ finalIndex' = -wmsg /\ wmsg' = 0
  /\ ipc' = "fetch" /\ cur' = cur + 1
  /\ UNCHANGED <<manVars, batch, rows, imsg, err, spc, history>>

\* Mutant of ContinueAfterIndex: the cutoff is two past the index.
CutoffLong ==
  /\ wpc = "reply" /\ ipc = "recv"
  /\ Answer = INS_FETCH_CONTINUE
  /\ wpc' = "inner" /\ finalIndex' = -wmsg + 2 /\ wmsg' = 0
  /\ ipc' = "fetch" /\ cur' = cur + 1
  /\ UNCHANGED <<manVars, batch, rows, imsg, err, spc, history>>

\* The answer to an index moves the cutoff and returns to the inner loop.
ContinueAfterIndex ==
  /\ wpc = "reply" /\ ipc = "recv"
  /\ Answer = INS_FETCH_CONTINUE
  /\ wpc' = "inner" /\ finalIndex' = -wmsg + 1 /\ wmsg' = 0
  /\ ipc' = "fetch" /\ cur' = cur + 1
  /\ UNCHANGED <<manVars, batch, rows, imsg, err, spc, history>>

\* A gone poll is dropped: Insert then sends its index as for a row.
DropGone ==
  /\ wpc = "reply" /\ ipc = "recv"
  /\ Answer = INS_ERR_RECOVER_DROP
  /\ wpc' = "select" /\ wmsg' = 0
  /\ ipc' = "send" /\ imsg' = -cur /\ err' = "none"
  /\ gone' = gone \cup {At(cur)}
  /\ UNCHANGED <<manVars, batch, finalIndex, cur, rows, spc, known, skipped, lost>>

\* Mutant of IgnoreError: the worker takes the ignored error for the end of the
\* batch instead of waiting for Insert's next status.
ReturnAfterIgnore ==
  /\ wpc = "reply" /\ ipc = "recv"
  /\ Answer = INS_ERR_RECOVER_BREAK_IGNORE
  /\ wpc' = "requeue" /\ wmsg' = INS_WRITE_FAILED
  /\ ipc' = "fetch" /\ cur' = cur + 1 /\ err' = "none"
  /\ UNCHANGED <<manVars, batch, finalIndex, rows, imsg, spc, history>>

\* Any other error: Insert goes on with the next poll, the cutoff stays.
IgnoreError ==
  /\ wpc = "reply" /\ ipc = "recv"
  /\ Answer = INS_ERR_RECOVER_BREAK_IGNORE
  /\ wpc' = "select" /\ wmsg' = 0
  /\ ipc' = "fetch" /\ cur' = cur + 1 /\ err' = "none"
  /\ skipped' = IF err = "transient" THEN skipped \cup {cur} ELSE skipped
  /\ UNCHANGED <<manVars, batch, finalIndex, rows, imsg, spc, known, gone, lost>>

\* Mutant of ToRequeue: a failed write gives back the tail only.
TailOnly == From(finalIndex)

\* What the worker gives back when Insert has ended.
ToRequeue == IF wmsg = INS_WRITE_FAILED THEN Members ELSE From(finalIndex)

\* man.Push(toRequeue...) and the reset of the batch and of the cutoff.
Requeue ==
  /\ wpc = "requeue"
  /\ \E final \in Lookups : Push(ToRequeue, final)
  /\ lost' = IF wmsg = INS_WRITE_SUCCESS
             THEN lost \cup {At(k) : k \in {j \in skipped : j < finalIndex}}
             ELSE lost
  /\ wpc' = "fill" /\ batch' = <<>> /\ finalIndex' = 0 /\ wmsg' = 0
  /\ cur' = 0 /\ rows' = {} /\ err' = "none" /\ skipped' = {}
  /\ UNCHANGED <<results, closed, ipc, imsg, spc, gone>>
-----------------------------------------------------------------------------
(***************************************************************************)
(* The Insert goroutine.                                                   *)
(***************************************************************************)
\* The message, its final result and every answer's voters arrived: a row.
AppendRow ==
  /\ ipc = "fetch" /\ cur < Len(batch)
  /\ rows' = rows \cup {cur}
  /\ ipc' = "send" /\ imsg' = -cur
  /\ UNCHANGED <<manVars, workerVars, cur, err, spc, history>>

\* handle_insertion_err: the error on cher, then INS_ERR_NEW on done.
Report(kind) == ipc' = "sendErr" /\ imsg' = INS_ERR_NEW /\ err' = kind

\* The message or one answer's voters could not be fetched.
FetchError(kind) ==
  /\ ipc = "fetch" /\ cur < Len(batch)
  /\ Report(kind)
  /\ UNCHANGED <<manVars, workerVars, cur, rows, spc, history>>

\* Discord has not finalized the poll: it is pushed back with a later expiry,
\* then reported.
NotFinalized ==
  /\ ipc = "fetch" /\ cur < Len(batch)
  /\ \E final \in Lookups : Push({At(cur)}, final)
  /\ Report("open")
  /\ UNCHANGED <<results, closed, workerVars, cur, rows, spc, gone, skipped, lost>>

\* Past the last poll with no row there is nothing to write.
NothingToWrite ==
  /\ ipc = "fetch" /\ cur = Len(batch) /\ rows = {}
  /\ ipc' = "send" /\ imsg' = INS_WRITE_SUCCESS
  /\ UNCHANGED <<manVars, workerVars, cur, rows, err, spc, history>>

\* Mutant of WriteRows: Insert returns without reporting its success.
WriteSilently ==
  /\ ipc = "fetch" /\ cur = Len(batch) /\ rows # {}
  /\ results' = results \cup {At(k) : k \in rows}
  /\ ipc' = "idle"
  /\ UNCHANGED <<queue, seen, closed, workerVars, cur, rows, imsg, err, spc, history>>

\* One REPLACE statement writes every row, or none.
WriteRows ==
  /\ ipc = "fetch" /\ cur = Len(batch) /\ rows # {}
  /\ results' = results \cup {At(k) : k \in rows}
  /\ ipc' = "send" /\ imsg' = INS_WRITE_SUCCESS
  /\ UNCHANGED <<queue, seen, closed, workerVars, cur, rows, err, spc, history>>

FailWrite ==
  /\ ipc = "fetch" /\ cur = Len(batch) /\ rows # {}
  /\ ipc' = "sendErr" /\ imsg' = INS_WRITE_FAILED /\ err' = "write"
  /\ UNCHANGED <<manVars, workerVars, cur, rows, spc, history>>
-----------------------------------------------------------------------------
(***************************************************************************)
(* resultsWorker.Stop on a running worker, then PollManager.Close.         *)
(***************************************************************************)
StopCall ==
  /\ spc = "none" /\ spc' = "send"
  /\ UNCHANGED <<manVars, workerVars, insertVars, history>>

\* checkForStop receives from halt.  A full batch is past its check.
SeeHalt ==
  /\ spc = "send" /\ spc' = "ack"
  /\ \/ wpc = "fill" /\ Len(batch) < MaxBatch
     \/ wpc = "inner"
  /\ wpc' = "cleanup"
  /\ UNCHANGED <<manVars, batch, finalIndex, wmsg, insertVars, history>>

\* man.Push(wr.batch[finalIndex:]...) after the loop.
Cleanup ==
  /\ wpc = "cleanup" /\ wpc' = "ack"
  /\ \E final \in Lookups : Push(From(finalIndex), final)
  /\ UNCHANGED <<results, closed, batch, finalIndex, wmsg, insertVars, spc, gone, skipped, lost>>

\* wr.halt <- 0
Acknowledge ==
  /\ wpc = "ack" /\ wpc' = "stopped"
  /\ spc = "ack" /\ spc' = "push"
  /\ UNCHANGED <<manVars, batch, finalIndex, wmsg, insertVars, history>>

\* Mutant of StopPush: Stop trusts the worker's cleanup to have pushed all.
StopPushesNothing ==
  /\ spc = "push" /\ spc' = "done"
  /\ UNCHANGED <<manVars, workerVars, insertVars, history>>

\* Stop pushes the whole batch, the part below the cutoff included.
StopPush ==
  /\ spc = "push" /\ spc' = "done"
  /\ \E final \in Lookups : Push(Members, final)
  /\ UNCHANGED <<results, closed, workerVars, insertVars, gone, skipped, lost>>

\* WORKER_TIMEOUT_DURATION passes in either select of Stop.
StopTimeout ==
  /\ spc \in {"send", "ack"} /\ spc' = "timedout"
  /\ UNCHANGED <<manVars, workerVars, insertVars, history>>

\* Close, once Stop has returned.
CloseHeap ==
  /\ spc \in {"done", "timedout"} /\ ~closed
  /\ closed' = TRUE
  /\ UNCHANGED <<queue, seen, results, workerVars, insertVars, spc, history>>
-----------------------------------------------------------------------------
Handshake ==
  ReceiveErr \/ ReceiveStatus \/ ContinueAfterIndex \/ DropGone \/ IgnoreError

Insert ==
  \/ AppendRow \/ NotFinalized
  \/ FetchError("gone") \/ FetchError("transient")
  \/ NothingToWrite \/ WriteRows \/ FailWrite

Worker ==
  \/ \E p \in Polls : Take(p)
  \/ StartInsert \/ AwaitStatus \/ Requeue \/ Cleanup

Stop == SeeHalt \/ Acknowledge \/ StopPush

Next ==
  \/ \E p \in Polls : Submit(p)
  \/ Worker \/ Handshake \/ Insert \/ Stop
  \/ StopCall \/ StopTimeout \/ CloseHeap

\* Goroutines that can run do run, and the calls Insert makes to Discord
\* return (the HTTP client has a timeout).  Nobody has to call Stop or submit
\* a poll, and Stop never has to time out.
Fairness == WF_vars(Worker) /\ WF_vars(Handshake) /\ WF_vars(Insert) /\ WF_vars(Stop)

Spec == Init /\ [][Next]_vars /\ Fairness
-----------------------------------------------------------------------------
Positions == 0 .. (MaxBatch - 1)

\* What Insert sends on done.
Statuses ==
  (1 - MaxBatch) .. 0 \cup {INS_WRITE_FAILED, INS_WRITE_SUCCESS, INS_ERR_NEW}

\* The worker and Insert are inside one batch.
Busy == wpc \in {"inner", "select", "status", "reply", "requeue"}

TypeOK ==
  /\ queue \subseteq Polls /\ seen \subseteq Polls /\ results \subseteq Polls
  /\ closed \in BOOLEAN
  /\ wpc \in {"fill", "inner", "select", "status", "reply", "requeue",
              "cleanup", "ack", "stopped"}
  /\ batch \in Seq(Polls) /\ Len(batch) <= MaxBatch
  /\ finalIndex \in 0 .. MaxBatch
  /\ ipc \in {"idle", "fetch", "sendErr", "send", "recv"}
  /\ cur \in 0 .. MaxBatch
  /\ rows \subseteq Positions /\ skipped \subseteq Positions
  /\ err \in {"none", "gone", "transient", "open", "write"}
  /\ imsg \in Statuses /\ wmsg \in Statuses
  /\ spc \in {"none", "send", "ack", "push", "done", "timedout"}
  /\ known \subseteq Polls /\ gone \subseteq Polls /\ lost \subseteq Polls

\* wr.batch[finalIndex:] never slices out of range, neither when the worker
\* gives the unwritten tail back nor in the cleanup of a stopped worker, where
\* the batch may be a new one and the cutoff must not be the last batch's.
CutoffInBatch == finalIndex <= Len(batch)

\* When a batch is reported written, no row of it is at or above the cutoff:
\* "unwritten tail only" holds whatever order rows, drops and skips came in,
\* so a written poll is not given back even if hasFinalized cannot see it.
CutoffCoversRows ==
  wpc = "requeue" /\ wmsg = INS_WRITE_SUCCESS =>
    \A k \in rows : k < finalIndex

\* The two goroutines agree on who speaks next: they are never both waiting to
\* receive, and Insert neither ends nor is left behind inside a batch.
TurnsAgree ==
  /\ wpc = "reply" <=> ipc = "recv"
  /\ wpc = "status" => ipc = "send" /\ imsg \in {INS_ERR_NEW, INS_WRITE_FAILED}
  /\ wpc \in {"inner", "select"} => ipc \in {"fetch", "sendErr", "send"}
  /\ wpc \in {"fill", "requeue"} => ipc = "idle"

\* Where a poll may be found once a Push has seated it.
Accounted == queue \cup results \cup gone \cup Members

\* As long as no Stop timed out, a poll that was ever seated is queued, in the
\* worker's batch, written, reported gone, or was skipped below the cutoff of
\* a written batch: no other path of the handshake or of Stop loses one.
OnlySkippedLost == spc # "timedout" => known \subseteq Accounted \cup lost

\* After a Stop that did not time out, every poll of the interrupted batch is
\* back in the queue or has its row, wherever in the batch the halt came.
StopReturnsBatch == spc = "done" => Members \subseteq queue \cup results

\* "skipped whole and retried later": a poll that was seated and is not written
\* or gone is still in the queue or in a batch.
NothingLost == spc # "timedout" => known \subseteq Accounted

\* A batch handed to Insert is always settled: every status is answered, and
\* the worker comes back to its loop or is waiting for Stop to take its ack.
BatchSettles == Busy ~> wpc \in {"fill", "ack", "stopped"}

\* Stop does not need its timeout: a worker in any state hears the halt.
StopHeard == spc = "send" ~> spc \in {"done", "timedout"}
-----------------------------------------------------------------------------
(***************************************************************************)
(* The inductive invariant behind the safety properties.                   *)
(***************************************************************************)
\* What the two sides hold in hand, by place.
MessagesInv ==
  /\ \A k \in rows \cup skipped : k < Len(batch)
  /\ ipc = "fetch" => cur <= Len(batch)
  /\ ipc = "sendErr" => imsg \in {INS_ERR_NEW, INS_WRITE_FAILED}
  /\ ipc \in {"sendErr", "send"} =>
       IF imsg \in {INS_WRITE_FAILED, INS_WRITE_SUCCESS}
       THEN cur = Len(batch)
       ELSE imsg \in {-cur, INS_ERR_NEW} /\ cur < Len(batch)
  /\ wpc = "reply" => wmsg \in {-cur, INS_ERR_NEW} /\ cur < Len(batch)
  /\ wpc = "requeue" =>
       wmsg \in {INS_WRITE_FAILED, INS_WRITE_SUCCESS} /\ cur = Len(batch)

\* An index sent to the worker whose answer Insert still waits for.
IndexPending == (ipc = "send" /\ imsg = -cur) \/ (wpc = "reply" /\ wmsg = -cur)

\* An error reported to the worker whose answer Insert still waits for.
ErrorPending ==
  \/ ipc \in {"sendErr", "send"} /\ imsg = INS_ERR_NEW
  \/ wpc = "reply" /\ wmsg = INS_ERR_NEW

\* The cutoff never passes the loop index, and lags behind the rows by at most
\* the one whose index is on its way.
CutoffInv ==
  /\ finalIndex <= Len(batch)
  /\ wpc = "fill" => finalIndex = 0
  /\ Busy =>
       /\ finalIndex <= cur
       /\ \A k \in rows : k < finalIndex \/ (k = cur /\ IndexPending)

\* How far Stop has come, seen from both ends; the heap closes last.
StopInv ==
  /\ spc = "ack" => wpc \in {"cleanup", "ack"}
  /\ spc \in {"push", "done"} => wpc = "stopped"
  /\ wpc \in {"cleanup", "ack", "stopped"} => spc \notin {"none", "send"}
  /\ closed => spc \in {"done", "timedout"}

\* The set is exactly the ids of the open heap.
SetInv == ~closed => seen = queue

\* What became of the polls below the loop index, as long as the heap is open.
Settled(k) == k \in rows \cup skipped \/ At(k) \in queue \cup results \cup gone

SettledInv ==
  Busy /\ ~closed =>
    /\ \A k \in 0 .. (cur - 1) : Settled(k)
    /\ IndexPending => cur \in rows \/ At(cur) \in gone
    /\ ErrorPending => \/ err \in {"gone", "transient"}
                       \/ err = "open" /\ At(cur) \in queue \cup results
    /\ \/ ipc = "send" /\ imsg = INS_WRITE_SUCCESS
       \/ wpc = "requeue" /\ wmsg = INS_WRITE_SUCCESS
       => \A k \in rows : At(k) \in results

IInv ==
  /\ TypeOK
  /\ TurnsAgree /\ MessagesInv /\ CutoffInv
  /\ StopInv /\ SetInv /\ SettledInv
  /\ OnlySkippedLost /\ StopReturnsBatch
=============================================================================
