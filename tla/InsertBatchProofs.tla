------------------------- MODULE InsertBatchProofs -------------------------
(***************************************************************************)
(* Proofs about InsertBatch, for every set of polls and every batch size.  *)
(* TypeOK is proved first; the rest of the inductive invariant IInv is     *)
(* proved part by part, each part with one step per action, from the parts *)
(* before it.                                                              *)
(***************************************************************************)
EXTENDS InsertBatchPool, FiniteSetTheorems, TLAPS

USE MaxBatchAssumption

\* Pushing adds only to the set, the heap and the record of seated polls.
LEMMA PushGrows ==
  ASSUME NEW S, NEW final, Push(S, final)
  PROVE  /\ seen \subseteq seen' /\ queue \subseteq queue' /\ known \subseteq known'
         /\ seen' \subseteq seen \cup S
         /\ queue' \subseteq queue \cup S
         /\ known' \subseteq known \cup S
  BY DEF Push

\* After a Push on an open heap whose ids are the set's, every poll pushed is
\* queued or was found in the results; and the ids are still the set's.
LEMMA PushSeats ==
  ASSUME NEW S, NEW final \in Lookups, Push(S, final), SetInv, ~closed
  PROVE  /\ S \subseteq queue' \cup results
         /\ seen' = queue'
  BY DEF Push, SetInv, Lookups

\* The members of a batch are polls, at every index.
LEMMA BatchMembers ==
  ASSUME batch \in Seq(Polls)
  PROVE  /\ Len(batch) \in Nat
         /\ Members \subseteq Polls
         /\ \A i \in 0 .. (Len(batch) - 1) : At(i) \in Members
         /\ \A i \in Nat : From(i) \subseteq Members
         /\ \A m \in Members : \E i \in 0 .. (Len(batch) - 1) : m = At(i)
  <1>1. Len(batch) \in Nat /\ DOMAIN batch = 1 .. Len(batch)
    OBVIOUS
  <1>2. \A i \in 0 .. (Len(batch) - 1) : i + 1 \in DOMAIN batch
    BY <1>1
  <1>3. \A i \in 0 .. (Len(batch) - 1) : At(i) \in Members
    BY <1>2 DEF At, Members, Range
  <1>4. \A i \in Nat : From(i) \subseteq Members
    BY <1>1, <1>3 DEF From
  <1>5. \A m \in Members : \E i \in 0 .. (Len(batch) - 1) : m = At(i)
    <2> SUFFICES ASSUME NEW m \in Members
                 PROVE  \E i \in 0 .. (Len(batch) - 1) : m = At(i)
      OBVIOUS
    <2>1. PICK k \in 1 .. Len(batch) : m = batch[k]
      BY <1>1 DEF Members, Range
    <2>2. k - 1 \in 0 .. (Len(batch) - 1) /\ m = At(k - 1)
      BY <1>1, <2>1 DEF At
    <2> QED
      BY <2>2
  <1>6. Members \subseteq Polls
    BY <1>1 DEF Members, Range
  <1> QED
    BY <1>1, <1>3, <1>4, <1>5, <1>6

-----------------------------------------------------------------------------
(* Type correctness *)

LEMMA InitTypeOK == Init => TypeOK
  <1> SUFFICES ASSUME Init PROVE TypeOK
    OBVIOUS
  <1>1. batch \in Seq(Polls) /\ Len(batch) = 0
    BY DEF Init
  <1>2. imsg \in Statuses /\ wmsg \in Statuses
    BY DEF Init, Statuses
  <1>3. batch \in Seq(Polls) /\ Len(batch) <= MaxBatch
    BY <1>1
  <1>4. finalIndex \in 0 .. MaxBatch /\ cur \in 0 .. MaxBatch
    BY DEF Init
  <1>5. /\ queue \subseteq Polls /\ seen \subseteq Polls /\ results \subseteq Polls
        /\ rows \subseteq Positions /\ skipped \subseteq Positions
        /\ known \subseteq Polls /\ gone \subseteq Polls /\ lost \subseteq Polls
    BY DEF Init
  <1>6. /\ closed \in BOOLEAN /\ wpc = "fill" /\ ipc = "idle" /\ err = "none" /\ spc = "none"
    BY DEF Init
  <1> QED
    BY <1>2, <1>3, <1>4, <1>5, <1>6 DEF TypeOK

LEMMA NextTypeOK == TypeOK /\ MessagesInv /\ CutoffInv /\ [Next]_vars => TypeOK'
  <1> SUFFICES ASSUME TypeOK, MessagesInv, CutoffInv, [Next]_vars
               PROVE  TypeOK'
    OBVIOUS
  <1> USE DEF TypeOK, Positions, Statuses
  <1> batch \in Seq(Polls)
    OBVIOUS
  <1>0. /\ \A i \in 0 .. (Len(batch) - 1) : At(i) \in Polls
        /\ \A i \in Nat : From(i) \subseteq Polls
        /\ Members \subseteq Polls
    BY BatchMembers
  <1>1. ASSUME NEW p \in Polls, Submit(p) PROVE TypeOK'
    BY <1>1, PushGrows DEF Submit, workerVars, insertVars
  <1>2. ASSUME NEW p \in Polls, Take(p) PROVE TypeOK'
    BY <1>2 DEF Take, insertVars, history
  <1>3. CASE StartInsert
    BY <1>3 DEF StartInsert, manVars, history
  <1>4. CASE AwaitStatus
    BY <1>4 DEF AwaitStatus, manVars, insertVars, history
  <1>5. CASE Requeue
    <2>1. ToRequeue \subseteq Polls
      BY <1>0 DEF ToRequeue
    <2>2. PICK final \in Lookups : Push(ToRequeue, final)
      BY <1>5 DEF Requeue
    <2>3. /\ queue' \subseteq Polls /\ seen' \subseteq Polls /\ known' \subseteq Polls
      BY <2>1, <2>2, PushGrows
    <2>4. lost' \subseteq Polls
      BY <1>0, <1>5 DEF Requeue, CutoffInv
    <2> QED
      BY <1>5, <2>3, <2>4 DEF Requeue
  <1>6. CASE Cleanup
    <2>1. PICK final \in Lookups : Push(From(finalIndex), final)
      BY <1>6 DEF Cleanup
    <2>2. From(finalIndex) \subseteq Polls
      BY <1>0
    <2>3. /\ queue' \subseteq Polls /\ seen' \subseteq Polls /\ known' \subseteq Polls
      BY <2>1, <2>2, PushGrows
    <2> QED
      BY <1>6, <2>3 DEF Cleanup, insertVars
  <1>7. CASE ReceiveErr
    BY <1>7 DEF ReceiveErr, manVars, history
  <1>8. CASE ReceiveStatus
    BY <1>8 DEF ReceiveStatus, manVars, history
  <1>9. CASE ContinueAfterIndex
    BY <1>9 DEF ContinueAfterIndex, manVars, history, MessagesInv, Answer,
       INS_ERR_NEW, INS_FETCH_CONTINUE, INS_ERR_RECOVER_DROP, INS_ERR_RECOVER_BREAK_IGNORE
  <1>10. CASE DropGone
    BY <1>0, <1>10 DEF DropGone, manVars, MessagesInv
  <1>11. CASE IgnoreError
    BY <1>11 DEF IgnoreError, manVars, MessagesInv
  <1>12. CASE AppendRow
    BY <1>12 DEF AppendRow, manVars, workerVars, history
  <1>13. CASE NotFinalized
    <2>1. PICK final \in Lookups : Push({At(cur)}, final)
      BY <1>13 DEF NotFinalized
    <2>2. At(cur) \in Polls
      BY <1>0, <1>13 DEF NotFinalized
    <2>3. /\ queue' \subseteq Polls /\ seen' \subseteq Polls /\ known' \subseteq Polls
      BY <2>1, <2>2, PushGrows
    <2> QED
      BY <1>13, <2>3 DEF NotFinalized, Report, workerVars
  <1>14. ASSUME NEW k \in {"gone", "transient"}, FetchError(k) PROVE TypeOK'
    BY <1>14 DEF FetchError, Report, manVars, workerVars, history
  <1>15. CASE NothingToWrite
    BY <1>15 DEF NothingToWrite, manVars, workerVars, history
  <1>16. CASE WriteRows
    <2>1. {At(k) : k \in rows} \subseteq Polls
      BY <1>0, <1>16 DEF WriteRows, MessagesInv
    <2> QED
      BY <1>16, <2>1 DEF WriteRows, workerVars, history
  <1>17. CASE FailWrite
    BY <1>17 DEF FailWrite, manVars, workerVars, history
  <1>18. CASE Stop
    <2>1. CASE SeeHalt
      BY <2>1 DEF SeeHalt, manVars, insertVars, history
    <2>2. CASE Acknowledge
      BY <2>2 DEF Acknowledge, manVars, insertVars, history
    <2>3. CASE StopPush
      <3>1. PICK final \in Lookups : Push(Members, final)
        BY <2>3 DEF StopPush
      <3>2. /\ queue' \subseteq Polls /\ seen' \subseteq Polls /\ known' \subseteq Polls
        BY <1>0, <3>1, PushGrows
      <3> QED
        BY <2>3, <3>2 DEF StopPush, workerVars, insertVars
    <2> QED
      BY <1>18, <2>1, <2>2, <2>3 DEF Stop
  <1>19. CASE StopCall \/ StopTimeout
    BY <1>19 DEF StopCall, StopTimeout, manVars, workerVars, insertVars, history
  <1>21. CASE CloseHeap
    BY <1>21 DEF CloseHeap, workerVars, insertVars, history
  <1>20. CASE UNCHANGED vars
    BY <1>20 DEF vars, manVars, workerVars, insertVars, history
  <1> QED
    BY <1>1, <1>2, <1>3, <1>4, <1>5, <1>6, <1>7, <1>8, <1>9, <1>10, <1>11, <1>12,
       <1>13, <1>14, <1>15, <1>16, <1>17, <1>18, <1>19, <1>20, <1>21
    DEF Next, Worker, Handshake, Insert

-----------------------------------------------------------------------------
(* The handshake *)

\* Every action of Insert, of the worker or of both moves the two program
\* counters together, and no other action moves them.
LEMMA NextTurns ==
  TypeOK /\ TurnsAgree /\ MessagesInv /\ [Next]_vars => TurnsAgree'
  <1> SUFFICES ASSUME TypeOK, TurnsAgree, MessagesInv, [Next]_vars
               PROVE  TurnsAgree'
    OBVIOUS
  <1> USE DEF TurnsAgree, INS_WRITE_FAILED, INS_WRITE_SUCCESS, INS_ERR_NEW
  <1>1. ASSUME NEW p \in Polls, Submit(p) PROVE TurnsAgree'
    BY <1>1 DEF Submit, workerVars, insertVars
  <1>2. ASSUME NEW p \in Polls, Take(p) PROVE TurnsAgree'
    BY <1>2 DEF Take, insertVars
  <1>3. CASE StartInsert
    BY <1>3 DEF StartInsert
  <1>4. CASE AwaitStatus
    BY <1>4 DEF AwaitStatus, insertVars
  <1>5. CASE Requeue
    BY <1>5 DEF Requeue
  <1>6. CASE Cleanup
    BY <1>6 DEF Cleanup, insertVars
  <1>7. CASE ReceiveErr
    BY <1>7 DEF ReceiveErr, MessagesInv
  <1>8. CASE ReceiveStatus
    BY <1>8 DEF ReceiveStatus
  <1>9. CASE ContinueAfterIndex
    BY <1>9 DEF ContinueAfterIndex
  <1>10. CASE DropGone
    BY <1>10 DEF DropGone
  <1>11. CASE IgnoreError
    BY <1>11 DEF IgnoreError
  <1>12. CASE Insert
    BY <1>12 DEF Insert, AppendRow, NotFinalized, FetchError, Report, NothingToWrite,
       WriteRows, FailWrite, workerVars
  <1>13. CASE Stop
    BY <1>13 DEF Stop, SeeHalt, Acknowledge, StopPush, workerVars, insertVars
  <1>14. CASE StopCall \/ StopTimeout \/ CloseHeap
    BY <1>14 DEF StopCall, StopTimeout, CloseHeap, workerVars, insertVars
  <1>15. CASE UNCHANGED vars
    BY <1>15 DEF vars, workerVars, insertVars
  <1> QED
    BY <1>1, <1>2, <1>3, <1>4, <1>5, <1>6, <1>7, <1>8, <1>9, <1>10, <1>11, <1>12,
       <1>13, <1>14, <1>15
    DEF Next, Worker, Handshake

\* The integers in flight say where in the batch the two sides are.
LEMMA NextMessages ==
  TypeOK /\ TurnsAgree /\ MessagesInv /\ [Next]_vars => MessagesInv'
  <1> SUFFICES ASSUME TypeOK, TurnsAgree, MessagesInv, [Next]_vars
               PROVE  MessagesInv'
    OBVIOUS
  <1> USE DEF MessagesInv, INS_WRITE_FAILED, INS_WRITE_SUCCESS, INS_ERR_NEW
  <1>0. /\ batch \in Seq(Polls) /\ Len(batch) \in Nat /\ cur \in Nat /\ finalIndex \in Nat
        /\ rows \subseteq Nat /\ skipped \subseteq Nat /\ imsg \in Int /\ wmsg \in Int
    BY DEF TypeOK, Positions, Statuses
  <1>1. ASSUME NEW p \in Polls, Submit(p) PROVE MessagesInv'
    BY <1>1 DEF Submit, workerVars, insertVars
  <1>2. ASSUME NEW p \in Polls, Take(p) PROVE MessagesInv'
    BY <1>0, <1>2 DEF Take, insertVars, history, TurnsAgree
  <1>3. CASE StartInsert
    <2>1. /\ wpc' = "inner" /\ ipc' = "fetch" /\ cur' = 0 /\ rows' = {}
          /\ batch' = batch /\ skipped' = skipped
      BY <1>3 DEF StartInsert, history
    <2>2. \A k \in rows' \cup skipped' : k < Len(batch')
      BY <2>1
    <2>3. (ipc = "fetch" => cur <= Len(batch))'
      BY <1>0, <2>1
    <2> QED
      BY <2>1, <2>2, <2>3
  <1>4. CASE AwaitStatus
    BY <1>4 DEF AwaitStatus, insertVars, history
  <1>5. CASE Requeue
    BY <1>0, <1>5 DEF Requeue, TurnsAgree
  <1>6. CASE Cleanup
    BY <1>6 DEF Cleanup, insertVars
  <1>7. CASE ReceiveErr
    BY <1>7 DEF ReceiveErr, history
  <1>8. CASE ReceiveStatus
    BY <1>0, <1>8 DEF ReceiveStatus, history
  <1>9. CASE ContinueAfterIndex
    BY <1>0, <1>9 DEF ContinueAfterIndex, history
  <1>10. CASE DropGone
    BY <1>0, <1>10 DEF DropGone
  <1>11. CASE IgnoreError
    BY <1>0, <1>11 DEF IgnoreError
  <1>12. CASE AppendRow
    BY <1>0, <1>12 DEF AppendRow, workerVars, history, TurnsAgree
  <1>13. CASE NotFinalized
    BY <1>0, <1>13 DEF NotFinalized, Report, workerVars, TurnsAgree
  <1>14. ASSUME NEW k \in {"gone", "transient"}, FetchError(k) PROVE MessagesInv'
    BY <1>0, <1>14 DEF FetchError, Report, workerVars, history, TurnsAgree
  <1>15. CASE NothingToWrite \/ WriteRows \/ FailWrite
    BY <1>0, <1>15 DEF NothingToWrite, WriteRows, FailWrite, workerVars, history, TurnsAgree
  <1>16. CASE Stop
    BY <1>16 DEF Stop, SeeHalt, Acknowledge, StopPush, workerVars, insertVars, history
  <1>17. CASE StopCall \/ StopTimeout \/ CloseHeap
    BY <1>17 DEF StopCall, StopTimeout, CloseHeap, workerVars, insertVars, history
  <1>18. CASE UNCHANGED vars
    BY <1>18 DEF vars, workerVars, insertVars, history
  <1> QED
    BY <1>1, <1>2, <1>3, <1>4, <1>5, <1>6, <1>7, <1>8, <1>9, <1>10, <1>11, <1>12,
       <1>13, <1>14, <1>15, <1>16, <1>17, <1>18
    DEF Next, Worker, Handshake, Insert

\* The cutoff follows the indices: a row is below it, or its index is on its way.
LEMMA NextCutoff ==
  TypeOK /\ TurnsAgree /\ MessagesInv /\ CutoffInv /\ [Next]_vars => CutoffInv'
  <1> SUFFICES ASSUME TypeOK, TurnsAgree, MessagesInv, CutoffInv, [Next]_vars
               PROVE  CutoffInv'
    OBVIOUS
  <1> USE DEF CutoffInv, IndexPending, Busy, INS_WRITE_FAILED, INS_WRITE_SUCCESS, INS_ERR_NEW
  <1>0. /\ batch \in Seq(Polls) /\ Len(batch) \in Nat /\ cur \in Nat /\ finalIndex \in Nat
        /\ rows \subseteq Nat /\ imsg \in Int /\ wmsg \in Int
    BY DEF TypeOK, Positions, Statuses
  <1>1. ASSUME NEW p \in Polls, Submit(p) PROVE CutoffInv'
    BY <1>1 DEF Submit, workerVars, insertVars
  <1>2. ASSUME NEW p \in Polls, Take(p) PROVE CutoffInv'
    BY <1>0, <1>2 DEF Take, insertVars
  <1>3. CASE StartInsert
    BY <1>0, <1>3 DEF StartInsert
  <1>4. CASE AwaitStatus
    BY <1>4 DEF AwaitStatus, insertVars
  <1>5. CASE Requeue
    BY <1>0, <1>5 DEF Requeue
  <1>6. CASE Cleanup
    BY <1>6 DEF Cleanup, insertVars
  <1>7. CASE ReceiveErr
    BY <1>0, <1>7 DEF ReceiveErr, MessagesInv
  <1>8. CASE ReceiveStatus
    BY <1>0, <1>8 DEF ReceiveStatus, MessagesInv, TurnsAgree
  <1>9. CASE ContinueAfterIndex
    <2>1. wmsg # INS_ERR_NEW
      BY <1>9 DEF ContinueAfterIndex, Answer, INS_FETCH_CONTINUE, INS_ERR_RECOVER_DROP,
         INS_ERR_RECOVER_BREAK_IGNORE
    <2>2. wmsg = -cur /\ cur < Len(batch)
      BY <1>9, <2>1 DEF ContinueAfterIndex, MessagesInv
    <2>3. finalIndex' = cur + 1 /\ cur' = cur + 1
      BY <1>0, <1>9, <2>2 DEF ContinueAfterIndex
    <2> QED
      BY <1>0, <1>9, <2>2, <2>3 DEF ContinueAfterIndex
  <1>10. CASE DropGone
    BY <1>0, <1>10 DEF DropGone, MessagesInv
  <1>11. CASE IgnoreError
    <2>1. wmsg = INS_ERR_NEW
      BY <1>11 DEF IgnoreError, Answer, INS_FETCH_CONTINUE, INS_ERR_RECOVER_BREAK_IGNORE
    <2>2. ~IndexPending
      BY <1>0, <1>11, <2>1 DEF IgnoreError
    <2> QED
      BY <1>0, <1>11, <2>2 DEF IgnoreError
  <1>12. CASE AppendRow
    BY <1>0, <1>12 DEF AppendRow, workerVars, TurnsAgree
  <1>13. CASE NotFinalized
    BY <1>0, <1>13 DEF NotFinalized, Report, workerVars, TurnsAgree
  <1>14. ASSUME NEW k \in {"gone", "transient"}, FetchError(k) PROVE CutoffInv'
    BY <1>0, <1>14 DEF FetchError, Report, workerVars, TurnsAgree
  <1>15. CASE NothingToWrite \/ WriteRows \/ FailWrite
    BY <1>0, <1>15 DEF NothingToWrite, WriteRows, FailWrite, workerVars, TurnsAgree
  <1>16. CASE Stop
    BY <1>16 DEF Stop, SeeHalt, Acknowledge, StopPush, workerVars, insertVars
  <1>17. CASE StopCall \/ StopTimeout \/ CloseHeap
    BY <1>17 DEF StopCall, StopTimeout, CloseHeap, workerVars, insertVars
  <1>18. CASE UNCHANGED vars
    BY <1>18 DEF vars, workerVars, insertVars
  <1> QED
    BY <1>1, <1>2, <1>3, <1>4, <1>5, <1>6, <1>7, <1>8, <1>9, <1>10, <1>11, <1>12,
       <1>13, <1>14, <1>15, <1>16, <1>17, <1>18
    DEF Next, Worker, Handshake, Insert
-----------------------------------------------------------------------------
(* Stop and the set *)

\* Stop and the worker agree on how far the stop has come.
LEMMA NextStop == TypeOK /\ StopInv /\ [Next]_vars => StopInv'
  <1> SUFFICES ASSUME TypeOK, StopInv, [Next]_vars
               PROVE  StopInv'
    OBVIOUS
  <1> USE DEF StopInv
  <1>1. ASSUME NEW p \in Polls, Submit(p) PROVE StopInv'
    BY <1>1 DEF Submit, workerVars
  <1>2. CASE Worker
    <2>1. ASSUME NEW p \in Polls, Take(p) PROVE StopInv'
      BY <2>1 DEF Take
    <2>2. CASE StartInsert \/ AwaitStatus
      BY <2>2 DEF StartInsert, AwaitStatus, manVars
    <2>3. CASE Requeue \/ Cleanup
      BY <2>3 DEF Requeue, Cleanup
    <2> QED
      BY <1>2, <2>1, <2>2, <2>3 DEF Worker
  <1>3. CASE Handshake
    BY <1>3 DEF Handshake, ReceiveErr, ReceiveStatus, ContinueAfterIndex, DropGone,
       IgnoreError, manVars
  <1>4. CASE Insert
    BY <1>4 DEF Insert, AppendRow, NotFinalized, FetchError, NothingToWrite, WriteRows,
       FailWrite, workerVars, manVars
  <1>5. CASE Stop
    BY <1>5 DEF Stop, SeeHalt, Acknowledge, StopPush, workerVars, manVars
  <1>6. CASE StopCall
    BY <1>6 DEF StopCall, workerVars, manVars
  <1>7. CASE StopTimeout
    BY <1>7 DEF StopTimeout, workerVars, manVars
  <1>8. CASE CloseHeap
    BY <1>8 DEF CloseHeap, workerVars
  <1>9. CASE UNCHANGED vars
    BY <1>9 DEF vars, workerVars, manVars
  <1> QED
    BY <1>1, <1>2, <1>3, <1>4, <1>5, <1>6, <1>7, <1>8, <1>9 DEF Next

\* Whatever touches the heap touches the set alike.
LEMMA NextSet == SetInv /\ StopInv /\ [Next]_vars => SetInv'
  <1> SUFFICES ASSUME SetInv, StopInv, [Next]_vars
               PROVE  SetInv'
    OBVIOUS
  <1> USE DEF SetInv
  <1>1. ASSUME NEW S, NEW final, Push(S, final), closed' = closed PROVE SetInv'
    BY <1>1 DEF Push
  <1>2. ASSUME NEW p \in Polls, Submit(p) PROVE SetInv'
    BY <1>1, <1>2 DEF Submit
  <1>3. CASE Worker
    <2>1. ASSUME NEW p \in Polls, Take(p) PROVE SetInv'
      BY <2>1 DEF Take
    <2>2. CASE StartInsert \/ AwaitStatus
      BY <2>2 DEF StartInsert, AwaitStatus, manVars
    <2>3. CASE Requeue \/ Cleanup
      BY <1>1, <2>3 DEF Requeue, Cleanup
    <2> QED
      BY <1>3, <2>1, <2>2, <2>3 DEF Worker
  <1>4. CASE Handshake
    BY <1>4 DEF Handshake, ReceiveErr, ReceiveStatus, ContinueAfterIndex, DropGone,
       IgnoreError, manVars
  <1>5. CASE Insert
    <2>1. CASE NotFinalized
      BY <1>1, <2>1 DEF NotFinalized
    <2> QED
      BY <1>5, <2>1 DEF Insert, AppendRow, FetchError, NothingToWrite, WriteRows,
         FailWrite, manVars
  <1>6. CASE Stop
    <2>1. CASE StopPush
      BY <1>1, <2>1 DEF StopPush
    <2> QED
      BY <1>6, <2>1 DEF Stop, SeeHalt, Acknowledge, manVars
  <1>7. CASE StopCall \/ StopTimeout \/ CloseHeap
    BY <1>7 DEF StopCall, StopTimeout, CloseHeap, manVars
  <1>8. CASE UNCHANGED vars
    BY <1>8 DEF vars, manVars
  <1> QED
    BY <1>2, <1>3, <1>4, <1>5, <1>6, <1>7, <1>8 DEF Next
-----------------------------------------------------------------------------
(* What became of the polls of a batch *)

\* A settled index stays settled while its batch is in Insert's hands.
LEMMA SettledStays ==
  ASSUME NEW k, Settled(k), batch' = batch,
         queue \subseteq queue', results \subseteq results', gone \subseteq gone',
         rows \subseteq rows', skipped \subseteq skipped'
  PROVE  Settled(k)'
  BY DEF Settled, At

\* Inside a batch the heap is open, unless Stop gave up.
LEMMA BusyIsOpen == StopInv /\ Busy /\ spc # "timedout" => ~closed
  BY DEF StopInv, Busy

\* Every index Insert has passed is settled, whatever answer each one got.
LEMMA NextSettled ==
  TypeOK /\ TurnsAgree /\ MessagesInv /\ CutoffInv /\ StopInv /\ SetInv /\ SettledInv
    /\ [Next]_vars => SettledInv'
  <1> SUFFICES ASSUME TypeOK, TurnsAgree, MessagesInv, CutoffInv, StopInv, SetInv,
                      SettledInv, [Next]_vars, Busy', ~closed'
               PROVE  /\ \A k \in 0 .. (cur' - 1) : Settled(k)'
                      /\ IndexPending' => cur' \in rows' \/ At(cur)' \in gone'
                      /\ ErrorPending' => \/ err' \in {"gone", "transient"}
                                          \/ err' = "open" /\ At(cur)' \in queue' \cup results'
                      /\ \/ ipc' = "send" /\ imsg' = INS_WRITE_SUCCESS
                         \/ wpc' = "requeue" /\ wmsg' = INS_WRITE_SUCCESS
                         => \A k \in rows' : At(k)' \in results'
    BY DEF SettledInv
  <1> DEFINE Goal ==
        /\ \A k \in 0 .. (cur' - 1) : Settled(k)'
        /\ IndexPending' => cur' \in rows' \/ At(cur)' \in gone'
        /\ ErrorPending' => \/ err' \in {"gone", "transient"}
                            \/ err' = "open" /\ At(cur)' \in queue' \cup results'
        /\ \/ ipc' = "send" /\ imsg' = INS_WRITE_SUCCESS
           \/ wpc' = "requeue" /\ wmsg' = INS_WRITE_SUCCESS
           => \A k \in rows' : At(k)' \in results'
  <1> USE DEF INS_WRITE_FAILED, INS_WRITE_SUCCESS, INS_ERR_NEW
  <1>0. /\ batch \in Seq(Polls) /\ Len(batch) \in Nat /\ cur \in Nat /\ finalIndex \in Nat
        /\ rows \subseteq Nat /\ imsg \in Int /\ wmsg \in Int
    BY DEF TypeOK, Positions, Statuses
  <1>a. ASSUME UNCHANGED <<results, batch, finalIndex, ipc, cur, rows, imsg, err, gone, skipped>>,
               wpc' = wpc \/ (wpc = "inner" /\ wpc' = "select"),
               wmsg' = wmsg, queue \subseteq queue', ~closed, Busy
        PROVE  Goal
    <2>1. \A k \in 0 .. (cur - 1) : Settled(k)
      BY <1>a DEF SettledInv
    <2>2. \A k \in 0 .. (cur' - 1) : Settled(k)'
      BY <1>a, <2>1, SettledStays
    <2> QED
      BY <1>a, <2>2 DEF SettledInv, IndexPending, ErrorPending, At
  <1>1. ASSUME NEW p \in Polls, Submit(p) PROVE Goal
    <2>1. queue \subseteq queue'
      BY <1>1, PushGrows DEF Submit
    <2> QED
      BY <1>1, <1>a, <2>1 DEF Submit, workerVars, insertVars, Busy
  <1>2. ASSUME NEW p \in Polls, Take(p) PROVE Goal
    BY <1>2 DEF Take, Busy
  <1>3. CASE StartInsert
    BY <1>3 DEF StartInsert, IndexPending, ErrorPending
  <1>4. CASE AwaitStatus
    BY <1>4, <1>a DEF AwaitStatus, insertVars, manVars, history, Busy
  <1>5. CASE Requeue \/ Cleanup
    BY <1>5 DEF Requeue, Cleanup, Busy
  <1>6. CASE ReceiveErr
    <2>1. Busy /\ ~closed
      BY <1>6 DEF manVars, ReceiveErr, Busy
    <2>2. \A k \in 0 .. (cur' - 1) : Settled(k)'
      BY <1>6, <2>1, SettledStays DEF ReceiveErr, SettledInv, manVars, history
    <2>3. imsg' \in {INS_ERR_NEW, INS_WRITE_FAILED}
      BY <1>6 DEF ReceiveErr, MessagesInv
    <2> QED
      BY <1>0, <1>6, <2>1, <2>2, <2>3
      DEF ReceiveErr, SettledInv, IndexPending, ErrorPending, manVars, history, At
  <1>7. CASE ReceiveStatus
    <2>1. Busy /\ ~closed
      BY <1>7 DEF manVars, ReceiveStatus, Busy
    <2>2. \A k \in 0 .. (cur' - 1) : Settled(k)'
      BY <1>7, <2>1, SettledStays DEF ReceiveStatus, SettledInv, manVars, history
    <2> QED
      BY <1>0, <1>7, <2>1, <2>2
      DEF ReceiveStatus, SettledInv, IndexPending, ErrorPending, manVars, history, At
  <1>8. CASE ContinueAfterIndex
    <2>1. Busy /\ ~closed /\ wmsg = -cur
      BY <1>8 DEF manVars, ContinueAfterIndex, Busy, Answer, MessagesInv, INS_FETCH_CONTINUE,
         INS_ERR_RECOVER_DROP, INS_ERR_RECOVER_BREAK_IGNORE
    <2>2. Settled(cur)
      BY <1>8, <2>1 DEF ContinueAfterIndex, SettledInv, IndexPending, Settled
    <2>3. \A k \in 0 .. cur : Settled(k)
      BY <1>0, <2>1, <2>2 DEF SettledInv
    <2>4. \A k \in 0 .. (cur' - 1) : Settled(k)'
      BY <1>0, <1>8, <2>3, SettledStays DEF ContinueAfterIndex, manVars, history
    <2> QED
      BY <1>8, <2>4 DEF ContinueAfterIndex, IndexPending, ErrorPending
  <1>9. CASE DropGone
    <2>1. Busy /\ ~closed
      BY <1>9 DEF manVars, DropGone, Busy
    <2>2. \A k \in 0 .. (cur' - 1) : Settled(k)'
      BY <1>9, <2>1, SettledStays DEF DropGone, SettledInv, manVars
    <2>3. At(cur)' \in gone' /\ imsg' <= 0
      BY <1>0, <1>9 DEF DropGone, At
    <2> QED
      BY <1>9, <2>2, <2>3 DEF DropGone, IndexPending, ErrorPending
  <1>10. CASE IgnoreError
    <2>1. Busy /\ ~closed /\ wmsg = INS_ERR_NEW /\ err # "gone"
      BY <1>10 DEF manVars, IgnoreError, Busy, Answer, INS_FETCH_CONTINUE, INS_ERR_RECOVER_DROP,
         INS_ERR_RECOVER_BREAK_IGNORE
    <2>2. err = "transient" \/ At(cur) \in queue \cup results
      BY <1>10, <2>1 DEF IgnoreError, SettledInv, ErrorPending
    <2>3. \A k \in {cur} : Settled(k)'
      BY <1>10, <2>2 DEF IgnoreError, Settled, manVars, At
    <2>4. \A k \in 0 .. (cur - 1) : Settled(k)'
      BY <1>10, <2>1, SettledStays DEF IgnoreError, SettledInv, manVars
    <2>5. \A k \in 0 .. (cur' - 1) : Settled(k)'
      BY <1>0, <1>10, <2>3, <2>4 DEF IgnoreError
    <2> QED
      BY <1>10, <2>5 DEF IgnoreError, IndexPending, ErrorPending
  <1>11. CASE AppendRow
    <2>1. Busy /\ ~closed
      BY <1>11 DEF manVars, AppendRow, Busy, workerVars
    <2>2. \A k \in 0 .. (cur' - 1) : Settled(k)'
      BY <1>11, <2>1, SettledStays DEF AppendRow, SettledInv, manVars, workerVars, history
    <2>3. imsg' <= 0 /\ cur' \in rows'
      BY <1>0, <1>11 DEF AppendRow
    <2>4. wpc' # "requeue" /\ wpc' # "reply"
      BY <1>11 DEF AppendRow, workerVars, TurnsAgree
    <2> QED
      BY <1>11, <2>2, <2>3, <2>4 DEF AppendRow, IndexPending, ErrorPending
  <1>12. CASE NotFinalized
    <2>1. Busy /\ ~closed
      BY <1>12 DEF NotFinalized, Busy, workerVars
    <2>2. PICK final \in Lookups : Push({At(cur)}, final)
      BY <1>12 DEF NotFinalized
    <2>3. At(cur) \in queue' \cup results /\ queue \subseteq queue'
      BY <2>1, <2>2, PushSeats, PushGrows
    <2>4. \A k \in 0 .. (cur' - 1) : Settled(k)'
      BY <1>12, <2>1, <2>3, SettledStays DEF NotFinalized, SettledInv, workerVars
    <2>5. wpc' # "requeue" /\ wpc' # "reply"
      BY <1>12 DEF NotFinalized, workerVars, TurnsAgree
    <2> QED
      BY <1>12, <2>3, <2>4, <2>5
      DEF NotFinalized, Report, IndexPending, ErrorPending, workerVars, At
  <1>13. ASSUME NEW e \in {"gone", "transient"}, FetchError(e) PROVE Goal
    <2>1. Busy /\ ~closed
      BY <1>13 DEF manVars, FetchError, Busy, workerVars
    <2>2. \A k \in 0 .. (cur' - 1) : Settled(k)'
      BY <1>13, <2>1, SettledStays DEF FetchError, SettledInv, manVars, workerVars, history
    <2>3. wpc' # "requeue" /\ wpc' # "reply"
      BY <1>13 DEF FetchError, workerVars, TurnsAgree
    <2> QED
      BY <1>13, <2>2, <2>3 DEF FetchError, Report, IndexPending, ErrorPending
  <1>14. CASE NothingToWrite \/ WriteRows \/ FailWrite
    <2>1. Busy /\ ~closed
      BY <1>14 DEF manVars, NothingToWrite, WriteRows, FailWrite, Busy, workerVars
    <2>2. \A k \in 0 .. (cur' - 1) : Settled(k)'
      BY <1>14, <2>1, SettledStays
      DEF NothingToWrite, WriteRows, FailWrite, SettledInv, manVars, workerVars, history
    <2>3. wpc' # "requeue" /\ wpc' # "reply"
      BY <1>14 DEF NothingToWrite, WriteRows, FailWrite, workerVars, TurnsAgree
    <2>4. ~IndexPending' /\ ~ErrorPending'
      BY <1>0, <1>14, <2>3 DEF NothingToWrite, WriteRows, FailWrite, IndexPending, ErrorPending
    <2>5. imsg' = INS_WRITE_SUCCESS /\ ipc' = "send" => \A k \in rows' : At(k)' \in results'
      BY <1>14 DEF NothingToWrite, WriteRows, FailWrite, workerVars, At
    <2> QED
      BY <2>2, <2>3, <2>4, <2>5
  <1>15. CASE Stop
    BY <1>15 DEF Stop, SeeHalt, Acknowledge, StopPush, StopInv, Busy, workerVars
  <1>16. CASE StopCall \/ StopTimeout
    BY <1>16, <1>a DEF StopCall, StopTimeout, manVars, workerVars, insertVars, history, Busy
  <1>17. CASE CloseHeap
    BY <1>17 DEF CloseHeap
  <1>18. CASE UNCHANGED vars
    BY <1>18, <1>a DEF vars, manVars, workerVars, insertVars, history, Busy
  <1> QED
    BY <1>1, <1>2, <1>3, <1>4, <1>5, <1>6, <1>7, <1>8, <1>9, <1>10, <1>11, <1>12,
       <1>13, <1>14, <1>15, <1>16, <1>17, <1>18
    DEF Next, Worker, Handshake, Insert
-----------------------------------------------------------------------------
(* Nothing but a skipped poll is lost *)

\* The worker's Requeue accounts for every poll of a batch: the tail is pushed,
\* and below the cutoff each index was written, dropped, skipped or pushed back.
LEMMA RequeueAccounts ==
  ASSUME TypeOK, TurnsAgree, MessagesInv, CutoffInv, StopInv, SetInv, SettledInv,
         Requeue, ~closed
  PROVE  Members \subseteq (queue \cup results \cup gone \cup lost)'
  <1>0. /\ batch \in Seq(Polls) /\ Len(batch) \in Nat /\ finalIndex \in Nat
        /\ rows \subseteq Nat /\ skipped \subseteq Nat
    BY DEF TypeOK, Positions
  <1>1. Busy /\ ~closed
    BY DEF Requeue, Busy
  <1>2. PICK final \in Lookups : Push(ToRequeue, final)
    BY DEF Requeue
  <1>3. /\ ToRequeue \subseteq queue' \cup results /\ queue \subseteq queue'
    BY <1>1, <1>2, PushSeats, PushGrows
  <1>4. results' = results /\ gone' = gone
    BY DEF Requeue
  <1>5. CASE wmsg = INS_WRITE_FAILED
    BY <1>3, <1>4, <1>5 DEF ToRequeue
  <1>6. CASE wmsg = INS_WRITE_SUCCESS
    <2>1. wmsg # INS_WRITE_FAILED
      BY <1>6 DEF INS_WRITE_SUCCESS, INS_WRITE_FAILED
    <2> SUFFICES ASSUME NEW i \in 0 .. (Len(batch) - 1)
                 PROVE  At(i) \in (queue \cup results \cup gone \cup lost)'
      BY <1>0, BatchMembers
    <2>2. CASE i >= finalIndex
      <3>1. At(i) \in ToRequeue
        BY <1>0, <2>1, <2>2 DEF ToRequeue, From
      <3> QED
        BY <1>3, <1>4, <3>1
    <2>3. CASE i < finalIndex
      <3>1. cur = Len(batch)
        BY DEF MessagesInv, Requeue
      <3>2. Settled(i)
        BY <1>0, <1>1, <3>1 DEF SettledInv
      <3>3. CASE i \in rows
        <4>1. At(i) \in results
          BY <1>1, <1>6, <3>3 DEF SettledInv, Requeue
        <4> QED
          BY <1>4, <4>1
      <3>4. CASE i \in skipped
        BY <1>6, <2>3, <3>4 DEF Requeue
      <3>5. CASE At(i) \in queue \cup results \cup gone
        BY <1>3, <1>4, <3>5
      <3> QED
        BY <3>2, <3>3, <3>4, <3>5 DEF Settled
    <2> QED
      BY <1>0, <2>2, <2>3
  <1> QED
    BY <1>5, <1>6 DEF MessagesInv, Requeue

\* Taking a poll from the heap puts it in the batch.
LEMMA TakeAccounts ==
  ASSUME NEW p, p \in Polls, TypeOK, Take(p)
  PROVE  Members' = Members \cup {p}
  <1>1. /\ batch \in Seq(Polls) /\ batch' = Append(batch, p)
    BY DEF TypeOK, Take
  <1>2. /\ DOMAIN batch = 1 .. Len(batch) /\ Len(batch) \in Nat
        /\ DOMAIN batch' = 1 .. (Len(batch) + 1)
        /\ \A k \in 1 .. Len(batch) : batch'[k] = batch[k]
        /\ batch'[Len(batch) + 1] = p
    BY <1>1
  <1> QED
    BY <1>2 DEF Members, Range

\* A step that takes nothing away keeps every poll accounted for.
LEMMA AccountedStays ==
  ASSUME OnlySkippedLost, batch' = batch, spc' # "timedout" => spc # "timedout",
         queue \subseteq queue', results \subseteq results', gone \subseteq gone',
         lost \subseteq lost', known' \subseteq known \cup queue' \cup results
  PROVE  OnlySkippedLost'
  BY DEF OnlySkippedLost, Accounted, Members

\* On an open heap a Push records as seated only what it queues.
LEMMA PushKnown ==
  ASSUME NEW S, NEW final, Push(S, final)
  PROVE  known' \subseteq known \cup queue'
  BY DEF Push

LEMMA NextLost ==
  TypeOK /\ TurnsAgree /\ MessagesInv /\ CutoffInv /\ StopInv /\ SetInv /\ SettledInv
    /\ OnlySkippedLost /\ [Next]_vars => OnlySkippedLost'
  <1> SUFFICES ASSUME TypeOK, TurnsAgree, MessagesInv, CutoffInv, StopInv, SetInv,
                      SettledInv, OnlySkippedLost, [Next]_vars
               PROVE  OnlySkippedLost'
    OBVIOUS
  <1>1. ASSUME NEW p \in Polls, Submit(p) PROVE OnlySkippedLost'
    <2>1. queue \subseteq queue' /\ known' \subseteq known \cup queue'
      BY <1>1, PushGrows, PushKnown DEF Submit
    <2> QED
      BY <1>1, <2>1, AccountedStays DEF Submit, workerVars
  <1>2. ASSUME NEW p \in Polls, Take(p) PROVE OnlySkippedLost'
    <2>1. Members' = Members \cup {p}
      BY <1>2, TakeAccounts
    <2> QED
      BY <1>2, <2>1 DEF Take, OnlySkippedLost, Accounted, history
  <1>3. CASE StartInsert \/ AwaitStatus
    BY <1>3, AccountedStays DEF StartInsert, AwaitStatus, manVars, history
  <1>4. CASE Requeue
    <2>1. queue \subseteq queue' /\ known' \subseteq known \cup queue'
      BY <1>4, PushGrows, PushKnown DEF Requeue
    <2>2. results' = results /\ gone' = gone /\ lost \subseteq lost' /\ spc' = spc
      BY <1>4 DEF Requeue
    <2>3. spc # "timedout" => Members \subseteq (queue \cup results \cup gone \cup lost)'
      BY <1>4, RequeueAccounts, BusyIsOpen DEF Requeue, Busy
    <2> QED
      BY <2>1, <2>2, <2>3 DEF OnlySkippedLost, Accounted
  <1>5. CASE Cleanup
    <2>1. queue \subseteq queue' /\ known' \subseteq known \cup queue'
      BY <1>5, PushGrows, PushKnown DEF Cleanup
    <2> QED
      BY <1>5, <2>1, AccountedStays DEF Cleanup
  <1>6. CASE Handshake
    BY <1>6, AccountedStays DEF Handshake, ReceiveErr, ReceiveStatus, ContinueAfterIndex,
       DropGone, IgnoreError, manVars, history
  <1>7. CASE NotFinalized
    <2>1. queue \subseteq queue' /\ known' \subseteq known \cup queue'
      BY <1>7, PushGrows, PushKnown DEF NotFinalized
    <2> QED
      BY <1>7, <2>1, AccountedStays DEF NotFinalized, workerVars
  <1>8. CASE AppendRow \/ FetchError("gone") \/ FetchError("transient")
              \/ NothingToWrite \/ WriteRows \/ FailWrite
    BY <1>8, AccountedStays DEF AppendRow, FetchError, NothingToWrite, WriteRows,
       FailWrite, manVars, workerVars, history
  <1>9. CASE SeeHalt \/ Acknowledge
    BY <1>9, AccountedStays DEF SeeHalt, Acknowledge, manVars, history
  <1>10. CASE StopPush
    <2>1. queue \subseteq queue' /\ known' \subseteq known \cup queue'
      BY <1>10, PushGrows, PushKnown DEF StopPush
    <2> QED
      BY <1>10, <2>1, AccountedStays DEF StopPush, workerVars
  <1>11. CASE StopCall \/ StopTimeout \/ CloseHeap
    BY <1>11, AccountedStays DEF StopCall, StopTimeout, CloseHeap, manVars, workerVars, history
  <1>12. CASE UNCHANGED vars
    BY <1>12, AccountedStays DEF vars, manVars, workerVars, history
  <1> QED
    BY <1>1, <1>2, <1>3, <1>4, <1>5, <1>6, <1>7, <1>8, <1>9, <1>10, <1>11, <1>12
    DEF Next, Worker, Insert, Stop

-----------------------------------------------------------------------------
(* A stopped worker's batch is given back *)

LEMMA NextReturned ==
  TypeOK /\ StopInv /\ SetInv /\ StopReturnsBatch /\ [Next]_vars => StopReturnsBatch'
  <1> SUFFICES ASSUME TypeOK, StopInv, SetInv, StopReturnsBatch, [Next]_vars,
                      spc' = "done"
               PROVE  Members' \subseteq queue' \cup results'
    BY DEF StopReturnsBatch
  <1>1. CASE StopPush
    <2>1. ~closed
      BY <1>1 DEF StopPush, StopInv
    <2>2. PICK final \in Lookups : Push(Members, final)
      BY <1>1 DEF StopPush
    <2>3. Members \subseteq queue' \cup results
      BY <2>1, <2>2, PushSeats
    <2> QED
      BY <1>1, <2>3 DEF StopPush, workerVars, Members
  <1>2. CASE ~StopPush
    <2>1. spc = "done"
      BY <1>2 DEF Next, Submit, Worker, Take, StartInsert, AwaitStatus, Requeue, Cleanup,
         Handshake, ReceiveErr, ReceiveStatus, ContinueAfterIndex, DropGone, IgnoreError,
         Insert, AppendRow, NotFinalized, FetchError, NothingToWrite, WriteRows, FailWrite,
         Stop, SeeHalt, Acknowledge, StopCall, StopTimeout, CloseHeap, vars
    <2>2. wpc = "stopped" /\ Members \subseteq queue \cup results
      BY <2>1 DEF StopInv, StopReturnsBatch
    <2> SUFFICES /\ batch' = batch /\ queue \subseteq queue' /\ results \subseteq results'
      BY <2>2 DEF Members
    <2>3. ASSUME NEW p \in Polls, Submit(p)
          PROVE  batch' = batch /\ queue \subseteq queue' /\ results \subseteq results'
      BY <2>3, PushGrows DEF Submit, workerVars
    <2>4. CASE NotFinalized
      BY <2>4, PushGrows DEF NotFinalized, workerVars
    <2>5. CASE Worker \/ Handshake \/ Stop
      BY <1>2, <2>1, <2>2, <2>5 DEF Worker, Take, StartInsert, AwaitStatus, Requeue, Cleanup,
         Handshake, ReceiveErr, ReceiveStatus, ContinueAfterIndex, DropGone, IgnoreError,
         Stop, SeeHalt, Acknowledge
    <2>6. CASE Insert /\ ~NotFinalized
      BY <2>6 DEF Insert, AppendRow, FetchError, NothingToWrite, WriteRows, FailWrite,
         manVars, workerVars
    <2>7. CASE StopCall \/ StopTimeout \/ CloseHeap
      BY <2>7 DEF StopCall, StopTimeout, CloseHeap, manVars, workerVars
    <2>8. CASE UNCHANGED vars
      BY <2>8 DEF vars, manVars, workerVars
    <2> QED
      BY <2>3, <2>4, <2>5, <2>6, <2>7, <2>8 DEF Next
  <1> QED
    BY <1>1, <1>2

-----------------------------------------------------------------------------
(* The theorems *)

LEMMA InitIInv == Init => IInv
  <1> SUFFICES ASSUME Init PROVE IInv
    OBVIOUS
  <1>1. TypeOK
    BY InitTypeOK
  <1>2. TurnsAgree /\ StopInv /\ SetInv
    BY DEF Init, TurnsAgree, StopInv, SetInv
  <1>3. Len(batch) = 0 /\ Members = {}
    BY DEF Init, Members, Range
  <1>4. MessagesInv /\ CutoffInv
    BY <1>3 DEF Init, MessagesInv, CutoffInv, Busy
  <1>5. SettledInv /\ OnlySkippedLost /\ StopReturnsBatch
    BY DEF Init, SettledInv, Busy, OnlySkippedLost, StopReturnsBatch
  <1> QED
    BY <1>1, <1>2, <1>4, <1>5 DEF IInv

LEMMA NextIInv == IInv /\ [Next]_vars => IInv'
  BY NextTypeOK, NextTurns, NextMessages, NextCutoff, NextStop, NextSet, NextSettled,
     NextLost, NextReturned DEF IInv

\* IInv is an inductive invariant of the specification.
THEOREM Invariance == Spec => []IInv
  BY InitIInv, NextIInv, PTL DEF Spec

\* The variables of the worker, of Insert and of Stop keep their types: no
\* index, cutoff or status ever leaves its range, whatever the batch size.
THEOREM TypeCorrect == Spec => []TypeOK
  <1>1. IInv => TypeOK
    BY DEF IInv
  <1> QED
    BY <1>1, Invariance, PTL

\* The worker and Insert never both wait to receive (handleInsertStatus and
\* handle_insertion_err always agree on who speaks next).
THEOREM HandshakeAgrees == Spec => []TurnsAgree
  <1>1. IInv => TurnsAgree
    BY DEF IInv
  <1> QED
    BY <1>1, Invariance, PTL

\* A written batch has no row at or above the cutoff, and the slice from the
\* cutoff on never leaves the batch.
THEOREM CutoffCorrect == Spec => [](CutoffInBatch /\ CutoffCoversRows)
  <1>1. IInv => CutoffInBatch /\ CutoffCoversRows
    BY DEF IInv, CutoffInv, CutoffInBatch, CutoffCoversRows, Busy, IndexPending, TurnsAgree,
       TypeOK, Positions, Statuses, INS_WRITE_SUCCESS
  <1> QED
    BY <1>1, Invariance, PTL

\* Without a timed-out Stop, only a poll skipped below the cutoff of a written
\* batch is lost.
THEOREM LossIsSkip == Spec => []OnlySkippedLost
  <1>1. IInv => OnlySkippedLost
    BY DEF IInv
  <1> QED
    BY <1>1, Invariance, PTL

\* A Stop that does not time out gives the whole batch back.
THEOREM StopIsSafe == Spec => []StopReturnsBatch
  <1>1. IInv => StopReturnsBatch
    BY DEF IInv
  <1> QED
    BY <1>1, Invariance, PTL
-----------------------------------------------------------------------------
(* The worker and its Insert implement a pool of one worker *)

\* A worker in a batch is in Insert's hands, and takes from no heap.
LEMMA PoolPlaces ==
  ASSUME TypeOK
  PROVE  /\ PoolPc \notin Pool!Asleep
         /\ wpc = "fill" <=> PoolPc = "loop"
         /\ Busy <=> PoolPc = "busy"
         /\ wpc \in {"cleanup", "ack", "stopped"} => PoolPc = wpc
  BY DEF TypeOK, PoolPc, Busy, Pool!Asleep

\* No worker of this pool sleeps, so there is none to release.
LEMMA NoneAsleep ==
  ASSUME NEW pc, pc \notin Pool!Asleep
  PROVE  Pool!Released([w \in Worker1 |-> pc]) = [w \in Worker1 |-> pc]
  BY DEF Pool!Released

\* A Push is one of the pool's: on an open heap the ids in the set are the
\* queue's, and on a closed one nothing is queued.
LEMMA PushInPool ==
  ASSUME NEW S, NEW final \in Lookups, Push(S, final), SetInv
  PROVE  \E f \in Pool!Lookups : Pool!Push(S, f)
  <1>1. final \in Pool!Lookups
    BY DEF Lookups, Pool!Lookups
  <1>2. Pool!Push(S, final)
    BY DEF Push, Pool!Push, SetInv
  <1> QED
    BY <1>1, <1>2

\* It wakes nobody up.
LEMMA WakesNobody ==
  ASSUME NEW pc, pc \notin Pool!Asleep, PoolPc' = pc
  PROVE  Pool!PushWakes([w \in Worker1 |-> pc])
  <1>1. Pool!Released([w \in Worker1 |-> pc]) = [w \in Worker1 |-> pc]
    BY NoneAsleep
  <1>2. [w \in Worker1 |-> PoolPc]' = [w \in Worker1 |-> pc]
    OBVIOUS
  <1> QED
    BY <1>1, <1>2 DEF Pool!PushWakes

\* What the pool does not see leaves it alone.
LEMMA PoolStutters ==
  ASSUME PoolPc' = PoolPc, Running' = Running, batch' = batch, spc' = spc,
         queue' = queue, results' = results, closed' = closed,
         known' = known, gone' = gone, lost' = lost
  PROVE  UNCHANGED Pool!vars
  <1>1. Members' = Members /\ PoolClose' = PoolClose
    BY DEF Members, PoolClose
  <1> QED
    BY <1>1 DEF Pool!vars, Pool!queueVars, Pool!workerVars, Pool!stopVars, Pool!history

\* A batch holds no more polls than its length.
LEMMA MembersBound ==
  ASSUME batch \in Seq(Polls)
  PROVE  /\ IsFiniteSet(Members)
         /\ Cardinality(Members) \in Nat /\ Cardinality(Members) <= Len(batch)
  <1>1. Len(batch) \in Nat /\ DOMAIN batch = 1 .. Len(batch)
    OBVIOUS
  <1>2. IsFiniteSet(1 .. Len(batch)) /\ Cardinality(1 .. Len(batch)) = Len(batch)
    BY <1>1, FS_Interval
  <1>3. Members = {batch[k] : k \in 1 .. Len(batch)}
    BY <1>1 DEF Members, Range
  <1>4. batch \in Surjection(1 .. Len(batch), Members)
    BY <1>1, <1>3 DEF Surjection
  <1>5. IsFiniteSet(Members) /\ Cardinality(Members) <= Cardinality(1 .. Len(batch))
    BY <1>2, <1>4, FS_Surjection
  <1>6. Cardinality(Members) \in Nat
    BY <1>5, FS_CardinalityType
  <1> QED
    BY <1>2, <1>5, <1>6

\* The pool counts as this module does.
LEMMA PoolCounts ==
  ASSUME NEW S
  PROVE  Pool!Cardinality(S) = Cardinality(S)
  BY DEF Pool!Cardinality, Cardinality

\* The worker and Submit: each step is the pool's step of the same name, and a
\* written batch finishes with what it gave back and what was skipped in it.
LEMMA PoolWorkerStep ==
  ASSUME IInv, (\E p \in Polls : Submit(p)) \/ Worker
  PROVE  Pool!Next \/ UNCHANGED Pool!vars
  <1>0. /\ TypeOK /\ TurnsAgree /\ MessagesInv /\ CutoffInv /\ StopInv /\ SetInv /\ SettledInv
        /\ batch \in Seq(Polls) /\ Len(batch) \in Nat /\ cur \in Nat /\ finalIndex \in Nat
    BY DEF IInv, TypeOK
  <1>p. /\ PoolPc \notin Pool!Asleep /\ (wpc = "fill" <=> PoolPc = "loop")
        /\ (Busy <=> PoolPc = "busy")
        /\ wpc \in {"cleanup", "ack", "stopped"} => PoolPc = wpc
    BY <1>0, PoolPlaces
  <1>w. "worker" \in Worker1 /\ \A w \in Worker1 : w = "worker"
    BY DEF Worker1
  <1>1. ASSUME NEW p \in Polls, Submit(p) PROVE Pool!Submit(p)
    <2>1. PICK final \in Lookups : Push({p}, final)
      BY <1>1 DEF Submit
    <2>2. \E f \in Pool!Lookups : Pool!Push({p}, f)
      BY <1>0, <2>1, PushInPool
    <2>3. PoolPc' = PoolPc /\ Members' = Members /\ Running' = Running /\ PoolClose' = PoolClose
      BY <1>1 DEF Submit, workerVars, insertVars, PoolPc, Busy, Members, Running, PoolClose
    <2>4. Pool!PushWakes([w \in Worker1 |-> PoolPc])
      BY <1>p, <2>3, WakesNobody
    <2> QED
      BY <1>1, <2>2, <2>3, <2>4 DEF Submit, Pool!Submit, Pool!stopVars
  <1>2. ASSUME NEW p \in Polls, Take(p) PROVE Pool!Take("worker", p)
    <2>1. Members' = Members \cup {p}
      BY <1>0, <1>2, TakeAccounts
    <2>2. Pool!Cardinality(Members) < MaxBatch
      <3>1. Cardinality(Members) \in Nat /\ Cardinality(Members) <= Len(batch)
        BY <1>0, MembersBound
      <3>2. Cardinality(Members) < MaxBatch
        BY <1>0, <1>2, <3>1 DEF Take
      <3> QED
        BY <3>2, PoolCounts
    <2>3. PoolPc' = PoolPc /\ Running' = Running /\ PoolClose' = PoolClose
      <3>1. ~Running /\ ~Running'
        BY <1>0, <1>2 DEF Take, insertVars, Running, TurnsAgree
      <3>2. Running' = Running
        BY <3>1 DEF Running
      <3> QED
        BY <1>2, <3>2 DEF Take, PoolPc, Busy, PoolClose
    <2>4. PoolPc = "loop" /\ Unhalted
      BY <1>2, <1>p DEF Take
    <2>5. Pool!Released([w \in Worker1 |-> PoolPc]) = [w \in Worker1 |-> PoolPc]
      BY <1>p, NoneAsleep
    <2>6. [w \in Worker1 |-> Members]' = [[w \in Worker1 |-> Members] EXCEPT !["worker"] = @ \cup {p}]
      BY <1>w, <2>1
    <2>7. [w \in Worker1 |-> PoolPc]' = [w \in Worker1 |-> PoolPc]
      BY <2>3
    <2>8. Pool!Unhalted("worker")
      BY <1>w, <2>4 DEF Pool!Unhalted, Unhalted
    <2> QED
      BY <1>2, <1>w, <2>2, <2>3, <2>4, <2>5, <2>6, <2>7, <2>8
      DEF Take, history, Pool!Take, Pool!stopVars, Pool!history
  <1>3. CASE StartInsert
    <2>1. PoolPc = "loop" /\ Members # {} /\ ~Running
      BY <1>0, <1>3, <1>p, BatchMembers DEF StartInsert, Running
    <2>2. PoolPc' = "busy" /\ Members' = Members /\ Running' /\ PoolClose' = PoolClose
      BY <1>3 DEF StartInsert, manVars, PoolPc, Busy, Members, Running, PoolClose
    <2>3. Pool!StartInsert("worker")
      BY <1>3, <1>w, <2>1, <2>2 DEF StartInsert, manVars, history,
         Pool!StartInsert, Pool!Goto, Pool!queueVars, Pool!stopVars, Pool!history
    <2> QED
      BY <1>w, <2>3 DEF Pool!Next, Pool!WorkerStep
  <1>4. CASE AwaitStatus
    <2>1. PoolPc' = PoolPc /\ Running' = Running
      BY <1>4 DEF AwaitStatus, insertVars, PoolPc, Busy, Running
    <2> QED
      BY <1>4, <2>1, PoolStutters DEF AwaitStatus, manVars, history
  <1>5. CASE Requeue
    <2> DEFINE L == IF wmsg = INS_WRITE_SUCCESS
                    THEN {At(k) : k \in {j \in skipped : j < finalIndex}} ELSE {}
    <2>1. PICK final \in Lookups : Push(ToRequeue, final)
      BY <1>5 DEF Requeue
    <2>2. \E f \in Pool!Lookups : Pool!Push(ToRequeue, f)
      BY <1>0, <2>1, PushInPool
    <2>3. PoolPc = "busy" /\ ~Running /\ cur = Len(batch)
      BY <1>0, <1>5, <1>p DEF Requeue, Busy, TurnsAgree, MessagesInv, Running
    <2>4. PoolPc' = "loop" /\ ~Running' /\ Members' = {} /\ PoolClose' = PoolClose
      <3>1. batch' = <<>> /\ ~Running'
        BY <1>0, <1>5 DEF Requeue, TurnsAgree, Running
      <3>2. Members' = {}
        BY <3>1 DEF Members, Range
      <3>3. PoolPc' = "loop"
        BY <1>5 DEF Requeue, PoolPc, Busy
      <3>4. PoolClose' = PoolClose
        BY <1>5 DEF Requeue, PoolClose
      <3> QED
        BY <3>1, <3>2, <3>3, <3>4
    <2>5. ToRequeue \in SUBSET Members
      BY <1>0, BatchMembers DEF ToRequeue
    <2>6. L \in SUBSET Members
      <3>1. \A k \in skipped : k \in 0 .. (Len(batch) - 1)
        BY <1>0 DEF TypeOK, Positions, MessagesInv
      <3> QED
        BY <1>0, <3>1, BatchMembers
    <2>7. lost' = lost \cup L
      BY <1>5 DEF Requeue
    <2>8. closed \/ Members \subseteq ToRequeue \cup L \cup queue \cup results \cup gone
      <3> HIDE DEF L
      <3> SUFFICES ASSUME ~closed, NEW i \in 0 .. (Len(batch) - 1)
                   PROVE  At(i) \in ToRequeue \cup L \cup queue \cup results \cup gone
        BY <1>0, BatchMembers
      <3>1. wmsg = INS_WRITE_SUCCESS \/ ToRequeue = Members
        BY <1>0, <1>5 DEF Requeue, MessagesInv, ToRequeue
      <3>2. CASE ToRequeue = Members
        BY <1>0, <3>2, BatchMembers
      <3>3. CASE wmsg = INS_WRITE_SUCCESS /\ i >= finalIndex
        BY <1>0, <3>3 DEF ToRequeue, From, INS_WRITE_SUCCESS, INS_WRITE_FAILED
      <3>4. CASE wmsg = INS_WRITE_SUCCESS /\ i < finalIndex
        <4>1. Busy /\ wpc = "requeue"
          BY <1>5 DEF Requeue, Busy
        <4>2. Settled(i) /\ \A k \in rows : At(k) \in results
          BY <1>0, <2>3, <3>4, <4>1 DEF SettledInv
        <4>3. i \in skipped => At(i) \in L
          BY <3>4 DEF L
        <4> QED
          BY <4>2, <4>3 DEF Settled
      <3> QED
        BY <1>0, <3>1, <3>2, <3>3, <3>4
    <2>9. Pool!PushWakes(Pool!Goto("worker", "loop"))
      <3>1. "loop" \notin Pool!Asleep
        BY DEF Pool!Asleep
      <3>2. Pool!Goto("worker", "loop") = [w \in Worker1 |-> "loop"]
        BY <1>w DEF Pool!Goto
      <3>3. Pool!PushWakes([w \in Worker1 |-> "loop"])
        BY <2>4, <3>1, WakesNobody
      <3> QED
        BY <3>2, <3>3
    <2>10. Pool!Finish("worker")
      <3> HIDE DEF L
      <3>1. \E Q, M \in SUBSET Members :
              /\ closed \/ Members \subseteq Q \cup M \cup queue \cup results \cup gone
              /\ \E f \in Pool!Lookups : Pool!Push(Q, f)
              /\ lost' = lost \cup M
        BY <2>2, <2>5, <2>6, <2>7, <2>8
      <3>2. [w \in Worker1 |-> Members]["worker"] = Members
        BY <1>w
      <3>3. /\ [w \in Worker1 |-> PoolPc]["worker"] = "busy"
            /\ ~[w \in Worker1 |-> Running]["worker"]
        BY <1>w, <2>3
      <3>4. /\ [w \in Worker1 |-> Members]'
               = [[w \in Worker1 |-> Members] EXCEPT !["worker"] = {}]
            /\ UNCHANGED [w \in Worker1 |-> Running]
        <4>1. Running' = Running
          BY <2>3, <2>4 DEF Running
        <4> QED
          BY <2>4, <4>1 DEF Worker1
      <3>5. UNCHANGED <<results, closed, spc, gone>> /\ PoolClose' = PoolClose
        BY <1>5, <2>4 DEF Requeue
      <3> QED
        BY <2>9, <3>1, <3>2, <3>3, <3>4, <3>5 DEF Pool!Finish, Pool!stopVars
    <2> QED
      BY <1>w, <2>10 DEF Pool!Next, Pool!WorkerStep
  <1>6. CASE Cleanup
    <2>1. PICK final \in Lookups : Push(From(finalIndex), final)
      BY <1>6 DEF Cleanup
    <2>2. From(finalIndex) \in SUBSET Members
      BY <1>0, BatchMembers
    <2>3. \E f \in Pool!Lookups : Pool!Push(From(finalIndex), f)
      BY <1>0, <2>1, PushInPool
    <2>4. PoolPc = "cleanup"
      BY <1>6, <1>p DEF Cleanup
    <2>5. PoolPc' = "ack" /\ Running' = Running /\ Members' = Members /\ PoolClose' = PoolClose
      BY <1>6 DEF Cleanup, insertVars, PoolPc, Busy, Running, Members, PoolClose
    <2>6. Pool!PushWakes(Pool!Goto("worker", "ack"))
      <3>1. "ack" \notin Pool!Asleep
        BY DEF Pool!Asleep
      <3>2. Pool!Goto("worker", "ack") = [w \in Worker1 |-> "ack"]
        BY <1>w DEF Pool!Goto
      <3>3. Pool!PushWakes([w \in Worker1 |-> "ack"])
        BY <2>5, <3>1, WakesNobody
      <3> QED
        BY <3>2, <3>3
    <2>7. Pool!Cleanup("worker")
      BY <1>6, <1>w, <2>2, <2>3, <2>4, <2>5, <2>6 DEF Cleanup, Pool!Cleanup, Pool!stopVars
    <2> QED
      BY <1>w, <2>7 DEF Pool!Next, Pool!WorkerStep
  <1> QED
    BY <1>1, <1>2, <1>3, <1>4, <1>5, <1>6, <1>w DEF Worker, Pool!Next, Pool!WorkerStep

\* Most of what the worker and Insert say to each other is hidden from the pool;
\* what shows is a dropped poll, a poll pushed back, and the end of Insert.
LEMMA PoolInsertStep ==
  ASSUME IInv, Handshake \/ Insert
  PROVE  Pool!Next \/ UNCHANGED Pool!vars
  <1>0. /\ TypeOK /\ TurnsAgree /\ MessagesInv /\ CutoffInv /\ StopInv /\ SetInv /\ SettledInv
        /\ batch \in Seq(Polls) /\ Len(batch) \in Nat /\ cur \in Nat /\ finalIndex \in Nat
        /\ rows \subseteq Nat
    BY DEF IInv, TypeOK, Positions
  <1>p. /\ PoolPc \notin Pool!Asleep
        /\ (Busy <=> PoolPc = "busy")
    BY <1>0, PoolPlaces
  <1>w. "worker" \in Worker1 /\ \A w \in Worker1 : w = "worker"
    BY DEF Worker1
  <1>m. \A i \in 0 .. (Len(batch) - 1) : At(i) \in Members /\ At(i) \in Polls
    BY <1>0, BatchMembers
  <1> USE DEF INS_WRITE_FAILED, INS_WRITE_SUCCESS, INS_ERR_NEW
  <1>1. CASE ReceiveErr
    <2>1. PoolPc' = PoolPc /\ Running' = Running
      BY <1>0, <1>1 DEF ReceiveErr, PoolPc, Busy, Running
    <2> QED
      BY <1>1, <2>1, PoolStutters DEF ReceiveErr, manVars, history
  <1>2. CASE ReceiveStatus
    <2>1. PoolPc' = PoolPc
      BY <1>2 DEF ReceiveStatus, PoolPc, Busy
    <2>2. Running' = Running
      <3>1. CASE imsg \in {INS_WRITE_FAILED, INS_WRITE_SUCCESS}
        <4>1. ~Running /\ ~Running'
          BY <1>0, <1>2, <3>1 DEF ReceiveStatus, Running, MessagesInv
        <4> QED
          BY <4>1 DEF Running
      <3>2. CASE imsg \notin {INS_WRITE_FAILED, INS_WRITE_SUCCESS}
        <4>1. Running /\ Running'
          BY <1>0, <1>2, <3>2 DEF ReceiveStatus, Running, MessagesInv
        <4> QED
          BY <4>1 DEF Running
      <3> QED
        BY <3>1, <3>2
    <2> QED
      BY <1>2, <2>1, <2>2, PoolStutters DEF ReceiveStatus, manVars, history
  <1>3. CASE ContinueAfterIndex \/ IgnoreError
    <2>1. PoolPc' = PoolPc
      BY <1>3 DEF ContinueAfterIndex, IgnoreError, PoolPc, Busy
    <2>2. Running /\ Running'
      BY <1>0, <1>3 DEF ContinueAfterIndex, IgnoreError, Running, MessagesInv
    <2>3. Running' = Running
      BY <2>2 DEF Running
    <2> QED
      BY <1>3, <2>1, <2>3, PoolStutters DEF ContinueAfterIndex, IgnoreError, manVars, history
  <1>4. CASE DropGone
    <2>1. PoolPc = "busy" /\ PoolPc' = "busy"
      BY <1>4 DEF DropGone, PoolPc, Busy
    <2>2. Running /\ Running' /\ cur \in 0 .. (Len(batch) - 1)
      BY <1>0, <1>4 DEF DropGone, Running, MessagesInv
    <2>3. Running' = Running
      BY <2>2 DEF Running
    <2>4. Members' = Members /\ PoolClose' = PoolClose
      BY <1>4 DEF DropGone, manVars, Members, PoolClose
    <2>5. Pool!Drop("worker", At(cur))
      BY <1>4, <1>m, <1>w, <2>1, <2>2, <2>3, <2>4
      DEF DropGone, manVars, Pool!Drop, Pool!queueVars, Pool!workerVars, Pool!stopVars
    <2> QED
      BY <1>m, <1>w, <2>2, <2>5 DEF Pool!Next, Pool!InsertStep
  <1>5. CASE AppendRow \/ FetchError("gone") \/ FetchError("transient")
    <2>1. PoolPc' = PoolPc
      BY <1>5 DEF AppendRow, FetchError, workerVars, PoolPc, Busy
    <2>2. Running /\ Running'
      BY <1>0, <1>5 DEF AppendRow, FetchError, Report, workerVars, Running
    <2>3. Running' = Running
      BY <2>2 DEF Running
    <2> QED
      BY <1>5, <2>1, <2>3, PoolStutters DEF AppendRow, FetchError, manVars, workerVars, history
  <1>6. CASE NotFinalized
    <2>1. PICK final \in Lookups : Push({At(cur)}, final)
      BY <1>6 DEF NotFinalized
    <2>2. \E f \in Pool!Lookups : Pool!Push({At(cur)}, f)
      BY <1>0, <2>1, PushInPool
    <2>3. PoolPc' = PoolPc /\ Members' = Members /\ PoolClose' = PoolClose
      BY <1>6 DEF NotFinalized, workerVars, PoolPc, Busy, Members, PoolClose
    <2>4. Running /\ Running' /\ cur \in 0 .. (Len(batch) - 1)
      BY <1>0, <1>6 DEF NotFinalized, Report, workerVars, Running
    <2>5. Running' = Running
      BY <2>4 DEF Running
    <2>6. Pool!PushWakes([w \in Worker1 |-> PoolPc])
      BY <1>p, <2>3, WakesNobody
    <2>7. Pool!Retry("worker", At(cur))
      BY <1>6, <1>m, <1>w, <2>2, <2>3, <2>4, <2>5, <2>6
      DEF NotFinalized, Pool!Retry, Pool!stopVars
    <2> QED
      BY <1>m, <1>w, <2>4, <2>7 DEF Pool!Next, Pool!InsertStep
  <1>7. CASE NothingToWrite \/ WriteRows \/ FailWrite
    <2>1. PoolPc' = PoolPc /\ Members' = Members /\ PoolClose' = PoolClose
      BY <1>7 DEF NothingToWrite, WriteRows, FailWrite, manVars, workerVars, PoolPc, Busy,
         Members, PoolClose
    <2>2. Running /\ ~Running'
      BY <1>0, <1>7 DEF NothingToWrite, WriteRows, FailWrite, workerVars, Running
    <2>3. \E W \in SUBSET Members : results' = results \cup W
      <3>1. CASE NothingToWrite \/ FailWrite
        <4>1. results' = results \cup {} /\ {} \in SUBSET Members
          BY <3>1 DEF NothingToWrite, FailWrite, manVars
        <4> QED
          BY <4>1
      <3>2. CASE WriteRows
        <4>1. \A k \in rows : k \in 0 .. (Len(batch) - 1)
          BY <1>0 DEF MessagesInv
        <4>2. {At(k) : k \in rows} \in SUBSET Members
          BY <1>m, <4>1
        <4> QED
          BY <3>2, <4>2 DEF WriteRows
      <3> QED
        BY <1>7, <3>1, <3>2
    <2>4. [w \in Worker1 |-> Running]'
            = [[w \in Worker1 |-> Running] EXCEPT !["worker"] = FALSE]
      <3>1. Running' = FALSE
        BY <2>2 DEF Running
      <3> QED
        BY <3>1 DEF Worker1
    <2>5. Pool!EndInsert("worker")
      BY <1>7, <1>w, <2>1, <2>2, <2>3, <2>4
      DEF NothingToWrite, WriteRows, FailWrite, manVars, history, Pool!EndInsert,
          Pool!stopVars, Pool!history
    <2> QED
      BY <1>w, <2>5 DEF Pool!Next, Pool!InsertStep
  <1> QED
    BY <1>1, <1>2, <1>3, <1>4, <1>5, <1>6, <1>7 DEF Handshake, Insert

\* Stop and Close are the pool's own, for its one worker.
LEMMA PoolStopStep ==
  ASSUME IInv, Stop \/ StopCall \/ StopTimeout \/ CloseHeap
  PROVE  Pool!Next
  <1>0. /\ TypeOK /\ StopInv /\ SetInv
        /\ batch \in Seq(Polls)
    BY DEF IInv, TypeOK
  <1>p. /\ PoolPc \notin Pool!Asleep /\ (wpc = "fill" <=> PoolPc = "loop")
        /\ (Busy <=> PoolPc = "busy")
        /\ wpc \in {"cleanup", "ack", "stopped"} => PoolPc = wpc
    BY <1>0, PoolPlaces
  <1>w. "worker" \in Worker1 /\ Worker1 = {"worker"} /\ \A w \in Worker1 : w = "worker"
    BY DEF Worker1
  <1>1. CASE StopCall
    <2>1. ~closed /\ PoolClose # "closed" /\ PoolClose' = "stopping"
      BY <1>0, <1>1 DEF StopCall, manVars, StopInv, PoolClose
    <2>2. PoolPc # "unstarted" /\ PoolPc' = PoolPc /\ Running' = Running /\ Members' = Members
      BY <1>0, <1>1 DEF StopCall, workerVars, insertVars, PoolPc, Busy, Running, Members, TypeOK
    <2>3. Pool!Released([w \in Worker1 |-> PoolPc]) = [w \in Worker1 |-> PoolPc]
      BY <1>p, NoneAsleep
    <2>4. [w \in Worker1 |-> spc]' = [[w \in Worker1 |-> spc] EXCEPT !["worker"] = "send"]
      BY <1>1, <1>w DEF StopCall
    <2>5. (spc = "timedout")' = (spc = "timedout")
      BY <1>1 DEF StopCall
    <2>6. Pool!StopCall("worker")
      BY <1>1, <1>w, <2>1, <2>2, <2>3, <2>4, <2>5
      DEF StopCall, manVars, history, Pool!StopCall, Pool!queueVars, Pool!history
    <2> QED
      BY <1>w, <2>6 DEF Pool!Next, Pool!StopStep
  <1>2. CASE SeeHalt
    <2>1. PoolPc \in {"loop", "busy"} /\ PoolPc' = "cleanup"
      BY <1>2 DEF SeeHalt, PoolPc, Busy
    <2>2. Running' = Running /\ Members' = Members /\ PoolClose' = PoolClose
      BY <1>2 DEF SeeHalt, manVars, insertVars, Running, Members, PoolClose
    <2>3. Pool!SeeHalt("worker")
      BY <1>2, <1>w, <2>1, <2>2 DEF SeeHalt, manVars, history, Pool!SeeHalt, Pool!Goto,
         Pool!queueVars, Pool!history
    <2> QED
      BY <1>w, <2>3 DEF Pool!Next, Pool!StopStep
  <1>3. CASE Acknowledge
    <2>1. PoolPc = "ack" /\ PoolPc' = "stopped"
      BY <1>3 DEF Acknowledge, PoolPc, Busy
    <2>2. Running' = Running /\ Members' = Members /\ PoolClose' = PoolClose
      BY <1>3 DEF Acknowledge, manVars, insertVars, Running, Members, PoolClose
    <2>3. Pool!Acknowledge("worker")
      BY <1>3, <1>w, <2>1, <2>2 DEF Acknowledge, manVars, history, Pool!Acknowledge,
         Pool!Goto, Pool!queueVars, Pool!history
    <2> QED
      BY <1>w, <2>3 DEF Pool!Next, Pool!StopStep
  <1>4. CASE StopPush
    <2>1. PICK final \in Lookups : Push(Members, final)
      BY <1>4 DEF StopPush
    <2>2. \E f \in Pool!Lookups : Pool!Push(Members, f)
      BY <1>0, <2>1, PushInPool
    <2>3. PoolPc' = PoolPc /\ Running' = Running /\ Members' = Members /\ PoolClose' = PoolClose
      BY <1>4 DEF StopPush, workerVars, insertVars, PoolPc, Busy, Running, Members, PoolClose
    <2>4. Pool!PushWakes([w \in Worker1 |-> PoolPc])
      BY <1>p, <2>3, WakesNobody
    <2>5. Pool!StopPush("worker")
      BY <1>4, <1>w, <2>2, <2>3, <2>4 DEF StopPush, Pool!StopPush
    <2> QED
      BY <1>w, <2>5 DEF Pool!Next, Pool!StopStep
  <1>5. CASE StopTimeout
    <2>1. PoolPc' = PoolPc /\ Running' = Running /\ Members' = Members /\ PoolClose' = PoolClose
      BY <1>5 DEF StopTimeout, manVars, workerVars, insertVars, PoolPc, Busy, Running, Members,
         PoolClose
    <2>2. Pool!StopTimeout("worker")
      BY <1>5, <1>w, <2>1 DEF StopTimeout, manVars, history, Pool!StopTimeout,
         Pool!queueVars, Pool!workerVars, Pool!history
    <2> QED
      BY <1>w, <2>2 DEF Pool!Next
  <1>6. CASE CloseHeap
    <2>1. PoolPc' = PoolPc /\ Running' = Running /\ Members' = Members
      BY <1>6 DEF CloseHeap, workerVars, insertVars, PoolPc, Busy, Running, Members
    <2>2. PoolClose = "stopping" /\ PoolClose' = "closed"
      BY <1>6 DEF CloseHeap, PoolClose
    <2>3. Pool!CloseHeap
      BY <1>6, <1>w, <2>1, <2>2 DEF CloseHeap, history, Pool!CloseHeap, Pool!workerVars,
         Pool!history
    <2> QED
      BY <2>3 DEF Pool!Next
  <1> QED
    BY <1>1, <1>2, <1>3, <1>4, <1>5, <1>6 DEF Stop

LEMMA PoolNext == IInv /\ [Next]_vars => [Pool!Next]_(Pool!vars)
  <1> SUFFICES ASSUME IInv, [Next]_vars PROVE Pool!Next \/ UNCHANGED Pool!vars
    OBVIOUS
  <1>1. CASE UNCHANGED vars
    <2>1. PoolPc' = PoolPc /\ Running' = Running
      BY <1>1 DEF vars, workerVars, insertVars, PoolPc, Busy, Running
    <2> QED
      BY <1>1, <2>1, PoolStutters DEF vars, manVars, workerVars, history
  <1>2. CASE Next
    BY <1>2, PoolWorkerStep, PoolInsertStep, PoolStopStep DEF Next
  <1> QED
    BY <1>1, <1>2

LEMMA PoolInit == Init => Pool!Init
  <1> SUFFICES ASSUME Init PROVE Pool!Init
    OBVIOUS
  <1>1. Members = {} /\ PoolPc = "loop" /\ PoolClose = "none"
    BY DEF Init, Members, Range, PoolPc, Busy, PoolClose
  <1>2. Running = FALSE /\ (spc = "timedout") = FALSE
    BY DEF Init, Running
  <1>3. [w \in Worker1 |-> PoolPc] \in [Worker1 -> {"unstarted", "loop"}]
    BY <1>1
  <1> QED
    BY <1>1, <1>2, <1>3 DEF Init, Pool!Init

\* The handshake of a worker with its Insert, whatever comes between their
\* messages, does to the queue and the results only what PollWorkers says a
\* batch may do: the pool's guarantees hold of the code that runs a batch.
THEOREM WorkerImplementsPool == Spec => ImplementsPool
  BY Invariance, PoolInit, PoolNext, PTL DEF Spec, ImplementsPool, Pool!SafeSpec
=============================================================================
