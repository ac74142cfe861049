--------------------------- MODULE MCInsertBatch ---------------------------
(***************************************************************************)
(* Instances of InsertBatch for TLC.  Spec lets a poll be submitted again  *)
(* at any time; OnceSpec submits each poll at most once, which leaves room *)
(* for larger batches and for the liveness properties.                     *)
(***************************************************************************)
EXTENDS InsertBatchPool

OnceNext ==
  \/ \E p \in Polls \ known : Submit(p)
  \/ Worker \/ Handshake \/ Insert \/ Stop
  \/ StopCall \/ StopTimeout \/ CloseHeap

OnceSpec == Init /\ [][OnceNext]_vars /\ Fairness
=============================================================================
