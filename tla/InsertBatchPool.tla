-------------------------- MODULE InsertBatchPool --------------------------
(***************************************************************************)
(* InsertBatch seen as a pool of one worker: the mapping under which the   *)
(* handshake of a worker with its Insert goroutine implements PollWorkers, *)
(* where a batch is known by its effects only.                             *)
(***************************************************************************)
EXTENDS InsertBatch

Worker1 == {"worker"}

PoolPc ==
  CASE wpc = "fill" -> "loop"
    [] Busy -> "busy"
    [] OTHER -> wpc

\* Insert has done all it will do to the queue and the results once it reports
\* its last status; until then it runs, even if nobody listens any more.
Running == ipc # "idle" /\ (ipc = "fetch" \/ cur < Len(batch))

PoolClose == IF closed THEN "closed" ELSE IF spc = "none" THEN "none" ELSE "stopping"

Pool == INSTANCE PollWorkers WITH
  Workers <- Worker1,
  wpc <- [w \in Worker1 |-> PoolPc],
  batch <- [w \in Worker1 |-> Members],
  insert <- [w \in Worker1 |-> Running],
  spc <- [w \in Worker1 |-> spc],
  cpc <- PoolClose,
  torn <- (spc = "timedout")

\* Every step of the handshake, of Insert and of Stop is a step of the pool or
\* leaves it alone.
ImplementsPool == Pool!SafeSpec
=============================================================================
