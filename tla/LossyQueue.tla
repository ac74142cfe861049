----------------------------- MODULE LossyQueue -----------------------------
(***************************************************************************)
(* What the atomic queue promises: values are put in order, accepted in    *)
(* order, and taken in order, each once.  A full queue either drops the    *)
(* next value and counts it (F_DROPFULL) or lets it wait (F_BLOCKFULL).    *)
(* AtomicQueue is checked to implement this module.                        *)
(***************************************************************************)
EXTENDS Naturals, Sequences

CONSTANTS Size,    \* how many values it holds
          Values   \* what may be put

VARIABLES
  inbox,    \* values put and not decided upon
  items,    \* values accepted, oldest first
  taken,    \* values taken, in order
  dropped,  \* how many were dropped
  blocks    \* F_BLOCKFULL

queueVars == <<inbox, items, taken, dropped, blocks>>

QInit ==
  /\ inbox = <<>> /\ items = <<>> /\ taken = <<>> /\ dropped = 0
  /\ blocks \in BOOLEAN

Put(v) ==
  /\ inbox' = Append(inbox, v)
  /\ UNCHANGED <<items, taken, dropped, blocks>>

Accept ==
  /\ inbox # <<>> /\ Len(items) < Size
  /\ items' = Append(items, Head(inbox)) /\ inbox' = Tail(inbox)
  /\ UNCHANGED <<taken, dropped, blocks>>

Refuse ==
  /\ inbox # <<>> /\ Len(items) = Size /\ ~blocks
  /\ inbox' = Tail(inbox) /\ dropped' = dropped + 1
  /\ UNCHANGED <<items, taken, blocks>>

TakeFirst ==
  /\ items # <<>>
  /\ taken' = Append(taken, Head(items)) /\ items' = Tail(items)
  /\ UNCHANGED <<inbox, dropped, blocks>>

QNext == (\E v \in Values : Put(v)) \/ Accept \/ Refuse \/ TakeFirst

QSpec == QInit /\ [][QNext]_queueVars
=============================================================================
