----------------------------- MODULE MCPollPush -----------------------------
(***************************************************************************)
(* Instances of PollPush for TLC.  Callers are interchangeable, and so are *)
(* the ids as long as none is told apart by Loaded.                        *)
(***************************************************************************)
EXTENDS PollPush, TLC

Symmetry == Permutations(Ids) \cup Permutations(Callers)

=============================================================================
