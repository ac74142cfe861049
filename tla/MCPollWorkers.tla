--------------------------- MODULE MCPollWorkers ---------------------------
(* Instances of PollWorkers for TLC. *)
EXTENDS PollWorkers
=============================================================================
