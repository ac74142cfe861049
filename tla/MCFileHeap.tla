----------------------------- MODULE MCFileHeap -----------------------------
(* Instances of FileHeap for TLC: three polls, one of them without an expiry. *)
EXTENDS FileHeap

CONSTANTS early, late, never

MCItems == {early, late, never}
MCExpiry == [x \in MCItems |-> CASE x = early -> 1 [] x = late -> 2 [] OTHER -> NoExpiry]
=============================================================================
