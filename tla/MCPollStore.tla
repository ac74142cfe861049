----------------------------- MODULE MCPollStore -----------------------------
(* Instances of PollStore for TLC. *)
EXTENDS PollStore, TLC

MCIds == {1, 2, 3}
MCTitles == {"a,b", "ab", "c"}
MCFilter == [t \in MCTitles |-> IF t = "a,b" THEN "ab" ELSE t]
MCOriginal == [id \in MCIds |-> CASE id = 1 -> "ab" [] id = 2 -> "a,b" [] OTHER -> "c"]
MCUnrated == {3}
MCBatches == {{1}, {1, 2}, {3}}

LOCAL Fresh(id) == [title |-> MCOriginal[id], override |-> NoTitle, active |-> TRUE]
LOCAL ByHand == [title |-> "a,b", override |-> "a,b", active |-> TRUE]
LOCAL Nothing == [id \in MCIds |-> NoRow]

\* Empty tables; the polls of Discord, one of them hidden; one of them with
\* a manual row over it.
MCStored ==
  LET full == [id \in MCIds |-> Fresh(id)]
  IN {[results |-> Nothing, manual |-> Nothing],
      [results |-> [full EXCEPT ![2].active = FALSE], manual |-> Nothing],
      [results |-> full, manual |-> [Nothing EXCEPT ![1] = ByHand]]}

HandlerSymmetry == Permutations(Handlers)
=============================================================================
