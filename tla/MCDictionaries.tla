--------------------------- MODULE MCDictionaries ---------------------------
(* Instances of Dictionaries for TLC. *)
EXTENDS Dictionaries, TLC

MCUsers == {"u1", "u2", "u3"}
MCKeys == MCUsers \cup {"bad"}
MCAliases == {"A", "B"}
MCDicts == {"aliases", "ranks"}
MCBatches == {<<<<"u1", "A">>>>, <<<<"u1", NoValue>>, <<"u2", "B">>>>, <<<<"bad", "A">>>>}
MCStored == [aliases |-> [k \in MCKeys |-> NoValue],
             ranks |-> [k \in MCKeys |-> CASE k = "u1" -> 3 [] k = "u2" -> 2 [] OTHER -> NoValue]]

HandlerSymmetry == Permutations(Handlers)
=============================================================================
