---------------------------- MODULE MCAnswering ----------------------------
(* Instances of Answering for TLC: chunks a and b share a short parent, that   *)
(* of c is longer than the budget.                                            *)
EXTENDS Answering

MCChunks == {"a", "b", "c"}
MCParents == {"ab", "c"}
MCParent == [x \in MCChunks |-> IF x \in {"a", "b"} THEN "ab" ELSE x]
MCTokens == [p \in MCParents |-> IF p = "ab" THEN 1 ELSE 4]

\* A server with everything, and servers without some of it.
MCConfigs == {Features \ f : f \in {{}, {"short", "rerank"}, {"web", "directive"},
                                    {"memory", "direct", "hybrid"}, {"planner", "rewrite"}}}
=============================================================================
