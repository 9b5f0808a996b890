------------------------- MODULE MCLongTermMemory -------------------------
(* Instances of LongTermMemory for TLC: what a memory says, conversations    *)
(* and requests are model values and interchangeable.                        *)
EXTENDS LongTermMemory, TLC

Symmetry == Permutations(Values) \cup Permutations(Conversations) \cup Permutations(Clients)
=============================================================================
