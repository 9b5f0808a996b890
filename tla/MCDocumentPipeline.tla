------------------------ MODULE MCDocumentPipeline ------------------------
(* Instances of DocumentPipeline for TLC: the processes are model values     *)
(* and interchangeable.                                                      *)
EXTENDS DocumentPipeline, TLC

Symmetry == Permutations(IndexWorkers) \cup Permutations(Clients)
=============================================================================
