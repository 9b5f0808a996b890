------------------------- MODULE SearchableDocument -------------------------
(***************************************************************************)
(* What the document pipeline promises the owner of an uploaded document,  *)
(* without queues, workers, tokens or leases: the document is indexed at    *)
(* one instant, retrieval sees either nothing of it or exactly the chunks   *)
(* of one build, indexing ends, and a withdrawn document never comes back.  *)
(***************************************************************************)
EXTENDS Naturals

CONSTANT NumChunks   \* chunks the document is split into

VARIABLES
  phase,     \* where the document is in its life
  visible    \* chunks that retrieval can return, each <<build, number>>

vars == <<phase, visible>>

Content(build) == {build} \X (1..NumChunks)

\* A set of chunks that are the whole content of one build.
IsBuild(chunks) == \E b \in {c[1] : c \in chunks} : chunks = Content(b)

Init == phase = "absent" /\ visible = {}

\* The document moves on, and while it is not searchable nothing is visible.
Move(from, to) == phase \in from /\ phase' = to /\ visible' = {}

Submit   == Move({"absent"}, "indexing")
Index    == phase = "indexing" /\ phase' = "searchable" /\ IsBuild(visible')
Fail     == Move({"indexing"}, "failed")
Retry    == Move({"failed"}, "indexing")
Withdraw == Move({"indexing", "failed", "searchable"}, "withdrawn")
Remove   == Move({"withdrawn"}, "removed")

Next == Submit \/ Index \/ Fail \/ Retry \/ Withdraw \/ Remove

Spec == Init /\ [][Next]_vars

Settles == (phase = "indexing") ~> (phase # "indexing")

FairSpec == Spec /\ Settles
=============================================================================
