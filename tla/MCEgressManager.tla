--------------------------- MODULE MCEgressManager ---------------------------
(* EgressManager on small instances.  Requests are interchangeable and so  *)
(* are tracks; egresses are not, they are numbered by age.                 *)
EXTENDS EgressManager, TLC

Symmetry == Permutations(Callers) \cup Permutations(Tracks)

(* Bound: webhooks that are on their way, or lost, at once.                *)
MaxNotices == 1
FewNotices == Cardinality(notices) <= MaxNotices
=============================================================================
