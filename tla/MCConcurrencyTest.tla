-------------------------- MODULE MCConcurrencyTest --------------------------
(* No request, one, or three: more than there are threads. *)
EXTENDS ConcurrencyTest

SomeCounts == {-1, 0, 1, 3}
FewCounts == {0, 1}
==============================================================================
