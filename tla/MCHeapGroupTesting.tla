-------------------------- MODULE MCHeapGroupTesting -------------------------
(* HeapGroupTesting on every list of up to MaxLen lines, with one line of  *)
(* the buffer that is not in the list.                                     *)
EXTENDS HeapGroupTesting

CONSTANT MaxLen

MCElem == 1 .. MaxLen + 1
MCCandidates == {[k \in 1 .. m |-> k] : m \in 1 .. MaxLen}
MCGroupings == {{g} : g \in SUBSET (1 .. MaxLen)}
=============================================================================
