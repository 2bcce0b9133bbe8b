--------------------------- MODULE MCGroupTesting ---------------------------
(* GroupTesting on every list of up to MaxLen lines.  The order of the     *)
(* list does not matter to a routine that knows nothing of the groups, so  *)
(* the lines are numbered in list order and the groups vary.               *)
EXTENDS GroupTesting

CONSTANT MaxLen

MCElem == 1 .. MaxLen
MCCandidates == {[i \in 1 .. k |-> i] : k \in 1 .. MaxLen}
MCGroupings == {{g} : g \in SUBSET MCElem}
=============================================================================
