-------------------------- MODULE MCNaiveReduction --------------------------
(* NaiveReduction on every list of up to MaxLen lines.                     *)
EXTENDS NaiveReduction

CONSTANT MaxLen

MCElem == 1 .. MaxLen
MCCandidates == {[i \in 1 .. k |-> i] : k \in 1 .. MaxLen}
MCGroupings == {{g} : g \in SUBSET MCElem}
=============================================================================
