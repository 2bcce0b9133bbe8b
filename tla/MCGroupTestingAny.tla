-------------------------- MODULE MCGroupTestingAny --------------------------
(* GroupTestingAny on every list of up to MaxLen lines and every division  *)
(* of the lines into two classes.                                          *)
EXTENDS GroupTestingAny

CONSTANT MaxLen

MCElem == 1 .. MaxLen
MCCandidates == {[i \in 1 .. k |-> i] : k \in 1 .. MaxLen}
MCGroupings == {{g, MCElem \ g} : g \in SUBSET MCElem}
=============================================================================
