------------------------- MODULE MCBrowserReduction -------------------------
(* BrowserReduction on every list of up to MaxLen lines.                   *)
EXTENDS BrowserReduction

CONSTANT MaxLen

MCElem == 1 .. MaxLen
MCCandidates == {[k \in 1 .. n |-> k] : n \in 1 .. MaxLen}
MCGroupings == {{g} : g \in SUBSET MCElem}
=============================================================================
