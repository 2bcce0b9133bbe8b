------------------------- MODULE MCBinaryReduction -------------------------
(* BinaryReduction on every list of up to MaxLen lines, and on one that is *)
(* long enough for a search to end too early.                              *)
EXTENDS BinaryReduction

CONSTANTS MaxLen, Long

MCElem == 1 .. Long
MCCandidates == {[k \in 1 .. m |-> k] : m \in (1 .. MaxLen) \cup {Long}}
MCGroupings == {{g} : g \in SUBSET (1 .. MaxLen)}
                 \cup {{{1, l}} : l \in Long - 3 .. Long}
=============================================================================
