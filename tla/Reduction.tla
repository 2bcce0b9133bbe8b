----------------------------- MODULE Reduction ------------------------------
(***************************************************************************)
(* What find_evsets() relies on when it calls a reduction `int f(Elem      *)
(* **ptr, Elem **can, char *victim)': every line it handed over is, at     *)
(* every moment, either still in play (`kept') or set aside (`dropped'),   *)
(* never in both, so that after a failure it can put *ptr and *can         *)
(* together and try again (evsets_api.c 363-397); a zero return promises   *)
(* an eviction set of at most Target lines; and the answer is final.       *)
(***************************************************************************)
EXTENDS EvictionTest

VARIABLES kept, dropped, verdict

vars == <<kept, dropped, verdict, groups, noisy>>

Init == /\ TestTypeOK
        /\ kept \subseteq Elem
        /\ dropped = {}
        /\ verdict = "none"

(* Lines are set aside or put back.                                        *)
Move == /\ verdict = "none"
        /\ kept' \in SUBSET (kept \cup dropped)
        /\ dropped' = (kept \cup dropped) \ kept'
        /\ UNCHANGED <<verdict, testVars>>

Succeed == /\ verdict = "none"
           /\ Cardinality(kept) <= Target
           /\ Trusted(kept)
           /\ verdict' = "found"
           /\ UNCHANGED <<kept, dropped, testVars>>

Fail == /\ verdict = "none"
        /\ verdict' = "failed"
        /\ UNCHANGED <<kept, dropped, testVars>>

Next == Move \/ Succeed \/ Fail

Spec == Init /\ [][Next]_vars

(* The caller waits for the answer (evsets_api.c 295-352).                 *)
LiveSpec == Spec /\ <>(verdict # "none")
=============================================================================
