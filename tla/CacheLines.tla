----------------------------- MODULE CacheLines -----------------------------
(***************************************************************************)
(* The lines of the candidate buffer, one Elem of the pool each, and the   *)
(* number of lines a reduction aims at; and how a list of them is walked.  *)
(***************************************************************************)
EXTENDS Naturals, Sequences

CONSTANTS Elem,     \* the cache lines (struct elem) of the buffer
          Target    \* conf.cache_way, one more for gt_eviction_any()

ASSUME TargetAssumption == Target \in Nat \ {0}

(* The lines from p on, up to the one whose next is stop or null, but no   *)
(* more than n + 1 of them.                                                *)
Walk(next, null, p, stop, n) ==
  LET walk[k \in 0 .. n] ==
        [e \in DOMAIN next \cup {null} |->
           IF e = null THEN <<>>
           ELSE IF k = 0 \/ next[e] = stop THEN <<e>>
           ELSE <<e>> \o walk[k - 1][next[e]]]
  IN  walk[n][p]
=============================================================================
