--------------------------- MODULE GroupTestingAny --------------------------
(***************************************************************************)
(* gt_eviction_any() of algorithms.c: group testing for a list that evicts *)
(* one of its own lines, whichever that is.  The routine is a copy of      *)
(* gt_eviction() that asks test_and_time() instead of tests(), wants one   *)
(* line more (Target = conf.cache_way + 1) and has no victim, so that      *)
(* `groups' holds every class of congruent lines.  It differs in what it   *)
(* does when no chunk can be left out and none was removed before.         *)
(***************************************************************************)
EXTENDS GroupTesting

(* find_evsets() tests the list only the first time: for the next colour,  *)
(* and for a retry, it goes straight to the reduction.                     *)
InitAny == Entry

(* The loops are left with a break.  *ptr is what list_from_chunks() made  *)
(* of it for the last test, and len the length it had before.              *)
GiveUpAny == /\ pc = "decide" /\ ~Smaller /\ back = <<>>
             /\ pc' = "recover"
             /\ EndLevel
             /\ UNCHANGED <<callVars, list, can, order, back, len, cans, repeat,
                            verdict>>

NextAny == \/ NoRecord \/ Shuffle \/ Split \/ Try \/ RemoveChunk \/ Backtrack
           \/ GiveUpAny \/ Reduced \/ Recover \/ FinalTest

SpecAny == InitAny /\ [][NextAny]_vars /\ WF_vars(NextAny)

-----------------------------------------------------------------------------
(* "recover discarded elements" (algorithms.c 409): every line the caller  *)
(* passed comes back in *ptr or *can.                                      *)
NothingDiscarded == pc = "done" => Range(list) \cup Range(can) = Range(input)

(* A success accounts for every line.                                      *)
FoundKeepsAll == verdict = "found" => NothingLost

(* What a failure loses is one chunk of the list it was called with, and   *)
(* then it has removed nothing else.                                       *)
LosesOneChunk ==
  LET missing == Range(input) \ (Range(InPlay) \cup Aside)
  IN  missing # {} =>
        /\ Aside = {}
        /\ \E j \in 1 .. Chunks : Cardinality(missing) = Len(Chunk(input, j))
=============================================================================
