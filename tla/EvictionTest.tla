---------------------------- MODULE EvictionTest ----------------------------
(***************************************************************************)
(* The timing test every reduction asks its questions with: tests() and    *)
(* tests_avg() of cache.c for one victim, test_and_time() for "does this   *)
(* list evict one of its own lines".                                       *)
(*                                                                         *)
(* What the hardware decides is which *)
(* lines compete for one cache set: `groups' is that partition, as far as  *)
(* it matters to the caller (the lines congruent with the victim for       *)
(* tests(), all congruence classes for test_and_time()).  A list evicts    *)
(* when it holds at least Target lines of one group, Target being the      *)
(* associativity for tests() and one more for test_and_time(), which needs *)
(* a line too many to be in the list itself.                               *)
(*                                                                         *)
(* Timing is noisy.  `noisy' says whether this run of the program gets     *)
(* arbitrary answers or exact ones; both `groups' and `noisy' are chosen   *)
(* once, in the initial state.                                             *)
(***************************************************************************)
EXTENDS CacheLines, FiniteSets

VARIABLES groups, noisy

testVars == <<groups, noisy>>

TestTypeOK == /\ groups \subseteq SUBSET Elem
              /\ noisy \in BOOLEAN

(* Enough lines of one group to push a line out of its cache set.          *)
Evicts(S) == \E g \in groups : Cardinality(S \cap g) >= Target

(* The answers one test of the lines S may give.                           *)
Answers(S) == IF noisy THEN BOOLEAN ELSE {Evicts(S)}

(* A verdict the caller may rely on: right when the timing is.             *)
Trusted(S) == noisy \/ Evicts(S)
=============================================================================
