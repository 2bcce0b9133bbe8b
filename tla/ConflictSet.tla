----------------------------- MODULE ConflictSet -----------------------------
(***************************************************************************)
(* The conflict set: go through all lines once, ask of each whether the    *)
(* lines kept so far evict it, keep it when they do not and make it a      *)
(* victim for later when they do.  generate_conflict_set() of list_utils.c *)
(* asks of every line; genConflictSet() of browser/evset.js keeps the      *)
(* first `unasked' ones (800 there) as they come.                          *)
(*                                                                         *)
(* The lists are sets here: lines come in random order, so that the next   *)
(* one is any that is left.                                                *)
(***************************************************************************)
EXTENDS Integers, FiniteSets

CONSTANTS Elem,       \* the lines
          Page,       \* a line outside of them, the first victim
          Color,      \* the classes of congruent lines
          Way,        \* lines of one class that evict another one
          Unasked     \* values of `unasked'; {0} for the C program

ASSUME ConflictAssumption == Way \in Nat \ {0} /\ Unasked \subseteq Nat
ASSUME LinesAssumption == IsFiniteSet(Elem)

VARIABLES
  color, noisy, unasked,
  rest,               \* *ptr, indices: the lines not looked at
  refs,               \* *out, refs: the conflict set
  vics                \* res, vics: the victims

machine == <<color, noisy, unasked>>

OfColor(S, c) == {e \in S : color[e] = c}
Evicts(S, v) == Cardinality(OfColor(S, color[v])) >= Way
Answers(S, v) == IF noisy THEN BOOLEAN ELSE {Evicts(S, v)}

-----------------------------------------------------------------------------
KeepUnasked(e) == /\ Cardinality(refs) < unasked
                  /\ refs' = refs \cup {e}
                  /\ UNCHANGED vics

Keep(e) == /\ Cardinality(refs) >= unasked
           /\ FALSE \in Answers(refs, e)
           /\ refs' = refs \cup {e}
           /\ UNCHANGED vics

LeaveOutUntested(e) == /\ Cardinality(refs) >= unasked
                       /\ vics' = vics \cup {e}
                       /\ UNCHANGED refs

LeaveOut(e) == /\ Cardinality(refs) >= unasked
               /\ TRUE \in Answers(refs, e)
               /\ vics' = vics \cup {e}
               /\ UNCHANGED refs

Generate == \E e \in rest : /\ KeepUnasked(e) \/ Keep(e) \/ LeaveOut(e)
                            /\ rest' = rest \ {e}

-----------------------------------------------------------------------------
(* What the lines kept are good for: each victim is evicted by them, and   *)
(* when every line was asked for, that takes all there are of its colour.  *)
EvictVictims(kept) == \A v \in vics : Evicts(kept, v)
NoneToSpare(kept) == \A c \in Color : Cardinality(OfColor(kept, c)) <= Way
=============================================================================
