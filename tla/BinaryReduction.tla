--------------------------- MODULE BinaryReduction ---------------------------
(***************************************************************************)
(* binary_eviction() of algorithms.c: Target times, find by bisection the  *)
(* shortest evicting prefix of the list and move its last line, which that *)
(* prefix needs, to the head; then cut everything behind the first Target  *)
(* lines off.  The bisection is done in doubles: the fraction x / i of the *)
(* lines behind the first Target - 1 is rounded up to the pivot.  Every    *)
(* question cuts the list, tests the front and joins the two parts again.  *)
(*                                                                         *)
(* The lists are pointers into one heap (module ListHeap), because the     *)
(* cuts believe what the moves and joins before them wrote into prev.      *)
(***************************************************************************)
EXTENDS EvictionTest, ListHeap

CONSTANTS Candidates, Groupings

VARIABLES
  input,                  \* the list of the call
  pc,
  heap, ptr, canp,        \* the lines, *ptr and *can
  count,
  x, i, pivot,            \* the fraction x / i, and the line it points at
  laste, lastn,           \* the last pivots that did and did not evict
  verdict,
  hasty                   \* history: a search ended before it had its line

lists == <<heap, ptr, canp>>
search == <<x, i, pivot, laste, lastn>>
vars == <<input, testVars, pc, lists, count, search, verdict, hasty>>

olen == Len(input)

list == Chain(heap, ptr)
can == Chain(heap, canp)

-----------------------------------------------------------------------------
Init == /\ input \in Candidates
        /\ groups \in Groupings
        /\ noisy \in BOOLEAN
        /\ Trusted(Range(input))      \* tested by find_evsets() before
        /\ pc = "round"
        /\ heap = Links(input, Null) /\ ptr = input[1] /\ canp = Null
        /\ count = 0
        /\ x = 0 /\ i = 0 /\ pivot = 0 /\ laste = 0 /\ lastn = 0
        /\ verdict = "none" /\ hasty = FALSE

NewRound == /\ pc = "round" /\ count < Target
            /\ x' = 1 /\ i' = 1 /\ pivot' = 0 /\ laste' = olen /\ lastn' = 0
            /\ pc' = "search"
            /\ UNCHANGED <<input, testVars, lists, count, verdict, hasty>>

(* fabs (lastn - laste) > 1 && x < olen                                    *)
Apart == x < olen /\ (laste - lastn > 1 \/ lastn - laste > 1)

(* ceil (a / b)                                                            *)
Ceil(a, b) == -((-a) \div b)

(* The next pivot, and the list cut behind it.                             *)
Halve == /\ pc = "search" /\ Apart
         /\ i' = 2 * i
         /\ pivot' = Ceil(x * (olen - Target + 1), i')
         /\ LET cut == Slice(heap, ptr, Target - 1 + pivot', olen - 1)
            IN  heap' = cut.heap /\ ptr' = cut.ptr /\ canp' = cut.slice
         /\ pc' = "ask"
         /\ UNCHANGED <<input, testVars, count, x, laste, lastn, verdict, hasty>>

(* Test the front, go on in the half the answer points to, and join.       *)
Judge == /\ pc = "ask"
         /\ \E ret \in Answers(Range(list)) :
              IF ret THEN /\ laste' = pivot /\ x' = 2 * x - 1
                          /\ UNCHANGED lastn
                     ELSE /\ lastn' = pivot /\ x' = 2 * x + 1
                          /\ UNCHANGED laste
         /\ LET joined == Concat(heap, ptr, canp)
            IN  heap' = joined.heap /\ ptr' = joined.ptr
         /\ canp' = Null
         /\ pc' = "search"
         /\ UNCHANGED <<input, testVars, count, i, pivot, verdict, hasty>>

SomethingWrong == /\ pc = "search" /\ ~Apart
                  /\ pivot + Target > olen
                  /\ pc' = "done" /\ verdict' = "failed"
                  /\ UNCHANGED <<input, testVars, lists, count, search, hasty>>

(* The last line of the shortest prefix that evicted.  When none did,      *)
(* laste is still olen and there may be no such line.                      *)
FoundOneFurther == Target - 1 + laste
Found == Target - 2 + laste

Take == /\ pc = "search" /\ ~Apart
        /\ pivot + Target <= olen
        /\ LET found == Get(heap, ptr, Found)
               moved == Push(found.heap, found.ptr, found.line)
           IN  heap' = moved.heap /\ ptr' = moved.ptr
        /\ count' = count + 1
        /\ hasty' = (hasty \/ laste - lastn > 1)
        /\ pc' = "round"
        /\ UNCHANGED <<input, testVars, canp, search, verdict>>

(* len + cans is the length of the whole list; both are unset when it has  *)
(* but one line, which is never sliced.                                    *)
Finish == /\ pc = "round" /\ count = Target
          /\ LET cut == Slice(heap, ptr, Target, olen - 1)
             IN  heap' = cut.heap /\ ptr' = cut.ptr /\ canp' = cut.slice
          /\ pc' = "final"
          /\ UNCHANGED <<input, testVars, count, search, verdict, hasty>>

FinalTest == /\ pc = "final"
             /\ \E ret \in Answers(Range(list)) :
                  verdict' = IF ret THEN "found" ELSE "failed"
             /\ pc' = "done"
             /\ UNCHANGED <<input, testVars, lists, count, search, hasty>>

Next == NewRound \/ Halve \/ Judge \/ SomethingWrong \/ Take \/ Finish
          \/ FinalTest

Spec == Init /\ [][Next]_vars /\ WF_vars(Next)
-----------------------------------------------------------------------------
(* binary_eviction() is a reduction as find_evsets() uses it: however the  *)
(* tests answer, the cuts and joins lose no line and hang none in both     *)
(* lists, a zero return leaves at most Target lines, and it returns.       *)
Contract == INSTANCE Reduction WITH kept <- Range(list), dropped <- Range(can)
IsReduction == Contract!LiveSpec

(* With exact tests the routine finds an eviction set only when one is     *)
(* there without the last line of the list.  The bisection cannot point at *)
(* that line: its index is never below a pivot that evicted, and the check *)
(* at line 481 or a list_get() behind the end takes its place.  A list     *)
(* that is an eviction set already is therefore refused.  One way is the   *)
(* exception, where the index left over, olen - 1, is the last line.       *)
(* When such a set is there it is found, unless the bound x < olen (449)   *)
(* ended a search with two pivots left: the line moved to the head is then *)
(* one behind the line that the prefix needs.                              *)
LastLineMissed ==
  LET spared == Target = 1 \/ Evicts(Range(input) \ {input[olen]})
  IN  ~noisy /\ pc = "done" =>
        /\ (verdict = "found") => spared
        /\ spared /\ ~hasty => (verdict = "found")
=============================================================================
