--------------------------- MODULE NaiveReduction ---------------------------
(***************************************************************************)
(* naive_eviction() and naive_eviction_optimistic() of algorithms.c, which *)
(* go through the list one line at a time.  The first tests the list, sets *)
(* the head aside when it evicts and takes the last line back when it does *)
(* not.  The second sets the head aside, tests the others and, when they   *)
(* do not evict, moves the head to the end, where the lines it has found   *)
(* necessary collect behind `es'.                                          *)
(*                                                                         *)
(* The code's len and cans are the lengths of *ptr and *can whenever they  *)
(* are read, except that len is one short after the last backtracking step *)
(* of the naive routine, where both lengths are above the limit.           *)
(***************************************************************************)
EXTENDS EvictionTest, SequencesExt

CONSTANTS Candidates, MaxRepsBack, Groupings, Null

ASSUME CandidatesAssumption ==
         \A s \in Candidates : s \in Seq(Elem) /\ IsInjective(s)
ASSUME GroupingsAssumption == Groupings \subseteq SUBSET SUBSET Elem
ASSUME MaxRepsBackAssumption == MaxRepsBack \in Nat
ASSUME NullAssumption == Null \notin Elem

VARIABLES
  input, backtracking, optimistic,   \* the call: list, flag, which routine
  pc,
  list, can,                         \* *ptr and *can
  fail, repeat,                      \* naive only
  elen, es,                          \* optimistic only
  verdict

call == <<input, backtracking, optimistic, testVars>>
vars == <<call, pc, list, can, fail, repeat, elen, es, verdict>>

Push(e, s) == <<e>> \o s

Init == /\ input \in Candidates
        /\ groups \in Groupings
        /\ noisy \in BOOLEAN
        /\ backtracking \in BOOLEAN
        /\ optimistic \in BOOLEAN
        /\ Trusted(Range(input))      \* tested by find_evsets() before
        /\ pc = "loop" /\ list = input /\ can = <<>>
        /\ fail = FALSE /\ repeat = 0 /\ elen = 0 /\ es = Null
        /\ verdict = "none"

-----------------------------------------------------------------------------
(* naive_eviction()                                                        *)
NaiveRound == ~optimistic /\ pc = "loop" /\ Len(list) > Target

SetAsideBehind == /\ NaiveRound /\ TRUE \in Answers(Range(list))
                  /\ list' = Tail(list) /\ can' = Append(can, Head(list))
                  /\ fail' = FALSE
                  /\ UNCHANGED <<call, pc, repeat, elen, es, verdict>>

SetAside == /\ NaiveRound /\ TRUE \in Answers(Range(list))
            /\ list' = Tail(list) /\ can' = Push(Head(list), can)
            /\ fail' = FALSE
            /\ UNCHANGED <<call, pc, repeat, elen, es, verdict>>

NothingToTakeBack == /\ NaiveRound /\ FALSE \in Answers(Range(list))
                     /\ can = <<>>
                     /\ pc' = "final"
                     /\ UNCHANGED <<call, list, can, fail, repeat, elen, es,
                                    verdict>>

OneStepTooMany == fail /\ (~backtracking \/ repeat > MaxRepsBack + 1)
TooManySteps == fail /\ (~backtracking \/ repeat > MaxRepsBack)

TakeBackInFront ==
  /\ NaiveRound /\ FALSE \in Answers(Range(list))
  /\ can # <<>>
  /\ list' = Push(Head(can), list) /\ can' = Tail(can)
  /\ fail' = TRUE
  /\ IF TooManySteps
       THEN pc' = "final" /\ UNCHANGED repeat
       ELSE pc' = pc /\ repeat' = IF fail THEN repeat + 1 ELSE repeat
  /\ UNCHANGED <<call, elen, es, verdict>>

(* Once is part of the search, twice in a row is a backtracking step.      *)
TakeBack == /\ NaiveRound /\ FALSE \in Answers(Range(list))
            /\ can # <<>>
            /\ list' = Append(list, Head(can)) /\ can' = Tail(can)
            /\ fail' = TRUE
            /\ IF TooManySteps
                 THEN pc' = "final" /\ UNCHANGED repeat
                 ELSE pc' = pc /\ repeat' = IF fail THEN repeat + 1 ELSE repeat
            /\ UNCHANGED <<call, elen, es, verdict>>

NaiveEnd == /\ ~optimistic /\ pc = "loop" /\ Len(list) <= Target
            /\ pc' = "final"
            /\ UNCHANGED <<call, list, can, fail, repeat, elen, es, verdict>>

-----------------------------------------------------------------------------
(* naive_eviction_optimistic()                                             *)
OptimisticRoundTooMany ==
  optimistic /\ pc = "loop" /\ elen < Target /\ Len(list) >= Target
OptimisticRound ==
  optimistic /\ pc = "loop" /\ elen < Target /\ Len(list) > Target

DiscardUntested ==
  /\ OptimisticRound /\ TRUE \in Answers(Range(list))
  /\ list' = Tail(list) /\ can' = Push(Head(list), can)
  /\ UNCHANGED <<call, pc, fail, repeat, elen, es, verdict>>

Discard == /\ OptimisticRound /\ TRUE \in Answers(Range(Tail(list)))
           /\ list' = Tail(list) /\ can' = Push(Head(list), can)
           /\ UNCHANGED <<call, pc, fail, repeat, elen, es, verdict>>

KeepLatest ==
  /\ OptimisticRound /\ FALSE \in Answers(Range(Tail(list)))
  /\ list' = Append(Tail(list), Head(list))
  /\ elen' = elen + 1 /\ es' = Head(list)
  /\ UNCHANGED <<call, pc, can, fail, repeat, verdict>>

Keep == /\ OptimisticRound /\ FALSE \in Answers(Range(Tail(list)))
        /\ list' = Append(Tail(list), Head(list))
        /\ elen' = elen + 1
        /\ es' = IF es = Null THEN Head(list) ELSE es
        /\ UNCHANGED <<call, pc, can, fail, repeat, verdict>>

OptimisticEnd == /\ optimistic /\ pc = "loop"
                 /\ ~(elen < Target /\ Len(list) > Target)
                 /\ pc' = "collect"
                 /\ UNCHANGED <<call, list, can, fail, repeat, elen, es, verdict>>

ShortDropping == /\ pc = "collect" /\ elen < Target
                 /\ list' = <<>> /\ UNCHANGED can
                 /\ pc' = "short"
                 /\ UNCHANGED <<call, fail, repeat, elen, es, verdict>>

(* Too few lines were found necessary: everything goes to *can.            *)
Short == /\ pc = "collect" /\ elen < Target
         /\ can' = can \o list /\ list' = <<>>
         /\ pc' = "short"
         /\ UNCHANGED <<call, fail, repeat, elen, es, verdict>>

ReturnShort == /\ pc = "short"
               /\ verdict' = "failed" /\ pc' = "done"
               /\ UNCHANGED <<call, list, can, fail, repeat, elen, es>>

(* What lies before es goes to *can.  es->prev->next is written unasked.   *)
EsAt == CHOOSE i \in DOMAIN list : list[i] = es
Collect == /\ pc = "collect" /\ elen >= Target
           /\ can' = can \o SubSeq(list, 1, EsAt - 1)
           /\ list' = SubSeq(list, EsAt, Len(list))
           /\ pc' = IF can' = <<>> THEN "crash" ELSE "final"
           /\ UNCHANGED <<call, fail, repeat, elen, es, verdict>>

-----------------------------------------------------------------------------
(* The optimistic routine does not look at the length again.               *)
FinalTest == /\ pc = "final"
             /\ \E ok \in Answers(Range(list)) :
                  verdict' = IF ok /\ (optimistic \/ Len(list) <= Target)
                               THEN "found" ELSE "failed"
             /\ pc' = "done"
             /\ UNCHANGED <<call, list, can, fail, repeat, elen, es>>

Next == \/ SetAside \/ NothingToTakeBack \/ TakeBack \/ NaiveEnd
        \/ Discard \/ Keep \/ OptimisticEnd \/ Short \/ ReturnShort \/ Collect
        \/ FinalTest

Spec == Init /\ [][Next]_vars /\ WF_vars(Next)
-----------------------------------------------------------------------------
TypeOK == /\ TestTypeOK
          /\ pc \in {"loop", "collect", "short", "final", "done", "crash"}
          /\ list \in Seq(Elem) /\ can \in Seq(Elem)
          /\ fail \in BOOLEAN /\ repeat \in 0 .. MaxRepsBack + 1
          /\ elen \in 0 .. Target /\ es \in Elem \cup {Null}
          /\ verdict \in {"none", "found", "failed"}

Exact == ~noisy

(* Both routines are reductions as find_evsets() uses them.                *)
Contract == INSTANCE Reduction WITH kept <- Range(list), dropped <- Range(can)
IsReduction == Contract!Spec

(* With exact timing the naive routine is never more than the line on top  *)
(* of *can away from an evicting list, so that it never runs out of lines  *)
(* to take back and never has to backtrack (algorithms.c 37-60).           *)
OneLineShort ==
  ~optimistic /\ Exact =>
    /\ repeat = 0
    /\ ~Evicts(Range(list)) =>
         can # <<>> /\ Evicts(Range(list) \cup {Head(can)}) /\ ~fail

(* With exact timing the optimistic routine never breaks the list it is    *)
(* working on: it always hands something that evicts to the last step.     *)
OptimisticKeeps == optimistic /\ Exact /\ pc \in {"loop", "collect", "final"}
                     => Evicts(Range(list))

(* es->prev->next = NULL (algorithms.c 160) never writes through a null    *)
(* pointer: some line is always left in front of es.                       *)
NoNullWrite == pc # "crash"

(* The lines behind es are those found necessary, no more: es never comes  *)
(* back to the head of the list and round to its end again.                *)
JustTheNecessary == optimistic /\ verdict = "found" => Len(list) = Target

(* With exact timing both routines return, the optimistic one always.  The *)
(* naive one may not: a wrong answer in every other test makes it set one  *)
(* line aside and take it back for ever, and only two negative answers in  *)
(* a row count against MAX_REPS_BACK.                                      *)
Termination == (Exact \/ optimistic) => <>(pc = "done")

(* algorithms.c 43: "candidate is part of the eviction set, put it back at *)
(* the end" -- the line the routine cannot do without is put back.         *)
EssentialPutBack == ~optimistic /\ Exact /\ pc = "done" => Evicts(Range(list))
=============================================================================
