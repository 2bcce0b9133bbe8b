-------------------------- MODULE HeapGroupTesting --------------------------
(***************************************************************************)
(* gt_eviction() of algorithms.c on the linked lists it really works on:   *)
(* *ptr, *can, chunks[] and back[] are pointers into one heap of lines,    *)
(* and cutting, relinking and joining are the functions of list_utils.c    *)
(* (module ListHeap).  chunks[] is never reset: between two cuts it holds  *)
(* pointers into lists that have been relinked since.  The module is shown *)
(* to implement GroupTesting, which knows only sequences.                  *)
(*                                                                         *)
(* `base' is a history variable for that refinement: the list as it was    *)
(* when it was last cut.                                                   *)
(***************************************************************************)
EXTENDS EvictionTest, ListHeap

CONSTANTS Candidates, Groupings, MaxRepsBack

ASSUME CandidatesAssumption ==
         \A s \in Candidates : s \in Seq(Elem) /\ IsInjective(s)
ASSUME GroupingsAssumption == Groupings \subseteq SUBSET SUBSET Elem
ASSUME MaxRepsBackAssumption == MaxRepsBack \in Nat

VARIABLES
  input, backtracking,           \* as in GroupTesting
  pc, base, order, n, ret, len, cans, repeat, verdict,
  heap,
  ptr, canp,                     \* the pointers *ptr and *can
  chunks,                        \* chunks[]
  backs, l,                      \* back[], l
  i                              \* the index of the loop over back[]

control == <<input, backtracking, testVars, order, repeat>>
links == <<heap, ptr, canp, chunks, backs, l>>
vars == <<control, links, pc, base, n, ret, len, cans, verdict, i>>

(* The lists the pointers stand for.  From the cut to the first relinking  *)
(* *ptr is the first chunk only; nothing looks at it then.                 *)
list == IF pc = "try" /\ n = 0 THEN base ELSE Chain(heap, ptr)
can == Chain(heap, canp)
back == IF pc = "recover"
          THEN [j \in 1 .. l - i |-> Chain(heap, backs[i + j])]
          ELSE [j \in 1 .. IF pc = "done" THEN 0 ELSE l |->
                  Chain(heap, backs[j])]

Abstract == INSTANCE GroupTesting

-----------------------------------------------------------------------------
(* The list's first line may still point back to a line it once followed    *)
(* (the *can of an earlier reduction becomes the next *ptr).               *)
Init == /\ input \in Candidates
        /\ groups \in Groupings
        /\ noisy \in BOOLEAN
        /\ backtracking \in BOOLEAN
        /\ Trusted(Range(input))
        /\ pc = "start" /\ base = <<>>
        /\ \E before \in Ptr \ Range(input) : heap = Links(input, before)
        /\ ptr = (IF input = <<>> THEN Null ELSE input[1]) /\ canp = Null
        /\ chunks = [j \in 1 .. Abstract!Chunks |-> Null]
        /\ backs = [j \in 1 .. Abstract!Room |-> Null]
        /\ l = 0 /\ i = 0
        /\ order = [j \in 1 .. Abstract!Chunks |-> j] /\ n = 0 /\ ret = FALSE
        /\ len = Len(input) /\ cans = 0 /\ repeat = 0
        /\ verdict = "none"

NoRecord == /\ pc = "start" /\ len < Target
            /\ pc' = "done" /\ verdict' = "failed"
            /\ UNCHANGED <<control, links, base, n, ret, len, cans, i>>

Shuffle == /\ \/ pc = "start" /\ len >= Target
              \/ pc = "again"
           /\ order' \in Abstract!Orders
           /\ pc' = "reduce"
           /\ UNCHANGED <<input, backtracking, testVars, links, base, n, ret,
                          len, cans, repeat, verdict, i>>

SplitList == /\ pc = "reduce" /\ len > Target
             /\ LET cut == Split(heap, ptr, chunks)
                IN  heap' = cut.heap /\ chunks' = cut.chunks
             /\ base' = list /\ n' = 0 /\ ret' = FALSE
             /\ pc' = "try"
             /\ UNCHANGED <<control, ptr, canp, backs, l, len, cans, verdict, i>>

Try == /\ pc = "try"
       /\ LET rest == FromChunks(heap, ptr, chunks, order[n + 1])
          IN  heap' = rest.heap /\ ptr' = rest.ptr
       /\ n' = n + 1
       /\ ret' \in Answers(Range(Chain(heap', ptr')))
       /\ pc' = IF ~ret' /\ n' < Abstract!Chunks THEN "try" ELSE "decide"
       /\ UNCHANGED <<control, canp, chunks, backs, l, base, len, cans, verdict,
                      i>>

TriedNext == chunks[order[(n % Abstract!Chunks) + 1]]
Tried == chunks[order[n]]

EndLevel == base' = <<>> /\ n' = 0 /\ ret' = FALSE

Smaller == ret /\ n <= Target

RemoveChunk == /\ pc = "decide" /\ Smaller
               /\ backs' = [backs EXCEPT ![l + 1] = Tried]
               /\ l' = l + 1
               /\ cans' = cans + Len(Chain(heap, Tried))
               /\ len' = Len(Chain(heap, ptr))
               /\ pc' = "reduce"
               /\ EndLevel
               /\ UNCHANGED <<control, heap, ptr, canp, chunks, verdict, i>>

Backtrack == /\ pc = "decide" /\ ~Smaller /\ l > 0
             /\ LET once == Concat(heap, ptr, Tried)
                    twice == Concat(once.heap, once.ptr, backs[l])
                IN  heap' = twice.heap /\ ptr' = twice.ptr
             /\ cans' = cans - Len(Chain(heap, backs[l]))
             /\ l' = l - 1
             /\ backs' = [backs EXCEPT ![l] = Null]
             /\ len' = Len(Chain(heap', ptr'))
             /\ repeat' = IF l' > 0 THEN repeat + 1 ELSE repeat
             /\ pc' = IF l' > 0 /\ repeat < MaxRepsBack /\ backtracking
                        THEN "again" ELSE "recover"
             /\ EndLevel
             /\ UNCHANGED <<input, backtracking, testVars, order, canp, chunks,
                            verdict, i>>

GiveUp == /\ pc = "decide" /\ ~Smaller /\ l = 0
          /\ LET once == Concat(heap, ptr, Tried)
             IN  heap' = once.heap /\ ptr' = once.ptr
          /\ pc' = "recover"
          /\ EndLevel
          /\ UNCHANGED <<control, canp, chunks, backs, l, len, cans, verdict, i>>

Reduced == /\ pc = "reduce" /\ len <= Target
           /\ pc' = "recover"
           /\ UNCHANGED <<control, links, base, n, ret, len, cans, verdict, i>>

(* Every slot of back[] in turn, the empty ones included.                  *)
Recover == /\ pc = "recover" /\ i < Len(backs)
           /\ LET joined == Concat(heap, canp, backs[i + 1])
              IN  heap' = joined.heap /\ canp' = joined.ptr
           /\ i' = i + 1
           /\ UNCHANGED <<control, ptr, chunks, backs, l, pc, base, n, ret, len,
                          cans, verdict>>

FinalTest == /\ pc = "recover" /\ i = Len(backs)
             /\ \E ok \in Answers(Range(list)) :
                  verdict' = IF ok /\ len <= Target THEN "found" ELSE "failed"
             /\ pc' = "done"
             /\ UNCHANGED <<control, links, base, n, ret, len, cans, i>>

Next == \/ NoRecord \/ Shuffle \/ SplitList \/ Try \/ RemoveChunk \/ Backtrack
        \/ GiveUp \/ Reduced \/ Recover \/ FinalTest

Spec == Init /\ [][Next]_vars

-----------------------------------------------------------------------------
(* The pointer code does what the sequence code does, step by step.        *)
ImplementsGroupTesting == Abstract!Init /\ [][Abstract!Next]_(Abstract!vars)

(* Whenever a list is about to be cut or handed back, each of its lines    *)
(* names the right predecessor: list_split() (127) cuts where prev says,   *)
(* and list_from_chunks() leaves the prev of the chunk it left out behind. *)
BothWays == pc \in {"again", "reduce", "recover", "done"} =>
              /\ WellLinked(heap, ptr) /\ WellLinked(heap, canp)
              /\ \A j \in i + 1 .. l : WellLinked(heap, backs[j])
=============================================================================
