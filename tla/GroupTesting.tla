---------------------------- MODULE GroupTesting ----------------------------
(***************************************************************************)
(* gt_eviction() of algorithms.c: threshold group testing.  The list is    *)
(* cut into Chunks = Target + 1 chunks; Target lines of the victim's group *)
(* cannot lie in all of them, so some chunk is not needed.  The routine    *)
(* tries to leave out one chunk after another, in a shuffled order, keeps  *)
(* the first reduced list that still evicts, and goes on with that.  When  *)
(* no chunk can be left out it takes back the chunk of the level above and *)
(* tries again with another order.                                         *)
(*                                                                         *)
(* The linked list *ptr is the sequence `list', the array back[] the       *)
(* sequence of chunks set aside, innermost last, so that the code's l is   *)
(* Len(back).  chunks[] is not kept: chunk j is always the j-th piece of   *)
(* `base', the list as it was when it was last cut (module ListHeap checks *)
(* the pointer code against this reading).  Indices start at 1 here, at 0  *)
(* in the code.                                                            *)
(***************************************************************************)
EXTENDS EvictionTest, ChunkOps, SequencesExt

CONSTANTS Candidates,    \* the lists *ptr the routine may be called with
          Groupings,     \* the values `groups' may have
          MaxRepsBack    \* MAX_REPS_BACK

ASSUME CandidatesAssumption ==
         \A s \in Candidates : s \in Seq(Elem) /\ IsInjective(s)
ASSUME GroupingsAssumption == Groupings \subseteq SUBSET SUBSET Elem
ASSUME MaxRepsBackAssumption == MaxRepsBack \in Nat

VARIABLES
  input,         \* the list the caller passed, for reference
  backtracking,  \* FLAG_BACKTRACKING
  pc,
  list, can,     \* *ptr and *can
  base,          \* the list the chunks were cut from
  order,         \* ichunks[]
  n, ret,        \* how many chunks were tried, the last test's answer
  back,          \* back[0 .. l-1]
  len, cans, repeat,
  verdict

callVars == <<input, backtracking, testVars>>
vars == <<callVars, pc, list, can, base, order, n, ret, back, len, cans,
          repeat, verdict>>

(* b^h                                                                     *)
Power(b, h) == LET p[k \in 0 .. h] == IF k = 0 THEN 1 ELSE b * p[k - 1]
               IN  p[h]

(* ceil(log(Target/len) / log(Target/(Target+1))): the levels a reduction  *)
(* by Target/(Target+1) needs from len down to Target.                     *)
EnoughIfSwapped(size, h) ==
  size <= Target \/ Chunks * Power(Target, h) <= Target * Power(size, h)
EnoughLevels(size, h) == size * Power(Target, h) <= Target * Power(Chunks, h)
Height(size) == CHOOSE h \in 0 .. size :
                  /\ EnoughLevels(size, h)
                  /\ \A g \in 0 .. h - 1 : ~EnoughLevels(size, g)

Room == 2 * Height(Len(input))   \* the slots of back[]

Orders == Injection(1 .. Chunks, 1 .. Chunks)

-----------------------------------------------------------------------------
Entry == /\ input \in Candidates
         /\ groups \in Groupings
         /\ noisy \in BOOLEAN
         /\ backtracking \in BOOLEAN
         /\ pc = "start"
         /\ list = input /\ can = <<>> /\ base = <<>>
         /\ order = [j \in 1 .. Chunks |-> j] /\ n = 0 /\ ret = FALSE
         /\ back = <<>> /\ len = Len(input) /\ cans = 0 /\ repeat = 0
         /\ verdict = "none"

(* find_evsets() has tested the list before it calls gt_eviction().        *)
Init == Entry /\ Trusted(Range(input))

(* With fewer than Target lines h is negative, calloc(h * 2) is refused    *)
(* and the routine returns 1.                                              *)
NoRecord == /\ pc = "start" /\ len < Target
            /\ pc' = "done" /\ verdict' = "failed"
            /\ UNCHANGED <<callVars, list, can, base, order, n, ret, back,
                           len, cans, repeat>>

(* chunks[], n and ret are local to one round of the while loop.           *)
EndLevel == base' = <<>> /\ n' = 0 /\ ret' = FALSE

(* The head of the outer loop: a new order for the chunks.                 *)
Shuffle == /\ \/ pc = "start" /\ len >= Target
              \/ pc = "again"
           /\ order' \in Orders
           /\ pc' = "reduce"
           /\ UNCHANGED <<callVars, list, can, base, n, ret, back, len, cans,
                          repeat, verdict>>

Split == /\ pc = "reduce" /\ len > Target
         /\ base' = list /\ n' = 0 /\ ret' = FALSE
         /\ pc' = "try"
         /\ UNCHANGED <<callVars, list, can, order, back, len, cans, repeat,
                        verdict>>

TryBeforeRelinking == /\ pc = "try"
                      /\ list' = Without(base, order[n + 1])
                      /\ n' = n + 1
                      /\ ret' \in Answers(Range(list))
                      /\ pc' = IF ~ret' /\ n' < Chunks THEN "try" ELSE "decide"
                      /\ UNCHANGED <<callVars, can, base, order, back, len,
                                     cans, repeat, verdict>>

(* One round of the "try paths" loop.                                      *)
Try == /\ pc = "try"
       /\ list' = Without(base, order[n + 1])
       /\ n' = n + 1
       /\ ret' \in Answers(Range(list'))
       /\ pc' = IF ~ret' /\ n' < Chunks THEN "try" ELSE "decide"
       /\ UNCHANGED <<callVars, can, base, order, back, len, cans, repeat,
                      verdict>>

(* "If find smaller eviction set remove chunk" -- unless it is the last    *)
(* one of the order: the condition is n <= cache_way, not n <= Chunks.     *)
Smaller == ret /\ n <= Target

TriedChunk == Chunk(base, order[n])

RemoveChunkMiscounted ==
  /\ pc = "decide" /\ Smaller
  /\ back' = Append(back, TriedChunk)
  /\ cans' = cans + Len(list)
  /\ len' = Len(list)
  /\ pc' = "reduce"
  /\ EndLevel
  /\ UNCHANGED <<callVars, list, can, order, repeat, verdict>>

RemoveChunk == /\ pc = "decide" /\ Smaller
               /\ back' = Append(back, TriedChunk)
               /\ cans' = cans + Len(TriedChunk)
               /\ len' = Len(list)
               /\ pc' = "reduce"
               /\ EndLevel
               /\ UNCHANGED <<callVars, list, can, order, repeat, verdict>>

(* The condition of the outer loop: l > 0 && repeat++ < MAX && flag.       *)
CountNothing == repeat' = repeat
CountRound == repeat' = IF back' # <<>> THEN repeat + 1 ELSE repeat
AgainOnceMore == back' # <<>> /\ repeat <= MaxRepsBack /\ backtracking
Again == back' # <<>> /\ repeat < MaxRepsBack /\ backtracking

(* Put back the chunk just tried and the one the level above removed.      *)
Backtrack == /\ pc = "decide" /\ ~Smaller /\ back # <<>>
             /\ LET l == Len(back)
                IN  /\ list' = (list \o TriedChunk) \o back[l]
                    /\ cans' = cans - Len(back[l])
                    /\ back' = SubSeq(back, 1, l - 1)
             /\ len' = Len(list')
             /\ CountRound
             /\ pc' = IF Again THEN "again" ELSE "recover"
             /\ EndLevel
             /\ UNCHANGED <<callVars, can, order, verdict>>

GiveUpDropping == /\ pc = "decide" /\ ~Smaller /\ back = <<>>
                  /\ pc' = "recover"
                  /\ EndLevel
                  /\ UNCHANGED <<callVars, list, can, order, back, len, cans,
                                 repeat, verdict>>

(* No chunk can be left out and none was removed before.                   *)
GiveUp == /\ pc = "decide" /\ ~Smaller /\ back = <<>>
          /\ list' = list \o TriedChunk
          /\ pc' = "recover"
          /\ EndLevel
          /\ UNCHANGED <<callVars, can, order, back, len, cans, repeat, verdict>>

Reduced == /\ pc = "reduce" /\ len <= Target
           /\ pc' = "recover"
           /\ UNCHANGED <<callVars, list, can, base, order, n, ret, back, len,
                          cans, repeat, verdict>>

RecoverLast == /\ pc = "recover" /\ back # <<>>
               /\ can' = Head(back)
               /\ back' = Tail(back)
               /\ UNCHANGED <<callVars, pc, list, base, order, n, ret, len,
                              cans, repeat, verdict>>

(* One round of "recover discarded elements", which empties back[] into    *)
(* *can from the outermost level on.                                       *)
Recover == /\ pc = "recover" /\ back # <<>>
           /\ can' = can \o Head(back)
           /\ back' = Tail(back)
           /\ UNCHANGED <<callVars, pc, list, base, order, n, ret, len, cans,
                          repeat, verdict>>

FinalTestAnyLength == /\ pc = "recover" /\ back = <<>>
                      /\ \E ok \in Answers(Range(list)) :
                           verdict' = IF ok THEN "found" ELSE "failed"
                      /\ pc' = "done"
                      /\ UNCHANGED <<callVars, list, can, base, order, n, ret,
                                     back, len, cans, repeat>>

FinalTest == /\ pc = "recover" /\ back = <<>>
             /\ \E ok \in Answers(Range(list)) :
                  verdict' = IF ok /\ len <= Target THEN "found" ELSE "failed"
             /\ pc' = "done"
             /\ UNCHANGED <<callVars, list, can, base, order, n, ret, back,
                            len, cans, repeat>>

Next == \/ NoRecord \/ Shuffle \/ Split \/ Try \/ RemoveChunk \/ Backtrack
        \/ GiveUp \/ Reduced \/ Recover \/ FinalTest

(* One thread runs the routine and nothing in it blocks.                   *)
Spec == Init /\ [][Next]_vars /\ WF_vars(Next)

-----------------------------------------------------------------------------
(***************************************************************************)
(* The lines in play, whatever the routine is doing: while it tries chunks *)
(* out nothing has left yet.  And the lines set aside.                     *)
(***************************************************************************)
InPlay == IF pc \in {"try", "decide"} THEN base ELSE list
Held(b) == UNION {Range(b[i]) : i \in DOMAIN b}
Aside == Range(can) \cup Held(back)

TypeOK == /\ TestTypeOK
          /\ input \in Seq(Elem) /\ backtracking \in BOOLEAN
          /\ pc \in {"start", "again", "reduce", "try", "decide", "recover",
                     "done"}
          /\ list \in Seq(Elem) /\ can \in Seq(Elem) /\ base \in Seq(Elem)
          /\ order \in Orders
          /\ n \in 0 .. Chunks /\ ret \in BOOLEAN
          /\ back \in Seq(Seq(Elem))
          /\ len \in Nat /\ cans \in Int /\ repeat \in 0 .. MaxRepsBack + 1
          /\ verdict \in {"none", "found", "failed"}

(***************************************************************************)
(* Properties.                                                             *)
(***************************************************************************)
(* No line of the candidate list gets lost: the lines in play, those in    *)
(* back[] and those in *can make up the list the caller passed ("recover   *)
(* last case", "recover discarded elements", algorithms.c 257-285).        *)
AllThere == Range(InPlay) \cup Aside = Range(input)

(* And none is linked twice, which would close a cycle in a list that      *)
(* every list function walks to its NULL.                                  *)
Apart(b) == \A i \in DOMAIN b :
              /\ IsInjective(b[i])
              /\ \A j \in DOMAIN b \ {i} : Range(b[i]) \cap Range(b[j]) = {}
NoneTwice == /\ IsInjective(InPlay) /\ IsInjective(can) /\ Apart(back)
             /\ Range(InPlay) \cap Aside = {}
             /\ Range(can) \cap Held(back) = {}

NothingLost == AllThere /\ NoneTwice

(* Whenever a level starts, len and cans say how long *ptr is and how many *)
(* lines are in back[] (algorithms.c 244-262).                             *)
Accounting == pc \in {"again", "reduce"} =>
                /\ len = Len(list)
                /\ cans = Cardinality(Held(back))

(* The open question of algorithms.c 200, "TODO: check height bound":      *)
(* back[] never needs more than its 2h slots.                              *)
HeightBound == len >= Target => Len(back) <= Room

(* With exact timing, a list that evicts stays one: at no point has the    *)
(* routine given away a line it needed.                                    *)
KeepsEvicting == ~noisy /\ Evicts(Range(input)) => Evicts(Range(InPlay))

(* With exact timing one of the Target + 1 chunks can always be left out:  *)
(* the loop over the chunks ends with a positive test.                     *)
SomeChunkGoes == ~noisy /\ Evicts(Range(input)) /\ pc = "decide" => ret

(* A zero return is a minimal eviction set: at most Target lines and, with *)
(* exact timing, one that evicts and of which no line can be spared.       *)
FoundIsMinimal ==
  verdict = "found" =>
    /\ Len(list) <= Target
    /\ ~noisy => /\ Evicts(Range(list))
                 /\ \A e \in Range(list) : ~Evicts(Range(list) \ {e})

(* The routine returns, however wrong the tests are: every backtracking    *)
(* step counts against MAX_REPS_BACK.                                      *)
Termination == <>(pc = "done")

(* It is a reduction as find_evsets() uses one.                            *)
Contract == INSTANCE Reduction WITH kept <- Range(InPlay), dropped <- Aside
IsReduction == Contract!Spec

(* algorithms.c 240: "If find smaller eviction set remove chunk".          *)
SmallerIsTaken == [][pc = "decide" /\ ret => Len(back') > Len(back)]_vars

-----------------------------------------------------------------------------
(***************************************************************************)
(* The inductive invariant behind the theorems of GroupTestingProofs.      *)
(***************************************************************************)
(* Where the routine stands when pc says so.                               *)
LoopState ==
  /\ pc = "start" => list = input /\ back = <<>>
  /\ pc # "done" => verdict = "none"
  /\ pc \notin {"recover", "done"} => can = <<>> /\ repeat <= MaxRepsBack
  /\ pc \in {"try", "decide"} => len > Target /\ len = Len(base)
  /\ pc \notin {"try", "decide"} => len = Len(list)
  /\ pc = "try" => n < Chunks /\ ~ret
  /\ pc = "decide" => /\ n > 0
                      /\ list = Without(base, order[n])
                      /\ ret \/ n = Chunks

(* What exact tests have told it so far.                                   *)
Learnt ==
  ~noisy =>
    /\ pc \in {"try", "decide"} =>
         \A m \in 1 .. n : (m < n \/ ~ret) =>
                             ~Evicts(Range(Without(base, order[m])))
    /\ pc = "decide" /\ ret => Evicts(Range(list))

Verdict == verdict = "found" => /\ pc = "done" /\ len <= Target
                                /\ Trusted(Range(list))

IInv == TypeOK /\ NothingLost /\ KeepsEvicting /\ LoopState /\ Learnt /\ Verdict
=============================================================================
