------------------------------- MODULE Finder --------------------------------
(***************************************************************************)
(* The worker of the browser port, start() and cb() of browser/finder.js:  *)
(* with CONFLICT, make a conflict set, then take a victim from the lines   *)
(* left over, skip it when an eviction set found before evicts it or when  *)
(* the conflict set does not, reduce, save the eviction set, go on with    *)
(* what the reduction set aside.  Without it, one reduction for the line   *)
(* of the page.                                                            *)
(*                                                                         *)
(* A whole groupReduction() is one step, with any end module               *)
(* BrowserReduction allows: a list of Way lines that evict the victim, or  *)
(* all lines back in refs.  None stands for undefined.                     *)
(***************************************************************************)
EXTENDS ConflictSet, Sequences, Functions

CONSTANTS Retry,      \* RETRY, 10 in the code
          None

ASSUME FinderAssumption == Retry \in Nat \ {0} /\ None \notin Elem \cup {Page}

VARIABLES
  conflict,           \* CONFLICT
  pc,
  victim,
  results, e,         \* RESULTS, the index into it
  next,               \* cb() has to find another victim
  r,                  \* failed calls of cb() since the last eviction set
  passed,             \* history: how many of RESULTS the loop had passed when
                      \*   it took the victim,
  passedOf            \*   and when it took the victim of each of RESULTS

control == <<conflict, victim, results, e, next, r>>
history == <<passed, passedOf>>
vars == <<machine, rest, refs, vics, pc, control, history>>

Init == /\ noisy \in BOOLEAN /\ conflict \in BOOLEAN /\ unasked \in Unasked
        /\ color \in [Elem \cup {Page} -> Color]
        /\ IF conflict THEN pc = "generate" /\ rest = Elem /\ refs = {}
                       ELSE pc = "cb" /\ rest = {} /\ refs = Elem
        /\ vics = {} /\ victim = Page /\ results = <<>> /\ e = 1
        /\ next = conflict /\ r = 0
        /\ passed = 0 /\ passedOf = <<>>

GenerateOne == /\ pc = "generate" /\ rest # {}
               /\ Generate
               /\ UNCHANGED <<machine, pc, control, history>>

Generated == /\ pc = "generate" /\ rest = {}
             /\ pc' = "cb"
             /\ UNCHANGED <<machine, rest, refs, vics, control, history>>

-----------------------------------------------------------------------------
(* evset.victim = evset.vics.pop(), with n sets found behind the loop      *)
Pop(n) == /\ IF vics = {} THEN victim' = None /\ UNCHANGED vics
             ELSE /\ victim' \in vics
                  /\ vics' = vics \ {victim'}
          /\ passed' = n

KeepVictim == /\ pc = "cb" /\ ~next
              /\ pc' = "reduce"
              /\ UNCHANGED <<machine, rest, refs, vics, control, history>>

LeftAsItWas == e
FirstOfResults == 1

NextVictim == /\ pc = "cb" /\ next
              /\ Pop(0)
              /\ e' = FirstOfResults
              /\ pc' = "compare"
              /\ UNCHANGED <<machine, rest, refs, conflict, results, next, r, passedOf>>

(* One round of the inner loop.  A victim that is evicted by a set found   *)
(* before is replaced, and the loop goes on with the next set, not with    *)
(* the first.                                                              *)
Compare == /\ pc = "compare" /\ victim # None /\ e <= Len(results)
           /\ \E miss \in Answers(results[e], victim) :
                IF miss THEN Pop(e) ELSE UNCHANGED <<victim, vics, passed>>
           /\ e' = e + 1
           /\ UNCHANGED <<machine, rest, refs, pc, conflict, results, next, r,
                          passedOf>>

(* Does what is left of the buffer evict it?                               *)
Judge == /\ pc = "compare" /\ victim # None /\ e > Len(results)
         /\ \E miss \in Answers(refs, victim) :
              IF miss THEN pc' = "reduce" /\ next' = FALSE
                      ELSE pc' = "cb" /\ UNCHANGED next
         /\ UNCHANGED <<machine, rest, refs, vics, conflict, victim, results, e, r,
                        history>>

NothingCounted == r
Counted == r + 1

(* cb() returns false.  The loop calls it again unless that was once too   *)
(* often or there is no victim any more.                                   *)
CbFails == /\ r' = Counted
           /\ pc' = IF r' < Retry /\ victim # None THEN "cb" ELSE "save"

NoMoreVictims == /\ pc = "compare" /\ victim = None
                 /\ CbFails
                 /\ UNCHANGED <<machine, rest, refs, vics, conflict, victim, results, e,
                                next, history>>

(* groupReduction() leaves the lines it took out in del, as chunks, and    *)
(* cb() joins them all to refs again (168-170).  They are the lines refs   *)
(* had before, in another order: BrowserReduction has both steps (Stuck    *)
(* and Finish), and a reduction that ends without an eviction set is a     *)
(* Fail of its contract, which loses no line.                              *)
ReductionFails == /\ pc = "reduce"
                  /\ CbFails
                  /\ UNCHANGED <<machine, rest, refs, vics, conflict, victim, results,
                                 e, next, history>>

-----------------------------------------------------------------------------
(* RESULTS gets refs, and refs what del holds.                             *)
Push(K) == /\ results' = Append(results, K) /\ refs' = refs \ K
           /\ passedOf' = Append(passedOf, passed)

(* while (CONFLICT && vics.length > 0 && refs.length > ASSOC)              *)
Again == /\ next' = conflict
         /\ r' = 0
         /\ pc' = IF conflict /\ vics # {} /\ Cardinality(refs') > Way
                    THEN "cb" ELSE "done"

Success == /\ pc = "reduce"
           /\ \E K \in SUBSET refs :
                /\ Cardinality(K) = Way
                /\ noisy \/ Evicts(K, victim) \/ K = refs
                /\ Push(K)
           /\ Again
           /\ UNCHANGED <<machine, rest, vics, conflict, victim, e, passed>>

FewEnoughTooOften == r <= Retry
FewEnough == r < Retry

(* After a failure refs holds all lines and del none.  When the victims    *)
(* have run out that is saved, too, as if it were an eviction set.         *)
AfterFailure == /\ pc = "save"
                /\ IF FewEnough THEN Push(refs) ELSE UNCHANGED <<results, refs, passedOf>>
                /\ Again
                /\ UNCHANGED <<machine, rest, vics, conflict, victim, e, passed>>

Next == \/ GenerateOne \/ Generated \/ KeepVictim \/ NextVictim \/ Compare \/ Judge
        \/ NoMoreVictims \/ ReductionFails \/ Success \/ AfterFailure

Spec == Init /\ [][Next]_vars /\ WF_vars(Next)
-----------------------------------------------------------------------------
(* With exact answers, and from the end of the generation on, every line   *)
(* that still waits to be a victim is evicted by the conflict set, which   *)
(* is what is left of it with what was saved; when every line was asked    *)
(* for, it has no more than Way lines of a colour.  So it is less than     *)
(* README 114 says, "the union of all minimal eviction sets": one of them  *)
(* per colour.                                                             *)
ConflictSetKept ==
  ~noisy /\ conflict /\ rest = {} =>
    LET kept == refs \cup UNION Range(results)
    IN  /\ EvictVictims(kept)
        /\ unasked = 0 => NoneToSpare(kept)

(* With exact answers "save eviction set" (finder.js 44) saves Way lines   *)
(* of one colour -- but when the victims run out, the last thing saved,    *)
(* and counted among the "different eviction sets", is the rest of the     *)
(* conflict set.  Without CONFLICT a buffer of no more than Way lines is   *)
(* saved without any test.                                                 *)
SavedEvict ==
  ~noisy /\ (conflict \/ Cardinality(Elem) # Way) =>
    \A k \in DOMAIN results :
      \/ \E c \in Color : /\ Cardinality(results[k]) = Way
                          /\ OfColor(results[k], c) = results[k]
      \/ k = Len(results) /\ victim = None

(* "Found N different eviction sets" (finder.js 57): a colour may be found *)
(* more than once, but in one way only.  The loop over the sets found      *)
(* takes another victim without starting over (143-149), so that the       *)
(* colour of a set it has passed comes up again; and that victim still     *)
(* finds lines of its colour only as long as more of them than an          *)
(* eviction set needs were kept unasked (evset.js 142).  The sets of one   *)
(* colour are thus made of such lines -- 800 of them, with 16 ways, are    *)
(* enough for 50 -- or there is just one.                                  *)
SetsOf(c) == {k \in DOMAIN results : /\ Cardinality(results[k]) = Way
                                     /\ OfColor(results[k], c) = results[k]}

FoundAgain ==
  ~noisy =>
    \A c \in Color :
      /\ \/ Cardinality(SetsOf(c)) <= 1
         \/ Way * Cardinality(SetsOf(c)) <= unasked
      /\ \A k, l \in SetsOf(c) : k < l => k <= passedOf[l]

(* The worker posts its `eof' whatever the answers are: every loop uses up *)
(* victims or retries.                                                     *)
Termination == <>(pc = "done")
=============================================================================
