-------------------------- MODULE FindEvsetsProofs --------------------------
(***************************************************************************)
(* What holds of find_evsets() for every buffer, probe page, number of     *)
(* colours and ways, choice of flags, and outcome of tests and reductions. *)
(***************************************************************************)
EXTENDS FindEvsets, FiniteSetTheorems, TLAPS

(***************************************************************************)
(* The inductive invariant, in parts.                                      *)
(***************************************************************************)
Picking == pc \in {"start", "pick", "first"}
Searching == pc \in {"reduce", "settle", "next"}

(* The first slot of evsets that is free: id, or the one behind it when    *)
(* the reduction has just filled evsets[id].                               *)
Free == IF pc = "settle" /\ ret = 0 THEN id + 1 ELSE id

(* Nothing is recorded before the first reduction.                         *)
NothingYet == Picking => /\ num_evsets = 0 /\ ~givenUp /\ can = {}
                         /\ \A i \in DOMAIN evsets : evsets[i] = {}
                         /\ pc = "first" => ptr = buffer

Slots == Searching => /\ id < colors
                      /\ num_evsets <= Free
                      /\ \A i \in DOMAIN evsets : i >= Free => evsets[i] = {}
                      /\ pc # "settle" => can = {}
                      /\ pc = "settle" /\ ret = 0 => evsets[id] = ptr
                      /\ ~Has("findallcolors") => id = 0 /\ ~givenUp

Victims == ~ConflictSet => waiting \subseteq Probe

(* OneListPerLine, and at "settle" for all slots but the one just filled.  *)
Separate ==
  /\ \A i, j \in DOMAIN evsets : i # j => evsets[i] \cap evsets[j] = {}
  /\ \A i \in DOMAIN evsets : pc # "settle" \/ i # id =>
                                evsets[i] \cap (ptr \cup can) = {}
  /\ ptr \cap can = {}
  /\ (ptr \cup can) \cap waiting = {}
  /\ \A i \in DOMAIN evsets : evsets[i] \cap waiting = {}

Lists == TypeOK /\ NothingYet /\ Slots /\ Victims /\ Separate /\ NoLineLost

-----------------------------------------------------------------------------
LEMMA ColorsType == colors \in Nat \ {0}
  BY ColorAssumption, FS_CardinalityType, FS_EmptySet DEF colors

LEMMA InitLists == Init => Lists
  <1> SUFFICES ASSUME Init PROVE Lists
    OBVIOUS
  <1>1. TypeOK
    BY ColorsType, MaxRepsAssumption DEF Init, TypeOK
  <1>2. NothingYet /\ Slots /\ NoLineLost
    BY DEF Init, NothingYet, Slots, NoLineLost, Picking, Searching
  <1>3. Victims /\ Separate
    BY DEF Init, Victims, Separate
  <1>4. QED
    BY <1>1, <1>2, <1>3 DEF Lists

LEMMA CalibrateLists == Lists /\ Calibrate => Lists'
  <1> SUFFICES ASSUME Lists, Calibrate PROVE Lists'
    OBVIOUS
  <1> USE DEF Calibrate, Return, conf
  <1>1. TypeOK'
    BY DEF Lists, TypeOK
  <1>2. NothingYet' /\ Slots' /\ NoLineLost'
    BY DEF Lists, NothingYet, Slots, NoLineLost, Picking, Searching
  <1>3. Victims' /\ Separate'
    BY DEF Lists, Victims, Separate, ConflictSet, Has
  <1>4. QED
    BY <1>1, <1>2, <1>3 DEF Lists

LEMMA PickPlainLists == Lists /\ PickPlain => Lists'
  <1> SUFFICES ASSUME Lists, PickPlain PROVE Lists'
    OBVIOUS
  <1> USE DEF PickPlain, conf
  <1>1. TypeOK'
    BY ColorsType DEF Lists, TypeOK, Redraw
  <1>2. NothingYet' /\ Slots' /\ NoLineLost'
    BY DEF Lists, NothingYet, Slots, NoLineLost, Picking, Searching
  <1>3. Victims' /\ Separate'
    BY LinesAssumption DEF Lists, NothingYet, Picking, Victims, Separate, ConflictSet, Has
  <1>4. QED
    BY <1>1, <1>2, <1>3 DEF Lists

LEMMA PickConflictLists == Lists /\ PickConflict => Lists'
  <1> SUFFICES ASSUME Lists, PickConflict PROVE Lists'
    OBVIOUS
  <1>1. /\ pc = "pick" /\ pc' = "first" /\ ConflictSet /\ Redraw
        /\ UNCHANGED <<conf, evsets, num_evsets, id, rep, ret, givenUp, result>>
        /\ ptr' \subseteq Elem /\ buffer' = ptr' /\ can' = {}
        /\ waiting' \subseteq Elem \ ptr' /\ victim' \in Elem \cup {Null}
        /\ set' = [e \in Elem |-> -1]
    BY DEF PickConflict
  <1>2. TypeOK'
    BY <1>1, ColorsType DEF Lists, TypeOK, Redraw, conf
  <1>3. NothingYet' /\ Slots' /\ NoLineLost'
    BY <1>1 DEF Lists, NothingYet, Slots, NoLineLost, Picking, Searching
  <1>4. Victims' /\ Separate'
    BY <1>1 DEF Lists, NothingYet, Picking, Victims, Separate, ConflictSet, Has, conf
  <1>5. QED
    BY <1>2, <1>3, <1>4 DEF Lists

LEMMA FirstTestLists == Lists /\ FirstTest => Lists'
  <1> SUFFICES ASSUME Lists, FirstTest PROVE Lists'
    OBVIOUS
  <1> USE DEF FirstTest, conf
  <1>1. TypeOK'
    BY DEF Lists, TypeOK
  <1>2. NothingYet' /\ Slots'
    BY ColorsType DEF Lists, TypeOK, NothingYet, Slots, Picking, Searching, Free, Has
  <1>3. NoLineLost'
    BY DEF Lists, TypeOK, NothingYet, NoLineLost, Picking, Found
  <1>4. Victims' /\ Separate'
    BY DEF Lists, Victims, Separate, ConflictSet, Has
  <1>5. QED
    BY <1>1, <1>2, <1>3, <1>4 DEF Lists

LEMMA FirstTestFailsLists == Lists /\ FirstTestFails => Lists'
  <1> SUFFICES ASSUME Lists, FirstTestFails PROVE Lists'
    OBVIOUS
  <1>1. /\ pc = "first" /\ pc' \in {"pick", "done"}
        /\ UNCHANGED <<conf, color, ptr, can, victim, waiting, evsets,
                       num_evsets, id, ret, set, buffer, givenUp>>
    BY DEF FirstTestFails, Return
  <1>2. TypeOK'
    BY <1>1, MaxRepsAssumption
    DEF Lists, TypeOK, FirstTestFails, MayRetry, CountRetry, Return, conf
  <1>3. NothingYet' /\ Slots' /\ NoLineLost'
    BY <1>1 DEF Lists, NothingYet, Slots, NoLineLost, Picking, Searching
  <1>4. Victims' /\ Separate'
    BY <1>1 DEF Lists, Victims, Separate, ConflictSet, Has, conf
  <1>5. QED
    BY <1>2, <1>3, <1>4 DEF Lists

LEMMA ReduceLists == Lists /\ Reduce => Lists'
  <1> SUFFICES ASSUME Lists, Reduce PROVE Lists'
    OBVIOUS
  <1>1. /\ pc = "reduce" /\ pc' = "settle" /\ id < colors /\ id \in Nat
        /\ can = {} /\ num_evsets <= id /\ ptr \subseteq Elem
        /\ \A i \in DOMAIN evsets : i >= id => evsets[i] = {}
        /\ ~Has("findallcolors") => id = 0 /\ ~givenUp
        /\ UNCHANGED <<conf, color, victim, waiting, id, rep, set, buffer,
                       givenUp, result>>
    BY DEF Reduce, Lists, TypeOK, Slots, Searching, Free
  <1>2. id \in DOMAIN evsets
    BY <1>1, ColorsType DEF Lists, TypeOK
  <1>3. CASE Success
    <2>1. PICK K \in SUBSET ptr :
            /\ ptr' = K /\ can' = ptr \ K /\ ret' = 0
            /\ evsets' = [evsets EXCEPT ![id] = K]
            /\ num_evsets' = num_evsets + 1
      BY <1>3 DEF Success
    <2>2. TypeOK'
      BY <1>1, <2>1, ColorsType DEF Lists, TypeOK, conf
    <2>3. NothingYet' /\ Slots'
      BY <1>1, <1>2, <2>1
      DEF Lists, TypeOK, NothingYet, Slots, Picking, Searching, Free, Has, conf
    <2>4. Victims' /\ Separate'
      BY <1>1, <1>2, <2>1 DEF Lists, Victims, Separate, ConflictSet, Has, conf
    <2>5. NoLineLost'
      <3>1. Found' = Found \cup K
        BY <1>1, <1>2, <2>1 DEF Found, Lists, TypeOK
      <3>2. QED
        BY <1>1, <2>1, <3>1 DEF Lists, NoLineLost, conf
    <2>6. QED
      BY <2>2, <2>3, <2>4, <2>5 DEF Lists
  <1>4. CASE Failure
    <2>1. PICK K \in SUBSET ptr :
            /\ ptr' = K /\ can' \subseteq ptr \ K /\ ret' = 1
            /\ ~linear => can' = ptr \ K
            /\ UNCHANGED <<evsets, num_evsets>>
      BY <1>4 DEF Failure
    <2>2. TypeOK'
      BY <1>1, <2>1 DEF Lists, TypeOK, conf
    <2>3. NothingYet' /\ Slots'
      BY <1>1, <2>1 DEF Lists, TypeOK, NothingYet, Slots, Picking, Searching, Free,
                        Has, conf
    <2>4. Victims' /\ Separate'
      BY <1>1, <2>1 DEF Lists, Victims, Separate, ConflictSet, Has, conf
    <2>5. NoLineLost'
      BY <1>1, <2>1 DEF Lists, NoLineLost, Found, conf
    <2>6. QED
      BY <2>2, <2>3, <2>4, <2>5 DEF Lists
  <1>5. QED
    BY <1>3, <1>4 DEF Reduce

(* After a failure that is retried the lines set aside rejoin the others.  *)
LEMMA RetryLists ==
  ASSUME Lists, pc = "settle", Retried, Rejoin, CountRetry,
         UNCHANGED <<conf, color, victim, waiting, evsets, num_evsets, id, ret,
                     set, buffer, givenUp>>,
         \/ pc' \in {"next", "reduce"} /\ UNCHANGED result
         \/ pc' = "pick" /\ UNCHANGED result
              /\ ~Has("conflictset") /\ ~Has("findallcolors")
         \/ pc' = "done" /\ result' = ret
  PROVE  Lists'
  <1>1. /\ id < colors /\ id \in Nat /\ ret = 1 /\ num_evsets <= id
        /\ num_evsets \in Nat
        /\ \A i \in DOMAIN evsets : i >= id => evsets[i] = {}
        /\ rep < MaxReps
        /\ ~Has("findallcolors") => id = 0 /\ ~givenUp
    BY DEF Lists, TypeOK, Slots, Searching, Free, Retried, MayRetry
  <1>2. ptr' = ptr \cup can /\ can' = {}
    BY DEF Rejoin
  <1>3. TypeOK'
    BY <1>1, <1>2, MaxRepsAssumption DEF Lists, TypeOK, conf, CountRetry
  <1>4. NothingYet'
    BY <1>1, <1>2 DEF Lists, TypeOK, NothingYet, Picking
  <1>5. Slots'
    BY <1>1, <1>2 DEF Slots, Searching, Free, Has, conf
  <1>6. Victims' /\ Separate'
    BY <1>1, <1>2 DEF Lists, TypeOK, Victims, Separate, ConflictSet, Has, conf
  <1>7. NoLineLost'
    BY <1>2 DEF Lists, NoLineLost, Found, conf
  <1>8. QED
    BY <1>3, <1>4, <1>5, <1>6, <1>7 DEF Lists

LEMMA RetryFromScratchLists == Lists /\ RetryFromScratch => Lists'
  BY RetryLists DEF RetryFromScratch

LEMMA RetryNextVictimLists == Lists /\ RetryNextVictim => Lists'
  <1> SUFFICES ASSUME Lists, RetryNextVictim PROVE Lists'
    OBVIOUS
  <1>1. \/ pc' \in {"next", "reduce"} /\ UNCHANGED result
        \/ pc' = "done" /\ result' = ret
    BY DEF RetryNextVictim, Return
  <1>2. QED
    BY <1>1, RetryLists DEF RetryNextVictim

(* What EndRound does, whatever comes next: X is what joins evsets[id].    *)
LEMMA RoundEnds ==
  ASSUME Lists, EndRound
  PROVE  \E X \in SUBSET can :
           /\ ptr' \subseteq can \ X /\ can' = {}
           /\ ret = 0 \/ Has("retry") => ptr' = can \ X
           /\ Has("findallcongruent") /\ Exact =>
                X = {e \in IF ret = 1 /\ ~Has("retry") THEN {} ELSE can :
                       Evicts(evsets[id], e)}
           /\ ~Has("findallcongruent") => X = {}
           /\ evsets' = [evsets EXCEPT ![id] = @ \cup X]
  <1> DEFINE left == IF ret = 1 /\ ~Has("retry") THEN {} ELSE can
  <1>1. PICK X \in SUBSET left :
          /\ IF Has("findallcongruent") THEN CongruentIn(left, X) ELSE X = {}
          /\ ptr' = left \ X
          /\ evsets' = [evsets EXCEPT ![id] = @ \cup X]
    BY DEF EndRound
  <1>2. can' = {} /\ ret \in {0, 1}
    BY DEF EndRound, Lists, TypeOK
  <1>3. left \subseteq can /\ (ret = 0 \/ Has("retry") => left = can)
    BY <1>2
  <1>4. /\ Has("findallcongruent") /\ Exact =>
             X = {e \in left : Evicts(evsets[id], e)}
        /\ ~Has("findallcongruent") => X = {}
    BY <1>1 DEF CongruentIn, Exact
  <1> WITNESS X \in SUBSET can
  <1>5. QED
    BY <1>1, <1>2, <1>3, <1>4

LEMMA EndRoundLists == Lists /\ EndRound => Lists'
  <1> SUFFICES ASSUME Lists, EndRound PROVE Lists'
    OBVIOUS
  <1>1. PICK X \in SUBSET can :
          /\ ptr' \subseteq can \ X /\ can' = {}
          /\ ret = 0 \/ Has("retry") => ptr' = can \ X
          /\ evsets' = [evsets EXCEPT ![id] = @ \cup X]
    BY RoundEnds
  <1>2. /\ pc = "settle" /\ id < colors /\ id \in Nat /\ ret \in {0, 1}
        /\ num_evsets \in Nat /\ colors \in Nat
        /\ num_evsets <= Free
        /\ \A i \in DOMAIN evsets : i >= Free => evsets[i] = {}
        /\ ret = 0 => evsets[id] = ptr
        /\ ~Has("findallcolors") => id = 0 /\ ~givenUp
        /\ UNCHANGED <<conf, color, victim, waiting, num_evsets, ret, buffer>>
        /\ givenUp' = (givenUp \/ ret = 1)
    BY ColorsType DEF EndRound, Lists, TypeOK, Slots, Searching
  <1>3. id \in DOMAIN evsets /\ DOMAIN evsets = 0 .. colors - 1
    BY <1>2, ColorsType DEF Lists, TypeOK
  <1>4. \/ pc' = "done" /\ id' \in {id, id + 1} /\ result' = ret
        \/ /\ Has("findallcolors") /\ id' = id + 1 /\ id' # colors
           /\ pc' \in {"next", "reduce"} /\ UNCHANGED result
    BY DEF EndRound, Return, NoRoundLeft
  <1>5. TypeOK'
    <2>1. evsets' \in [0 .. colors - 1 -> SUBSET Elem]
      BY <1>1, <1>3 DEF Lists, TypeOK
    <2>2. id' \in 0 .. colors /\ num_evsets \in 0 .. colors
      BY <1>2, <1>4 DEF Free
    <2>3. set' \in [Elem -> -2 .. colors - 1]
      <3>1. set' = [e \in Elem |-> IF e \in evsets'[id] THEN id ELSE set[e]]
        BY DEF EndRound
      <3>2. QED
        BY <3>1, <1>2 DEF Lists, TypeOK
    <2>4. rep' \in 0 .. MaxReps
      BY MaxRepsAssumption DEF EndRound, Lists, TypeOK
    <2>5. QED
      BY <1>1, <1>2, <1>4, <2>1, <2>2, <2>3, <2>4
      DEF Lists, TypeOK, conf
  <1>6. NothingYet'
    BY <1>4 DEF NothingYet, Picking
  <1>7. Slots'
    <2>1. CASE pc' = "done"
      BY <2>1 DEF Slots, Searching
    <2>2. CASE pc' # "done"
      <3>1. /\ Has("findallcolors")' /\ id' = id + 1 /\ id' < colors
            /\ pc' \in {"next", "reduce"} /\ Free' = id + 1
        BY <1>2, <1>4, <2>2 DEF Free, Has, conf
      <3>2. num_evsets' <= Free'
        BY <1>2, <3>1 DEF Free
      <3>3. \A i \in DOMAIN evsets' : i >= Free' => evsets'[i] = {}
        BY <1>1, <1>2, <1>3, <3>1 DEF Free, Lists, TypeOK
      <3>4. QED
        BY <1>1, <3>1, <3>2, <3>3 DEF Slots, colors
    <2>3. QED
      BY <2>1, <2>2
  <1>8. \A i \in DOMAIN evsets : evsets[i] \cap can = {}
    BY <1>2, <1>3 DEF Lists, Separate, Free
  <1>9. Victims' /\ Separate'
    BY <1>1, <1>2, <1>3, <1>8 DEF Lists, TypeOK, Victims, Separate, ConflictSet, Has, conf
  <1>10. NoLineLost'
    <2>1. Found' = Found \cup X
      BY <1>1, <1>3 DEF Found, Lists, TypeOK
    <2>2. ret = 0 => ptr \subseteq Found
      BY <1>2, <1>3 DEF Found
    <2>3. QED
      BY <1>1, <1>2, <2>1, <2>2 DEF Lists, NoLineLost, conf
  <1>11. QED
    BY <1>5, <1>6, <1>7, <1>9, <1>10 DEF Lists

(* The search for the next victim leaves the lists alone.                  *)
LEMMA VictimLists ==
  ASSUME Lists, pc = "next",
         UNCHANGED <<conf, color, ptr, can, evsets, num_evsets, id, rep, ret,
                     set, buffer, givenUp>>,
         victim' \in Elem \cup Probe \cup {Null}, waiting' \subseteq waiting,
         pc' \in {"next", "reduce", "done"}, result' \in {result, 0, 1}
  PROVE  Lists'
  <1>1. TypeOK'
    BY DEF Lists, TypeOK, conf
  <1>2. NothingYet' /\ Slots'
    BY DEF Lists, TypeOK, NothingYet, Slots, Picking, Searching, Free, Has, conf
  <1>3. Victims' /\ Separate'
    BY DEF Lists, Victims, Separate, ConflictSet, Has, conf
  <1>4. NoLineLost'
    BY DEF Lists, NoLineLost, Found, conf
  <1>5. QED
    BY <1>1, <1>2, <1>3, <1>4 DEF Lists

LEMMA NoMoreVictimsLists == Lists /\ NoMoreVictims => Lists'
  BY VictimLists DEF NoMoreVictims, Return

LEMMA VictimFoundLists == Lists /\ VictimFound => Lists'
  <1> SUFFICES ASSUME Lists, VictimFound PROVE Lists'
    OBVIOUS
  <1>1. /\ victim' \in Elem \cup Probe /\ waiting' \subseteq waiting
        /\ ret \in {0, 1}
    BY DEF VictimFound, Lists, TypeOK
  <1>2. pc' \in {"reduce", "done"} /\ result' \in {result, ret}
    BY DEF VictimFound, Return
  <1>3. QED
    BY <1>1, <1>2, VictimLists DEF VictimFound

LEMMA VictimRefusedLists == Lists /\ VictimRefused => Lists'
  <1> SUFFICES ASSUME Lists, VictimRefused PROVE Lists'
    OBVIOUS
  <1>1. victim' \in Elem \cup Probe /\ waiting' \subseteq waiting
    BY DEF VictimRefused, Lists, TypeOK
  <1>2. pc' \in {"next", "done"} /\ result' \in {result, 1}
    BY DEF VictimRefused, Return
  <1>3. QED
    BY <1>1, <1>2, VictimLists DEF VictimRefused

LEMMA StutterLists == Lists /\ UNCHANGED vars => Lists'
  <1> SUFFICES ASSUME Lists, UNCHANGED vars PROVE Lists'
    OBVIOUS
  <1> USE DEF vars, conf
  <1>1. TypeOK'
    BY DEF Lists, TypeOK
  <1>2. NothingYet' /\ Slots'
    BY DEF Lists, NothingYet, Slots, Picking, Searching, Free, Has
  <1>3. Victims' /\ Separate' /\ NoLineLost'
    BY DEF Lists, Victims, Separate, NoLineLost, Found, ConflictSet, Has
  <1>4. QED
    BY <1>1, <1>2, <1>3 DEF Lists

LEMMA StepLists == Lists /\ [Next]_vars => Lists'
  BY CalibrateLists, PickPlainLists, PickConflictLists, FirstTestLists,
     FirstTestFailsLists, ReduceLists, RetryFromScratchLists,
     RetryNextVictimLists, EndRoundLists, NoMoreVictimsLists, VictimFoundLists,
     VictimRefusedLists, StutterLists
  DEF Next

-----------------------------------------------------------------------------
(* Whatever the flags and the answers are, the lists keep what they are    *)
(* meant to hold.                                                          *)
THEOREM ListsKept == Spec => []Lists
  <1>1. QED
    BY InitLists, StepLists, PTL DEF Spec

(* Every variable keeps its type; evsets never has more than `colors' sets *)
(* and retries never exceed MAX_REPS.                                      *)
THEOREM TypeCorrect == Spec => []TypeOK
  <1>1. Lists => TypeOK
    BY DEF Lists
  <1>2. QED
    BY <1>1, ListsKept, PTL

(* A reduction is never asked to fill a slot behind the end of the array.  *)
THEOREM StaysInside == Spec => []InsideTheArray
  <1>1. Lists => InsideTheArray
    BY DEF Lists, Slots, Searching, InsideTheArray
  <1>2. QED
    BY <1>1, ListsKept, PTL

(* A line is in one list at most.                                          *)
THEOREM OneList == Spec => []OneListPerLine
  <1>1. Lists => OneListPerLine
    BY DEF Lists, Separate, OneListPerLine, Found
  <1>2. QED
    BY <1>1, ListsKept, PTL

(* Unless a round is given up, no line of the buffer is lost.              *)
THEOREM LosesNoLine == Spec => []NoLineLost
  <1>1. Lists => NoLineLost
    BY DEF Lists
  <1>2. QED
    BY <1>1, ListsKept, PTL

-----------------------------------------------------------------------------
(***************************************************************************)
(* With exact tests: what the eviction sets are.                           *)
(***************************************************************************)
(* The colours of which S holds enough lines to evict.                     *)
Colors(S) == {c \in Color : Cardinality(Congruent(S, c)) >= Way}
Full == {i \in DOMAIN evsets : Colors(evsets[i]) # {}}

(* An eviction set has lines of one colour only.                           *)
OneColor == \A i \in DOMAIN evsets :
              \A c \in Colors(evsets[i]), e \in evsets[i] : color[e] = c

(* The victim of a reduction is of none of the colours found before.       *)
NewColor == pc = "reduce" /\ ~linear =>
              \A i \in DOMAIN evsets : ~Evicts(evsets[i], victim)

(* CongruentRemoved, and at "settle" for all sets but the one just found.  *)
Removed == Has("findallcongruent") /\ Searching =>
             \A i \in DOMAIN evsets, e \in ptr \cup can :
               pc # "settle" \/ i # id => ~Evicts(evsets[i], e)

Distinct == ~linear \/ Has("findallcongruent") =>
              \A i, j \in DOMAIN evsets :
                i # j => Colors(evsets[i]) \cap Colors(evsets[j]) = {}

Counted == /\ num_evsets = Cardinality(Full)
           /\ givenUp \/ Full = 0 .. num_evsets - 1
           /\ Searching /\ ~givenUp => num_evsets = Free

Sound == Exact => OneColor /\ NewColor /\ Removed /\ Distinct /\ Counted

-----------------------------------------------------------------------------
LEMMA CongruentFinite ==
  ASSUME NEW S \in SUBSET Elem, NEW c
  PROVE  /\ IsFiniteSet(S) /\ Congruent(S, c) \in SUBSET S
         /\ IsFiniteSet(Congruent(S, c))
         /\ Cardinality(Congruent(S, c)) \in Nat
  <1>1. IsFiniteSet(S) /\ Congruent(S, c) \in SUBSET S
    BY LinesAssumption, FS_Subset DEF Congruent
  <1>2. IsFiniteSet(Congruent(S, c))
    BY <1>1, FS_Subset
  <1>3. QED
    BY <1>1, <1>2, FS_CardinalityType

(* The empty set evicts nothing, and what evicts has a line of the colour. *)
LEMMA HasLine ==
  ASSUME NEW S \in SUBSET Elem, NEW c, Cardinality(Congruent(S, c)) >= Way
  PROVE  \E e \in S : color[e] = c
  <1> SUFFICES ASSUME \A e \in S : color[e] # c PROVE FALSE
    OBVIOUS
  <1>1. Congruent(S, c) = {}
    BY DEF Congruent
  <1>2. QED
    BY <1>1, FS_EmptySet, WayAssumption

LEMMA NothingEvicts ==
  /\ Colors({}) = {}
  /\ \A v : ~Evicts({}, v)
  BY HasLine DEF Colors, Evicts

LEMMA MoreColors ==
  ASSUME NEW S \in SUBSET Elem, NEW T \in SUBSET Elem, S \subseteq T
  PROVE  Colors(S) \subseteq Colors(T)
  <1> SUFFICES ASSUME NEW c \in Color, Cardinality(Congruent(S, c)) >= Way
               PROVE  Cardinality(Congruent(T, c)) >= Way
    BY DEF Colors
  <1>1. Congruent(S, c) \in SUBSET Congruent(T, c)
    BY DEF Congruent
  <1>2. IsFiniteSet(Congruent(T, c))
    BY CongruentFinite
  <1>3. Cardinality(Congruent(S, c)) <= Cardinality(Congruent(T, c))
    BY <1>1, <1>2, FS_Subset
  <1>4. QED
    BY <1>3, CongruentFinite, WayAssumption

(* Evicting a line means to have its colour.                               *)
LEMMA EvictsColor ==
  ASSUME TypeOK, NEW S, NEW v \in Elem \cup Probe
  PROVE  color[v] \in Color /\ (Evicts(S, v) <=> color[v] \in Colors(S))
  BY DEF TypeOK, Evicts, Colors

(* A set as small as a reduction makes it has no room for another colour.  *)
LEMMA NoRoom ==
  ASSUME NEW K \in SUBSET Elem, NEW c \in Color, NEW m \in Nat,
         m >= Way, Cardinality(K) <= m, Cardinality(Congruent(K, c)) >= m
  PROVE  Colors(K) = {c} /\ \A e \in K : color[e] = c
  <1>1. /\ IsFiniteSet(K) /\ Congruent(K, c) \in SUBSET K
        /\ Cardinality(Congruent(K, c)) \in Nat
    BY CongruentFinite
  <1>2. Cardinality(Congruent(K, c)) <= Cardinality(K) /\ Cardinality(K) \in Nat
    BY <1>1, FS_Subset, FS_CardinalityType
  <1>3. Congruent(K, c) = K
    BY <1>1, <1>2, FS_Subset
  <1>4. \A e \in K : color[e] = c
    BY <1>3 DEF Congruent
  <1>5. c \in Colors(K)
    BY <1>1, WayAssumption DEF Colors
  <1>6. ASSUME NEW d \in Colors(K) PROVE d = c
    BY <1>4, <1>6, HasLine DEF Colors
  <1>7. QED
    BY <1>4, <1>5, <1>6

(* Lines of the colour of an eviction set do not change what it evicts.    *)
LEMMA SameColors ==
  ASSUME TypeOK, NEW S \in SUBSET Elem, NEW X \in SUBSET Elem,
         \A c \in Colors(S), e \in S : color[e] = c,
         \A e \in X : Evicts(S, e)
  PROVE  /\ Colors(S \cup X) = Colors(S)
         /\ \A c \in Colors(S), e \in S \cup X : color[e] = c
  <1>1. ASSUME NEW e \in X PROVE color[e] \in Colors(S)
    BY EvictsColor
  <1>2. ASSUME NEW c \in Colors(S), NEW e \in X PROVE color[e] = c
    <2>1. PICK y \in S : color[y] = color[e]
      BY <1>1, HasLine DEF Colors
    <2>2. QED
      BY <2>1
  <1>3. ASSUME NEW c \in Colors(S \cup X) PROVE c \in Colors(S)
    <2>1. PICK y \in S \cup X : color[y] = c
      BY HasLine DEF Colors
    <2>2. CASE y \in X
      BY <1>1, <2>1, <2>2
    <2>3. CASE y \in S /\ X # {}
      <3>1. PICK x \in X : TRUE
        BY <2>3
      <3>2. color[x] \in Colors(S)
        BY <1>1
      <3>3. QED
        BY <2>1, <2>3, <3>2
    <2>4. CASE X = {}
      BY <2>4
    <2>5. QED
      BY <2>1, <2>2, <2>3, <2>4
  <1>4. Colors(S) \subseteq Colors(S \cup X)
    BY MoreColors
  <1>5. QED
    BY <1>2, <1>3, <1>4

-----------------------------------------------------------------------------
(* Before the first set is found there is nothing to be wrong about.       *)
Blank == /\ \A i \in DOMAIN evsets : evsets[i] = {}
         /\ num_evsets = 0
         /\ Searching => Free = 0

LEMMA BlankSound == Blank => Sound
  <1> SUFFICES ASSUME Blank PROVE Sound
    OBVIOUS
  <1>1. \A i \in DOMAIN evsets :
          Colors(evsets[i]) = {} /\ \A v : ~Evicts(evsets[i], v)
    BY NothingEvicts DEF Blank
  <1>2. OneColor /\ NewColor /\ Removed /\ Distinct
    BY <1>1 DEF OneColor, NewColor, Removed, Distinct
  <1>3. Full = {} /\ num_evsets = 0 /\ (Searching => Free = 0)
    BY <1>1 DEF Full, Blank
  <1>4. Counted
    BY <1>3, FS_EmptySet DEF Counted
  <1>5. QED
    BY <1>2, <1>4 DEF Sound

LEMMA BlankSoundNext == Blank' => Sound'
  BY BlankSound, PTL

LEMMA PickingSound ==
  ASSUME Lists, UNCHANGED <<evsets, num_evsets>>,
         Picking, pc' \notin {"reduce", "settle", "next"} \/ Free' = 0
  PROVE  Sound'
  <1>1. Blank'
    BY DEF Blank, Lists, NothingYet, Searching
  <1>2. QED
    BY <1>1, BlankSoundNext

(* Steps that record nothing and leave the lists as they are.              *)
LEMMA SameSound ==
  ASSUME Lists, Sound, UNCHANGED <<conf, color, evsets, num_evsets, givenUp>>,
         Searching' => /\ Searching /\ Free' = Free
                       /\ pc' # "settle" \/ UNCHANGED <<pc, id>>
                       /\ (ptr \cup can)' \subseteq ptr \cup can
                       /\ pc = "settle" => evsets[id] = {} \/ UNCHANGED <<pc, id>>,
         Exact => NewColor'
  PROVE  Sound'
  <1> SUFFICES ASSUME Exact PROVE Sound'
    BY DEF Sound, Exact, conf
  <1>1. Full' = Full
    BY DEF Colors, Congruent, Full
  <1>2. OneColor' /\ Distinct'
    BY DEF Sound, OneColor, Distinct, Colors, Congruent, Has, conf
  <1>3. Counted'
    BY <1>1 DEF Sound, Counted
  <1>4. Removed'
    BY NothingEvicts DEF Sound, Removed, Has, Evicts, Congruent, conf
  <1>5. QED
    BY <1>2, <1>3, <1>4 DEF Sound

LEMMA SuccessSound ==
  ASSUME Lists, Sound, Reduce, Success
  PROVE  Sound'
  <1> SUFFICES ASSUME Exact PROVE Sound'
    BY DEF Sound, Exact, Reduce, conf
  <1>1. /\ pc = "reduce" /\ pc' = "settle" /\ id < colors /\ id \in Nat
        /\ evsets[id] = {} /\ ptr \in SUBSET Elem /\ can = {}
        /\ UNCHANGED <<conf, color, id, givenUp>>
        /\ DOMAIN evsets = 0 .. colors - 1 /\ id \in DOMAIN evsets
    BY ColorsType DEF Reduce, Lists, TypeOK, Slots, Searching, Free
  <1>2. PICK K \in SUBSET ptr :
          /\ Cardinality(K) <= Goal /\ Works(K)
          /\ ptr' = K /\ can' = ptr \ K /\ ret' = 0
          /\ evsets' = [evsets EXCEPT ![id] = K]
          /\ num_evsets' = num_evsets + 1
    BY DEF Success, Exact
  <1>3. K \in SUBSET Elem /\ Goal \in Nat /\ Goal >= Way
    BY <1>1, WayAssumption DEF Goal
  <1>4. PICK c \in Color : /\ Cardinality(Congruent(K, c)) >= Goal
                           /\ ~linear => Evicts(K, victim) /\ c = color[victim]
    <2>1. CASE linear
      <3>1. PICK c \in Color : Cardinality(Congruent(K, c)) > Way
        BY <1>2, <2>1 DEF Works, EvictsItself
      <3>2. Cardinality(Congruent(K, c)) >= Goal
        BY <2>1, <3>1, <1>3, CongruentFinite, WayAssumption DEF Goal
      <3>3. QED
        BY <2>1, <3>2
    <2>2. CASE ~linear
      <3>1. victim \in Elem \cup Probe /\ Evicts(K, victim)
        BY <1>2, <2>2 DEF Works, Lists, TypeOK
      <3>2. color[victim] \in Color
        BY <3>1, EvictsColor DEF Lists
      <3>3. QED
        BY <2>2, <3>1, <3>2 DEF Evicts, Goal
    <2>3. QED
      BY <2>1, <2>2
  <1>5. Colors(K) = {c} /\ \A e \in K : color[e] = c
    BY <1>2, <1>3, <1>4, NoRoom
  <1>6. /\ \A S \in SUBSET Elem : Colors(S)' = Colors(S)
        /\ \A S, v : Evicts(S, v)' = Evicts(S, v)
    BY <1>1 DEF Colors, Congruent, Evicts
  <1>7. /\ evsets'[id] = K /\ DOMAIN evsets' = DOMAIN evsets
        /\ \A i \in DOMAIN evsets : i # id => evsets'[i] = evsets[i]
    BY <1>1, <1>2
  <1>8. OneColor'
    BY <1>1, <1>5, <1>7 DEF Sound, OneColor, Colors, Congruent
  <1>9. NewColor'
    BY <1>1 DEF NewColor
  <1>10. Removed'
    <2>1. (ptr \cup can)' \subseteq ptr
      BY <1>2
    <2>2. QED
      BY <1>1, <1>7, <2>1
      DEF Sound, Removed, Searching, Has, Evicts, Congruent, conf
  <1>11. Distinct'
    <2> SUFFICES ASSUME ~linear \/ Has("findallcongruent"),
                        NEW i \in DOMAIN evsets, i # id
                 PROVE  c \notin Colors(evsets[i])
      BY <1>1, <1>5, <1>7 DEF Sound, Distinct, Colors, Congruent, Has, conf
    <2>1. CASE ~linear
      <3>1. ~Evicts(evsets[i], victim)
        BY <1>1, <2>1 DEF Sound, NewColor
      <3>2. QED
        BY <1>4, <2>1, <3>1 DEF Evicts, Colors
    <2>2. CASE Has("findallcongruent")
      <3>1. Cardinality(Congruent(K, c)) >= Way
        BY <1>5 DEF Colors
      <3>2. PICK e \in K : color[e] = c
        BY <1>3, <3>1, HasLine
      <3>3. ~Evicts(evsets[i], e)
        BY <1>1, <2>2, <3>2 DEF Sound, Removed, Searching
      <3>4. QED
        BY <3>2, <3>3 DEF Evicts, Colors
    <2>3. QED
      BY <2>1, <2>2
  <1>12. Counted'
    <2>1. Full' = Full \cup {id} /\ id \notin Full
      <3>1. Colors(evsets[id]) = {}
        BY <1>1, NothingEvicts
      <3>2. id \notin Full
        BY <3>1 DEF Full
      <3>3. Full' = {i \in DOMAIN evsets : Colors(evsets'[i]) # {}}
        BY <1>1, <1>7 DEF Full, Colors, Congruent
      <3>4. Colors(evsets'[id]) # {}
        BY <1>5, <1>7
      <3>5. QED
        BY <1>1, <1>7, <3>2, <3>3, <3>4 DEF Full
    <2>2. IsFiniteSet(Full)
      <3>1. Full \in SUBSET (0 .. colors - 1)
        BY <1>1 DEF Full
      <3>2. 0 \in Int /\ colors - 1 \in Int
        BY ColorsType
      <3>3. IsFiniteSet(0 .. colors - 1)
        BY <3>2, FS_Interval
      <3>4. QED
        BY <3>1, <3>3, FS_Subset
    <2>3. Cardinality(Full') = Cardinality(Full) + 1
      BY <2>1, <2>2, FS_AddElement
    <2>4. Cardinality(Full)' = Cardinality(Full')
      OBVIOUS
    <2>5. /\ num_evsets = Cardinality(Full) /\ num_evsets \in Nat
          /\ givenUp \/ Full = 0 .. num_evsets - 1
          /\ ~givenUp => num_evsets = id
      BY <1>1 DEF Sound, Counted, Searching, Free, Lists, TypeOK
    <2>6. Free' = id + 1
      BY <1>1, <1>2 DEF Free
    <2>7. QED
      BY <1>1, <1>2, <2>1, <2>3, <2>4, <2>5, <2>6 DEF Counted
  <1>13. QED
    BY <1>8, <1>9, <1>10, <1>11, <1>12 DEF Sound

LEMMA FailureSound ==
  ASSUME Lists, Sound, Reduce, Failure
  PROVE  Sound'
  <1>1. /\ pc = "reduce" /\ pc' = "settle" /\ ret' = 1
        /\ UNCHANGED <<conf, color, id, givenUp, evsets, num_evsets>>
        /\ (ptr \cup can)' \subseteq ptr
    BY DEF Reduce, Failure
  <1> SUFFICES ASSUME Exact PROVE Sound'
    BY <1>1 DEF Sound, Exact, conf
  <1>2. OneColor' /\ Distinct' /\ NewColor'
    BY <1>1 DEF Sound, OneColor, Distinct, NewColor, Colors, Congruent, Has, conf
  <1>3. Full' = Full /\ Free' = Free
    BY <1>1 DEF Colors, Congruent, Full, Free
  <1>4. Counted'
    BY <1>1, <1>3 DEF Sound, Counted, Searching
  <1>5. Removed'
    BY <1>1 DEF Sound, Removed, Searching, Has, Evicts, Congruent, conf
  <1>6. QED
    BY <1>2, <1>4, <1>5 DEF Sound

LEMMA RetrySound ==
  ASSUME Lists, Sound, RetryFromScratch \/ RetryNextVictim
  PROVE  Sound'
  <1>1. /\ pc = "settle" /\ ret = 1 /\ pc' # "settle"
        /\ pc' = "reduce" => linear'
        /\ UNCHANGED <<conf, color, evsets, num_evsets, givenUp, id>>
        /\ (ptr \cup can)' = ptr \cup can
    BY DEF RetryFromScratch, RetryNextVictim, Retried, Rejoin, Return, conf
  <1>2. id \in DOMAIN evsets /\ evsets[id] = {}
    BY <1>1, ColorsType DEF Lists, TypeOK, Slots, Searching, Free
  <1>3. Free' = Free
    BY <1>1 DEF Free
  <1>4. QED
    BY <1>1, <1>2, <1>3, SameSound DEF Searching, NewColor

LEMMA VictimSound ==
  ASSUME Lists, Sound, NoMoreVictims \/ VictimFound \/ VictimRefused
  PROVE  Sound'
  <1>1. /\ pc = "next" /\ pc' # "settle"
        /\ UNCHANGED <<conf, color, evsets, num_evsets, givenUp, id, ptr, can>>
    BY DEF NoMoreVictims, VictimFound, VictimRefused, Return
  <1>2. ASSUME Exact PROVE NewColor'
    <2>1. CASE VictimFound
      <3>1. ~Known(victim')
        BY <1>2, <2>1 DEF VictimFound, Exact
      <3>2. ASSUME NEW i \in DOMAIN evsets PROVE ~Evicts(evsets[i], victim')
        <4>1. CASE i < id
          BY <3>1, <4>1 DEF Known, Lists, TypeOK
        <4>2. CASE ~(i < id)
          <5>1. evsets[i] = {}
            BY <1>1, <4>2 DEF Lists, TypeOK, Slots, Searching, Free
          <5>2. QED
            BY <5>1, NothingEvicts
        <4>3. QED
          BY <4>1, <4>2
      <3>3. QED
        BY <1>1, <3>2 DEF NewColor, Evicts, Congruent
    <2>2. CASE NoMoreVictims \/ VictimRefused
      BY <2>2 DEF NewColor, NoMoreVictims, VictimRefused, Return
    <2>3. QED
      BY <2>1, <2>2
  <1>3. QED
    BY <1>1, <1>2, SameSound DEF Searching, Free

LEMMA EndRoundSound ==
  ASSUME Lists, Sound, EndRound
  PROVE  Sound'
  <1>1. /\ pc = "settle" /\ ret \in {0, 1} /\ id < colors /\ id \in Nat
        /\ id' \in Int
        /\ UNCHANGED <<conf, color, num_evsets>>
        /\ givenUp' = (givenUp \/ ret = 1)
        /\ ret = 1 => evsets[id] = {}
        /\ evsets \in [0 .. colors - 1 -> SUBSET Elem] /\ can \in SUBSET Elem
        /\ id \in DOMAIN evsets /\ evsets[id] \in SUBSET Elem
    BY ColorsType DEF EndRound, Lists, TypeOK, Slots, Searching, Free
  <1>2. \/ pc' = "done"
        \/ id' = id + 1 /\ (pc' = "next" \/ (pc' = "reduce" /\ linear'))
    BY DEF EndRound, Return, conf
  <1> SUFFICES ASSUME Exact PROVE Sound'
    BY <1>1 DEF Sound, Exact, conf
  <1>3. PICK X \in SUBSET can :
          /\ ptr' \subseteq can \ X /\ can' = {}
          /\ Has("findallcongruent") =>
               X = {e \in IF ret = 1 /\ ~Has("retry") THEN {} ELSE can :
                      Evicts(evsets[id], e)}
          /\ ~Has("findallcongruent") => X = {}
          /\ evsets' = [evsets EXCEPT ![id] = @ \cup X]
    BY RoundEnds
  <1>4. \A e \in X : Evicts(evsets[id], e)
    BY <1>3
  <1>5. /\ Colors(evsets[id] \cup X) = Colors(evsets[id])
        /\ \A c \in Colors(evsets[id]), e \in evsets[id] \cup X : color[e] = c
    <2>1. \A c \in Colors(evsets[id]), e \in evsets[id] : color[e] = c
      BY <1>1 DEF Sound, OneColor
    <2>2. X \in SUBSET Elem
      BY <1>1
    <2>3. QED
      BY <1>1, <1>4, <2>1, <2>2, SameColors DEF Lists
  <1>6. /\ DOMAIN evsets' = DOMAIN evsets
        /\ evsets'[id] = evsets[id] \cup X
        /\ \A i \in DOMAIN evsets : i # id => evsets'[i] = evsets[i]
    BY <1>1, <1>3
  <1>7. \A i \in DOMAIN evsets : Colors(evsets'[i]) = Colors(evsets[i])
    BY <1>5, <1>6
  <1>8. OneColor'
    <2>1. ASSUME NEW i \in DOMAIN evsets, NEW c \in Colors(evsets[i]),
                 NEW e \in evsets'[i]
          PROVE  color[e] = c
      BY <1>5, <1>6, <2>1 DEF Sound, OneColor
    <2>2. ASSUME NEW i \in DOMAIN evsets, NEW c \in Colors(evsets'[i]),
                 NEW e \in evsets'[i]
          PROVE  color[e] = c
      BY <1>7, <2>1
    <2>3. QED
      BY <1>1, <1>6, <2>2 DEF OneColor, Colors, Congruent
  <1>9. NewColor'
    BY <1>2 DEF NewColor
  <1>10. Distinct'
    <2>1. ASSUME ~linear \/ Has("findallcongruent"),
                 NEW i \in DOMAIN evsets, NEW j \in DOMAIN evsets, i # j
          PROVE  Colors(evsets'[i]) \cap Colors(evsets'[j]) = {}
      BY <1>7, <2>1 DEF Sound, Distinct
    <2>2. QED
      BY <1>1, <1>6, <2>1 DEF Distinct, Colors, Congruent, Has, conf
  <1>11. Removed'
    <2> SUFFICES ASSUME Has("findallcongruent"),
                        NEW i \in DOMAIN evsets, NEW e \in ptr'
                 PROVE  ~Evicts(evsets'[i], e)
      BY <1>1, <1>3, <1>6 DEF Removed, Has, Evicts, Congruent, conf
    <2>1. e \in can /\ e \notin X /\ e \in Elem \cup Probe
      BY <1>1, <1>3
    <2>2. ~Evicts(evsets[i], e)
      <3>1. CASE i # id
        BY <1>1, <2>1, <3>1 DEF Sound, Removed, Searching
      <3>2. CASE i = id /\ ret = 1
        BY <1>1, <3>2, NothingEvicts
      <3>3. CASE i = id /\ ret = 0
        BY <1>3, <2>1, <3>3
      <3>4. QED
        BY <1>1, <3>1, <3>2, <3>3
    <2>3. color[e] \notin Colors(evsets[i])
      BY <2>1, <2>2, EvictsColor DEF Lists
    <2>4. color[e] \notin Colors(evsets'[i])
      BY <1>7, <2>3
    <2>5. QED
      BY <2>1, <2>4, EvictsColor DEF Lists
  <1>12. Counted'
    <2>1. Full' = Full
      <3>1. Full' = {i \in DOMAIN evsets : Colors(evsets'[i]) # {}}
        BY <1>1, <1>6 DEF Full, Colors, Congruent
      <3>2. QED
        BY <1>7, <3>1 DEF Full
    <2>2. Searching' /\ ~givenUp' => Free' = Free
      BY <1>1, <1>2 DEF Searching, Free
    <2>3. QED
      BY <1>1, <2>1, <2>2 DEF Sound, Counted, Searching
  <1>13. QED
    BY <1>8, <1>9, <1>10, <1>11, <1>12 DEF Sound

LEMMA StepSound == Lists /\ Sound /\ [Next]_vars => Sound'
  <1> SUFFICES ASSUME Lists, Sound, [Next]_vars PROVE Sound'
    OBVIOUS
  <1>1. CASE Calibrate
    BY <1>1, PickingSound DEF Calibrate, Return, Picking
  <1>2. CASE PickPlain
    BY <1>2, PickingSound DEF PickPlain, Picking
  <1>3. CASE PickConflict
    BY <1>3, PickingSound DEF PickConflict, Picking
  <1>4. CASE FirstTest
    BY <1>4, PickingSound DEF FirstTest, Picking, Free, Lists, NothingYet
  <1>5. CASE FirstTestFails
    BY <1>5, PickingSound DEF FirstTestFails, Return, Picking
  <1>6. CASE Reduce
    BY <1>6, SuccessSound, FailureSound DEF Reduce
  <1>7. CASE RetryFromScratch \/ RetryNextVictim
    BY <1>7, RetrySound
  <1>8. CASE EndRound
    BY <1>8, EndRoundSound
  <1>9. CASE NoMoreVictims \/ VictimFound \/ VictimRefused
    BY <1>9, VictimSound
  <1>10. CASE UNCHANGED vars
    <2>1. /\ UNCHANGED <<conf, color, evsets, num_evsets, givenUp, pc, id, ret>>
          /\ (ptr \cup can)' = ptr \cup can
      BY <1>10 DEF vars
    <2>2. Searching' = Searching /\ Free' = Free
      BY <2>1 DEF Searching, Free
    <2>3. Exact => NewColor'
      BY <1>10 DEF Sound, NewColor, Evicts, Congruent, vars, conf
    <2>4. QED
      BY <2>1, <2>2, <2>3, SameSound
  <1>11. QED
    BY <1>1, <1>2, <1>3, <1>4, <1>5, <1>6, <1>7, <1>8, <1>9, <1>10 DEF Next

LEMMA InitSound == Init => Sound
  <1> SUFFICES ASSUME Init PROVE Sound
    OBVIOUS
  <1>1. Blank
    BY DEF Init, Blank, Searching
  <1>2. QED
    BY <1>1, BlankSound

LEMMA SoundAlways == Spec => [](Lists /\ Sound)
  <1>1. Init => Lists /\ Sound
    BY InitLists, InitSound
  <1>2. Lists /\ Sound /\ [Next]_vars => (Lists /\ Sound)'
    BY StepLists, StepSound
  <1>3. QED
    BY <1>1, <1>2, PTL DEF Spec

LEMMA SameColorOf == \A i \in DOMAIN evsets : ColorOf(i) = Colors(evsets[i])
  BY DEF ColorOf, Colors

(* With exact tests no colour is found twice.                              *)
THEOREM ColorsDiffer == Spec => []OneSetPerColor
  <1>1. Lists /\ Sound => OneSetPerColor
    BY SameColorOf DEF Sound, Distinct, OneSetPerColor
  <1>2. QED
    BY <1>1, SoundAlways, PTL

(* With exact tests and --findallcongruent, no line that is left in the    *)
(* buffer is evicted by a set that was found.                              *)
THEOREM RestIsClean == Spec => []CongruentRemoved
  <1>1. Lists /\ Sound => CongruentRemoved
    BY DEF Sound, Removed, Searching, CongruentRemoved
  <1>2. QED
    BY <1>1, SoundAlways, PTL

(* With exact tests num_evsets counts the sets, and unless a round was     *)
(* given up they lie in the first num_evsets slots.                        *)
THEOREM SetsCounted == Spec => []EverySetCounted
  <1>1. Lists /\ Sound => EverySetCounted
    <2>1. Full = {i \in DOMAIN evsets : ColorOf(i) # {}}
      BY SameColorOf DEF Full
    <2>2. QED
      BY <2>1 DEF Sound, Counted, EverySetCounted
  <1>2. QED
    BY <1>1, SoundAlways, PTL
=============================================================================
