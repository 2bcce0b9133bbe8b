----------------------------- MODULE FindEvsets -----------------------------
(***************************************************************************)
(* find_evsets() of evsets_api.c: pick a buffer of lines, test it, reduce  *)
(* it, record the eviction set and, as the flags say, clean the rest of    *)
(* the buffer from congruent lines, go on with another colour, or retry.   *)
(*                                                                         *)
(* A whole reduction is one step here, Reduce: it ends in any state that   *)
(* module Reduction lets one end in (for gt_eviction_any(), any that       *)
(* module GroupTestingAny shows it to end in).  What the caller holds in   *)
(* lists is a set of lines; a null pointer is the empty set.  Victims are  *)
(* lines of the probe page, or of the lines the conflict set left out.     *)
(* Their order is not known in advance: the next one is any waiting line.  *)
(* FLAG_DEBUG (filter(), 233-243) and FLAG_VERIFY are left out.            *)
(***************************************************************************)
EXTENDS Integers, FiniteSets

CONSTANTS Elem,      \* the lines of the buffer
          Probe,     \* the lines of the probe page that may be victims
          Color,     \* the classes of congruent lines
          Null,
          Way,       \* conf.cache_way
          MaxReps    \* MAX_REPS

ASSUME WayAssumption == Way \in Nat \ {0}
ASSUME MaxRepsAssumption == MaxReps \in Nat
ASSUME ColorAssumption == IsFiniteSet(Color) /\ Color # {}
ASSUME LinesAssumption == IsFiniteSet(Elem) /\ Probe \cap Elem = {}

Flags == {"retry", "findallcolors", "findallcongruent", "conflictset"}

VARIABLES
  flags, linear,        \* conf.flags, conf.algorithm = ALGORITHM_LINEAR
  noisy, color,         \* what the hardware decides
  pc,
  ptr, can,
  victim, waiting,      \* the victim and the ones not tried yet
  evsets, num_evsets,
  id, rep, ret,
  set,                  \* the field `set' of the lines
  buffer,               \* for reference: the lines the search started from,
  givenUp,              \* and whether a round ended without a set
  result

conf == <<flags, linear, noisy>>
vars == <<conf, color, pc, ptr, can, victim, waiting, evsets, num_evsets, id,
          rep, ret, set, buffer, givenUp, result>>

colors == Cardinality(Color)

Has(f) == f \in flags
ConflictSet == Has("conflictset") /\ ~linear

-----------------------------------------------------------------------------
(* The tests: tests() or tests_avg() for a victim v, test_and_time() for   *)
(* the lines of the list itself.                                           *)
Congruent(S, c) == {e \in S : color[e] = c}
Evicts(S, v) == Cardinality(Congruent(S, color[v])) >= Way
EvictsItself(S) == \E c \in Color : Cardinality(Congruent(S, c)) > Way

Answers(truth) == IF noisy THEN BOOLEAN ELSE {truth}

(* What the reduction in use takes for success.                            *)
Goal == IF linear THEN Way + 1 ELSE Way
Works(S) == IF linear THEN EvictsItself(S)
                      ELSE victim # Null /\ Evicts(S, victim)

Init == /\ flags \in SUBSET Flags /\ linear \in BOOLEAN /\ noisy \in BOOLEAN
        /\ color \in {f \in [Elem \cup Probe -> Color] :
                        \A x, y \in IF noisy THEN DOMAIN f ELSE Elem :
                          f[x] = f[y]}
        /\ pc = "start"
        /\ ptr = {} /\ can = {} /\ buffer = {} /\ givenUp = FALSE
        /\ IF linear THEN victim = Null /\ waiting = {}
                     ELSE victim \in Probe /\ waiting = Probe \ {victim}
        /\ evsets = [i \in 0 .. colors - 1 |-> {}] /\ num_evsets = 0
        /\ id = 0 /\ rep = 0 /\ ret = 0
        /\ set = [e \in Elem |-> -2]
        /\ result = Null

Return(r) == pc' = "done" /\ result' = r

(* The bookkeeping of retries.                                             *)
MayRetryOnceMore == Has("retry") /\ rep <= MaxReps
MayRetry == Has("retry") /\ rep < MaxReps
CountNothing == rep' = rep
CountRetry == rep' = rep + 1

(* A negative threshold, from calibrate() or from the caller, ends it all. *)
Calibrate == /\ pc = "start"
             /\ \/ pc' = "pick" /\ UNCHANGED result
                \/ Return(1)
             /\ UNCHANGED <<conf, color, ptr, can, victim, waiting, evsets,
                            num_evsets, id, rep, ret, set, buffer, givenUp>>

(* initialize_list() and pick_n_random_from_list(): the buffer is any      *)
(* selection of lines of the pool, of any colours.  (Noisy answers do not  *)
(* depend on the colours, which then stay what they are.)                  *)
Redraw == IF noisy THEN UNCHANGED color
          ELSE \E f \in [Elem -> Color] :
                 color' = [x \in Elem \cup Probe |->
                             IF x \in Elem THEN f[x] ELSE color[x]]

PickPlain == /\ pc = "pick" /\ ~ConflictSet
             /\ Redraw
             /\ ptr' = Elem /\ buffer' = Elem
             /\ set' = [e \in Elem |-> -1]
             /\ pc' = "first"
             /\ UNCHANGED <<conf, can, victim, waiting, evsets, num_evsets, id,
                            rep, ret, givenUp, result>>

(* generate_conflict_set() keeps a line unless the lines kept before evict *)
(* it; the lines it does not keep are the victims.  Those in front of the  *)
(* first one the conflict set evicts are passed over.                      *)
ConflictSetOf(out) ==
  \A c \in Color : LET kept == Cardinality({e \in out : color'[e] = c})
                       all == Cardinality({e \in Elem : color'[e] = c})
                   IN  kept = IF all < Way THEN all ELSE Way

PickConflict == /\ pc = "pick" /\ ConflictSet
                /\ Redraw
                /\ \E out \in SUBSET Elem :
                     /\ noisy \/ ConflictSetOf(out)
                     /\ ptr' = out /\ buffer' = out
                     /\ \E rest \in SUBSET (Elem \ out) :
                          /\ noisy \/ rest = Elem \ out
                          /\ IF rest = {}
                               THEN victim' = Null /\ waiting' = {}
                               ELSE /\ victim' \in rest
                                    /\ waiting' = rest \ {victim'}
                /\ set' = [e \in Elem |-> -1]
                /\ can' = {}
                /\ pc' = "first"
                /\ UNCHANGED <<conf, evsets, num_evsets, id, rep, ret, givenUp,
                               result>>

FirstTest == /\ pc = "first"
             /\ linear \/ victim # Null
             /\ TRUE \in Answers(Works(ptr))
             /\ id' = num_evsets
             /\ pc' = "reduce"
             /\ UNCHANGED <<conf, color, ptr, can, victim, waiting, evsets,
                            num_evsets, rep, ret, set, buffer, givenUp, result>>

FirstTestFails == /\ pc = "first"
                  /\ (~linear /\ victim = Null) \/ FALSE \in Answers(Works(ptr))
                  /\ IF MayRetry
                       THEN CountRetry /\ pc' = "pick" /\ UNCHANGED result
                       ELSE UNCHANGED rep /\ Return(1)
                  /\ UNCHANGED <<conf, color, ptr, can, victim, waiting, evsets,
                                 num_evsets, id, ret, set, buffer, givenUp>>
-----------------------------------------------------------------------------
(* What was kept stays in *can as well.                                    *)
SuccessKeepingAll ==
  \E K \in SUBSET ptr :
    /\ Cardinality(K) <= Goal
    /\ noisy \/ Works(K)
    /\ ptr' = K /\ can' = ptr
    /\ ret' = 0
    /\ evsets' = [evsets EXCEPT ![id] = K]
    /\ num_evsets' = num_evsets + 1

Success == \E K \in SUBSET ptr :
             /\ Cardinality(K) <= Goal
             /\ noisy \/ Works(K)
             /\ ptr' = K /\ can' = ptr \ K
             /\ ret' = 0
             /\ evsets' = [evsets EXCEPT ![id] = K]
             /\ num_evsets' = num_evsets + 1

(* A failure that counts.                                                  *)
FailureCounted == \E K \in SUBSET ptr :
                    /\ ptr' = K /\ can' = ptr \ K
                    /\ ret' = 1
                    /\ num_evsets' = num_evsets + 1
                    /\ UNCHANGED evsets

(* gt_eviction_any() may lose the chunk it tried last.                     *)
Failure == \E K \in SUBSET ptr :
             /\ ptr' = K
             /\ can' \in {ptr \ K} \cup IF linear THEN {{}} ELSE {}
             /\ ret' = 1
             /\ UNCHANGED <<evsets, num_evsets>>

Reduce == /\ pc = "reduce"
          /\ Success \/ Failure
          /\ pc' = "settle"
          /\ UNCHANGED <<conf, color, victim, waiting, id, rep, set, buffer,
                         givenUp, result>>

Retried == ret = 1 /\ MayRetry

(* What the reduction set aside goes back into the list.                   *)
RejoinNothing == ptr' = ptr /\ can' = {}
Rejoin == ptr' = ptr \cup can /\ can' = {}

RetryFromScratch == /\ pc = "settle" /\ Retried
                    /\ ~Has("conflictset") /\ ~Has("findallcolors")
                    /\ Rejoin
                    /\ CountRetry
                    /\ pc' = "pick"
                    /\ UNCHANGED <<conf, color, victim, waiting, evsets,
                                   num_evsets, id, ret, set, buffer, givenUp,
                                   result>>

(* With linear reduction there is no victim to look for, and the loop goes *)
(* on if its condition (518) says so.                                      *)
GoOn(r) == (Has("findallcolors") /\ id' < colors) \/ (Has("retry") /\ r < MaxReps)

RetryNextVictim == /\ pc = "settle" /\ Retried
                   /\ Has("conflictset") \/ Has("findallcolors")
                   /\ Rejoin
                   /\ CountRetry
                   /\ UNCHANGED id
                   /\ IF ~linear THEN pc' = "next" /\ UNCHANGED result
                      ELSE IF GoOn(rep') THEN pc' = "reduce" /\ UNCHANGED result
                      ELSE Return(ret)
                   /\ UNCHANGED <<conf, color, victim, waiting, evsets,
                                  num_evsets, ret, set, buffer, givenUp>>

(* Lines of S that test as evicted by the set just found.                  *)
CongruentButOne(S, X) ==
  noisy \/ \E last \in S \cup {Null} :
             X = {e \in S : Evicts(evsets[id], e)} \ {last}
CongruentIn(S, X) ==
  noisy \/ X = {e \in S : Evicts(evsets[id], e)}

(* "Found all eviction sets in buffer", the code says then.                *)
NothingLeft == ptr' = {} \/ (Has("conflictset") /\ linear)
NoRoundLeft == id' = colors \/ NothingLeft

(* The end of a round: what is left of the buffer goes on to the next one. *)
(* After a failure without retry *can is joined to *ptr and forgotten;     *)
(* after one too many *ptr is.                                             *)
EndRound ==
  /\ pc = "settle" /\ ~Retried
  /\ rep' = IF ret = 0 THEN 0 ELSE rep
  /\ givenUp' = (givenUp \/ ret = 1)
  /\ can' = {}       \* an alias of *ptr until line 515 resets it
  /\ LET left == IF ret = 1 /\ ~Has("retry") THEN {} ELSE can
     IN  \E X \in SUBSET left :
           /\ IF Has("findallcongruent") THEN CongruentIn(left, X) ELSE X = {}
           /\ ptr' = left \ X
           /\ evsets' = [evsets EXCEPT ![id] = @ \cup X]
           /\ set' = [e \in Elem |-> IF e \in evsets'[id] THEN id ELSE set[e]]
  /\ IF ~Has("findallcolors")
       THEN UNCHANGED id /\ Return(ret)
       ELSE /\ id' = id + 1
            /\ IF NoRoundLeft THEN Return(ret)
               ELSE IF ~linear THEN pc' = "next" /\ UNCHANGED result
               ELSE IF GoOn(rep') THEN pc' = "reduce" /\ UNCHANGED result
               ELSE Return(ret)
  /\ UNCHANGED <<conf, color, victim, waiting, num_evsets, ret, buffer>>
-----------------------------------------------------------------------------
(* One round of the search for a victim that no set found so far evicts    *)
(* and the rest of the buffer does.                                        *)
NoMoreVictims == /\ pc = "next" /\ waiting = {}
                 /\ victim' = Null
                 /\ Return(1)
                 /\ UNCHANGED <<conf, color, ptr, can, waiting, evsets,
                                num_evsets, id, rep, ret, set, buffer, givenUp>>

KnownButLast(v) == \E s \in 0 .. id - 2 : Evicts(evsets[s], v)
Known(v) == \E s \in 0 .. id - 1 : Evicts(evsets[s], v)

VictimFound ==
  /\ pc = "next"
  /\ \E v \in waiting :
       /\ victim' = v /\ waiting' = waiting \ {v}
       /\ noisy \/ (~Known(v) /\ Evicts(ptr, v))
  /\ UNCHANGED id
  /\ IF GoOn(rep) THEN pc' = "reduce" /\ UNCHANGED result ELSE Return(ret)
  /\ UNCHANGED <<conf, color, ptr, can, evsets, num_evsets, rep, ret, set,
                 buffer, givenUp>>

VictimRefused ==
  /\ pc = "next"
  /\ \E v \in waiting :
       /\ victim' = v /\ waiting' = waiting \ {v}
       /\ noisy \/ Known(v) \/ ~Evicts(ptr, v)
  /\ IF Cardinality(ptr) > Way THEN pc' = pc /\ UNCHANGED result ELSE Return(1)
  /\ UNCHANGED <<conf, color, ptr, can, evsets, num_evsets, id, rep, ret, set,
                 buffer, givenUp>>

Next == \/ Calibrate \/ PickPlain \/ PickConflict \/ FirstTest \/ FirstTestFails
        \/ Reduce \/ RetryFromScratch \/ RetryNextVictim \/ EndRound
        \/ NoMoreVictims \/ VictimFound \/ VictimRefused

Spec == Init /\ [][Next]_vars /\ WF_vars(Next)

-----------------------------------------------------------------------------
TypeOK == /\ color \in [Elem \cup Probe -> Color]
          /\ pc \in {"start", "pick", "first", "reduce", "settle", "next", "done"}
          /\ ptr \subseteq Elem /\ can \subseteq Elem /\ buffer \subseteq Elem
          /\ victim \in Elem \cup Probe \cup {Null}
          /\ waiting \subseteq Elem \cup Probe
          /\ evsets \in [0 .. colors - 1 -> SUBSET Elem]
          /\ num_evsets \in 0 .. colors /\ id \in 0 .. colors
          /\ rep \in 0 .. MaxReps /\ ret \in {0, 1}
          /\ set \in [Elem -> -2 .. colors - 1]
          /\ result \in {Null, 0, 1}

Exact == ~noisy
Found == UNION {evsets[i] : i \in DOMAIN evsets}

(***************************************************************************)
(* Properties.                                                             *)
(***************************************************************************)
(* evsets[id] is only written inside the array of `colors' slots, however  *)
(* the rounds end and restart (evsets_api.c 354, 434, 443-444).            *)
InsideTheArray == pc \in {"reduce", "settle"} => id < colors

(* A line is in one list at most: in an eviction set, among the lines      *)
(* still to be searched, among those set aside, or a victim yet to come.   *)
OneListPerLine ==
  /\ \A i, j \in DOMAIN evsets : i # j => evsets[i] \cap evsets[j] = {}
  /\ Found \cap (ptr \cup can) = {} \/ pc = "settle"
  /\ ptr \cap can = {}
  /\ (ptr \cup can \cup Found) \cap waiting = {}

(* As long as no round was given up, every line the search started from is *)
(* still in one of the lists: retries and new rounds lose nothing (367,    *)
(* 401).  A round that is given up does (401), and gt_eviction_any() may   *)
(* lose some lines itself.                                                 *)
NoLineLost ==
  /\ ~linear
  /\ pc \in {"reduce", "settle", "next"}
  /\ ~givenUp
  => ptr \cup can \cup Found = buffer

(* With exact timing the eviction sets are of different colours: the next  *)
(* victim is one none of them evicts ("New victim is not evicted by        *)
(* previous eviction sets", 476), or no line of their colours is left.     *)
ColorOf(i) == {c \in Color : Cardinality(Congruent(evsets[i], c)) >= Way}
OneSetPerColor ==
  Exact /\ (~linear \/ Has("findallcongruent")) =>
    \A i, j \in DOMAIN evsets : i # j => ColorOf(i) \cap ColorOf(j) = {}

(* README 110, --findallcongruent: "After finding a minimal eviction set,  *)
(* will remove all other congruent addresses from the initial buffer."     *)
CongruentRemoved ==
  Exact /\ Has("findallcongruent") /\ pc \in {"reduce", "next"} =>
    \A i \in DOMAIN evsets, e \in ptr : ~Evicts(evsets[i], e)

(* num_evsets counts the slots that hold an eviction set, and get_evset(i) *)
(* with i < num_evsets hands one out.  That is not so when a colour was    *)
(* given up because the retries had run out: its slot stays empty, the     *)
(* next set goes into the slot after it (443), and the last one found is   *)
(* out of get_evset()'s reach (159).                                       *)
EverySetCounted ==
  Exact =>
    LET full == {i \in DOMAIN evsets : ColorOf(i) # {}}
    IN  /\ num_evsets = Cardinality(full)
        /\ givenUp \/ full = 0 .. num_evsets - 1

(* find_evsets() returns, whatever its own tests answer and whatever the   *)
(* reductions return, provided that they do return (naive_eviction() does  *)
(* with exact answers only): rounds are bounded by the colours, retries by *)
(* MAX_REPS, victims by the probe page.                                    *)
Termination == <>(pc = "done")
=============================================================================
