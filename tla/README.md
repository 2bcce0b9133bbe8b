# evsets in TLA+

`evsets` searches a buffer of cache lines for *minimal eviction sets*: it starts
from a list of lines that, accessed one after the other, pushes a victim line out
of the cache, and takes lines away until exactly as many are left as the cache
set has ways. All it can ask the machine is one question, a timing test of the
current list, and the answer may be wrong. The program is small and sequential;
what makes it hard is that its control flow (removing, putting back,
backtracking, retrying, going on with another colour) is driven by unreliable
answers while the lines hang in hand-made linked lists that several head
pointers share.

This directory holds TLA+ modules of that control flow, TLC configurations that
check them on small buffers, and proofs, checked by TLAPS, for buffers of any
size.

## 1. Inventory

| Part | Source | State it keeps | Operations | What is hard | What makes it correct |
|---|---|---|---|---|---|
| Group testing | `algorithms.c` `gt_eviction` | `*ptr`, `*can`, `chunks[]`, shuffled `ichunks[]`, `back[]`, `l`, `len`, `cans`, `repeat` | cut into chunks, try without one, remove, backtrack, recover | wrong answers undo any step; lists are relinked under pointers kept in arrays | no line lost or linked twice; `back[]` never overflows; success is a minimal set; it returns |
| Group testing, any set | `gt_eviction_any` | the same, one way more | the same, asks `test_and_time` | a copy that differs in how it gives up | success accounts for all lines; at most one chunk is lost |
| Naive reductions | `naive_eviction`, `naive_eviction_optimistic` | `*ptr`, `*can`, `fail`, `repeat`; `es`, `elen` | set aside, take back; discard, keep, collect | a line is set aside before it is known whether it is needed; `es->prev` is dereferenced unasked | the same contract; a set is not destroyed by the search |
| Binary reduction | `binary_eviction` | indices as doubles, `*can` | slice, test, join, move the found line to the head | rounding, indices off by one, variables that may stay unset | the same contract |
| Linked lists | `list_utils.c` | `next`, `prev` of each line | push, append, shift, pop, get, slice, concat, split, from_chunks | `prev` left stale by one function and believed by the next | every function does to the chain what its comment says |
| Conflict set | `generate_conflict_set`, `genConflictSet` | lines not seen, kept, left over | pop, test against what was kept, push | order decides what is kept | kept lines evict every line left out |
| Search driver | `evsets_api.c` `find_evsets` | `evsets[]`, `num_evsets`, `id`, `rep`, `victim`, `ptr`, `can` | pick, first test, reduce, retry, remove congruent lines, next victim | `goto`s into a loop, three exits, counters that move apart | bounded retries, indices inside the array, disjoint sets of different colours |
| Life cycle | `init_evsets`, `close_evsets`, getters | `pool`, `probe`, sizes | map, unmap | overflow of sizes, use after close | - |
| Timing tests | `cache.c`, `hist_utils.c` | histogram, sums | traverse, measure, count, compare | outliers, boundary of the ratio, unsigned and float conversions | a test is positive when the misses say so |
| Counter thread | `cache.c` | `params.counter` | count, read | data race on the clock | - |
| Verification | `micro.c` | - | translate addresses, check set and slice, filter | bit arithmetic | congruent exactly when index and slice agree |
| Command line | `main.c` | options | parse, call, print | - | - |
| Browser reduction | `browser/evset.js` | `refs`, `del`, `ptr` and a chain of addresses in shared memory | unlink, relink, chunk, group reduction | the same list twice, changed by hand | memory follows `refs`; the contract of a reduction |
| Browser search | `browser/finder.js` | `RESULTS`, `vics`, `victim`, `r`, `next` | choose a victim, reduce, retry, save, go on | loops that share `victim`; failure taken for success | what is saved is an eviction set, a second one of a colour only from lines kept unasked; it ends |
| Browser page, clock worker | `browser/main.js`, `wasmWorker.js` | messages | start workers, print, stop | - | - |

`find_evsets` calls one reduction through `ptr` and `can`; a reduction calls the
list functions and the tests; the tests traverse the list. Nothing is concurrent
but the optional counter thread, nothing is persistent. A victim is a line of a
second buffer, `probe`, or a line that the conflict set left over.

## 2. Modules

    CacheLines          the lines, how a list of them is walked, and the size aimed at
     |- EvictionTest    the timing test: exact or arbitrary answers
     |   |- Reduction             contract of a reduction (abstract)
     |   |- NaiveReduction        naive_eviction, naive_eviction_optimistic
     |   |   '- NaiveReductionProofs  theorems (with ListLemmas)
     |   |- BinaryReduction       binary_eviction over pointers (with ListHeap)
     |   |- BrowserReduction      evset.js groupReduction (with ListHeap)
     |   |   '- BrowserReductionProofs  theorems (with ListLemmas)
     |   '- GroupTesting          gt_eviction over sequences
     |       '- GroupTestingAny     gt_eviction_any
     |           '- GroupTestingProofs  theorems about both (with ListLemmas)
     |- ChunkOps        list_split, list_from_chunks over sequences
     '- ListHeap        list functions over next and prev pointers
         '- HeapGroupTesting      gt_eviction over pointers
             '- HeapGroupTestingProofs  theorems (with GroupTestingProofs)
    FindEvsets          find_evsets; one step stands for a whole reduction
     '- FindEvsetsProofs   theorems
    ConflictSet         generate_conflict_set, genConflictSet
     '- Finder          finder.js; one step stands for a whole reduction
         '- FinderProofs   theorems
    Timing              tests, tests_avg, test_and_time, calibrate, histogram
     '- TimingProofs    theorems

and one `MC...` module per specification that is model-checked. Refinements:

    HeapGroupTesting  ==ImplementsGroupTesting==>  GroupTesting
    GroupTesting      ==IsReduction=============>  Reduction
    NaiveReduction    ==IsReduction=============>  Reduction
    BinaryReduction   ==IsReduction=============>  Reduction (LiveSpec)
    BrowserReduction  ==IsReduction=============>  Reduction (LiveSpec)

`FindEvsets` uses, in its action `Reduce`, any end state the contract `Reduction`
allows, so what is checked of it holds for every reduction that implements the
contract. `Finder` does the same with what `BrowserReduction` shows. `LiveSpec` adds to the
contract that the routine returns.

### State and actions against the code

**EvictionTest.** The hardware is two variables that never change: `groups`, the
lines that compete for one cache set, and `noisy`. `Evicts(S)` is the ideal
answer: enough lines of one group. With `noisy` every answer is arbitrary, each
time, which covers every error of `tests()`, `tests_avg()` and `test_and_time()`,
errors that depend on the order of the list included. Without it the answers
are ideal. Properties about losing lines, indices and termination are checked
under both; properties about finding the right lines only make sense under the
second. The replacement policy is thereby idealised: a list of `cache_way`
congruent lines evicts, a shorter one does not.

**GroupTesting.** `pc` names the place in `gt_eviction`: `start`, `again` (head of
the outer loop), `reduce` (head of `while (len > cache_way)`), `try` (the inner
do-while), `decide` (line 241), `recover` (282), `done`. `list`, `can`, `back` are
sequences of lines; `Len(back)` is `l`; `Target` is `conf.cache_way`. Chunk `j` of
`chunks[]` is the `j`-th piece of `base`, the list at the last cut. That reading of
`chunks[]` is not taken for granted: `HeapGroupTesting` has the real pointers and
implements it, which is checked and proved. Actions: `Shuffle` (208-218), `Split` (221), `Try` (225-238),
`RemoveChunk` (241-253), `Backtrack` (255-264 with 279), `GiveUp` (265-272), `Reduced`
(218), `Recover` (282-285), `FinalTest` (291-312), and `NoRecord`, the refused `calloc`
of a list shorter than `cache_way` (200-206). Allocation failures other than that
are left out. `cans`, which is only printed, is kept because the code maintains it.

**GroupTestingAny** replaces `GiveUp` by `GiveUpAny` (393-396) and drops the
precondition that the list was tested: after the first colour `find_evsets` calls
`gt_eviction_any` without a test.

**ListHeap, HeapGroupTesting.** The heap is `next` and `prev`, a function each.
`Split`, `FromChunks` and `Concat` follow the loops of the C functions; `Upto` is the
walk `while (tmp->next && tmp->next != stop)`, by the recursive function `Walk`, which ends in a cycle too. `chunks` and `backs` are the arrays, never
reset where the code does not reset them. The first line of the caller's list
may have a stale `prev` (the `*can` of one colour is the `*ptr` of the next).

**NaiveReduction.** One variable says which of the two routines runs. The end of
`naive_eviction_optimistic` has a state `crash` for a write through a null `es->prev`.

**BinaryReduction.** Works on the heap of `ListHeap`, because `list_slice` and `list_get` believe the
`prev` that `list_push` and `list_concat` wrote. Actions: `NewRound` (442-448), `Halve` (449-455), `Judge`
(456-479), `SomethingWrong` (481-485), `Take` (486-488), `Finish` (490), `FinalTest` (491-499). The doubles hold
integers and one quotient that is rounded up; `Ceil` is exact. `Apart` is the condition of line 449; its part `x < olen` can end a search
that still has two pivots to choose from, which the history variable `hasty` remembers. Lines are counted from 0, as in the code; a
negative index is a huge `size_t`. `len` and `cans`, unset for a list of one line, add up to the length whenever they are used
for a list that can be sliced.

**Timing.** One test, or a calibration and a test. A measurement is any value of `Times`; negative
ones are what 2^31 cycles and more become in an `int`. `hist` is the table, `val` and `j` the value
`hist_add` is placing and the slot it looks at; each probe is a step. `delta` is `vic->delta`
for `tests_avg`, one sum per line for `test_and_time`. `log` and `slow` are history variables. 800 and
100 are the constants `Outlier` and `SlotsPerRound`, scaled so that, as in the code, a table of few rounds is smaller
than the range of times and a larger one is not (8 rounds there, 3 here). `Index` is the remainder of C: a negative time is an index in front of the
table, where the model stops (`wild`), unless it is a multiple of the size, which is slot 0. With `steady` the machine is exact, and `ExactWhenSteady` is what entitles `EvictionTest` to exact answers. Floats are
fractions, their truncation to `int` is kept; an undefined conversion gives any value.

**ConflictSet, Finder.** Lists are sets, since lines come in random order. `unasked` is 0 for the C routine and 800 in
`evset.js`. `pc` of `Finder`: `generate`, `cb` (137), `compare` (143-151), `reduce` (160), `save` (43 after a failure),
`done`. `e` counts from 1. A line that is `undefined` is `None`; the measurement made with it (150) is not looked at.
Calibration is left out: the threshold is a constant there. `passed` and `passedOf` are history variables: how many of `RESULTS` the loop
of line 143 had passed when it took the victim, and when it took the victim of each set saved. `ReductionFails` leaves `refs` as it is, since
`BrowserReduction` shows that a reduction that fails has every line back (`Stuck`, `Finish`, and `Fail` of the contract).

**BrowserReduction.** `evset` is the object: `refs`, `del`, `ptr` and the memory. `Answers` is asked about
the chain in memory, never about `refs`. Actions: `KeepLine`, `MakeVictim` (137-159), `FindVictim` (`finder.js` 137-157), `CutUp`
(93-95), `LeaveOut` (97), `Ask` (98-104), `Stuck` (106-117), `Reduced` (93), `Finish` (`finder.js` 162-173), `Save` (44-47).
`groups` stands for the lines congruent with the victim that is going to be taken, so the answers while the conflict set is
made are left open. One search for one victim is followed.

**FindEvsets.** `ptr`, `can`, `evsets[i]` are sets of lines, a null pointer being the
empty set. `goto pick` and `goto next` are the values `pick` and `next` of `pc`.
`GoOn` is the condition of the outer do-while (518). The order of victims is left
open. A picked buffer is any colouring of the lines; the check that the list has
the length asked for (225) cannot fail there. `--debug` and `--verify` are left out, and one
call of `find_evsets` is modelled.

**Plausible slips.** Next to some definitions stands a variant with a mistake a
change of the code could introduce (`GiveUpDropping`, `TryBeforeRelinking`,
`KnownButLast`, ...). No specification uses them; replacing the definition by its variant makes
TLC report the property named in `PROJECT.json` under `mutants`, which shows that the
property depends on the code being as it is.

## 3. Runs

All runs finish in about two minutes or less with two workers.

| Run | What it asks | Bounds |
|---|---|---|
| `group_testing` | Does `gt_eviction` keep all lines, stay inside `back[]`, keep `len` and `cans` right, end, and only succeed with a minimal set? Does it implement `Reduction`? | lists of 1 to 6 lines, 2 ways, `MaxRepsBack` = 1 |
| `group_testing_any` | What of this is left for `gt_eviction_any`? | the same, all divisions into two classes |
| `list_heap` | Do the pointer functions do what the sequences say, and do `prev` pointers stay right? | the same, one line outside the list |
| `naive` | The contract for the two naive routines, and what exact tests guarantee | lists of 1 to 6 lines, 2 ways |
| `binary` | The contract for `binary_eviction` on pointers; which lists it can reduce | lists of 1 to 5 lines and one of 13, 2 ways |
| `timing` | Does the table count right, are exact machines answered exactly, can a positive answer come from nothing? | times -2 to 6, outliers from 6, up to 3 rounds, 3 calibration rounds, 2 lines |
| `browser_reduction` | Do `refs` and memory agree from the conflict set to the saved set, does `groupReduction` implement the contract? | lists of 1 to 6 lines, 2 ways, `MaxStuck` = 2 |
| `finder` | What does the conflict set cover, what is saved, how often is a colour found, does the worker end? | 6 lines, 2 colours, 1 way, 0 to 2 lines unasked, `Retry` = 2 |
| `find_evsets` | Retries, rounds, indices, disjointness, colours | 4 lines, 2 colours, 1 way, 2 probe lines, `MaxReps` = 1, all 16 combinations of flags, linear or not |
| `group_testing_last_chunk` | fails: `SmallerIsTaken` | up to 4 lines |
| `group_testing_any_loss` | fails: `NothingDiscarded` | up to 4 lines |
| `naive_last_line` | fails: `EssentialPutBack` | up to 4 lines |

**Why the bounds are enough.** With 2 ways there are 3 chunks. A list of 6 lines is cut
into chunks of two, one of 5 and of 4 lines into uneven ones (the last chunk takes
the rest), one of 3 into single lines: three levels of removal, so that
backtracking meets a deeper and a shallower record, and the record of 6 slots is half full.
`MaxRepsBack` = 1 lets the outer loop run twice, once because the bound allows it
and once to be stopped by it. The routines do not look at the identity of lines, so lists are numbered in
order and the groups vary. In `find_evsets` one way makes every line of a colour an
eviction set for it (two for the linear algorithm), so that four lines hold up to two
sets of each kind; two colours are enough for a second round, two probe lines for a second
victim and for running out of them. The same properties were also checked
with 2 ways and 5 lines, and with 3 colours, 3 lines and 3 probe lines. `binary` was also checked with 1 and 3 ways,
which differ in whether the index left over is that of a line; its list of 13 lines is the shortest that lets a search of 2 ways end too early; `finder` with 2 ways, 8 lines and 0, 3 or 4 of them unasked. Its lines are numbered by colour (`InOrder`), since the code looks at no number and takes lines in any order;
with 2 lines unasked and 1 way a colour is found twice. In `timing` three times fit the smallest
table only by sharing slots; the times contain a hit, several misses, zero, an outlier, a negative one that is slot 0 of the smallest table and one that is not, and the threshold
may be any of them. In `browser_reduction` six lines make chunks of 2, 2 and 2, four of 2, 1 and 1, and a second
level without a removable chunk is the one that puts everything back.

Minimality of what the naive routines and `gt_eviction_any` return follows from `IsReduction` and from the proof for `gt_eviction`
and has no property of its own.

`CHECK_DEADLOCK FALSE` is said everywhere because every routine returns: `done` has no successor.

**Fairness.** Specifications with a liveness property assume weak fairness of the whole
next-state relation: one thread runs the routine, nothing in it blocks, so some next
step is always taken. Nothing is assumed about *which* answers tests give: termination of
`gt_eviction`, the optimistic routine, `binary_eviction`, the browser reduction, the browser search and `find_evsets`
holds for arbitrary answers. In `FindEvsets` and `Finder` a reduction is one step, so their termination is that of a search whose reductions return. `naive_eviction` ends with exact answers only. A positive and a negative
answer in turn move one line out and back for ever, because only two negative answers in
a row count against `MAX_REPS_BACK` (46-53).

### What the failing runs show

* `gt_eviction` (241) ignores a positive test of the last chunk in the order: the comment
  above says a smaller eviction set is taken. The price is a backtracking step, or
  giving up when nothing was removed before. With exact tests `FoundIsMinimal` and
  `KeepsEvicting` hold all the same.
* `gt_eviction_any` (393-396) gives up without joining the chunk it tried last to `*ptr`, where
  `gt_eviction` joins it (267). Its lines are in no list any more. `LosesOneChunk` bounds the loss. The stale
  `len` makes it report a failure even if what is left is a minimal set.
* `naive_eviction` stops when the list has `cache_way` lines without testing the last
  removal; if the line removed last was needed it is not put back. `OneLineShort`
  says that this is the only way exact tests let it fail.

Observed besides, and stated in the properties that hold:

* `binary_eviction` never finds the last line of its list (`LastLineMissed`): with two ways or more it fails on a list that is
  an eviction set already, and on any that needs its last line. It also fails on some lists with an eviction set to spare: the bound `x < olen` (449) compares the
  numerator of the fraction, which grows like the power of two `i`, with a length, and may end the bisection one question early when the line sought is near the end of a list of 11 lines (one way), 13 (two ways) or more. The comment at 487, "element to head", does not hold then: there is no element.
* With `-q` a test needs *more than* `repetition * ratio` misses, cut to an integer; README 172 says *at least*. With a ratio of 1 no test is
  ever positive, so `ExactWhenSteady` stops below 1. A negative ratio, the default, makes `tests()` positive always; `find_evsets` (216) calls
  it all the same to choose a victim of the conflict set, and takes the first.
* An outlier counts as 0 in `tests_avg` and as no miss in `tests`: it can hide an eviction, but not feign one (`PositiveIsEarned`).
* In a table of less than eight rounds, a time that meets a slot with zeros, or slot 0 with times below zero, takes them over (`HistogramCounts`). Zeros come from the counter
  thread when it does not run between two readings.
* The conflict set is not "the union of all minimal eviction sets" of README 114: one eviction set per colour is kept, and every line of a colour
  that has none (`ConflictSetKept`).
* When the victims run out, `finder.js` 43-44 saves the rest of the conflict set and counts it as an eviction set; without `CONFLICT` a buffer of no more than `Way` lines is saved untested (`SavedEvict` excepts both).
  A buffer of at most 800 lines has no victims at all; that is then its only result.
* "Found N different eviction sets" (`finder.js` 57) are not always of different colours. The loop in 143-149 asks only the first victim about every set found;
  one that replaces it may be evicted by a set already passed, and is reduced if the rest of the conflict set evicts it. That takes another eviction set of its colour among the lines kept
  unasked: with 16 ways, 32 of the 800 are enough. `FoundAgain` says just that: of a colour with several sets, all their lines together are no more than were kept unasked, and a later set was found
  for a victim taken behind the earlier one. If `e` did not start over for each new round either (the mutant), the second half would fail.
* The search ends when exactly `ASSOC` lines are left (55), though they may be the eviction set of the last colour.
* A colour given up after the last
retry leaves an empty slot in `evsets` and puts the last set found out of
`get_evset`'s reach (`EverySetCounted` excludes it by `givenUp`).
* The optimistic routine may return a null `*ptr`
although the list it held evicted (`OptimisticKeeps`).

## 4. Proofs

The runs check small instances; the theorems hold for every value of the constants: buffers of any length, any
number of ways, colours, retries and rounds, and every sequence of answers or measurements.

| Module | Theorem | Statement |
|---|---|---|
| `GroupTestingProofs` | `Inductive` | `Spec => []IInv` |
| | `TypeCorrect` | `Spec => []TypeOK` |
| | `LosesNothing` | `Spec => []NothingLost` |
| | `CountsRight` | `Spec => []Accounting` |
| | `StaysEvicting` | `Spec => []KeepsEvicting` |
| | `MinimalWhenFound` | `Spec => []FoundIsMinimal` |
| | `SomeRemovable` | one of `Target + 1` chunks of an evicting list is not needed |
| | `ChunkAlwaysGoes` | `Spec => []SomeChunkGoes` |
| | `HeightSuffices` | `Spec => []HeightBound` |
| | `Refinement` | `Spec => IsReduction` |
| | `AnyInductive` | `SpecAny => []AnyInv` |
| | `AnyTypeCorrect` | `SpecAny => []TypeOK` |
| | `HeightSufficesAny` | `SpecAny => []HeightBound` |
| | `FoundLosesNothing` | `SpecAny => []FoundKeepsAll` |
| | `AtMostOneChunkLost` | `SpecAny => []LosesOneChunk` |
| `HeapGroupTestingProofs` | `Refinement` | `Spec => ImplementsGroupTesting` |
| | `LinkedBothWays` | `Spec => []BothWays` |
| `NaiveReductionProofs` | `Inductive`, `TypeCorrect` | `Spec => []IInv`, `Spec => []TypeOK` |
| | `NeverBacktracks` | `Spec => []OneLineShort` |
| | `KeepsEvicting` | `Spec => []OptimisticKeeps` |
| | `NeverWritesNull` | `Spec => []NoNullWrite` |
| | `FoundIsMinimal` | `Spec => []JustTheNecessary` |
| | `Refinement` | `Spec => IsReduction` |
| `FindEvsetsProofs` | `ListsKept`, `TypeCorrect` | `Spec => []Lists`, `Spec => []TypeOK` |
| | `StaysInside` | `Spec => []InsideTheArray` |
| | `OneList` | `Spec => []OneListPerLine` |
| | `LosesNoLine` | `Spec => []NoLineLost` |
| | `ColorsDiffer` | `Spec => []OneSetPerColor` |
| | `RestIsClean` | `Spec => []CongruentRemoved` |
| | `SetsCounted` | `Spec => []EverySetCounted` |
| `BrowserReductionProofs` | `Inductive` | `Spec => []IInv` |
| | `MemoryIsRight` | `Spec => []MemoryFollowsRefs` |
| | `Refinement` | `Spec => Contract!Spec`, the safety half of `IsReduction` |
| `FinderProofs` | `Inductive` | `Spec => []FInv` |
| | `KeepsConflictSet` | `Spec => []ConflictSetKept` |
| | `SavesEvictionSets` | `Spec => []SavedEvict` |
| | `FindsAgain` | `Spec => []FoundAgain` |
| `TimingProofs` | `AnswersAreEarned` | `Spec => []PositiveIsEarned` |
| | `HistogramIsRight` | `Spec => []HistogramCounts` |
| | `AnswersAreExact` | `Cardinality(Lines) > Ways` implies `Spec => []ExactWhenSteady` |

**Assumptions.** `Target` and `Way` are positive integers, bounds on retries and rounds natural numbers, the
limit for outliers positive, the slots of a table more than one per round; candidate lists are sequences of distinct lines, groups are sets of lines; where lines are
counted, or lists are followed in memory, there are finitely many; measurements are integers; `Null` and `None` are none of the values they are told apart from. Each is a named `ASSUME`
where the constant is declared, and TLC evaluates them in the runs. One theorem has a hypothesis of its own: `AnswersAreExact` wants
more than `Ways` lines in the list of `test_and_time`, which counts lines and answers no for a shorter list whatever happens (`cache.c` 265).

**Group testing.** `NothingLost` is not inductive by itself: that joining the tried chunk to the list
restores it needs to know that `list` is `base` without exactly that chunk, and that
`back` and `can` are apart from it. `KeepsEvicting` needs to know that a removal followed a positive test. `IInv` therefore adds

* `LoopState`: what each value of `pc` says about `list`, `base`, `n`, `len`, `can`, `repeat`;
* `Learnt`: with exact tests, the chunks tried so far were all needed, and the one just tried not, if `ret`;
* `Verdict`: what a success was based on.

There is one lemma per action (`TryInv`, `BacktrackInv`, ...). `ListLemmas` holds what they use about sequences: slices, joins, ranges, and that
cutting a piece out and joining it again is a rearrangement (`CutOut`). `SomeRemovable` is the counting argument
of group testing: if all `Target + 1` chunks were needed, each would hold a line of the group that
makes the list evict, and so would any `Target` of them, which is enough lines without the last chunk. `Refinement`
maps each action to `Move`, `Succeed`, `Fail` or a stutter. `Counted`, behind `Accounting`, carries `cans` through the states in between.

**The height of back[].** The record has twice as many slots as there are levels in the ideal case, of which each would take away one line in `Target + 1`; `algorithms.c` 200 asks
whether that is enough, since integer division leaves chunks that are smaller. `Levels`, which holds while the loops run, remembers how long the list was when each chunk of
`back[]` left it. One level takes the floor of the share of a chunk, and at least one line; two levels together always take a whole share, because the floor of the first and the line that the
second takes at least make up for what was rounded away. So `2h` levels shrink a list as `h` ideal ones would, and after these it has no more than `Target` lines (`RoomForOneMore`). Nothing in
this depends on the answers or on backtracking, so it serves `gt_eviction_any` as well. The logarithm of the code is `Height`, the least `h` with enough powers; `Power` is a recursive function, of
which the proof uses one unfolding at a time.

**Group testing on pointers.** `IsList(h, p, s)` says that the list at `p` is `s`, linked both ways; `Loose`, that a list is cut into chunks, the last line of each of which leads nowhere or on to the
next chunk, as an earlier try has linked it. `Concatenated`, `SplitUp` and `LinkedAgain` say for lists of any length what `list_concat`, `list_split` and `list_from_chunks` do to the lists they are given, and that
they leave every other one alone. The last is the hard one: it walks around the array from the chunk left out, and every chunk it links was loose, or linked in the order of the try before. `HeapInv` says which
lists there are at each `pc`: `*ptr`, `*can` and what is left in `back[]`, except between a cut and the end of a level, when the chunks are loose. Each action is then shown to keep `HeapInv` and to be the action of the same name
of `GroupTesting`, given what `GroupTestingProofs` proves of that one (`Known`): that lists are apart, that `n` and `order` stay in range, and that there is a slot for `RemoveChunk`, which is `RoomForOneMore` again. So the three invariants are proved
together (`Throughout`). The code's `Recover` visits the empty slots of `back[]` too, which is a stutter of the sequences.

**Browser reduction.** `Sound` says of the object that `refs` and every chunk in `del` are chains (`Linked`) of lines of their own. `unlinkChunk` and `relinkChunk` change the memory in at most two places; a chain that has none of them stays one, and
`WalkAlong` says that what is linked in some order is what the timed code runs through. `IInv` adds who owns which line: `refs`, `del`, the victims, the lines not looked at yet and, at the end, the set that was saved.

**Group testing without a victim.** The lemmas of `gt_eviction` do not use that the list was tested before; so they serve again. `AnyInv` says that `IInv` holds until
`GiveUpAny`, and of the states after it (`Lost`) how much is missing.

**Naive reductions.** `OneLineShort` and `OptimisticKeeps` are part of the invariant: what stands is either an evicting list, or one that is
one line short, and that line is on top of `*can`. `KeptBehind` has the position of `es`: it is the first of the last `elen` lines; `Necessary` says that no line from there on can be spared.

**find_evsets.** `Lists` says where the lines are at each `pc`; it does not depend on the timing. A second invariant is needed for the
properties of exact timing: `Sound` says that what is recorded is of one colour in each slot, that while a reduction runs the victim's colour is not among those recorded,
that with `findallcongruent` no line of a recorded colour is left, that no two slots are of the same colour, and that `num_evsets` counts the slots in use (each under the flags it is about).

**finder.js.** `FInv` says of the lines of the conflict set, wherever they are, that they evict every victim and that more than `Way` of a
colour were kept only as far as they were kept unasked (`Fits`), that what is reduced evicts its victim (`Suited`), and what has been saved (`Saved`). `Budget` adds up
what is left of a colour and `Way` lines for each set saved of it: more than `Way` they are only as far as they were kept unasked, and no step raises the sum. `Compared` says that the victim is evicted by no set it has been compared with,
which are those from `passed` on; when it is reduced these are all the later ones, so that a set of its colour lies in front (`NewColors`).

**Timing.** The first part of the module proves what sums over finite sets do (`SumFunctionOnSet` is a recursion over subsets, in an order that is not
specified): `SumEquation`, `SumSplit`, `SumSame`, `SumScaled`. Induction is done over the set of those numbers, or subsets, that have the property (`EveryNumber`,
`EverySubset`), from the minimal-element theorem of well-founded orders. `EInv` bounds each sum by the rounds done times the threshold for whatever is not in `slow`.
`HistogramCounts` holds only between two calls of `hist_add`. `Booked` therefore counts the value on its way (`Pending`) and weighs a time together with what is 0 or less (`LowAtMost`), because
those counts may move from one to the other; with enough slots every time keeps its own (`OwnSlot`). `SInv` says of a quiet machine
that the table holds one value only, and carries the calibrated threshold from between a hit and a miss to the answers.

**What the proofs changed.** `Accounting` counts the lines of `back[]` as a set, which says the same since none is there twice. `SavedEvict` wanted a condition that the run's
bounds had hidden: without `CONFLICT` a buffer of no more than `Way` lines is saved untested. `Timing` takes its sums from `Functions`. `BothWays` looked at the first `l` slots of `back[]`, although `Recover` has joined the first `i` of them to `*can` by then; it
now looks at those that are still to be joined. `LastLineMissed` promised a success whenever an eviction set can be spared, which a list of 13 lines refutes: it excepts `hasty` searches. Lists of `ListHeap`
are walked by a recursive function, about which something can be proved.

**Only model-checked:** everything about liveness (`Termination`, and the half of `LiveSpec` that says that a routine returns), which is out of the provers' reach, as are the
runs that fail; and `BinaryReduction` (`LastLineMissed` and its contract): what `list_slice` and `list_get` do to a list could be proved as the other list functions were,
but what a bisection finds is an induction over fractions `x / i` that has not been attempted.

## 5. Not modelled

* The traversals (`traverse_list_*`), the time stamps and the counter thread produce measurements; `Timing` takes any. The
  replacement policy is idealised in `EvictionTest`.
* `init_evsets`, `close_evsets`, the getters and a second call of `find_evsets`: their hazards (sizes that overflow, a freed
  array that keeps its length, recorded sets whose links the next search clears) need a caller that misuses the API; `main.c` makes one call of each, in order.
* `list_append`, `list_shift` and `list_pop` on pointers: as sequence operations in `NaiveReduction` only. `rearrange_list` has no caller.
* `recheck`, `filter`, `vtop` and `ptos` need root and do not take part in a search; they print, or prepare a debugging run. `main.c` parses options.
* In the browser, the page, the clock worker and the WebAssembly code; `virt_to_phys.c` and
  `verify_addr.sh` are tools of their own.
* Memory that is refused, except where the size asked for is negative (`NoRecord`).

## 6. Plan

Done, in this order: `EvictionTest`, `ChunkOps`, `Reduction`, `GroupTesting` with its proofs,
`GroupTestingAny`, `ListHeap` and `HeapGroupTesting`, `NaiveReduction`, `FindEvsets`, `BinaryReduction`, `Timing`,
`BrowserReduction`, `ConflictSet` and `Finder`.

1. Proofs: `list_slice`, `list_get` and `list_push` on pointers, as `HeapGroupTestingProofs` has the other list functions; from them the contract of `BinaryReduction`, then
   its bisection over sequences.
2. The naive reductions on pointers, with `list_append`, `list_shift` and `list_pop` in `ListHeap`.
3. The memory of the browser object through several victims, with `Finder` on top.
4. Life cycle of the API: init, several searches, close.
