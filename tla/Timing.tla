------------------------------- MODULE Timing -------------------------------
(***************************************************************************)
(* How measured times become answers: tests(), tests_avg() and             *)
(* test_and_time() of cache.c, the histogram of hist_utils.c in which the  *)
(* first counts its measurements, and calibrate(), which finds the         *)
(* threshold they are compared with.                                       *)
(*                                                                         *)
(* A measurement is any of Times; a negative one is what 2^31 cycles and   *)
(* more look like in an int.  On a quiet machine (`steady') a hit always   *)
(* takes `hit' and a miss `miss'.  Averages are exact fractions here; the  *)
(* rounding of float is left out, the truncation to int is not.  Ratios    *)
(* are given in quarters.  Memory for the tables is always granted.        *)
(***************************************************************************)
EXTENDS Integers, Sequences, FiniteSets, Functions

CONSTANTS
  Times,           \* the values a measurement may have
  Outlier,         \* 800 in the code: what lasts longer is dropped
  SlotsPerRound,   \* 100 in the code: size of the table, per round
  CalRounds,       \* conf.cal_rounds
  MaxRounds,       \* bound on conf.rounds
  Ratios,          \* values of 4 * conf.ratio
  Lines, Ways,     \* the list of test_and_time(), its cache_way
  Null

ASSUME TimingAssumption ==
  /\ Times \subseteq Int
  /\ {Outlier, SlotsPerRound, CalRounds, MaxRounds, Ways} \subseteq Nat \ {0}
  /\ SlotsPerRound > 1
  /\ Ratios \subseteq Int
  /\ IsFiniteSet(Lines)
  /\ Null \notin Int \cup BOOLEAN

VARIABLES
  steady, hit, miss,   \* the machine
  calibrated,          \* FLAG_CALIBRATE, or a threshold given by the user
  evicted,             \* whether the lines that are tested do evict
  phase,
  rep, quarters,       \* conf.rounds, 4 * conf.ratio
  threshold, unflushed,\* conf.threshold, t_unflushed
  i,                   \* the rounds done
  hist, val, j,        \* the table, the value being added, where to
  delta,               \* vic->delta, or the delta of each line
  log, slow,           \* history: what was measured; what was above threshold
  answer

machine == <<steady, hit, miss, calibrated>>
config == <<rep, quarters, evicted>>
table == <<hist, val, j>>
sums == <<delta, log, slow>>
vars == <<machine, config, phase, threshold, unflushed, i, table, sums, answer>>

Kinds == {"tests", "avg", "time"}
Counting == {"unflushed", "flushed", "tests"}   \* they use a table
Victim == "victim"
Measured == IF phase = "time" THEN Lines ELSE {Victim}

Rounds == IF phase = "tests" THEN rep ELSE CalRounds
hsz == Rounds * SlotsPerRound
Table(n) == [s \in 0 .. n * SlotsPerRound - 1 |-> [val |-> 0, count |-> 0]]

-----------------------------------------------------------------------------
Init == /\ \/ steady = FALSE /\ hit = 0 /\ miss = 0
           \/ /\ steady = TRUE
              /\ hit \in Times /\ miss \in Times
              /\ 0 < hit /\ hit < miss /\ miss < Outlier
        /\ \/ calibrated = TRUE /\ phase = "unflushed" /\ threshold = 0
           \/ calibrated = FALSE /\ phase = "ready" /\ threshold \in Times \cap Nat
        /\ hist = IF calibrated THEN Table(CalRounds) ELSE <<>>
        /\ val = 0 /\ j = Null /\ unflushed = Null
        /\ rep = 0 /\ quarters = 0 /\ i = 0 /\ evicted = FALSE
        /\ delta = <<>> /\ log = <<>> /\ slow = {} /\ answer = Null

(* What one access may take, given whether it misses the cache.            *)
Access(missing) == IF steady THEN {IF missing THEN miss ELSE hit} ELSE Times

Missing == \/ phase = "flushed"
           \/ phase \in Kinds /\ evicted

-----------------------------------------------------------------------------
(* j % len of C, which for a j below zero is below zero or zero.           *)
Index(n) == IF n < 0 /\ n % hsz # 0 THEN n ELSE n % hsz

(* hist_add(): a value goes to the slot its size names, or to the first    *)
(* one behind it that is free.  A slot is free as long as its val is 0,    *)
(* also when zeros have been counted in it.                                *)
Measure == /\ phase \in Counting /\ i < Rounds /\ j = Null
           /\ \E t \in Access(Missing) :
                /\ val' = t
                /\ j' = IF t >= Outlier THEN Null ELSE Index(t)
                /\ IF phase = "tests"
                     THEN /\ log' = Append(log, t)
                          /\ slow' = IF t < Outlier /\ t > threshold
                                       THEN {Victim} ELSE slow
                     ELSE UNCHANGED <<log, slow>>
           /\ i' = i + 1
           /\ UNCHANGED <<machine, config, phase, threshold, unflushed, hist,
                          delta, answer>>

TakenBySmaller == hist[j].val > 0 /\ hist[j].val > val
TakenOrOther == hist[j].val # val
Taken == hist[j].val > 0 /\ hist[j].val # val

(* A time below zero gets as far as a slot when it is a multiple of the    *)
(* size of the table: then it is slot 0, and one further is outside again. *)
Probe == /\ j # Null /\ j >= 0
         /\ IF Taken
              THEN j' = Index((IF val < 0 THEN val ELSE j) + 1) /\ UNCHANGED hist
              ELSE /\ hist' = [hist EXCEPT ![j] = [val |-> val,
                                                   count |-> @.count + 1]]
                   /\ j' = Null
         /\ UNCHANGED <<machine, config, phase, threshold, unflushed, i, val,
                        sums, answer>>

(* The value was negative as an int: not an outlier, and its index is      *)
(* below the table.                                                        *)
WriteOutside == /\ j # Null /\ j < 0
                /\ phase' = "wild"
                /\ UNCHANGED <<machine, config, threshold, unflushed, i, table,
                               sums, answer>>

Counted == phase \in Counting /\ i = Rounds /\ j = Null

-----------------------------------------------------------------------------
(* calibrate()                                                             *)

Counts == [s \in DOMAIN hist |-> hist[s].count]

(* hist_avg(), as the size_t it is assigned to.  It skips the value 0, and *)
(* without any other value it is 0 / 0.                                    *)
Average ==
  LET S == {s \in DOMAIN hist : hist[s].val > 0}
      n == SumFunctionOnSet(Counts, S)
      total == SumFunctionOnSet([s \in S |-> hist[s].val * hist[s].count], S)
  IN  IF n = 0 THEN Null ELSE total \div n

Unflushed == /\ phase = "unflushed" /\ Counted
             /\ unflushed' = Average
             /\ phase' = "flushed"
             /\ hist' = Table(CalRounds) /\ i' = 0
             /\ UNCHANGED <<machine, config, threshold, val, j, sums, answer>>

(* The conversion of 0 / 0 to size_t is undefined: any threshold may come  *)
(* of it.  A negative one makes find_evsets() return.                      *)
Flushed == /\ phase = "flushed" /\ Counted
           /\ threshold' \in
                IF Null \in {unflushed, Average} THEN (Times \cap Nat) \cup {-1}
                ELSE IF Average < unflushed THEN {-1}
                ELSE {(Average + unflushed * 2) \div 3}
           /\ phase' = IF threshold' < 0 THEN "done" ELSE "ready"
           /\ hist' = <<>> /\ i' = 0 /\ unflushed' = Null
           /\ UNCHANGED <<machine, config, val, j, sums, answer>>

-----------------------------------------------------------------------------
(* One test.  conf.ratio matters to tests() only.                          *)
Begin == /\ phase = "ready"
         /\ phase' \in Kinds
         /\ rep' \in 1 .. MaxRounds
         /\ quarters' \in IF phase' = "tests" THEN Ratios ELSE {0}
         /\ evicted' \in BOOLEAN
         /\ hist' = IF phase' = "tests" THEN Table(rep') ELSE <<>>
         /\ delta' = [e \in IF phase' = "time" THEN Lines ELSE {Victim} |-> 0]
         /\ UNCHANGED <<machine, threshold, unflushed, i, val, j, log, slow,
                        answer>>

(* tests(): hist_q() counts the values above the threshold.                *)
Above(t) == t > threshold
Misses == SumFunctionOnSet(Counts, {s \in DOMAIN hist : hist[s].count > 0
                                                         /\ Above(hist[s].val)})

EnoughRoundedUp == (quarters * rep + 3) \div 4

(* (int)(rep * ratio) cuts the fraction off.                               *)
Enough == IF quarters < 0 THEN -((-quarters * rep) \div 4)
          ELSE (quarters * rep) \div 4

Tests == /\ phase = "tests" /\ Counted
         /\ answer' = (Misses > Enough)
         /\ phase' = "done"
         /\ UNCHANGED <<machine, config, threshold, unflushed, i, table, sums>>

(* The rounds of tests_avg() add the times of the victim, those of         *)
(* test_and_time() the times of every line of the list, whatever they are. *)
KeptAll(t) == TRUE
Kept(t) == phase = "time" \/ t < Outlier

AddUp == /\ phase \in {"avg", "time"} /\ i < rep
         /\ \E t \in [Measured -> Access(Missing)] :
              /\ phase = "time" => \A e \in Lines : t[e] >= 0
              /\ delta' = [e \in Measured |->
                             delta[e] + IF Kept(t[e]) THEN t[e] ELSE 0]
              /\ slow' = slow \cup {e \in Measured :
                            t[e] > threshold /\ (phase = "time" \/ t[e] < Outlier)}
         /\ i' = i + 1
         /\ UNCHANGED <<machine, config, phase, threshold, unflushed, table, log,
                        answer>>

(* tests_avg(): the sum of what was kept, divided by all rounds.  A        *)
(* negative sum is a huge size_t, and no float that size fits an int.      *)
Avg == /\ phase = "avg" /\ i = rep
       /\ answer' \in IF delta[Victim] < 0 THEN BOOLEAN
                      ELSE {Above(delta[Victim] \div rep)}
       /\ phase' = "done"
       /\ UNCHANGED <<machine, config, threshold, unflushed, i, table, sums>>

(* test_and_time()                                                         *)
Time == /\ phase = "time" /\ i = rep
        /\ answer' = (Cardinality({e \in Lines : Above(delta[e] \div rep)}) > Ways)
        /\ phase' = "done"
        /\ UNCHANGED <<machine, config, threshold, unflushed, i, table, sums>>

Next == \/ Measure \/ Probe \/ WriteOutside \/ Unflushed \/ Flushed
        \/ Begin \/ Tests \/ AddUp \/ Avg \/ Time

Spec == Init /\ [][Next]_vars /\ WF_vars(Next)
-----------------------------------------------------------------------------
HowOften(t) == Cardinality({k \in DOMAIN log : log[k] = t})
NoTime == Cardinality({k \in DOMAIN log : log[k] <= 0})

InTable(t) == SumFunctionOnSet(Counts, {s \in DOMAIN hist : hist[s].val = t})

(* The table says how often each time was measured, outliers apart.  It    *)
(* has at least as many slots as there are times only from 8 rounds on     *)
(* (Outlier \div SlotsPerRound); below, times share slots and are moved    *)
(* on.  They are still counted right, with one exception: a slot that      *)
(* holds zeros, or times below zero, counts as free (hist_utils.c 12), so  *)
(* that a time moved onto it takes them for its own.                       *)
HistogramCounts ==
  phase = "tests" /\ j = Null =>
    /\ SumFunction(Counts)
         = Cardinality({k \in DOMAIN log : log[k] < Outlier})
    /\ \A t \in Times \cap 1 .. Outlier - 1 :
         /\ HowOften(t) <= InTable(t)
         /\ InTable(t) <= HowOften(t) + IF hsz < Outlier THEN NoTime ELSE 0

(* On a quiet machine each of the three tests says what is the case, with  *)
(* a threshold calibrated on that machine or any other that a miss passes  *)
(* and a hit does not, and a ratio below 1 -- what the models of the       *)
(* reductions call exact tests.                                            *)
ExactWhenSteady ==
  /\ steady /\ answer # Null /\ quarters \in 0 .. 3
  /\ \/ calibrated
     \/ hit <= threshold /\ threshold < miss
  => answer = evicted

(* A positive answer has a cause: a time above the threshold that was not  *)
(* an outlier, or one for each of more than Ways lines.  Neither outliers, *)
(* nor sums divided by all rounds, nor slots shared in the table make a    *)
(* set evict.  Two things do: a ratio below zero, which is the default,    *)
(* and with which find_evsets() calls tests() at line 216; and a time so   *)
(* long that it is negative.                                               *)
PositiveIsEarned ==
  answer = TRUE /\ quarters >= 0 /\ (\A e \in DOMAIN delta : delta[e] >= 0) =>
    IF Victim \in DOMAIN delta THEN slow # {} ELSE Cardinality(slow) > Ways

(* Every value finds its slot, and calibration and tests come to an end,   *)
(* unless a time too long is written in front of the table.                *)
Termination == <>(phase \in {"done", "wild"})
=============================================================================
