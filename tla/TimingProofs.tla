---------------------------- MODULE TimingProofs ----------------------------
(***************************************************************************)
(* What the answers of the timing tests mean, for every set of             *)
(* measurements, number of rounds, ratio and size of the table.            *)
(***************************************************************************)
EXTENDS Timing, FiniteSetTheorems, SequenceTheorems, WellFoundedInduction, TLAPS

(***************************************************************************)
(* Sums over finite sets.  SumFunctionOnSet(f, S) takes the elements out   *)
(* of S one after another; the lemmas say that it may be any of them that  *)
(* is taken out first.                                                     *)
(***************************************************************************)
(* Induction over the natural numbers and over the subsets of a finite     *)
(* set, with the property given as the set of those that have it.          *)
LEMMA EveryNumber ==
  ASSUME NEW T \in SUBSET Nat, 0 \in T, \A n \in T : n + 1 \in T
  PROVE  T = Nat
  <1> SUFFICES ASSUME Nat \ T # {} PROVE FALSE
    OBVIOUS
  <1>1. PICK m \in Nat \ T : \A n \in Nat \ T : <<n, m>> \notin OpToRel(<, Nat)
    BY NatLessThanWellFounded, WFMin, Zenon
  <1>2. m \in Nat /\ m \notin T /\ m # 0
    BY <1>1
  <1> DEFINE k == m - 1
  <1>3. k \in Nat /\ k < m /\ k + 1 = m
    BY <1>2
  <1> HIDE DEF k
  <1>4. <<k, m>> \in OpToRel(<, Nat)
    BY <1>2, <1>3 DEF OpToRel
  <1>5. k \in T
    BY <1>1, <1>3, <1>4
  <1>6. QED
    BY <1>2, <1>3, <1>5

LEMMA EverySubset ==
  ASSUME NEW S, IsFiniteSet(S), NEW T,
         \A s \in SUBSET S : (\A x \in s : s \ {x} \in T) => s \in T
  PROVE  \A s \in SUBSET S : s \in T
  <1> DEFINE B == (SUBSET S) \ T
  <1> SUFFICES ASSUME B # {} PROVE FALSE
    OBVIOUS
  <1>1. B \subseteq FiniteSubsetsOf(S)
    BY FS_Subset DEF FiniteSubsetsOf
  <1>2. PICK s \in B : \A t \in B : <<t, s>> \notin StrictSubsetOrdering(S)
    <2> HIDE DEF B
    <2>1. QED
      BY <1>1, FS_StrictSubsetOrderingWellFounded, WFMin, Zenon
  <1>3. ASSUME NEW x \in s PROVE s \ {x} \in T
    <2>1. s \ {x} \in SUBSET S /\ s \ {x} # s /\ s \ {x} \subseteq s
      BY <1>2
    <2>2. <<s \ {x}, s>> \in StrictSubsetOrdering(S)
      BY <1>2, <2>1 DEF StrictSubsetOrdering
    <2>3. QED
      BY <1>2, <2>1, <2>2
  <1>4. QED
    BY <1>2, <1>3

Pick(s) == CHOOSE x \in s : TRUE
Round(f, S, g) ==
  [s \in SUBSET S |-> IF s = {} THEN 0 ELSE f[Pick(s)] + g[s \ {Pick(s)}]]
Iter(f, S) == CHOOSE g : g = Round(f, S, g)

LEMMA SumIter ==
  ASSUME NEW f, NEW S
  PROVE  SumFunctionOnSet(f, S) = Iter(f, S)[S]
  BY Zenon DEF SumFunctionOnSet, FoldFunctionOnSet, MapThenFoldSet, Iter, Round, Pick

LEMMA Picked ==
  ASSUME NEW s, s # {}
  PROVE  Pick(s) \in s
  BY DEF Pick

LEMMA IterEquation ==
  ASSUME NEW f, NEW S, IsFiniteSet(S)
  PROVE  \A s \in SUBSET S :
           Iter(f, S)[s] = IF s = {} THEN 0
                           ELSE f[Pick(s)] + Iter(f, S)[s \ {Pick(s)}]
  <1> DEFINE Good(g, n) ==
               \A s \in SUBSET S : Cardinality(s) <= n =>
                 g[s] = IF s = {} THEN 0 ELSE f[Pick(s)] + g[s \ {Pick(s)}]
             T == {n \in Nat : \E g : Good(g, n)}
  <1>1. \A s \in SUBSET S : IsFiniteSet(s) /\ Cardinality(s) \in Nat
    BY FS_Subset, FS_CardinalityType
  <1>2. 0 \in T
    <2> DEFINE g == [s \in SUBSET S |-> 0]
    <2>1. ASSUME NEW s \in SUBSET S, Cardinality(s) <= 0 PROVE s = {}
      BY <1>1, <2>1, FS_EmptySet
    <2>2. Good(g, 0)
      BY <2>1
    <2>3. QED
      BY <2>2
  <1>3. ASSUME NEW n \in T PROVE n + 1 \in T
    <2>1. PICK g : Good(g, n)
      OBVIOUS
    <2> DEFINE h == Round(f, S, g)
    <2>2. ASSUME NEW s \in SUBSET S, Cardinality(s) <= n + 1
          PROVE  h[s] = IF s = {} THEN 0 ELSE f[Pick(s)] + h[s \ {Pick(s)}]
      <3>1. h[s] = IF s = {} THEN 0 ELSE f[Pick(s)] + g[s \ {Pick(s)}]
        BY DEF Round
      <3>2. CASE s = {}
        BY <3>1, <3>2
      <3>3. CASE s # {}
        <4> DEFINE u == s \ {Pick(s)}
        <4>1. u \in SUBSET S /\ Cardinality(u) = Cardinality(s) - 1
          BY <1>1, <3>3, Picked, FS_RemoveElement
        <4>2. Cardinality(u) <= n
          BY <1>1, <2>2, <4>1
        <4>3. g[u] = IF u = {} THEN 0 ELSE f[Pick(u)] + g[u \ {Pick(u)}]
          BY <2>1, <4>1, <4>2
        <4>4. h[u] = IF u = {} THEN 0 ELSE f[Pick(u)] + g[u \ {Pick(u)}]
          BY <4>1 DEF Round
        <4>5. QED
          BY <3>1, <3>3, <4>3, <4>4
      <3>4. QED
        BY <3>2, <3>3
    <2>3. Good(h, n + 1)
      BY <2>2
    <2>4. n + 1 \in Nat
      BY <1>3
    <2> HIDE DEF Good, h
    <2>5. QED
      BY <2>3, <2>4
  <1>4. T = Nat
    <2>1. T \in SUBSET Nat
      OBVIOUS
    <2> HIDE DEF T
    <2>2. QED
      BY <1>2, <1>3, <2>1, EveryNumber
  <1>5. PICK g : Good(g, Cardinality(S))
    BY <1>1, <1>4
  <1>6. \A s \in SUBSET S : Cardinality(s) <= Cardinality(S)
    BY FS_Subset
  <1> DEFINE h == [s \in SUBSET S |-> g[s]]
  <1>7. h = Round(f, S, h)
    <2>1. ASSUME NEW s \in SUBSET S
          PROVE  h[s] = IF s = {} THEN 0 ELSE f[Pick(s)] + h[s \ {Pick(s)}]
      <3>1. s \ {Pick(s)} \in SUBSET S
        OBVIOUS
      <3>2. g[s] = IF s = {} THEN 0 ELSE f[Pick(s)] + g[s \ {Pick(s)}]
        BY <1>5, <1>6
      <3>3. QED
        BY <3>1, <3>2
    <2>2. QED
      BY <2>1 DEF Round
  <1> HIDE DEF h
  <1>8. Iter(f, S) = Round(f, S, Iter(f, S))
    BY <1>7 DEF Iter
  <1>9. QED
    BY <1>8 DEF Round

(* It does not matter of which larger set a set is a part.                 *)
LEMMA SumEquation ==
  ASSUME NEW f, NEW S, IsFiniteSet(S)
  PROVE  SumFunctionOnSet(f, S) =
           IF S = {} THEN 0
           ELSE f[Pick(S)] + SumFunctionOnSet(f, S \ {Pick(S)})
  <1> DEFINE R == S \ {Pick(S)}
             T == {s \in SUBSET R : Iter(f, S)[s] = Iter(f, R)[s]}
  <1>1. IsFiniteSet(R)
    BY FS_Subset
  <1>2. ASSUME NEW s \in SUBSET R, \A x \in s : s \ {x} \in T
        PROVE  s \in T
    <2>1. /\ Iter(f, S)[s] = IF s = {} THEN 0
                             ELSE f[Pick(s)] + Iter(f, S)[s \ {Pick(s)}]
          /\ Iter(f, R)[s] = IF s = {} THEN 0
                             ELSE f[Pick(s)] + Iter(f, R)[s \ {Pick(s)}]
      <3>1. s \in SUBSET S /\ s \in SUBSET R
        OBVIOUS
      <3>2. \A t \in SUBSET R : Iter(f, R)[t] = IF t = {} THEN 0
                  ELSE f[Pick(t)] + Iter(f, R)[t \ {Pick(t)}]
        <4> HIDE DEF R
        <4>1. QED
          BY <1>1, IterEquation
      <3>3. \A t \in SUBSET S : Iter(f, S)[t] = IF t = {} THEN 0
                  ELSE f[Pick(t)] + Iter(f, S)[t \ {Pick(t)}]
        BY IterEquation
      <3> HIDE DEF R
      <3>4. QED
        BY <3>1, <3>2, <3>3
    <2>2. s # {} => Iter(f, S)[s \ {Pick(s)}] = Iter(f, R)[s \ {Pick(s)}]
      BY <1>2, Picked
    <2>3. QED
      BY <2>1, <2>2
  <1>3. R \in T
    <2> HIDE DEF T, R
    <2>1. \A s \in SUBSET R : s \in T
      BY <1>1, <1>2, EverySubset, Zenon
    <2>2. QED
      BY <2>1
  <1>4. Iter(f, S)[S] = IF S = {} THEN 0 ELSE f[Pick(S)] + Iter(f, S)[R]
    BY IterEquation
  <1>5. QED
    BY <1>3, <1>4, SumIter

LEMMA SumType ==
  ASSUME NEW f, NEW S, IsFiniteSet(S), \A x \in S : f[x] \in Nat
  PROVE  SumFunctionOnSet(f, S) \in Nat
  <1> DEFINE T == {s \in SUBSET S : SumFunctionOnSet(f, s) \in Nat}
  <1>1. ASSUME NEW s \in SUBSET S, \A x \in s : s \ {x} \in T
        PROVE  s \in T
    <2>1. SumFunctionOnSet(f, s) = IF s = {} THEN 0
            ELSE f[Pick(s)] + SumFunctionOnSet(f, s \ {Pick(s)})
      BY SumEquation, FS_Subset
    <2>2. s # {} => /\ f[Pick(s)] \in Nat
                    /\ SumFunctionOnSet(f, s \ {Pick(s)}) \in Nat
      BY <1>1, Picked
    <2>3. QED
      BY <2>1, <2>2
  <1>2. S \in T
    <2>1. \A s \in SUBSET S : (\A x \in s : s \ {x} \in T) => s \in T
      BY <1>1
    <2>2. S \in SUBSET S
      OBVIOUS
    <2> HIDE DEF T
    <2>3. QED
      BY <2>1, <2>2, EverySubset, Zenon
  <1>3. QED
    BY <1>2

LEMMA SumSplit ==
  ASSUME NEW f, NEW S, IsFiniteSet(S), \A x \in S : f[x] \in Nat, NEW y \in S
  PROVE  SumFunctionOnSet(f, S) = f[y] + SumFunctionOnSet(f, S \ {y})
  <1> DEFINE Sum(s) == SumFunctionOnSet(f, s)
             T == {s \in SUBSET S : \A z \in s : Sum(s) = f[z] + Sum(s \ {z})}
  <1>1. \A s \in SUBSET S : IsFiniteSet(s) /\ Sum(s) \in Nat
    BY SumType, FS_Subset
  <1>2. ASSUME NEW s \in SUBSET S, \A x \in s : s \ {x} \in T
        PROVE  s \in T
    <2> SUFFICES ASSUME NEW z \in s PROVE Sum(s) = f[z] + Sum(s \ {z})
      OBVIOUS
    <2> DEFINE x == Pick(s)
    <2>1. x \in s /\ Sum(s) = f[x] + Sum(s \ {x})
      BY <1>1, SumEquation, Picked
    <2> HIDE DEF x
    <2>2. CASE z = x
      BY <2>1, <2>2
    <2>3. CASE z # x
      <3>1. s \ {x} \in T /\ s \ {z} \in T /\ z \in s \ {x} /\ x \in s \ {z}
        BY <1>2, <2>1, <2>3
      <3>2. (s \ {x}) \ {z} = (s \ {z}) \ {x} /\ (s \ {z}) \ {x} \in SUBSET S
        OBVIOUS
      <3>3. Sum(s \ {x}) = f[z] + Sum((s \ {x}) \ {z})
        BY <3>1
      <3>4. Sum(s \ {z}) = f[x] + Sum((s \ {z}) \ {x})
        BY <3>1
      <3>5. Sum((s \ {z}) \ {x}) \in Nat /\ f[x] \in Nat /\ f[z] \in Nat
        BY <1>1, <2>1, <3>2
      <3> HIDE DEF Sum
      <3>6. QED
        BY <2>1, <3>2, <3>3, <3>4, <3>5
    <2>4. QED
      BY <2>2, <2>3
  <1>3. S \in T
    <2>1. \A s \in SUBSET S : (\A x \in s : s \ {x} \in T) => s \in T
      BY <1>2
    <2>2. S \in SUBSET S
      OBVIOUS
    <2> HIDE DEF T
    <2>3. QED
      BY <2>1, <2>2, EverySubset, Zenon
  <1>4. QED
    BY <1>3

LEMMA SumSame ==
  ASSUME NEW f, NEW g, NEW S, IsFiniteSet(S), \A x \in S : f[x] = g[x]
  PROVE  SumFunctionOnSet(f, S) = SumFunctionOnSet(g, S)
  <1> DEFINE T == {s \in SUBSET S : SumFunctionOnSet(f, s) = SumFunctionOnSet(g, s)}
  <1>1. ASSUME NEW s \in SUBSET S, \A x \in s : s \ {x} \in T
        PROVE  s \in T
    <2>1. IsFiniteSet(s)
      BY FS_Subset
    <2>2. /\ SumFunctionOnSet(f, s) = IF s = {} THEN 0
               ELSE f[Pick(s)] + SumFunctionOnSet(f, s \ {Pick(s)})
          /\ SumFunctionOnSet(g, s) = IF s = {} THEN 0
               ELSE g[Pick(s)] + SumFunctionOnSet(g, s \ {Pick(s)})
      BY <2>1, SumEquation
    <2>3. s # {} => /\ f[Pick(s)] = g[Pick(s)]
                    /\ SumFunctionOnSet(f, s \ {Pick(s)})
                         = SumFunctionOnSet(g, s \ {Pick(s)})
      BY <1>1, Picked
    <2>4. QED
      BY <2>2, <2>3
  <1>2. S \in T
    <2>1. \A s \in SUBSET S : (\A x \in s : s \ {x} \in T) => s \in T
      BY <1>1
    <2>2. S \in SUBSET S
      OBVIOUS
    <2> HIDE DEF T
    <2>3. QED
      BY <2>1, <2>2, EverySubset, Zenon
  <1>3. QED
    BY <1>2

-----------------------------------------------------------------------------
(* Arithmetic of the table and of the averages.                            *)
LEMMA Product ==
  ASSUME NEW a \in Nat \ {0}, NEW b \in Nat \ {0}
  PROVE  a * b \in Nat \ {0}
  OBVIOUS

LEMMA Remainder ==
  ASSUME NEW t \in Nat, NEW h \in Nat \ {0}
  PROVE  t % h \in 0 .. h - 1
  OBVIOUS

LEMMA Quotient ==
  ASSUME NEW t \in Nat, NEW h \in Nat \ {0}
  PROVE  t \div h \in Nat
  OBVIOUS

LEMMA QuotientBound ==
  ASSUME NEW a \in Int, NEW b \in Nat \ {0}, NEW c \in Int, a <= b * c
  PROVE  a \div b <= c
  OBVIOUS

LEMMA OneMore ==
  ASSUME NEW a \in Int, NEW c \in Int
  PROVE  (a + 1) * c = a * c + c /\ 0 * c = 0
  OBVIOUS

Slot == [val : Int, count : Nat]
Slots(n) == 0 .. n * SlotsPerRound - 1

LEMMA EmptyTable ==
  ASSUME NEW n \in Nat \ {0}
  PROVE  Table(n) \in [Slots(n) -> Slot]
  BY DEF Table, Slots, Slot

LEMMA FiniteSlots ==
  ASSUME NEW n \in Int
  PROVE  IsFiniteSet(0 .. n)
  BY FS_Interval

LEMMA AverageType ==
  ASSUME NEW n \in Int, hist \in [0 .. n -> Slot]
  PROVE  Average \in Nat \cup {Null}
  <1> DEFINE S == {s \in DOMAIN hist : hist[s].val > 0}
             total == [s \in S |-> hist[s].val * hist[s].count]
             c == SumFunctionOnSet(Counts, S)
             w == SumFunctionOnSet(total, S)
  <1>1. IsFiniteSet(S)
    BY FiniteSlots, FS_Subset
  <1>2. \A s \in S : Counts[s] \in Nat /\ total[s] \in Nat
    <2> SUFFICES ASSUME NEW s \in S PROVE Counts[s] \in Nat /\ total[s] \in Nat
      OBVIOUS
    <2>1. Counts[s] = hist[s].count /\ total[s] = hist[s].val * hist[s].count
      BY DEF Counts
    <2>2. hist[s].val \in Nat /\ hist[s].count \in Nat
      BY DEF Slot
    <2>3. QED
      BY <2>1, <2>2
  <1>3. c \in Nat
    BY <1>1, <1>2, SumType
  <1>4. w \in Nat
    <2> HIDE DEF S, total
    <2>1. QED
      BY <1>1, <1>2, SumType
  <1>5. Average = IF c = 0 THEN Null ELSE w \div c
    BY DEF Average
  <1> HIDE DEF c, w
  <1>6. c # 0 => w \div c \in Nat
    BY <1>3, <1>4, Quotient
  <1>7. QED
    BY <1>5, <1>6

-----------------------------------------------------------------------------
(* The types of the variables, and what is still at its first value.       *)
Untested == {"unflushed", "flushed", "ready"}

Types ==
  /\ hit \in Int /\ miss \in Int
  /\ phase \in Untested \cup Kinds \cup {"done", "wild"}
  /\ threshold \in Int /\ (phase \in {"ready"} \cup Kinds => threshold >= 0)
  /\ unflushed \in Nat \cup {Null}
  /\ i \in Nat /\ (phase = "ready" => i = 0)
  /\ rep \in Nat /\ (phase \in Kinds => rep # 0)
  /\ quarters \in Int
  /\ log \in Seq(Int)
  /\ phase \in Kinds => delta \in [Measured -> Int]
  /\ phase \in Untested => slow = {} /\ log = <<>>
  /\ answer # Null => phase = "done"

TableTypes ==
  /\ val \in Int
  /\ phase \in Counting => hist \in [Slots(Rounds) -> Slot]
  /\ j = Null \/ /\ j \in Int /\ val < Outlier
                 /\ \/ j < 0 /\ val < 0 /\ phase \in Counting \cup {"wild"}
                    \/ /\ j \in Slots(Rounds) /\ phase \in Counting
                       /\ val >= 0 \/ j = 0

TInv == Types /\ TableTypes

LEMMA RoundsType ==
  ASSUME Types, phase \in Counting
  PROVE  Rounds \in Nat \ {0} /\ hsz \in Nat \ {0} /\ Slots(Rounds) = 0 .. hsz - 1
  <1>1. Rounds \in Nat \ {0}
    BY TimingAssumption DEF Types, Rounds, Counting, Kinds
  <1>2. QED
    BY <1>1, Product, TimingAssumption DEF hsz, Slots

LEMMA IndexOfNat ==
  ASSUME NEW t \in Nat
  PROVE  Index(t) = t % hsz
  BY DEF Index

LEMMA IndexType ==
  ASSUME NEW t \in Int, hsz \in Nat \ {0}
  PROVE  /\ t >= 0 => Index(t) >= 0 /\ Index(t) < hsz
         /\ t <= 0 => Index(t) = t \/ Index(t) = 0
         /\ Index(t) \in Int
  <1> HIDE DEF hsz
  <1>1. t >= 0 => t % hsz \in 0 .. hsz - 1
    BY Remainder
  <1>2. 0 % hsz = 0
    OBVIOUS
  <1>3. t < 0 => Index(t) = t \/ Index(t) = 0
    BY DEF Index
  <1>4. QED
    BY <1>1, <1>2, <1>3 DEF Index

LEMMA AccessType ==
  ASSUME Types, NEW m
  PROVE  Access(m) \subseteq Int
  BY TimingAssumption DEF Types, Access

LEMMA InitTypes == Init => TInv
  <1> SUFFICES ASSUME Init PROVE TInv
    OBVIOUS
  <1>1. phase \in {"unflushed", "ready"} /\ threshold \in Nat
    BY TimingAssumption DEF Init
  <1>2. hit \in Int /\ miss \in Int
    <2>1. \/ hit = 0 /\ miss = 0
          \/ hit \in Times /\ miss \in Times
      BY DEF Init
    <2>2. Times \subseteq Int
      BY TimingAssumption
    <2>3. 0 \in Int
      OBVIOUS
    <2>4. QED
      BY <2>1, <2>2, <2>3, Zenon
  <1>3. Types
    BY <1>1, <1>2 DEF Init, Types, Untested, Kinds
  <1>4. phase \in Counting => hist \in [Slots(Rounds) -> Slot]
    BY EmptyTable, TimingAssumption DEF Init, Rounds, Counting
  <1>5. QED
    BY <1>3, <1>4 DEF TInv, TableTypes, Init

(* One step after another.                                                 *)
LEMMA SameRounds ==
  ASSUME phase' = phase, rep' = rep
  PROVE  Rounds' = Rounds /\ hsz' = hsz /\ Measured' = Measured
  BY DEF Rounds, hsz, Measured

LEMMA MeasureTypes ==
  ASSUME TInv, Measure
  PROVE  TInv'
  <1>1. PICK t \in Access(Missing) :
           /\ val' = t
           /\ j' = IF t >= Outlier THEN Null ELSE Index(t)
           /\ IF phase = "tests"
                THEN /\ log' = Append(log, t)
                     /\ slow' = IF t < Outlier /\ t > threshold
                                  THEN {Victim} ELSE slow
                ELSE UNCHANGED <<log, slow>>
    BY DEF Measure
  <1>2. t \in Int /\ Outlier \in Nat
    BY AccessType, TimingAssumption DEF TInv
  <1>3. Rounds' = Rounds /\ Measured' = Measured
    BY SameRounds DEF Measure, config
  <1>4. Types'
    <2>1. log' \in Seq(Int)
      <3>1. log \in Seq(Int)
        BY DEF TInv, Types
      <3>2. log' \in {log, Append(log, t)}
        BY <1>1
      <3>3. QED
        BY <1>2, <3>1, <3>2
    <2>2. phase \in Untested => log' = log /\ slow' = slow
      BY <1>1 DEF Untested
    <2>3. i' \in Nat /\ phase # "ready"
      BY DEF TInv, Types, Measure, Counting
    <2>4. QED
      BY <1>3, <2>1, <2>2, <2>3 DEF TInv, Types, Measure, config, machine
  <1>5. CASE t < Outlier
    <2>1. hsz \in Nat \ {0} /\ Slots(Rounds) = 0 .. hsz - 1
      BY RoundsType DEF TInv, Measure
    <2>2. j' = Index(t)
      BY <1>1, <1>2, <1>5
    <2> HIDE DEF hsz
    <2>3. /\ j' \in Int /\ (t >= 0 => j' \in Slots(Rounds))
          /\ t < 0 => j' < 0 \/ (j' = 0 /\ 0 \in Slots(Rounds))
      BY <1>2, <2>1, <2>2, IndexType
    <2>4. Slots(Rounds)' = Slots(Rounds)
      BY <1>3 DEF Slots
    <2>5. QED
      BY <1>1, <1>2, <1>3, <1>4, <1>5, <2>3, <2>4 DEF TInv, TableTypes, Measure
  <1>6. CASE ~ (t < Outlier)
    BY <1>1, <1>2, <1>3, <1>4, <1>6 DEF TInv, TableTypes, Measure, Slots
  <1>7. QED
    BY <1>5, <1>6

LEMMA ProbeTypes ==
  ASSUME TInv, Probe
  PROVE  TInv'
  <1>1. Rounds' = Rounds /\ hsz' = hsz /\ Measured' = Measured
    BY SameRounds DEF Probe, config
  <1>2. Types'
    BY <1>1 DEF TInv, Types, Probe, config, machine, sums
  <1>3. /\ j \in Slots(Rounds) /\ val \in Int /\ (val >= 0 \/ j = 0)
        /\ val < Outlier /\ phase \in Counting
    BY DEF TInv, TableTypes, Probe
  <1>4. hsz \in Nat \ {0} /\ Slots(Rounds) = 0 .. hsz - 1
    BY <1>3, RoundsType DEF TInv
  <1>5. Slots(Rounds)' = Slots(Rounds)
    BY <1>1 DEF Slots
  <1>6. CASE Taken
    <2> HIDE DEF hsz
    <2>1. CASE val >= 0
      <3>1. j' = Index(j + 1) /\ j + 1 \in Int /\ j + 1 >= 0
        BY <1>3, <1>4, <1>6, <2>1 DEF Probe
      <3>2. j' \in Slots(Rounds) /\ j' \in Int
        BY <1>4, <3>1, IndexType
      <3>3. QED
        BY <1>1, <1>2, <1>3, <1>5, <1>6, <2>1, <3>2 DEF TInv, TableTypes, Probe
    <2>2. CASE val < 0
      <3>1. j' = Index(val + 1) /\ val + 1 \in Int /\ val + 1 <= 0
        BY <1>3, <1>6, <2>2 DEF Probe
      <3>2. j' \in Int /\ (j' < 0 \/ j' = 0) /\ 0 \in Slots(Rounds)
        BY <1>4, <3>1, IndexType
      <3>3. QED
        BY <1>1, <1>2, <1>3, <1>5, <1>6, <2>2, <3>2 DEF TInv, TableTypes, Probe
    <2>3. QED
      BY <1>3, <2>1, <2>2
  <1>7. CASE ~ Taken
    BY <1>1, <1>2, <1>3, <1>7 DEF TInv, TableTypes, Probe, Slots, Slot
  <1>8. QED
    BY <1>6, <1>7

LEMMA CalibrationTypes ==
  ASSUME TInv, Unflushed \/ Flushed
  PROVE  TInv'
  <1>1. phase \in {"unflushed", "flushed"} /\ j = Null /\ phase \in Counting
    BY DEF Unflushed, Flushed, Counted
  <1>2. Average \in Nat \cup {Null}
    <2>1. hist \in [0 .. hsz - 1 -> Slot] /\ hsz - 1 \in Int
      BY <1>1, RoundsType DEF TInv, TableTypes
    <2>2. QED
      BY <2>1, AverageType
  <1>3. CASE Unflushed
    <2>1. Table(CalRounds) \in [Slots(CalRounds) -> Slot]
      BY EmptyTable, TimingAssumption
    <2>2. Types'
      BY <1>2, <1>3 DEF TInv, Types, Unflushed, Untested, Kinds, config, machine, sums
    <2>3. QED
      BY <1>1, <1>3, <2>1, <2>2 DEF TInv, TableTypes, Unflushed, Rounds, Counting
  <1>4. CASE Flushed
    <2>1. threshold' \in Nat \cup {-1}
      <3>1. CASE Null \in {unflushed, Average}
        BY <1>4, <3>1, TimingAssumption DEF Flushed
      <3>2. CASE Null \notin {unflushed, Average}
        <4>1. Average \in Nat /\ unflushed \in Nat
          BY <1>2, <3>2 DEF TInv, Types
        <4>2. Average + unflushed * 2 \in Nat
          BY <4>1
        <4>3. (Average + unflushed * 2) \div 3 \in Nat
          BY <4>2, Quotient
        <4>4. threshold' \in {-1, (Average + unflushed * 2) \div 3}
          BY <1>4, <3>2 DEF Flushed
        <4>5. QED
          BY <4>3, <4>4
      <3>3. QED
        BY <3>1, <3>2
    <2>2. phase' = IF threshold' < 0 THEN "done" ELSE "ready"
      BY <1>4 DEF Flushed
    <2>3. Types'
      BY <1>4, <2>1, <2>2 DEF TInv, Types, Flushed, Untested, Kinds, config, machine,
                              sums
    <2>4. QED
      BY <1>1, <1>4, <2>2, <2>3 DEF TInv, TableTypes, Flushed, Counting
  <1>5. QED
    BY <1>3, <1>4

LEMMA BeginTypes ==
  ASSUME TInv, Begin
  PROVE  TInv'
  <1>1. rep' \in Nat /\ rep' # 0 /\ quarters' \in Int
    BY TimingAssumption DEF Begin
  <1>2. phase' \in Kinds /\ phase = "ready"
    BY DEF Begin
  <1>3. delta' \in [Measured -> Int]'
    BY DEF Begin, Measured
  <1>4. Types'
    BY <1>1, <1>2, <1>3 DEF TInv, Types, Begin, Untested, Kinds, machine
  <1>5. phase' = "tests" => hist' \in [Slots(rep') -> Slot]
    BY <1>1, EmptyTable DEF Begin
  <1>6. j = Null /\ j' = Null /\ val' = val
    BY DEF TInv, TableTypes, Begin, Counting
  <1>7. QED
    BY <1>2, <1>4, <1>5, <1>6 DEF TInv, TableTypes, Rounds, Kinds, Counting

LEMMA AddUpTypes ==
  ASSUME TInv, AddUp
  PROVE  TInv'
  <1>1. PICK t \in [Measured -> Access(Missing)] :
           delta' = [e \in Measured |->
                       delta[e] + IF Kept(t[e]) THEN t[e] ELSE 0]
    BY DEF AddUp
  <1>2. \A e \in Measured : t[e] \in Int
    BY AccessType DEF TInv
  <1>3. delta \in [Measured -> Int]
    BY DEF TInv, Types, AddUp, Kinds
  <1>4. Rounds' = Rounds /\ Measured' = Measured
    BY SameRounds DEF AddUp, config
  <1>5. delta' \in [Measured -> Int]
    BY <1>1, <1>2, <1>3
  <1>6. Types'
    BY <1>4, <1>5 DEF TInv, Types, AddUp, Untested, Kinds, config, machine
  <1>7. QED
    BY <1>4, <1>6 DEF TInv, TableTypes, AddUp, Counting, table

LEMMA EndTypes ==
  ASSUME TInv, Tests \/ Avg \/ Time \/ WriteOutside
  PROVE  TInv'
  <1>1. UNCHANGED <<machine, config, threshold, unflushed, i, table, sums>>
    BY DEF Tests, Avg, Time, WriteOutside
  <1>2. \/ phase' = "done" /\ phase \in Kinds /\ (phase = "tests" => j = Null)
        \/ phase' = "wild" /\ answer' = answer /\ j # Null /\ j < 0
    BY DEF Tests, Avg, Time, WriteOutside, Counted, Kinds
  <1>3. answer # Null => phase = "done"
    BY DEF TInv, Types
  <1>4. phase \in Kinds \cup Counting \cup {"wild"}
    BY DEF Tests, Avg, Time, WriteOutside, TInv, TableTypes, Kinds
  <1>5. Types'
    BY <1>1, <1>2, <1>3, <1>4 DEF TInv, Types, Untested, Kinds, Counting, config,
                                  machine, sums
  <1>6. phase' \notin Counting /\ val' = val /\ j' = j
    BY <1>1, <1>2 DEF Counting, table
  <1>7. CASE phase' = "done"
    <2>1. j = Null
      BY <1>2, <1>7 DEF TInv, TableTypes, Kinds, Counting
    <2>2. QED
      BY <1>5, <1>6, <2>1 DEF TInv, TableTypes
  <1>8. CASE phase' = "wild"
    <2>1. j # Null /\ j < 0
      BY <1>2, <1>8
    <2>2. j \in Int /\ val < Outlier /\ val < 0
      BY <2>1 DEF TInv, TableTypes, Slots
    <2>3. QED
      BY <1>5, <1>6, <1>8, <2>1, <2>2 DEF TInv, TableTypes
  <1>9. QED
    BY <1>2, <1>7, <1>8

LEMMA StutterTypes ==
  ASSUME TInv, UNCHANGED vars
  PROVE  TInv'
  <1>1. Rounds' = Rounds /\ Measured' = Measured
    BY SameRounds DEF vars, config
  <1>2. QED
    BY <1>1 DEF TInv, Types, TableTypes, vars, machine, config, table, sums

LEMMA NextTypes ==
  ASSUME TInv, [Next]_vars
  PROVE  TInv'
  BY MeasureTypes, ProbeTypes, CalibrationTypes, BeginTypes, AddUpTypes, EndTypes,
     StutterTypes DEF Next

-----------------------------------------------------------------------------
(* While a test runs, a value above the threshold that is in the table, or *)
(* on its way there, was noted in `slow'; and what was not noted has added *)
(* at most the threshold in every round.                                   *)
Noted ==
  phase = "tests" =>
    /\ \A s \in DOMAIN hist :
         hist[s].count > 0 /\ hist[s].val > threshold => slow # {}
    /\ j # Null /\ val > threshold => slow # {}

Bounded ==
  phase \in {"avg", "time"} =>
    /\ slow \subseteq Measured
    /\ \A e \in Measured \ slow : delta[e] <= i * threshold

EInv == TInv /\ Noted /\ Bounded /\ PositiveIsEarned

LEMMA InitEarned == Init => EInv
  <1> SUFFICES ASSUME Init PROVE EInv
    OBVIOUS
  <1>1. phase \notin Kinds /\ answer = Null
    BY DEF Init, Kinds
  <1>2. QED
    BY <1>1, InitTypes, TimingAssumption
       DEF EInv, Noted, Bounded, PositiveIsEarned, Kinds

LEMMA NoAnswerYet ==
  ASSUME TInv, phase # "done"
  PROVE  answer = Null /\ answer # TRUE
  BY TimingAssumption DEF TInv, Types

LEMMA MeasureEarned ==
  ASSUME EInv, Measure
  PROVE  EInv'
  <1>1. TInv' /\ TInv
    BY MeasureTypes DEF EInv
  <1>2. PICK t \in Access(Missing) :
           /\ val' = t
           /\ j' = IF t >= Outlier THEN Null ELSE Index(t)
           /\ IF phase = "tests"
                THEN /\ log' = Append(log, t)
                     /\ slow' = IF t < Outlier /\ t > threshold
                                  THEN {Victim} ELSE slow
                ELSE UNCHANGED <<log, slow>>
    BY DEF Measure
  <1>3. t \in Int /\ Outlier \in Nat /\ threshold \in Int
    BY <1>1, AccessType, TimingAssumption DEF TInv, Types
  <1>4. phase \in Counting /\ phase' = phase /\ hist' = hist /\ threshold' = threshold
        /\ answer' = answer
    BY DEF Measure
  <1>5. Noted'
    <2> SUFFICES ASSUME phase = "tests" PROVE Noted'
      BY <1>4 DEF Noted
    <2>1. slow # {} => slow' # {}
      BY <1>2
    <2>2. j' # Null /\ t > threshold => slow' # {}
      <3>1. j' # Null => t < Outlier
        BY <1>2, <1>3
      <3>2. t < Outlier /\ t > threshold => slow' = {Victim}
        BY <1>2
      <3>3. QED
        BY <3>1, <3>2
    <2>3. QED
      BY <1>2, <1>4, <2>1, <2>2 DEF Noted, EInv
  <1>6. Bounded' /\ PositiveIsEarned'
    BY <1>1, <1>4, NoAnswerYet DEF Counting, Bounded, PositiveIsEarned
  <1>7. QED
    BY <1>1, <1>5, <1>6 DEF EInv

LEMMA ProbeEarned ==
  ASSUME EInv, Probe
  PROVE  EInv'
  <1>1. TInv' /\ TInv
    BY ProbeTypes DEF EInv
  <1>2. phase \in Counting /\ j \in Int /\ j # Null
    BY <1>1 DEF TInv, TableTypes, Probe
  <1>3. UNCHANGED <<config, phase, threshold, val, sums, answer>>
    BY DEF Probe
  <1>4. Noted'
    <2> SUFFICES ASSUME phase = "tests" PROVE Noted'
      BY <1>3 DEF Noted
    <2>1. CASE Taken
      BY <1>2, <1>3, <2>1 DEF Noted, EInv, Probe, sums
    <2>2. CASE ~ Taken
      <3>1. /\ hist' = [hist EXCEPT ![j] = [val |-> val, count |-> hist[j].count + 1]]
            /\ j' = Null
        BY <2>2 DEF Probe
      <3>2. slow' = slow /\ threshold' = threshold /\ val' = val
        BY <1>3 DEF sums
      <3>3. ASSUME NEW s \in DOMAIN hist', hist'[s].count > 0, hist'[s].val > threshold
            PROVE  slow # {}
        <4>1. CASE s = j
          BY <1>2, <3>1, <3>3, <4>1 DEF Noted, EInv
        <4>2. CASE s # j
          BY <3>1, <3>3, <4>2 DEF Noted, EInv
        <4>3. QED
          BY <4>1, <4>2
      <3>4. QED
        BY <3>1, <3>2, <3>3 DEF Noted
    <2>3. QED
      BY <2>1, <2>2
  <1>5. Bounded' /\ PositiveIsEarned'
    BY <1>1, <1>2, <1>3, NoAnswerYet DEF Counting, Bounded, PositiveIsEarned
  <1>6. QED
    BY <1>1, <1>4, <1>5 DEF EInv

LEMMA BeginEarned ==
  ASSUME EInv, Begin
  PROVE  EInv'
  <1>1. TInv' /\ TInv
    BY BeginTypes DEF EInv
  <1>2. /\ phase = "ready" /\ phase' \in Kinds
        /\ slow = {} /\ slow' = {} /\ i = 0 /\ i' = 0 /\ threshold' = threshold
        /\ j = Null /\ j' = Null /\ answer' = answer /\ threshold \in Int
    BY <1>1 DEF Begin, TInv, Types, TableTypes, Untested, Counting
  <1>3. Noted'
    BY <1>2 DEF Noted, Begin, Table
  <1>4. Bounded'
    <2>1. \A e \in Measured' : delta'[e] = 0
      BY DEF Begin, Measured
    <2>2. QED
      BY <1>2, <2>1 DEF Bounded
  <1>5. PositiveIsEarned'
    BY <1>1, <1>2, NoAnswerYet DEF PositiveIsEarned
  <1>6. QED
    BY <1>1, <1>3, <1>4, <1>5 DEF EInv

LEMMA AddUpEarned ==
  ASSUME EInv, AddUp
  PROVE  EInv'
  <1>1. TInv' /\ TInv
    BY AddUpTypes DEF EInv
  <1>2. PICK t \in [Measured -> Access(Missing)] :
           /\ delta' = [e \in Measured |->
                          delta[e] + IF Kept(t[e]) THEN t[e] ELSE 0]
           /\ slow' = slow \cup {e \in Measured :
                         t[e] > threshold /\ (phase = "time" \/ t[e] < Outlier)}
    BY DEF AddUp
  <1>3. \A e \in Measured : t[e] \in Int
    BY <1>1, AccessType DEF TInv
  <1>4. /\ phase \in {"avg", "time"} /\ phase' = phase /\ Measured' = Measured
        /\ threshold' = threshold /\ i' = i + 1 /\ answer' = answer
    BY SameRounds DEF AddUp, config
  <1>5. threshold \in Nat /\ i \in Nat /\ Outlier \in Nat /\ delta \in [Measured -> Int]
    BY <1>1, <1>4, TimingAssumption DEF TInv, Types, Kinds
  <1>6. (i + 1) * threshold = i * threshold + threshold /\ i * threshold \in Int
    BY <1>5, OneMore
  <1>7. ASSUME NEW e \in Measured \ slow'
        PROVE  delta'[e] <= (i + 1) * threshold
    <2>1. e \notin slow /\ delta[e] <= i * threshold
      BY <1>2, <1>4, <1>7 DEF EInv, Bounded
    <2> DEFINE d == IF Kept(t[e]) THEN t[e] ELSE 0
    <2>2. d \in Int /\ d <= threshold
      BY <1>2, <1>3, <1>4, <1>5, <1>7 DEF Kept
    <2>3. delta'[e] = delta[e] + d /\ delta[e] \in Int
      BY <1>2, <1>5
    <2> HIDE DEF d
    <2>4. QED
      BY <1>5, <1>6, <2>1, <2>2, <2>3
  <1>8. slow' \subseteq Measured
    BY <1>2, <1>4 DEF EInv, Bounded
  <1>9. Bounded'
    BY <1>4, <1>7, <1>8 DEF Bounded
  <1>10. Noted' /\ PositiveIsEarned'
    BY <1>1, <1>4, NoAnswerYet DEF Noted, PositiveIsEarned
  <1>11. QED
    BY <1>1, <1>9, <1>10 DEF EInv

(* The sum of hist_q() is positive only if there is something in it.       *)
LEMMA MissesCounted ==
  ASSUME TInv, phase = "tests"
  PROVE  /\ Misses \in Nat
         /\ Misses # 0 => \E s \in DOMAIN hist :
                            hist[s].count > 0 /\ hist[s].val > threshold
  <1> DEFINE S == {s \in DOMAIN hist : hist[s].count > 0 /\ Above(hist[s].val)}
  <1>1. IsFiniteSet(S)
    <2>1. hist \in [0 .. hsz - 1 -> Slot] /\ hsz - 1 \in Int
      BY RoundsType DEF TInv, TableTypes, Counting
    <2>2. QED
      BY <2>1, FiniteSlots, FS_Subset
  <1>2. \A s \in S : Counts[s] \in Nat
    BY DEF TInv, TableTypes, Counting, Counts, Slot
  <1>3. Misses = SumFunctionOnSet(Counts, S)
    BY DEF Misses
  <1>4. S = {} => Misses = 0
    BY <1>1, <1>3, SumEquation
  <1>5. S # {} => \E s \in DOMAIN hist : hist[s].count > 0 /\ hist[s].val > threshold
    BY DEF Above
  <1> HIDE DEF S
  <1>6. QED
    BY <1>1, <1>2, <1>3, <1>4, <1>5, SumType

LEMMA TestsEarned ==
  ASSUME EInv, Tests
  PROVE  PositiveIsEarned'
  <1>1. /\ phase = "tests" /\ answer' = (Misses > Enough)
        /\ UNCHANGED <<quarters, delta, slow, rep>>
    BY DEF Tests, config, sums
  <1>2. delta \in [{Victim} -> Int] /\ quarters \in Int /\ rep \in Nat
    BY <1>1 DEF EInv, TInv, Types, Measured, Kinds
  <1>3. ASSUME quarters >= 0, answer' = TRUE PROVE slow # {}
    <2>1. quarters * rep \in Nat
      BY <1>2, <1>3
    <2>2. (quarters * rep) \div 4 \in Nat
      BY <2>1, Quotient
    <2>3. Enough \in Nat
      BY <1>2, <1>3, <2>2 DEF Enough
    <2>4. Misses \in Nat /\ Misses > Enough
      BY <1>1, <1>3, MissesCounted DEF EInv
    <2>5. Misses # 0
      BY <2>3, <2>4
    <2>6. QED
      BY <1>1, <2>5, MissesCounted DEF EInv, Noted
  <1>4. QED
    BY <1>1, <1>2, <1>3 DEF PositiveIsEarned

LEMMA AvgEarned ==
  ASSUME EInv, Avg
  PROVE  PositiveIsEarned'
  <1>1. /\ phase = "avg" /\ i = rep /\ UNCHANGED <<quarters, delta, slow, rep>>
        /\ answer' \in IF delta[Victim] < 0 THEN BOOLEAN
                       ELSE {Above(delta[Victim] \div rep)}
    BY DEF Avg, config, sums
  <1>2. /\ delta \in [{Victim} -> Int] /\ rep \in Nat \ {0} /\ threshold \in Int
        /\ Measured = {Victim}
    BY <1>1 DEF EInv, TInv, Types, Measured, Kinds
  <1>3. ASSUME delta[Victim] >= 0, slow = {} PROVE answer' # TRUE
    <2>1. delta[Victim] <= rep * threshold
      BY <1>1, <1>2, <1>3 DEF EInv, Bounded
    <2>2. delta[Victim] \div rep <= threshold /\ delta[Victim] \div rep \in Int
      BY <1>2, <1>3, <2>1, QuotientBound, Quotient
    <2>3. ~ Above(delta[Victim] \div rep)
      BY <1>2, <2>2 DEF Above
    <2>4. answer' = Above(delta[Victim] \div rep)
      BY <1>1, <1>2, <1>3
    <2>5. QED
      BY <2>3, <2>4, Zenon
  <1>4. QED
    BY <1>1, <1>2, <1>3 DEF PositiveIsEarned

LEMMA TimeEarned ==
  ASSUME EInv, Time
  PROVE  PositiveIsEarned'
  <1> DEFINE Late == {e \in Lines : Above(delta[e] \div rep)}
  <1>1. /\ phase = "time" /\ i = rep /\ UNCHANGED <<delta, slow>>
        /\ answer' = (Cardinality(Late) > Ways)
    BY DEF Time, config, sums
  <1>2. /\ delta \in [Lines -> Int] /\ rep \in Nat \ {0} /\ threshold \in Int
        /\ Measured = Lines /\ IsFiniteSet(Lines) /\ Ways \in Nat
    BY <1>1, TimingAssumption DEF EInv, TInv, Types, Measured, Kinds
  <1>3. Late \subseteq slow
    <2> SUFFICES ASSUME NEW e \in Lines, e \notin slow
                 PROVE  ~ Above(delta[e] \div rep)
      OBVIOUS
    <2>1. delta[e] <= rep * threshold
      BY <1>1, <1>2 DEF EInv, Bounded
    <2>2. delta[e] \div rep <= threshold /\ delta[e] \div rep \in Int
      BY <1>2, <2>1, QuotientBound
    <2>3. QED
      BY <1>2, <2>2 DEF Above
  <1>4. slow \subseteq Lines
    BY <1>1, <1>2 DEF EInv, Bounded
  <1>5. /\ IsFiniteSet(slow) /\ Cardinality(Late) <= Cardinality(slow)
        /\ Cardinality(slow) \in Nat /\ Cardinality(Late) \in Nat
    BY <1>2, <1>3, <1>4, FS_Subset, FS_CardinalityType
  <1> HIDE DEF Late
  <1>6. answer' = TRUE => Cardinality(slow) > Ways /\ slow # {}
    <2>1. answer' = TRUE => Cardinality(Late) > Ways
      BY <1>1, Zenon
    <2>2. Cardinality(Late) > Ways => Cardinality(slow) > Ways /\ Cardinality(slow) # 0
      BY <1>2, <1>5
    <2>3. QED
      BY <1>5, <2>1, <2>2, FS_EmptySet
  <1>7. QED
    BY <1>1, <1>6 DEF PositiveIsEarned

LEMMA NextEarned ==
  ASSUME EInv, [Next]_vars
  PROVE  EInv'
  <1>1. TInv /\ TInv'
    BY NextTypes DEF EInv
  <1>2. CASE Measure
    BY <1>2, MeasureEarned
  <1>3. CASE Probe
    BY <1>3, ProbeEarned
  <1>4. CASE WriteOutside \/ Unflushed \/ Flushed
    <2>1. phase # "done" /\ phase' \notin Kinds /\ answer' = answer
      BY <1>1, <1>4 DEF WriteOutside, Unflushed, Flushed, TInv, TableTypes, Kinds,
                        Counting
    <2>2. QED
      BY <1>1, <2>1, NoAnswerYet DEF EInv, Noted, Bounded, PositiveIsEarned, Kinds
  <1>5. CASE Begin
    BY <1>5, BeginEarned
  <1>6. CASE Tests \/ Avg \/ Time
    <2>1. phase' = "done"
      BY <1>6 DEF Tests, Avg, Time
    <2>2. QED
      BY <1>1, <1>6, <2>1, TestsEarned, AvgEarned, TimeEarned DEF EInv, Noted, Bounded
  <1>7. CASE AddUp
    BY <1>7, AddUpEarned
  <1>8. CASE UNCHANGED vars
    <2>1. Measured' = Measured
      BY <1>8, SameRounds DEF vars, config
    <2>2. QED
      BY <1>1, <1>8, <2>1 DEF EInv, Noted, Bounded, PositiveIsEarned, vars, config, table,
                              sums
  <1>9. QED
    BY <1>2, <1>3, <1>4, <1>5, <1>6, <1>7, <1>8 DEF Next

(* A positive answer has a cause, whatever is measured, in a table of any  *)
(* size: some time above the threshold that is no outlier, or one for each *)
(* of more than Ways lines -- unless the ratio is below zero or a sum is   *)
(* negative.                                                               *)
THEOREM AnswersAreEarned == Spec => []PositiveIsEarned
  <1>1. Init => EInv
    BY InitEarned
  <1>2. EInv /\ [Next]_vars => EInv'
    BY NextEarned
  <1>3. EInv => PositiveIsEarned
    BY DEF EInv
  <1>4. QED
    BY <1>1, <1>2, <1>3, PTL DEF Spec

-----------------------------------------------------------------------------
(* What a table holds for a time, and how often a time was measured.       *)
CountsOf(h) == [s \in DOMAIN h |-> h[s].count]
Holds(h, P) == SumFunctionOnSet(CountsOf(h), {s \in DOMAIN h : h[s].val \in P})
Among(l, P) == Cardinality({k \in DOMAIN l : l[k] \in P})

LEMMA SumZero ==
  ASSUME NEW f, NEW S, IsFiniteSet(S), \A x \in S : f[x] = 0
  PROVE  SumFunctionOnSet(f, S) = 0
  <1>1. CASE S = {}
    BY <1>1, SumEquation
  <1>2. CASE S # {}
    <2> DEFINE g == [x \in S |-> 0]
               T == {s \in SUBSET S : SumFunctionOnSet(f, s) = 0}
    <2>1. ASSUME NEW s \in SUBSET S, \A x \in s : s \ {x} \in T
          PROVE  s \in T
      <3>1. SumFunctionOnSet(f, s) = IF s = {} THEN 0
              ELSE f[Pick(s)] + SumFunctionOnSet(f, s \ {Pick(s)})
        BY SumEquation, FS_Subset
      <3>2. s # {} => f[Pick(s)] = 0 /\ SumFunctionOnSet(f, s \ {Pick(s)}) = 0
        BY <2>1, Picked
      <3>3. QED
        BY <3>1, <3>2
    <2>2. S \in T
      <3>1. \A s \in SUBSET S : (\A x \in s : s \ {x} \in T) => s \in T
        BY <2>1
      <3>2. S \in SUBSET S
        OBVIOUS
      <3> HIDE DEF T
      <3>3. QED
        BY <3>1, <3>2, EverySubset, Zenon
    <2>3. QED
      BY <2>2
  <1>3. QED
    BY <1>1, <1>2

(* Two functions that differ at most in k, and two sets that do as well.   *)
Part(f, A, k) == IF k \in A THEN f[k] ELSE 0

LEMMA SumWithout ==
  ASSUME NEW f, NEW A, NEW k, IsFiniteSet(A), \A x \in A : f[x] \in Nat
  PROVE  /\ SumFunctionOnSet(f, A) \in Nat /\ SumFunctionOnSet(f, A \ {k}) \in Nat
         /\ SumFunctionOnSet(f, A)
              = SumFunctionOnSet(f, A \ {k}) + Part(f, A, k)
  <1>1. SumFunctionOnSet(f, A) \in Nat
    BY SumType
  <1>2. SumFunctionOnSet(f, A \ {k}) \in Nat
    <2>1. IsFiniteSet(A \ {k}) /\ \A x \in A \ {k} : f[x] \in Nat
      BY FS_Subset
    <2>2. QED
      BY <2>1, SumType
  <1>3. CASE k \in A
    <2>1. SumFunctionOnSet(f, A) = f[k] + SumFunctionOnSet(f, A \ {k})
      BY <1>3, SumSplit
    <2>2. QED
      BY <1>1, <1>2, <1>3, <2>1 DEF Part
  <1>4. CASE k \notin A
    <2>1. A \ {k} = A
      BY <1>4
    <2>2. QED
      BY <1>1, <1>4, <2>1 DEF Part
  <1>5. QED
    BY <1>3, <1>4

AlikeBut(k, f, A, g, B) ==
  /\ IsFiniteSet(A) /\ IsFiniteSet(B) /\ A \ {k} = B \ {k}
  /\ (\A x \in A : f[x] \in Nat) /\ (\A x \in B : g[x] \in Nat)
  /\ \A x \in A \ {k} : f[x] = g[x]

LEMMA OneSlot ==
  ASSUME NEW f, NEW g, NEW A, NEW B, NEW k, AlikeBut(k, f, A, g, B)
  PROVE  /\ SumFunctionOnSet(f, A) \in Nat /\ SumFunctionOnSet(g, B) \in Nat
         /\ SumFunctionOnSet(f, A) - Part(f, A, k)
              = SumFunctionOnSet(g, B) - Part(g, B, k)
  <1> USE DEF AlikeBut
  <1>1. SumFunctionOnSet(f, A \ {k}) = SumFunctionOnSet(g, A \ {k})
    <2>1. IsFiniteSet(A \ {k})
      BY FS_Subset
    <2>2. QED
      BY <2>1, SumSame
  <1>2. k \in A => f[k] \in Nat
    OBVIOUS
  <1>3. k \in B => g[k] \in Nat
    OBVIOUS
  <1> DEFINE a == SumFunctionOnSet(f, A)
             b == SumFunctionOnSet(g, B)
             r == SumFunctionOnSet(f, A \ {k})
  <1>4. a \in Nat /\ r \in Nat /\ a = r + Part(f, A, k)
    BY SumWithout
  <1>5. b \in Nat /\ b = SumFunctionOnSet(g, B \ {k}) + Part(g, B, k)
    BY SumWithout
  <1>6. b = r + Part(g, B, k)
    BY <1>1, <1>5
  <1> HIDE DEF a, b, r
  <1>7. a - Part(f, A, k) = b - Part(g, B, k)
    BY <1>2, <1>3, <1>4, <1>5, <1>6 DEF Part
  <1>8. QED
    BY <1>4, <1>5, <1>7 DEF a, b

(* One more value in slot k: what the slot held before goes with it.       *)
Add(h, k, v) == [h EXCEPT ![k] = [val |-> v, count |-> h[k].count + 1]]

Moves(h, k, v, P) ==
  /\ Holds(h, P) \in Nat /\ Holds(Add(h, k, v), P) \in Nat
  /\ Holds(h, P) - (IF h[k].val \in P THEN h[k].count ELSE 0)
       = Holds(Add(h, k, v), P) - (IF v \in P THEN h[k].count + 1 ELSE 0)

LEMMA Recorded ==
  ASSUME NEW n \in Int, NEW h \in [0 .. n -> Slot], NEW k \in 0 .. n, NEW v \in Int,
         NEW P
  PROVE  Moves(h, k, v, P)
  <1> DEFINE h2 == Add(h, k, v)
             f == CountsOf(h)
             g == CountsOf(h2)
             A == {s \in DOMAIN h : h[s].val \in P}
             B == {s \in DOMAIN h2 : h2[s].val \in P}
  <1>1. /\ h2 \in [0 .. n -> Slot] /\ h[k].count \in Nat
        /\ h2[k].val = v /\ h2[k].count = h[k].count + 1
        /\ \A s \in 0 .. n : s # k => h2[s] = h[s]
    BY DEF Slot, Add
  <1> HIDE DEF h2
  <1>2. IsFiniteSet(A) /\ IsFiniteSet(B) /\ A \ {k} = B \ {k}
    BY <1>1, FiniteSlots, FS_Subset
  <1>3. /\ \A s \in 0 .. n : f[s] = h[s].count /\ h[s].count \in Nat
        /\ \A s \in 0 .. n : g[s] = h2[s].count /\ h2[s].count \in Nat
    BY <1>1 DEF CountsOf, Slot
  <1>4. (\A x \in A : f[x] \in Nat) /\ (\A x \in B : g[x] \in Nat)
    BY <1>1, <1>3
  <1>5. \A x \in A \ {k} : f[x] = g[x]
    BY <1>1, <1>3
  <1>6. (k \in A <=> h[k].val \in P) /\ (k \in B <=> v \in P)
    BY <1>1
  <1>7. f[k] = h[k].count /\ g[k] = h[k].count + 1
    BY <1>1, <1>3
  <1>8. Holds(h, P) = SumFunctionOnSet(f, A) /\ Holds(h2, P) = SumFunctionOnSet(g, B)
    BY DEF Holds
  <1> HIDE DEF f, g, A, B
  <1>9. /\ SumFunctionOnSet(f, A) \in Nat /\ SumFunctionOnSet(g, B) \in Nat
        /\ SumFunctionOnSet(f, A) - Part(f, A, k)
             = SumFunctionOnSet(g, B) - Part(g, B, k)
    <2>1. AlikeBut(k, f, A, g, B)
      BY <1>2, <1>4, <1>5 DEF AlikeBut
    <2>2. QED
      BY <2>1, OneSlot
  <1>10. QED
    BY <1>6, <1>7, <1>8, <1>9 DEF h2, Part, Moves

LEMMA RecordedInAll ==
  ASSUME NEW n \in Int, NEW h \in [0 .. n -> Slot], NEW k \in 0 .. n, NEW v \in Int
  PROVE  /\ SumFunction(CountsOf(h)) \in Nat
         /\ SumFunction(CountsOf(Add(h, k, v))) = SumFunction(CountsOf(h)) + 1
  <1> DEFINE h2 == Add(h, k, v)
             D == 0 .. n
             f == CountsOf(h)
             g == CountsOf(h2)
  <1>1. IsFiniteSet(D) /\ k \in D
    BY FiniteSlots
  <1>2. h2 \in [0 .. n -> Slot]
    BY DEF Slot, Add
  <1>3. /\ \A s \in D : f[s] \in Nat /\ g[s] \in Nat
        /\ \A s \in D \ {k} : f[s] = g[s]
        /\ g[k] = f[k] + 1
    BY DEF CountsOf, Slot, Add
  <1>4. SumFunction(f) = SumFunctionOnSet(f, D) /\ SumFunction(g) = SumFunctionOnSet(g, D)
    BY <1>2 DEF SumFunction, CountsOf
  <1> HIDE DEF D, h2, f, g
  <1>5. /\ SumFunctionOnSet(f, D) \in Nat /\ SumFunctionOnSet(g, D) \in Nat
        /\ SumFunctionOnSet(f, D) - Part(f, D, k)
             = SumFunctionOnSet(g, D) - Part(g, D, k)
    <2>1. AlikeBut(k, f, D, g, D)
      BY <1>1, <1>3 DEF AlikeBut
    <2>2. QED
      BY <2>1, OneSlot
  <1>6. f[k] \in Nat
    BY <1>1, <1>3
  <1>7. SumFunction(f) \in Nat /\ SumFunction(g) = SumFunction(f) + 1
    BY <1>1, <1>3, <1>4, <1>5, <1>6 DEF Part
  <1>8. QED
    BY <1>7 DEF f, g, h2

LEMMA Appended ==
  ASSUME NEW l \in Seq(Int), NEW t \in Int, NEW P
  PROVE  /\ Among(l, P) \in Nat
         /\ Among(Append(l, t), P) = Among(l, P) + IF t \in P THEN 1 ELSE 0
  <1> DEFINE m == Append(l, t)
             A == {k \in DOMAIN l : l[k] \in P}
             B == {k \in DOMAIN m : m[k] \in P}
             e == Len(l) + 1
  <1>1. /\ Len(l) \in Nat /\ DOMAIN l = 1 .. Len(l)
        /\ DOMAIN m = 1 .. Len(l) + 1 /\ m[Len(l) + 1] = t
        /\ \A k \in 1 .. Len(l) : m[k] = l[k]
    OBVIOUS
  <1>2. IsFiniteSet(A) /\ Cardinality(A) \in Nat
    <2>1. IsFiniteSet(1 .. Len(l)) /\ A \subseteq 1 .. Len(l)
      BY <1>1, FS_Interval
    <2> HIDE DEF A
    <2>2. QED
      BY <2>1, FS_Subset, FS_CardinalityType
  <1> HIDE DEF m
  <1>3. B = IF t \in P THEN A \cup {e} ELSE A
    BY <1>1
  <1>4. e \notin A
    BY <1>1
  <1>5. Cardinality(B) = Cardinality(A) + IF t \in P THEN 1 ELSE 0
    <2> HIDE DEF A, B, e
    <2>1. Cardinality(A \cup {e}) = Cardinality(A) + 1
      BY <1>2, <1>4, FS_AddElement
    <2>2. QED
      BY <1>2, <1>3, <2>1
  <1>6. QED
    BY <1>2, <1>5 DEF Among, m

LEMMA InEmptyTable ==
  ASSUME NEW n \in Nat \ {0}, NEW P
  PROVE  Holds(Table(n), P) = 0 /\ SumFunction(CountsOf(Table(n))) = 0
  <1> DEFINE h == Table(n)
             D == 0 .. n * SlotsPerRound - 1
             A == {s \in DOMAIN h : h[s].val \in P}
  <1>1. DOMAIN h = D /\ DOMAIN CountsOf(h) = D /\ \A s \in D : CountsOf(h)[s] = 0
    BY DEF Table, CountsOf
  <1>2. IsFiniteSet(D)
    BY TimingAssumption, FiniteSlots
  <1> HIDE DEF h, D
  <1>3. IsFiniteSet(A) /\ A \subseteq D
    BY <1>1, <1>2, FS_Subset
  <1>4. SumFunctionOnSet(CountsOf(h), A) = 0
    <2> HIDE DEF A
    <2>1. QED
      BY <1>1, <1>3, SumZero
  <1>5. SumFunctionOnSet(CountsOf(h), D) = 0
    BY <1>1, <1>2, SumZero
  <1>6. QED
    BY <1>1, <1>4, <1>5 DEF SumFunction, Holds, h

-----------------------------------------------------------------------------
(* Between the measurement of a value and its slot the table is one short. *)
Pending(P) == IF j # Null /\ val \in P THEN 1 ELSE 0
Low == {t \in Int : t <= 0}
Kind == {t \in Int : t < Outlier}
Size == 1 .. Outlier - 1

Total == SumFunction(CountsOf(hist)) + (IF j = Null THEN 0 ELSE 1) = Among(log, Kind)

(* No measurement is missing, and what a time has too many are zeros, or   *)
(* times below zero.                                                       *)
NoneMissing(u) == Among(log, {u}) <= Holds(hist, {u}) + Pending({u})
LowAtMost(u) ==
  Holds(hist, {u}) + Pending({u}) + Holds(hist, Low) + Pending(Low)
    <= Among(log, {u}) + Among(log, Low)

(* With as many slots as there are times, every time has its own.          *)
OwnSlot ==
  /\ \A s \in DOMAIN hist : \/ hist[s].count = 0 /\ hist[s].val = 0
                            \/ hist[s].val = s
                            \/ s = 0 /\ hist[s].val < 0
  /\ j # Null /\ j >= 0 => j = val \/ (j = 0 /\ val < 0)
Exactly(u) == Holds(hist, {u}) + Pending({u}) <= Among(log, {u})

Booked == /\ Total
          /\ \A u \in Size : NoneMissing(u) /\ LowAtMost(u)
          /\ Outlier <= hsz => OwnSlot /\ \A u \in Size : Exactly(u)

HInv == TInv /\ (phase = "tests" => Booked)

LEMMA BeginBooked ==
  ASSUME TInv, Begin, phase' = "tests"
  PROVE  Booked'
  <1>1. /\ j = Null /\ j' = Null /\ log = <<>> /\ log' = <<>>
        /\ hist' = Table(rep') /\ rep' \in Nat \ {0}
    BY TimingAssumption DEF Begin, TInv, Types, TableTypes, Untested, Counting
  <1>2. \A P : Among(<<>>, P) = 0
    <2> SUFFICES ASSUME NEW P PROVE Among(<<>>, P) = 0
      OBVIOUS
    <2>1. {k \in DOMAIN <<>> : <<>>[k] \in P} = {}
      OBVIOUS
    <2>2. QED
      BY <2>1, FS_EmptySet DEF Among
  <1>3. /\ \A P : Holds(hist', P) = 0
        /\ SumFunction(CountsOf(hist')) = 0
    BY <1>1, InEmptyTable
  <1>4. Total'
    BY <1>1, <1>2, <1>3 DEF Total
  <1>5. \A u : (NoneMissing(u) /\ LowAtMost(u) /\ Exactly(u))'
    BY <1>1, <1>2, <1>3 DEF NoneMissing, LowAtMost, Exactly, Pending, Low
  <1>6. OwnSlot'
    BY <1>1 DEF OwnSlot, Table
  <1>7. QED
    BY <1>4, <1>5, <1>6 DEF Booked

LEMMA LogType ==
  ASSUME TInv, NEW P
  PROVE  Among(log, P) \in Nat
  BY Appended DEF TInv, Types

LEMMA HoldsType ==
  ASSUME TInv, phase = "tests", NEW P
  PROVE  Holds(hist, P) \in Nat /\ SumFunction(CountsOf(hist)) \in Nat
  <1>1. hist \in [0 .. hsz - 1 -> Slot] /\ hsz - 1 \in Int /\ 0 \in 0 .. hsz - 1
    BY RoundsType DEF TInv, TableTypes, Counting
  <1>2. QED
    BY <1>1, Recorded, RecordedInAll DEF Moves

LEMMA MeasureBooked ==
  ASSUME TInv, phase = "tests", Booked, Measure
  PROVE  Booked'
  <1>1. PICK t \in Access(Missing) :
           /\ val' = t
           /\ j' = IF t >= Outlier THEN Null ELSE Index(t)
           /\ log' = Append(log, t)
    BY DEF Measure
  <1>2. t \in Int /\ Outlier \in Nat /\ log \in Seq(Int) /\ hsz \in Nat \ {0}
    BY AccessType, RoundsType, TimingAssumption DEF TInv, Types, Counting
  <1>3. j = Null /\ hist' = hist /\ hsz' = hsz
    BY SameRounds DEF Measure, config
  <1>4. j' = Null <=> t \notin Kind
    <2>1. Index(t) # Null
      BY <1>2, IndexType, TimingAssumption
    <2>2. QED
      BY <1>1, <1>2, <2>1 DEF Kind
  <1>5. \A P : /\ Among(log, P) \in Nat
               /\ Among(log', P) = Among(log, P) + IF t \in P THEN 1 ELSE 0
    BY <1>1, <1>2, Appended
  <1>6. Total'
    <2> DEFINE T == SumFunction(CountsOf(hist))
    <2>1. T \in Nat /\ Among(log, Kind) \in Nat
      BY <1>5, HoldsType
    <2>2. T + 0 = Among(log, Kind)
      BY <1>3 DEF Booked, Total
    <2>3. T + (IF j' = Null THEN 0 ELSE 1) = Among(log', Kind)
      <3> HIDE DEF T
      <3>1. QED
        BY <1>4, <1>5, <2>1, <2>2
    <2>4. Kind' = Kind
      BY DEF Kind
    <2>5. QED
      BY <1>3, <2>3, <2>4 DEF Total
  <1>7. \A P \in SUBSET Kind :
          /\ Pending(P) = 0
          /\ Pending(P)' = IF t \in P THEN 1 ELSE 0
    BY <1>1, <1>3, <1>4 DEF Pending
  <1>8. \A P : Holds(hist, P) \in Nat
    BY HoldsType
  <1>9. ASSUME NEW u \in Size
         PROVE  NoneMissing(u)' /\ LowAtMost(u)' /\ (Exactly(u) => Exactly(u)')
    <2> DEFINE d == IF t \in {u} THEN 1 ELSE 0
               z == IF t \in Low THEN 1 ELSE 0
    <2>6. {u} \in SUBSET Kind /\ Low \in SUBSET Kind
      BY <1>2, TimingAssumption DEF Size, Kind, Low
    <2>7. Pending(Low)' = z
      BY <1>7, <2>6 DEF Low
    <2>1. /\ d \in Nat /\ z \in Nat
          /\ Pending({u}) = 0 /\ Pending({u})' = d /\ Among(log', {u}) = Among(log, {u}) + d
          /\ Pending(Low) = 0 /\ Pending(Low)' = z /\ Among(log', Low) = Among(log, Low) + z
      BY <1>5, <1>7, <2>6, <2>7
    <2> HIDE DEF d, z
    <2>2. Among(log, {u}) \in Nat /\ Among(log, Low) \in Nat
      BY <1>5
    <2>3. Holds(hist, {u}) \in Nat /\ Holds(hist, Low) \in Nat
      BY <1>8
    <2>4. NoneMissing(u) /\ LowAtMost(u)
      BY DEF Booked
    <2>5. QED
      BY <1>3, <2>1, <2>2, <2>3, <2>4 DEF NoneMissing, LowAtMost, Exactly, Low
  <1>10. Outlier <= hsz /\ OwnSlot => OwnSlot'
    <2>1. ASSUME Outlier <= hsz, j' # Null, j' >= 0
          PROVE  j' = val' \/ (j' = 0 /\ val' < 0)
      <3>1. t < Outlier /\ j' = Index(t)
        BY <1>1, <1>2, <2>1
      <3>2. ASSUME t >= 0 PROVE Index(t) = t
        <4>1. t % hsz = t
          BY <1>2, <2>1, <3>1, <3>2
        <4>2. Index(t) = t % hsz
          BY <1>2, <3>2, IndexOfNat
        <4>3. QED
          BY <4>1, <4>2, Zenon
      <3>3. t < 0 => Index(t) = t \/ Index(t) = 0
        BY <1>2, IndexType
      <3>4. QED
        BY <1>1, <1>2, <2>1, <3>1, <3>2, <3>3
    <2>2. QED
      BY <1>3, <2>1 DEF OwnSlot
  <1>11. QED
    BY <1>3, <1>6, <1>9, <1>10 DEF Booked

LEMMA ProbeBooked ==
  ASSUME TInv, phase = "tests", Booked, Probe
  PROVE  Booked'
  <1>1. /\ phase' = phase /\ log' = log /\ val' = val /\ hsz' = hsz /\ Kind' = Kind
        /\ j # Null /\ j >= 0
    BY SameRounds DEF Probe, config, sums, Kind
  <1>2. /\ hsz \in Nat \ {0} /\ hist \in [0 .. hsz - 1 -> Slot] /\ j \in 0 .. hsz - 1
        /\ val \in Int /\ val < Outlier /\ Outlier \in Nat
    <2>1. Slots(Rounds) = 0 .. hsz - 1 /\ hsz \in Nat \ {0}
      BY RoundsType DEF TInv, Counting
    <2>2. j \in Slots(Rounds) /\ val < Outlier /\ val \in Int
      BY <1>1 DEF TInv, TableTypes
    <2>3. QED
      BY <2>1, <2>2, TimingAssumption DEF TInv, TableTypes, Counting
  <1> HIDE DEF hsz
  <1>3. CASE Taken
    <2>1. j' \in {Index(val + 1), Index(j + 1)} /\ hist' = hist
      BY <1>3 DEF Probe
    <2>2. j' # Null
      <3>1. val + 1 \in Int /\ j + 1 \in Int
        BY <1>2
      <3>2. QED
        BY <1>2, <2>1, <3>1, IndexType, TimingAssumption
    <2>3. Total'
      BY <1>1, <2>1, <2>2 DEF Booked, Total
    <2>4. /\ \A u : Pending({u})' = Pending({u})
          /\ Pending(Low)' = Pending(Low)
      BY <1>1, <2>2 DEF Pending, Low
    <2>5. \A u \in Size : (NoneMissing(u) /\ LowAtMost(u))'
      BY <1>1, <2>1, <2>4 DEF Booked, NoneMissing, LowAtMost, Size, Low
    <2>6. ~ (Outlier <= hsz)
      <3> SUFFICES ASSUME Outlier <= hsz PROVE FALSE
        OBVIOUS
      <3>1. OwnSlot
        BY DEF Booked
      <3>2. /\ j = val \/ (j = 0 /\ val < 0)
            /\ hist[j].val = 0 \/ hist[j].val = j \/ (j = 0 /\ hist[j].val < 0)
        BY <1>1, <1>2, <3>1 DEF OwnSlot
      <3>3. hist[j].val > 0 /\ hist[j].val # val
        BY <1>3 DEF Taken
      <3>4. QED
        BY <1>2, <3>2, <3>3 DEF Slot
    <2>7. QED
      BY <1>1, <2>3, <2>5, <2>6 DEF Booked, Size
  <1>4. CASE ~ Taken
    <2> DEFINE c == hist[j].count
               hv == hist[j].val
    <2>1. hist' = Add(hist, j, val) /\ j' = Null
      BY <1>4 DEF Probe, Add
    <2>2. c \in Nat /\ hv \in Int /\ (hv <= 0 \/ hv = val)
      BY <1>2, <1>4 DEF Taken, Slot
    <2>3. /\ SumFunction(CountsOf(hist)) \in Nat
          /\ SumFunction(CountsOf(hist')) = SumFunction(CountsOf(hist)) + 1
      BY <1>2, <2>1, RecordedInAll
    <2>4. \A P : /\ Holds(hist, P) \in Nat /\ Holds(hist', P) \in Nat
                 /\ Holds(hist, P) - (IF hv \in P THEN c ELSE 0)
                      = Holds(hist', P) - (IF val \in P THEN c + 1 ELSE 0)
      <3>1. hsz - 1 \in Int /\ val \in Int
        BY <1>2
      <3> SUFFICES ASSUME NEW P
                   PROVE  /\ Holds(hist, P) \in Nat /\ Holds(hist', P) \in Nat
                          /\ Holds(hist, P) - (IF hv \in P THEN c ELSE 0)
                               = Holds(hist', P) - (IF val \in P THEN c + 1 ELSE 0)
        OBVIOUS
      <3>2. /\ Holds(hist, P) \in Nat /\ Holds(Add(hist, j, val), P) \in Nat
            /\ Holds(hist, P) - (IF hist[j].val \in P THEN hist[j].count ELSE 0)
                 = Holds(Add(hist, j, val), P)
                     - (IF val \in P THEN hist[j].count + 1 ELSE 0)
        <4> DEFINE n == hsz - 1
        <4>1. n \in Int /\ hist \in [0 .. n -> Slot] /\ j \in 0 .. n
          BY <1>2, <3>1
        <4> HIDE DEF n
        <4>2. Moves(hist, j, val, P)
          BY <3>1, <4>1, Recorded
        <4>3. QED
          BY <4>2 DEF Moves
      <3>3. QED
        BY <2>1, <3>2
    <2>5. Total'
      <3>1. SumFunction(CountsOf(hist)) + 1 = Among(log, Kind)
        BY <1>1 DEF Booked, Total
      <3>2. SumFunction(CountsOf(hist')) + 0 = Among(log, Kind)
        BY <2>3, <3>1
      <3>3. QED
        BY <1>1, <2>1, <3>2 DEF Total
    <2>6. /\ \A u : Pending({u})' = 0 /\ Pending({u}) = IF val = u THEN 1 ELSE 0
          /\ Pending(Low)' = 0 /\ Pending(Low) = IF val <= 0 THEN 1 ELSE 0
      BY <1>1, <1>2, <2>1 DEF Pending, Low
    <2>7. ASSUME Outlier <= hsz
          PROVE  /\ j = val \/ (j = 0 /\ val < 0)
                 /\ hv <= 0 /\ val > 0 => c = 0
      <3>1. OwnSlot
        BY <2>7 DEF Booked
      <3>2. /\ j = val \/ (j = 0 /\ val < 0)
            /\ hv = j \/ (c = 0 /\ hv = 0) \/ (j = 0 /\ hv < 0)
        BY <1>1, <1>2, <3>1 DEF OwnSlot
      <3>3. QED
        BY <1>2, <3>2
    <2>8. ASSUME Outlier <= hsz PROVE OwnSlot'
      <3>1. OwnSlot
        BY <2>8 DEF Booked
      <3>2. \A s \in DOMAIN hist : hist'[s] = IF s = j THEN [val |-> val, count |-> c + 1]
                                              ELSE hist[s]
        BY <1>2, <2>1 DEF Add
      <3>3. DOMAIN hist' = DOMAIN hist
        BY <2>1 DEF Add
      <3>4. QED
        BY <2>1, <2>7, <2>8, <3>1, <3>2, <3>3 DEF OwnSlot
    <2> HIDE DEF c, hv
    <2>9. ASSUME NEW u \in Size
          PROVE  /\ NoneMissing(u)' /\ LowAtMost(u)'
                 /\ Outlier <= hsz => Exactly(u)'
      <3> DEFINE H == Holds(hist, {u})
                 H2 == Holds(hist', {u})
                 Z == Holds(hist, Low)
                 Z2 == Holds(hist', Low)
                 N == Among(log, {u})
                 O == Among(log, Low)
      <3>1. {H, H2, Z, Z2, N, O} \subseteq Nat /\ u \in Nat /\ u # 0 /\ val \in Int
        BY <1>2, <2>4, LogType DEF Size
      <3>2. N <= H + (IF val = u THEN 1 ELSE 0)
        BY <2>6 DEF Booked, NoneMissing
      <3>3. H + (IF val = u THEN 1 ELSE 0) + Z + (IF val <= 0 THEN 1 ELSE 0) <= N + O
        BY <2>6 DEF Booked, LowAtMost
      <3>4. Outlier <= hsz => H + (IF val = u THEN 1 ELSE 0) <= N
        BY <2>6 DEF Booked, Exactly
      <3>5. /\ H - (IF hv = u THEN c ELSE 0) = H2 - (IF val = u THEN c + 1 ELSE 0)
            /\ Z - (IF hv <= 0 THEN c ELSE 0) = Z2 - (IF val <= 0 THEN c + 1 ELSE 0)
        <4>1. (hv \in Low <=> hv <= 0) /\ (val \in Low <=> val <= 0)
          BY <1>2, <2>2 DEF Low
        <4>2. (hv \in {u} <=> hv = u) /\ (val \in {u} <=> val = u)
          OBVIOUS
        <4>3. QED
          BY <2>4, <4>1, <4>2
      <3> HIDE DEF H, H2, Z, Z2, N, O
      <3>6. N <= H2 + 0
        BY <2>2, <3>1, <3>2, <3>5
      <3>7. H2 + 0 + Z2 + 0 <= N + O
        BY <2>2, <3>1, <3>3, <3>5
      <3>8. Outlier <= hsz => H2 + 0 <= N
        BY <2>2, <2>7, <3>1, <3>4, <3>5
      <3>9. Pending({u})' = 0 /\ Pending(Low)' = 0
        BY <2>6
      <3>10. QED
        BY <1>1, <3>6, <3>7, <3>8, <3>9
           DEF NoneMissing, LowAtMost, Exactly, H2, Z2, N, O, Low
    <2>10. Size' = Size
      BY DEF Size
    <2>11. QED
      BY <1>1, <2>5, <2>8, <2>9, <2>10 DEF Booked
  <1>5. QED
    BY <1>3, <1>4

LEMMA NextBooked ==
  ASSUME HInv, [Next]_vars
  PROVE  HInv'
  <1>1. TInv /\ TInv'
    BY NextTypes DEF HInv
  <1>2. CASE Measure
    BY <1>1, <1>2, MeasureBooked DEF HInv, Measure
  <1>3. CASE Probe
    BY <1>1, <1>3, ProbeBooked DEF HInv, Probe
  <1>4. CASE Begin
    BY <1>1, <1>4, BeginBooked DEF HInv
  <1>5. CASE WriteOutside \/ Unflushed \/ Flushed \/ Tests \/ AddUp \/ Avg \/ Time
    BY <1>1, <1>5
       DEF HInv, WriteOutside, Unflushed, Flushed, Tests, AddUp, Avg, Time
  <1>6. CASE UNCHANGED vars
    <2>1. hsz' = hsz
      BY <1>6, SameRounds DEF vars, config
    <2>2. QED
      BY <1>1, <1>6, <2>1 DEF HInv, vars, table, sums, Booked, Total, NoneMissing,
         LowAtMost, Exactly, OwnSlot, Pending, Kind, Size, Low
  <1>7. QED
    BY <1>2, <1>3, <1>4, <1>5, <1>6 DEF Next

(* The histogram of tests() counts what was measured, outliers apart,      *)
(* whatever the size of the table and however its slots are shared; what   *)
(* it counts too much of a time are zeros, and none if every time has its  *)
(* own slot.                                                               *)
THEOREM HistogramIsRight == Spec => []HistogramCounts
  <1>1. Init => HInv
    <2>1. Init => phase # "tests"
      BY DEF Init
    <2>2. QED
      BY <2>1, InitTypes DEF HInv
  <1>2. HInv /\ [Next]_vars => HInv'
    BY NextBooked
  <1>3. HInv => HistogramCounts
    <2> SUFFICES ASSUME HInv, phase = "tests", j = Null PROVE HistogramCounts
      BY DEF HistogramCounts
    <2>1. TInv /\ Booked
      BY DEF HInv
    <2>2. hsz \in Nat /\ Outlier \in Nat
      BY <2>1, RoundsType, TimingAssumption DEF TInv, Counting
    <2>3. Counts = CountsOf(hist)
      BY DEF Counts, CountsOf
    <2>4. SumFunction(Counts) = Cardinality({k \in DOMAIN log : log[k] < Outlier})
      <3>1. {k \in DOMAIN log : log[k] \in Kind} = {k \in DOMAIN log : log[k] < Outlier}
        BY <2>1 DEF TInv, Types, Kind
      <3>2. SumFunction(CountsOf(hist)) + 0 = Among(log, Kind)
        BY <2>1 DEF Booked, Total
      <3>3. SumFunction(CountsOf(hist)) = Among(log, Kind)
        BY <2>1, <3>2, HoldsType
      <3>4. QED
        BY <2>3, <3>1, <3>3 DEF Among
    <2>8. NoTime = Among(log, Low)
      <3>1. {k \in DOMAIN log : log[k] \in Low} = {k \in DOMAIN log : log[k] <= 0}
        BY <2>1 DEF TInv, Types, Low
      <3>2. QED
        BY <3>1 DEF NoTime, Among
    <2>5. \A u : HowOften(u) = Among(log, {u}) /\ InTable(u) = Holds(hist, {u})
      <3> SUFFICES ASSUME NEW u
                   PROVE  HowOften(u) = Among(log, {u}) /\ InTable(u) = Holds(hist, {u})
        OBVIOUS
      <3>1. {k \in DOMAIN log : log[k] = u} = {k \in DOMAIN log : log[k] \in {u}}
        OBVIOUS
      <3>2. QED
        BY <2>3, <3>1 DEF HowOften, InTable, Among, Holds
    <2>6. ASSUME NEW u \in Times \cap 1 .. Outlier - 1
          PROVE  /\ HowOften(u) <= InTable(u)
                 /\ InTable(u) <= HowOften(u)
                                    + IF hsz < Outlier THEN NoTime ELSE 0
      <3>1. /\ Among(log, {u}) \in Nat /\ Among(log, Low) \in Nat
            /\ Holds(hist, {u}) \in Nat /\ Holds(hist, Low) \in Nat
        BY <2>1, LogType, HoldsType
      <3>2. u \in Size /\ Pending({u}) = 0 /\ Pending(Low) = 0
        BY DEF Pending, Size
      <3>3. NoneMissing(u) /\ LowAtMost(u) /\ (Outlier <= hsz => Exactly(u))
        BY <2>1, <3>2 DEF Booked
      <3> HIDE DEF hsz
      <3>4. QED
        BY <2>2, <2>5, <2>8, <3>1, <3>2, <3>3 DEF NoneMissing, LowAtMost, Exactly
    <2>7. QED
      BY <2>4, <2>6 DEF HistogramCounts
  <1>4. QED
    BY <1>1, <1>2, <1>3, PTL DEF Spec

-----------------------------------------------------------------------------
(* On a quiet machine.  Every access takes the same time while the phase   *)
(* lasts, and all that is in the table are these.                          *)
Steady == IF Missing THEN miss ELSE hit

LEMMA SumScaled ==
  ASSUME NEW f, NEW g, NEW S, IsFiniteSet(S), NEW v \in Nat,
         \A x \in S : g[x] \in Nat /\ f[x] = v * g[x]
  PROVE  SumFunctionOnSet(f, S) = v * SumFunctionOnSet(g, S)
  <1> DEFINE T == {s \in SUBSET S : SumFunctionOnSet(f, s) = v * SumFunctionOnSet(g, s)}
  <1>1. ASSUME NEW s \in SUBSET S, \A x \in s : s \ {x} \in T
        PROVE  s \in T
    <2>1. IsFiniteSet(s)
      BY FS_Subset
    <2>2. CASE s = {}
      <3>1. SumFunctionOnSet(f, {}) = 0 /\ SumFunctionOnSet(g, {}) = 0
        BY SumEquation, FS_EmptySet
      <3>2. v * 0 = 0
        OBVIOUS
      <3>3. QED
        BY <2>2, <3>1, <3>2
    <2>3. CASE s # {}
      <3> DEFINE x == Pick(s)
                 a == SumFunctionOnSet(f, s \ {x})
                 b == SumFunctionOnSet(g, s \ {x})
      <3>1. x \in s
        BY <2>3, Picked
      <3>2. /\ SumFunctionOnSet(f, s) = f[x] + a
            /\ SumFunctionOnSet(g, s) = g[x] + b
        BY <2>1, <2>3, SumEquation
      <3>3. a = v * b
        BY <1>1, <3>1
      <3>4. b \in Nat
        <4>1. IsFiniteSet(s \ {x}) /\ \A y \in s \ {x} : g[y] \in Nat
          BY <2>1, FS_Subset
        <4> HIDE DEF x
        <4>2. QED
          BY <4>1, SumType
      <3>5. g[x] \in Nat /\ f[x] = v * g[x]
        BY <3>1
      <3> HIDE DEF x, a, b
      <3>6. v * (g[x] + b) = v * g[x] + v * b
        BY <3>4, <3>5
      <3>7. QED
        BY <3>2, <3>3, <3>5, <3>6
    <2>4. QED
      BY <2>2, <2>3
  <1>2. S \in T
    <2>1. \A s \in SUBSET S : (\A x \in s : s \ {x} \in T) => s \in T
      BY <1>1
    <2>2. S \in SUBSET S
      OBVIOUS
    <2> HIDE DEF T
    <2>3. QED
      BY <2>1, <2>2, EverySubset, Zenon
  <1>3. QED
    BY <1>2

Quiet == /\ steady /\ hit \in Int /\ miss \in Int
         /\ 0 < hit /\ hit < miss /\ miss < Outlier

OneValue ==
  /\ \A s \in DOMAIN hist : \/ hist[s].val = 0 /\ hist[s].count = 0
                            \/ hist[s].val = Steady /\ hist[s].count > 0
  /\ j # Null => val = Steady
  /\ Holds(hist, {Steady}) + (IF j = Null THEN 0 ELSE 1) = i

Between == hit <= threshold /\ threshold < miss

SInv ==
  /\ TInv
  /\ evicted \in BOOLEAN /\ calibrated \in BOOLEAN
  /\ steady => /\ Quiet
               /\ phase \in Counting => OneValue
               /\ phase = "flushed" => unflushed = hit
               /\ phase \in {"ready"} \cup Kinds /\ calibrated => Between
               /\ phase \in {"avg", "time"} =>
                    \A e \in Measured : delta[e] = i * Steady
  /\ ExactWhenSteady

LEMMA SteadyType ==
  ASSUME Quiet
  PROVE  /\ Steady \in Nat /\ Steady > 0 /\ Steady < Outlier
         /\ Access(Missing) = {Steady}
  BY TimingAssumption DEF Quiet, Steady, Access

LEMMA EmptyOneValue ==
  ASSUME NEW n \in Nat \ {0}, hist' = Table(n), j' = Null, i' = 0
  PROVE  OneValue'
  <1>1. Holds(hist', {Steady'}) = 0
    BY InEmptyTable
  <1>2. \A s \in DOMAIN hist' : hist'[s].val = 0 /\ hist'[s].count = 0
    BY DEF Table
  <1>3. QED
    BY <1>1, <1>2 DEF OneValue

LEMMA InitSteady == Init => SInv
  <1> SUFFICES ASSUME Init PROVE SInv
    OBVIOUS
  <1>1. TInv /\ answer = Null /\ phase \in {"unflushed", "ready"}
    BY InitTypes DEF Init
  <1>2. steady => Quiet
    <2>1. Outlier \in Nat /\ Times \subseteq Int
      BY TimingAssumption
    <2>2. QED
      BY <2>1 DEF Init, Quiet
  <1>3. phase \in Counting => OneValue
    <2>1. ASSUME phase \in Counting
          PROVE  hist = Table(CalRounds) /\ j = Null /\ i = 0
      BY <2>1 DEF Init, Counting
    <2>2. ASSUME phase \in Counting PROVE Holds(hist, {Steady}) = 0
      BY <2>1, <2>2, InEmptyTable, TimingAssumption
    <2>3. ASSUME phase \in Counting, NEW s \in DOMAIN hist
          PROVE  hist[s].val = 0 /\ hist[s].count = 0
      BY <2>1, <2>3 DEF Table
    <2>4. QED
      BY <2>1, <2>2, <2>3 DEF OneValue
  <1>4. phase = "ready" => ~ calibrated
    BY DEF Init
  <1>5. evicted \in BOOLEAN /\ calibrated \in BOOLEAN
    BY DEF Init
  <1>6. QED
    BY <1>1, <1>2, <1>3, <1>4, <1>5 DEF SInv, ExactWhenSteady, Kinds

(* What the averages are when all values are the same.                     *)
LEMMA TableOf ==
  ASSUME TInv, phase \in Counting
  PROVE  /\ hsz \in Nat \ {0} /\ hist \in [0 .. hsz - 1 -> Slot]
         /\ IsFiniteSet(DOMAIN hist)
         /\ j = Null \/ (j \in Int /\ (j >= 0 => j \in 0 .. hsz - 1))
  <1>1. hsz \in Nat \ {0} /\ hist \in [0 .. hsz - 1 -> Slot]
    BY RoundsType DEF TInv, TableTypes
  <1>2. IsFiniteSet(0 .. hsz - 1)
    BY <1>1, FiniteSlots
  <1>3. Slots(Rounds) = 0 .. hsz - 1
    BY RoundsType DEF TInv
  <1> HIDE DEF hsz
  <1>4. QED
    BY <1>1, <1>2, <1>3 DEF TInv, TableTypes

LEMMA AverageIs ==
  ASSUME TInv, Quiet, OneValue, phase \in Counting, j = Null, i # 0
  PROVE  Average = Steady
  <1> DEFINE S == {s \in DOMAIN hist : hist[s].val > 0}
             f == [s \in S |-> hist[s].val * hist[s].count]
             n == SumFunctionOnSet(Counts, S)
             w == SumFunctionOnSet(f, S)
  <1>1. S = {s \in DOMAIN hist : hist[s].val \in {Steady}}
    BY SteadyType DEF OneValue
  <1>2. Counts = CountsOf(hist)
    BY DEF Counts, CountsOf
  <1>3. i \in Nat /\ Holds(hist, {Steady}) + 0 = i
    BY DEF OneValue, TInv, Types
  <1>4. n = Holds(hist, {Steady})
    BY <1>1, <1>2 DEF Holds
  <1>5. IsFiniteSet(S)
    BY TableOf, FS_Subset
  <1>6. \A s \in S : Counts[s] \in Nat /\ f[s] = Steady * Counts[s]
    BY <1>1, TableOf DEF Counts, Slot
  <1>7. Average = IF n = 0 THEN Null ELSE w \div n
    BY DEF Average
  <1>8. Steady \in Nat
    BY SteadyType
  <1> HIDE DEF S, f
  <1>9. w = Steady * n
    BY <1>5, <1>6, <1>8, SumScaled
  <1>10. n \in Nat
    BY <1>5, <1>6, SumType
  <1> HIDE DEF n, w
  <1>11. n = i /\ n # 0
    BY <1>3, <1>4, <1>10
  <1>12. (n * Steady) \div n = Steady
    BY <1>8, <1>10, <1>11
  <1>13. QED
    BY <1>7, <1>8, <1>9, <1>10, <1>11, <1>12

LEMMA MissesAre ==
  ASSUME TInv, Quiet, OneValue, phase = "tests", j = Null
  PROVE  Misses = IF Steady > threshold THEN i ELSE 0
  <1> DEFINE S == {s \in DOMAIN hist : hist[s].count > 0 /\ Above(hist[s].val)}
  <1>1. i \in Nat /\ Holds(hist, {Steady}) + 0 = i /\ Holds(hist, {Steady}) \in Nat
    BY HoldsType DEF OneValue, TInv, Types
  <1>2. Counts = CountsOf(hist) /\ Misses = SumFunctionOnSet(Counts, S)
    BY DEF Counts, CountsOf, Misses
  <1>3. CASE Steady > threshold
    <2>1. S = {s \in DOMAIN hist : hist[s].val \in {Steady}}
      BY <1>3, SteadyType DEF OneValue, Above
    <2>2. Holds(hist, {Steady})
            = SumFunctionOnSet(CountsOf(hist),
                               {s \in DOMAIN hist : hist[s].val \in {Steady}})
      BY DEF Holds
    <2> HIDE DEF S
    <2>3. Misses = Holds(hist, {Steady})
      BY <1>2, <2>1, <2>2
    <2>4. Misses = i
      BY <1>1, <2>3
    <2>5. QED
      BY <1>3, <2>4
  <1>4. CASE ~ (Steady > threshold)
    <2>1. S = {}
      BY <1>4, SteadyType DEF OneValue, Above
    <2>2. SumFunctionOnSet(Counts, {}) = 0
      BY SumEquation, FS_EmptySet
    <2>3. QED
      BY <1>2, <1>4, <2>1, <2>2
  <1>5. QED
    BY <1>3, <1>4

(* One step after another, on a quiet machine.                             *)
LEMMA MeasureSteady ==
  ASSUME SInv, Quiet, Measure
  PROVE  OneValue'
  <1>1. /\ TInv /\ phase \in Counting /\ j = Null /\ hist' = hist /\ i' = i + 1
        /\ OneValue
    BY DEF SInv, Measure, Quiet
  <1>2. PICK t \in Access(Missing) :
           /\ val' = t
           /\ j' = IF t >= Outlier THEN Null ELSE Index(t)
    BY DEF Measure
  <1>3. t = Steady /\ t \in Nat /\ t < Outlier /\ Outlier \in Nat
    BY <1>2, SteadyType, TimingAssumption
  <1>4. j' # Null
    <2>1. hsz \in Nat \ {0}
      BY <1>1, TableOf
    <2>2. Index(t) \in Int
      BY <1>3, <2>1, IndexType
    <2>3. QED
      BY <1>2, <1>3, <2>2, TimingAssumption
  <1>5. Steady' = Steady
    BY DEF Steady, Missing, Measure, machine, config
  <1>6. i \in Nat /\ Holds(hist, {Steady}) + 0 = i
    BY <1>1 DEF OneValue, TInv, Types
  <1>7. Holds(hist, {Steady}) \in Nat
    <2>1. hist \in [0 .. hsz - 1 -> Slot] /\ hsz - 1 \in Int /\ 0 \in 0 .. hsz - 1
      BY <1>1, TableOf
    <2>2. Moves(hist, 0, 0, {Steady})
      BY <2>1, Recorded
    <2>3. QED
      BY <2>2 DEF Moves
  <1>8. Holds(hist, {Steady}) + 1 = i + 1
    BY <1>6, <1>7
  <1>9. QED
    BY <1>1, <1>2, <1>3, <1>4, <1>5, <1>8 DEF OneValue

LEMMA ProbeSteady ==
  ASSUME SInv, Quiet, Probe
  PROVE  OneValue'
  <1>1. /\ TInv /\ j # Null /\ j >= 0 /\ val' = val /\ i' = i
        /\ Steady' = Steady
    BY DEF SInv, Probe, sums, machine, config, Steady, Missing
  <1>2. phase \in Counting
    BY <1>1 DEF TInv, TableTypes
  <1>3. /\ OneValue /\ hsz \in Nat \ {0} /\ hist \in [0 .. hsz - 1 -> Slot]
        /\ j \in 0 .. hsz - 1 /\ val = Steady /\ Steady \in Nat /\ Steady > 0
    BY <1>1, <1>2, TableOf, SteadyType DEF SInv, Quiet, OneValue
  <1> HIDE DEF hsz
  <1>4. CASE Taken
    <2>1. j' = Index(j + 1) /\ hist' = hist
      BY <1>3, <1>4 DEF Probe
    <2>2. j' # Null
      BY <1>3, <2>1, IndexType, TimingAssumption
    <2>3. QED
      BY <1>1, <1>3, <2>1, <2>2 DEF OneValue
  <1>5. CASE ~ Taken
    <2> DEFINE n == hsz - 1
               c == hist[j].count
    <2>1. hist' = Add(hist, j, val) /\ j' = Null
      BY <1>5 DEF Probe, Add
    <2>2. n \in Int /\ hist \in [0 .. n -> Slot] /\ j \in 0 .. n /\ val \in Int
      BY <1>3
    <2> HIDE DEF n
    <2>3. Moves(hist, j, val, {Steady})
      BY <2>2, Recorded
    <2>4. /\ Holds(hist, {Steady}) \in Nat /\ Holds(hist', {Steady}) \in Nat
          /\ Holds(hist, {Steady}) - (IF hist[j].val = Steady THEN c ELSE 0)
               = Holds(hist', {Steady}) - (c + 1)
      BY <1>3, <2>1, <2>3 DEF Moves
    <2>5. c \in Nat /\ (hist[j].val # Steady => c = 0)
      BY <2>2, <1>3 DEF OneValue, Slot
    <2>6. Holds(hist, {Steady}) + 1 = i /\ i \in Nat
      BY <1>1, <1>3 DEF OneValue, TInv, Types
    <2>7. \A s \in DOMAIN hist : hist'[s] = IF s = j THEN [val |-> val, count |-> c + 1]
                                            ELSE hist[s]
      BY <2>1, <2>2 DEF Add
    <2>8. DOMAIN hist' = DOMAIN hist
      BY <2>1 DEF Add
    <2> HIDE DEF c
    <2>9. Holds(hist', {Steady}) + 0 = i
      BY <2>4, <2>5, <2>6
    <2>10. \A s \in DOMAIN hist' : \/ hist'[s].val = 0 /\ hist'[s].count = 0
                                   \/ hist'[s].val = Steady /\ hist'[s].count > 0
      BY <1>3, <2>5, <2>7, <2>8 DEF OneValue
    <2>11. QED
      BY <1>1, <2>1, <2>9, <2>10 DEF OneValue
  <1>6. QED
    BY <1>4, <1>5

(* A third of the way from a hit to a miss.                                *)
LEMMA FlushedSteady ==
  ASSUME SInv, Quiet, Flushed
  PROVE  Between'
  <1>1. /\ TInv /\ phase = "flushed" /\ phase \in Counting /\ i = CalRounds /\ j = Null
        /\ OneValue /\ unflushed = hit
    BY DEF SInv, Flushed, Counted, Quiet, Rounds
  <1>2. Average = miss
    BY <1>1, AverageIs, TimingAssumption DEF Steady, Missing
  <1>3. Null \notin {unflushed, Average} /\ ~ (Average < unflushed)
    BY <1>1, <1>2, TimingAssumption DEF Quiet
  <1>4. threshold' = (miss + hit * 2) \div 3
    BY <1>1, <1>2, <1>3 DEF Flushed
  <1>5. hit <= (miss + hit * 2) \div 3 /\ (miss + hit * 2) \div 3 < miss
    BY DEF Quiet
  <1>6. hit' = hit /\ miss' = miss
    BY DEF Flushed, machine
  <1>7. QED
    BY <1>4, <1>5, <1>6 DEF Between

LEMMA UnflushedSteady ==
  ASSUME SInv, Quiet, Unflushed
  PROVE  unflushed' = hit' /\ OneValue'
  <1>1. /\ TInv /\ phase = "unflushed" /\ phase \in Counting /\ i = CalRounds
        /\ j = Null /\ OneValue
    BY DEF SInv, Unflushed, Counted, Quiet, Rounds
  <1>2. Average = hit
    BY <1>1, AverageIs, TimingAssumption DEF Steady, Missing, Kinds
  <1>3. OneValue'
    BY <1>1, EmptyOneValue, TimingAssumption DEF Unflushed
  <1>4. QED
    BY <1>2, <1>3 DEF Unflushed, machine

LEMMA AddUpSteady ==
  ASSUME SInv, Quiet, AddUp, NEW e \in Measured'
  PROVE  delta'[e] = i' * Steady'
  <1>1. /\ TInv /\ phase \in {"avg", "time"} /\ Measured' = Measured
        /\ Steady' = Steady /\ i' = i + 1 /\ i \in Nat
    BY SameRounds DEF SInv, AddUp, Steady, Missing, machine, config, TInv, Types
  <1>2. PICK t \in [Measured -> Access(Missing)] :
           delta' = [x \in Measured |-> delta[x] + IF Kept(t[x]) THEN t[x] ELSE 0]
    BY DEF AddUp
  <1>3. Access(Missing) = {Steady} /\ Steady \in Nat /\ Steady < Outlier
    BY SteadyType
  <1>4. e \in Measured
    BY <1>1
  <1>5. t[e] = Steady
    BY <1>2, <1>3, <1>4
  <1>6. Kept(t[e])
    BY <1>3, <1>5 DEF Kept
  <1>7. delta[e] = i * Steady
    BY <1>1, <1>4 DEF SInv, Quiet
  <1>8. delta'[e] = i * Steady + Steady
    BY <1>2, <1>4, <1>5, <1>6, <1>7
  <1>9. QED
    BY <1>1, <1>3, <1>8, OneMore

(* The answers of the three tests.                                         *)
LEMMA SideOfThreshold ==
  ASSUME Quiet, Between, threshold \in Int, phase \in Kinds, evicted \in BOOLEAN
  PROVE  Steady > threshold <=> evicted
  <1>1. Missing <=> evicted
    BY DEF Missing, Kinds
  <1>2. CASE evicted
    <2>1. Steady = miss
      BY <1>1, <1>2 DEF Steady
    <2>2. Steady > threshold
      BY <2>1 DEF Quiet, Between
    <2>3. QED
      BY <1>2, <2>2
  <1>3. CASE ~ evicted
    <2>1. Steady = hit
      BY <1>1, <1>3 DEF Steady
    <2>2. ~ (Steady > threshold)
      BY <2>1 DEF Quiet, Between
    <2>3. QED
      BY <1>3, <2>2
  <1>4. QED
    BY <1>2, <1>3

LEMMA SameTruth ==
  ASSUME NEW a \in BOOLEAN, NEW b \in BOOLEAN, a <=> b
  PROVE  a = b
  OBVIOUS

LEMMA TestsSteady ==
  ASSUME SInv, Quiet, Between, Tests, quarters \in 0 .. 3
  PROVE  answer' = evicted
  <1>1. /\ TInv /\ phase = "tests" /\ phase \in Counting /\ i = rep /\ j = Null
        /\ OneValue /\ answer' = (Misses > Enough) /\ evicted \in BOOLEAN
    BY DEF SInv, Quiet, Tests, Counted, Rounds
  <1>2. rep \in Nat \ {0} /\ threshold \in Int /\ phase \in Kinds
    BY <1>1 DEF TInv, Types, Kinds
  <1>3. Misses = IF Steady > threshold THEN rep ELSE 0
    BY <1>1, MissesAre
  <1>4. Enough = (quarters * rep) \div 4
    BY DEF Enough
  <1>5. (quarters * rep) \div 4 \in 0 .. rep - 1
    BY <1>2
  <1>6. Misses > Enough <=> evicted
    BY <1>1, <1>2, <1>3, <1>4, <1>5, SideOfThreshold
  <1> DEFINE more == Misses > Enough
  <1>7. more \in BOOLEAN
    OBVIOUS
  <1>8. more <=> evicted
    BY <1>6
  <1>9. answer' = more
    BY <1>1, Zenon
  <1> HIDE DEF more
  <1>10. more = evicted
    BY <1>1, <1>7, <1>8, SameTruth
  <1>11. QED
    BY <1>9, <1>10

LEMMA AvgSteady ==
  ASSUME SInv, Quiet, Between, Avg
  PROVE  answer' = evicted
  <1>1. /\ TInv /\ phase = "avg" /\ i = rep /\ evicted \in BOOLEAN
        /\ answer' \in IF delta[Victim] < 0 THEN BOOLEAN
                       ELSE {Above(delta[Victim] \div rep)}
    BY DEF SInv, Avg
  <1>2. /\ rep \in Nat \ {0} /\ threshold \in Int /\ phase \in Kinds
        /\ Measured = {Victim}
    BY <1>1 DEF TInv, Types, Kinds, Measured
  <1>3. Steady \in Nat
    BY SteadyType
  <1>4. delta[Victim] = rep * Steady
    BY <1>1, <1>2 DEF SInv, Quiet
  <1>5. rep * Steady \in Nat /\ (rep * Steady) \div rep = Steady
    BY <1>2, <1>3
  <1> DEFINE more == Steady > threshold
  <1>6. answer' = more
    BY <1>1, <1>4, <1>5 DEF Above
  <1>7. more \in BOOLEAN
    OBVIOUS
  <1>8. more <=> evicted
    BY <1>1, <1>2, SideOfThreshold
  <1> HIDE DEF more
  <1>9. more = evicted
    BY <1>1, <1>7, <1>8, SameTruth
  <1>10. QED
    BY <1>6, <1>9

LEMMA TimeSteady ==
  ASSUME SInv, Quiet, Between, Time, Cardinality(Lines) > Ways
  PROVE  answer' = evicted
  <1> DEFINE Late == {e \in Lines : Above(delta[e] \div rep)}
             more == Cardinality(Late) > Ways
  <1>1. /\ TInv /\ phase = "time" /\ i = rep /\ evicted \in BOOLEAN /\ answer' = more
    BY DEF SInv, Time
  <1>2. /\ rep \in Nat \ {0} /\ threshold \in Int /\ phase \in Kinds
        /\ Measured = Lines /\ Ways \in Nat
    BY <1>1, TimingAssumption DEF TInv, Types, Kinds, Measured
  <1>3. Steady \in Nat
    BY SteadyType
  <1>4. \A e \in Lines : delta[e] = rep * Steady
    BY <1>1, <1>2 DEF SInv, Quiet
  <1>5. (rep * Steady) \div rep = Steady
    BY <1>2, <1>3
  <1>6. Late = IF Steady > threshold THEN Lines ELSE {}
    BY <1>4, <1>5 DEF Above
  <1>7. Steady > threshold <=> evicted
    BY <1>1, <1>2, SideOfThreshold
  <1> HIDE DEF Late
  <1>8. more <=> evicted
    BY <1>2, <1>6, <1>7, FS_EmptySet
  <1>9. more \in BOOLEAN
    OBVIOUS
  <1> HIDE DEF more
  <1>10. more = evicted
    BY <1>1, <1>8, <1>9, SameTruth
  <1>11. QED
    BY <1>1, <1>10

LEMMA EndSteady ==
  ASSUME SInv, Tests \/ Avg \/ Time, Cardinality(Lines) > Ways
  PROVE  ExactWhenSteady'
  <1> SUFFICES ASSUME (steady /\ answer # Null /\ quarters \in 0 .. 3
                         /\ (calibrated \/ (hit <= threshold /\ threshold < miss)))'
               PROVE  (answer = evicted)'
    BY DEF ExactWhenSteady
  <1>1. UNCHANGED <<steady, hit, miss, calibrated, rep, quarters, evicted, threshold>>
    BY DEF Tests, Avg, Time, machine, config
  <1>2. steady /\ Quiet /\ phase \in Kinds /\ quarters \in 0 .. 3
    BY <1>1 DEF SInv, Tests, Avg, Time, Kinds
  <1>3. Between
    BY <1>1, <1>2 DEF SInv, Between
  <1>4. answer' = evicted
    BY <1>2, <1>3, TestsSteady, AvgSteady, TimeSteady
  <1>5. QED
    BY <1>1, <1>4

LEMMA NextSteady ==
  ASSUME SInv, [Next]_vars, Cardinality(Lines) > Ways
  PROVE  SInv'
  <1>1. TInv /\ TInv'
    BY NextTypes DEF SInv
  <1>2. /\ evicted' \in BOOLEAN /\ calibrated' \in BOOLEAN
        /\ machine' = machine
    BY DEF SInv, Next, vars, Measure, Probe, WriteOutside, Unflushed, Flushed, Begin,
           Tests, AddUp, Avg, Time, machine, config
  <1>3. (steady' => Quiet') /\ (steady' => steady /\ Quiet)
    BY <1>2 DEF SInv, Quiet, machine
  <1>4. ExactWhenSteady'
    <2>1. CASE Tests \/ Avg \/ Time
      BY <2>1, EndSteady
    <2>2. CASE UNCHANGED vars
      BY <2>2 DEF SInv, ExactWhenSteady, vars, machine, config
    <2>3. CASE Measure \/ Probe \/ WriteOutside \/ Unflushed \/ Flushed \/ Begin
               \/ AddUp
      <3>1. phase # "done" /\ answer' = answer
        BY <1>1, <2>3 DEF Measure, Probe, WriteOutside, Unflushed, Flushed, Begin,
                          AddUp, TInv, TableTypes, Counting
      <3>2. QED
        BY <1>1, <3>1, NoAnswerYet DEF ExactWhenSteady
    <2>4. QED
      BY <2>1, <2>2, <2>3 DEF Next
  <1>5. ASSUME steady'
        PROVE  /\ phase' \in Counting => OneValue'
               /\ phase' = "flushed" => unflushed' = hit'
               /\ phase' \in {"ready"} \cup Kinds /\ calibrated' => Between'
               /\ phase' \in {"avg", "time"} =>
                    \A e \in Measured' : delta'[e] = i' * Steady'
    <2>1. steady /\ Quiet /\ hit' = hit /\ miss' = miss /\ calibrated' = calibrated
      BY <1>2, <1>3, <1>5 DEF machine
    <2>2. CASE Measure
      <3>1. UNCHANGED <<phase, threshold, unflushed>> /\ phase \in Counting
        BY <2>2 DEF Measure
      <3>2. OneValue'
        BY <2>1, <2>2, MeasureSteady
      <3>3. QED
        BY <2>1, <3>1, <3>2 DEF SInv, Between, Counting
    <2>3. CASE Probe
      <3>1. UNCHANGED <<phase, threshold, unflushed>> /\ phase \in Counting
        BY <1>1, <2>3 DEF Probe, TInv, TableTypes
      <3>2. OneValue'
        BY <2>1, <2>3, ProbeSteady
      <3>3. QED
        BY <2>1, <3>1, <3>2 DEF SInv, Between, Counting
    <2>4. CASE Unflushed
      <3>1. phase' = "flushed"
        BY <2>4 DEF Unflushed
      <3>2. QED
        BY <2>1, <2>4, <3>1, UnflushedSteady DEF Kinds
    <2>5. CASE Flushed
      <3>1. phase' \in {"done", "ready"}
        BY <2>5 DEF Flushed
      <3>2. QED
        BY <2>1, <2>5, <3>1, FlushedSteady DEF Counting
    <2>6. CASE Begin
      <3>1. /\ phase = "ready" /\ phase' \in Kinds /\ threshold' = threshold
            /\ j = Null /\ j' = Null /\ i = 0 /\ i' = 0
        BY <1>1, <2>6 DEF Begin, TInv, Types, TableTypes, Counting
      <3>2. phase' = "tests" => OneValue'
        <4>1. rep' \in Nat \ {0} /\ (phase' = "tests" => hist' = Table(rep'))
          BY <2>6, TimingAssumption DEF Begin
        <4>2. QED
          BY <3>1, <4>1, EmptyOneValue
      <3>3. \A e \in Measured' : delta'[e] = 0
        BY <2>6 DEF Begin, Measured
      <3>4. Steady' \in Int
        BY <1>3, <1>5 DEF Steady, Quiet
      <3>5. 0 * Steady' = 0
        BY <3>4, OneMore
      <3>6. QED
        BY <2>1, <3>1, <3>2, <3>3, <3>5 DEF SInv, Between, Kinds, Counting
    <2>7. CASE AddUp
      <3>1. UNCHANGED <<phase, threshold, unflushed>> /\ phase \in {"avg", "time"}
        BY <2>7 DEF AddUp
      <3>2. \A e \in Measured' : delta'[e] = i' * Steady'
        BY <2>1, <2>7, AddUpSteady
      <3>3. QED
        BY <2>1, <3>1, <3>2 DEF SInv, Between, Counting
    <2>8. CASE Tests \/ Avg \/ Time \/ WriteOutside
      <3>1. phase' \in {"done", "wild"}
        BY <2>8 DEF Tests, Avg, Time, WriteOutside
      <3>2. QED
        BY <3>1 DEF Counting, Kinds
    <2>9. CASE UNCHANGED vars
      <3>1. Measured' = Measured /\ Steady' = Steady
        BY <2>9, SameRounds DEF vars, config, machine, Steady, Missing
      <3>2. QED
        BY <2>1, <2>9, <3>1 DEF SInv, OneValue, Between, vars, config, machine, table,
                                sums
    <2>10. QED
      BY <2>2, <2>3, <2>4, <2>5, <2>6, <2>7, <2>8, <2>9 DEF Next
  <1>6. QED
    BY <1>1, <1>2, <1>3, <1>4, <1>5 DEF SInv

(* On a quiet machine the three tests are exact, with a threshold that was *)
(* calibrated on it or any other between a hit and a miss: the answer is   *)
(* whether the lines evict.  The list of test_and_time() has to have more  *)
(* than Ways lines; the answer for another is always negative.             *)
THEOREM AnswersAreExact ==
  ASSUME Cardinality(Lines) > Ways
  PROVE  Spec => []ExactWhenSteady
  <1>1. Init => SInv
    BY InitSteady
  <1>2. SInv /\ [Next]_vars => SInv'
    BY NextSteady
  <1>3. SInv => ExactWhenSteady
    BY DEF SInv
  <1>4. QED
    BY <1>1, <1>2, <1>3, PTL DEF Spec
=============================================================================
