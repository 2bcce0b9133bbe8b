----------------------------- MODULE ListLemmas -----------------------------
(***************************************************************************)
(* Facts about sequences seen as linked lists: which lines a list holds    *)
(* (Range) and that no line is linked twice (IsInjective), when a list is  *)
(* cut, joined, extended or shortened; and about lists that evict.         *)
(***************************************************************************)
EXTENDS EvictionTest, Integers, SequenceTheorems, FiniteSetTheorems,
        WellFoundedInduction, TLAPS

(* What SubSeq is, index by index.                                         *)
LEMMA Excerpt ==
  ASSUME NEW S, NEW s \in Seq(S), NEW a \in 1 .. Len(s) + 1,
         NEW b \in a - 1 .. Len(s)
  PROVE  /\ SubSeq(s, a, b) \in Seq(S)
         /\ Len(SubSeq(s, a, b)) = b - a + 1
         /\ \A i \in 1 .. b - a + 1 : SubSeq(s, a, b)[i] = s[a + i - 1]
  <1>1. a \in Int /\ b \in Int /\ Len(s) \in Nat
    BY LenProperties
  <1>2. \A i \in a .. b : s[i] \in S
    BY <1>1, ElementOfSeq
  <1>3. QED
    BY <1>1, <1>2, SubSeqProperties

(* The lines between two positions.                                        *)
LEMMA SliceRange ==
  ASSUME NEW S, NEW s \in Seq(S), NEW a \in 1 .. Len(s) + 1,
         NEW b \in a - 1 .. Len(s)
  PROVE  Range(SubSeq(s, a, b)) = {s[i] : i \in a .. b}
  <1> DEFINE c == SubSeq(s, a, b)
  <1>1. c \in Seq(S) /\ Len(c) = b - a + 1
        /\ \A i \in 1 .. b - a + 1 : c[i] = s[a + i - 1]
    BY Excerpt
  <1>2. Range(c) = {c[i] : i \in 1 .. b - a + 1}
    BY <1>1, RangeEquality
  <1> HIDE DEF c
  <1>3. a \in Int /\ b \in Int
    BY LenProperties
  <1>4. ASSUME NEW i \in a .. b PROVE s[i] \in Range(c)
    <2>1. i - a + 1 \in 1 .. b - a + 1 /\ a + (i - a + 1) - 1 = i
      BY <1>3
    <2>2. QED
      BY <1>1, <1>2, <2>1
  <1>5. ASSUME NEW i \in 1 .. b - a + 1 PROVE c[i] \in {s[j] : j \in a .. b}
    <2>1. a + i - 1 \in a .. b
      BY <1>3
    <2>2. QED
      BY <1>1, <2>1
  <1>6. QED
    BY <1>2, <1>4, <1>5 DEF c

LEMMA SliceInjective ==
  ASSUME NEW S, NEW s \in Seq(S), IsInjective(s),
         NEW a \in 1 .. Len(s) + 1, NEW b \in a - 1 .. Len(s)
  PROVE  IsInjective(SubSeq(s, a, b))
  <1> DEFINE c == SubSeq(s, a, b)
  <1>1. c \in Seq(S) /\ Len(c) = b - a + 1
        /\ \A i \in 1 .. b - a + 1 : c[i] = s[a + i - 1]
    BY Excerpt
  <1>2. a \in Int /\ b \in Int /\ Len(s) \in Nat /\ DOMAIN s = 1 .. Len(s)
    BY LenProperties
  <1>3. DOMAIN c = 1 .. b - a + 1
    BY <1>1, LenProperties
  <1> HIDE DEF c
  <1>4. ASSUME NEW i \in DOMAIN c, NEW j \in DOMAIN c, c[i] = c[j]
        PROVE  i = j
    <2>1. a + i - 1 \in DOMAIN s /\ a + j - 1 \in DOMAIN s
      BY <1>2, <1>3
    <2>2. s[a + i - 1] = s[a + j - 1]
      BY <1>1, <1>3, <1>4
    <2>3. a + i - 1 = a + j - 1
      BY <2>1, <2>2 DEF IsInjective
    <2>4. QED
      BY <2>3, <1>2, <1>3
  <1>5. QED
    BY <1>4 DEF IsInjective, c

(* Joining two lists that share no line.                                   *)
LEMMA JoinInjective ==
  ASSUME NEW S, NEW s \in Seq(S), NEW t \in Seq(S),
         IsInjective(s), IsInjective(t), Range(s) \cap Range(t) = {}
  PROVE  IsInjective(s \o t)
  <1> DEFINE c == s \o t
  <1>1. c \in Seq(S) /\ Len(c) = Len(s) + Len(t)
        /\ \A i \in 1 .. Len(s) + Len(t) :
              c[i] = IF i <= Len(s) THEN s[i] ELSE t[i - Len(s)]
    BY ConcatProperties
  <1>2. /\ Len(s) \in Nat /\ Len(t) \in Nat
        /\ DOMAIN s = 1 .. Len(s) /\ DOMAIN t = 1 .. Len(t)
        /\ DOMAIN c = 1 .. Len(s) + Len(t)
    BY <1>1, LenProperties
  <1> HIDE DEF c
  <1>3. ASSUME NEW i \in DOMAIN s, NEW j \in DOMAIN t PROVE s[i] # t[j]
    BY DEF Range
  <1>4. ASSUME NEW i \in DOMAIN c, NEW j \in DOMAIN c, c[i] = c[j]
        PROVE  i = j
    <2>1. CASE i <= Len(s) /\ j <= Len(s)
      <3>1. i \in DOMAIN s /\ j \in DOMAIN s /\ s[i] = s[j]
        BY <1>1, <1>2, <1>4, <2>1
      <3>2. QED
        BY <3>1 DEF IsInjective
    <2>2. CASE i <= Len(s) /\ ~(j <= Len(s))
      <3>1. i \in DOMAIN s /\ j - Len(s) \in DOMAIN t /\ s[i] = t[j - Len(s)]
        BY <1>1, <1>2, <1>4, <2>2
      <3>2. QED
        BY <3>1, <1>3
    <2>3. CASE ~(i <= Len(s)) /\ j <= Len(s)
      <3>1. j \in DOMAIN s /\ i - Len(s) \in DOMAIN t /\ s[j] = t[i - Len(s)]
        BY <1>1, <1>2, <1>4, <2>3
      <3>2. QED
        BY <3>1, <1>3
    <2>4. CASE ~(i <= Len(s)) /\ ~(j <= Len(s))
      <3>1. i - Len(s) \in DOMAIN t /\ j - Len(s) \in DOMAIN t
            /\ t[i - Len(s)] = t[j - Len(s)]
        BY <1>1, <1>2, <1>4, <2>4
      <3>2. i - Len(s) = j - Len(s)
        BY <3>1 DEF IsInjective
      <3>3. QED
        BY <3>2, <1>2
    <2>5. QED
      BY <2>1, <2>2, <2>3, <2>4
  <1>5. QED
    BY <1>4 DEF IsInjective, c

(* Cutting the slice a .. b out of a list and joining what comes after it  *)
(* with what comes before it: the slice and the rest share the lines out.  *)
LEMMA CutOut ==
  ASSUME NEW S, NEW s \in Seq(S), NEW a \in 1 .. Len(s) + 1,
         NEW b \in a - 1 .. Len(s)
  PROVE  LET c == SubSeq(s, a, b)
             w == SubSeq(s, b + 1, Len(s)) \o SubSeq(s, 1, a - 1)
         IN  /\ c \in Seq(S) /\ w \in Seq(S)
             /\ Len(c) + Len(w) = Len(s)
             /\ Range(c) \cup Range(w) = Range(s)
             /\ IsInjective(s) => /\ IsInjective(c) /\ IsInjective(w)
                                  /\ Range(c) \cap Range(w) = {}
  <1> DEFINE c == SubSeq(s, a, b)
             w == SubSeq(s, b + 1, Len(s)) \o SubSeq(s, 1, a - 1)
             u == SubSeq(s, b + 1, Len(s))
             v == SubSeq(s, 1, a - 1)
  <1>1. a \in Int /\ b \in Int /\ Len(s) \in Nat /\ DOMAIN s = 1 .. Len(s)
    BY LenProperties
  <1>2. /\ b + 1 \in 1 .. Len(s) + 1 /\ Len(s) \in (b + 1) - 1 .. Len(s)
        /\ 1 \in 1 .. Len(s) + 1 /\ a - 1 \in 1 - 1 .. Len(s)
    BY <1>1
  <1>3. /\ c \in Seq(S) /\ Len(c) = b - a + 1
        /\ u \in Seq(S) /\ Len(u) = Len(s) - (b + 1) + 1
        /\ v \in Seq(S) /\ Len(v) = (a - 1) - 1 + 1
    BY <1>2, Excerpt
  <1>4. /\ Range(c) = {s[i] : i \in a .. b}
        /\ Range(u) = {s[i] : i \in b + 1 .. Len(s)}
        /\ Range(v) = {s[i] : i \in 1 .. a - 1}
    BY <1>2, SliceRange
  <1>5. IsInjective(s) => IsInjective(c) /\ IsInjective(u) /\ IsInjective(v)
    BY <1>2, SliceInjective
  <1> HIDE DEF c, w, u, v
  <1>6. /\ w = u \o v /\ w \in Seq(S) /\ Len(w) = Len(u) + Len(v)
        /\ Range(w) = Range(u) \cup Range(v)
    <2>1. w = u \o v
      BY DEF w, u, v
    <2>2. u \o v \in Seq(S) /\ Len(u \o v) = Len(u) + Len(v)
      BY <1>3, ConcatProperties
    <2>3. Range(u \o v) = Range(u) \cup Range(v)
      BY <1>3, RangeConcatenation
    <2>4. QED
      BY <2>1, <2>2, <2>3
  <1>7. Len(c) + Len(w) = Len(s)
    <2>1. Len(w) = Len(u) + Len(v)
      BY <1>6
    <2>2. Len(c) + Len(w)
            = (b - a + 1) + ((Len(s) - (b + 1) + 1) + ((a - 1) - 1 + 1))
      BY <2>1, <1>3, Zenon
    <2>3. (b - a + 1) + ((Len(s) - (b + 1) + 1) + ((a - 1) - 1 + 1)) = Len(s)
      BY <1>1
    <2>4. QED
      BY <2>2, <2>3, Zenon
  <1>8. Range(s) = {s[i] : i \in 1 .. Len(s)}
    BY RangeEquality
  <1>9. 1 .. Len(s) = (a .. b) \cup (b + 1 .. Len(s)) \cup (1 .. a - 1)
    BY <1>1
  <1>10. Range(c) \cup Range(w) = Range(s)
    BY <1>4, <1>6, <1>8, <1>9
  <1>11. ASSUME IsInjective(s),
                NEW A \in SUBSET (1 .. Len(s)), NEW B \in SUBSET (1 .. Len(s)),
                A \cap B = {}
         PROVE  {s[i] : i \in A} \cap {s[i] : i \in B} = {}
    BY <1>1, <1>11 DEF IsInjective
  <1>12. /\ a .. b \in SUBSET (1 .. Len(s))
         /\ b + 1 .. Len(s) \in SUBSET (1 .. Len(s))
         /\ 1 .. a - 1 \in SUBSET (1 .. Len(s))
         /\ (a .. b) \cap (b + 1 .. Len(s)) = {}
         /\ (a .. b) \cap (1 .. a - 1) = {}
         /\ (b + 1 .. Len(s)) \cap (1 .. a - 1) = {}
    BY <1>1
  <1>13. IsInjective(s) => /\ Range(c) \cap Range(u) = {}
                           /\ Range(c) \cap Range(v) = {}
                           /\ Range(u) \cap Range(v) = {}
    BY <1>4, <1>11, <1>12
  <1>14. ASSUME IsInjective(s) PROVE IsInjective(w)
    <2>1. IsInjective(u) /\ IsInjective(v) /\ Range(u) \cap Range(v) = {}
      BY <1>5, <1>13, <1>14
    <2>2. IsInjective(u \o v)
      BY <1>3, <2>1, JoinInjective
    <2>3. QED
      BY <1>6, <2>2
  <1>15. QED
    BY <1>3, <1>5, <1>6, <1>7, <1>10, <1>13, <1>14 DEF c, w

(* Sets with enough lines of a group keep them when they grow.             *)
LEMMA MoreLines ==
  ASSUME NEW S, NEW T, NEW g, S \subseteq T, IsFiniteSet(T)
  PROVE  /\ Cardinality(S \cap g) \in Nat
         /\ Cardinality(T \cap g) \in Nat
         /\ Cardinality(S \cap g) <= Cardinality(T \cap g)
  <1>1. IsFiniteSet(T \cap g)
    BY FS_Intersection
  <1>2. S \cap g \in SUBSET (T \cap g)
    OBVIOUS
  <1>3. IsFiniteSet(S \cap g) /\ Cardinality(S \cap g) <= Cardinality(T \cap g)
    BY <1>1, <1>2, FS_Subset
  <1>4. QED
    BY <1>1, <1>3, FS_CardinalityType

(* A list holds finitely many lines, at most one per position.             *)
LEMMA FiniteRange ==
  ASSUME NEW S, NEW s \in Seq(S)
  PROVE  /\ IsFiniteSet(Range(s))
         /\ Cardinality(Range(s)) \in Nat
         /\ Cardinality(Range(s)) <= Len(s)
  <1>1. Len(s) \in Nat /\ DOMAIN s = 1 .. Len(s)
    BY LenProperties
  <1>2. IsFiniteSet(1 .. Len(s)) /\ Cardinality(1 .. Len(s)) = Len(s)
    BY <1>1, FS_Interval
  <1>3. s \in Surjection(1 .. Len(s), Range(s))
    BY <1>1 DEF Surjection, Range
  <1>4. QED
    BY <1>2, <1>3, FS_Surjection, FS_CardinalityType

(***************************************************************************)
(* Evicting.                                                               *)
(***************************************************************************)
LEMMA EvictsGrows ==
  ASSUME NEW S, NEW T, S \subseteq T, IsFiniteSet(T), Evicts(S)
  PROVE  Evicts(T)
  <1>1. PICK g \in groups : Cardinality(S \cap g) >= Target
    BY DEF Evicts
  <1>2. /\ Cardinality(S \cap g) \in Nat /\ Cardinality(T \cap g) \in Nat
        /\ Cardinality(S \cap g) <= Cardinality(T \cap g)
    BY MoreLines
  <1>3. Cardinality(T \cap g) >= Target
    BY <1>1, <1>2, TargetAssumption
  <1>4. QED
    BY <1>3 DEF Evicts

(* A set that evicts has at least Target lines.                            *)
LEMMA EvictsSize ==
  ASSUME NEW S, IsFiniteSet(S), Evicts(S)
  PROVE  Cardinality(S) >= Target
  <1>1. PICK g \in groups : Cardinality(S \cap g) >= Target
    BY DEF Evicts
  <1>2. Cardinality(S) \in Nat /\ Cardinality(S \cap g) \in Nat
        /\ Cardinality(S \cap g) <= Cardinality(S)
    BY FS_Intersection, FS_CardinalityType
  <1>3. QED
    BY <1>1, <1>2, TargetAssumption

-----------------------------------------------------------------------------
(***************************************************************************)
(* One line at a time.                                                     *)
(***************************************************************************)
(* The first line leaves.                                                  *)
LEMMA Beheaded ==
  ASSUME NEW S, NEW s \in Seq(S), s # <<>>
  PROVE  /\ Len(s) \in Nat \ {0}
         /\ Head(s) = s[1] /\ Head(s) \in S /\ Head(s) \in Range(s)
         /\ Tail(s) \in Seq(S) /\ Len(Tail(s)) = Len(s) - 1
         /\ \A i \in 1 .. Len(s) - 1 : Tail(s)[i] = s[i + 1]
         /\ Range(s) = {Head(s)} \cup Range(Tail(s))
         /\ IsInjective(s) => /\ IsInjective(Tail(s))
                              /\ Range(Tail(s)) = Range(s) \ {Head(s)}
  <1>1. /\ Len(s) \in Nat \ {0} /\ DOMAIN s = 1 .. Len(s)
        /\ Head(s) = s[1] /\ Head(s) \in S
        /\ Tail(s) \in Seq(S) /\ Len(Tail(s)) = Len(s) - 1
        /\ \A i \in 1 .. Len(s) - 1 : Tail(s)[i] = s[i + 1]
    BY LenProperties, EmptySeq, HeadTailProperties, ElementOfSeq
  <1>2. DOMAIN Tail(s) = 1 .. Len(s) - 1
    BY <1>1, LenProperties
  <1> DEFINE t == Tail(s)
  <1> HIDE DEF t
  <1>3. ASSUME NEW i \in 1 .. Len(s), i # 1
        PROVE  i - 1 \in 1 .. Len(s) - 1 /\ s[i] = t[i - 1]
    <2>1. i - 1 \in 1 .. Len(s) - 1 /\ (i - 1) + 1 = i
      BY <1>1, <1>3
    <2>2. QED
      BY <1>1, <2>1 DEF t
  <1>4. Range(s) = {Head(s)} \cup Range(t)
    <2>1. ASSUME NEW i \in 1 .. Len(s) PROVE s[i] \in {Head(s)} \cup Range(t)
      BY <1>1, <1>2, <1>3 DEF Range, t
    <2>2. ASSUME NEW i \in 1 .. Len(s) - 1 PROVE t[i] \in Range(s)
      <3>1. i + 1 \in 1 .. Len(s) /\ t[i] = s[i + 1]
        BY <1>1 DEF t
      <3>2. QED
        BY <1>1, <3>1 DEF Range
    <2>3. Head(s) \in Range(s)
      BY <1>1 DEF Range
    <2>4. QED
      BY <1>1, <1>2, <2>1, <2>2, <2>3 DEF Range, t
  <1>5. ASSUME IsInjective(s)
        PROVE  IsInjective(t) /\ Head(s) \notin Range(t)
    <2>1. \A i, j \in 1 .. Len(s) : s[i] = s[j] => i = j
      BY <1>1, <1>5 DEF IsInjective
    <2>2. ASSUME NEW i \in 1 .. Len(s) - 1
          PROVE  i \in Nat /\ i + 1 \in 1 .. Len(s) /\ t[i] = s[i + 1]
      BY <1>1 DEF t
    <2>3. ASSUME NEW i \in 1 .. Len(s) - 1, NEW j \in 1 .. Len(s) - 1,
                 t[i] = t[j]
          PROVE  i = j
      <3>1. i + 1 = j + 1
        BY <2>1, <2>2, <2>3
      <3>2. QED
        BY <2>2, <3>1
    <2>4. ASSUME NEW i \in 1 .. Len(s) - 1 PROVE t[i] # Head(s)
      <3>1. 1 \in 1 .. Len(s) /\ i + 1 # 1
        BY <1>1
      <3>2. QED
        BY <1>1, <2>1, <2>2, <3>1
    <2>5. QED
      BY <1>2, <2>3, <2>4 DEF IsInjective, Range, t
  <1>6. QED
    BY <1>1, <1>4, <1>5 DEF t

(* A line is put in front.                                                 *)
LEMMA InFront ==
  ASSUME NEW S, NEW s \in Seq(S), NEW e \in S
  PROVE  /\ <<e>> \o s \in Seq(S) /\ Len(<<e>> \o s) = Len(s) + 1
         /\ Head(<<e>> \o s) = e /\ <<e>> \o s # <<>>
         /\ Range(<<e>> \o s) = {e} \cup Range(s)
         /\ IsInjective(s) /\ e \notin Range(s) => IsInjective(<<e>> \o s)
  <1>1. /\ <<e>> \in Seq(S) /\ Len(<<e>>) = 1 /\ Len(s) \in Nat
        /\ Range(<<e>>) = {e} /\ IsInjective(<<e>>)
    BY LenProperties DEF Range, IsInjective
  <1> DEFINE u == <<e>>
             t == u \o s
  <1>2. u \in Seq(S) /\ Len(u) = 1 /\ Range(u) = {e} /\ IsInjective(u) /\ u[1] = e
    BY <1>1
  <1> HIDE DEF u
  <1>3. t \in Seq(S) /\ Len(t) = 1 + Len(s) /\ t[1] = e
    <2>1. /\ t \in Seq(S) /\ Len(t) = Len(u) + Len(s)
          /\ \A i \in 1 .. Len(u) + Len(s) :
               t[i] = IF i <= Len(u) THEN u[i] ELSE s[i - Len(u)]
      BY <1>2, ConcatProperties
    <2>2. 1 \in 1 .. Len(u) + Len(s) /\ 1 <= Len(u)
      BY <1>1, <1>2
    <2> HIDE DEF t
    <2>3. QED
      BY <1>2, <2>1, <2>2
  <1>4. Range(t) = {e} \cup Range(s)
    BY <1>2, RangeConcatenation
  <1>5. IsInjective(s) /\ e \notin Range(s) => IsInjective(t)
    BY <1>2, JoinInjective
  <1>6. t[1] = e /\ t # <<>>
    BY <1>1, <1>3, EmptySeq
  <1> HIDE DEF t
  <1>7. Head(t) = t[1]
    BY <1>3, <1>6, HeadTailProperties
  <1>8. QED
    BY <1>1, <1>3, <1>4, <1>5, <1>6, <1>7 DEF t, u

(* A line is put behind.                                                   *)
LEMMA AtTheEnd ==
  ASSUME NEW S, NEW s \in Seq(S), NEW e \in S
  PROVE  /\ Append(s, e) \in Seq(S) /\ Len(Append(s, e)) = Len(s) + 1
         /\ \A i \in 1 .. Len(s) : Append(s, e)[i] = s[i]
         /\ Append(s, e)[Len(s) + 1] = e
         /\ Range(Append(s, e)) = Range(s) \cup {e}
         /\ IsInjective(s) /\ e \notin Range(s) => IsInjective(Append(s, e))
  <1> DEFINE t == Append(s, e)
  <1>1. /\ t \in Seq(S) /\ Len(t) = Len(s) + 1 /\ Len(s) \in Nat
        /\ DOMAIN s = 1 .. Len(s)
        /\ \A i \in 1 .. Len(s) : t[i] = s[i]
        /\ t[Len(s) + 1] = e
    BY AppendProperties, LenProperties
  <1>2. DOMAIN t = 1 .. Len(s) + 1
    BY <1>1, LenProperties
  <1> HIDE DEF t
  <1>3. Range(t) = Range(s) \cup {e}
    BY <1>1, <1>2 DEF Range
  <1>4. IsInjective(s) /\ e \notin Range(s) => IsInjective(t)
    BY <1>1, <1>2 DEF Range, IsInjective
  <1>5. QED
    BY <1>1, <1>3, <1>4 DEF t

(* A list is cut in two in front of line k.                                *)
LEMMA CutInTwo ==
  ASSUME NEW S, NEW s \in Seq(S), NEW k \in 1 .. Len(s) + 1
  PROVE  LET front == SubSeq(s, 1, k - 1)
             rear == SubSeq(s, k, Len(s))
         IN  /\ front \in Seq(S) /\ Len(front) = k - 1
             /\ rear \in Seq(S) /\ Len(rear) = Len(s) - k + 1
             /\ Range(rear) = {s[i] : i \in k .. Len(s)}
             /\ Range(s) = Range(front) \cup Range(rear)
             /\ IsInjective(s) => /\ IsInjective(front) /\ IsInjective(rear)
                                  /\ Range(front) \cap Range(rear) = {}
  <1> DEFINE front == SubSeq(s, 1, k - 1)
             rear == SubSeq(s, k, Len(s))
  <1>1. /\ Len(s) \in Nat /\ k \in Int /\ DOMAIN s = 1 .. Len(s)
        /\ 1 \in 1 .. Len(s) + 1 /\ k - 1 \in 1 - 1 .. Len(s)
        /\ Len(s) \in k - 1 .. Len(s)
    BY LenProperties
  <1>2. /\ front \in Seq(S) /\ Len(front) = (k - 1) - 1 + 1
        /\ rear \in Seq(S) /\ Len(rear) = Len(s) - k + 1
    BY <1>1, Excerpt
  <1>3. /\ Range(front) = {s[i] : i \in 1 .. k - 1}
        /\ Range(rear) = {s[i] : i \in k .. Len(s)}
    BY <1>1, SliceRange
  <1>4. IsInjective(s) => IsInjective(front) /\ IsInjective(rear)
    BY <1>1, SliceInjective
  <1>5. Range(s) = {s[i] : i \in 1 .. Len(s)}
    BY RangeEquality
  <1>6. 1 .. Len(s) = (1 .. k - 1) \cup (k .. Len(s))
        /\ (1 .. k - 1) \cap (k .. Len(s)) = {}
    BY <1>1
  <1> HIDE DEF front, rear
  <1>7. Range(s) = Range(front) \cup Range(rear)
    BY <1>3, <1>5, <1>6
  <1>8. IsInjective(s) => Range(front) \cap Range(rear) = {}
    BY <1>1, <1>3, <1>6 DEF IsInjective
  <1>9. Len(front) = k - 1
    BY <1>1, <1>2
  <1>10. QED
    BY <1>2, <1>3, <1>4, <1>7, <1>8, <1>9 DEF front, rear

(* A list in which no line is linked twice has as many lines as positions. *)
LEMMA InjectiveCount ==
  ASSUME NEW S, NEW s \in Seq(S), IsInjective(s)
  PROVE  Cardinality(Range(s)) = Len(s)
  <1>1. Len(s) \in Nat /\ DOMAIN s = 1 .. Len(s)
    BY LenProperties
  <1>2. IsFiniteSet(1 .. Len(s)) /\ Cardinality(1 .. Len(s)) = Len(s)
    BY <1>1, FS_Interval
  <1>3. s \in Surjection(1 .. Len(s), Range(s)) /\ s \in Injection(1 .. Len(s), Range(s))
    BY <1>1 DEF Surjection, Injection, Range
  <1>4. QED
    BY <1>2, <1>3, FS_Surjection

(* The two parts of a joined list, as they come out of a cut.              *)
LEMMA TakenApart ==
  ASSUME NEW S, NEW s \in Seq(S), NEW t \in Seq(S)
  PROVE  /\ s \o t \in Seq(S) /\ Len(s \o t) = Len(s) + Len(t)
         /\ Len(s) \in Nat /\ Len(t) \in Nat
         /\ \A i \in 1 .. Len(s) : (s \o t)[i] = s[i]
         /\ \A i \in 1 .. Len(t) : (s \o t)[Len(s) + i] = t[i]
         /\ SubSeq(s \o t, 1, Len(s)) = s
         /\ SubSeq(s \o t, Len(s) + 1, Len(s) + Len(t)) = t
         /\ Range(s \o t) = Range(s) \cup Range(t)
         /\ IsInjective(s \o t) => /\ IsInjective(s) /\ IsInjective(t)
                                   /\ Range(s) \cap Range(t) = {}
  <1> DEFINE u == s \o t
  <1>1. Len(s) \in Nat /\ Len(t) \in Nat /\ Len(u) = Len(s) + Len(t) /\ u \in Seq(S)
    BY LenProperties, ConcatProperties
  <1>2. \A i \in 1 .. Len(s) : u[i] = s[i]
    BY <1>1, ConcatProperties
  <1>3. ASSUME NEW i \in 1 .. Len(t) PROVE u[Len(s) + i] = t[i]
    <2>1. Len(s) + i \in 1 .. Len(s) + Len(t) /\ ~(Len(s) + i <= Len(s))
            /\ (Len(s) + i) - Len(s) = i
      BY <1>1
    <2>2. QED
      BY <2>1, ConcatProperties
  <1>4. Range(u) = Range(s) \cup Range(t)
    BY RangeConcatenation
  <1> HIDE DEF u
  <1> DEFINE front == SubSeq(u, 1, Len(s))
             rear == SubSeq(u, Len(s) + 1, Len(s) + Len(t))
  <1>5. front = s
    <2>1. /\ front \in Seq(S) /\ Len(front) = Len(s)
          /\ \A i \in 1 .. Len(s) : front[i] = u[1 + i - 1]
      BY <1>1, Excerpt
    <2> HIDE DEF front
    <2>2. \A i \in 1 .. Len(s) : front[i] = s[i]
      BY <1>1, <1>2, <2>1
    <2>3. QED
      BY <2>1, <2>2, SeqEqual
  <1>6. rear = t
    <2>1. /\ rear \in Seq(S) /\ Len(rear) = Len(t)
          /\ \A i \in 1 .. Len(t) : rear[i] = u[Len(s) + 1 + i - 1]
      BY <1>1, Excerpt
    <2> HIDE DEF rear
    <2>2. \A i \in 1 .. Len(t) : rear[i] = t[i]
      BY <1>1, <1>3, <2>1
    <2>3. QED
      BY <2>1, <2>2, SeqEqual
  <1>7. ASSUME IsInjective(u)
        PROVE  IsInjective(s) /\ IsInjective(t) /\ Range(s) \cap Range(t) = {}
    <2>1. DOMAIN u = 1 .. Len(u) /\ DOMAIN s = 1 .. Len(s) /\ DOMAIN t = 1 .. Len(t)
      BY <1>1, LenProperties
    <2>2. \A i, j \in 1 .. Len(u) : u[i] = u[j] => i = j
      BY <1>7, <2>1 DEF IsInjective
    <2>3. IsInjective(s)
      BY <1>1, <1>2, <2>1, <2>2 DEF IsInjective
    <2>4. ASSUME NEW i \in 1 .. Len(t), NEW j \in 1 .. Len(t), t[i] = t[j] PROVE i = j
      <3>1. Len(s) + i \in 1 .. Len(u) /\ Len(s) + j \in 1 .. Len(u)
        BY <1>1
      <3>2. u[Len(s) + i] = u[Len(s) + j]
        BY <1>3, <2>4
      <3>3. Len(s) + i = Len(s) + j
        BY <2>2, <3>1, <3>2
      <3>4. QED
        BY <1>1, <3>3
    <2>5. ASSUME NEW i \in 1 .. Len(s), NEW j \in 1 .. Len(t), s[i] = t[j] PROVE FALSE
      <3>1. i \in 1 .. Len(u) /\ Len(s) + j \in 1 .. Len(u) /\ i # Len(s) + j
        BY <1>1
      <3>2. u[i] = u[Len(s) + j]
        BY <1>2, <1>3, <2>5
      <3>3. QED
        BY <2>2, <3>1, <3>2
    <2>6. QED
      BY <2>1, <2>3, <2>4, <2>5 DEF IsInjective, Range
  <1>8. QED
    BY <1>1, <1>2, <1>3, <1>4, <1>5, <1>6, <1>7 DEF u

-----------------------------------------------------------------------------
(***************************************************************************)
(* Counting up.                                                            *)
(***************************************************************************)
(* Induction over the natural numbers up to m, with the property given as  *)
(* the set of those that have it.                                          *)
LEMMA EveryUpTo ==
  ASSUME NEW m \in Nat, NEW T, 0 \in T, \A k \in 0 .. m - 1 : k \in T => k + 1 \in T
  PROVE  \A k \in 0 .. m : k \in T
  <1> DEFINE B == {k \in Nat : k <= m /\ k \notin T}
  <1> SUFFICES ASSUME B # {} PROVE FALSE
    OBVIOUS
  <1>1. PICK k \in B : \A n \in B : <<n, k>> \notin OpToRel(<, Nat)
    <2>1. B \subseteq Nat
      OBVIOUS
    <2> HIDE DEF B
    <2>2. QED
      BY <2>1, NatLessThanWellFounded, WFMin, Zenon
  <1>2. k \in Nat /\ k <= m /\ k \notin T /\ k # 0
    BY <1>1
  <1> DEFINE n == k - 1
  <1>3. n \in 0 .. m - 1 /\ n \in Nat /\ n < k /\ n + 1 = k /\ n <= m
    BY <1>2
  <1> HIDE DEF n
  <1>4. <<n, k>> \in OpToRel(<, Nat)
    BY <1>2, <1>3 DEF OpToRel
  <1>5. n \in T
    BY <1>1, <1>3, <1>4
  <1>6. QED
    BY <1>2, <1>3, <1>5

(* A function may be defined by its value for 0 and a step.                *)
Steps(f, n, b, step) == /\ f[0] = b
                        /\ \A k \in 0 .. n - 1 : f[k + 1] = step[k][f[k]]

LEMMA StepsTo ==
  ASSUME NEW S, NEW b \in S, NEW step \in [Nat -> [S -> S]], NEW n \in Nat
  PROVE  \E f \in [0 .. n -> S] : Steps(f, n, b, step)
  <1> DEFINE T == {k \in Nat : \E f \in [0 .. k -> S] : Steps(f, k, b, step)}
  <1>1. 0 \in T
    <2> DEFINE f == [k \in 0 .. 0 |-> b]
    <2>1. f \in [0 .. 0 -> S] /\ Steps(f, 0, b, step)
      BY DEF Steps
    <2>2. QED
      BY <2>1
  <1>2. ASSUME NEW k \in 0 .. n - 1, k \in T PROVE k + 1 \in T
    <2>1. PICK f \in [0 .. k -> S] : Steps(f, k, b, step)
      BY <1>2
    <2> DEFINE g == [j \in 0 .. k + 1 |-> IF j = k + 1 THEN step[k][f[k]] ELSE f[j]]
    <2>2. k \in Nat /\ k \in 0 .. k /\ step[k] \in [S -> S]
      OBVIOUS
    <2>3. step[k][f[k]] \in S
      BY <2>2
    <2>4. g \in [0 .. k + 1 -> S]
      <3>1. ASSUME NEW j \in 0 .. k + 1, j # k + 1 PROVE j \in 0 .. k
        BY <3>1
      <3>2. QED
        BY <2>3, <3>1
    <2>5. g[0] = b
      BY <2>1, <2>2 DEF Steps
    <2>6. ASSUME NEW j \in 0 .. k PROVE g[j + 1] = step[j][g[j]]
      <3>1. g[j] = f[j] /\ j + 1 \in 0 .. k + 1
        BY <2>2
      <3>2. CASE j = k
        BY <3>1, <3>2
      <3>3. CASE j # k
        <4>1. j \in 0 .. k - 1 /\ j + 1 # k + 1
          BY <3>3
        <4>2. f[j + 1] = step[j][f[j]]
          BY <2>1, <4>1 DEF Steps
        <4>3. QED
          BY <3>1, <4>1, <4>2
      <3>4. QED
        BY <3>2, <3>3
    <2> HIDE DEF g
    <2>7. Steps(g, k + 1, b, step)
      BY <2>2, <2>5, <2>6 DEF Steps
    <2>8. QED
      BY <2>2, <2>4, <2>7
  <1> HIDE DEF T
  <1>3. \A k \in 0 .. n : k \in T
    BY <1>1, <1>2, EveryUpTo
  <1>4. QED
    BY <1>3 DEF T

(* Steps that keep in step with a growing invariant: good[k] is what holds *)
(* after k of them.                                                        *)
LEMMA StepsStayGood ==
  ASSUME NEW n \in Nat, NEW S, NEW good \in [0 .. n -> SUBSET S], NEW b \in good[0],
         NEW step, \A k \in 0 .. n - 1 : \A x \in good[k] : step[k][x] \in good[k + 1]
  PROVE  \E f \in [0 .. n -> S] : /\ Steps(f, n, b, step)
                                  /\ \A k \in 0 .. n : f[k] \in good[k]
  <1> DEFINE safe == [k \in Nat |-> [x \in S |-> IF step[k][x] \in S THEN step[k][x]
                                                                     ELSE x]]
  <1>1. safe \in [Nat -> [S -> S]] /\ b \in S
    OBVIOUS
  <1>2. ASSUME NEW k \in 0 .. n - 1, NEW x \in good[k]
        PROVE  safe[k][x] = step[k][x] /\ step[k][x] \in good[k + 1]
    <2>1. step[k][x] \in good[k + 1] /\ k + 1 \in 0 .. n /\ k \in 0 .. n /\ k \in Nat
      BY <1>2
    <2>2. step[k][x] \in S /\ x \in S
      BY <2>1
    <2>3. QED
      BY <2>1, <2>2
  <1> HIDE DEF safe
  <1>3. PICK f \in [0 .. n -> S] : Steps(f, n, b, safe)
    BY <1>1, StepsTo
  <1> DEFINE T == {k \in Nat : f[k] \in good[k]}
  <1>4. 0 \in T
    BY <1>3 DEF Steps
  <1>5. ASSUME NEW k \in 0 .. n - 1, k \in T PROVE k + 1 \in T
    <2>1. f[k + 1] = safe[k][f[k]] /\ f[k] \in good[k]
      BY <1>3, <1>5 DEF Steps
    <2>2. QED
      BY <1>2, <2>1
  <1> HIDE DEF T
  <1>6. \A k \in 0 .. n : k \in T
    BY <1>4, <1>5, EveryUpTo
  <1>7. \A k \in 0 .. n : f[k] \in good[k]
    BY <1>6 DEF T
  <1>8. Steps(f, n, b, step)
    <2>1. ASSUME NEW k \in 0 .. n - 1 PROVE f[k + 1] = step[k][f[k]]
      <3>1. k \in 0 .. n
        OBVIOUS
      <3>2. QED
        BY <1>2, <1>3, <1>7, <3>1 DEF Steps
    <2>2. QED
      BY <1>3, <2>1 DEF Steps
  <1>9. QED
    BY <1>7, <1>8

(* It does not matter how far it is defined.                               *)
LEMMA SameSteps ==
  ASSUME NEW b, NEW step, NEW m \in Nat, NEW n \in Nat, m <= n, NEW f, NEW g,
         Steps(f, n, b, step), Steps(g, m, b, step)
  PROVE  \A k \in 0 .. m : f[k] = g[k]
  <1> DEFINE T == {k \in Nat : f[k] = g[k]}
  <1>1. 0 \in T
    BY DEF Steps
  <1>2. ASSUME NEW k \in 0 .. m - 1, k \in T PROVE k + 1 \in T
    <2>1. k \in 0 .. n - 1 /\ f[k] = g[k]
      BY <1>2
    <2>2. QED
      BY <2>1 DEF Steps
  <1> HIDE DEF T
  <1>3. \A k \in 0 .. m : k \in T
    BY <1>1, <1>2, EveryUpTo
  <1>4. QED
    BY <1>3 DEF T

Forever(f, b, step) == /\ f[0] = b
                       /\ \A k \in Nat : f[k + 1] = step[k][f[k]]

LEMMA StepsForever ==
  ASSUME NEW S, NEW b \in S, NEW step \in [Nat -> [S -> S]]
  PROVE  \E f \in [Nat -> S] : Forever(f, b, step)
  <1> DEFINE G(n) == CHOOSE f \in [0 .. n -> S] : Steps(f, n, b, step)
             F == [n \in Nat |-> G(n)[n]]
  <1>1. ASSUME NEW n \in Nat PROVE G(n) \in [0 .. n -> S] /\ Steps(G(n), n, b, step)
    BY StepsTo
  <1> HIDE DEF G
  <1>2. F \in [Nat -> S]
    <2>1. ASSUME NEW n \in Nat PROVE G(n)[n] \in S
      <3>1. n \in 0 .. n /\ G(n) \in [0 .. n -> S]
        BY <1>1
      <3>2. QED
        BY <3>1
    <2>2. QED
      BY <2>1
  <1>3. F[0] = b
    BY <1>1 DEF Steps
  <1>4. ASSUME NEW k \in Nat PROVE F[k + 1] = step[k][F[k]]
    <2>1. Steps(G(k + 1), k + 1, b, step) /\ Steps(G(k), k, b, step)
      BY <1>1
    <2>2. k \in 0 .. (k + 1) - 1 /\ k + 1 \in Nat /\ k <= k + 1 /\ k \in 0 .. k
      OBVIOUS
    <2>3. \A j \in 0 .. k : G(k + 1)[j] = G(k)[j]
      BY <2>1, <2>2, SameSteps
    <2>4. G(k + 1)[k + 1] = step[k][G(k + 1)[k]]
      BY <2>1, <2>2 DEF Steps
    <2>5. QED
      BY <2>2, <2>3, <2>4
  <1> HIDE DEF F
  <1>5. QED
    BY <1>2, <1>3, <1>4 DEF Forever

-----------------------------------------------------------------------------
(***************************************************************************)
(* Walking along the links.                                                *)
(***************************************************************************)
(* The lines of s are linked in this order, and the last one leads to end. *)
Linked(next, s, end) ==
  /\ \A i \in 1 .. Len(s) - 1 : next[s[i]] = s[i + 1]
  /\ s # <<>> => next[s[Len(s)]] = end

LEMMA WalkAlong ==
  ASSUME NEW S, NEW null, null \notin S, NEW next \in [S -> S \cup {null}],
         NEW stop, NEW n \in Nat
  PROVE  /\ Walk(next, null, null, stop, n) = <<>>
         /\ \A s \in Seq(S) :
              /\ s # <<>> /\ Len(s) <= n + 1
              /\ \A i \in 1 .. Len(s) - 1 : next[s[i]] = s[i + 1] /\ s[i + 1] # stop
              /\ next[s[Len(s)]] \in {stop, null}
              => Walk(next, null, s[1], stop, n) = s
  <1> DEFINE P == S \cup {null}
             L == [P -> Seq(S)]
             first == [e \in P |-> IF e = null THEN <<>> ELSE <<e>>]
             longer(g) == [e \in P |-> IF e = null THEN <<>>
                                       ELSE IF next[e] = stop THEN <<e>>
                                       ELSE <<e>> \o g[next[e]]]
             step == [k \in Nat |-> [g \in L |-> longer(g)]]
  <1>1. first \in L
    OBVIOUS
  <1>2. ASSUME NEW g \in L PROVE longer(g) \in L
    <2>1. ASSUME NEW e \in S PROVE <<e>> \o g[next[e]] \in Seq(S)
      BY ConcatProperties
    <2>2. QED
      BY <2>1
  <1> HIDE DEF L, longer
  <1>3. step \in [Nat -> [L -> L]] /\ \A k \in Nat, g \in L : step[k][g] = longer(g)
    BY <1>2
  <1> HIDE DEF first, step
  <1>4. PICK f \in [Nat -> L] : Forever(f, first, step)
    BY <1>1, <1>3, StepsForever, Zenon
  <1>5. f[0] = first /\ \A k \in Nat : f[k + 1] = longer(f[k])
    BY <1>3, <1>4 DEF Forever
  <1> DEFINE Eq(w) == w = [k \in 0 .. n |->
                             [e \in DOMAIN next \cup {null} |->
                                IF e = null THEN <<>>
                                ELSE IF k = 0 \/ next[e] = stop THEN <<e>>
                                ELSE <<e>> \o w[k - 1][next[e]]]]
             w0 == [k \in 0 .. n |-> f[k]]
             walk == CHOOSE w : Eq(w)
  <1>6. Eq(w0)
    <2>1. ASSUME NEW k \in 0 .. n
          PROVE  w0[k] = [e \in DOMAIN next \cup {null} |->
                            IF e = null THEN <<>>
                            ELSE IF k = 0 \/ next[e] = stop THEN <<e>>
                            ELSE <<e>> \o w0[k - 1][next[e]]]
      <3>1. CASE k = 0
        BY <1>5, <3>1 DEF first
      <3>2. CASE k # 0
        <4>1. k - 1 \in Nat /\ k - 1 \in 0 .. n /\ (k - 1) + 1 = k
          BY <3>2
        <4>2. w0[k] = longer(w0[k - 1])
          BY <1>5, <4>1
        <4>3. QED
          BY <3>2, <4>2 DEF longer
      <3>3. QED
        BY <3>1, <3>2
    <2>2. QED
      BY <2>1
  <1>7. Eq(walk)
    BY <1>6
  <1>8. ASSUME NEW p PROVE Walk(next, null, p, stop, n) = walk[n][p]
    BY DEF Walk
  <1> HIDE DEF walk
  <1>9. ASSUME NEW k \in 0 .. n
        PROVE  /\ walk[k][null] = <<>>
               /\ \A e \in S : walk[k][e] = IF k = 0 \/ next[e] = stop THEN <<e>>
                                            ELSE <<e>> \o walk[k - 1][next[e]]
    <2>1. walk[k] = [e \in DOMAIN next \cup {null} |->
                       IF e = null THEN <<>>
                       ELSE IF k = 0 \/ next[e] = stop THEN <<e>>
                       ELSE <<e>> \o walk[k - 1][next[e]]]
      BY <1>7, Zenon
    <2>2. DOMAIN next = S
      OBVIOUS
    <2>3. QED
      BY <2>1, <2>2
  <1> HIDE DEF Eq
  <1>10. ASSUME NEW s \in Seq(S), s # <<>>, Len(s) <= n + 1,
                \A i \in 1 .. Len(s) - 1 : next[s[i]] = s[i + 1] /\ s[i + 1] # stop,
                next[s[Len(s)]] \in {stop, null}
         PROVE  walk[n][s[1]] = s
    <2> DEFINE T == {k \in Nat : \A i \in 1 .. Len(s) :
                       Len(s) - i <= k => walk[k][s[i]] = SubSeq(s, i, Len(s))}
    <2>1. Len(s) \in Nat \ {0} /\ \A i \in 1 .. Len(s) : s[i] \in S
      BY <1>10, EmptySeq, ElementOfSeq
    <2>2. \A i \in 1 .. Len(s) : SubSeq(s, i, Len(s)) = <<s[i]>> \o SubSeq(s, i + 1, Len(s))
      BY <2>1, SubSeqRecursiveFirst
    <2>3. SubSeq(s, Len(s) + 1, Len(s)) = <<>>
      BY <2>1, SubSeqEmpty
    <2>4. SubSeq(s, Len(s), Len(s)) = <<s[Len(s)]>> /\ <<s[Len(s)]>> \o <<>> = <<s[Len(s)]>>
      <3>1. Len(s) \in 1 .. Len(s) /\ <<s[Len(s)]>> \in Seq(S)
        BY <2>1
      <3>2. QED
        BY <2>2, <2>3, <3>1, ConcatEmptySeq
    <2>5. 0 \in T
      <3>1. ASSUME NEW i \in 1 .. Len(s), Len(s) - i <= 0
            PROVE walk[0][s[i]] = SubSeq(s, i, Len(s))
        <4>1. i = Len(s)
          BY <2>1, <3>1
        <4>2. 0 \in 0 .. n /\ s[Len(s)] \in S
          BY <2>1
        <4>3. QED
          BY <1>9, <2>4, <4>1, <4>2
      <3>2. QED
        BY <3>1
    <2>6. ASSUME NEW k \in 0 .. n - 1, k \in T PROVE k + 1 \in T
      <3>1. k + 1 \in 0 .. n /\ k + 1 # 0 /\ (k + 1) - 1 = k /\ k \in 0 .. n /\ k + 1 \in Nat
        OBVIOUS
      <3>2. ASSUME NEW i \in 1 .. Len(s), Len(s) - i <= k + 1
            PROVE walk[k + 1][s[i]] = SubSeq(s, i, Len(s))
        <4>1. CASE i = Len(s)
          <5>1. s[Len(s)] \in S /\ walk[k][null] = <<>>
            BY <1>9, <2>1, <3>1
          <5>2. CASE next[s[Len(s)]] = stop
            BY <1>9, <2>4, <3>1, <4>1, <5>1, <5>2
          <5>3. CASE next[s[Len(s)]] # stop
            <6>1. next[s[Len(s)]] = null
              BY <1>10, <5>3
            <6>2. walk[k + 1][s[Len(s)]] = <<s[Len(s)]>> \o walk[k][null]
              BY <1>9, <3>1, <5>1, <5>3, <6>1
            <6>3. QED
              BY <2>4, <4>1, <5>1, <6>2
          <5>4. QED
            BY <5>2, <5>3
        <4>2. CASE i # Len(s)
          <5>1. i \in 1 .. Len(s) - 1 /\ i + 1 \in 1 .. Len(s) /\ Len(s) - (i + 1) <= k
            BY <2>1, <3>1, <3>2, <4>2
          <5>2. walk[k][s[i + 1]] = SubSeq(s, i + 1, Len(s))
            BY <2>6, <5>1
          <5>3. next[s[i]] = s[i + 1] /\ next[s[i]] # stop
            BY <1>10, <5>1
          <5>4. walk[k + 1][s[i]] = <<s[i]>> \o walk[k][s[i + 1]]
            BY <1>9, <2>1, <3>1, <5>3
          <5>5. QED
            BY <2>2, <5>2, <5>4
        <4>3. QED
          BY <4>1, <4>2
      <3>3. QED
        BY <3>1, <3>2
    <2>7. \A k \in 0 .. n : k \in T
      <3> HIDE DEF T
      <3>1. QED
        BY <2>5, <2>6, EveryUpTo
    <2>8. n \in T /\ 1 \in 1 .. Len(s) /\ Len(s) - 1 <= n
      BY <1>10, <2>1, <2>7
    <2>9. QED
      BY <2>8, SubSeqFull
  <1>11. walk[n][null] = <<>>
    BY <1>9
  <1>12. QED
    BY <1>8, <1>10, <1>11

(* A chain does not notice what is written elsewhere.                      *)
LEMMA Untouched ==
  ASSUME NEW mem, NEW mem2, NEW end, NEW s \in Seq(Elem), Linked(mem, s, end),
         \A e \in Range(s) : mem2[e] = mem[e]
  PROVE  Linked(mem2, s, end)
  <1>1. Len(s) \in Nat /\ \A i \in 1 .. Len(s) : s[i] \in Range(s)
    BY LenProperties DEF Range
  <1>2. ASSUME s # <<>> PROVE Len(s) \in 1 .. Len(s)
    BY <1>2, EmptySeq
  <1>3. QED
    BY <1>1, <1>2 DEF Linked

(* Two chains become one when the first is made to lead to the second.     *)
LEMMA Joined ==
  ASSUME NEW mem, NEW end, NEW s \in Seq(Elem), NEW t \in Seq(Elem), t # <<>>,
         Linked(mem, s, t[1]), Linked(mem, t, end)
  PROVE  Linked(mem, s \o t, end)
  <1> DEFINE u == s \o t
  <1>1. /\ Len(s) \in Nat /\ Len(t) \in Nat \ {0} /\ Len(u) = Len(s) + Len(t)
        /\ \A i \in 1 .. Len(s) : u[i] = s[i]
        /\ \A i \in 1 .. Len(t) : u[Len(s) + i] = t[i]
    <2>1. Len(s) \in Nat /\ Len(t) \in Nat \ {0}
      BY EmptySeq, LenProperties
    <2>2. /\ Len(u) = Len(s) + Len(t)
          /\ \A i \in 1 .. Len(s) + Len(t) :
               u[i] = IF i <= Len(s) THEN s[i] ELSE t[i - Len(s)]
      BY ConcatProperties
    <2> HIDE DEF u
    <2>3. ASSUME NEW i \in 1 .. Len(t) PROVE u[Len(s) + i] = t[i]
      <3>1. Len(s) + i \in 1 .. Len(s) + Len(t) /\ ~(Len(s) + i <= Len(s))
              /\ (Len(s) + i) - Len(s) = i
        BY <2>1
      <3>2. QED
        BY <2>2, <3>1
    <2>4. QED
      BY <2>1, <2>2, <2>3
  <1> HIDE DEF u
  <1>2. ASSUME NEW i \in 1 .. Len(u) - 1 PROVE mem[u[i]] = u[i + 1]
    <2>1. CASE i < Len(s)
      <3>1. i \in 1 .. Len(s) - 1 /\ i \in 1 .. Len(s) /\ i + 1 \in 1 .. Len(s)
        BY <1>1, <2>1
      <3>2. u[i] = s[i] /\ u[i + 1] = s[i + 1]
        BY <1>1, <3>1
      <3>3. QED
        BY <3>1, <3>2 DEF Linked
    <2>2. CASE i = Len(s)
      <3>1. s # <<>> /\ u[i] = s[Len(s)] /\ u[i + 1] = t[1]
        BY <1>1, <2>2, EmptySeq
      <3>2. QED
        BY <3>1 DEF Linked
    <2>3. CASE i > Len(s)
      <3> DEFINE j == i - Len(s)
      <3>1. j \in 1 .. Len(t) - 1 /\ j + 1 \in 1 .. Len(t) /\ j \in 1 .. Len(t)
              /\ i = Len(s) + j /\ i + 1 = Len(s) + (j + 1)
        BY <1>1, <2>3
      <3> HIDE DEF j
      <3>2. u[i] = t[j] /\ u[i + 1] = t[j + 1]
        BY <1>1, <3>1
      <3>3. QED
        BY <3>1, <3>2 DEF Linked
    <2>4. QED
      BY <1>1, <2>1, <2>2, <2>3
  <1>3. mem[u[Len(u)]] = end
    <2>1. u[Len(u)] = t[Len(t)]
      BY <1>1
    <2>2. QED
      BY <2>1 DEF Linked
  <1>4. QED
    BY <1>2, <1>3 DEF Linked, u

(* A part of a chain is one as long as its end is not looked at.           *)
LEMMA Parted ==
  ASSUME NEW mem, NEW end, NEW s \in Seq(Elem), NEW t \in Seq(Elem),
         Linked(mem, s \o t, end)
  PROVE  /\ \A i \in 1 .. Len(s) - 1 : mem[s[i]] = s[i + 1]
         /\ t # <<>> => Linked(mem, s, t[1])
         /\ t = <<>> => Linked(mem, s, end)
         /\ Linked(mem, t, end)
  <1> DEFINE u == s \o t
  <1>1. Len(s) \in Nat /\ Len(t) \in Nat /\ Len(u) = Len(s) + Len(t) /\ u \in Seq(Elem)
    BY LenProperties, ConcatProperties
  <1>2. \A i \in 1 .. Len(s) : u[i] = s[i]
    BY <1>1, ConcatProperties
  <1>3. ASSUME NEW i \in 1 .. Len(t) PROVE u[Len(s) + i] = t[i]
    <2>1. Len(s) + i \in 1 .. Len(s) + Len(t) /\ ~(Len(s) + i <= Len(s))
            /\ (Len(s) + i) - Len(s) = i
      BY <1>1
    <2>2. QED
      BY <2>1, ConcatProperties
  <1>4. /\ \A i \in 1 .. Len(u) - 1 : mem[u[i]] = u[i + 1]
        /\ u # <<>> => mem[u[Len(u)]] = end
    BY DEF Linked
  <1>5. u = <<>> <=> Len(u) = 0
    BY <1>1, EmptySeq
  <1>6. (s = <<>> <=> Len(s) = 0) /\ (t = <<>> <=> Len(t) = 0)
    BY EmptySeq
  <1> HIDE DEF u
  <1>7. ASSUME NEW i \in 1 .. Len(s) - 1 PROVE mem[s[i]] = s[i + 1]
    BY <1>1, <1>2, <1>4
  <1>8. ASSUME t # <<>>, s # <<>> PROVE mem[s[Len(s)]] = t[1]
    <2>1. Len(s) \in 1 .. Len(s) /\ Len(s) \in 1 .. Len(u) - 1 /\ 1 \in 1 .. Len(t)
      BY <1>1, <1>6, <1>8
    <2>2. QED
      BY <1>2, <1>3, <1>4, <2>1
  <1>9. ASSUME t = <<>>, s # <<>> PROVE mem[s[Len(s)]] = end
    BY <1>1, <1>2, <1>4, <1>5, <1>6, <1>9
  <1>10. ASSUME NEW i \in 1 .. Len(t) - 1 PROVE mem[t[i]] = t[i + 1]
    <2>1. Len(s) + i \in 1 .. Len(u) - 1 /\ (Len(s) + i) + 1 = Len(s) + (i + 1)
            /\ i \in 1 .. Len(t) /\ i + 1 \in 1 .. Len(t)
      BY <1>1
    <2>2. u[Len(s) + i] = t[i] /\ u[Len(s) + (i + 1)] = t[i + 1]
      BY <1>3, <2>1
    <2>3. mem[u[Len(s) + i]] = u[(Len(s) + i) + 1]
      BY <1>4, <2>1
    <2>4. QED
      BY <2>1, <2>2, <2>3
  <1>11. ASSUME t # <<>> PROVE mem[t[Len(t)]] = end
    <2>1. Len(u) > 0 /\ Len(t) \in 1 .. Len(t)
      BY <1>1, <1>6, <1>11
    <2>2. u[Len(u)] = t[Len(t)]
      BY <1>1, <1>3, <2>1
    <2>3. u # <<>>
      BY <1>5, <2>1
    <2>4. QED
      BY <1>4, <2>2, <2>3
  <1>12. QED
    BY <1>7, <1>8, <1>9, <1>10, <1>11 DEF Linked
=============================================================================
