----------------------- MODULE HeapGroupTestingProofs -----------------------
(***************************************************************************)
(* gt_eviction() on its linked lists implements gt_eviction() on           *)
(* sequences, step by step: what is proved in GroupTestingProofs for every *)
(* list, associativity and outcome of the tests holds of the pointer code. *)
(***************************************************************************)
EXTENDS HeapGroupTesting, ChunkOps, ListLemmas

Seqs == INSTANCE GroupTestingProofs

(***************************************************************************)
(* Lists in the heap.                                                      *)
(***************************************************************************)
Top(s) == IF s = <<>> THEN Null ELSE s[1]

(* The lines of s are linked both ways, and the last one leads to end.     *)
(* Where the first one points back to is not said.                         *)
Doubly(h, s, end) == /\ Linked(h.next, s, end)
                     /\ \A k \in 1 .. Len(s) - 1 : h.prev[s[k + 1]] = s[k]

IsList(h, p, s) == /\ s \in Seq(Elem) /\ IsInjective(s)
                   /\ Doubly(h, s, Null) /\ p = Top(s)

SameOutside(h, h2, T) == \A e \in Elem \ T : /\ h2.next[e] = h.next[e]
                                             /\ h2.prev[e] = h.prev[e]

LEMMA PtrType == Elem \subseteq Ptr /\ Null \in Ptr /\ Null \notin Elem
  BY NullAssumption DEF Ptr

LEMMA Ends ==
  ASSUME NEW s \in Seq(Elem), s # <<>>
  PROVE  /\ Len(s) \in Nat \ {0} /\ DOMAIN s = 1 .. Len(s)
         /\ Last(s) = s[Len(s)] /\ Last(s) \in Elem /\ Last(s) \in Range(s)
         /\ Top(s) = s[1] /\ s[1] \in Elem /\ s[1] \in Range(s)
         /\ IsInjective(s) => \A k \in 1 .. Len(s) - 1 : /\ s[k] # Last(s)
                                                         /\ s[k + 1] # s[1]
  <1> DEFINE size == Len(s)
  <1>1. size \in Nat \ {0} /\ DOMAIN s = 1 .. size
    BY EmptySeq, LenProperties
  <1>2. Last(s) = s[size] /\ Top(s) = s[1]
    BY DEF Last, Top
  <1> HIDE DEF size
  <1>3. size \in 1 .. size /\ 1 \in 1 .. size
    BY <1>1
  <1>4. \A k \in 1 .. size - 1 : /\ k \in 1 .. size /\ k # size
                                 /\ k + 1 \in 1 .. size /\ k + 1 # 1
    BY <1>1
  <1>5. IsInjective(s) => \A k \in 1 .. size - 1 : /\ s[k] # s[size]
                                                   /\ s[k + 1] # s[1]
    BY <1>1, <1>3, <1>4 DEF IsInjective
  <1>6. s[size] \in Range(s) /\ s[1] \in Range(s)
    BY <1>1, <1>3 DEF Range
  <1>7. s[size] \in Elem /\ s[1] \in Elem
    BY <1>3, ElementOfSeq DEF size
  <1>8. QED
    BY <1>1, <1>2, <1>5, <1>6, <1>7 DEF size

LEMMA TopType == ASSUME NEW s \in Seq(Elem)
                 PROVE  Top(s) \in Ptr /\ (Top(s) = Null <=> s = <<>>)
  <1>1. CASE s = <<>>
    BY <1>1, PtrType DEF Top
  <1>2. CASE s # <<>>
    BY <1>2, Ends, PtrType
  <1>3. QED
    BY <1>1, <1>2

(* How far a walk gets.                                                    *)
LEMMA UptoThere ==
  ASSUME NEW h \in Heap, NEW s \in Seq(Elem), s # <<>>, IsInjective(s), NEW stop,
         \A k \in 1 .. Len(s) - 1 : h.next[s[k]] = s[k + 1] /\ s[k + 1] # stop,
         h.next[s[Len(s)]] \in {stop, Null}
  PROVE  Upto(h, s[1], stop) = s
  <1> DEFINE size == Cardinality(Elem)
             next == h.next
  <1>1. size \in Nat /\ Len(s) \in Nat /\ Len(s) <= size + 1
    <2>1. Range(s) \subseteq Elem /\ Cardinality(Range(s)) = Len(s)
      BY RangeOfSeq, InjectiveCount
    <2>2. QED
      BY <2>1, ElemAssumption, FS_Subset, FS_CardinalityType, LenProperties
  <1>2. next \in [Elem -> Ptr]
    BY DEF Heap
  <1>3. Upto(h, s[1], stop) = Walk(next, Null, s[1], stop, size)
    BY DEF Upto
  <1> HIDE DEF size, next
  <1>4. Ptr = Elem \cup {Null} /\ Null \notin Elem
    BY NullAssumption DEF Ptr
  <1>5. Walk(next, Null, s[1], stop, size) = s
    BY <1>1, <1>2, <1>4, WalkAlong DEF next
  <1>6. QED
    BY <1>3, <1>5

LEMMA ChainOf ==
  ASSUME NEW h \in Heap, NEW p, NEW s, IsList(h, p, s)
  PROVE  Chain(h, p) = s /\ WellLinked(h, p)
  <1>1. /\ s \in Seq(Elem) /\ IsInjective(s) /\ Doubly(h, s, Null) /\ p = Top(s)
    BY DEF IsList
  <1>2. Chain(h, p) = s
    <2>1. CASE s = <<>>
      <3>1. Cardinality(Elem) \in Nat /\ h.next \in [Elem -> Elem \cup {Null}]
        BY ElemAssumption, FS_CardinalityType DEF Heap, Ptr
      <3>2. Walk(h.next, Null, Null, Null, Cardinality(Elem)) = <<>>
        BY <3>1, NullAssumption, WalkAlong
      <3>3. QED
        BY <1>1, <2>1, <3>2 DEF Chain, Upto, Top
    <2>2. CASE s # <<>>
      <3>1. \A k \in 1 .. Len(s) - 1 : h.next[s[k]] = s[k + 1] /\ s[k + 1] # Null
        <4>1. \A k \in 1 .. Len(s) - 1 : k + 1 \in 1 .. Len(s)
          BY <1>1, LenProperties
        <4>2. QED
          BY <1>1, <4>1, ElementOfSeq, PtrType DEF Doubly, Linked
      <3>2. h.next[s[Len(s)]] \in {Null, Null}
        BY <1>1, <2>2 DEF Doubly, Linked
      <3>3. p = s[1]
        BY <1>1, <2>2 DEF Top
      <3>4. s \in Seq(Elem) /\ IsInjective(s)
        BY <1>1
      <3>5. Upto(h, s[1], Null) = s
        BY <2>2, <3>1, <3>2, <3>4, UptoThere
      <3>6. QED
        BY <3>3, <3>5 DEF Chain
    <2>3. QED
      BY <2>1, <2>2
  <1>3. QED
    BY <1>1, <1>2 DEF WellLinked, Doubly

(* Nothing but the prev of its first line need be as it was.               *)
LEMMA Undisturbed ==
  ASSUME NEW h, NEW h2, NEW s \in Seq(Elem), NEW end, Doubly(h, s, end),
         \A e \in Range(s) : h2.next[e] = h.next[e],
         \A k \in 1 .. Len(s) - 1 : h2.prev[s[k + 1]] = h.prev[s[k + 1]]
  PROVE  Doubly(h2, s, end)
  BY Untouched DEF Doubly

LEMMA Elsewhere ==
  ASSUME NEW h, NEW h2, NEW T, SameOutside(h, h2, T), NEW s \in Seq(Elem), NEW end,
         Doubly(h, s, end), Range(s) \cap T = {}
  PROVE  Doubly(h2, s, end)
  <1>1. \A e \in Range(s) : h2.next[e] = h.next[e] /\ h2.prev[e] = h.prev[e]
    BY RangeOfSeq DEF SameOutside
  <1>2. \A k \in 1 .. Len(s) - 1 : s[k + 1] \in Range(s)
    <2>1. \A k \in 1 .. Len(s) - 1 : k + 1 \in 1 .. Len(s)
      BY LenProperties
    <2>2. QED
      BY <2>1, LenProperties DEF Range
  <1>3. QED
    BY <1>1, <1>2, Undisturbed

LEMMA ListElsewhere ==
  ASSUME NEW h, NEW h2, NEW T, SameOutside(h, h2, T), NEW p, NEW s,
         IsList(h, p, s), Range(s) \cap T = {}
  PROVE  IsList(h2, p, s)
  BY Elsewhere DEF IsList

(* A single write: g is h but for the next, or the prev, of the line e.     *)
NextSet(h, g, e, p) == /\ g \in Heap /\ g.prev = h.prev /\ g.next[e] = p
                       /\ \A x \in Elem \ {e} : g.next[x] = h.next[x]
PrevSet(h, g, e, p) == /\ g \in Heap /\ g.next = h.next /\ g.prev[e] = p
                       /\ \A x \in Elem \ {e} : g.prev[x] = h.prev[x]

LEMMA WritingNext ==
  ASSUME NEW h \in Heap, NEW e \in Elem, NEW p \in Ptr, NEW g, g = SetNext(h, e, p)
  PROVE  NextSet(h, g, e, p)
  BY PtrType DEF SetNext, Heap, NextSet

LEMMA WritingPrev ==
  ASSUME NEW h \in Heap, NEW e \in Elem, NEW p \in Ptr, NEW g, g = SetPrev(h, e, p)
  PROVE  PrevSet(h, g, e, p)
  BY PtrType DEF SetPrev, Heap, PrevSet

LEMMA WritingNull == \A h, p : SetNext(h, Null, p) = h /\ SetPrev(h, Null, p) = h
  BY DEF SetNext, SetPrev

(* The last line of a list is made to lead elsewhere.                      *)
LEMMA NewEnd ==
  ASSUME NEW h \in Heap, NEW s \in Seq(Elem), s # <<>>, IsInjective(s), NEW end,
         Doubly(h, s, end), NEW p \in Ptr
  PROVE  Doubly(SetNext(h, Last(s), p), s, p)
  <1> DEFINE g == SetNext(h, Last(s), p)
             x == Last(s)
             size == Len(s)
  <1>1. /\ x \in Elem /\ x = s[size] /\ size \in Nat \ {0} /\ s \in Seq(Elem)
        /\ \A k \in 1 .. size - 1 : s[k] # x
    BY Ends
  <1>2. /\ g.prev = h.prev /\ g.next[x] = p
        /\ \A e \in Elem \ {x} : g.next[e] = h.next[e]
    BY <1>1, WritingNext DEF NextSet
  <1>3. \A k \in 1 .. size - 1 : s[k] \in Elem
    <2>1. \A k \in 1 .. size - 1 : k \in 1 .. Len(s)
      BY <1>1
    <2>2. QED
      BY <2>1, ElementOfSeq
  <1>4. /\ \A k \in 1 .. size - 1 : h.next[s[k]] = s[k + 1] /\ h.prev[s[k + 1]] = s[k]
    BY DEF Doubly, Linked
  <1> HIDE DEF g, x, size
  <1>5. \A k \in 1 .. size - 1 : g.next[s[k]] = s[k + 1] /\ g.prev[s[k + 1]] = s[k]
    BY <1>1, <1>2, <1>3, <1>4
  <1>6. g.next[s[size]] = p
    BY <1>1, <1>2
  <1>7. Doubly(g, s, p)
    BY <1>5, <1>6 DEF Doubly, Linked, size
  <1>8. QED
    BY <1>7 DEF g, x

(* Two lists that lead into one another are one.                           *)
LEMMA OneList ==
  ASSUME NEW h \in Heap, NEW s \in Seq(Elem), NEW t \in Seq(Elem), s # <<>>, t # <<>>,
         NEW end, Doubly(h, s, t[1]), Doubly(h, t, end), h.prev[t[1]] = Last(s)
  PROVE  Doubly(h, s \o t, end)
  <1> DEFINE u == s \o t
             a == Len(s)
             b == Len(t)
  <1>1. a \in Nat \ {0} /\ b \in Nat \ {0} /\ Last(s) = s[a]
    BY Ends
  <1>2. /\ Len(u) = a + b
        /\ \A k \in 1 .. a : u[k] = s[k]
        /\ \A k \in 1 .. b : u[a + k] = t[k]
    BY TakenApart
  <1>3. Linked(h.next, u, end)
    BY Joined DEF Doubly
  <1>4. /\ \A k \in 1 .. a - 1 : h.prev[s[k + 1]] = s[k]
        /\ \A k \in 1 .. b - 1 : h.prev[t[k + 1]] = t[k]
    BY DEF Doubly
  <1> HIDE DEF u, a, b
  <1>5. ASSUME NEW k \in 1 .. Len(u) - 1 PROVE h.prev[u[k + 1]] = u[k]
    <2>1. CASE k < a
      <3>1. k \in 1 .. a - 1 /\ k \in 1 .. a /\ k + 1 \in 1 .. a
        BY <1>1, <2>1
      <3>2. QED
        BY <1>2, <1>4, <3>1
    <2>2. CASE k = a
      <3>1. k \in 1 .. a /\ 1 \in 1 .. b
        BY <1>1, <2>2
      <3>2. u[a + 1] = t[1] /\ u[a] = s[a]
        BY <1>2, <2>2, <3>1
      <3>3. QED
        BY <1>1, <2>2, <3>2
    <2>3. CASE k > a
      <3> DEFINE m == k - a
      <3>1. /\ m \in 1 .. b - 1 /\ m \in 1 .. b /\ m + 1 \in 1 .. b
            /\ k = a + m /\ k + 1 = a + (m + 1)
        BY <1>1, <1>2, <2>3
      <3> HIDE DEF m
      <3>2. u[a + m] = t[m] /\ u[a + (m + 1)] = t[m + 1]
        BY <1>2, <3>1
      <3>3. QED
        BY <1>4, <3>1, <3>2
    <2>4. QED
      BY <1>1, <2>1, <2>2, <2>3
  <1>6. QED
    BY <1>3, <1>5 DEF Doubly, u

LEMMA SameOutsideTwice ==
  ASSUME NEW f, NEW g, NEW h, NEW S, NEW T, SameOutside(f, g, S), SameOutside(g, h, T)
  PROVE  SameOutside(f, h, S \cup T)
  BY DEF SameOutside

(* list_concat() joins two lists that have no line in common.              *)
LEMMA Concatenated ==
  ASSUME NEW h \in Heap, NEW p, NEW s, NEW c, NEW t, IsList(h, p, s), IsList(h, c, t),
         Range(s) \cap Range(t) = {}
  PROVE  LET r == Concat(h, p, c)
         IN  /\ r.heap \in Heap /\ IsList(r.heap, r.ptr, s \o t)
             /\ SameOutside(h, r.heap, Range(s) \cup Range(t))
  <1> DEFINE r == Concat(h, p, c)
             u == s \o t
  <1>1. /\ s \in Seq(Elem) /\ IsInjective(s) /\ Doubly(h, s, Null) /\ p = Top(s)
        /\ t \in Seq(Elem) /\ IsInjective(t) /\ Doubly(h, t, Null) /\ c = Top(t)
    BY DEF IsList
  <1>2. CASE s = <<>>
    <2>1. p = Null /\ u = t
      BY <1>1, <1>2, TopType, ConcatEmptySeq
    <2>2. r.heap = h /\ r.ptr = c
      BY <2>1 DEF Concat
    <2>3. QED
      BY <2>1, <2>2 DEF SameOutside
  <1>3. CASE s # <<>> /\ t = <<>>
    <2>1. c = Null /\ u = s
      BY <1>1, <1>3, TopType, ConcatEmptySeq
    <2>2. p # Null /\ Chain(h, p) = s
      BY <1>1, <1>3, TopType, ChainOf
    <2> DEFINE end == Last(s)
               g == SetNext(h, end, Null)
    <2>3. r.heap = g /\ r.ptr = p
      BY <2>1, <2>2, WritingNull DEF Concat
    <2>4. end \in Elem /\ end \in Range(s) /\ Null \in Ptr
      BY <1>1, <1>3, Ends, PtrType
    <2>5. Doubly(g, s, Null)
      BY <1>1, <1>3, <2>4, NewEnd
    <2>6. g \in Heap /\ g.prev = h.prev /\ \A e \in Elem \ {end} : g.next[e] = h.next[e]
      BY <2>4, WritingNext DEF NextSet
    <2> HIDE DEF g, end
    <2>7. SameOutside(h, g, Range(s) \cup Range(t))
      BY <2>4, <2>6 DEF SameOutside
    <2>8. QED
      BY <1>1, <2>1, <2>3, <2>5, <2>6, <2>7 DEF IsList
  <1>4. CASE s # <<>> /\ t # <<>>
    <2> DEFINE end == Last(s)
               g == SetNext(h, end, c)
               f == SetPrev(g, c, end)
    <2>1. p # Null /\ Chain(h, p) = s /\ c # Null
      BY <1>1, <1>4, TopType, ChainOf
    <2>2. r.heap = f /\ r.ptr = p
      BY <2>1 DEF Concat
    <2>3. /\ end \in Elem /\ end \in Range(s) /\ end \in Ptr /\ c \in Ptr
          /\ c = t[1] /\ c \in Elem /\ c \in Range(t) /\ s[1] = Top(s)
      BY <1>1, <1>4, Ends, PtrType
    <2>4. Doubly(g, s, c)
      BY <1>1, <1>4, <2>3, NewEnd
    <2>5. g \in Heap /\ g.prev = h.prev /\ \A e \in Elem \ {end} : g.next[e] = h.next[e]
      BY <2>3, WritingNext DEF NextSet
    <2> HIDE DEF g, end
    <2>6. f = SetPrev(g, c, end)
      OBVIOUS
    <2> HIDE DEF f
    <2>7. /\ f \in Heap /\ f.next = g.next /\ f.prev[c] = end
          /\ \A e \in Elem \ {c} : f.prev[e] = g.prev[e]
      <3>1. g \in Heap /\ c \in Elem /\ end \in Ptr
        BY <2>3, <2>5
      <3>2. QED
        BY <2>6, <3>1, WritingPrev DEF PrevSet
    <2> USE DEF end
    <2>8. Doubly(f, s, c)
      <3>1. SameOutside(g, f, Range(t))
        BY <2>3, <2>7 DEF SameOutside
      <3>2. QED
        BY <1>1, <2>4, <3>1, Elsewhere
    <2>9. Doubly(f, t, Null)
      <3>1. \A e \in Range(t) : f.next[e] = h.next[e]
        BY <1>1, <2>3, <2>5, <2>7, RangeOfSeq
      <3>2. \A k \in 1 .. Len(t) - 1 : f.prev[t[k + 1]] = h.prev[t[k + 1]]
        <4>1. ASSUME NEW k \in 1 .. Len(t) - 1 PROVE t[k + 1] \in Elem /\ t[k + 1] # c
          <5>1. k + 1 \in 1 .. Len(t)
            BY <1>1, LenProperties
          <5>2. QED
            BY <1>1, <1>4, <2>3, <5>1, Ends, ElementOfSeq
        <4>2. QED
          BY <2>5, <2>7, <4>1
      <3>3. QED
        BY <1>1, <3>1, <3>2, Undisturbed
    <2>10. Doubly(f, u, Null)
      BY <1>1, <1>4, <2>3, <2>7, <2>8, <2>9, OneList
    <2>11. u \in Seq(Elem) /\ IsInjective(u)
      BY <1>1, JoinInjective, ConcatProperties
    <2>12. Top(u) = p
      <3>1. 1 \in 1 .. Len(s)
        BY <1>1, <1>4, Ends
      <3>2. u[1] = s[1] /\ Len(u) > 0
        BY <1>1, <3>1, TakenApart
      <3>3. u # <<>>
        BY <2>11, <3>2, EmptySeq
      <3>4. QED
        BY <1>1, <2>3, <3>2, <3>3 DEF Top
    <2>13. SameOutside(h, f, Range(s) \cup Range(t))
      BY <2>3, <2>5, <2>7 DEF SameOutside
    <2> HIDE DEF u
    <2>14. QED
      BY <2>2, <2>7, <2>10, <2>11, <2>12, <2>13 DEF IsList, u
  <1>5. QED
    BY <1>2, <1>3, <1>4

(* And back: either part of a list is one.                                 *)
LEMMA TwoLists ==
  ASSUME NEW h \in Heap, NEW s \in Seq(Elem), NEW t \in Seq(Elem), s # <<>>, t # <<>>,
         NEW end, Doubly(h, s \o t, end)
  PROVE  Doubly(h, s, t[1]) /\ Doubly(h, t, end) /\ h.prev[t[1]] = Last(s)
  <1> DEFINE u == s \o t
             a == Len(s)
             b == Len(t)
  <1>1. a \in Nat \ {0} /\ b \in Nat \ {0} /\ Last(s) = s[a]
    BY Ends
  <1>2. /\ Len(u) = a + b
        /\ \A k \in 1 .. a : u[k] = s[k]
        /\ \A k \in 1 .. b : u[a + k] = t[k]
    BY TakenApart
  <1>3. Linked(h.next, s, t[1]) /\ Linked(h.next, t, end)
    BY Parted DEF Doubly
  <1>4. \A k \in 1 .. Len(u) - 1 : h.prev[u[k + 1]] = u[k]
    BY DEF Doubly
  <1> HIDE DEF u, a, b
  <1>5. ASSUME NEW k \in 1 .. a - 1 PROVE h.prev[s[k + 1]] = s[k]
    <2>1. k \in 1 .. a /\ k + 1 \in 1 .. a /\ k \in 1 .. Len(u) - 1
      BY <1>1, <1>2
    <2>2. QED
      BY <1>2, <1>4, <2>1
  <1>6. h.prev[t[1]] = s[a]
    <2>1. a \in 1 .. a /\ 1 \in 1 .. b /\ a \in 1 .. Len(u) - 1
      BY <1>1, <1>2
    <2>2. u[a + 1] = t[1] /\ u[a] = s[a]
      BY <1>2, <2>1
    <2>3. QED
      BY <1>4, <2>1, <2>2
  <1>7. ASSUME NEW k \in 1 .. b - 1 PROVE h.prev[t[k + 1]] = t[k]
    <2>1. /\ k \in 1 .. b /\ k + 1 \in 1 .. b /\ a + k \in 1 .. Len(u) - 1
          /\ a + (k + 1) = (a + k) + 1
      BY <1>1, <1>2
    <2>2. u[a + (k + 1)] = t[k + 1] /\ u[a + k] = t[k]
      BY <1>2, <2>1
    <2>3. QED
      BY <1>4, <2>1, <2>2
  <1>8. QED
    BY <1>1, <1>3, <1>5, <1>6, <1>7 DEF Doubly, a, b

(* One cut of list_split(): between the lines a and the lines z.           *)
LEMMA CutOff ==
  ASSUME NEW h \in Heap, NEW p, NEW a \in Seq(Elem), NEW z \in Seq(Elem), a # <<>>,
         IsList(h, p, a \o z), NEW f, NEW g, f = SetPrev(h, p, Null),
         g = IF Top(z) = Null THEN f ELSE SetNext(f, f.prev[Top(z)], Null)
  PROVE  /\ g \in Heap /\ IsList(g, p, a) /\ IsList(g, Top(z), z)
         /\ SameOutside(h, g, Range(a))
  <1> DEFINE u == a \o z
  <1>1. u \in Seq(Elem) /\ IsInjective(u) /\ Doubly(h, u, Null) /\ p = Top(u)
    BY DEF IsList
  <1>2. IsInjective(a) /\ IsInjective(z) /\ Range(a) \cap Range(z) = {}
    BY <1>1, TakenApart
  <1>3. /\ Top(a) = a[1] /\ a[1] \in Elem /\ a[1] \in Range(a)
        /\ \A k \in 1 .. Len(a) - 1 : a[k + 1] # a[1]
    BY <1>2, Ends
  <1>4. p = a[1]
    <2>1. 1 \in 1 .. Len(a) /\ Len(a) > 0
      BY Ends
    <2>2. u[1] = a[1] /\ Len(u) > 0
      BY <2>1, TakenApart
    <2> HIDE DEF u
    <2>3. QED
      BY <1>1, <2>2, EmptySeq DEF Top
  <1>5. /\ f \in Heap /\ f.next = h.next /\ \A e \in Elem \ {p} : f.prev[e] = h.prev[e]
    <2>1. p \in Elem /\ Null \in Ptr
      BY <1>3, <1>4, PtrType
    <2>2. QED
      BY <2>1, WritingPrev DEF PrevSet
  <1>6. ASSUME NEW end, Doubly(h, a, end) PROVE Doubly(f, a, end)
    <2>1. \A k \in 1 .. Len(a) - 1 : a[k + 1] \in Elem \ {p}
      <3>1. \A k \in 1 .. Len(a) - 1 : k + 1 \in 1 .. Len(a)
        BY LenProperties
      <3>2. QED
        BY <1>3, <1>4, <3>1, ElementOfSeq
    <2>2. QED
      BY <1>5, <1>6, <2>1, Undisturbed
  <1>7. CASE z = <<>>
    <2>1. u = a /\ Top(z) = Null
      BY <1>7, ConcatEmptySeq, TopType
    <2>2. g = f
      BY <2>1
    <2>3. Doubly(f, a, Null)
      BY <1>1, <1>6, <2>1
    <2>4. SameOutside(h, f, Range(a))
      BY <1>3, <1>4, <1>5 DEF SameOutside
    <2>5. IsList(f, Top(z), z)
      <3>1. Len(z) = 0
        BY <1>7
      <3>2. QED
        BY <1>2, <1>7, <3>1 DEF IsList, Doubly, Linked
    <2>6. QED
      BY <1>2, <1>3, <1>4, <1>5, <2>2, <2>3, <2>4, <2>5 DEF IsList
  <1>8. CASE z # <<>>
    <2>1. Doubly(h, a, z[1]) /\ Doubly(h, z, Null) /\ h.prev[z[1]] = Last(a)
      BY <1>1, <1>8, TwoLists
    <2>2. /\ Top(z) = z[1] /\ z[1] \in Elem /\ z[1] \in Range(z) /\ z[1] # Null
          /\ Last(a) \in Elem /\ Last(a) \in Range(a)
      BY <1>8, Ends, PtrType
    <2>3. f.prev[z[1]] = Last(a)
      BY <1>2, <1>3, <1>4, <1>5, <2>1, <2>2
    <2>4. g = SetNext(f, Last(a), Null)
      BY <2>2, <2>3
    <2> DEFINE x == Last(a)
    <2>5. x \in Elem /\ x \in Range(a) /\ Null \in Ptr /\ g = SetNext(f, x, Null)
      BY <2>2, <2>4, PtrType
    <2>6. Doubly(g, a, Null)
      BY <1>2, <1>5, <1>6, <2>1, <2>5, NewEnd
    <2> HIDE DEF x
    <2>7. SameOutside(h, g, Range(a)) /\ g \in Heap
      <3>1. g \in Heap /\ g.prev = f.prev /\ \A e \in Elem \ {x} : g.next[e] = f.next[e]
        <4>1. f \in Heap /\ x \in Elem /\ Null \in Ptr
          BY <1>5, <2>5
        <4>2. NextSet(f, SetNext(f, x, Null), x, Null)
          BY <4>1, WritingNext
        <4>3. QED
          BY <2>5, <4>2 DEF NextSet
      <3>2. QED
        BY <1>3, <1>4, <1>5, <2>5, <3>1 DEF SameOutside
    <2>8. Doubly(g, z, Null)
      BY <1>2, <2>1, <2>7, Elsewhere
    <2>9. QED
      BY <1>2, <1>3, <1>4, <2>6, <2>7, <2>8 DEF IsList
  <1>9. QED
    BY <1>7, <1>8

-----------------------------------------------------------------------------
(***************************************************************************)
(* Cutting a list up.                                                      *)
(***************************************************************************)
(* This module and GroupTestingProofs speak of the same chunks.            *)
LEMMA SameOps ==
  /\ Abstract!Chunks = Chunks /\ Seqs!Chunks = Chunks
  /\ \A s, j : /\ Seqs!First(s, j) = First(s, j) /\ Seqs!Final(s, j) = Final(s, j)
               /\ Seqs!Chunk(s, j) = Chunk(s, j) /\ Seqs!Without(s, j) = Without(s, j)
  /\ \A s : Seqs!IsInjective(s) = IsInjective(s) /\ Seqs!Range(s) = Range(s)
  <1>1. Abstract!Chunks = Chunks /\ Seqs!Chunks = Chunks
    BY DEF Abstract!Chunks, Seqs!Chunks, Chunks
  <1>2. \A s, j : Seqs!First(s, j) = First(s, j) /\ Seqs!Final(s, j) = Final(s, j)
    BY <1>1, Zenon DEF Seqs!First, Seqs!Final, First, Final
  <1>3. \A s, j : Seqs!Chunk(s, j) = Chunk(s, j) /\ Seqs!Without(s, j) = Without(s, j)
    BY <1>2, Zenon DEF Seqs!Chunk, Seqs!Without, Chunk, Without
  <1>4. \A s : Seqs!IsInjective(s) = IsInjective(s) /\ Seqs!Range(s) = Range(s)
    BY Zenon DEF Seqs!IsInjective, IsInjective, Seqs!Range, Range
  <1>5. QED
    BY <1>1, <1>2, <1>3, <1>4, Zenon

LEMMA Instantiable ==
  /\ Target \in Nat \ {0} /\ MaxRepsBack \in Nat /\ Groupings \subseteq SUBSET SUBSET Elem
  /\ \A s \in Candidates : s \in Seq(Elem) /\ Seqs!IsInjective(s)
  BY TargetAssumption, MaxRepsBackAssumption, GroupingsAssumption,
     CandidatesAssumption, SameOps

LEMMA ChunkBounds ==
  ASSUME NEW s \in Seq(Elem), NEW j \in 1 .. Chunks
  PROVE  /\ First(s, j) \in 1 .. Len(s) + 1
         /\ Final(s, j) \in First(s, j) - 1 .. Len(s)
  BY Instantiable, SameOps, Seqs!Bounds

LEMMA ChunkParts ==
  ASSUME NEW s \in Seq(Elem), NEW j \in 1 .. Chunks
  PROVE  /\ Chunk(s, j) \in Seq(Elem) /\ Without(s, j) \in Seq(Elem)
         /\ Len(Chunk(s, j)) + Len(Without(s, j)) = Len(s)
         /\ Range(Chunk(s, j)) \cup Range(Without(s, j)) = Range(s)
         /\ IsInjective(s) =>
              /\ IsInjective(Chunk(s, j)) /\ IsInjective(Without(s, j))
              /\ Range(Chunk(s, j)) \cap Range(Without(s, j)) = {}
  BY Instantiable, SameOps, Seqs!ChunkSplits

LEMMA ChunksDisjoint ==
  ASSUME NEW s \in Seq(Elem), IsInjective(s), NEW j \in 1 .. Chunks,
         NEW k \in 1 .. Chunks, j # k
  PROVE  Range(Chunk(s, j)) \cap Range(Chunk(s, k)) = {}
  <1>1. Range(Chunk(s, j)) \subseteq Range(Without(s, k))
    BY Instantiable, SameOps, Seqs!ChunksApart
  <1>2. QED
    BY <1>1, ChunkParts

(* A stretch of a list is its first part and what follows.                 *)
LEMMA Divided ==
  ASSUME NEW s \in Seq(Elem), NEW a \in 1 .. Len(s) + 1, NEW b \in a - 1 .. Len(s),
         NEW c \in b .. Len(s)
  PROVE  /\ SubSeq(s, a, b) \in Seq(Elem) /\ SubSeq(s, b + 1, c) \in Seq(Elem)
         /\ Len(SubSeq(s, a, b)) = b - a + 1
         /\ SubSeq(s, a, c) = SubSeq(s, a, b) \o SubSeq(s, b + 1, c)
  <1> DEFINE x == SubSeq(s, a, b)
             y == SubSeq(s, b + 1, c)
             z == SubSeq(s, a, c)
             u == x \o y
  <1>1. /\ a \in Nat /\ b \in Nat /\ c \in Nat /\ Len(s) \in Nat
        /\ c \in a - 1 .. Len(s) /\ b + 1 \in 1 .. Len(s) + 1
        /\ c \in (b + 1) - 1 .. Len(s)
    BY LenProperties
  <1>2. /\ x \in Seq(Elem) /\ Len(x) = b - a + 1
        /\ \A k \in 1 .. b - a + 1 : x[k] = s[a + k - 1]
    BY Excerpt
  <1>3. /\ y \in Seq(Elem) /\ Len(y) = c - (b + 1) + 1
        /\ \A k \in 1 .. c - (b + 1) + 1 : y[k] = s[(b + 1) + k - 1]
    BY <1>1, Excerpt
  <1>4. /\ z \in Seq(Elem) /\ Len(z) = c - a + 1
        /\ \A k \in 1 .. c - a + 1 : z[k] = s[a + k - 1]
    BY <1>1, Excerpt
  <1> HIDE DEF x, y, z
  <1>5. /\ u \in Seq(Elem) /\ Len(u) = Len(x) + Len(y)
        /\ \A k \in 1 .. Len(x) : u[k] = x[k]
        /\ \A k \in 1 .. Len(y) : u[Len(x) + k] = y[k]
    <2>1. x \in Seq(Elem) /\ y \in Seq(Elem)
      BY <1>2, <1>3
    <2>2. QED
      BY <2>1, TakenApart
  <1> HIDE DEF u
  <1>6. Len(u) = Len(z)
    BY <1>1, <1>2, <1>3, <1>4, <1>5
  <1>7. ASSUME NEW k \in 1 .. Len(u) PROVE u[k] = z[k]
    <2>1. CASE k <= Len(x)
      <3>1. k \in 1 .. Len(x) /\ k \in 1 .. b - a + 1 /\ k \in 1 .. c - a + 1
        BY <1>1, <1>2, <1>3, <1>5, <2>1
      <3>2. QED
        BY <1>2, <1>4, <1>5, <3>1
    <2>2. CASE k > Len(x)
      <3> DEFINE m == k - Len(x)
      <3>1. /\ m \in 1 .. Len(y) /\ m \in 1 .. c - (b + 1) + 1 /\ k = Len(x) + m
            /\ k \in 1 .. c - a + 1 /\ (b + 1) + m - 1 = a + k - 1
        BY <1>1, <1>2, <1>3, <1>5, <2>2
      <3> HIDE DEF m
      <3>2. u[Len(x) + m] = y[m] /\ y[m] = s[(b + 1) + m - 1] /\ z[k] = s[a + k - 1]
        BY <1>3, <1>4, <1>5, <3>1
      <3>3. QED
        BY <3>1, <3>2
    <2>3. QED
      BY <1>2, <2>1, <2>2, <1>1
  <1>8. u = z
    BY <1>4, <1>5, <1>6, <1>7, SeqEqual
  <1>9. QED
    BY <1>2, <1>3, <1>8 DEF x, y, z, u

(* What is left of the list after j cuts.                                  *)
Rest(s, j) == SubSeq(s, Final(s, j) + 1, Len(s))

LEMMA ChunkOff ==
  ASSUME NEW s \in Seq(Elem), Len(s) > Target
  PROVE  /\ Rest(s, 0) = s /\ Rest(s, Chunks) = <<>>
         /\ \A j \in 1 .. Chunks :
              /\ Rest(s, j - 1) = Chunk(s, j) \o Rest(s, j)
              /\ Chunk(s, j) \in Seq(Elem) /\ Rest(s, j) \in Seq(Elem)
              /\ Chunk(s, j) # <<>>
              /\ Len(Chunk(s, j)) = IF j = Chunks THEN Len(Rest(s, j - 1))
                                                  ELSE Len(s) \div Chunks
  <1> DEFINE k == Len(s) \div Chunks
             size == Len(s)
  <1>1. size \in Nat /\ Chunks \in Nat /\ Chunks > 1 /\ size >= Chunks
    BY TargetAssumption, LenProperties DEF Chunks
  <1>2. k \in Nat /\ k >= 1
    BY <1>1
  <1>3. k * Chunks <= size
    BY <1>1
  <1>4. /\ \A j : First(s, j) = (j - 1) * k + 1
        /\ \A j : j # Chunks => Final(s, j) = j * k
        /\ Final(s, Chunks) = size
    BY DEF First, Final
  <1> HIDE DEF k
  <1>5. Final(s, 0) = 0 /\ Final(s, Chunks) = size
    BY <1>1, <1>2, <1>4
  <1>6. Rest(s, 0) = s
    <2>1. 0 + 1 = 1 /\ SubSeq(s, 1, Len(s)) = s
      BY <1>1, SubSeqFull
    <2>2. QED
      BY <1>5, <2>1 DEF Rest
  <1>7. Rest(s, Chunks) = <<>>
    <2>1. size + 1 \in 1 .. Len(s) + 1 /\ size \in (size + 1) - 1 .. Len(s)
      BY <1>1
    <2>2. SubSeq(s, size + 1, size) \in Seq(Elem) /\ Len(SubSeq(s, size + 1, size)) = 0
      <3>1. Len(SubSeq(s, size + 1, size)) = size - (size + 1) + 1
        BY <2>1, Excerpt
      <3>2. QED
        BY <1>1, <2>1, <3>1, Excerpt
    <2>3. QED
      BY <1>5, <2>2, EmptySeq DEF Rest
  <1>8. ASSUME NEW j \in 1 .. Chunks
        PROVE  /\ Rest(s, j - 1) = Chunk(s, j) \o Rest(s, j)
               /\ Chunk(s, j) \in Seq(Elem) /\ Rest(s, j) \in Seq(Elem)
               /\ Chunk(s, j) # <<>>
               /\ Len(Chunk(s, j)) = IF j = Chunks THEN Len(Rest(s, j - 1)) ELSE k
    <2> DEFINE a == First(s, j)
               b == Final(s, j)
    <2>1. a \in 1 .. size + 1 /\ b \in a - 1 .. size /\ j \in Nat
      BY <1>1, ChunkBounds
    <2>2. Final(s, j - 1) + 1 = a
      <3>1. j - 1 # Chunks
        BY <1>1
      <3>2. QED
        BY <1>4, <3>1
    <2>3. j # Chunks => b = (j - 1) * k + k /\ a = (j - 1) * k + 1 /\ (j - 1) * k \in Nat
      <3>1. j * k = (j - 1) * k + k /\ (j - 1) * k \in Nat
        BY <1>1, <1>2, <2>1
      <3>2. QED
        BY <1>4, <3>1
    <2>4. j = Chunks => b = size /\ a <= size
      <3>1. (Chunks - 1) * k + k = k * Chunks /\ (Chunks - 1) * k \in Nat
        BY <1>1, <1>2
      <3>2. (Chunks - 1) * k + 1 <= size
        BY <1>1, <1>2, <1>3, <3>1
      <3>3. QED
        BY <1>4, <3>2
    <2> HIDE DEF a, b
    <2>5. /\ SubSeq(s, a, b) \in Seq(Elem) /\ SubSeq(s, b + 1, size) \in Seq(Elem)
          /\ Len(SubSeq(s, a, b)) = b - a + 1
          /\ SubSeq(s, a, size) = SubSeq(s, a, b) \o SubSeq(s, b + 1, size)
      <3>1. size \in b .. size
        BY <1>1, <2>1
      <3>2. QED
        BY <2>1, <3>1, Divided
    <2>6. /\ Chunk(s, j) = SubSeq(s, a, b) /\ Rest(s, j) = SubSeq(s, b + 1, size)
          /\ Rest(s, j - 1) = SubSeq(s, a, size)
      BY <2>2 DEF Chunk, Rest, a, b
    <2>7. b - a + 1 >= 1 /\ (j # Chunks => b - a + 1 = k)
      BY <1>1, <1>2, <2>1, <2>3, <2>4
    <2>8. Chunk(s, j) # <<>>
      <3>1. Len(Chunk(s, j)) >= 1
        BY <2>5, <2>6, <2>7
      <3>2. QED
        BY <3>1
    <2>9. j = Chunks => Len(Chunk(s, j)) = Len(Rest(s, j - 1))
      BY <2>4, <2>6
    <2>10. QED
      BY <2>5, <2>6, <2>7, <2>8, <2>9
  <1>9. QED
    BY <1>6, <1>7, <1>8 DEF k

(* After j of the cuts.                                                    *)
Pieces == [heap : Heap, at : Ptr, chunks : Seq(Ptr)]

CutUp(h, s, x, j) ==
  /\ x \in Pieces /\ Len(x.chunks) = j
  /\ \A m \in 1 .. j : IsList(x.heap, x.chunks[m], Chunk(s, m))
  /\ IsList(x.heap, x.at, Rest(s, j))
  /\ SameOutside(h, x.heap, Range(s))

LEMMA CutOnce ==
  ASSUME NEW h, NEW s \in Seq(Elem), IsInjective(s), Len(s) > Target,
         NEW j \in 1 .. Chunks, NEW x, CutUp(h, s, x, j - 1),
         NEW f, f = SetPrev(x.heap, x.at, Null), NEW q, q = Top(Rest(s, j)),
         NEW g, g = IF q = Null THEN f ELSE SetNext(f, f.prev[q], Null),
         NEW y, y = [heap |-> g, at |-> q, chunks |-> Append(x.chunks, x.at)]
  PROVE  CutUp(h, s, y, j)
  <1> DEFINE a == Chunk(s, j)
             z == Rest(s, j)
  <1>1. /\ a \in Seq(Elem) /\ z \in Seq(Elem) /\ a # <<>> /\ Rest(s, j - 1) = a \o z
    BY ChunkOff
  <1>2. /\ x.heap \in Heap /\ x.at \in Ptr /\ x.chunks \in Seq(Ptr)
        /\ IsList(x.heap, x.at, a \o z)
    BY <1>1 DEF CutUp, Pieces
  <1>3. Range(a) \subseteq Range(s)
    BY ChunkParts
  <1>4. ASSUME NEW m \in 1 .. j - 1 PROVE Range(Chunk(s, m)) \cap Range(a) = {}
    <2>1. m \in 1 .. Chunks /\ m # j
      BY TargetAssumption DEF Chunks
    <2>2. QED
      BY <2>1, ChunksDisjoint
  <1> HIDE DEF a, z
  <1>5. /\ g \in Heap /\ IsList(g, x.at, a) /\ IsList(g, q, z)
        /\ SameOutside(x.heap, g, Range(a))
    <2>1. q = Top(z)
      BY DEF z
    <2>2. QED
      BY <1>1, <1>2, <2>1, CutOff
  <1>6. q \in Ptr
    BY <1>1, TopType DEF z
  <1> DEFINE c == Append(x.chunks, x.at)
  <1>7. /\ c \in Seq(Ptr) /\ Len(c) = j /\ c[j] = x.at
        /\ \A m \in 1 .. j - 1 : c[m] = x.chunks[m]
    <2>1. Len(x.chunks) = j - 1 /\ (j - 1) + 1 = j
      BY DEF CutUp
    <2>2. QED
      BY <1>2, <2>1, AppendProperties
  <1> HIDE DEF c
  <1>8. ASSUME NEW m \in 1 .. j PROVE IsList(g, c[m], Chunk(s, m))
    <2>1. CASE m = j
      BY <1>5, <1>7, <2>1 DEF a
    <2>2. CASE m # j
      <3>1. m \in 1 .. j - 1
        BY <2>2
      <3>2. IsList(x.heap, x.chunks[m], Chunk(s, m))
        BY <3>1 DEF CutUp
      <3>3. IsList(g, x.chunks[m], Chunk(s, m))
        BY <1>4, <1>5, <3>1, <3>2, ListElsewhere
      <3>4. QED
        BY <1>7, <3>1, <3>3
    <2>3. QED
      BY <2>1, <2>2
  <1>9. SameOutside(h, g, Range(s))
    BY <1>3, <1>5 DEF SameOutside, CutUp
  <1>10. y.heap = g /\ y.at = q /\ y.chunks = c /\ y \in Pieces
    BY <1>5, <1>6, <1>7 DEF Pieces, c
  <1>11. QED
    BY <1>5, <1>7, <1>8, <1>9, <1>10 DEF CutUp, z

(* list_split() makes one list of every chunk.                             *)
LEMMA SplitUp ==
  ASSUME NEW h \in Heap, NEW p, NEW s, IsList(h, p, s), Len(s) > Target,
         NEW cs, Len(cs) = Chunks
  PROVE  LET r == Split(h, p, cs)
         IN  /\ r.heap \in Heap /\ r.chunks \in Seq(Ptr) /\ Len(r.chunks) = Chunks
             /\ \A m \in 1 .. Chunks : IsList(r.heap, r.chunks[m], Chunk(s, m))
             /\ SameOutside(h, r.heap, Range(s))
  <1> DEFINE size == Len(cs)
             k == Len(Chain(h, p)) \div size
             cut(st, j) ==
               LET c == Chain(st.heap, st.at)
                   length == IF j = size THEN Len(c) ELSE IF k = 0 THEN 1 ELSE k
                   rest == IF Len(c) > length THEN c[length + 1] ELSE Null
                   h1 == SetPrev(st.heap, st.at, Null)
               IN  [heap |-> IF rest = Null THEN h1
                                            ELSE SetNext(h1, h1.prev[rest], Null),
                    at |-> rest,
                    chunks |-> Append(st.chunks, st.at)]
             b == [heap |-> h, at |-> p, chunks |-> <<>>]
             Eq(u) == u = [j \in 0 .. size |-> IF j = 0 THEN b ELSE cut(u[j - 1], j)]
             cuts == CHOOSE u : Eq(u)
             good == [j \in 0 .. size |-> {x \in Pieces : CutUp(h, s, x, j)}]
             step == [j \in 0 .. size - 1 |-> [x \in Pieces |-> cut(x, j + 1)]]
  <1>1. /\ s \in Seq(Elem) /\ IsInjective(s) /\ p = Top(s) /\ Chain(h, p) = s
        /\ size = Chunks /\ k = Len(s) \div Chunks
    BY ChainOf DEF IsList
  <1>2. /\ Len(s) \in Nat /\ Chunks \in Nat /\ Chunks > 1 /\ Len(s) >= Chunks
    BY <1>1, TargetAssumption, LenProperties DEF Chunks
  <1>3. k \in Nat /\ k # 0
    BY <1>1, <1>2
  <1>4. p # Null /\ p \in Ptr
    <2>1. s # <<>>
      BY <1>2
    <2>2. QED
      BY <1>1, <2>1, TopType
  <1>5. CutUp(h, s, b, 0) /\ b \in Pieces
    <2>1. Rest(s, 0) = s
      BY <1>1, ChunkOff
    <2>2. <<>> \in Seq(Ptr) /\ Len(<<>>) = 0
      OBVIOUS
    <2>3. b \in Pieces
      BY <1>4, <2>2 DEF Pieces
    <2>4. SameOutside(h, h, Range(s))
      BY DEF SameOutside
    <2>5. QED
      BY <2>1, <2>2, <2>3, <2>4 DEF CutUp
  <1>6. ASSUME NEW j \in 1 .. Chunks, NEW x, CutUp(h, s, x, j - 1)
        PROVE  CutUp(h, s, cut(x, j), j)
    <2> DEFINE a == Chunk(s, j)
               z == Rest(s, j)
               c == Chain(x.heap, x.at)
               length == IF j = size THEN Len(c) ELSE IF k = 0 THEN 1 ELSE k
               rest == IF Len(c) > length THEN c[length + 1] ELSE Null
               h1 == SetPrev(x.heap, x.at, Null)
               g == IF rest = Null THEN h1 ELSE SetNext(h1, h1.prev[rest], Null)
    <2>1. /\ a \in Seq(Elem) /\ z \in Seq(Elem) /\ a # <<>> /\ Rest(s, j - 1) = a \o z
          /\ Len(a) = IF j = Chunks THEN Len(Rest(s, j - 1)) ELSE Len(s) \div Chunks
      BY <1>1, ChunkOff
    <2>2. c = a \o z
      BY <1>6, <2>1, ChainOf DEF CutUp, Pieces
    <2>3. length = Len(a)
      BY <1>1, <1>3, <2>1, <2>2
    <2> HIDE DEF c, length, a, z
    <2>4. /\ Len(c) = Len(a) + Len(z) /\ Len(a) \in Nat /\ Len(z) \in Nat
          /\ \A m \in 1 .. Len(z) : c[Len(a) + m] = z[m]
      <3>1. a \in Seq(Elem) /\ z \in Seq(Elem)
        BY <2>1
      <3>2. /\ Len(a \o z) = Len(a) + Len(z) /\ Len(a) \in Nat /\ Len(z) \in Nat
            /\ \A m \in 1 .. Len(z) : (a \o z)[Len(a) + m] = z[m]
        BY <3>1, TakenApart
      <3>3. QED
        BY <2>2, <3>2
    <2>5. rest = Top(z)
      <3>1. CASE z = <<>>
        BY <2>3, <2>4, <3>1 DEF Top
      <3>2. CASE z # <<>>
        <4>1. Len(z) > 0 /\ 1 \in 1 .. Len(z)
          BY <2>1, <3>2, Ends
        <4>2. QED
          BY <2>3, <2>4, <3>2, <4>1 DEF Top
      <3>3. QED
        BY <3>1, <3>2
    <2> HIDE DEF rest
    <2>6. cut(x, j) = [heap |-> g, at |-> rest, chunks |-> Append(x.chunks, x.at)]
      BY DEF c, length, rest
    <2> HIDE DEF cut
    <2>7. QED
      BY <1>1, <1>6, <2>5, <2>6, CutOnce DEF z
  <1> HIDE DEF cut, b
  <1>7. PICK f \in [0 .. size -> Pieces] :
          /\ Steps(f, size, b, step)
          /\ \A j \in 0 .. size : f[j] \in good[j]
    <2>1. good \in [0 .. size -> SUBSET Pieces]
      OBVIOUS
    <2>2. b \in good[0]
      BY <1>1, <1>2, <1>5
    <2>3. ASSUME NEW j \in 0 .. size - 1, NEW x \in good[j]
          PROVE  step[j][x] \in good[j + 1]
      <3>1. /\ j \in 0 .. size /\ j + 1 \in 0 .. size /\ j + 1 \in 1 .. Chunks
            /\ (j + 1) - 1 = j
        BY <1>1, <1>2
      <3>2. x \in Pieces /\ CutUp(h, s, x, j)
        BY <3>1
      <3>3. CutUp(h, s, cut(x, j + 1), j + 1)
        BY <1>6, <3>1, <3>2
      <3>4. cut(x, j + 1) \in Pieces
        BY <3>3 DEF CutUp
      <3>5. QED
        BY <3>1, <3>2, <3>3, <3>4
    <2> HIDE DEF good, step
    <2>4. size \in Nat
      BY <1>1, <1>2
    <2>5. QED
      BY <2>1, <2>2, <2>3, <2>4, StepsStayGood
  <1>8. ASSUME NEW j \in 0 .. size PROVE CutUp(h, s, f[j], j)
    BY <1>7
  <1>9. Eq(f)
    <2>1. ASSUME NEW j \in 0 .. size
          PROVE  f[j] = IF j = 0 THEN b ELSE cut(f[j - 1], j)
      <3>1. CASE j = 0
        BY <1>7, <3>1 DEF Steps
      <3>2. CASE j # 0
        <4>1. j - 1 \in 0 .. size - 1 /\ j - 1 \in 0 .. size /\ (j - 1) + 1 = j
          BY <1>1, <1>2, <3>2
        <4>2. f[j] = step[j - 1][f[j - 1]] /\ f[j - 1] \in Pieces
          BY <1>7, <4>1 DEF Steps
        <4>3. QED
          BY <3>2, <4>1, <4>2
      <3>3. QED
        BY <3>1, <3>2
    <2>2. QED
      BY <2>1
  <1>10. Eq(cuts)
    BY <1>9
  <1>11. Split(h, p, cs) = cuts[size]
    BY <1>4 DEF Split, cut, b
  <1> HIDE DEF cuts
  <1>12. cuts[0] = b /\ \A j \in 0 .. size - 1 : cuts[j + 1] = cut(cuts[j], j + 1)
    <2>1. 0 \in 0 .. size /\ \A j \in 0 .. size - 1 : /\ j + 1 \in 0 .. size
                                                      /\ j + 1 # 0 /\ (j + 1) - 1 = j
      BY <1>1, <1>2
    <2>2. QED
      BY <1>10, <2>1
  <1> HIDE DEF Eq
  <1> DEFINE T == {j \in Nat : CutUp(h, s, cuts[j], j)}
  <1>13. 0 \in T
    BY <1>5, <1>12
  <1>14. ASSUME NEW j \in 0 .. size - 1, j \in T PROVE j + 1 \in T
    <2>1. j + 1 \in 1 .. Chunks /\ (j + 1) - 1 = j /\ j + 1 \in Nat
      BY <1>1, <1>2
    <2>2. QED
      BY <1>6, <1>12, <1>14, <2>1
  <1> HIDE DEF T
  <1>15. size \in T
    <2>1. size \in Nat /\ size \in 0 .. size
      BY <1>1, <1>2
    <2>2. QED
      BY <1>13, <1>14, <2>1, EveryUpTo
  <1>16. CutUp(h, s, cuts[size], Chunks)
    BY <1>1, <1>15 DEF T
  <1>17. QED
    BY <1>11, <1>16 DEF CutUp, Pieces

-----------------------------------------------------------------------------
(***************************************************************************)
(* Linking all chunks but one.                                             *)
(***************************************************************************)
(* The lines of c are made to point back the way they came.                *)
Repair(h, c) ==
  [h EXCEPT !.prev = [x \in Elem |->
                        IF \E m \in 2 .. Len(c) : c[m] = x
                          THEN c[(CHOOSE m \in 2 .. Len(c) : c[m] = x) - 1]
                          ELSE h.prev[x]]]

PointsBack(h, c, f) ==
  /\ f \in Heap /\ f.next = h.next
  /\ \A k \in 1 .. Len(c) - 1 : f.prev[c[k + 1]] = c[k]
  /\ \A x \in Elem : \/ \E k \in 1 .. Len(c) - 1 : c[k + 1] = x
                     \/ f.prev[x] = h.prev[x]

LEMMA Repaired ==
  ASSUME NEW h \in Heap, NEW c \in Seq(Elem), IsInjective(c),
         NEW f, f = Repair(h, c)
  PROVE  PointsBack(h, c, f)
  <1> DEFINE size == Len(c)
             at(x) == CHOOSE m \in 2 .. size : c[m] = x
             back2 == [x \in Elem |-> IF \E m \in 2 .. size : c[m] = x
                                        THEN c[at(x) - 1] ELSE h.prev[x]]
  <1>1. size \in Nat /\ DOMAIN c = 1 .. size
    BY LenProperties
  <1>2. h.next \in [Elem -> Ptr] /\ h.prev \in [Elem -> Ptr]
    BY DEF Heap
  <1>3. f.next = h.next /\ f.prev = back2 /\ f = [next |-> h.next, prev |-> back2]
    BY DEF Heap, Repair
  <1> HIDE DEF size
  <1>4. ASSUME NEW m \in 2 .. size
        PROVE  c[m] \in Elem /\ at(c[m]) = m /\ c[m - 1] \in Elem
    <2>1. m \in 1 .. size /\ m - 1 \in 1 .. size /\ 2 .. size \subseteq 1 .. size
      BY <1>1
    <2>2. c[m] \in Elem /\ c[m - 1] \in Elem
      BY <2>1, ElementOfSeq DEF size
    <2>3. at(c[m]) \in 2 .. size /\ c[at(c[m])] = c[m]
      OBVIOUS
    <2> HIDE DEF at
    <2>4. QED
      BY <1>1, <2>1, <2>2, <2>3 DEF IsInjective
  <1> HIDE DEF at
  <1>5. back2 \in [Elem -> Ptr]
    <2>1. ASSUME NEW x \in Elem PROVE back2[x] \in Ptr
      <3>1. CASE \E m \in 2 .. size : c[m] = x
        <4>1. PICK m \in 2 .. size : c[m] = x
          BY <3>1
        <4>2. back2[x] = c[m - 1]
          BY <1>4, <4>1
        <4>3. QED
          BY <1>4, <4>2, PtrType
      <3>2. CASE ~\E m \in 2 .. size : c[m] = x
        BY <1>2, <3>2
      <3>3. QED
        BY <3>1, <3>2
    <2>2. QED
      BY <2>1
  <1>6. ASSUME NEW k \in 1 .. size - 1 PROVE back2[c[k + 1]] = c[k]
    <2>1. k + 1 \in 2 .. size /\ (k + 1) - 1 = k
      BY <1>1
    <2>2. QED
      BY <1>4, <2>1
  <1>7. ASSUME NEW x \in Elem, ~\E k \in 1 .. size - 1 : c[k + 1] = x
        PROVE  back2[x] = h.prev[x]
    <2>1. ASSUME NEW m \in 2 .. size PROVE c[m] # x
      <3>1. m - 1 \in 1 .. size - 1 /\ (m - 1) + 1 = m
        BY <1>1
      <3>2. QED
        BY <1>7, <3>1
    <2>2. QED
      BY <2>1
  <1> HIDE DEF back2
  <1>8. f \in Heap
    BY <1>2, <1>3, <1>5 DEF Heap
  <1>9. QED
    BY <1>3, <1>6, <1>7, <1>8 DEF size, PointsBack

LinkedBehind(h, g, u, q, stop, c) ==
  /\ g \in Heap /\ Last(c) = Last(q)
  /\ Doubly(g, u \o q, stop) /\ Doubly(g, q, stop)
  /\ \A x \in Elem \ {Last(q)} : g.next[x] = h.next[x]
  /\ \A x \in Elem \ {q[1], stop} : g.prev[x] = h.prev[x]

(* One round of the loop: the chunk q, linked behind the lines u, is made  *)
(* to lead to the line stop, the first one of the next chunk.              *)
LEMMA LinkOne ==
  ASSUME NEW h \in Heap, NEW u \in Seq(Elem), NEW q \in Seq(Elem), q # <<>>,
         IsInjective(u), IsInjective(q), Range(u) \cap Range(q) = {},
         NEW stop \in Elem, stop \notin Range(u) \cup Range(q),
         Doubly(h, u, q[1]), NEW end \in {Null, stop}, Doubly(h, q, end),
         NEW p, p = (IF u = <<>> THEN q[1] ELSE Last(u)),
         NEW c, c = Upto(h, p, stop), NEW f, f = Repair(h, c),
         NEW g, g = SetPrev(SetNext(f, Last(c), stop), stop, Last(c))
  PROVE  LinkedBehind(h, g, u, q, stop, c)
  <1> DEFINE b == Len(q)
  <1>1. /\ b \in Nat \ {0} /\ Last(q) = q[b] /\ q[b] \in Elem /\ q[b] \in Range(q)
        /\ q[1] \in Elem /\ q[1] \in Range(q) /\ DOMAIN q = 1 .. b
        /\ \A k \in 1 .. b - 1 : q[k + 1] # q[1]
    BY Ends
  <1>2. \A k \in 1 .. b : q[k] \in Elem /\ q[k] \in Range(q) /\ q[k] # stop
    BY <1>1, ElementOfSeq DEF Range
  <1>3. /\ \A k \in 1 .. b - 1 : h.next[q[k]] = q[k + 1] /\ h.prev[q[k + 1]] = q[k]
        /\ h.next[q[b]] \in {stop, Null}
    BY <1>1 DEF Doubly, Linked
  <1> HIDE DEF b
  <1>4. /\ c \in Seq(Elem) /\ IsInjective(c) /\ Last(c) = Last(q)
        /\ \A k \in 1 .. Len(c) - 1 : \/ c[k + 1] = q[1] /\ u # <<>> /\ c[k] = Last(u)
                                      \/ c[k + 1] # q[1] /\ h.prev[c[k + 1]] = c[k]
        /\ u # <<>> => \E k \in 1 .. Len(c) - 1 : c[k + 1] = q[1]
    <2>1. CASE u = <<>>
      <3>1. p = q[1] /\ \A k \in 1 .. b - 1 : k + 1 \in 1 .. b
        BY <1>1, <2>1
      <3>2. \A k \in 1 .. Len(q) - 1 : h.next[q[k]] = q[k + 1] /\ q[k + 1] # stop
        BY <1>2, <1>3, <3>1 DEF b
      <3>3. h.next[q[Len(q)]] \in {stop, Null}
        BY <1>3 DEF b
      <3>4. c = q
        <4>1. Upto(h, q[1], stop) = q
          BY <3>2, <3>3, UptoThere
        <4>2. QED
          BY <3>1, <4>1
      <3>5. QED
        BY <1>1, <1>3, <2>1, <3>4 DEF b
    <2>2. CASE u # <<>>
      <3> DEFINE x == Last(u)
                 v == <<x>> \o q
      <3>1. x \in Elem /\ x \in Range(u) /\ h.next[x] = q[1] /\ p = x
        BY <2>2, Ends DEF Doubly, Linked
      <3> HIDE DEF x
      <3>2. /\ v \in Seq(Elem) /\ Len(v) = b + 1 /\ v # <<>> /\ IsInjective(v)
            /\ v[1] = x /\ \A k \in 1 .. b : v[k + 1] = q[k]
        <4>1. <<x>> \in Seq(Elem) /\ Len(<<x>>) = 1 /\ <<x>>[1] = x /\ 1 \in 1 .. 1
          BY <3>1
        <4> DEFINE w == <<x>>
        <4> HIDE DEF w
        <4>2. /\ \A k \in 1 .. Len(w) : (w \o q)[k] = w[k]
              /\ \A k \in 1 .. Len(q) : (w \o q)[Len(w) + k] = q[k]
          <5>1. w \in Seq(Elem)
            BY <4>1 DEF w
          <5>2. QED
            BY <5>1, TakenApart
        <4>3. \A k \in 1 .. b : 1 + k = k + 1
          BY <1>1
        <4>4. x \notin Range(q)
          BY <3>1
        <4>5. v \in Seq(Elem) /\ Len(v) = Len(q) + 1 /\ v # <<>> /\ IsInjective(v)
          BY <3>1, <4>4, InFront
        <4>6. v = w \o q /\ Len(w) = 1 /\ w[1] = x
          BY <4>1 DEF w
        <4> HIDE DEF v
        <4>7. QED
          BY <4>1, <4>2, <4>3, <4>5, <4>6 DEF b
      <3> HIDE DEF v
      <3>3. ASSUME NEW k \in 1 .. b
            PROVE  /\ h.next[v[k]] = v[k + 1] /\ v[k + 1] # stop
                   /\ \/ v[k + 1] = q[1] /\ v[k] = x
                      \/ v[k + 1] # q[1] /\ h.prev[v[k + 1]] = v[k]
        <4>1. v[k + 1] = q[k] /\ q[k] # stop
          BY <1>2, <3>2
        <4>2. CASE k = 1
          BY <3>1, <3>2, <4>1, <4>2
        <4>3. CASE k # 1
          <5> DEFINE m == k - 1
          <5>1. m \in 1 .. b /\ m \in 1 .. b - 1 /\ m + 1 = k
            BY <1>1, <4>3
          <5> HIDE DEF m
          <5>2. v[k] = q[m] /\ h.next[q[m]] = q[k] /\ h.prev[q[k]] = q[m] /\ q[k] # q[1]
            BY <1>1, <1>3, <3>2, <5>1
          <5>3. QED
            BY <4>1, <5>2
        <4>4. QED
          BY <4>2, <4>3
      <3>4. v[Len(v)] = q[b] /\ Len(v) - 1 = b /\ 1 \in 1 .. b /\ v[2] = q[1]
        <4>1. b \in 1 .. b /\ 1 \in 1 .. b /\ 1 + 1 = 2
          BY <1>1
        <4>2. QED
          BY <1>1, <3>2, <4>1
      <3>5. c = v
        <4>1. \A k \in 1 .. Len(v) - 1 : h.next[v[k]] = v[k + 1] /\ v[k + 1] # stop
          BY <3>3, <3>4
        <4>2. h.next[v[Len(v)]] \in {stop, Null}
          BY <1>3, <3>4
        <4>3. Upto(h, v[1], stop) = v
          BY <3>2, <4>1, <4>2, UptoThere
        <4>4. QED
          BY <3>1, <3>2, <4>3
      <3>6. Last(v) = q[b]
        BY <3>4 DEF Last
      <3>7. \E k \in 1 .. Len(v) - 1 : v[k + 1] = q[1]
        <4>1. 1 \in 1 .. Len(v) - 1 /\ v[1 + 1] = q[1]
          BY <3>4
        <4>2. QED
          BY <4>1
      <3>8. QED
        BY <1>1, <2>2, <3>2, <3>3, <3>4, <3>5, <3>6, <3>7 DEF x
    <2>3. QED
      BY <2>1, <2>2
  <1>5. /\ f \in Heap /\ f.next = h.next
        /\ \A k \in 1 .. Len(c) - 1 : f.prev[c[k + 1]] = c[k]
        /\ \A x \in Elem : \/ \E k \in 1 .. Len(c) - 1 : c[k + 1] = x
                           \/ f.prev[x] = h.prev[x]
    <2>1. c \in Seq(Elem) /\ IsInjective(c)
      BY <1>4
    <2>2. QED
      <3>1. PointsBack(h, c, f)
        BY <2>1, Repaired
      <3>2. QED
        BY <3>1 DEF PointsBack
  <1>6. ASSUME NEW x \in Elem, x # q[1] PROVE f.prev[x] = h.prev[x]
    <2>1. CASE \E k \in 1 .. Len(c) - 1 : c[k + 1] = x
      <3>1. PICK k \in 1 .. Len(c) - 1 : c[k + 1] = x
        BY <2>1
      <3>2. h.prev[x] = c[k]
        BY <1>4, <1>6, <3>1
      <3>3. f.prev[x] = c[k]
        BY <1>5, <3>1
      <3>4. QED
        BY <3>2, <3>3
    <2>2. CASE ~\E k \in 1 .. Len(c) - 1 : c[k + 1] = x
      BY <1>5, <2>2
    <2>3. QED
      BY <2>1, <2>2
  <1>7. ASSUME u # <<>> PROVE f.prev[q[1]] = Last(u)
    <2>1. PICK k \in 1 .. Len(c) - 1 : c[k + 1] = q[1]
      BY <1>4, <1>7
    <2>2. c[k] = Last(u)
      BY <1>4, <2>1
    <2>3. f.prev[c[k + 1]] = c[k]
      BY <1>5
    <2>4. QED
      BY <2>1, <2>2, <2>3
  <1> DEFINE last == Last(q)
             g1 == SetNext(f, last, stop)
  <1>8. last \in Elem /\ last \in Range(q) /\ stop \in Ptr /\ last \in Ptr
    BY <1>1, PtrType
  <1> HIDE DEF last
  <1>9. /\ g1 \in Heap /\ g1.prev = f.prev
        /\ \A x \in Elem \ {last} : g1.next[x] = f.next[x]
    <2>1. f \in Heap
      BY <1>5
    <2> HIDE DEF g1
    <2>2. g1 = SetNext(f, last, stop)
      BY DEF g1
    <2>3. QED
      <3>1. NextSet(f, g1, last, stop)
        BY <1>8, <2>1, <2>2, WritingNext
      <3>2. QED
        BY <3>1 DEF NextSet
  <1>10. Doubly(f, q, end)
    <2>1. \A k \in 1 .. b - 1 : f.prev[q[k + 1]] = h.prev[q[k + 1]]
      <3>1. \A k \in 1 .. b - 1 : k + 1 \in 1 .. b
        BY <1>1
      <3>2. QED
        BY <1>1, <1>2, <1>6, <3>1
    <2>2. QED
      BY <1>5, <2>1, Undisturbed DEF b
  <1>11. Doubly(g1, q, stop)
    BY <1>5, <1>8, <1>10, NewEnd DEF last
  <1> HIDE DEF g1
  <1>12. /\ g \in Heap /\ g.next = g1.next
         /\ \A x \in Elem \ {stop} : g.prev[x] = g1.prev[x]
    <2>1. g = SetPrev(g1, stop, last)
      BY <1>4 DEF g1, last
    <2>2. g1 \in Heap
      BY <1>9
    <2>3. QED
      <3>1. PrevSet(g1, g, stop, last)
        BY <1>8, <2>1, <2>2, WritingPrev
      <3>2. QED
        BY <3>1 DEF PrevSet
  <1>13. Doubly(g, q, stop)
    <2>1. SameOutside(g1, g, {stop})
      BY <1>12 DEF SameOutside
    <2>2. QED
      BY <1>11, <2>1, Elsewhere
  <1>14. /\ \A x \in Elem \ {last} : g.next[x] = h.next[x]
         /\ \A x \in Elem \ {q[1], stop} : g.prev[x] = h.prev[x]
    BY <1>5, <1>6, <1>9, <1>12
  <1>15. Doubly(g, u \o q, stop)
    <2>1. CASE u = <<>>
      <3>1. u \o q = q
        BY <2>1, ConcatEmptySeq
      <3>2. QED
        BY <1>13, <3>1
    <2>2. CASE u # <<>>
      <3>1. SameOutside(h, g, Range(q) \cup {stop})
        BY <1>1, <1>8, <1>14 DEF SameOutside
      <3>2. Doubly(g, u, q[1])
        BY <3>1, Elsewhere
      <3>3. g.prev[q[1]] = Last(u)
        <4>1. q[1] \in Elem \ {stop}
          BY <1>1
        <4>2. QED
          BY <1>7, <1>9, <1>12, <2>2, <4>1
      <3>4. QED
        BY <1>12, <1>13, <2>2, <3>2, <3>3, OneList
    <2>3. QED
      BY <2>1, <2>2
  <1>16. QED
    BY <1>4, <1>12, <1>13, <1>14, <1>15 DEF last, LinkedBehind

(* The chunk that follows chunk m, and the k-th one after chunk a.         *)
After(m) == IF m = Chunks THEN 1 ELSE m + 1
Pos(a, k) == IF k <= Chunks - a THEN a + k ELSE k - (Chunks - a)

LEMMA Modulo ==
  ASSUME NEW x \in Nat, NEW m \in Nat \ {0}, x < 2 * m
  PROVE  x % m = IF x < m THEN x ELSE x - m
  <1> DEFINE d == x \div m
             r == x % m
  <1>1. d \in Nat /\ r \in 0 .. m - 1 /\ x = m * d + r
    OBVIOUS
  <1> HIDE DEF d, r
  <1>2. d < 2
    <2>1. SUFFICES ASSUME d >= 2 PROVE FALSE
      BY <1>1
    <2>2. m * d >= m * 2
      BY <1>1, <2>1
    <2>3. m * d \in Nat /\ m * 2 = 2 * m
      BY <1>1
    <2>4. QED
      BY <1>1, <2>2, <2>3
  <1>3. d = 0 \/ d = 1
    BY <1>1, <1>2
  <1>4. CASE d = 0
    BY <1>1, <1>4 DEF r
  <1>5. CASE d = 1
    <2>1. m * d = m
      BY <1>5
    <2>2. QED
      BY <1>1, <2>1 DEF r
  <1>6. QED
    BY <1>3, <1>4, <1>5

LEMMA Circle ==
  ASSUME NEW a \in 1 .. Chunks
  PROVE  /\ Pos(a, 0) = a /\ Pos(a, Chunks) = a
         /\ \A i1 \in 0 .. Chunks : /\ Pos(a, i1) \in 1 .. Chunks
                                    /\ ((a - 1 + i1) % Chunks) + 1 = Pos(a, i1)
         /\ \A i1 \in 0 .. Chunks - 1 : Pos(a, i1 + 1) = After(Pos(a, i1))
         /\ \A i1, i2 \in 1 .. Chunks : i1 # i2 => Pos(a, i1) # Pos(a, i2)
         /\ \A m \in 1 .. Chunks : \E i1 \in 1 .. Chunks : Pos(a, i1) = m
  <1>1. Chunks \in Nat /\ Chunks > 1 /\ a \in Nat
    BY TargetAssumption DEF Chunks
  <1>2. Pos(a, 0) = a /\ Pos(a, Chunks) = a
    BY <1>1 DEF Pos
  <1>3. ASSUME NEW i1 \in 0 .. Chunks
        PROVE  Pos(a, i1) \in 1 .. Chunks /\ ((a - 1 + i1) % Chunks) + 1 = Pos(a, i1)
    <2> DEFINE x == a - 1 + i1
    <2>1. x \in Nat /\ x < 2 * Chunks /\ Chunks \in Nat \ {0}
      BY <1>1
    <2> HIDE DEF x
    <2>2. x % Chunks = IF x < Chunks THEN x ELSE x - Chunks
      BY <2>1, Modulo
    <2>3. QED
      BY <1>1, <2>2 DEF Pos, x
  <1>4. \A i1 \in 0 .. Chunks - 1 : Pos(a, i1 + 1) = After(Pos(a, i1))
    BY <1>1 DEF Pos, After
  <1>5. \A i1, i2 \in 1 .. Chunks : i1 # i2 => Pos(a, i1) # Pos(a, i2)
    BY <1>1 DEF Pos
  <1>6. ASSUME NEW m \in 1 .. Chunks PROVE \E i1 \in 1 .. Chunks : Pos(a, i1) = m
    <2>1. CASE m > a
      <3>1. m - a \in 1 .. Chunks /\ Pos(a, m - a) = m
        BY <1>1, <2>1 DEF Pos
      <3>2. QED
        BY <3>1
    <2>2. CASE m <= a
      <3>1. m + (Chunks - a) \in 1 .. Chunks /\ Pos(a, m + (Chunks - a)) = m
        BY <1>1, <2>2 DEF Pos
      <3>2. QED
        BY <3>1
    <2>3. QED
      BY <1>1, <2>1, <2>2
  <1>7. QED
    BY <1>2, <1>3, <1>4, <1>5, <1>6

(* The first i of the chunks that follow chunk a.                          *)
Wrap(s, a, i1) ==
  IF i1 <= Chunks - a
    THEN SubSeq(s, Final(s, a) + 1, Final(s, a + i1))
    ELSE SubSeq(s, Final(s, a) + 1, Len(s)) \o SubSeq(s, 1, Final(s, i1 - (Chunks - a)))

LEMMA Finals ==
  ASSUME NEW s \in Seq(Elem)
  PROVE  /\ Final(s, 0) = 0 /\ Final(s, Chunks) = Len(s)
         /\ \A j \in 0 .. Chunks : Final(s, j) \in 0 .. Len(s)
         /\ \A j \in 0 .. Chunks, m \in 0 .. Chunks : j <= m => Final(s, j) <= Final(s, m)
         /\ \A j \in 1 .. Chunks : First(s, j) = Final(s, j - 1) + 1
  <1> DEFINE k == Len(s) \div Chunks
             size == Len(s)
  <1>1. size \in Nat /\ Chunks \in Nat /\ Chunks > 1
    BY TargetAssumption, LenProperties DEF Chunks
  <1>2. k \in Nat /\ k * Chunks <= size
    BY <1>1
  <1>3. /\ \A j : First(s, j) = (j - 1) * k + 1
        /\ \A j : j # Chunks => Final(s, j) = j * k
        /\ Final(s, Chunks) = size
    BY DEF First, Final
  <1> HIDE DEF k, size
  <1>4. ASSUME NEW j \in 0 .. Chunks, NEW m \in 0 .. Chunks, j <= m
        PROVE  j * k \in Nat /\ m * k \in Nat /\ j * k <= m * k /\ m * k <= size
    <2>1. j * k \in Nat /\ m * k \in Nat /\ j * k <= m * k /\ m * k <= Chunks * k
      BY <1>1, <1>2, <1>4
    <2>2. Chunks * k = k * Chunks
      BY <1>1, <1>2
    <2>3. QED
      BY <1>1, <1>2, <2>1, <2>2
  <1>5. Final(s, 0) = 0
    BY <1>1, <1>2, <1>3
  <1>6. ASSUME NEW j \in 0 .. Chunks, NEW m \in 0 .. Chunks, j <= m
        PROVE  Final(s, j) \in 0 .. size /\ Final(s, j) <= Final(s, m)
    <2>1. j * k \in Nat /\ m * k \in Nat /\ j * k <= m * k /\ m * k <= size
      BY <1>4, <1>6
    <2>2. CASE m = Chunks
      BY <1>1, <1>3, <2>1, <2>2
    <2>3. CASE m # Chunks
      BY <1>1, <1>3, <1>6, <2>1, <2>3
    <2>4. QED
      BY <2>2, <2>3
  <1>7. ASSUME NEW j \in 1 .. Chunks PROVE First(s, j) = Final(s, j - 1) + 1
    <2>1. j - 1 # Chunks
      BY <1>1
    <2>2. QED
      BY <1>3, <2>1
  <1>8. ASSUME NEW j \in 0 .. Chunks PROVE Final(s, j) \in 0 .. size
    BY <1>1, <1>6
  <1>9. QED
    BY <1>3, <1>5, <1>6, <1>7, <1>8 DEF size

LEMMA Regrouped ==
  ASSUME NEW x \in Seq(Elem), NEW y \in Seq(Elem), NEW z \in Seq(Elem)
  PROVE  (x \o y) \o z = x \o (y \o z)
  BY ConcatAssociative

LEMMA WrapGrows ==
  ASSUME NEW s \in Seq(Elem), NEW a \in 1 .. Chunks
  PROVE  /\ Wrap(s, a, 0) = <<>> /\ Wrap(s, a, Chunks - 1) = Without(s, a)
         /\ \A i1 \in 1 .. Chunks - 1 :
              /\ Wrap(s, a, i1 - 1) \in Seq(Elem)
              /\ Chunk(s, Pos(a, i1)) \in Seq(Elem)
              /\ Wrap(s, a, i1) = Wrap(s, a, i1 - 1) \o Chunk(s, Pos(a, i1))
  <1> DEFINE size == Len(s)
             F(j) == Final(s, j)
             d == Chunks - a
             front(j) == SubSeq(s, 1, F(j))
             tail == SubSeq(s, F(a) + 1, size)
  <1>1. Chunks \in Nat /\ Chunks > 1 /\ a \in Nat /\ size \in Nat /\ d \in 0 .. Chunks - 1
    BY TargetAssumption, LenProperties DEF Chunks
  <1>2. /\ F(0) = 0 /\ F(Chunks) = size
        /\ \A j \in 0 .. Chunks : F(j) \in 0 .. size
        /\ \A j \in 0 .. Chunks, m \in 0 .. Chunks : j <= m => F(j) <= F(m)
        /\ \A j \in 1 .. Chunks : First(s, j) = F(j - 1) + 1
    BY Finals
  <1>3. \A i1 : Wrap(s, a, i1) = IF i1 <= d THEN SubSeq(s, F(a) + 1, F(a + i1))
                                            ELSE tail \o front(i1 - d)
    BY DEF Wrap
  <1>4. \A j : Chunk(s, j) = SubSeq(s, First(s, j), F(j))
    BY DEF Chunk
  <1>5. F(a) \in 0 .. size /\ F(a) + 1 \in 1 .. size + 1
    <2> HIDE DEF F, size, d
    <2>1. a \in 0 .. Chunks
      BY <1>1
    <2>2. F(a) \in 0 .. size
      BY <1>2, <2>1
    <2>3. QED
      BY <1>1, <2>2
  <1> HIDE DEF F
  <1>6. tail \in Seq(Elem)
    BY <1>1, <1>5, Divided
  <1>7. ASSUME NEW j \in 0 .. Chunks PROVE front(j) \in Seq(Elem) /\ (j = 0 => front(j) = <<>>)
    <2>1. 1 \in 1 .. size + 1 /\ F(j) \in 1 - 1 .. size
      BY <1>1, <1>2
    <2>2. front(j) \in Seq(Elem) /\ Len(front(j)) = F(j) - 1 + 1
      BY <2>1, Excerpt
    <2>3. j = 0 => Len(front(j)) = 0
      BY <1>2, <2>2
    <2> HIDE DEF front
    <2>4. QED
      BY <2>2, <2>3, EmptySeq
  <1> HIDE DEF size, tail, front
  <1>8. Wrap(s, a, 0) = <<>>
    <2>1. SubSeq(s, F(a) + 1, F(a)) \in Seq(Elem) /\ Len(SubSeq(s, F(a) + 1, F(a))) = 0
      <3>1. F(a) + 1 \in 1 .. Len(s) + 1 /\ F(a) \in (F(a) + 1) - 1 .. Len(s)
        BY <1>1, <1>5 DEF size
      <3>2. Len(SubSeq(s, F(a) + 1, F(a))) = F(a) - (F(a) + 1) + 1
        BY <3>1, Excerpt
      <3>3. QED
        BY <3>1, <3>2, Excerpt
    <2>2. Wrap(s, a, 0) = SubSeq(s, F(a) + 1, F(a))
      <3>1. 0 <= d /\ a + 0 = a
        BY <1>1
      <3>2. QED
        BY <1>3, <3>1
    <2>3. QED
      BY <2>1, <2>2, EmptySeq
  <1>9. Wrap(s, a, Chunks - 1) = Without(s, a)
    <2>1. Without(s, a) = tail \o front(a - 1)
      <3>1. First(s, a) - 1 = F(a - 1)
        <4>1. First(s, a) = F(a - 1) + 1 /\ F(a - 1) \in 0 .. size
          BY <1>1, <1>2
        <4>2. QED
          BY <1>1, <4>1
      <3>2. QED
        BY <3>1 DEF Without, tail, front, F, size
    <2>2. CASE a = 1
      <3>1. Chunks - 1 <= d /\ a + (Chunks - 1) = Chunks /\ a - 1 = 0
        BY <1>1, <2>2
      <3>2. Wrap(s, a, Chunks - 1) = tail
        BY <1>2, <1>3, <3>1 DEF tail
      <3>3. front(0) = <<>>
        BY <1>1, <1>7
      <3>4. QED
        BY <1>6, <2>1, <3>1, <3>2, <3>3, ConcatEmptySeq
    <2>3. CASE a # 1
      <3>1. ~(Chunks - 1 <= d) /\ (Chunks - 1) - d = a - 1
        BY <1>1, <2>3
      <3>2. QED
        BY <1>3, <2>1, <3>1
    <2>4. QED
      BY <2>2, <2>3
  <1>10. ASSUME NEW i1 \in 1 .. Chunks - 1
         PROVE  /\ Wrap(s, a, i1 - 1) \in Seq(Elem)
                /\ Chunk(s, Pos(a, i1)) \in Seq(Elem)
                /\ Wrap(s, a, i1) = Wrap(s, a, i1 - 1) \o Chunk(s, Pos(a, i1))
    <2>1. CASE i1 <= d
      <3> DEFINE j == a + i1
      <3>1. /\ Pos(a, i1) = j /\ i1 - 1 <= d /\ j - 1 = a + (i1 - 1)
            /\ j \in 1 .. Chunks /\ j \in 0 .. Chunks /\ j - 1 \in 0 .. Chunks
            /\ a \in 0 .. Chunks /\ a <= j - 1 /\ j - 1 <= j
        BY <1>1, <2>1 DEF Pos
      <3>2. /\ F(a) <= F(j - 1) /\ F(j - 1) <= F(j) /\ F(j) \in 0 .. size
            /\ F(j - 1) \in 0 .. size /\ First(s, j) = F(j - 1) + 1
        BY <1>2, <3>1
      <3>3. /\ F(a) + 1 \in 1 .. Len(s) + 1 /\ F(j - 1) \in (F(a) + 1) - 1 .. Len(s)
            /\ F(j) \in F(j - 1) .. Len(s)
        BY <1>1, <1>5, <3>2 DEF size
      <3>4. /\ Wrap(s, a, i1) = SubSeq(s, F(a) + 1, F(j))
            /\ Wrap(s, a, i1 - 1) = SubSeq(s, F(a) + 1, F(j - 1))
            /\ Chunk(s, Pos(a, i1)) = SubSeq(s, F(j - 1) + 1, F(j))
        BY <1>3, <1>4, <2>1, <3>1, <3>2
      <3> HIDE DEF j
      <3>5. QED
        BY <3>3, <3>4, Divided
    <2>2. CASE i1 > d
      <3> DEFINE j == i1 - d
      <3>1. /\ Pos(a, i1) = j /\ j \in 1 .. Chunks /\ j \in 0 .. Chunks
            /\ j - 1 \in 0 .. Chunks /\ j - 1 <= j /\ ~(i1 <= d)
        BY <1>1, <2>2 DEF Pos
      <3>2. /\ F(j - 1) <= F(j) /\ F(j) \in 0 .. size
            /\ F(j - 1) \in 0 .. size /\ First(s, j) = F(j - 1) + 1
        BY <1>2, <3>1
      <3>3. /\ 1 \in 1 .. Len(s) + 1 /\ F(j - 1) \in 1 - 1 .. Len(s)
            /\ F(j) \in F(j - 1) .. Len(s)
        BY <1>1, <3>2 DEF size
      <3>4. Wrap(s, a, i1) = tail \o front(j) /\ Chunk(s, Pos(a, i1)) = SubSeq(s, F(j - 1) + 1, F(j))
        BY <1>3, <1>4, <3>1, <3>2
      <3>5. Wrap(s, a, i1 - 1) = tail \o front(j - 1)
        <4>1. CASE i1 - 1 <= d
          <5>1. j = 1 /\ j - 1 = 0 /\ a + (i1 - 1) = Chunks
            BY <1>1, <2>2, <4>1
          <5>2. Wrap(s, a, i1 - 1) = tail
            BY <1>2, <1>3, <4>1, <5>1 DEF tail
          <5>3. front(0) = <<>>
            BY <1>1, <1>7
          <5>4. QED
            BY <1>6, <5>1, <5>2, <5>3, ConcatEmptySeq
        <4>2. CASE ~(i1 - 1 <= d)
          <5>1. (i1 - 1) - d = j - 1
            BY <1>1
          <5>2. QED
            BY <1>3, <4>2, <5>1
        <4>3. QED
          BY <4>1, <4>2
      <3> HIDE DEF j
      <3> DEFINE z == SubSeq(s, F(j - 1) + 1, F(j))
      <3>6. front(j) = front(j - 1) \o z /\ z \in Seq(Elem)
        BY <3>3, Divided DEF front
      <3>7. front(j - 1) \in Seq(Elem)
        BY <1>7, <3>1
      <3>8. tail \o (front(j - 1) \o z) = (tail \o front(j - 1)) \o z
        <4> DEFINE y == front(j - 1)
        <4>1. tail \in Seq(Elem) /\ y \in Seq(Elem) /\ z \in Seq(Elem)
          BY <1>6, <3>6, <3>7
        <4> HIDE DEF y, z
        <4>2. (tail \o y) \o z = tail \o (y \o z)
          BY <4>1, Regrouped
        <4>3. QED
          BY <4>2 DEF y
      <3>9. tail \o front(j - 1) \in Seq(Elem)
        BY <1>6, <3>7, ConcatProperties
      <3>10. QED
        BY <3>4, <3>5, <3>6, <3>8, <3>9
    <2>3. QED
      BY <1>1, <2>1, <2>2
  <1>11. QED
    BY <1>8, <1>9, <1>10

LEMMA WrapLines ==
  ASSUME NEW s \in Seq(Elem), IsInjective(s), Len(s) > Target, NEW a \in 1 .. Chunks,
         NEW i1 \in 0 .. Chunks - 1
  PROVE  /\ Wrap(s, a, i1) \in Seq(Elem) /\ IsInjective(Wrap(s, a, i1))
         /\ Range(Wrap(s, a, i1)) = UNION {Range(Chunk(s, Pos(a, j))) : j \in 1 .. i1}
         /\ i1 # 0 => /\ Wrap(s, a, i1) # <<>>
                      /\ Wrap(s, a, i1)[1] = Chunk(s, Pos(a, 1))[1]
                      /\ Last(Wrap(s, a, i1)) = Last(Chunk(s, Pos(a, i1)))
  <1> DEFINE W(j) == Wrap(s, a, j)
             P(j) == Chunk(s, Pos(a, j))
             U(k) == UNION {Range(P(j)) : j \in 1 .. k}
             good(k) == /\ W(k) \in Seq(Elem) /\ IsInjective(W(k))
                        /\ Range(W(k)) = U(k)
                        /\ k # 0 => /\ W(k) # <<>> /\ W(k)[1] = P(1)[1]
                                    /\ Last(W(k)) = Last(P(k))
             T == {k \in Nat : good(k)}
  <1>1. Chunks \in Nat /\ Chunks > 1
    BY TargetAssumption DEF Chunks
  <1>2. 0 \in T
    <2>1. W(0) = <<>> /\ 1 .. 0 = {}
      BY WrapGrows
    <2>2. <<>> \in Seq(Elem) /\ Range(<<>>) = {} /\ IsInjective(<<>>)
      BY DEF Range, IsInjective
    <2>3. QED
      BY <2>1, <2>2
  <1>3. ASSUME NEW k \in 0 .. (Chunks - 1) - 1, k \in T PROVE k + 1 \in T
    <2> DEFINE u == W(k)
               q == P(k + 1)
               v == u \o q
    <2>1. k + 1 \in 1 .. Chunks - 1 /\ (k + 1) - 1 = k /\ k \in Nat /\ k + 1 \in 1 .. Chunks
      BY <1>1
    <2>2. /\ u \in Seq(Elem) /\ q \in Seq(Elem) /\ W(k + 1) = v
      BY <2>1, WrapGrows
    <2>3. IsInjective(u) /\ Range(u) = U(k)
      BY <1>3
    <2>4. Pos(a, k + 1) \in 1 .. Chunks
      <3>1. k + 1 \in 0 .. Chunks
        BY <1>1, <2>1
      <3>2. QED
        BY <3>1, Circle
    <2>5. IsInjective(q) /\ q # <<>>
      BY <2>4, ChunkParts, ChunkOff
    <2>6. Range(u) \cap Range(q) = {}
      <3>1. ASSUME NEW j \in 1 .. k PROVE Range(P(j)) \cap Range(q) = {}
        <4>1. j \in 1 .. Chunks /\ j # k + 1 /\ j \in 0 .. Chunks
          BY <1>1, <2>1
        <4>2. Pos(a, j) \in 1 .. Chunks /\ Pos(a, j) # Pos(a, k + 1)
          BY <2>1, <4>1, Circle
        <4>3. QED
          BY <2>4, <4>2, ChunksDisjoint
      <3>2. QED
        BY <2>3, <3>1
    <2>7. U(k + 1) = U(k) \cup Range(q)
      <3>1. 1 .. k + 1 = (1 .. k) \cup {k + 1}
        BY <2>1
      <3>2. QED
        BY <3>1
    <2> HIDE DEF u, q, U
    <2>8. v \in Seq(Elem) /\ IsInjective(v) /\ Range(v) = U(k + 1)
      <3>1. u \in Seq(Elem) /\ q \in Seq(Elem)
        BY <2>2
      <3>2. v \in Seq(Elem) /\ Range(v) = Range(u) \cup Range(q)
        BY <3>1, TakenApart
      <3>3. IsInjective(v)
        BY <2>3, <2>5, <2>6, <3>1, JoinInjective
      <3>4. QED
        BY <2>3, <2>7, <3>2, <3>3
    <2>9. v # <<>> /\ Last(v) = Last(q)
      <3> DEFINE b == Len(q)
      <3>1. /\ Len(v) = Len(u) + b /\ Len(u) \in Nat
            /\ \A m \in 1 .. b : v[Len(u) + m] = q[m]
        BY <2>2, TakenApart
      <3>2. b \in Nat \ {0} /\ Last(q) = q[b]
        BY <2>2, <2>5, Ends
      <3> HIDE DEF b, v
      <3>3. b \in 1 .. b /\ Len(v) > 0
        BY <3>1, <3>2
      <3>4. v[Len(v)] = q[b]
        BY <3>1, <3>3
      <3>5. QED
        BY <2>8, <3>2, <3>3, <3>4, EmptySeq DEF Last
    <2>10. v[1] = P(1)[1]
      <3>1. CASE k = 0
        <4>1. u = <<>> /\ v = q
          BY <2>2, <3>1, WrapGrows, ConcatEmptySeq DEF u
        <4>2. QED
          BY <3>1, <4>1 DEF q
      <3>2. CASE k # 0
        <4>1. u # <<>> /\ u[1] = P(1)[1]
          BY <1>3, <3>2 DEF u
        <4>2. 1 \in 1 .. Len(u)
          BY <2>2, <4>1, Ends
        <4>3. v[1] = u[1]
          BY <2>2, <4>2, TakenApart
        <4>4. QED
          BY <4>1, <4>3
      <3>3. QED
        BY <3>1, <3>2
    <2> HIDE DEF v, W, P
    <2>11. QED
      BY <2>1, <2>2, <2>8, <2>9, <2>10 DEF q
  <1>4. i1 \in T
    <2> HIDE DEF T
    <2>1. Chunks - 1 \in Nat
      BY <1>1
    <2>2. QED
      BY <1>2, <1>3, <2>1, EveryUpTo
  <1>5. QED
    BY <1>4

(* Where the chunks start, and that each of them is linked; the last one   *)
(* of its lines leads to the next chunk or nowhere.                        *)
Loose(h, s, cs) ==
  \A m \in 1 .. Chunks :
    /\ cs[m] = Top(Chunk(s, m))
    /\ \E end \in {Null, cs[After(m)]} : Doubly(h, Chunk(s, m), end)

LEMMA ChunkLines ==
  ASSUME NEW s \in Seq(Elem), IsInjective(s), Len(s) > Target, NEW m \in 1 .. Chunks
  PROVE  LET c == Chunk(s, m)
         IN  /\ c \in Seq(Elem) /\ c # <<>> /\ IsInjective(c) /\ Range(c) \subseteq Range(s)
             /\ Top(c) = c[1] /\ Top(c) \in Elem /\ Top(c) \in Range(c)
             /\ Last(c) \in Elem /\ Last(c) \in Range(c) /\ After(m) \in 1 .. Chunks
  <1> DEFINE c == Chunk(s, m)
  <1>1. c \in Seq(Elem) /\ c # <<>> /\ IsInjective(c) /\ Range(c) \subseteq Range(s)
    BY ChunkOff, ChunkParts
  <1>2. After(m) \in 1 .. Chunks
    BY TargetAssumption DEF After, Chunks
  <1> HIDE DEF c
  <1>3. QED
    BY <1>1, <1>2, Ends DEF c

OnlyEnds(h, g, s, cs, m0) ==
  /\ \A x \in Elem \ {Last(Chunk(s, m0))} : g.next[x] = h.next[x]
  /\ \A x \in Elem : (\A m \in 1 .. Chunks : x # cs[m]) => g.prev[x] = h.prev[x]

OthersStay(h, g, s, m0) ==
  /\ \A m \in 1 .. Chunks : \A k \in 1 .. Len(Chunk(s, m)) - 1 :
       g.prev[Chunk(s, m)[k + 1]] = h.prev[Chunk(s, m)[k + 1]]
  /\ \A m \in 1 .. Chunks \ {m0} : \A end :
       Doubly(h, Chunk(s, m), end) => Doubly(g, Chunk(s, m), end)

(* What is needed of a chunk as a list of its own.                         *)
Filled(s, m) ==
  LET c == Chunk(s, m)
  IN  /\ c \in Seq(Elem) /\ c # <<>> /\ IsInjective(c) /\ Range(c) \subseteq Range(s)
      /\ Top(c) = c[1] /\ c[1] \in Elem /\ c[1] \in Range(c)
      /\ Last(c) \in Elem /\ Last(c) \in Range(c)

LEMMA ChunkFilled ==
  ASSUME NEW s \in Seq(Elem), IsInjective(s), Len(s) > Target, NEW m \in 1 .. Chunks
  PROVE  Filled(s, m)
  <1> DEFINE c == Chunk(s, m)
  <1>1. /\ c \in Seq(Elem) /\ c # <<>> /\ IsInjective(c) /\ Range(c) \subseteq Range(s)
        /\ Top(c) = c[1] /\ Top(c) \in Elem /\ Top(c) \in Range(c)
        /\ Last(c) \in Elem /\ Last(c) \in Range(c)
    BY ChunkLines
  <1> HIDE DEF c
  <1>2. /\ c[1] \in Elem /\ c[1] \in Range(c)
    BY <1>1
  <1>3. QED
    BY <1>1, <1>2 DEF Filled, c

(* When a step writes only the next of a last line and the prev of first   *)
(* lines, the other chunks stay linked.                                    *)
LEMMA LooseStays ==
  ASSUME NEW s \in Seq(Elem), IsInjective(s), Len(s) > Target, NEW cs, NEW h, NEW g,
         Loose(h, s, cs), NEW m0 \in 1 .. Chunks, OnlyEnds(h, g, s, cs, m0)
  PROVE  OthersStay(h, g, s, m0)
  <1>1. ASSUME NEW m \in 1 .. Chunks, NEW k \in 1 .. Len(Chunk(s, m)) - 1
        PROVE  g.prev[Chunk(s, m)[k + 1]] = h.prev[Chunk(s, m)[k + 1]]
    <2> DEFINE c == Chunk(s, m)
               x == c[k + 1]
    <2>1. c \in Seq(Elem) /\ c # <<>> /\ IsInjective(c) /\ Top(c) = c[1]
      BY ChunkLines
    <2>2. k + 1 \in 1 .. Len(c) /\ k \in 1 .. Len(c) - 1
      BY <2>1, LenProperties
    <2> HIDE DEF c
    <2>3. x \in Elem /\ x \in Range(c) /\ x # c[1]
      BY <2>1, <2>2, Ends, ElementOfSeq DEF Range
    <2>4. ASSUME NEW j \in 1 .. Chunks PROVE x # cs[j]
      <3>1. CASE j = m
        BY <2>1, <2>3, <3>1 DEF c, Loose
      <3>2. CASE j # m
        <4>1. cs[j] \in Range(Chunk(s, j))
          <5>1. Top(Chunk(s, j)) \in Range(Chunk(s, j))
            BY ChunkLines
          <5>2. cs[j] = Top(Chunk(s, j))
            BY DEF Loose
          <5>3. QED
            BY <5>1, <5>2
        <4>2. Range(c) \cap Range(Chunk(s, j)) = {}
          BY <3>2, ChunksDisjoint DEF c
        <4>3. QED
          BY <2>3, <4>1, <4>2
      <3>3. QED
        BY <3>1, <3>2
    <2> HIDE DEF x
    <2>5. g.prev[x] = h.prev[x]
      BY <2>3, <2>4 DEF OnlyEnds
    <2>6. QED
      BY <2>5 DEF x, c
  <1>2. ASSUME NEW m \in 1 .. Chunks \ {m0}, NEW end, Doubly(h, Chunk(s, m), end)
        PROVE  Doubly(g, Chunk(s, m), end)
    <2>1. m \in 1 .. Chunks /\ m # m0 /\ Chunk(s, m) \in Seq(Elem)
      BY ChunkLines
    <2>2. Range(Chunk(s, m)) \cap Range(Chunk(s, m0)) = {}
      BY <2>1, ChunksDisjoint
    <2>3. Last(Chunk(s, m0)) \in Range(Chunk(s, m0))
      BY ChunkLines
    <2>4. \A x \in Range(Chunk(s, m)) : g.next[x] = h.next[x]
      <3>1. Range(Chunk(s, m)) \subseteq Elem
        BY <2>1, RangeOfSeq
      <3>2. QED
        BY <2>2, <2>3, <3>1 DEF OnlyEnds
    <2>5. \A k \in 1 .. Len(Chunk(s, m)) - 1 :
            g.prev[Chunk(s, m)[k + 1]] = h.prev[Chunk(s, m)[k + 1]]
      BY <1>1, <2>1
    <2>6. QED
      BY <1>2, <2>1, <2>4, <2>5, Undisturbed
  <1>3. QED
    BY <1>1, <1>2 DEF OthersStay

LEMMA PosApart ==
  ASSUME NEW a \in 1 .. Chunks, NEW i1 \in 1 .. Chunks, NEW i2 \in 1 .. Chunks, i1 # i2
  PROVE  Pos(a, i1) # Pos(a, i2)
  BY Circle

(* After i1 rounds: so much has been linked behind chunk a.            *)
Linking == [heap : Heap, end : Elem]

Chained(h, s, cs, a, st, i1) ==
  /\ st \in Linking /\ Loose(st.heap, s, cs)
  /\ Doubly(st.heap, Chunk(s, a), Null)
  /\ Doubly(st.heap, Wrap(s, a, i1), cs[Pos(a, i1 + 1)])
  /\ st.end = IF i1 = 0 THEN cs[Pos(a, 1)] ELSE Last(Wrap(s, a, i1))
  /\ SameOutside(h, st.heap, Range(s))

LEMMA ChainFurther ==
  ASSUME NEW s \in Seq(Elem), IsInjective(s), Len(s) > Target, NEW cs, NEW h,
         NEW a \in 1 .. Chunks, NEW i1 \in 1 .. Chunks - 1, NEW st,
         Chained(h, s, cs, a, st, i1 - 1), NEW stop, stop = cs[Pos(a, i1 + 1)],
         NEW c, c = Upto(st.heap, st.end, stop), NEW f, f = Repair(st.heap, c),
         NEW g, g = SetPrev(SetNext(f, Last(c), stop), stop, Last(c)),
         NEW y, y = [heap |-> g, end |-> Last(c)]
  PROVE  Chained(h, s, cs, a, y, i1)
  <1> DEFINE u == Wrap(s, a, i1 - 1)
             m0 == Pos(a, i1)
             m1 == Pos(a, i1 + 1)
             q == Chunk(s, m0)
             g0 == st.heap
             v == Wrap(s, a, i1)
  <1>1. /\ Chunks \in Nat /\ Chunks > 1 /\ i1 - 1 \in 0 .. Chunks - 1
        /\ i1 \in 1 .. Chunks /\ i1 + 1 \in 1 .. Chunks /\ i1 \in 0 .. Chunks
        /\ i1 + 1 \in 0 .. Chunks /\ i1 \in 0 .. Chunks - 1 /\ (i1 - 1) + 1 = i1
        /\ Chunks \in 1 .. Chunks
    BY TargetAssumption DEF Chunks
  <1>2. /\ m0 \in 1 .. Chunks /\ m1 \in 1 .. Chunks /\ m1 = After(m0) /\ m0 # m1
        /\ m0 # a
    <2>1. Pos(a, Chunks) = a /\ Pos(a, i1) \in 1 .. Chunks /\ Pos(a, i1 + 1) \in 1 .. Chunks
      BY <1>1, Circle
    <2>2. Pos(a, i1 + 1) = After(Pos(a, i1))
      BY <1>1, Circle
    <2>3. i1 # i1 + 1 /\ i1 # Chunks
      BY <1>1
    <2>4. Pos(a, i1) # Pos(a, i1 + 1) /\ Pos(a, i1) # Pos(a, Chunks)
      BY <1>1, <2>3, PosApart
    <2>5. QED
      BY <2>1, <2>2, <2>4
  <1>3. /\ g0 \in Heap /\ st.end \in Elem /\ Loose(g0, s, cs)
        /\ Doubly(g0, Chunk(s, a), Null) /\ Doubly(g0, u, cs[m0])
        /\ st.end = IF i1 = 1 THEN cs[Pos(a, 1)] ELSE Last(u)
        /\ SameOutside(h, g0, Range(s))
    <2>1. i1 - 1 = 0 <=> i1 = 1
      BY <1>1
    <2>2. QED
      BY <1>1, <2>1 DEF Chained, Linking
  <1>4. /\ q \in Seq(Elem) /\ q # <<>> /\ IsInjective(q) /\ Top(q) = q[1]
        /\ q[1] \in Elem /\ Last(q) \in Elem /\ Last(q) \in Range(q) /\ Range(q) \subseteq Range(s)
        /\ q[1] \in Range(q)
    <2> HIDE DEF m0, m1
    <2>1. m0 \in 1 .. Chunks
      BY <1>2
    <2>2. Filled(s, m0)
      BY <2>1, ChunkFilled
    <2>3. QED
      BY <2>2 DEF Filled
  <1>5. /\ u \in Seq(Elem) /\ IsInjective(u)
        /\ Range(u) = UNION {Range(Chunk(s, Pos(a, j))) : j \in 1 .. i1 - 1}
        /\ i1 # 1 => u # <<>>
    <2> DEFINE k == i1 - 1
    <2>1. k \in 0 .. Chunks - 1 /\ (k = 0 <=> i1 = 1)
      BY <1>1
    <2> HIDE DEF k
    <2>2. /\ Wrap(s, a, k) \in Seq(Elem) /\ IsInjective(Wrap(s, a, k))
          /\ Range(Wrap(s, a, k)) = UNION {Range(Chunk(s, Pos(a, j))) : j \in 1 .. k}
          /\ k # 0 => Wrap(s, a, k) # <<>>
      BY <2>1, WrapLines
    <2>3. QED
      BY <2>1, <2>2 DEF k
  <1>6. i1 = 1 => u = <<>>
    BY WrapGrows
  <1>7. v = u \o q
    BY WrapGrows
  <1>8. /\ v \in Seq(Elem) /\ Last(v) = Last(q)
    BY <1>1, WrapLines
  <1>9. cs[m0] = q[1] /\ stop = cs[m1] /\ stop = Top(Chunk(s, m1))
    BY <1>2, <1>3, <1>4 DEF Loose
  <1>10. PICK end \in {Null, stop} : Doubly(g0, q, end)
    BY <1>2, <1>3, <1>9 DEF Loose
  <1>11. stop \in Elem /\ stop \in Range(Chunk(s, m1))
    <2> HIDE DEF m0, m1
    <2>1. QED
      BY <1>2, <1>9, ChunkLines
  <1>12. stop \notin Range(u) \cup Range(q) /\ Range(u) \cap Range(q) = {}
    <2>1. Range(Chunk(s, m1)) \cap Range(q) = {}
      <3> HIDE DEF m0, m1
      <3>1. QED
        BY <1>2, ChunksDisjoint
    <2>2. ASSUME NEW j \in 1 .. i1 - 1
          PROVE  /\ Range(Chunk(s, Pos(a, j))) \cap Range(q) = {}
                 /\ Range(Chunk(s, Pos(a, j))) \cap Range(Chunk(s, m1)) = {}
      <3>1. j \in 1 .. Chunks /\ j \in 0 .. Chunks /\ j # i1 /\ j # i1 + 1
        BY <1>1
      <3>2. Pos(a, j) \in 1 .. Chunks /\ Pos(a, j) # m0 /\ Pos(a, j) # m1
        <4>1. Pos(a, j) \in 1 .. Chunks
          BY <3>1, Circle
        <4>2. Pos(a, j) # Pos(a, i1) /\ Pos(a, j) # Pos(a, i1 + 1)
          BY <1>1, <3>1, PosApart
        <4>3. QED
          BY <4>1, <4>2
      <3> HIDE DEF m0, m1
      <3>3. QED
        BY <1>2, <3>2, ChunksDisjoint
    <2>3. QED
      BY <1>5, <1>11, <2>1, <2>2
  <1>13. st.end = IF u = <<>> THEN q[1] ELSE Last(u)
    BY <1>3, <1>5, <1>6, <1>9
  <1> HIDE DEF u, q, g0, v, m0, m1
  <1>14. /\ g \in Heap /\ Last(c) = Last(q) /\ Doubly(g, u \o q, stop) /\ Doubly(g, q, stop)
         /\ \A x \in Elem \ {Last(q)} : g.next[x] = g0.next[x]
         /\ \A x \in Elem \ {q[1], stop} : g.prev[x] = g0.prev[x]
    <2>1. Doubly(g0, u, q[1])
      BY <1>3, <1>9
    <2>2. c = Upto(g0, st.end, stop) /\ f = Repair(g0, c)
      BY DEF g0
    <2>3. g0 \in Heap
      BY <1>3
    <2>4. LinkedBehind(g0, g, u, q, stop, c)
      BY <1>4, <1>5, <1>10, <1>11, <1>12, <1>13, <2>1, <2>2, <2>3, LinkOne
    <2>5. QED
      BY <2>4 DEF LinkedBehind
  <1>15. \A m \in 1 .. Chunks \ {m0} : \A e :
           Doubly(g0, Chunk(s, m), e) => Doubly(g, Chunk(s, m), e)
    <2>1. \A x \in Elem \ {Last(Chunk(s, m0))} : g.next[x] = g0.next[x]
      BY <1>14 DEF q
    <2>2. \A x \in Elem : (\A m \in 1 .. Chunks : x # cs[m]) => g.prev[x] = g0.prev[x]
      BY <1>2, <1>9, <1>14
    <2>3. OnlyEnds(g0, g, s, cs, m0) /\ Loose(g0, s, cs) /\ m0 \in 1 .. Chunks
      BY <1>2, <1>3, <2>1, <2>2 DEF OnlyEnds
    <2>4. OthersStay(g0, g, s, m0)
      BY <2>3, LooseStays
    <2>5. QED
      BY <2>4 DEF OthersStay
  <1>16. Loose(g, s, cs)
    <2>1. ASSUME NEW m \in 1 .. Chunks
          PROVE  /\ cs[m] = Top(Chunk(s, m))
                 /\ \E e \in {Null, cs[After(m)]} : Doubly(g, Chunk(s, m), e)
      <3>1. cs[m] = Top(Chunk(s, m)) /\ \E e \in {Null, cs[After(m)]} : Doubly(g0, Chunk(s, m), e)
        BY <1>3 DEF Loose
      <3>2. CASE m = m0
        BY <1>2, <1>9, <1>14, <3>1, <3>2 DEF q
      <3>3. CASE m # m0
        BY <1>15, <3>1, <3>3
      <3>4. QED
        BY <3>2, <3>3
    <2>2. QED
      BY <2>1 DEF Loose
  <1>17. Doubly(g, Chunk(s, a), Null)
    BY <1>2, <1>3, <1>15
  <1>18. SameOutside(h, g, Range(s))
    <2>1. q[1] \in Range(s) /\ Last(q) \in Range(s)
      BY <1>4
    <2>2. stop \in Range(s)
      <3>1. Filled(s, m1)
        BY <1>2, ChunkFilled
      <3>2. QED
        BY <1>11, <3>1 DEF Filled
    <2>3. ASSUME NEW e \in Elem \ Range(s)
          PROVE  g.next[e] = h.next[e] /\ g.prev[e] = h.prev[e]
      <3>1. g0.next[e] = h.next[e] /\ g0.prev[e] = h.prev[e]
        BY <1>3 DEF SameOutside
      <3>2. e # q[1] /\ e # Last(q) /\ e # stop
        BY <2>1, <2>2
      <3>3. QED
        BY <1>14, <3>1, <3>2
    <2>4. QED
      BY <2>3 DEF SameOutside
  <1>19. y \in Linking /\ y.heap = g /\ y.end = Last(v)
    BY <1>4, <1>8, <1>14 DEF Linking
  <1>20. Doubly(g, v, cs[m1])
    BY <1>7, <1>9, <1>14
  <1>21. y.end = IF i1 = 0 THEN cs[Pos(a, 1)] ELSE Last(v)
    BY <1>1, <1>19
  <1>22. QED
    BY <1>16, <1>17, <1>18, <1>19, <1>20, <1>21 DEF Chained, v, m1

(* From the first line of a list up to the one it leads to.                *)
LEMMA UptoNext ==
  ASSUME NEW h \in Heap, NEW q \in Seq(Elem), q # <<>>, IsInjective(q), NEW stop,
         stop \notin Range(q), NEW end \in {Null, stop}, Doubly(h, q, end)
  PROVE  Upto(h, q[1], stop) = q
  <1>1. \A k \in 1 .. Len(q) - 1 : h.next[q[k]] = q[k + 1] /\ q[k + 1] # stop
    <2>1. \A k \in 1 .. Len(q) - 1 : k + 1 \in 1 .. Len(q)
      BY LenProperties
    <2>2. \A k \in 1 .. Len(q) - 1 : q[k + 1] \in Range(q)
      BY <2>1, LenProperties DEF Range
    <2>3. QED
      BY <2>2 DEF Doubly, Linked
  <1>2. h.next[q[Len(q)]] \in {stop, Null}
    BY DEF Doubly, Linked
  <1>3. QED
    BY <1>1, <1>2, UptoThere


(* Before the loop: chunk a is cut off and the one behind it is the head.  *)
LEMMA ChainStart ==
  ASSUME NEW s \in Seq(Elem), IsInjective(s), Len(s) > Target, NEW cs, NEW h \in Heap,
         Loose(h, s, cs), NEW a \in 1 .. Chunks,
         NEW p, p = cs[a], NEW e, e = cs[Pos(a, 1)],
         NEW h1, h1 = SetPrev(h, p, Null), NEW c, c = Upto(h1, p, e),
         NEW h2, h2 = SetNext(h1, Last(c), Null), NEW h3, h3 = SetPrev(h2, e, Null),
         NEW b, b = [heap |-> h3, end |-> e]
  PROVE  Chained(h, s, cs, a, b, 0)
  <1> DEFINE q == Chunk(s, a)
             m1 == Pos(a, 1)
  <1>1. m1 \in 1 .. Chunks /\ m1 # a /\ m1 = After(a)
    <2>1. /\ 1 \in 1 .. Chunks /\ Chunks \in 1 .. Chunks /\ 1 # Chunks /\ 1 \in 0 .. Chunks
          /\ 0 \in 0 .. Chunks - 1 /\ 0 + 1 = 1
      BY TargetAssumption DEF Chunks
    <2>2. Pos(a, Chunks) = a /\ Pos(a, 0) = a /\ Pos(a, 1) \in 1 .. Chunks
      BY <2>1, Circle
    <2>3. Pos(a, 0 + 1) = After(Pos(a, 0))
      BY <2>1, Circle
    <2>4. Pos(a, 1) # Pos(a, Chunks)
      BY <2>1, PosApart
    <2>5. QED
      BY <2>1, <2>2, <2>3, <2>4
  <1>2. /\ q \in Seq(Elem) /\ q # <<>> /\ IsInjective(q) /\ Range(q) \subseteq Range(s)
        /\ Top(q) = q[1] /\ q[1] \in Elem /\ q[1] \in Range(q)
        /\ Last(q) \in Elem /\ Last(q) \in Range(q)
    BY ChunkLines
  <1>3. PICK end \in {Null, e} : Doubly(h, q, end)
    BY <1>1 DEF Loose
  <1> HIDE DEF m1
  <1>4. p = q[1] /\ e = Top(Chunk(s, m1))
    BY <1>1, <1>2 DEF Loose, m1
  <1>5. e \in Elem /\ e \in Range(Chunk(s, m1)) /\ e \in Range(s)
    BY <1>1, <1>4, ChunkLines
  <1>6. e \notin Range(q)
    BY <1>1, <1>5, ChunksDisjoint
  <1> HIDE DEF q
  <1>7. h1 \in Heap /\ h1.next = h.next /\ \A x \in Elem \ {p} : h1.prev[x] = h.prev[x]
    <2>1. p \in Elem /\ Null \in Ptr
      BY <1>2, <1>4, PtrType
    <2>2. PrevSet(h, h1, p, Null)
      BY <2>1, WritingPrev
    <2>3. QED
      BY <2>2 DEF PrevSet
  <1>8. \A k \in 1 .. Len(q) - 1 : q[k + 1] \in Elem /\ q[k + 1] # p /\ q[k + 1] # e
    <2>1. ASSUME NEW k \in 1 .. Len(q) - 1
          PROVE q[k + 1] \in Elem /\ q[k + 1] \in Range(q) /\ q[k + 1] # q[1]
      <3>1. k + 1 \in 1 .. Len(q)
        BY <1>2, LenProperties
      <3>2. QED
        BY <1>2, <3>1, Ends, ElementOfSeq DEF Range
    <2>2. QED
      BY <1>4, <1>6, <2>1
  <1>9. Doubly(h1, q, end)
    <2>1. /\ \A x \in Range(q) : h1.next[x] = h.next[x]
          /\ \A k \in 1 .. Len(q) - 1 : h1.prev[q[k + 1]] = h.prev[q[k + 1]]
      BY <1>7, <1>8
    <2>2. QED
      BY <1>2, <1>3, <2>1, Undisturbed
  <1>10. c = q
    <2>1. h1 \in Heap
      BY <1>7
    <2>2. Upto(h1, q[1], e) = q
      BY <1>2, <1>3, <1>6, <1>9, <2>1, UptoNext
    <2>3. QED
      BY <1>4, <2>2
  <1> DEFINE x1 == Last(q)
  <1>11. x1 \in Elem /\ x1 \in Range(q) /\ Null \in Ptr /\ h2 = SetNext(h1, x1, Null)
    BY <1>2, <1>10, PtrType
  <1>12. Doubly(h2, q, Null)
    BY <1>2, <1>7, <1>9, <1>11, NewEnd
  <1> HIDE DEF x1
  <1>13. h2 \in Heap /\ h2.prev = h1.prev /\ \A x \in Elem \ {x1} : h2.next[x] = h1.next[x]
    <2>1. h1 \in Heap
      BY <1>7
    <2>2. NextSet(h1, h2, x1, Null)
      BY <1>11, <2>1, WritingNext
    <2>3. QED
      BY <2>2 DEF NextSet
  <1>14. h3 \in Heap /\ h3.next = h2.next /\ \A x \in Elem \ {e} : h3.prev[x] = h2.prev[x]
    <2>1. h2 \in Heap
      BY <1>13
    <2>2. PrevSet(h2, h3, e, Null)
      BY <1>5, <1>11, <2>1, WritingPrev
    <2>3. QED
      BY <2>2 DEF PrevSet
  <1>15. Doubly(h3, q, Null)
    <2>1. SameOutside(h2, h3, {e})
      BY <1>14 DEF SameOutside
    <2>2. QED
      BY <1>2, <1>6, <1>12, <2>1, Elsewhere
  <1>16. /\ \A x \in Elem \ {x1} : h3.next[x] = h.next[x]
         /\ \A x \in Elem \ {p, e} : h3.prev[x] = h.prev[x]
    BY <1>7, <1>13, <1>14
  <1>17. OthersStay(h, h3, s, a)
    <2>1. \A x \in Elem : (\A m \in 1 .. Chunks : x # cs[m]) => h3.prev[x] = h.prev[x]
      BY <1>1, <1>16 DEF m1
    <2>2. OnlyEnds(h, h3, s, cs, a)
      BY <1>16, <2>1 DEF OnlyEnds, x1, q
    <2>3. QED
      BY <2>2, LooseStays
  <1>18. Loose(h3, s, cs)
    <2>1. ASSUME NEW m \in 1 .. Chunks
          PROVE  /\ cs[m] = Top(Chunk(s, m))
                 /\ \E d \in {Null, cs[After(m)]} : Doubly(h3, Chunk(s, m), d)
      <3>1. cs[m] = Top(Chunk(s, m)) /\ \E d \in {Null, cs[After(m)]} : Doubly(h, Chunk(s, m), d)
        BY DEF Loose
      <3>2. CASE m = a
        BY <1>15, <3>1, <3>2 DEF q
      <3>3. CASE m # a
        BY <1>17, <3>1, <3>3 DEF OthersStay
      <3>4. QED
        BY <3>2, <3>3
    <2>2. QED
      BY <2>1 DEF Loose
  <1>19. SameOutside(h, h3, Range(s))
    BY <1>2, <1>4, <1>5, <1>11, <1>16 DEF SameOutside
  <1>20. Doubly(h3, Wrap(s, a, 0), cs[Pos(a, 0 + 1)])
    <2>1. Wrap(s, a, 0) = <<>> /\ Len(<<>>) = 0
      BY WrapGrows
    <2>2. QED
      BY <2>1 DEF Doubly, Linked
  <1>21. b \in Linking /\ b.heap = h3 /\ b.end = e
    BY <1>5, <1>14 DEF Linking
  <1>22. QED
    BY <1>15, <1>18, <1>19, <1>20, <1>21 DEF Chained, q

(* After the last one.                                                     *)
LEMMA ChainEnd ==
  ASSUME NEW s \in Seq(Elem), IsInjective(s), Len(s) > Target, NEW cs, NEW h,
         NEW a \in 1 .. Chunks, NEW st, Chained(h, s, cs, a, st, Chunks - 1),
         NEW g, g = SetNext(st.heap, st.end, Null)
  PROVE  /\ g \in Heap /\ Loose(g, s, cs) /\ SameOutside(h, g, Range(s))
         /\ IsList(g, cs[Pos(a, 1)], Without(s, a))
         /\ IsList(g, cs[a], Chunk(s, a))
  <1> DEFINE size == Chunks - 1
             w == Wrap(s, a, size)
             m0 == Pos(a, size)
             f == st.heap
  <1>1. /\ size \in 1 .. Chunks /\ Chunks \in 1 .. Chunks /\ size # Chunks
        /\ size \in 0 .. Chunks - 1 /\ size # 0 /\ size \in 0 .. Chunks /\ 1 \in 1 .. Chunks
        /\ 1 \in 0 .. Chunks /\ size + 1 = Chunks
    BY TargetAssumption DEF Chunks
  <1> HIDE DEF size
  <1>2. m0 \in 1 .. Chunks /\ m0 # a /\ Pos(a, 1) \in 1 .. Chunks
    <2>1. Pos(a, Chunks) = a /\ Pos(a, size) \in 1 .. Chunks /\ Pos(a, 1) \in 1 .. Chunks
      BY <1>1, Circle
    <2>2. Pos(a, size) # Pos(a, Chunks)
      BY <1>1, PosApart
    <2>3. QED
      BY <2>1, <2>2
  <1>3. /\ w \in Seq(Elem) /\ IsInjective(w) /\ w # <<>> /\ w[1] = Chunk(s, Pos(a, 1))[1]
        /\ Last(w) = Last(Chunk(s, m0))
    BY <1>1, WrapLines
  <1>4. w = Without(s, a)
    BY WrapGrows DEF size
  <1>5. /\ f \in Heap /\ Loose(f, s, cs) /\ Doubly(f, Chunk(s, a), Null)
        /\ \E e : Doubly(f, w, e)
        /\ st.end = Last(w) /\ SameOutside(h, f, Range(s))
    BY <1>1 DEF Chained, Linking, size
  <1> HIDE DEF w, f, m0
  <1>6. PICK e : Doubly(f, w, e)
    BY <1>5
  <1> DEFINE x1 == Last(w)
  <1>7. g = SetNext(f, x1, Null) /\ Null \in Ptr
    BY <1>5, PtrType DEF f
  <1>8. Doubly(g, w, Null)
    BY <1>3, <1>5, <1>6, <1>7, NewEnd
  <1>9. x1 \in Elem /\ x1 \in Range(s)
    BY <1>2, <1>3, ChunkLines
  <1> HIDE DEF x1
  <1>10. g \in Heap /\ g.prev = f.prev /\ \A x \in Elem \ {x1} : g.next[x] = f.next[x]
    <2>1. f \in Heap
      BY <1>5
    <2>2. NextSet(f, g, x1, Null)
      BY <1>7, <1>9, <2>1, WritingNext
    <2>3. QED
      BY <2>2 DEF NextSet
  <1>11. OthersStay(f, g, s, m0)
    <2>1. OnlyEnds(f, g, s, cs, m0)
      BY <1>3, <1>10 DEF OnlyEnds, x1
    <2>2. Loose(f, s, cs)
      BY <1>5
    <2>3. QED
      BY <1>2, <2>1, <2>2, LooseStays
  <1>12. Doubly(g, Chunk(s, m0), Null)
    <2> DEFINE q == Chunk(s, m0)
    <2>1. q \in Seq(Elem) /\ q # <<>> /\ IsInjective(q)
      BY <1>2, ChunkLines
    <2>2. PICK d : Doubly(f, q, d)
      BY <1>2, <1>5 DEF Loose
    <2>3. g = SetNext(f, Last(q), Null)
      BY <1>3, <1>7 DEF x1
    <2> HIDE DEF q
    <2>4. Doubly(SetNext(f, Last(q), Null), q, Null)
      BY <1>5, <1>7, <2>1, <2>2, NewEnd
    <2>5. QED
      BY <2>3, <2>4 DEF q
  <1>13. Loose(g, s, cs)
    <2>1. ASSUME NEW m \in 1 .. Chunks
          PROVE  /\ cs[m] = Top(Chunk(s, m))
                 /\ \E d \in {Null, cs[After(m)]} : Doubly(g, Chunk(s, m), d)
      <3>1. cs[m] = Top(Chunk(s, m)) /\ \E d \in {Null, cs[After(m)]} : Doubly(f, Chunk(s, m), d)
        BY <1>5 DEF Loose
      <3>2. CASE m = m0
        BY <1>12, <3>1, <3>2
      <3>3. CASE m # m0
        BY <1>11, <3>1, <3>3 DEF OthersStay
      <3>4. QED
        BY <3>2, <3>3
    <2>2. QED
      BY <2>1 DEF Loose
  <1>14. Doubly(g, Chunk(s, a), Null)
    BY <1>2, <1>5, <1>11 DEF OthersStay
  <1>15. SameOutside(h, g, Range(s))
    BY <1>5, <1>9, <1>10 DEF SameOutside
  <1>16. IsList(g, cs[a], Chunk(s, a))
    <2>1. Chunk(s, a) \in Seq(Elem) /\ IsInjective(Chunk(s, a))
      BY ChunkLines
    <2>2. cs[a] = Top(Chunk(s, a))
      BY <1>13 DEF Loose
    <2>3. QED
      BY <1>14, <2>1, <2>2 DEF IsList
  <1>17. IsList(g, cs[Pos(a, 1)], w)
    <2>1. cs[Pos(a, 1)] = Top(Chunk(s, Pos(a, 1)))
      BY <1>2, <1>13 DEF Loose
    <2>2. Top(Chunk(s, Pos(a, 1))) = Chunk(s, Pos(a, 1))[1]
      BY <1>2, ChunkLines
    <2>3. Top(w) = w[1]
      BY <1>3 DEF Top
    <2>4. QED
      BY <1>3, <1>8, <2>1, <2>2, <2>3 DEF IsList
  <1>18. QED
    BY <1>4, <1>10, <1>13, <1>15, <1>16, <1>17

(* list_from_chunks() makes one list of all chunks but the a-th.           *)
LEMMA LinkedAgain ==
  ASSUME NEW h \in Heap, NEW s \in Seq(Elem), IsInjective(s), Len(s) > Target,
         NEW cs, Len(cs) = Chunks, Loose(h, s, cs), NEW a \in 1 .. Chunks,
         NEW p, p # Null
  PROVE  LET r == FromChunks(h, p, cs, a)
         IN  /\ r.heap \in Heap /\ Loose(r.heap, s, cs) /\ r.ptr \in Elem
             /\ IsList(r.heap, r.ptr, Without(s, a))
             /\ IsList(r.heap, cs[a], Chunk(s, a))
             /\ SameOutside(h, r.heap, Range(s))
  <1> DEFINE size == Len(cs)
             at(i1) == cs[((a - 1 + i1) % size) + 1]
             h1 == SetPrev(h, at(0), Null)
             h2 == SetNext(h1, IF at(0) = Null THEN Null
                               ELSE Last(Upto(h1, at(0), at(1))), Null)
             h3 == SetPrev(h2, at(1), Null)
             b == [heap |-> h3, end |-> at(1)]
             link(st, i1) ==
               LET c == Upto(st.heap, st.end, at(i1 + 1))
                   repaired == [x \in Elem |->
                                  IF \E m \in 2 .. Len(c) : c[m] = x
                                    THEN c[(CHOOSE m \in 2 .. Len(c) : c[m] = x) - 1]
                                    ELSE st.heap.prev[x]]
                   h4 == [st.heap EXCEPT !.prev = repaired]
                   h5 == SetNext(h4, Last(c), at(i1 + 1))
               IN  IF \E m \in 1 .. i1 : at(m) = Null THEN st
                   ELSE [heap |-> SetPrev(h5, at(i1 + 1), Last(c)), end |-> Last(c)]
             Eq(u) == u = [j \in 0 .. size - 1 |-> IF j = 0 THEN b ELSE link(u[j - 1], j)]
             joints == CHOOSE u : Eq(u)
             good == [j \in 0 .. size - 1 |->
                        {x \in Linking : Chained(h, s, cs, a, x, j)}]
             step == [j \in 0 .. size - 2 |-> [x \in Linking |-> link(x, j + 1)]]
  <1>1. size = Chunks /\ Chunks \in Nat /\ Chunks > 1
    BY TargetAssumption DEF Chunks
  <1>2. ASSUME NEW i1 \in 0 .. Chunks
        PROVE  at(i1) = cs[Pos(a, i1)] /\ at(i1) \in Elem /\ at(i1) # Null
    <2>1. ((a - 1 + i1) % Chunks) + 1 = Pos(a, i1) /\ Pos(a, i1) \in 1 .. Chunks
      BY Circle
    <2>2. at(i1) = cs[Pos(a, i1)]
      BY <1>1, <2>1
    <2>3. cs[Pos(a, i1)] = Top(Chunk(s, Pos(a, i1)))
      BY <2>1 DEF Loose
    <2>4. Top(Chunk(s, Pos(a, i1))) \in Elem
      BY <2>1, ChunkLines
    <2> HIDE DEF at
    <2>5. QED
      BY <2>2, <2>3, <2>4, PtrType
  <1> HIDE DEF at
  <1>3. at(0) = cs[a] /\ at(0) # Null /\ at(1) = cs[Pos(a, 1)] /\ at(1) # Null /\ at(1) \in Elem
    <2>1. 0 \in 0 .. Chunks /\ 1 \in 0 .. Chunks
      BY <1>1
    <2>2. Pos(a, 0) = a
      BY Circle
    <2>3. QED
      BY <1>2, <2>1, <2>2
  <1>4. Chained(h, s, cs, a, b, 0)
    <2>1. h2 = SetNext(h1, Last(Upto(h1, at(0), at(1))), Null)
      BY <1>3
    <2> HIDE DEF h1, h2
    <2>2. h3 = SetPrev(h2, at(1), Null) /\ b = [heap |-> h3, end |-> at(1)]
      OBVIOUS
    <2> HIDE DEF h3, b
    <2>3. h1 = SetPrev(h, at(0), Null)
      BY DEF h1
    <2>4. QED
      BY <1>3, <2>1, <2>2, <2>3, ChainStart
  <1> HIDE DEF b
  <1>5. ASSUME NEW j \in 1 .. Chunks - 1, NEW x, Chained(h, s, cs, a, x, j - 1)
        PROVE  Chained(h, s, cs, a, link(x, j), j)
    <2> DEFINE c == Upto(x.heap, x.end, at(j + 1))
               f == Repair(x.heap, c)
               g == SetPrev(SetNext(f, Last(c), at(j + 1)), at(j + 1), Last(c))
               y == [heap |-> g, end |-> Last(c)]
    <2>1. ~\E m \in 1 .. j : at(m) = Null
      <3>1. 1 .. j \subseteq 0 .. Chunks
        BY <1>1
      <3>2. QED
        BY <1>2, <3>1
    <2>2. link(x, j) = y
      BY <2>1 DEF Repair
    <2> HIDE DEF link
    <2>3. at(j + 1) = cs[Pos(a, j + 1)]
      <3>1. j + 1 \in 0 .. Chunks
        BY <1>1
      <3>2. QED
        BY <1>2, <3>1
    <2> HIDE DEF c
    <2>4. c = Upto(x.heap, x.end, at(j + 1))
      BY DEF c
    <2> HIDE DEF f
    <2>5. f = Repair(x.heap, c)
      BY DEF f
    <2> HIDE DEF g
    <2>6. g = SetPrev(SetNext(f, Last(c), at(j + 1)), at(j + 1), Last(c))
      BY DEF g
    <2> HIDE DEF y
    <2>7. y = [heap |-> g, end |-> Last(c)]
      BY DEF y
    <2>8. Chained(h, s, cs, a, y, j)
      BY <1>5, <2>3, <2>4, <2>5, <2>6, <2>7, ChainFurther
    <2>9. QED
      BY <2>2, <2>8
  <1> HIDE DEF link
  <1>6. PICK f \in [0 .. size - 1 -> Linking] :
          /\ Steps(f, size - 1, b, step)
          /\ \A j \in 0 .. size - 1 : f[j] \in good[j]
    <2>1. good \in [0 .. size - 1 -> SUBSET Linking]
      OBVIOUS
    <2>2. b \in good[0]
      <3>1. b \in Linking /\ 0 \in 0 .. size - 1
        BY <1>1, <1>4 DEF Chained
      <3>2. QED
        BY <1>4, <3>1
    <2>3. ASSUME NEW j \in 0 .. (size - 1) - 1, NEW x \in good[j]
          PROVE  step[j][x] \in good[j + 1]
      <3>1. /\ j \in 0 .. size - 1 /\ j + 1 \in 0 .. size - 1 /\ j + 1 \in 1 .. Chunks - 1
            /\ (j + 1) - 1 = j /\ j \in 0 .. size - 2
        BY <1>1
      <3>2. x \in Linking /\ Chained(h, s, cs, a, x, j)
        BY <3>1
      <3>3. Chained(h, s, cs, a, link(x, j + 1), j + 1)
        BY <1>5, <3>1, <3>2
      <3>4. link(x, j + 1) \in Linking
        BY <3>3 DEF Chained
      <3>5. QED
        BY <3>1, <3>2, <3>3, <3>4
    <2> HIDE DEF good, step
    <2>4. size - 1 \in Nat
      BY <1>1
    <2>5. QED
      BY <2>1, <2>2, <2>3, <2>4, StepsStayGood
  <1>7. Eq(f)
    <2>1. ASSUME NEW j \in 0 .. size - 1
          PROVE  f[j] = IF j = 0 THEN b ELSE link(f[j - 1], j)
      <3>1. CASE j = 0
        BY <1>6, <3>1 DEF Steps
      <3>2. CASE j # 0
        <4>1. /\ j - 1 \in 0 .. (size - 1) - 1 /\ j - 1 \in 0 .. size - 2
              /\ j - 1 \in 0 .. size - 1 /\ (j - 1) + 1 = j
          BY <1>1, <3>2
        <4>2. f[j] = step[j - 1][f[j - 1]] /\ f[j - 1] \in Linking
          BY <1>6, <4>1 DEF Steps
        <4>3. QED
          BY <3>2, <4>1, <4>2
      <3>3. QED
        BY <3>1, <3>2
    <2>2. QED
      BY <2>1
  <1>8. Eq(joints)
    BY <1>7
  <1> DEFINE done == joints[size - 1]
             g == SetNext(done.heap, done.end, Null)
  <1>9. FromChunks(h, p, cs, a) = [heap |-> g, ptr |-> at(1)]
    BY <1>3 DEF FromChunks, link, b, at
  <1> HIDE DEF joints
  <1>10. /\ joints[0] = b
         /\ \A j \in 0 .. size - 2 : joints[j + 1] = link(joints[j], j + 1)
    <2>1. 0 \in 0 .. size - 1 /\ \A j \in 0 .. size - 2 : /\ j + 1 \in 0 .. size - 1
                                                          /\ j + 1 # 0 /\ (j + 1) - 1 = j
      BY <1>1
    <2>2. QED
      BY <1>8, <2>1
  <1> HIDE DEF Eq
  <1> DEFINE T == {j \in Nat : Chained(h, s, cs, a, joints[j], j)}
  <1>11. 0 \in T
    BY <1>4, <1>10
  <1>12. ASSUME NEW j \in 0 .. (size - 1) - 1, j \in T PROVE j + 1 \in T
    <2>1. /\ j + 1 \in 1 .. Chunks - 1 /\ (j + 1) - 1 = j /\ j + 1 \in Nat
          /\ j \in 0 .. size - 2
      BY <1>1
    <2>2. QED
      BY <1>5, <1>10, <1>12, <2>1
  <1> HIDE DEF T
  <1>13. size - 1 \in T
    <2>1. size - 1 \in Nat /\ size - 1 \in 0 .. size - 1
      BY <1>1
    <2>2. QED
      BY <1>11, <1>12, <2>1, EveryUpTo
  <1>14. Chained(h, s, cs, a, done, Chunks - 1)
    BY <1>1, <1>13 DEF T
  <1> HIDE DEF done
  <1>15. /\ g \in Heap /\ Loose(g, s, cs) /\ SameOutside(h, g, Range(s))
         /\ IsList(g, cs[Pos(a, 1)], Without(s, a)) /\ IsList(g, cs[a], Chunk(s, a))
    BY <1>14, ChainEnd
  <1>16. QED
    BY <1>3, <1>9, <1>15

-----------------------------------------------------------------------------
(***************************************************************************)
(* The lists while the routine runs.                                       *)
(***************************************************************************)
(* The slots of back[] behind the first k hold lists.                      *)
Slots(h, bs, k) == \A j \in k + 1 .. Len(bs) : IsList(h, bs[j], Chain(h, bs[j]))

(* From the cut to the end of a level the chunks lie in memory one by one, *)
(* or linked around the one left out last; otherwise *ptr is a list.  So   *)
(* are *can and what is still in back[], always.                           *)
Levelled == /\ Loose(heap, base, chunks) /\ ptr # Null
            /\ n > 0 => /\ IsList(heap, ptr, Without(base, order[n]))
                        /\ IsList(heap, Tried, Chunk(base, order[n]))

HeapInv ==
  /\ heap \in Heap /\ Len(chunks) = Chunks
  /\ backs \in Seq(Ptr) /\ Len(backs) = Seqs!Room
  /\ l \in 0 .. Len(backs) /\ i \in 0 .. Len(backs)
  /\ \A j \in l + 1 .. Len(backs) : backs[j] = Null
  /\ pc \notin {"recover", "done"} => i = 0
  /\ IsList(heap, canp, can)
  /\ Slots(heap, backs, i)
  /\ pc \notin {"try", "decide"} => IsList(heap, ptr, list)
  /\ pc \in {"try", "decide"} => Levelled

(* What is known of the sequences, in plain words.                         *)
Clear(q, c, b) ==
  /\ IsInjective(q) /\ IsInjective(c) /\ Range(q) \cap Range(c) = {}
  /\ \A j \in DOMAIN b :
       /\ Range(q) \cap Range(b[j]) = {} /\ Range(c) \cap Range(b[j]) = {}
       /\ \A k \in DOMAIN b \ {j} : Range(b[j]) \cap Range(b[k]) = {}

Known ==
  /\ pc \in {"start", "again", "reduce", "try", "decide", "recover", "done"}
  /\ list \in Seq(Elem) /\ can \in Seq(Elem) /\ base \in Seq(Elem)
  /\ back \in Seq(Seq(Elem)) /\ n \in 0 .. Chunks /\ len \in Nat
  /\ \A j \in 1 .. Chunks : order[j] \in 1 .. Chunks
  /\ Clear(IF pc \in {"try", "decide"} THEN base ELSE list, can, back)
  /\ pc = "start" => back = <<>>
  /\ pc \in {"try", "decide"} => Len(base) > Target /\ len = Len(base)
  /\ pc \notin {"try", "decide"} => len = Len(list)
  /\ pc = "try" => n < Chunks /\ ~ret
  /\ pc = "decide" => n \in 1 .. Chunks /\ list = Without(base, order[n])
  /\ Seqs!Room \in Nat

LEMMA WhatIsKnown == Seqs!IInv => Known
  <1> SUFFICES ASSUME Seqs!IInv PROVE Known
    OBVIOUS
  <1>1. /\ Seqs!TypeOK /\ Seqs!NothingLost /\ Seqs!LoopState
    BY DEF Seqs!IInv
  <1>2. Seqs!Chunks = Chunks
    BY SameOps
  <1>3. /\ pc \in {"start", "again", "reduce", "try", "decide", "recover", "done"}
        /\ list \in Seq(Elem) /\ can \in Seq(Elem) /\ base \in Seq(Elem)
        /\ back \in Seq(Seq(Elem)) /\ n \in 0 .. Chunks /\ len \in Nat
        /\ order \in Seqs!Orders /\ input \in Seq(Elem)
    BY <1>1, <1>2 DEF Seqs!TypeOK
  <1>4. \A j \in 1 .. Chunks : order[j] \in 1 .. Chunks
    BY <1>2, <1>3, Instantiable, Seqs!OrderType
  <1>5. Clear(IF pc \in {"try", "decide"} THEN base ELSE list, can, back)
    <2> DEFINE q == IF pc \in {"try", "decide"} THEN base ELSE list
    <2>1. \A s : Seqs!IsInjective(s) = IsInjective(s) /\ Seqs!Range(s) = Range(s)
      BY SameOps
    <2>2. /\ Seqs!IsInjective(q) /\ Seqs!IsInjective(can) /\ Seqs!Apart(back)
          /\ Seqs!Range(q) \cap Seqs!Aside = {}
          /\ Seqs!Range(can) \cap Seqs!Held(back) = {}
      BY <1>1 DEF Seqs!NothingLost, Seqs!NoneTwice, Seqs!InPlay
    <2> HIDE DEF q
    <2>3. Seqs!Aside = Range(can) \cup Seqs!Held(back)
      BY <2>1 DEF Seqs!Aside
    <2>4. ASSUME NEW j \in DOMAIN back PROVE Range(back[j]) \subseteq Seqs!Held(back)
      BY <2>1 DEF Seqs!Held
    <2>5. ASSUME NEW j \in DOMAIN back, NEW k \in DOMAIN back \ {j}
          PROVE  Range(back[j]) \cap Range(back[k]) = {}
      BY <2>1, <2>2 DEF Seqs!Apart
    <2>6. /\ IsInjective(q) /\ IsInjective(can) /\ Range(q) \cap Seqs!Aside = {}
          /\ Range(can) \cap Seqs!Held(back) = {}
      BY <2>1, <2>2
    <2>7. Clear(q, can, back)
      BY <2>3, <2>4, <2>5, <2>6 DEF Clear
    <2>8. QED
      BY <2>7 DEF q
  <1>6. /\ pc = "start" => back = <<>>
        /\ pc \in {"try", "decide"} => Len(base) > Target /\ len = Len(base)
        /\ pc \notin {"try", "decide"} => len = Len(list)
        /\ pc = "try" => n < Chunks /\ ~ret
        /\ pc = "decide" => n > 0 /\ list = Seqs!Without(base, order[n])
    BY <1>1, <1>2 DEF Seqs!LoopState
  <1>7. pc = "decide" => n \in 1 .. Chunks /\ list = Without(base, order[n])
    BY <1>3, <1>6, SameOps
  <1>8. Seqs!Room \in Nat
    <2>1. Len(input) \in Nat
      BY <1>3, LenProperties
    <2>2. Seqs!Height(Len(input)) \in Nat
      BY <2>1, Instantiable, Seqs!HeightExists
    <2>3. QED
      BY <2>2 DEF Seqs!Room
  <1>9. QED
    BY <1>3, <1>4, <1>5, <1>6, <1>7, <1>8 DEF Known

LEMMA NoLines ==
  ASSUME NEW h \in Heap
  PROVE  IsList(h, Null, <<>>) /\ Chain(h, Null) = <<>> /\ Range(<<>>) = {}
  <1>1. <<>> \in Seq(Elem) /\ IsInjective(<<>>) /\ Top(<<>>) = Null /\ Len(<<>>) = 0
        /\ Range(<<>>) = {}
    BY DEF IsInjective, Top, Range
  <1>2. IsList(h, Null, <<>>)
    BY <1>1 DEF IsList, Doubly, Linked
  <1>3. QED
    BY <1>1, <1>2, ChainOf

LEMMA SlotsStay ==
  ASSUME NEW h, NEW g \in Heap, NEW T, SameOutside(h, g, T), NEW bs, NEW k,
         Slots(h, bs, k), \A j \in k + 1 .. Len(bs) : Range(Chain(h, bs[j])) \cap T = {}
  PROVE  /\ Slots(g, bs, k)
         /\ \A j \in k + 1 .. Len(bs) : Chain(g, bs[j]) = Chain(h, bs[j])
  <1>1. ASSUME NEW j \in k + 1 .. Len(bs)
        PROVE  IsList(g, bs[j], Chain(h, bs[j])) /\ Chain(g, bs[j]) = Chain(h, bs[j])
    <2>1. IsList(h, bs[j], Chain(h, bs[j]))
      BY DEF Slots
    <2>2. IsList(g, bs[j], Chain(h, bs[j]))
      BY <2>1, ListElsewhere
    <2>3. QED
      BY <2>2, ChainOf
  <1>2. QED
    BY <1>1 DEF Slots

(* The sequence back[], slot by slot.                                      *)
LEMMA BackSlots ==
  ASSUME HeapInv, pc # "done"
  PROVE  /\ DOMAIN back = 1 .. l - i
         /\ \A j \in 1 .. l - i : back[j] = Chain(heap, backs[i + j])
         /\ \A j \in i + 1 .. l : j - i \in DOMAIN back /\ back[j - i] = Chain(heap, backs[j])
  <1>1. l \in Nat /\ i \in Nat
    BY LenProperties DEF HeapInv
  <1>2. DOMAIN back = 1 .. l - i /\ \A j \in 1 .. l - i : back[j] = Chain(heap, backs[i + j])
    <2>1. CASE pc = "recover"
      BY <2>1 DEF back
    <2>2. CASE pc # "recover"
      <3>1. i = 0
        BY <2>2 DEF HeapInv
      <3>2. back = [j \in 1 .. l |-> Chain(heap, backs[j])]
        BY <2>2 DEF back
      <3>3. l - i = l /\ \A j \in 1 .. l : i + j = j
        BY <1>1, <3>1
      <3>4. QED
        BY <3>2, <3>3
    <2>3. QED
      BY <2>1, <2>2
  <1>3. ASSUME NEW j \in i + 1 .. l
        PROVE  j - i \in DOMAIN back /\ back[j - i] = Chain(heap, backs[j])
    <2>1. j - i \in 1 .. l - i /\ i + (j - i) = j
      BY <1>1
    <2>2. QED
      BY <1>2, <2>1
  <1>4. QED
    BY <1>2, <1>3

InPlay == IF pc \in {"try", "decide"} THEN base ELSE list

(* No line is in two places: what a slot holds is nowhere else.            *)
LEMMA SlotsApart ==
  ASSUME HeapInv, Known, pc # "done", NEW j \in i + 1 .. Len(backs)
  PROVE  LET t == Chain(heap, backs[j])
         IN  /\ IsList(heap, backs[j], t)
             /\ Range(InPlay) \cap Range(t) = {} /\ Range(can) \cap Range(t) = {}
             /\ \A k \in i + 1 .. Len(backs) :
                  k # j => Range(t) \cap Range(Chain(heap, backs[k])) = {}
  <1> DEFINE C(k) == Chain(heap, backs[k])
  <1>1. /\ l \in Nat /\ i \in Nat /\ Len(backs) \in Nat /\ heap \in Heap
    BY LenProperties DEF HeapInv
  <1>2. ASSUME NEW k \in i + 1 .. Len(backs), k > l PROVE Range(C(k)) = {}
    <2>1. k \in l + 1 .. Len(backs)
      BY <1>1, <1>2
    <2>2. backs[k] = Null
      BY <2>1 DEF HeapInv
    <2>3. QED
      BY <1>1, <2>2, NoLines
  <1>3. Clear(InPlay, can, back)
    BY DEF Known, InPlay
  <1>4. \A k \in i + 1 .. l : k - i \in DOMAIN back /\ back[k - i] = C(k)
    BY BackSlots
  <1>5. IsList(heap, backs[j], C(j))
    BY DEF HeapInv, Slots
  <1> HIDE DEF C
  <1>6. CASE j > l
    BY <1>2, <1>5, <1>6 DEF C
  <1>7. CASE j <= l
    <2>1. j \in i + 1 .. l /\ j - i \in DOMAIN back /\ back[j - i] = C(j)
      BY <1>1, <1>4, <1>7
    <2>2. Range(InPlay) \cap Range(C(j)) = {} /\ Range(can) \cap Range(C(j)) = {}
      BY <1>3, <2>1 DEF Clear
    <2>3. ASSUME NEW k \in i + 1 .. Len(backs), k # j PROVE Range(C(j)) \cap Range(C(k)) = {}
      <3>1. CASE k > l
        BY <1>2, <3>1
      <3>2. CASE k <= l
        <4>1. k \in i + 1 .. l /\ k - i # j - i
          BY <1>1, <2>3, <3>2
        <4>2. k - i \in DOMAIN back \ {j - i} /\ back[k - i] = C(k)
          BY <1>4, <4>1
        <4>3. Range(back[j - i]) \cap Range(back[k - i]) = {}
          BY <1>3, <2>1, <4>2 DEF Clear
        <4>4. QED
          BY <2>1, <4>2, <4>3
      <3>3. QED
        BY <1>1, <3>1, <3>2
    <2>4. QED
      BY <1>5, <2>2, <2>3 DEF C
  <1>8. QED
    BY <1>1, <1>6, <1>7

(* After a step that writes the lines in play only.                        *)
LEMMA AsideStays ==
  ASSUME HeapInv, Known, pc # "done", NEW g \in Heap, NEW T, SameOutside(heap, g, T),
         T \subseteq Range(InPlay)
  PROVE  /\ IsList(g, canp, can) /\ Chain(g, canp) = can
         /\ Slots(g, backs, i)
         /\ \A j \in i + 1 .. Len(backs) : Chain(g, backs[j]) = Chain(heap, backs[j])
  <1>1. Clear(InPlay, can, back) /\ IsList(heap, canp, can)
    BY DEF Known, HeapInv, InPlay
  <1>2. IsList(g, canp, can)
    <2>1. Range(can) \cap T = {}
      BY <1>1 DEF Clear
    <2>2. QED
      BY <1>1, <2>1, ListElsewhere
  <1>3. \A j \in i + 1 .. Len(backs) : Range(Chain(heap, backs[j])) \cap T = {}
    BY SlotsApart
  <1>4. Slots(heap, backs, i)
    BY DEF HeapInv
  <1>5. QED
    BY <1>2, <1>3, <1>4, SlotsStay, ChainOf

LEMMA SameAnswers == \A S : Seqs!Answers(S) = Answers(S)
  <1>1. \A S : Seqs!Cardinality(S) = Cardinality(S)
    BY Zenon DEF Seqs!Cardinality, Cardinality
  <1>2. \A S : Seqs!Evicts(S) <=> Evicts(S)
    BY <1>1 DEF Seqs!Evicts, Evicts
  <1>3. QED
    BY <1>2 DEF Seqs!Answers, Answers

LEMMA RoomSame == ASSUME input' = input PROVE Seqs!Room' = Seqs!Room
  BY DEF Seqs!Room

LEMMA BackSame ==
  ASSUME HeapInv, i' = i, l' = l, backs' = backs, pc \notin {"recover", "done"},
         pc' # "done",
         \A j \in i + 1 .. Len(backs) : Chain(heap', backs[j]) = Chain(heap, backs[j])
  PROVE  back' = back
  <1>1. l \in Nat /\ Len(backs) \in Nat /\ l <= Len(backs) /\ i = 0
    BY LenProperties DEF HeapInv
  <1>2. back = [j \in 1 .. l |-> Chain(heap, backs[j])]
    BY DEF back
  <1>3. \A j \in 1 .. l : Chain(heap', backs[j]) = Chain(heap, backs[j]) /\ 0 + j = j
    BY <1>1
  <1>4. l - 0 = l
    BY <1>1
  <1>5. back' = [j \in 1 .. l |-> Chain(heap', backs[j])]
    <2>1. CASE pc' = "recover"
      <3>1. back' = [j \in 1 .. l - 0 |-> Chain(heap', backs[0 + j])]
        BY <1>1, <2>1 DEF back
      <3>2. QED
        BY <1>3, <1>4, <3>1
    <2>2. CASE pc' # "recover"
      BY <2>2 DEF back
    <2>3. QED
      BY <2>1, <2>2
  <1>6. QED
    BY <1>2, <1>3, <1>5

LEMMA SplitStep == HeapInv /\ Known /\ SplitList => HeapInv' /\ Seqs!Split
  <1> SUFFICES ASSUME HeapInv, Known, SplitList PROVE HeapInv' /\ Seqs!Split
    OBVIOUS
  <1> DEFINE cut == Split(heap, ptr, chunks)
  <1>1. /\ pc = "reduce" /\ len > Target /\ pc' = "try" /\ base' = list /\ n' = 0 /\ ret' = FALSE
        /\ heap' = cut.heap /\ chunks' = cut.chunks
        /\ UNCHANGED <<control, ptr, canp, backs, l, len, cans, verdict, i>>
    BY DEF SplitList
  <1>2. /\ heap \in Heap /\ Len(chunks) = Chunks /\ IsList(heap, ptr, list) /\ Len(list) > Target
        /\ InPlay = list /\ list \in Seq(Elem) /\ IsInjective(list)
    BY <1>1 DEF HeapInv, Known, InPlay, Clear
  <1>3. /\ cut.heap \in Heap /\ Len(cut.chunks) = Chunks
        /\ \A m \in 1 .. Chunks : IsList(cut.heap, cut.chunks[m], Chunk(list, m))
        /\ SameOutside(heap, cut.heap, Range(list))
    BY <1>2, SplitUp
  <1> HIDE DEF cut
  <1>4. heap' \in Heap /\ Len(chunks') = Chunks /\ SameOutside(heap, heap', Range(list))
    BY <1>1, <1>3
  <1>5. Loose(heap', list, chunks')
    BY <1>1, <1>3 DEF Loose, IsList
  <1>6. ptr # Null
    <2>1. list # <<>>
      <3>1. Target \in Nat /\ Len(<<>>) = 0
        BY TargetAssumption
      <3>2. QED
        BY <1>2, <3>1
    <2>2. QED
      BY <1>2, <2>1, TopType DEF IsList
  <1>7. /\ IsList(heap', canp, can) /\ Chain(heap', canp) = can /\ Slots(heap', backs, i)
        /\ \A j \in i + 1 .. Len(backs) : Chain(heap', backs[j]) = Chain(heap, backs[j])
    BY <1>1, <1>2, <1>4, AsideStays
  <1>8. can' = can /\ back' = back /\ list' = list
    <2>1. back' = back
      BY <1>1, <1>7, BackSame
    <2>2. list' = list
      BY <1>1 DEF list
    <2>3. can' = can
      BY <1>1, <1>7 DEF can
    <2>4. QED
      BY <2>1, <2>2, <2>3
  <1>9. HeapInv'
    <2>1. Levelled'
      BY <1>1, <1>5, <1>6, TargetAssumption DEF Levelled
    <2>2. Seqs!Room' = Seqs!Room
      BY <1>1, RoomSame DEF control
    <2>3. QED
      BY <1>1, <1>4, <1>7, <1>8, <2>1, <2>2 DEF HeapInv
  <1>10. Seqs!Split
    BY <1>1, <1>8 DEF Seqs!Split, control, testVars, Seqs!callVars, Seqs!testVars
  <1>11. QED
    BY <1>9, <1>10

LEMMA TryStep == HeapInv /\ Known /\ Try => HeapInv' /\ Seqs!Try
  <1> SUFFICES ASSUME HeapInv, Known, Try PROVE HeapInv' /\ Seqs!Try
    OBVIOUS
  <1> DEFINE a == order[n + 1]
             rest == FromChunks(heap, ptr, chunks, a)
  <1>1. /\ pc = "try" /\ heap' = rest.heap /\ ptr' = rest.ptr /\ n' = n + 1
        /\ ret' \in Answers(Range(Chain(heap', ptr')))
        /\ pc' = IF ~ret' /\ n' < Abstract!Chunks THEN "try" ELSE "decide"
        /\ UNCHANGED <<control, canp, chunks, backs, l, base, len, cans, verdict, i>>
    BY DEF Try
  <1>2. /\ heap \in Heap /\ Len(chunks) = Chunks /\ Loose(heap, base, chunks) /\ ptr # Null
        /\ InPlay = base /\ base \in Seq(Elem) /\ IsInjective(base) /\ Len(base) > Target
        /\ n \in Nat /\ n + 1 \in 1 .. Chunks
    BY <1>1 DEF HeapInv, Known, InPlay, Clear, Levelled
  <1>3. a \in 1 .. Chunks
    BY <1>2 DEF Known
  <1> HIDE DEF a
  <1>4. /\ rest.heap \in Heap /\ Loose(rest.heap, base, chunks) /\ rest.ptr \in Elem
        /\ IsList(rest.heap, rest.ptr, Without(base, a))
        /\ IsList(rest.heap, chunks[a], Chunk(base, a))
        /\ SameOutside(heap, rest.heap, Range(base))
    BY <1>2, <1>3, LinkedAgain
  <1> HIDE DEF rest
  <1>5. /\ heap' \in Heap /\ Loose(heap', base, chunks) /\ ptr' \in Elem
        /\ IsList(heap', ptr', Without(base, a)) /\ IsList(heap', chunks[a], Chunk(base, a))
        /\ SameOutside(heap, heap', Range(base))
    BY <1>1, <1>4
  <1>6. Chain(heap', ptr') = Without(base, a)
    BY <1>5, ChainOf
  <1>7. /\ IsList(heap', canp, can) /\ Chain(heap', canp) = can /\ Slots(heap', backs, i)
        /\ \A j \in i + 1 .. Len(backs) : Chain(heap', backs[j]) = Chain(heap, backs[j])
    BY <1>1, <1>2, <1>5, AsideStays
  <1>8. pc' \in {"try", "decide"} /\ n' # 0 /\ n' > 0
    BY <1>1, <1>2
  <1>9. can' = can /\ back' = back /\ list' = Without(base, a)
    <2>1. back' = back
      BY <1>1, <1>7, <1>8, BackSame
    <2>2. list' = Without(base, a)
      BY <1>6, <1>8 DEF list
    <2>3. can' = can
      BY <1>1, <1>7 DEF can
    <2>4. QED
      BY <2>1, <2>2, <2>3
  <1>10. a = order'[n'] /\ order' = order
    BY <1>1 DEF a, control
  <1>11. HeapInv'
    <2>1. Levelled'
      <3>1. Loose(heap', base', chunks') /\ ptr' # Null
        BY <1>1, <1>5, PtrType
      <3>2. /\ IsList(heap', ptr', Without(base', order'[n']))
            /\ IsList(heap', chunks'[order'[n']], Chunk(base', order'[n']))
        BY <1>1, <1>5, <1>10
      <3>3. QED
        BY <3>1, <3>2 DEF Levelled, Tried
    <2>2. Seqs!Room' = Seqs!Room
      BY <1>1, RoomSame DEF control
    <2>3. QED
      BY <1>1, <1>5, <1>7, <1>8, <1>9, <2>1, <2>2 DEF HeapInv
  <1>12. Seqs!Try
    <2>1. Seqs!Chunks = Chunks /\ Abstract!Chunks = Chunks
      BY SameOps
    <2>2. list' = Seqs!Without(base, order[n + 1])
      BY <1>9, SameOps DEF a
    <2>3. ret' \in Seqs!Answers(Seqs!Range(list'))
      <3>1. Seqs!Range(list') = Range(list')
        BY SameOps
      <3>2. ret' \in Answers(Range(list'))
        BY <1>1, <1>6, <1>9
      <3>3. ret' \in Seqs!Answers(Range(list'))
        BY <3>2, SameAnswers
      <3>4. QED
        BY <3>1, <3>3, Zenon
    <2>4. pc' = IF ~ret' /\ n' < Seqs!Chunks THEN "try" ELSE "decide"
      BY <1>1, <2>1
    <2>5. UNCHANGED <<Seqs!callVars, can, base, order, back, len, cans, repeat, verdict>>
      BY <1>1, <1>9 DEF control, testVars, Seqs!callVars, Seqs!testVars
    <2>6. QED
      BY <1>1, <2>2, <2>3, <2>4, <2>5 DEF Seqs!Try
  <1>13. QED
    BY <1>11, <1>12

LEMMA Longer ==
  ASSUME NEW S, NEW b \in Seq(S), NEW m \in Nat, Len(b) = m,
         NEW f \in [1 .. m + 1 -> S], \A j \in 1 .. m : f[j] = b[j]
  PROVE  f = Append(b, f[m + 1])
  <1>1. f \in Seq(S) /\ Len(f) = m + 1
    BY LenProperties
  <1>2. m + 1 \in 1 .. m + 1
    OBVIOUS
  <1>3. f[m + 1] \in S
    BY <1>2
  <1> DEFINE x == f[m + 1]
             g == Append(b, x)
  <1> HIDE DEF x
  <1>4. g \in Seq(S) /\ Len(g) = m + 1 /\ g[m + 1] = x /\ \A j \in 1 .. m : g[j] = b[j]
    BY <1>3, AppendProperties DEF x
  <1> HIDE DEF g
  <1>5. \A j \in 1 .. m + 1 : f[j] = g[j]
    <2>1. \A j \in 1 .. m + 1 : j \in 1 .. m \/ j = m + 1
      OBVIOUS
    <2>2. QED
      BY <1>4, <2>1 DEF x
  <1>6. f = g
    BY <1>1, <1>4, <1>5, SeqEqual
  <1>7. QED
    BY <1>6 DEF g, x

LEMMA WithoutLast ==
  ASSUME NEW S, NEW b \in Seq(S), NEW m \in Nat \ {0}, Len(b) = m,
         NEW f \in [1 .. m - 1 -> S], \A j \in 1 .. m - 1 : f[j] = b[j]
  PROVE  f = SubSeq(b, 1, m - 1)
  <1> DEFINE g == SubSeq(b, 1, m - 1)
  <1>1. f \in Seq(S) /\ Len(f) = m - 1
    BY LenProperties
  <1>2. g \in Seq(S) /\ Len(g) = m - 1 /\ \A j \in 1 .. m - 1 : g[j] = b[j]
    <2>1. 1 \in 1 .. Len(b) + 1 /\ m - 1 \in 1 - 1 .. Len(b)
      OBVIOUS
    <2>2. /\ g \in Seq(S) /\ Len(g) = m - 1 - 1 + 1
          /\ \A j \in 1 .. m - 1 - 1 + 1 : g[j] = b[1 + j - 1]
      BY <2>1, Excerpt
    <2> HIDE DEF g
    <2>3. m - 1 - 1 + 1 = m - 1 /\ \A j \in 1 .. m - 1 : 1 + j - 1 = j
      OBVIOUS
    <2>4. QED
      BY <2>2, <2>3
  <1> HIDE DEF g
  <1>3. f = g
    BY <1>1, <1>2, SeqEqual
  <1>4. QED
    BY <1>3 DEF g

LEMMA WithoutFirst ==
  ASSUME NEW S, NEW b \in Seq(S), NEW m \in Nat \ {0}, Len(b) = m,
         NEW f \in [1 .. m - 1 -> S], \A j \in 1 .. m - 1 : f[j] = b[j + 1]
  PROVE  f = Tail(b)
  <1> DEFINE g == Tail(b)
  <1>1. f \in Seq(S) /\ Len(f) = m - 1
    BY LenProperties
  <1>2. g \in Seq(S) /\ Len(g) = m - 1 /\ \A j \in 1 .. m - 1 : g[j] = b[j + 1]
    BY EmptySeq, HeadTailProperties
  <1> HIDE DEF g
  <1>3. f = g
    BY <1>1, <1>2, SeqEqual
  <1>4. QED
    BY <1>3 DEF g

(* The facts a decision rests on.                                          *)
Decided ==
  LET c == Chunk(base, order[n])
  IN  /\ i = 0 /\ l \in Nat /\ Len(backs) \in Nat /\ heap \in Heap /\ InPlay = base
      /\ list = Without(base, order[n]) /\ list = Chain(heap, ptr)
      /\ IsList(heap, ptr, list) /\ IsList(heap, Tried, c) /\ Chain(heap, Tried) = c
      /\ base \in Seq(Elem) /\ c \in Seq(Elem) /\ Range(list) \cap Range(c) = {}
      /\ Range(list) \cup Range(c) = Range(base)
      /\ back = [j \in 1 .. l |-> Chain(heap, backs[j])] /\ Len(back) = l
      /\ Seqs!TriedChunk = c

LEMMA AtDecision == HeapInv /\ Known /\ pc = "decide" => Decided
  <1> SUFFICES ASSUME HeapInv, Known, pc = "decide" PROVE Decided
    OBVIOUS
  <1> DEFINE a == order[n]
             c == Chunk(base, a)
  <1>1. /\ i = 0 /\ l \in Nat /\ Len(backs) \in Nat /\ heap \in Heap /\ InPlay = base
        /\ base \in Seq(Elem)
    BY LenProperties DEF HeapInv, Known, InPlay
  <1>2. n \in 1 .. Chunks /\ n > 0 /\ list = Without(base, a) /\ a \in 1 .. Chunks
    BY DEF Known
  <1>3. IsList(heap, ptr, list) /\ IsList(heap, Tried, c)
    BY <1>2 DEF HeapInv, Levelled
  <1>4. /\ c \in Seq(Elem) /\ Range(list) \cap Range(c) = {}
        /\ Range(list) \cup Range(c) = Range(base)
    <2>1. IsInjective(base)
      BY DEF Known, Clear
    <2>2. QED
      BY <1>1, <1>2, <2>1, ChunkParts
  <1>5. back = [j \in 1 .. l |-> Chain(heap, backs[j])]
    BY DEF back
  <1>6. Len(back) = l
    <2>1. back \in Seq(Seq(Elem))
      BY DEF Known
    <2>2. DOMAIN back = 1 .. Len(back) /\ DOMAIN back = 1 .. l
      BY <1>5, <2>1, LenProperties
    <2>3. Len(back) \in Nat
      BY <2>1, LenProperties
    <2> DEFINE k == Len(back)
    <2> HIDE DEF k
    <2>4. k \in Nat /\ 1 .. k = 1 .. l
      BY <2>2, <2>3 DEF k
    <2>5. k = l
      BY <1>1, <2>4
    <2>6. QED
      BY <2>5 DEF k
  <1>7. Seqs!TriedChunk = c
    BY SameOps DEF Seqs!TriedChunk
  <1>8. QED
    BY <1>1, <1>2, <1>3, <1>4, <1>5, <1>6, <1>7, ChainOf DEF Decided

LEMMA RemoveChunkStep ==
  HeapInv /\ Known /\ Len(back) + 1 <= Seqs!Room /\ RemoveChunk => HeapInv' /\ Seqs!RemoveChunk
  <1> SUFFICES ASSUME HeapInv, Known, Len(back) + 1 <= Seqs!Room, RemoveChunk
               PROVE  HeapInv' /\ Seqs!RemoveChunk
    OBVIOUS
  <1> DEFINE c == Chunk(base, order[n])
             size == Len(backs)
  <1>1. /\ pc = "decide" /\ ret /\ n <= Target /\ pc' = "reduce"
        /\ backs' = [backs EXCEPT ![l + 1] = Tried] /\ l' = l + 1
        /\ cans' = cans + Len(Chain(heap, Tried)) /\ len' = Len(Chain(heap, ptr))
        /\ base' = <<>> /\ n' = 0 /\ ret' = FALSE
        /\ UNCHANGED <<control, heap, ptr, canp, chunks, verdict, i>>
    BY DEF RemoveChunk, Smaller, EndLevel
  <1>2. Decided
    BY <1>1, AtDecision
  <1>3. /\ i = 0 /\ l \in Nat /\ size \in Nat /\ heap \in Heap
        /\ list = Chain(heap, ptr) /\ IsList(heap, ptr, list)
        /\ IsList(heap, Tried, c) /\ Chain(heap, Tried) = c /\ c \in Seq(Elem)
        /\ back = [j \in 1 .. l |-> Chain(heap, backs[j])] /\ Len(back) = l
        /\ Seqs!TriedChunk = c
    BY <1>2 DEF Decided
  <1>4. /\ backs \in Seq(Ptr) /\ size = Seqs!Room /\ l + 1 <= size
        /\ \A j \in l + 1 .. size : backs[j] = Null
        /\ Slots(heap, backs, 0) /\ IsList(heap, canp, can) /\ Len(chunks) = Chunks
    BY <1>1, <1>3 DEF HeapInv
  <1>5. Tried \in Ptr
    BY <1>3, TopType DEF IsList
  <1>6. /\ backs' \in Seq(Ptr) /\ Len(backs') = size
        /\ backs'[l + 1] = Tried /\ \A j \in (1 .. size) \ {l + 1} : backs'[j] = backs[j]
    <2>1. l + 1 \in 1 .. Len(backs) /\ DOMAIN backs = 1 .. size
      BY <1>3, <1>4, LenProperties
    <2>2. QED
      BY <1>1, <1>4, <1>5, <2>1, ExceptSeq
  <1> HIDE DEF c, size
  <1>7. list' = list /\ can' = can
    BY <1>1, <1>3 DEF list, can
  <1>8. /\ \A j \in 1 .. l : j \in (1 .. size) \ {l + 1}
        /\ \A j \in 1 .. size : j = l + 1 \/ j \in (1 .. size) \ {l + 1}
        /\ \A j \in (l + 1) + 1 .. size : j \in l + 1 .. size /\ j \in (1 .. size) \ {l + 1}
        /\ l + 1 \in 1 .. l + 1 /\ l + 1 \in 0 .. size
    BY <1>3, <1>4
  <1>9. back' = Append(back, c)
    <2> DEFINE f == [j \in 1 .. l + 1 |-> Chain(heap, backs'[j])]
    <2>1. back' = f
      BY <1>1 DEF back
    <2>2. f[l + 1] = c
      BY <1>3, <1>6, <1>8
    <2>3. \A j \in 1 .. l : f[j] = back[j]
      <3>1. \A j \in 1 .. l : j \in 1 .. l + 1
        BY <1>3
      <3>2. QED
        BY <1>3, <1>6, <1>8, <3>1
    <2>4. back \in Seq(Seq(Elem))
      BY DEF Known
    <2>5. f \in [1 .. l + 1 -> Seq(Elem)]
      <3>1. ASSUME NEW j \in 1 .. l + 1 PROVE f[j] \in Seq(Elem)
        <4>1. j = l + 1 \/ j \in 1 .. l
          BY <1>3
        <4>2. \A k \in 1 .. l : back[k] \in Seq(Elem)
          BY <1>3, <2>4, ElementOfSeq
        <4> HIDE DEF f
        <4>3. QED
          BY <1>3, <2>2, <2>3, <4>1, <4>2
      <3>2. QED
        BY <3>1
    <2> HIDE DEF f
    <2>6. f = Append(back, f[l + 1])
      BY <1>3, <2>3, <2>4, <2>5, Longer
    <2>7. QED
      BY <2>1, <2>2, <2>6
  <1>10. HeapInv'
    <2>1. Slots(heap, backs', 0)
      <3>1. ASSUME NEW j \in 1 .. size PROVE IsList(heap, backs'[j], Chain(heap, backs'[j]))
        <4>1. CASE j = l + 1
          BY <1>3, <1>6, <4>1
        <4>2. CASE j # l + 1
          <5>1. backs'[j] = backs[j] /\ j \in 0 + 1 .. Len(backs)
            BY <1>6, <1>8, <4>2 DEF size
          <5>2. QED
            BY <1>4, <5>1 DEF Slots
        <4>3. QED
          BY <4>1, <4>2
      <3>2. QED
        BY <1>6, <3>1 DEF Slots
    <2>2. Seqs!Room' = Seqs!Room
      BY <1>1, RoomSame DEF control
    <2>3. \A j \in l' + 1 .. size : backs'[j] = Null
      BY <1>1, <1>4, <1>6, <1>8
    <2>4. l' \in 0 .. size /\ i' = 0 /\ i' \in 0 .. size
      BY <1>1, <1>3, <1>8
    <2>5. heap' = heap /\ ptr' = ptr /\ canp' = canp /\ chunks' = chunks /\ pc' = "reduce"
      BY <1>1
    <2>6. QED
      BY <1>3, <1>4, <1>6, <1>7, <2>1, <2>2, <2>3, <2>4, <2>5 DEF HeapInv
  <1>11. Seqs!RemoveChunk
    <2>1. Seqs!Smaller /\ Seqs!EndLevel
      BY <1>1 DEF Seqs!Smaller, Seqs!EndLevel
    <2>2. cans' = cans + Len(Seqs!TriedChunk) /\ len' = Len(list)
      BY <1>1, <1>3
    <2>3. UNCHANGED <<Seqs!callVars, list, can, order, repeat, verdict>>
      BY <1>1, <1>7 DEF control, testVars, Seqs!callVars, Seqs!testVars
    <2>4. QED
      BY <1>1, <1>3, <1>9, <2>1, <2>2, <2>3 DEF Seqs!RemoveChunk
  <1>12. QED
    BY <1>10, <1>11

(* What was cut is one list again: both parts, one behind the other.       *)
LEMMA PutBack ==
  ASSUME HeapInv, Known, Decided, pc = "decide"
  PROVE  LET c == Chunk(base, order[n])
             r == Concat(heap, ptr, Tried)
         IN  /\ r.heap \in Heap /\ IsList(r.heap, r.ptr, list \o c)
             /\ Range(list \o c) = Range(base)
             /\ SameOutside(heap, r.heap, Range(base))
  <1> DEFINE c == Chunk(base, order[n])
             r == Concat(heap, ptr, Tried)
  <1>1. /\ heap \in Heap /\ IsList(heap, ptr, list) /\ IsList(heap, Tried, c)
        /\ Range(list) \cap Range(c) = {} /\ Range(list) \cup Range(c) = Range(base)
        /\ list \in Seq(Elem) /\ c \in Seq(Elem)
    BY DEF Decided, Known
  <1> HIDE DEF c
  <1>2. /\ r.heap \in Heap /\ IsList(r.heap, r.ptr, list \o c)
        /\ SameOutside(heap, r.heap, Range(list) \cup Range(c))
    BY <1>1, Concatenated
  <1>3. Range(list \o c) = Range(list) \cup Range(c)
    BY <1>1, TakenApart
  <1> HIDE DEF r
  <1>4. QED
    BY <1>1, <1>2, <1>3 DEF c, r

LEMMA GiveUpStep == HeapInv /\ Known /\ GiveUp => HeapInv' /\ Seqs!GiveUp
  <1> SUFFICES ASSUME HeapInv, Known, GiveUp PROVE HeapInv' /\ Seqs!GiveUp
    OBVIOUS
  <1> DEFINE c == Chunk(base, order[n])
             r == Concat(heap, ptr, Tried)
  <1>1. /\ pc = "decide" /\ ~(ret /\ n <= Target) /\ l = 0 /\ pc' = "recover"
        /\ heap' = r.heap /\ ptr' = r.ptr
        /\ base' = <<>> /\ n' = 0 /\ ret' = FALSE
        /\ UNCHANGED <<control, canp, chunks, backs, l, len, cans, verdict, i>>
    BY DEF GiveUp, Smaller, EndLevel
  <1>2. Decided
    BY <1>1, AtDecision
  <1>3. /\ r.heap \in Heap /\ IsList(r.heap, r.ptr, list \o c)
        /\ SameOutside(heap, r.heap, Range(base))
    BY <1>1, <1>2, PutBack
  <1>4. InPlay = base /\ back \in Seq(Seq(Elem)) /\ Len(back) = l /\ Seqs!TriedChunk = c
    BY <1>2 DEF Decided, Known
  <1> HIDE DEF c, r
  <1>5. heap' \in Heap /\ IsList(heap', ptr', list \o c) /\ SameOutside(heap, heap', Range(base))
    BY <1>1, <1>3
  <1>6. /\ IsList(heap', canp, can) /\ Chain(heap', canp) = can /\ Slots(heap', backs, i)
        /\ \A j \in i + 1 .. Len(backs) : Chain(heap', backs[j]) = Chain(heap, backs[j])
    BY <1>1, <1>4, <1>5, AsideStays
  <1>7. list' = list \o c /\ can' = can /\ back' = back
    <2>1. back' = back
      BY <1>1, <1>6, BackSame
    <2>2. Chain(heap', ptr') = list \o c
      BY <1>5, ChainOf
    <2>3. list' = list \o c
      BY <1>1, <2>2 DEF list
    <2>4. can' = can
      BY <1>1, <1>6 DEF can
    <2>5. QED
      BY <2>1, <2>3, <2>4
  <1>8. HeapInv'
    <2>1. Seqs!Room' = Seqs!Room
      BY <1>1, RoomSame DEF control
    <2> DEFINE u == list \o c
    <2>2. IsList(heap', ptr', list')
      BY <1>5, <1>7
    <2> HIDE DEF u
    <2>3. IsList(heap', canp', can') /\ Slots(heap', backs', i')
      BY <1>1, <1>6, <1>7
    <2>4. /\ Len(chunks') = Chunks
          /\ backs' \in Seq(Ptr) /\ Len(backs') = Seqs!Room'
          /\ l' \in 0 .. Len(backs') /\ i' \in 0 .. Len(backs')
          /\ \A j \in l' + 1 .. Len(backs') : backs'[j] = Null
      BY <1>1, <2>1 DEF HeapInv
    <2>5. QED
      BY <1>1, <1>5, <2>2, <2>3, <2>4 DEF HeapInv
  <1>9. Seqs!GiveUp
    <2>1. ~Seqs!Smaller /\ Seqs!EndLevel /\ back = <<>>
      BY <1>1, <1>4, EmptySeq DEF Seqs!Smaller, Seqs!EndLevel
    <2>2. UNCHANGED <<Seqs!callVars, can, order, back, len, cans, repeat, verdict>>
      BY <1>1, <1>7 DEF control, testVars, Seqs!callVars, Seqs!testVars
    <2>3. list' = list \o Seqs!TriedChunk
      BY <1>4, <1>7
    <2>4. QED
      BY <1>1, <2>1, <2>2, <2>3 DEF Seqs!GiveUp
  <1>10. QED
    BY <1>8, <1>9

LEMMA BacktrackStep == HeapInv /\ Known /\ Backtrack => HeapInv' /\ Seqs!Backtrack
  <1> SUFFICES ASSUME HeapInv, Known, Backtrack PROVE HeapInv' /\ Seqs!Backtrack
    OBVIOUS
  <1> DEFINE c == Chunk(base, order[n])
             r == Concat(heap, ptr, Tried)
             x == Concat(r.heap, r.ptr, backs[l])
             t == Chain(heap, backs[l])
             u == list \o c
             size == Len(backs)
  <1>1. /\ pc = "decide" /\ ~(ret /\ n <= Target) /\ l > 0
        /\ heap' = x.heap /\ ptr' = x.ptr
        /\ cans' = cans - Len(t) /\ l' = l - 1
        /\ backs' = [backs EXCEPT ![l] = Null]
        /\ len' = Len(Chain(heap', ptr'))
        /\ repeat' = (IF l' > 0 THEN repeat + 1 ELSE repeat)
        /\ pc' = (IF l' > 0 /\ repeat < MaxRepsBack /\ backtracking THEN "again" ELSE "recover")
        /\ base' = <<>> /\ n' = 0 /\ ret' = FALSE
        /\ UNCHANGED <<input, backtracking, testVars, order, canp, chunks, verdict, i>>
    BY DEF Backtrack, Smaller, EndLevel
  <1>2. Decided
    BY <1>1, AtDecision
  <1>3. /\ r.heap \in Heap /\ IsList(r.heap, r.ptr, u) /\ Range(u) = Range(base)
        /\ SameOutside(heap, r.heap, Range(base))
    BY <1>1, <1>2, PutBack
  <1>4. /\ InPlay = base /\ back \in Seq(Seq(Elem)) /\ Len(back) = l /\ Seqs!TriedChunk = c
        /\ back = [j \in 1 .. l |-> Chain(heap, backs[j])]
        /\ l \in Nat /\ i = 0 /\ size \in Nat /\ heap \in Heap
    BY <1>2 DEF Decided, Known
  <1>5. /\ backs \in Seq(Ptr) /\ size = Seqs!Room /\ l <= size
        /\ \A j \in l + 1 .. size : backs[j] = Null
        /\ Slots(heap, backs, 0) /\ IsList(heap, canp, can) /\ Len(chunks) = Chunks
    BY <1>1, <1>4 DEF HeapInv
  <1>6. /\ l \in i + 1 .. size /\ l \in 1 .. size /\ l \in 1 .. l /\ i + 1 = 1
        /\ l - 1 \in Nat /\ l \in Nat \ {0} /\ l - 1 \in 0 .. size
    BY <1>1, <1>4, <1>5
  <1>7. /\ IsList(heap, backs[l], t)
        /\ Range(base) \cap Range(t) = {} /\ Range(can) \cap Range(t) = {}
        /\ \A k \in 1 .. size : k # l => Range(t) \cap Range(Chain(heap, backs[k])) = {}
    BY <1>1, <1>4, <1>6, SlotsApart
  <1>8. back[l] = t
    BY <1>4, <1>6
  <1> HIDE DEF c, r, u, t, size
  <1>9. /\ x.heap \in Heap /\ IsList(x.heap, x.ptr, u \o t)
        /\ SameOutside(r.heap, x.heap, Range(u) \cup Range(t))
    <2>1. IsList(r.heap, backs[l], t)
      BY <1>3, <1>7, ListElsewhere
    <2>2. r.heap \in Heap /\ IsList(r.heap, r.ptr, u) /\ Range(u) \cap Range(t) = {}
      BY <1>3, <1>7
    <2>3. QED
      BY <2>1, <2>2, Concatenated
  <1> HIDE DEF x
  <1> DEFINE T == Range(base) \cup Range(t)
  <1>10. heap' \in Heap /\ IsList(heap', ptr', u \o t) /\ SameOutside(heap, heap', T)
    BY <1>1, <1>3, <1>9 DEF SameOutside
  <1> HIDE DEF T
  <1>11. IsList(heap', canp, can)
    <2>1. Range(can) \cap Range(base) = {}
      BY <1>1, <1>4 DEF Known, Clear
    <2>2. Range(can) \cap T = {}
      BY <1>7, <2>1 DEF T
    <2>3. QED
      BY <1>5, <1>10, <2>2, ListElsewhere
  <1>12. ASSUME NEW j \in 1 .. size, j # l
         PROVE  /\ IsList(heap', backs[j], Chain(heap, backs[j]))
                /\ Chain(heap', backs[j]) = Chain(heap, backs[j])
    <2> DEFINE d == Chain(heap, backs[j])
    <2>1. IsList(heap, backs[j], d) /\ Range(base) \cap Range(d) = {}
      <3>1. j \in i + 1 .. Len(backs)
        BY <1>6 DEF size
      <3>2. pc # "done"
        BY <1>1
      <3>3. QED
        BY <1>4, <3>1, <3>2, SlotsApart
    <2>2. Range(t) \cap Range(d) = {}
      BY <1>7, <1>12
    <2> HIDE DEF d
    <2>3. IsList(heap', backs[j], d)
      <3>1. Range(d) \cap T = {}
        BY <2>1, <2>2 DEF T
      <3>2. QED
        BY <1>10, <2>1, <3>1, ListElsewhere
    <2>4. Chain(heap', backs[j]) = d
      BY <1>10, <2>3, ChainOf
    <2>5. QED
      BY <2>3, <2>4 DEF d
  <1>13. /\ backs' \in Seq(Ptr) /\ Len(backs') = size
         /\ backs'[l] = Null /\ \A j \in (1 .. size) \ {l} : backs'[j] = backs[j]
    <2>1. l \in 1 .. Len(backs) /\ DOMAIN backs = 1 .. size
      BY <1>5, <1>6, LenProperties DEF size
    <2>2. QED
      BY <1>1, <1>5, <2>1, PtrType, ExceptSeq DEF size
  <1>14. /\ \A j \in 1 .. l - 1 : j \in (1 .. size) \ {l} /\ j \in 1 .. l
         /\ \A j \in 1 .. size : j = l \/ j \in (1 .. size) \ {l}
         /\ \A j \in (l - 1) + 1 .. size : j = l \/ (j \in l + 1 .. size /\ j \in (1 .. size) \ {l})
    BY <1>4, <1>5, <1>6
  <1>15. pc' \in {"again", "recover"} /\ i' = 0
    BY <1>1, <1>4
  <1>16. back' = SubSeq(back, 1, l - 1)
    <2> DEFINE f == [j \in 1 .. l - 1 |-> Chain(heap', backs'[j])]
    <2>1. back' = f
      <3>1. CASE pc' = "recover"
        <4>1. back' = [j \in 1 .. (l - 1) - 0 |-> Chain(heap', backs'[0 + j])]
          BY <1>1, <1>15, <3>1 DEF back
        <4>2. (l - 1) - 0 = l - 1 /\ \A j \in 1 .. l - 1 : 0 + j = j
          BY <1>6
        <4>3. QED
          BY <4>1, <4>2
      <3>2. CASE pc' # "recover"
        BY <1>1, <1>15, <3>2 DEF back
      <3>3. QED
        BY <3>1, <3>2
    <2>2. \A j \in 1 .. l - 1 : f[j] = back[j]
      BY <1>4, <1>12, <1>13, <1>14
    <2>3. \A j \in 1 .. l : back[j] \in Seq(Elem)
      BY <1>4, ElementOfSeq
    <2>4. f \in [1 .. l - 1 -> Seq(Elem)]
      BY <1>14, <2>2, <2>3
    <2> HIDE DEF f
    <2>5. f = SubSeq(back, 1, l - 1)
      <3> DEFINE b == back
                 m == l
      <3>1. /\ b \in Seq(Seq(Elem)) /\ m \in Nat \ {0} /\ Len(b) = m
            /\ f \in [1 .. m - 1 -> Seq(Elem)] /\ \A j \in 1 .. m - 1 : f[j] = b[j]
        BY <1>4, <1>6, <2>2, <2>4
      <3> HIDE DEF b, m
      <3>2. f = SubSeq(b, 1, m - 1)
        BY <3>1, WithoutLast
      <3>3. QED
        BY <3>2 DEF b, m
    <2>6. QED
      BY <2>1, <2>5
  <1>17. list' = u \o t /\ can' = can
    <2>1. Chain(heap', ptr') = u \o t /\ Chain(heap', canp) = can
      BY <1>10, <1>11, ChainOf
    <2>2. QED
      BY <1>1, <1>15, <2>1 DEF list, can
  <1>18. HeapInv'
    <2>1. Seqs!Room' = Seqs!Room
      BY <1>1, RoomSame
    <2>2. Slots(heap', backs', 0)
      <3>1. ASSUME NEW j \in 1 .. size PROVE IsList(heap', backs'[j], Chain(heap', backs'[j]))
        <4>1. CASE j = l
          BY <1>10, <1>13, <4>1, NoLines
        <4>2. CASE j # l
          BY <1>12, <1>13, <1>14, <4>2
        <4>3. QED
          BY <4>1, <4>2
      <3>2. QED
        BY <1>13, <3>1 DEF Slots
    <2>3. \A j \in l' + 1 .. size : backs'[j] = Null
      BY <1>1, <1>5, <1>13, <1>14
    <2>4. /\ Len(chunks') = Chunks /\ IsList(heap', canp', can') /\ l' \in 0 .. size
          /\ i' \in 0 .. size
      BY <1>1, <1>4, <1>5, <1>6, <1>11, <1>15, <1>17
    <2>5. IsList(heap', ptr', list')
      BY <1>10, <1>17
    <2>6. QED
      BY <1>5, <1>10, <1>13, <1>15, <2>1, <2>2, <2>3, <2>4, <2>5 DEF HeapInv
  <1>19. Seqs!Backtrack
    <2>1. ~Seqs!Smaller /\ Seqs!EndLevel /\ back # <<>>
      BY <1>1, <1>4 DEF Seqs!Smaller, Seqs!EndLevel
    <2>2. UNCHANGED <<Seqs!callVars, can, order, verdict>>
      BY <1>1, <1>17 DEF testVars, Seqs!callVars, Seqs!testVars
    <2>3. list' = (list \o Seqs!TriedChunk) \o back[l] /\ cans' = cans - Len(back[l])
      BY <1>1, <1>4, <1>8, <1>17 DEF u
    <2>4. len' = Len(list')
      BY <1>1, <1>15 DEF list
    <2>5. back' # <<>> <=> l' > 0
      <3>1. /\ SubSeq(back, 1, l - 1) \in Seq(Seq(Elem))
            /\ Len(SubSeq(back, 1, l - 1)) = l - 1 - 1 + 1
        <4>1. 1 \in 1 .. Len(back) + 1 /\ l - 1 \in 1 - 1 .. Len(back)
          BY <1>4, <1>6
        <4>2. QED
          BY <1>4, <4>1, Excerpt
      <3>2. back' \in Seq(Seq(Elem)) /\ Len(back') = l'
        BY <1>1, <1>6, <1>16, <3>1
      <3>3. QED
        BY <1>1, <1>6, <3>2, EmptySeq
    <2>6. Seqs!CountRound /\ pc' = IF Seqs!Again THEN "again" ELSE "recover"
      BY <1>1, <2>5 DEF Seqs!CountRound, Seqs!Again
    <2>7. back' = SubSeq(back, 1, Len(back) - 1) /\ back[Len(back)] = back[l]
      BY <1>4, <1>16
    <2>8. QED
      BY <1>1, <1>4, <2>1, <2>2, <2>3, <2>4, <2>6, <2>7 DEF Seqs!Backtrack
  <1>20. QED
    BY <1>18, <1>19

LEMMA SameOrders == Seqs!Orders = Abstract!Orders
  BY Zenon DEF Seqs!Orders, Abstract!Orders, Seqs!Chunks, Abstract!Chunks,
     Seqs!Injection, Abstract!Injection, Seqs!IsInjective, Abstract!IsInjective

LEMMA NoRecordStep == HeapInv /\ Known /\ NoRecord => HeapInv' /\ Seqs!NoRecord
  <1> SUFFICES ASSUME HeapInv, Known, NoRecord PROVE HeapInv' /\ Seqs!NoRecord
    OBVIOUS
  <1>1. /\ pc = "start" /\ len < Target /\ pc' = "done" /\ verdict' = "failed"
        /\ UNCHANGED <<control, links, base, n, ret, len, cans, i>>
    BY DEF NoRecord
  <1>2. list' = list /\ can' = can
    BY <1>1 DEF list, can, links
  <1>3. back' = back
    <2>1. back' = [j \in 1 .. 0 |-> Chain(heap', backs'[j])]
      BY <1>1 DEF back
    <2>2. back' \in Seq(Seq(Elem)) /\ Len(back') = 0
      BY <2>1
    <2>3. QED
      BY <1>1, <2>2, EmptySeq DEF Known
  <1>4. HeapInv'
    <2>1. Seqs!Room' = Seqs!Room
      BY <1>1, RoomSame DEF control
    <2>2. IsList(heap, ptr, list) /\ Slots(heap, backs, i)
      BY <1>1 DEF HeapInv
    <2>3. QED
      BY <1>1, <1>2, <2>1, <2>2 DEF HeapInv, links
  <1>5. Seqs!NoRecord
    BY <1>1, <1>2, <1>3
    DEF Seqs!NoRecord, control, testVars, Seqs!callVars, Seqs!testVars
  <1>6. QED
    BY <1>4, <1>5

LEMMA ShuffleStep == HeapInv /\ Known /\ Shuffle => HeapInv' /\ Seqs!Shuffle
  <1> SUFFICES ASSUME HeapInv, Known, Shuffle PROVE HeapInv' /\ Seqs!Shuffle
    OBVIOUS
  <1>1. /\ (pc = "start" /\ len >= Target) \/ pc = "again"
        /\ order' \in Abstract!Orders /\ pc' = "reduce"
        /\ UNCHANGED <<input, backtracking, testVars, links, base, n, ret,
                       len, cans, repeat, verdict, i>>
    BY DEF Shuffle
  <1>2. list' = list /\ can' = can
    BY <1>1 DEF list, can, links
  <1>3. back' = back
    BY <1>1, BackSame DEF links
  <1>4. HeapInv'
    <2>1. Seqs!Room' = Seqs!Room
      BY <1>1, RoomSame
    <2>2. IsList(heap, ptr, list) /\ Slots(heap, backs, i)
      BY <1>1 DEF HeapInv
    <2>3. QED
      BY <1>1, <1>2, <2>1, <2>2 DEF HeapInv, links
  <1>5. Seqs!Shuffle
    BY <1>1, <1>2, <1>3, SameOrders DEF Seqs!Shuffle, testVars, Seqs!callVars, Seqs!testVars
  <1>6. QED
    BY <1>4, <1>5

LEMMA ReducedStep == HeapInv /\ Known /\ Reduced => HeapInv' /\ Seqs!Reduced
  <1> SUFFICES ASSUME HeapInv, Known, Reduced PROVE HeapInv' /\ Seqs!Reduced
    OBVIOUS
  <1>1. /\ pc = "reduce" /\ len <= Target /\ pc' = "recover"
        /\ UNCHANGED <<control, links, base, n, ret, len, cans, verdict, i>>
    BY DEF Reduced
  <1>2. list' = list /\ can' = can
    BY <1>1 DEF list, can, links
  <1>3. back' = back
    BY <1>1, BackSame DEF links
  <1>4. HeapInv'
    <2>1. Seqs!Room' = Seqs!Room
      BY <1>1, RoomSame DEF control
    <2>2. IsList(heap, ptr, list) /\ Slots(heap, backs, i)
      BY <1>1 DEF HeapInv
    <2>3. QED
      BY <1>1, <1>2, <2>1, <2>2 DEF HeapInv, links
  <1>5. Seqs!Reduced
    BY <1>1, <1>2, <1>3 DEF Seqs!Reduced, control, testVars, Seqs!callVars, Seqs!testVars
  <1>6. QED
    BY <1>4, <1>5

(* Only the slots that hold something matter to the sequences: the others  *)
(* leave everything as it is.                                              *)
LEMMA RecoverStep ==
  HeapInv /\ Known /\ Recover => HeapInv' /\ (Seqs!Recover \/ UNCHANGED Seqs!vars)
  <1> SUFFICES ASSUME HeapInv, Known, Recover
               PROVE  HeapInv' /\ (Seqs!Recover \/ UNCHANGED Seqs!vars)
    OBVIOUS
  <1> DEFINE size == Len(backs)
             t == Chain(heap, backs[i + 1])
             x == Concat(heap, canp, backs[i + 1])
             u == can \o t
             T == Range(can) \cup Range(t)
  <1>1. /\ pc = "recover" /\ i < size /\ heap' = x.heap /\ canp' = x.ptr /\ i' = i + 1
        /\ UNCHANGED <<control, ptr, chunks, backs, l, pc, base, n, ret, len, cans, verdict>>
    BY DEF Recover
  <1>2. /\ l \in Nat /\ i \in Nat /\ size \in Nat /\ heap \in Heap /\ i + 1 \in i + 1 .. size
        /\ i + 1 \in 0 .. size /\ InPlay = list /\ IsList(heap, canp, can)
        /\ IsList(heap, ptr, list) /\ Slots(heap, backs, i) /\ l \in 0 .. size
        /\ Range(list) \cap Range(can) = {} /\ back \in Seq(Seq(Elem))
        /\ can \in Seq(Elem) /\ Len(chunks) = Chunks
        /\ backs \in Seq(Ptr) /\ size = Seqs!Room /\ \A j \in l + 1 .. size : backs[j] = Null
    BY <1>1, LenProperties DEF HeapInv, InPlay, Known, Clear
  <1>3. /\ IsList(heap, backs[i + 1], t)
        /\ Range(list) \cap Range(t) = {} /\ Range(can) \cap Range(t) = {}
        /\ \A k \in i + 1 .. size : k # i + 1 => Range(t) \cap Range(Chain(heap, backs[k])) = {}
    <2>1. pc # "done" /\ i + 1 \in i + 1 .. Len(backs)
      BY <1>1, <1>2
    <2>2. QED
      BY <1>2, <2>1, SlotsApart
  <1>4. \A j \in i + 1 .. size : /\ IsList(heap, backs[j], Chain(heap, backs[j]))
                                 /\ Range(can) \cap Range(Chain(heap, backs[j])) = {}
    <2>1. pc # "done"
      BY <1>1
    <2>2. QED
      BY <2>1, SlotsApart
  <1> HIDE DEF t, u, x
  <1>5. /\ x.heap \in Heap /\ IsList(x.heap, x.ptr, can \o t) /\ SameOutside(heap, x.heap, T)
    BY <1>2, <1>3, Concatenated DEF x
  <1>6. heap' \in Heap /\ IsList(heap', canp', u) /\ SameOutside(heap, heap', T)
    BY <1>1, <1>5 DEF u
  <1> HIDE DEF T, size
  <1>7. Chain(heap', canp') = u /\ can' = u
    <2>1. Chain(heap', canp') = u
      BY <1>6, ChainOf
    <2>2. QED
      BY <2>1 DEF can
  <1>8. IsList(heap', ptr', list) /\ list' = list
    <2>1. Range(list) \cap T = {}
      BY <1>2, <1>3 DEF T
    <2>2. IsList(heap', ptr, list)
      BY <1>2, <1>6, <2>1, ListElsewhere
    <2>3. Chain(heap', ptr) = list
      BY <1>6, <2>2, ChainOf
    <2>4. QED
      BY <1>1, <2>2, <2>3 DEF list
  <1>9. ASSUME NEW j \in (i + 1) + 1 .. size
        PROVE  /\ IsList(heap', backs[j], Chain(heap', backs[j]))
               /\ Chain(heap', backs[j]) = Chain(heap, backs[j])
    <2> DEFINE d == Chain(heap, backs[j])
    <2>1. j \in i + 1 .. size /\ j # i + 1
      BY <1>2
    <2>2. Range(d) \cap T = {} /\ IsList(heap, backs[j], d)
      BY <1>3, <1>4, <2>1 DEF T
    <2> HIDE DEF d
    <2>3. IsList(heap', backs[j], d)
      BY <1>6, <2>2, ListElsewhere
    <2>4. Chain(heap', backs[j]) = d
      BY <1>6, <2>3, ChainOf
    <2>5. QED
      BY <2>3, <2>4 DEF d
  <1>10. back' = [j \in 1 .. l - (i + 1) |-> Chain(heap', backs[(i + 1) + j])]
    BY <1>1 DEF back
  <1>11. HeapInv'
    <2>1. Seqs!Room' = Seqs!Room
      BY <1>1, RoomSame DEF control
    <2>2. Slots(heap', backs', i')
      BY <1>1, <1>9 DEF Slots, size
    <2>3. QED
      BY <1>1, <1>2, <1>6, <1>7, <1>8, <2>1, <2>2 DEF HeapInv, size
  <1>12. CASE i < l
    <2>1. l - i \in Nat \ {0} /\ l - (i + 1) = (l - i) - 1 /\ 1 \in 1 .. l - i
      BY <1>2, <1>12
    <2>2. DOMAIN back = 1 .. l - i /\ \A j \in 1 .. l - i : back[j] = Chain(heap, backs[i + j])
      <3>1. pc # "done"
        BY <1>1
      <3>2. QED
        BY <3>1, BackSlots
    <2>3. Len(back) = l - i
      <3> DEFINE k == Len(back)
                 m == l - i
      <3>1. DOMAIN back = 1 .. k /\ k \in Nat
        BY <1>2, LenProperties
      <3> HIDE DEF k, m
      <3>2. 1 .. k = 1 .. m /\ m \in Nat
        BY <2>1, <2>2, <3>1 DEF m
      <3>3. k = m
        BY <3>1, <3>2
      <3>4. QED
        BY <3>3 DEF k, m
    <2>4. back # <<>> /\ Head(back) = t
      <3>1. back # <<>>
        BY <1>2, <2>1, <2>3, EmptySeq
      <3>2. Head(back) = back[1]
        BY <1>2, <3>1, HeadTailProperties
      <3>3. QED
        BY <2>1, <2>2, <3>1, <3>2 DEF t
    <2>5. back' = Tail(back)
      <3> DEFINE f == [j \in 1 .. (l - i) - 1 |-> Chain(heap', backs[(i + 1) + j])]
                 b == back
                 m == l - i
      <3>1. back' = f
        BY <1>10, <2>1
      <3>2. ASSUME NEW j \in 1 .. (l - i) - 1 PROVE f[j] = back[j + 1] /\ f[j] \in Seq(Elem)
        <4>1. j + 1 \in 1 .. l - i /\ (i + 1) + j \in (i + 1) + 1 .. size /\ i + (j + 1) = (i + 1) + j
          BY <1>2, <2>1
        <4>2. f[j] = Chain(heap, backs[(i + 1) + j])
          BY <1>9, <4>1
        <4>3. back[j + 1] = Chain(heap, backs[(i + 1) + j])
          BY <2>2, <4>1
        <4>4. back[j + 1] \in Seq(Elem)
          BY <1>2, <2>2, <4>1, ElementOfSeq, LenProperties
        <4> HIDE DEF f
        <4>5. QED
          BY <4>2, <4>3, <4>4
      <3>3. /\ b \in Seq(Seq(Elem)) /\ m \in Nat \ {0} /\ Len(b) = m
            /\ f \in [1 .. m - 1 -> Seq(Elem)] /\ \A j \in 1 .. m - 1 : f[j] = b[j + 1]
        <4>1. DOMAIN f = 1 .. m - 1 /\ f = [j \in 1 .. m - 1 |-> f[j]]
          OBVIOUS
        <4> HIDE DEF f
        <4>2. QED
          BY <1>2, <2>1, <2>3, <3>2, <4>1
      <3> HIDE DEF f, b, m
      <3>4. f = Tail(b)
        BY <3>3, WithoutFirst
      <3>5. QED
        BY <3>1, <3>4 DEF b
    <2>6. Seqs!Recover
      BY <1>1, <1>7, <1>8, <2>4, <2>5
      DEF Seqs!Recover, u, control, testVars, Seqs!callVars, Seqs!testVars
    <2>7. QED
      BY <1>11, <2>6
  <1>13. CASE ~(i < l)
    <2>1. back' = back
      <3>1. 1 .. l - (i + 1) = 1 .. 0 /\ 1 .. l - i = 1 .. 0
        BY <1>2, <1>13
      <3>2. back = [j \in 1 .. l - i |-> Chain(heap, backs[i + j])]
        BY <1>1 DEF back
      <3>3. /\ back = [j \in 1 .. 0 |-> Chain(heap, backs[i + j])]
            /\ back' = [j \in 1 .. 0 |-> Chain(heap', backs[(i + 1) + j])]
        BY <1>10, <3>1, <3>2
      <3>4. back' \in Seq(Seq(Elem)) /\ Len(back') = 0 /\ Len(back) = 0
        BY <3>3
      <3>5. QED
        BY <1>2, <3>4, EmptySeq
    <2>2. can' = can
      <3>1. i + 1 \in l + 1 .. size
        BY <1>2, <1>13
      <3>2. t = <<>>
        BY <1>2, <3>1, NoLines DEF t
      <3>3. QED
        BY <1>2, <1>7, <3>2, ConcatEmptySeq DEF u
    <2>3. UNCHANGED Seqs!vars
      BY <1>1, <1>8, <2>1, <2>2 DEF Seqs!vars, control, testVars, Seqs!callVars, Seqs!testVars
    <2>4. QED
      BY <1>11, <2>3
  <1>14. QED
    BY <1>12, <1>13

LEMMA FinalTestStep == HeapInv /\ Known /\ FinalTest => HeapInv' /\ Seqs!FinalTest
  <1> SUFFICES ASSUME HeapInv, Known, FinalTest PROVE HeapInv' /\ Seqs!FinalTest
    OBVIOUS
  <1>1. /\ pc = "recover" /\ i = Len(backs) /\ pc' = "done"
        /\ \E ok \in Answers(Range(list)) :
             verdict' = IF ok /\ len <= Target THEN "found" ELSE "failed"
        /\ UNCHANGED <<control, links, base, n, ret, len, cans, i>>
    BY DEF FinalTest
  <1>2. list' = list /\ can' = can
    BY <1>1 DEF list, can, links
  <1>3. back = <<>> /\ back' = <<>>
    <2>1. l \in Nat /\ i \in Nat /\ l <= i
      BY <1>1, LenProperties DEF HeapInv
    <2>2. 1 .. l - i = 1 .. 0
      BY <2>1
    <2>3. back = [j \in 1 .. 0 |-> Chain(heap, backs[i + j])]
      BY <1>1, <2>2 DEF back
    <2>4. back' = [j \in 1 .. 0 |-> Chain(heap', backs'[j])]
      BY <1>1 DEF back
    <2>5. back' \in Seq(Seq(Elem)) /\ Len(back') = 0 /\ back \in Seq(Seq(Elem)) /\ Len(back) = 0
      BY <2>3, <2>4
    <2>6. QED
      BY <2>5, EmptySeq
  <1>4. HeapInv'
    <2>1. Seqs!Room' = Seqs!Room
      BY <1>1, RoomSame DEF control
    <2>2. IsList(heap, ptr, list) /\ Slots(heap, backs, i)
      BY <1>1 DEF HeapInv
    <2>3. QED
      BY <1>1, <1>2, <2>1, <2>2 DEF HeapInv, links
  <1>5. Seqs!FinalTest
    <2>1. Seqs!Answers(Seqs!Range(list)) = Answers(Range(list))
      <3>1. Seqs!Range(list) = Range(list)
        BY SameOps
      <3>2. QED
        BY <3>1, SameAnswers
    <2>2. \E ok \in Seqs!Answers(Seqs!Range(list)) :
            verdict' = IF ok /\ len <= Target THEN "found" ELSE "failed"
      BY <1>1, <2>1
    <2>3. UNCHANGED <<Seqs!callVars, list, can, base, order, n, ret, back, len, cans, repeat>>
      BY <1>1, <1>2, <1>3 DEF control, testVars, Seqs!callVars, Seqs!testVars
    <2>4. QED
      BY <1>1, <1>3, <2>2, <2>3 DEF Seqs!FinalTest
  <1>6. QED
    BY <1>4, <1>5

-----------------------------------------------------------------------------
(***************************************************************************)
(* From the list as the caller built it.                                   *)
(***************************************************************************)
LEMMA AsBuilt ==
  ASSUME NEW s \in Seq(Elem), IsInjective(s), NEW before \in Ptr, NEW h, h = Links(s, before),
         NEW p, p = (IF s = <<>> THEN Null ELSE s[1])
  PROVE  h \in Heap /\ IsList(h, p, s)
  <1> DEFINE size == Len(s)
             at(e) == CHOOSE j \in DOMAIN s : s[j] = e
             next == [e \in Elem |-> IF \E j \in 1 .. size - 1 : s[j] = e
                                       THEN s[at(e) + 1] ELSE Null]
             prev == [e \in Elem |-> IF \E j \in 2 .. size : s[j] = e
                                       THEN s[at(e) - 1]
                                       ELSE IF e = s[1] THEN before ELSE Null]
  <1>1. h = [next |-> next, prev |-> prev]
    BY DEF Links
  <1>2. size \in Nat /\ DOMAIN s = 1 .. size /\ \A j \in 1 .. size : s[j] \in Elem
    BY LenProperties, ElementOfSeq
  <1> HIDE DEF size
  <1>3. ASSUME NEW j \in 1 .. size PROVE at(s[j]) = j
    <2>1. at(s[j]) \in DOMAIN s /\ s[at(s[j])] = s[j]
      BY <1>2
    <2> HIDE DEF at
    <2>2. QED
      BY <1>2, <2>1 DEF IsInjective
  <1> HIDE DEF at
  <1>4. ASSUME NEW k \in 1 .. size - 1
        PROVE  next[s[k]] = s[k + 1] /\ prev[s[k + 1]] = s[k]
    <2>1. /\ k \in 1 .. size /\ k + 1 \in 1 .. size /\ k + 1 \in 2 .. size /\ (k + 1) - 1 = k
      BY <1>2
    <2>2. at(s[k]) = k /\ at(s[k + 1]) = k + 1 /\ s[k] \in Elem /\ s[k + 1] \in Elem
      BY <1>2, <1>3, <2>1
    <2>3. next[s[k]] = s[at(s[k]) + 1]
      BY <2>2
    <2>4. prev[s[k + 1]] = s[at(s[k + 1]) - 1]
      BY <2>1, <2>2
    <2>5. QED
      BY <2>1, <2>2, <2>3, <2>4
  <1>5. s # <<>> => next[s[size]] = Null
    <2> SUFFICES ASSUME s # <<>> PROVE next[s[size]] = Null
      OBVIOUS
    <2>1. size \in 1 .. size
      BY <1>2, EmptySeq DEF size
    <2>2. ~\E j \in 1 .. size - 1 : s[j] = s[size]
      <3>1. \A j \in 1 .. size - 1 : j \in 1 .. size /\ j # size
        BY <1>2
      <3>2. QED
        BY <1>2, <2>1, <3>1 DEF IsInjective
    <2>3. s[size] \in Elem
      BY <1>2, <2>1
    <2>4. QED
      BY <2>2, <2>3
  <1>6. next \in [Elem -> Ptr]
    <2>1. ASSUME NEW e \in Elem, \E j \in 1 .. size - 1 : s[j] = e PROVE next[e] \in Ptr
      <3>1. PICK j \in 1 .. size - 1 : s[j] = e
        BY <2>1
      <3> HIDE DEF next
      <3>2. next[e] = s[j + 1] /\ j + 1 \in 1 .. size
        <4>1. next[s[j]] = s[j + 1]
          BY <1>4
        <4>2. j + 1 \in 1 .. size
          BY <1>2
        <4>3. QED
          BY <3>1, <4>1, <4>2
      <3>3. QED
        BY <1>2, <3>2, PtrType
    <2>2. QED
      BY <2>1, PtrType
  <1>7. prev \in [Elem -> Ptr]
    <2>1. ASSUME NEW e \in Elem, \E j \in 2 .. size : s[j] = e PROVE prev[e] \in Ptr
      <3>1. PICK j \in 2 .. size : s[j] = e
        BY <2>1
      <3>2. j - 1 \in 1 .. size - 1 /\ (j - 1) + 1 = j /\ j - 1 \in 1 .. size
        BY <1>2
      <3> HIDE DEF prev
      <3>3. prev[e] = s[j - 1]
        BY <1>4, <3>1, <3>2
      <3>4. QED
        BY <1>2, <3>2, <3>3, PtrType
    <2>2. QED
      BY <2>1, PtrType
  <1> HIDE DEF next, prev
  <1>8. h \in Heap
    BY <1>1, <1>6, <1>7 DEF Heap
  <1>9. Doubly(h, s, Null)
    BY <1>1, <1>4, <1>5 DEF Doubly, Linked, size
  <1>10. QED
    BY <1>8, <1>9 DEF IsList, Top

(* The two instances of GroupTesting take the same steps.                  *)
LEMMA SameFacts ==
  /\ Seqs!Chunks = Abstract!Chunks /\ Seqs!Orders = Abstract!Orders
  /\ \A s : Seqs!Range(s) = Abstract!Range(s)
  /\ \A S : Seqs!Answers(S) = Abstract!Answers(S) /\ (Seqs!Trusted(S) <=> Abstract!Trusted(S))
  /\ \A s, j : Seqs!Without(s, j) = Abstract!Without(s, j)
  /\ Seqs!TriedChunk = Abstract!TriedChunk /\ (Seqs!Smaller <=> Abstract!Smaller)
  <1>1. Seqs!Chunks = Abstract!Chunks /\ Seqs!Orders = Abstract!Orders
    BY SameOps, SameOrders
  <1>2. \A s : Seqs!Range(s) = Abstract!Range(s)
    BY Zenon DEF Seqs!Range, Abstract!Range
  <1>3. \A S : Seqs!Answers(S) = Abstract!Answers(S) /\ (Seqs!Trusted(S) <=> Abstract!Trusted(S))
    <2>1. \A S : Seqs!Cardinality(S) = Abstract!Cardinality(S)
      BY Zenon DEF Seqs!Cardinality, Abstract!Cardinality
    <2>2. \A S : Seqs!Evicts(S) <=> Abstract!Evicts(S)
      BY <2>1 DEF Seqs!Evicts, Abstract!Evicts
    <2>3. QED
      BY <2>2 DEF Seqs!Answers, Abstract!Answers, Seqs!Trusted, Abstract!Trusted
  <1>4. \A s, j : Seqs!Chunk(s, j) = Abstract!Chunk(s, j) /\ Seqs!Without(s, j) = Abstract!Without(s, j)
    <2>1. \A s, j : Seqs!First(s, j) = Abstract!First(s, j) /\ Seqs!Final(s, j) = Abstract!Final(s, j)
      BY <1>1, Zenon DEF Seqs!First, Seqs!Final, Abstract!First, Abstract!Final
    <2>2. QED
      BY <2>1, Zenon DEF Seqs!Chunk, Seqs!Without, Abstract!Chunk, Abstract!Without
  <1>5. Seqs!TriedChunk = Abstract!TriedChunk /\ (Seqs!Smaller <=> Abstract!Smaller)
    BY <1>4 DEF Seqs!TriedChunk, Abstract!TriedChunk, Seqs!Smaller, Abstract!Smaller
  <1>6. QED
    BY <1>1, <1>2, <1>3, <1>4, <1>5

LEMMA SameInit == Seqs!Init => Abstract!Init
  BY SameFacts DEF Seqs!Init, Abstract!Init, Seqs!Entry, Abstract!Entry

LEMMA SameNext == Seqs!Next => Abstract!Next
  <1>1. /\ Seqs!EndLevel <=> Abstract!EndLevel
        /\ Seqs!CountRound <=> Abstract!CountRound
        /\ Seqs!Again <=> Abstract!Again
    BY DEF Seqs!EndLevel, Abstract!EndLevel, Seqs!CountRound, Abstract!CountRound,
       Seqs!Again, Abstract!Again
  <1>2. Seqs!callVars = Abstract!callVars /\ Seqs!vars = Abstract!vars
        /\ Seqs!callVars' = Abstract!callVars' /\ Seqs!vars' = Abstract!vars'
    BY DEF Seqs!callVars, Abstract!callVars, Seqs!vars, Abstract!vars,
       Seqs!testVars, Abstract!testVars
  <1>3. Seqs!NoRecord => Abstract!NoRecord
    BY <1>2 DEF Seqs!NoRecord, Abstract!NoRecord
  <1>4. Seqs!Shuffle => Abstract!Shuffle
    BY SameFacts, <1>2 DEF Seqs!Shuffle, Abstract!Shuffle
  <1>5. Seqs!Split => Abstract!Split
    BY <1>2 DEF Seqs!Split, Abstract!Split
  <1>6. Seqs!Try => Abstract!Try
    <2>1. Seqs!Answers(Seqs!Range(list')) = Abstract!Answers(Abstract!Range(list'))
      BY SameFacts
    <2>2. Seqs!Without(base, order[n + 1]) = Abstract!Without(base, order[n + 1])
      BY SameFacts
    <2>3. QED
      BY SameFacts, <1>2, <2>1, <2>2 DEF Seqs!Try, Abstract!Try
  <1>7. Seqs!RemoveChunk => Abstract!RemoveChunk
    BY SameFacts, <1>1, <1>2 DEF Seqs!RemoveChunk, Abstract!RemoveChunk
  <1>8. Seqs!Backtrack => Abstract!Backtrack
    BY SameFacts, <1>1, <1>2 DEF Seqs!Backtrack, Abstract!Backtrack
  <1>9. Seqs!GiveUp => Abstract!GiveUp
    BY SameFacts, <1>1, <1>2 DEF Seqs!GiveUp, Abstract!GiveUp
  <1>10. Seqs!Reduced => Abstract!Reduced
    BY <1>2 DEF Seqs!Reduced, Abstract!Reduced
  <1>11. Seqs!Recover => Abstract!Recover
    BY <1>2 DEF Seqs!Recover, Abstract!Recover
  <1>12. Seqs!FinalTest => Abstract!FinalTest
    <2>1. Seqs!Answers(Seqs!Range(list)) = Abstract!Answers(Abstract!Range(list))
      BY SameFacts
    <2>2. QED
      BY <1>2, <2>1 DEF Seqs!FinalTest, Abstract!FinalTest
  <1>13. Seqs!Next => Abstract!Next
    BY <1>3, <1>4, <1>5, <1>6, <1>7, <1>8, <1>9, <1>10, <1>11, <1>12
    DEF Seqs!Next, Abstract!Next
  <1>14. QED
    BY <1>13

LEMMA SameVars == UNCHANGED Seqs!vars => UNCHANGED Abstract!vars
  BY DEF Seqs!callVars, Abstract!callVars, Seqs!vars, Abstract!vars,
     Seqs!testVars, Abstract!testVars

LEMMA SameRoom == Seqs!Room = Abstract!Room
  <1>1. \A b, h : Seqs!Power(b, h) = Abstract!Power(b, h)
    BY Zenon DEF Seqs!Power, Abstract!Power
  <1>2. \A size, h : Seqs!EnoughLevels(size, h) <=> Abstract!EnoughLevels(size, h)
    BY <1>1, Zenon DEF Seqs!EnoughLevels, Abstract!EnoughLevels, Seqs!Chunks, Abstract!Chunks
  <1>3. \A size : Seqs!Height(size) = Abstract!Height(size)
    BY <1>2, Zenon DEF Seqs!Height, Abstract!Height
  <1>4. QED
    BY <1>3 DEF Seqs!Room, Abstract!Room

LEMMA InitOk == Init => HeapInv /\ Seqs!Init
  <1> SUFFICES ASSUME Init PROVE HeapInv /\ Seqs!Init
    OBVIOUS
  <1>1. /\ input \in Candidates /\ groups \in Groupings /\ noisy \in BOOLEAN
        /\ backtracking \in BOOLEAN /\ Trusted(Range(input)) /\ pc = "start" /\ base = <<>>
        /\ ptr = (IF input = <<>> THEN Null ELSE input[1]) /\ canp = Null
        /\ chunks = [j \in 1 .. Abstract!Chunks |-> Null]
        /\ backs = [j \in 1 .. Abstract!Room |-> Null]
        /\ l = 0 /\ i = 0 /\ order = [j \in 1 .. Abstract!Chunks |-> j] /\ n = 0 /\ ret = FALSE
        /\ len = Len(input) /\ cans = 0 /\ repeat = 0 /\ verdict = "none"
    BY DEF Init
  <1>2. PICK before \in Ptr : heap = Links(input, before)
    BY DEF Init
  <1>3. input \in Seq(Elem) /\ IsInjective(input)
    BY <1>1, CandidatesAssumption
  <1>4. heap \in Heap /\ IsList(heap, ptr, input)
    BY <1>1, <1>2, <1>3, AsBuilt
  <1>5. list = input /\ can = <<>> /\ back = <<>>
    <2>1. list = input
      BY <1>1, <1>4, ChainOf DEF list
    <2>2. can = <<>>
      BY <1>1, <1>4, NoLines DEF can
    <2>3. back = [j \in 1 .. 0 |-> Chain(heap, backs[j])]
      BY <1>1 DEF back
    <2>4. back \in Seq({}) /\ Len(back) = 0
      BY <2>3
    <2>5. QED
      BY <2>1, <2>2, <2>4, EmptySeq
  <1>6. Seqs!Init
    <2>1. Seqs!Trusted(Seqs!Range(input))
      <3>1. Seqs!Range(input) = Range(input)
        BY SameOps
      <3>2. \A S : Seqs!Cardinality(S) = Cardinality(S)
        BY Zenon DEF Seqs!Cardinality, Cardinality
      <3>3. \A S : Seqs!Evicts(S) <=> Evicts(S)
        BY <3>2 DEF Seqs!Evicts, Evicts
      <3>4. QED
        BY <1>1, <3>1, <3>3 DEF Seqs!Trusted, Trusted
    <2>2. Seqs!Chunks = Abstract!Chunks
      BY SameOps
    <2>3. QED
      BY <1>1, <1>5, <2>1, <2>2 DEF Seqs!Init, Seqs!Entry
  <1>7. Seqs!Room \in Nat /\ Chunks \in Nat
    <2>1. Len(input) \in Nat
      BY <1>3, LenProperties
    <2>2. Seqs!Height(Len(input)) \in Nat
      BY <2>1, Instantiable, Seqs!HeightExists
    <2>3. QED
      BY <2>2, TargetAssumption DEF Seqs!Room, Chunks
  <1>8. /\ Len(chunks) = Chunks /\ backs \in Seq(Ptr) /\ Len(backs) = Seqs!Room
        /\ \A j \in 1 .. Len(backs) : backs[j] = Null
    <2>1. Abstract!Chunks = Chunks /\ Abstract!Room = Seqs!Room
      BY SameOps, SameRoom
    <2>2. backs = [j \in 1 .. Seqs!Room |-> Null] /\ chunks = [j \in 1 .. Chunks |-> Null]
      BY <1>1, <2>1
    <2>3. QED
      BY <1>7, <2>2, PtrType
  <1>9. IsList(heap, canp, can)
    BY <1>1, <1>4, <1>5, NoLines
  <1>10. Slots(heap, backs, 0)
    BY <1>4, <1>8, NoLines DEF Slots
  <1>11. HeapInv
    <2>1. /\ l \in 0 .. Len(backs) /\ i \in 0 .. Len(backs)
          /\ \A j \in l + 1 .. Len(backs) : backs[j] = Null
      <3>1. l = 0 /\ i = 0
        BY <1>1
      <3>2. l + 1 = 1
        BY <3>1
      <3>3. Len(backs) \in Nat
        BY <1>7, <1>8
      <3>4. QED
        BY <1>8, <3>1, <3>2, <3>3
    <2>2. IsList(heap, ptr, list) /\ Slots(heap, backs, i)
      BY <1>1, <1>4, <1>5, <1>10
    <2>3. QED
      BY <1>1, <1>4, <1>8, <1>9, <2>1, <2>2 DEF HeapInv
  <1>12. QED
    BY <1>6, <1>11

LEMMA StepOk ==
  Seqs!IInv /\ Seqs!Enough /\ HeapInv /\ [Next]_vars => HeapInv' /\ [Seqs!Next]_(Seqs!vars)
  <1> SUFFICES ASSUME Seqs!IInv, Seqs!Enough, HeapInv, [Next]_vars
               PROVE  HeapInv' /\ [Seqs!Next]_(Seqs!vars)
    OBVIOUS
  <1>1. Known
    BY WhatIsKnown
  <1>2. CASE NoRecord
    BY <1>1, <1>2, NoRecordStep DEF Seqs!Next
  <1>3. CASE Shuffle
    BY <1>1, <1>3, ShuffleStep DEF Seqs!Next
  <1>4. CASE SplitList
    BY <1>1, <1>4, SplitStep DEF Seqs!Next
  <1>5. CASE Try
    BY <1>1, <1>5, TryStep DEF Seqs!Next
  <1>6. CASE RemoveChunk
    <2>1. pc = "decide"
      BY <1>6 DEF RemoveChunk
    <2>2. Seqs!Levels /\ Len(Seqs!InPlay) > Target
      BY <1>1, <2>1 DEF Seqs!Enough, Seqs!InPlay, Known
    <2>3. Len(back) + 1 <= Seqs!Room
      BY <2>2, Instantiable, Seqs!RoomForOneMore
    <2>4. QED
      BY <1>1, <1>6, <2>3, RemoveChunkStep DEF Seqs!Next
  <1>7. CASE Backtrack
    BY <1>1, <1>7, BacktrackStep DEF Seqs!Next
  <1>8. CASE GiveUp
    BY <1>1, <1>8, GiveUpStep DEF Seqs!Next
  <1>9. CASE Reduced
    BY <1>1, <1>9, ReducedStep DEF Seqs!Next
  <1>10. CASE Recover
    BY <1>1, <1>10, RecoverStep DEF Seqs!Next
  <1>11. CASE FinalTest
    BY <1>1, <1>11, FinalTestStep DEF Seqs!Next
  <1>12. CASE UNCHANGED vars
    <2>1. /\ UNCHANGED <<control, links, pc, base, n, ret, len, cans, verdict, i>>
      BY <1>12 DEF vars
    <2>2. list' = list /\ can' = can /\ back' = back
      BY <2>1 DEF list, can, back, links
    <2>3. Seqs!Room' = Seqs!Room
      BY <2>1, RoomSame DEF control
    <2>4. HeapInv'
      BY <2>1, <2>2, <2>3 DEF HeapInv, links, Levelled, Tried, control
    <2>5. UNCHANGED Seqs!vars
      BY <2>1, <2>2 DEF Seqs!vars, control, testVars, Seqs!callVars, Seqs!testVars
    <2>6. QED
      BY <2>4, <2>5
  <1>13. QED
    BY <1>2, <1>3, <1>4, <1>5, <1>6, <1>7, <1>8, <1>9, <1>10, <1>11, <1>12 DEF Next

LEMMA Throughout == Spec => [](HeapInv /\ Seqs!IInv /\ Seqs!Enough)
  <1> DEFINE J == HeapInv /\ Seqs!IInv /\ Seqs!Enough
  <1>1. Init => J
    <2>1. Seqs!Init => Seqs!Entry
      BY DEF Seqs!Init
    <2>2. Seqs!Init => Seqs!IInv
      BY Instantiable, Seqs!InitInv
    <2>3. Seqs!Entry => Seqs!Enough
      BY Instantiable, Seqs!EnoughAtFirst
    <2>4. QED
      BY <2>1, <2>2, <2>3, InitOk
  <1>2. J /\ [Next]_vars => J'
    <2>1. Seqs!IInv /\ [Seqs!Next]_(Seqs!vars) => Seqs!IInv'
      BY Instantiable, Seqs!StepInv
    <2>2. Seqs!IInv /\ Seqs!Enough /\ [Seqs!Next]_(Seqs!vars) => Seqs!Enough'
      BY Instantiable, Seqs!EnoughStep
    <2>3. QED
      BY <2>1, <2>2, StepOk
  <1>3. QED
    BY <1>1, <1>2, PTL DEF Spec

(* The pointer code does what the sequence code does: every step of        *)
(* gt_eviction() on the linked lists is a step of gt_eviction() on         *)
(* sequences, or, for an empty slot of back[], none at all.                *)
THEOREM Refinement == Spec => ImplementsGroupTesting
  <1>1. Init => Abstract!Init
    BY InitOk, SameInit
  <1>2. HeapInv /\ Seqs!IInv /\ Seqs!Enough /\ [Next]_vars => [Abstract!Next]_(Abstract!vars)
    BY StepOk, SameNext, SameVars
  <1>3. QED
    BY <1>1, <1>2, Throughout, PTL DEF Spec, ImplementsGroupTesting

(* Whenever a list is about to be cut or handed back it is linked both     *)
(* ways, so that list_split() cuts where it should.                        *)
THEOREM LinkedBothWays == Spec => []BothWays
  <1>1. HeapInv => BothWays
    <2> SUFFICES ASSUME HeapInv, pc \in {"again", "reduce", "recover", "done"}
                 PROVE  /\ WellLinked(heap, ptr) /\ WellLinked(heap, canp)
                        /\ \A j \in i + 1 .. l : WellLinked(heap, backs[j])
      BY DEF BothWays
    <2>1. WellLinked(heap, ptr) /\ WellLinked(heap, canp)
      BY ChainOf DEF HeapInv
    <2>2. \A j \in i + 1 .. l : WellLinked(heap, backs[j])
      <3>1. \A j \in i + 1 .. l : j \in i + 1 .. Len(backs)
        BY LenProperties DEF HeapInv
      <3>2. QED
        BY <3>1, ChainOf DEF HeapInv, Slots
    <2>3. QED
      BY <2>1, <2>2
  <1>2. QED
    BY <1>1, Throughout, PTL

=============================================================================
