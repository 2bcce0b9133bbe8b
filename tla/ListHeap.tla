------------------------------ MODULE ListHeap ------------------------------
(***************************************************************************)
(* The doubly linked lists of list_utils.c, as they lie in memory: every   *)
(* line of the buffer is a struct elem with the fields next and prev, and  *)
(* a list is known by the pointer to its first line.  Every function of    *)
(* list_utils.c that relinks lines is an operator that takes the heap and  *)
(* the pointers it is passed, and returns the new heap with the pointers   *)
(* it hands back.  A write through a null pointer never happens in them:   *)
(* SetNext and SetPrev stand for a write under the code's `if (p)'.        *)
(***************************************************************************)
EXTENDS CacheLines, Integers, FiniteSets, SequencesExt

CONSTANT Null

ASSUME ElemAssumption == IsFiniteSet(Elem)
ASSUME NullAssumption == Null \notin Elem

Ptr == Elem \cup {Null}

Heap == [next : [Elem -> Ptr], prev : [Elem -> Ptr]]

SetNext(h, e, p) == IF e = Null THEN h ELSE [h EXCEPT !.next[e] = p]
SetPrev(h, e, p) == IF e = Null THEN h ELSE [h EXCEPT !.prev[e] = p]

(* The lines from p on, up to the one whose next is stop or null.  A chain *)
(* that runs into a cycle is cut off one line after every line was seen.   *)
Upto(h, p, stop) == Walk(h.next, Null, p, stop, Cardinality(Elem))

(* The list that starts at p.                                              *)
Chain(h, p) == Upto(h, p, Null)

(* Its lines point back the way they came (the first one may point         *)
(* anywhere: no function looks before the head of a list).                 *)
WellLinked(h, p) ==
  LET s == Chain(h, p)
  IN  IsInjective(s) /\ \A i \in 1 .. Len(s) - 1 : h.prev[s[i + 1]] = s[i]

(* A list as the caller built it: linked both ways, in the order of s.     *)
(* Its first line may point back to a line that is not in it.              *)
Links(s, before) ==
  [next |-> [e \in Elem |-> IF \E j \in 1 .. Len(s) - 1 : s[j] = e
                              THEN s[(CHOOSE j \in DOMAIN s : s[j] = e) + 1]
                              ELSE Null],
   prev |-> [e \in Elem |-> IF \E j \in 2 .. Len(s) : s[j] = e
                              THEN s[(CHOOSE j \in DOMAIN s : s[j] = e) - 1]
                              ELSE IF e = s[1] THEN before ELSE Null]]

-----------------------------------------------------------------------------
(* list_split(): cut the list at p into as many chunks as the array has    *)
(* slots.  Each cut is made behind the line that the first line of the     *)
(* next chunk names as its predecessor.                                    *)
Split(h, p, chunks) ==
  LET n == Len(chunks)
      k == Len(Chain(h, p)) \div n
      cut(st, j) ==
        LET s == Chain(st.heap, st.at)
            size == IF j = n THEN Len(s) ELSE IF k = 0 THEN 1 ELSE k
            rest == IF Len(s) > size THEN s[size + 1] ELSE Null
            h1 == SetPrev(st.heap, st.at, Null)
        IN  [heap |-> IF rest = Null THEN h1
                                     ELSE SetNext(h1, h1.prev[rest], Null),
             at |-> rest,
             chunks |-> Append(st.chunks, st.at)]
      cuts[j \in 0 .. n] ==
        IF j = 0 THEN [heap |-> h, at |-> p, chunks |-> <<>>]
                 ELSE cut(cuts[j - 1], j)
  IN  IF p = Null THEN [heap |-> h, at |-> p, chunks |-> chunks] ELSE cuts[n]

(* list_from_chunks(): link all chunks but one.                            *)
FromChunks(h, p, chunks, avoid) ==
  LET n == Len(chunks)
      at(i) == chunks[((avoid - 1 + i) % n) + 1]  \* the i-th chunk after it
      h1 == SetPrev(h, at(0), Null)
      h2 == SetNext(h1, IF at(0) = Null THEN Null
                        ELSE Last(Upto(h1, at(0), at(1))), Null)
      h3 == SetPrev(h2, at(1), Null)
      link(st, i) ==          \* behind st.end, link the (i+1)-st one
        LET s == Upto(st.heap, st.end, at(i + 1))
            repaired == [x \in Elem |->
                           IF \E m \in 2 .. Len(s) : s[m] = x
                             THEN s[(CHOOSE m \in 2 .. Len(s) : s[m] = x) - 1]
                             ELSE st.heap.prev[x]]
            h4 == [st.heap EXCEPT !.prev = repaired]
            h5 == SetNext(h4, Last(s), at(i + 1))
        IN  IF \E m \in 1 .. i : at(m) = Null THEN st
            ELSE [heap |-> SetPrev(h5, at(i + 1), Last(s)), end |-> Last(s)]
      links[i \in 0 .. n - 1] == IF i = 0 THEN [heap |-> h3, end |-> at(1)]
                                          ELSE link(links[i - 1], i)
      done == links[n - 1]
  IN  IF p = Null \/ at(1) = Null
        THEN [heap |-> h, ptr |-> p]
        ELSE [heap |-> SetNext(done.heap, done.end, Null), ptr |-> at(1)]

ConcatOneWay(h, p, c) ==
  IF p = Null THEN [heap |-> h, ptr |-> c]
  ELSE [heap |-> SetNext(h, Last(Chain(h, p)), c), ptr |-> p]

(* list_concat(): hang the list at c behind the list at p.                 *)
Concat(h, p, c) ==
  IF p = Null THEN [heap |-> h, ptr |-> c]
  ELSE LET end == Last(Chain(h, p))
       IN  [heap |-> SetPrev(SetNext(h, end, c), c, end), ptr |-> p]

(* list_push(): hang the line e in front of the list at p.                 *)
Push(h, p, e) ==
  IF e = Null THEN [heap |-> h, ptr |-> p]
  ELSE [heap |-> SetPrev(SetNext(SetPrev(h, e, Null), e, p), p, e), ptr |-> e]

(* The line number k of the list at p, counted from 0.  The index is of    *)
(* type size_t: a negative k is a huge number and lies behind the list.    *)
At(h, p, k) ==
  LET s == Chain(h, p)
  IN  IF k \in 0 .. Len(s) - 1 THEN s[k + 1] ELSE Null

BypassOneWay(h, p, first, last) ==
  LET before == h.prev[first]
      behind == h.next[last]
  IN  [heap |-> SetNext(h, before, behind),
       ptr |-> IF before = Null THEN behind ELSE p]

(* The lines first to last leave the list at p: what stood before them now *)
(* goes on behind them.  The code looks at the prev of first to find out   *)
(* whether anything stood before it.                                       *)
Bypass(h, p, first, last) ==
  LET before == h.prev[first]
      behind == h.next[last]
  IN  [heap |-> SetPrev(SetNext(h, before, behind), behind, before),
       ptr |-> IF before = Null THEN behind ELSE p]

(* list_get(): take line number k out of the list.                         *)
Get(h, p, k) ==
  LET e == At(h, p, k)
      rest == Bypass(h, p, e, e)
  IN  IF e = Null THEN [heap |-> h, ptr |-> p, line |-> Null]
      ELSE [heap |-> SetNext(SetPrev(rest.heap, e, Null), e, Null),
            ptr |-> rest.ptr, line |-> e]

(* list_slice(): cut the lines number s to e out as a list of their own.   *)
(* Nothing is cut when there is no such line, or none number e.            *)
Slice(h, p, s, e) ==
  LET first == At(h, p, s)
      last == IF e < s THEN first ELSE At(h, p, e)
      rest == Bypass(h, p, first, last)
  IN  IF Null \in {first, last} THEN [heap |-> h, ptr |-> p, slice |-> Null]
      ELSE [heap |-> SetNext(SetPrev(rest.heap, first, Null), last, Null),
            ptr |-> rest.ptr, slice |-> first]
=============================================================================
