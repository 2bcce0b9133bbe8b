------------------------- MODULE GroupTestingProofs -------------------------
(***************************************************************************)
(* What holds of gt_eviction() for every list, associativity, grouping of  *)
(* the lines and outcome of the tests.                                     *)
(***************************************************************************)
EXTENDS GroupTestingAny, ListLemmas

(***************************************************************************)
(* The chunks.                                                             *)
(***************************************************************************)
LEMMA ChunksType == Chunks \in Nat /\ Chunks > 1
  BY TargetAssumption DEF Chunks

LEMMA Bounds ==
  ASSUME NEW s \in Seq(Elem), NEW j \in 1 .. Chunks
  PROVE  /\ First(s, j) \in 1 .. Len(s) + 1
         /\ Final(s, j) \in First(s, j) - 1 .. Len(s)
  <1> DEFINE k == Len(s) \div Chunks
  <1>1. Len(s) \in Nat /\ Chunks \in Nat \ {0} /\ j \in Nat
    BY ChunksType
  <1>2. k \in Nat /\ k * Chunks <= Len(s)
    BY <1>1
  <1>3. (j - 1) * k <= j * k /\ j * k <= Chunks * k
    BY <1>1, <1>2
  <1>4. (j - 1) * k \in Nat /\ j * k \in Nat
    BY <1>1, <1>2
  <1> HIDE DEF k
  <1>5. /\ First(s, j) = (j - 1) * k + 1
        /\ j # Chunks => Final(s, j) = j * k
        /\ j = Chunks => Final(s, j) = Len(s)
    BY DEF First, Final, k
  <1>6. QED
    BY <1>1, <1>2, <1>3, <1>4, <1>5

(* A chunk and what list_from_chunks() makes of the others share the lines *)
(* of the list out.                                                        *)
LEMMA ChunkSplits ==
  ASSUME NEW s \in Seq(Elem), NEW j \in 1 .. Chunks
  PROVE  /\ Chunk(s, j) \in Seq(Elem) /\ Without(s, j) \in Seq(Elem)
         /\ Len(Chunk(s, j)) + Len(Without(s, j)) = Len(s)
         /\ Range(Chunk(s, j)) \cup Range(Without(s, j)) = Range(s)
         /\ IsInjective(s) =>
              /\ IsInjective(Chunk(s, j)) /\ IsInjective(Without(s, j))
              /\ Range(Chunk(s, j)) \cap Range(Without(s, j)) = {}
  <1>1. First(s, j) \in 1 .. Len(s) + 1 /\ Final(s, j) \in First(s, j) - 1 .. Len(s)
    BY Bounds
  <1> DEFINE a == First(s, j)
             b == Final(s, j)
             c == SubSeq(s, a, b)
             w == SubSeq(s, b + 1, Len(s)) \o SubSeq(s, 1, a - 1)
  <1> HIDE DEF a, b
  <1>2. /\ c \in Seq(Elem) /\ w \in Seq(Elem)
        /\ Len(c) + Len(w) = Len(s)
        /\ Range(c) \cup Range(w) = Range(s)
        /\ IsInjective(s) => /\ IsInjective(c) /\ IsInjective(w)
                             /\ Range(c) \cap Range(w) = {}
    BY <1>1, CutOut, Zenon DEF a, b
  <1>3. Chunk(s, j) = c /\ Without(s, j) = w
    BY DEF Chunk, Without, a, b
  <1>4. QED
    BY <1>2, <1>3, Zenon

(***************************************************************************)
(* The chunks in back[].                                                   *)
(***************************************************************************)
LEMMA InHeld ==
  ASSUME NEW b, NEW x
  PROVE  x \in Held(b) <=> \E i \in DOMAIN b : x \in Range(b[i])
  BY DEF Held

(* b holds the chunks of r, at positions shifted by d, and chunk p.        *)
LEMMA OneMore ==
  ASSUME NEW b, NEW r, NEW p \in DOMAIN b, NEW d \in Int,
         DOMAIN b \subseteq Int, DOMAIN r \subseteq Int,
         \A j \in DOMAIN r : j + d \in DOMAIN b \ {p} /\ r[j] = b[j + d],
         \A k \in DOMAIN b \ {p} : k - d \in DOMAIN r
  PROVE  /\ Held(b) = Held(r) \cup Range(b[p])
         /\ Apart(b) <=> /\ Apart(r) /\ IsInjective(b[p])
                         /\ Range(b[p]) \cap Held(r) = {}
  <1>1. ASSUME NEW k \in DOMAIN b \ {p}
        PROVE  k - d \in DOMAIN r /\ r[k - d] = b[k]
    <2>1. k - d \in DOMAIN r /\ (k - d) + d = k
      OBVIOUS
    <2>2. QED
      BY <2>1
  <1>2. ASSUME NEW x PROVE x \in Held(b) <=> x \in Held(r) \/ x \in Range(b[p])
    <2>1. ASSUME x \in Held(b) PROVE x \in Held(r) \/ x \in Range(b[p])
      <3>1. PICK k \in DOMAIN b : x \in Range(b[k])
        BY <2>1, InHeld
      <3>2. CASE k = p
        BY <3>1, <3>2
      <3>3. CASE k # p
        <4>1. k - d \in DOMAIN r /\ x \in Range(r[k - d])
          BY <1>1, <3>1, <3>3
        <4>2. QED
          BY <4>1, InHeld
      <3>4. QED
        BY <3>2, <3>3
    <2>2. ASSUME x \in Held(r) PROVE x \in Held(b)
      <3>1. PICK j \in DOMAIN r : x \in Range(r[j])
        BY <2>2, InHeld
      <3>2. j + d \in DOMAIN b /\ x \in Range(b[j + d])
        BY <3>1
      <3>3. QED
        BY <3>2, InHeld
    <2>3. x \in Range(b[p]) => x \in Held(b)
      BY InHeld
    <2>4. QED
      BY <2>1, <2>2, <2>3
  <1>3. ASSUME Apart(b)
        PROVE  /\ Apart(r) /\ IsInjective(b[p])
               /\ Range(b[p]) \cap Held(r) = {}
    <2>1. ASSUME NEW j \in DOMAIN r
          PROVE  IsInjective(r[j]) /\ Range(b[p]) \cap Range(r[j]) = {}
      <3>1. j + d \in DOMAIN b \ {p} /\ r[j] = b[j + d]
        OBVIOUS
      <3>2. QED
        BY <1>3, <3>1 DEF Apart
    <2>2. ASSUME NEW j \in DOMAIN r, NEW k \in DOMAIN r \ {j}
          PROVE  Range(r[j]) \cap Range(r[k]) = {}
      <3>1. /\ j + d \in DOMAIN b /\ r[j] = b[j + d]
            /\ k + d \in DOMAIN b /\ r[k] = b[k + d]
            /\ j + d # k + d
        OBVIOUS
      <3>2. QED
        BY <1>3, <3>1 DEF Apart
    <2>3. Range(b[p]) \cap Held(r) = {}
      BY <2>1, InHeld
    <2>4. IsInjective(b[p])
      BY <1>3 DEF Apart
    <2>5. Apart(r)
      BY <2>1, <2>2 DEF Apart
    <2>6. QED
      BY <2>3, <2>4, <2>5
  <1>4. ASSUME Apart(r), IsInjective(b[p]), Range(b[p]) \cap Held(r) = {}
        PROVE  Apart(b)
    <2>1. ASSUME NEW k \in DOMAIN b \ {p}
          PROVE  IsInjective(b[k]) /\ Range(b[p]) \cap Range(b[k]) = {}
      <3>1. k - d \in DOMAIN r /\ r[k - d] = b[k]
        BY <1>1
      <3>2. Range(b[k]) \subseteq Held(r)
        BY <3>1, InHeld
      <3>3. IsInjective(b[k])
        BY <1>4, <3>1 DEF Apart
      <3>4. QED
        BY <1>4, <3>2, <3>3
    <2>2. ASSUME NEW k \in DOMAIN b \ {p}, NEW m \in DOMAIN b \ {p}, k # m
          PROVE  Range(b[k]) \cap Range(b[m]) = {}
      <3>1. /\ k - d \in DOMAIN r /\ r[k - d] = b[k]
            /\ m - d \in DOMAIN r /\ r[m - d] = b[m]
        BY <1>1
      <3>2. k - d # m - d
        BY <2>2
      <3>3. QED
        BY <1>4, <3>1, <3>2 DEF Apart
    <2>3. QED
      BY <1>4, <2>1, <2>2 DEF Apart
  <1>5. QED
    BY <1>2, <1>3, <1>4

LEMMA Push ==
  ASSUME NEW b \in Seq(Seq(Elem)), NEW c \in Seq(Elem)
  PROVE  /\ Append(b, c) \in Seq(Seq(Elem))
         /\ Held(Append(b, c)) = Held(b) \cup Range(c)
         /\ Apart(Append(b, c)) <=> /\ Apart(b) /\ IsInjective(c)
                                    /\ Range(c) \cap Held(b) = {}
  <1> DEFINE d == Append(b, c)
             p == Len(b) + 1
  <1>1. /\ d \in Seq(Seq(Elem)) /\ Len(d) = Len(b) + 1
        /\ \A i \in 1 .. Len(b) : d[i] = b[i]
        /\ d[p] = c
    BY AppendProperties
  <1>2. Len(b) \in Nat /\ DOMAIN b = 1 .. Len(b) /\ DOMAIN d = 1 .. Len(b) + 1
    BY <1>1, LenProperties
  <1> HIDE DEF d
  <1>3. /\ p \in DOMAIN d /\ DOMAIN d \subseteq Int /\ DOMAIN b \subseteq Int
        /\ \A j \in DOMAIN b : j + 0 \in DOMAIN d \ {p} /\ b[j] = d[j + 0]
        /\ \A k \in DOMAIN d \ {p} : k - 0 \in DOMAIN b
    BY <1>1, <1>2
  <1> HIDE DEF p
  <1>4. /\ Held(d) = Held(b) \cup Range(d[p])
        /\ Apart(d) <=> /\ Apart(b) /\ IsInjective(d[p])
                        /\ Range(d[p]) \cap Held(b) = {}
    <2>1. 0 \in Int
      OBVIOUS
    <2>2. QED
      BY <1>3, <2>1, OneMore, Zenon
  <1>5. QED
    BY <1>1, <1>4, Zenon DEF d

LEMMA Pop ==
  ASSUME NEW b \in Seq(Seq(Elem)), b # <<>>
  PROVE  LET r == SubSeq(b, 1, Len(b) - 1)
         IN  /\ r \in Seq(Seq(Elem)) /\ b[Len(b)] \in Seq(Elem)
             /\ Len(r) = Len(b) - 1
             /\ Held(b) = Held(r) \cup Range(b[Len(b)])
             /\ Apart(b) <=> /\ Apart(r) /\ IsInjective(b[Len(b)])
                             /\ Range(b[Len(b)]) \cap Held(r) = {}
  <1> DEFINE r == SubSeq(b, 1, Len(b) - 1)
             p == Len(b)
  <1>1. Len(b) \in Nat \ {0} /\ DOMAIN b = 1 .. Len(b)
    BY LenProperties, EmptySeq
  <1>2. 1 \in 1 .. Len(b) + 1 /\ Len(b) - 1 \in 1 - 1 .. Len(b)
    BY <1>1
  <1>3. /\ r \in Seq(Seq(Elem)) /\ Len(r) = (Len(b) - 1) - 1 + 1
        /\ \A j \in 1 .. (Len(b) - 1) - 1 + 1 : r[j] = b[1 + j - 1]
    BY <1>2, Excerpt
  <1> HIDE DEF r
  <1>4. Len(r) = Len(b) - 1 /\ \A j \in 1 .. Len(b) - 1 : r[j] = b[j]
    BY <1>1, <1>3
  <1>5. DOMAIN r = 1 .. Len(b) - 1
    BY <1>3, <1>4, LenProperties
  <1>6. /\ p \in DOMAIN b /\ DOMAIN b \subseteq Int /\ DOMAIN r \subseteq Int
        /\ \A j \in DOMAIN r : j + 0 \in DOMAIN b \ {p} /\ r[j] = b[j + 0]
        /\ \A k \in DOMAIN b \ {p} : k - 0 \in DOMAIN r
    BY <1>1, <1>4, <1>5
  <1>7. b[p] \in Seq(Elem)
    BY <1>1, ElementOfSeq
  <1> HIDE DEF p
  <1>8. /\ Held(b) = Held(r) \cup Range(b[p])
        /\ Apart(b) <=> /\ Apart(r) /\ IsInjective(b[p])
                        /\ Range(b[p]) \cap Held(r) = {}
    <2>1. 0 \in Int
      OBVIOUS
    <2>2. QED
      BY <1>6, <2>1, OneMore, Zenon
  <1>9. QED
    BY <1>3, <1>4, <1>7, <1>8, Zenon DEF r, p

LEMMA Behead ==
  ASSUME NEW b \in Seq(Seq(Elem)), b # <<>>
  PROVE  /\ Tail(b) \in Seq(Seq(Elem)) /\ Head(b) \in Seq(Elem)
         /\ Held(b) = Held(Tail(b)) \cup Range(Head(b))
         /\ Apart(b) <=> /\ Apart(Tail(b)) /\ IsInjective(Head(b))
                         /\ Range(Head(b)) \cap Held(Tail(b)) = {}
  <1> DEFINE r == Tail(b)
  <1>1. Len(b) \in Nat \ {0} /\ DOMAIN b = 1 .. Len(b)
    BY LenProperties, EmptySeq
  <1>2. /\ Head(b) \in Seq(Elem) /\ r \in Seq(Seq(Elem))
        /\ Len(r) = Len(b) - 1
        /\ \A j \in 1 .. Len(r) : r[j] = b[j + 1]
    BY HeadTailProperties
  <1>3. Head(b) = b[1]
    OBVIOUS
  <1> HIDE DEF r
  <1>4. DOMAIN r = 1 .. Len(b) - 1
    BY <1>2, LenProperties
  <1>5. /\ 1 \in DOMAIN b /\ DOMAIN b \subseteq Int /\ DOMAIN r \subseteq Int
        /\ \A j \in DOMAIN r : j + 1 \in DOMAIN b \ {1} /\ r[j] = b[j + 1]
        /\ \A k \in DOMAIN b \ {1} : k - 1 \in DOMAIN r
    <2>1. DOMAIN b \subseteq Int /\ DOMAIN r \subseteq Int /\ 1 \in DOMAIN b
      BY <1>1, <1>4
    <2>2. \A j \in DOMAIN r : j + 1 \in DOMAIN b \ {1}
      BY <1>1, <1>4
    <2>3. \A k \in DOMAIN b \ {1} : k - 1 \in DOMAIN r
      BY <1>1, <1>4
    <2>4. \A j \in DOMAIN r : r[j] = b[j + 1]
      BY <1>1, <1>2, <1>4
    <2>5. QED
      BY <2>1, <2>2, <2>3, <2>4
  <1>6. /\ Held(b) = Held(r) \cup Range(b[1])
        /\ Apart(b) <=> /\ Apart(r) /\ IsInjective(b[1])
                        /\ Range(b[1]) \cap Held(r) = {}
    <2>1. 1 \in Int
      OBVIOUS
    <2>2. /\ \A j \in DOMAIN r : j + 1 \in DOMAIN b \ {1} /\ r[j] = b[j + 1]
          /\ \A k \in DOMAIN b \ {1} : k - 1 \in DOMAIN r
      BY <1>5
    <2>3. 1 \in DOMAIN b /\ DOMAIN b \subseteq Int /\ DOMAIN r \subseteq Int
      BY <1>5
    <2>4. QED
      BY <2>1, <2>2, <2>3, OneMore, ZenonT(30)
  <1>7. QED
    BY <1>2, <1>3, <1>6, Zenon DEF r

-----------------------------------------------------------------------------
(***************************************************************************)
(* The inductive invariant.                                                *)
(***************************************************************************)
LEMMA OrderType ==
  ASSUME order \in Orders, NEW j \in 1 .. Chunks
  PROVE  order[j] \in 1 .. Chunks
  BY DEF Orders, Injection

LEMMA EndLevelType ==
  ASSUME EndLevel
  PROVE  n' \in 0 .. Chunks /\ ret' \in BOOLEAN /\ base' \in Seq(Elem)
  <1>1. n' \in 0 .. Chunks
    BY ChunksType DEF EndLevel
  <1>2. ret' \in BOOLEAN
    BY Zenon DEF EndLevel
  <1>3. base' \in Seq(Elem)
    BY EmptySeq DEF EndLevel
  <1>4. QED
    BY <1>1, <1>2, <1>3

LEMMA EntryInv == Entry => IInv
  <1> SUFFICES ASSUME Entry PROVE IInv
    OBVIOUS
  <1>1. input \in Seq(Elem) /\ IsInjective(input)
    BY CandidatesAssumption DEF Entry
  <1>2. groups \subseteq SUBSET Elem
    BY GroupingsAssumption DEF Entry
  <1>3. Len(input) \in Nat
    BY <1>1, LenProperties
  <1>4. [j \in 1 .. Chunks |-> j] \in Orders
    BY ChunksType DEF Orders, Injection, IsInjective
  <1>5. <<>> \in Seq(Elem) /\ <<>> \in Seq(Seq(Elem)) /\ Range(<<>>) = {}
        /\ IsInjective(<<>>)
    BY DEF Range, IsInjective
  <1>6. Held(<<>>) = {} /\ Apart(<<>>)
    BY DEF Held, Apart
  <1>7. TypeOK
    <2>1. 0 \in 0 .. Chunks /\ 0 \in 0 .. MaxRepsBack + 1
      BY ChunksType, MaxRepsBackAssumption
    <2>2. TestTypeOK
      BY <1>2 DEF Entry, TestTypeOK
    <2>3. n \in 0 .. Chunks /\ repeat \in 0 .. MaxRepsBack + 1
          /\ len \in Nat /\ cans \in Int
      BY <1>3, <2>1 DEF Entry
    <2>4. order \in Orders /\ back \in Seq(Seq(Elem)) /\ can \in Seq(Elem)
          /\ base \in Seq(Elem) /\ list \in Seq(Elem)
      BY <1>1, <1>4, <1>5, Zenon DEF Entry
    <2>5. QED
      BY <1>1, <2>2, <2>3, <2>4, Zenon DEF Entry, TypeOK
  <1>8. NothingLost
    BY <1>1, <1>5, <1>6 DEF Entry, NothingLost, AllThere, NoneTwice, InPlay, Aside
  <1>9. KeepsEvicting
    BY DEF Entry, KeepsEvicting, InPlay
  <1>10. LoopState
    BY MaxRepsBackAssumption DEF Entry, LoopState
  <1>11. Learnt /\ Verdict
    BY DEF Entry, Learnt, Verdict
  <1>12. QED
    BY <1>7, <1>8, <1>9, <1>10, <1>11 DEF IInv

LEMMA InitInv == Init => IInv
  BY EntryInv DEF Init

(* What a step leaves alone: the lines in play and those set aside.        *)
LEMMA SameLines ==
  ASSUME IInv, input' = input, UNCHANGED testVars,
         InPlay' = InPlay, UNCHANGED <<can, back>>
  PROVE  NothingLost' /\ KeepsEvicting'
  <1>1. Aside' = Aside
    BY DEF Aside, Held
  <1>2. NothingLost'
    BY <1>1 DEF IInv, NothingLost, AllThere, NoneTwice, Apart, Held
  <1>3. KeepsEvicting'
    BY DEF IInv, KeepsEvicting, Evicts, testVars
  <1>4. QED
    BY <1>2, <1>3

LEMMA NoRecordInv == IInv /\ NoRecord => IInv'
  <1> SUFFICES ASSUME IInv, NoRecord PROVE IInv'
    OBVIOUS
  <1> USE DEF NoRecord, callVars, testVars
  <1>1. TypeOK'
    BY DEF IInv, TypeOK, TestTypeOK
  <1>2. InPlay' = InPlay
    BY DEF InPlay
  <1>3. NothingLost' /\ KeepsEvicting'
    BY <1>2, SameLines DEF testVars
  <1>4. LoopState' /\ Learnt' /\ Verdict'
    BY DEF IInv, LoopState, Learnt, Verdict
  <1>5. QED
    BY <1>1, <1>3, <1>4 DEF IInv

LEMMA ShuffleInv == IInv /\ Shuffle => IInv'
  <1> SUFFICES ASSUME IInv, Shuffle PROVE IInv'
    OBVIOUS
  <1> USE DEF Shuffle, callVars, testVars
  <1>1. TypeOK'
    BY DEF IInv, TypeOK, TestTypeOK
  <1>2. InPlay' = InPlay
    BY DEF InPlay
  <1>3. NothingLost' /\ KeepsEvicting'
    BY <1>2, SameLines
  <1>4. LoopState' /\ Learnt' /\ Verdict'
    BY DEF IInv, LoopState, Learnt, Verdict
  <1>5. QED
    BY <1>1, <1>3, <1>4 DEF IInv

LEMMA SplitInv == IInv /\ Split => IInv'
  <1> SUFFICES ASSUME IInv, Split PROVE IInv'
    OBVIOUS
  <1> USE DEF Split, callVars, testVars
  <1>1. TypeOK'
    <2>1. n' \in 0 .. Chunks
      BY ChunksType
    <2>2. ret' \in BOOLEAN
      BY Zenon
    <2>3. QED
      BY <2>1, <2>2 DEF IInv, TypeOK, TestTypeOK
  <1>2. InPlay' = InPlay
    BY DEF InPlay
  <1>3. NothingLost' /\ KeepsEvicting'
    BY <1>2, SameLines
  <1>4. LoopState'
    BY ChunksType DEF IInv, LoopState
  <1>5. Learnt'
    BY DEF IInv, Learnt
  <1>6. Verdict'
    BY DEF IInv, Verdict
  <1>7. QED
    BY <1>1, <1>3, <1>4, <1>5, <1>6 DEF IInv

LEMMA ReducedInv == IInv /\ Reduced => IInv'
  <1> SUFFICES ASSUME IInv, Reduced PROVE IInv'
    OBVIOUS
  <1> USE DEF Reduced, callVars, testVars
  <1>1. TypeOK'
    BY DEF IInv, TypeOK, TestTypeOK
  <1>2. InPlay' = InPlay
    BY DEF InPlay
  <1>3. NothingLost' /\ KeepsEvicting'
    BY <1>2, SameLines
  <1>4. LoopState' /\ Learnt' /\ Verdict'
    BY DEF IInv, LoopState, Learnt, Verdict
  <1>5. QED
    BY <1>1, <1>3, <1>4 DEF IInv

LEMMA TryInv == IInv /\ Try => IInv'
  <1> SUFFICES ASSUME IInv, Try PROVE IInv'
    OBVIOUS
  <1> USE DEF Try, callVars, testVars
  <1>1. /\ n + 1 \in 1 .. Chunks /\ n \in Nat
        /\ order[n + 1] \in 1 .. Chunks
        /\ base \in Seq(Elem)
    <2>1. n \in 0 .. Chunks /\ n < Chunks /\ order \in Orders /\ base \in Seq(Elem)
      BY DEF IInv, TypeOK, LoopState
    <2>2. n + 1 \in 1 .. Chunks /\ n \in Nat
      BY <2>1, ChunksType
    <2>3. QED
      BY <2>1, <2>2, OrderType
  <1>2. list' \in Seq(Elem)
    BY <1>1, ChunkSplits
  <1>3. ret' \in BOOLEAN
    <2>1. Evicts(Range(list')) \in BOOLEAN
      BY DEF Evicts
    <2>2. QED
      BY <2>1 DEF Answers
  <1>4. TypeOK'
    BY <1>1, <1>2, <1>3, ChunksType DEF IInv, TypeOK, TestTypeOK
  <1>5. InPlay' = InPlay
    BY DEF InPlay
  <1>6. NothingLost' /\ KeepsEvicting'
    BY <1>5, SameLines
  <1>7. LoopState'
    BY <1>1, <1>3, ChunksType DEF IInv, LoopState
  <1>8. Learnt'
    <2> SUFFICES ASSUME ~noisy PROVE Learnt'
      BY DEF Learnt
    <2>1. ret' = Evicts(Range(list'))
      BY DEF Answers
    <2>2. ~ret /\ (ret' => pc' = "decide")
      BY DEF IInv, LoopState
    <2>3. \A m \in 1 .. n : ~Evicts(Range(Without(base, order[m])))
      BY <2>2 DEF IInv, Learnt
    <2>4. ASSUME NEW m \in 1 .. n', m < n' \/ ~ret'
          PROVE  ~Evicts(Range(Without(base, order[m])))
      <3>1. CASE m \in 1 .. n
        BY <2>3, <3>1
      <3>2. CASE m = n + 1
        BY <1>1, <2>1, <2>4, <3>2
      <3>3. QED
        BY <1>1, <3>1, <3>2
    <2>5. ret' => Evicts(Range(list'))
      BY <2>1
    <2>6. QED
      BY <2>4, <2>5 DEF Learnt, Evicts
  <1>9. Verdict'
    BY DEF IInv, Verdict
  <1>10. QED
    BY <1>4, <1>6, <1>7, <1>8, <1>9 DEF IInv

(* The facts a decision rests on.                                          *)
LEMMA AtDecision ==
  ASSUME IInv, pc = "decide"
  PROVE  /\ list \in Seq(Elem) /\ base \in Seq(Elem) /\ TriedChunk \in Seq(Elem)
         /\ Len(TriedChunk) + Len(list) = Len(base) /\ Len(TriedChunk) \in Nat
         /\ Range(TriedChunk) \cup Range(list) = Range(base)
         /\ IsInjective(list) /\ IsInjective(TriedChunk)
         /\ Range(TriedChunk) \cap Range(list) = {}
         /\ InPlay = base /\ can = <<>> /\ len = Len(base)
         /\ Range(can) = {} /\ Aside = Held(back)
  <1>1. /\ n \in 0 .. Chunks /\ n > 0 /\ order \in Orders /\ base \in Seq(Elem)
        /\ list = Without(base, order[n]) /\ can = <<>> /\ len = Len(base)
    BY DEF IInv, TypeOK, LoopState
  <1>2. order[n] \in 1 .. Chunks
    <2>1. n \in 1 .. Chunks
      BY <1>1, ChunksType
    <2>2. QED
      BY <1>1, <2>1, OrderType
  <1>3. InPlay = base
    BY DEF InPlay
  <1>4. IsInjective(base)
    BY <1>3 DEF IInv, NothingLost, NoneTwice
  <1>5. Range(can) = {} /\ Aside = Held(back)
    BY <1>1 DEF Aside, Range
  <1>6. /\ list \in Seq(Elem) /\ TriedChunk \in Seq(Elem)
        /\ Len(TriedChunk) + Len(list) = Len(base)
        /\ Range(TriedChunk) \cup Range(list) = Range(base)
        /\ IsInjective(list) /\ IsInjective(TriedChunk)
        /\ Range(TriedChunk) \cap Range(list) = {}
    BY <1>1, <1>2, <1>4, ChunkSplits DEF TriedChunk
  <1>7. Len(TriedChunk) \in Nat
    BY <1>6, LenProperties
  <1>8. QED
    BY <1>1, <1>3, <1>5, <1>6, <1>7

LEMMA RemoveChunkInv == IInv /\ RemoveChunk => IInv'
  <1> SUFFICES ASSUME IInv, RemoveChunk PROVE IInv'
    OBVIOUS
  <1> USE DEF RemoveChunk, EndLevel, callVars, testVars
  <1>1. /\ list \in Seq(Elem) /\ base \in Seq(Elem) /\ TriedChunk \in Seq(Elem)
        /\ Len(TriedChunk) \in Nat
        /\ Range(TriedChunk) \cup Range(list) = Range(base)
        /\ IsInjective(list) /\ IsInjective(TriedChunk)
        /\ Range(TriedChunk) \cap Range(list) = {}
        /\ InPlay = base /\ can = <<>>
        /\ Range(can) = {} /\ Aside = Held(back)
    BY AtDecision
  <1>2. /\ back \in Seq(Seq(Elem)) /\ Range(base) \cap Held(back) = {}
        /\ Range(base) \cup Held(back) = Range(input)
        /\ Apart(back) /\ IsInjective(can)
    BY <1>1 DEF IInv, TypeOK, NothingLost, AllThere, NoneTwice
  <1>3. /\ back' \in Seq(Seq(Elem))
        /\ Held(back') = Held(back) \cup Range(TriedChunk)
        /\ Apart(back')
    BY <1>1, <1>2, Push
  <1>4. TypeOK'
    <2>1. n' \in 0 .. Chunks /\ ret' \in BOOLEAN /\ base' \in Seq(Elem)
      BY EndLevelType
    <2>2. len' \in Nat /\ cans' \in Int
      BY <1>1, LenProperties DEF IInv, TypeOK
    <2>3. QED
      BY <1>3, <2>1, <2>2 DEF IInv, TypeOK, TestTypeOK
  <1>5. InPlay' = list
    BY DEF InPlay
  <1>6. Aside' = Held(back') /\ Range(can') = {}
    BY <1>1 DEF Aside, Held
  <1>7. NothingLost'
    <2>1. AllThere'
      BY <1>1, <1>2, <1>3, <1>5, <1>6 DEF AllThere
    <2>2. NoneTwice'
      BY <1>1, <1>2, <1>3, <1>5, <1>6 DEF NoneTwice, Held, Apart
    <2>3. QED
      BY <2>1, <2>2 DEF NothingLost
  <1>8. KeepsEvicting'
    <2>1. ~noisy => Evicts(Range(list))
      BY DEF IInv, Learnt, Smaller
    <2>2. QED
      BY <1>5, <2>1 DEF KeepsEvicting, Evicts
  <1>9. LoopState'
    BY <1>1 DEF IInv, LoopState
  <1>10. Learnt' /\ Verdict'
    BY DEF IInv, Learnt, Verdict
  <1>11. QED
    BY <1>4, <1>7, <1>8, <1>9, <1>10 DEF IInv

(* Joining *ptr with the chunk just tried gives the lines of base again.   *)
LEMMA Rejoined ==
  ASSUME IInv, pc = "decide"
  PROVE  /\ list \o TriedChunk \in Seq(Elem)
         /\ Range(list \o TriedChunk) = Range(base)
         /\ IsInjective(list \o TriedChunk)
         /\ Len(list \o TriedChunk) = Len(base)
  <1>1. /\ list \in Seq(Elem) /\ TriedChunk \in Seq(Elem)
        /\ Len(TriedChunk) + Len(list) = Len(base)
        /\ Range(TriedChunk) \cup Range(list) = Range(base)
        /\ IsInjective(list) /\ IsInjective(TriedChunk)
        /\ Range(TriedChunk) \cap Range(list) = {}
    BY AtDecision
  <1>2. /\ list \o TriedChunk \in Seq(Elem)
        /\ Len(list \o TriedChunk) = Len(list) + Len(TriedChunk)
    BY <1>1, ConcatProperties
  <1>3. Range(list \o TriedChunk) = Range(list) \cup Range(TriedChunk)
    BY <1>1, RangeConcatenation
  <1>4. IsInjective(list \o TriedChunk)
    BY <1>1, JoinInjective
  <1>5. Len(list) + Len(TriedChunk) = Len(TriedChunk) + Len(list)
    BY <1>1, LenProperties
  <1>6. QED
    BY <1>1, <1>2, <1>3, <1>4, <1>5

LEMMA GiveUpInv == IInv /\ GiveUp => IInv'
  <1> SUFFICES ASSUME IInv, GiveUp PROVE IInv'
    OBVIOUS
  <1> USE DEF GiveUp, EndLevel, callVars, testVars
  <1>1. /\ list' \in Seq(Elem) /\ Range(list') = Range(base)
        /\ IsInjective(list') /\ Len(list') = Len(base)
    BY Rejoined
  <1>2. InPlay = base /\ len = Len(base)
    BY AtDecision
  <1>3. InPlay' = list'
    BY DEF InPlay
  <1>4. TypeOK'
    <2>1. n' \in 0 .. Chunks /\ ret' \in BOOLEAN /\ base' \in Seq(Elem)
      BY EndLevelType
    <2>2. QED
      BY <1>1, <2>1 DEF IInv, TypeOK, TestTypeOK
  <1>5. NothingLost'
    <2>1. Aside' = Aside /\ Held(back') = Held(back) /\ Range(can') = Range(can)
      BY DEF Aside, Held
    <2>2. AllThere'
      BY <1>1, <1>2, <1>3, <2>1 DEF IInv, NothingLost, AllThere
    <2>3. NoneTwice'
      BY <1>1, <1>2, <1>3, <2>1 DEF IInv, NothingLost, NoneTwice, Apart
    <2>4. QED
      BY <2>2, <2>3 DEF NothingLost
  <1>6. KeepsEvicting'
    BY <1>1, <1>2, <1>3 DEF IInv, KeepsEvicting, Evicts
  <1>7. LoopState'
    BY <1>1, <1>2 DEF IInv, LoopState
  <1>8. Learnt' /\ Verdict'
    BY DEF IInv, Learnt, Verdict
  <1>9. QED
    BY <1>4, <1>5, <1>6, <1>7, <1>8 DEF IInv

LEMMA BacktrackInv == IInv /\ Backtrack => IInv'
  <1> SUFFICES ASSUME IInv, Backtrack PROVE IInv'
    OBVIOUS
  <1> DEFINE top == back[Len(back)]
             rest == SubSeq(back, 1, Len(back) - 1)
             whole == list \o TriedChunk
  <1>1. /\ pc = "decide" /\ back # <<>>
        /\ list' = whole \o top /\ back' = rest
        /\ cans' = cans - Len(top) /\ len' = Len(list')
        /\ repeat' = IF back' # <<>> THEN repeat + 1 ELSE repeat
        /\ pc' = IF back' # <<>> /\ repeat < MaxRepsBack /\ backtracking
                   THEN "again" ELSE "recover"
        /\ EndLevel
        /\ UNCHANGED <<input, backtracking, groups, noisy, can, order, verdict>>
    BY DEF Backtrack, CountRound, Again, callVars, testVars
  <1>2. back \in Seq(Seq(Elem)) /\ Apart(back) /\ IsInjective(can)
    BY DEF IInv, TypeOK, NothingLost, NoneTwice
  <1>3. /\ whole \in Seq(Elem) /\ Range(whole) = Range(base)
        /\ IsInjective(whole) /\ Len(whole) = Len(base)
    BY <1>1, Rejoined
  <1>4. /\ rest \in Seq(Seq(Elem)) /\ top \in Seq(Elem)
        /\ Held(back) = Held(rest) \cup Range(top)
        /\ Apart(rest) /\ IsInjective(top) /\ Range(top) \cap Held(rest) = {}
    BY <1>1, <1>2, Pop
  <1>5. /\ InPlay = base /\ can = <<>> /\ Range(can) = {}
        /\ Aside = Held(back) /\ base \in Seq(Elem)
    BY <1>1, AtDecision
  <1>6. /\ Range(base) \cap Held(back) = {}
        /\ Range(base) \cup Held(back) = Range(input)
    BY <1>5 DEF IInv, NothingLost, AllThere, NoneTwice
  <1> HIDE DEF top, rest, whole
  <1>7. /\ list' \in Seq(Elem) /\ Range(list') = Range(base) \cup Range(top)
        /\ IsInjective(list')
    <2>1. Range(whole) \cap Range(top) = {}
      BY <1>3, <1>4, <1>6
    <2>2. whole \o top \in Seq(Elem) /\ IsInjective(whole \o top)
      BY <1>3, <1>4, <2>1, ConcatProperties, JoinInjective
    <2>3. Range(whole \o top) = Range(whole) \cup Range(top)
      BY <1>3, <1>4, RangeConcatenation
    <2>4. QED
      BY <1>1, <1>3, <2>2, <2>3
  <1>8. /\ InPlay' = list' /\ Range(can') = {}
        /\ Held(back') = Held(rest) /\ Aside' = Held(rest)
    BY <1>1, <1>5 DEF InPlay, Aside, Held
  <1>9. /\ repeat \in Nat /\ repeat <= MaxRepsBack
        /\ cans \in Int
    BY <1>1, MaxRepsBackAssumption DEF IInv, TypeOK, LoopState
  <1>10. TypeOK'
    <2>1. n' \in 0 .. Chunks /\ ret' \in BOOLEAN /\ base' \in Seq(Elem)
      BY <1>1, EndLevelType
    <2>2. /\ len' \in Nat /\ cans' \in Int
          /\ repeat' \in 0 .. MaxRepsBack + 1
      BY <1>1, <1>4, <1>7, <1>9, MaxRepsBackAssumption, LenProperties
    <2>3. pc' \in {"again", "recover"}
      BY <1>1
    <2>4. QED
      BY <1>1, <1>4, <1>7, <2>1, <2>2, <2>3 DEF IInv, TypeOK, TestTypeOK
  <1>11. NothingLost'
    <2>1. AllThere'
      BY <1>1, <1>4, <1>6, <1>7, <1>8 DEF AllThere
    <2>2. NoneTwice'
      BY <1>1, <1>2, <1>4, <1>6, <1>7, <1>8 DEF NoneTwice, Apart
    <2>3. QED
      BY <2>1, <2>2 DEF NothingLost
  <1>12. KeepsEvicting'
    <2>1. IsFiniteSet(Range(list')) /\ Range(base) \subseteq Range(list')
      BY <1>7, FiniteRange
    <2>2. Evicts(Range(base)) => Evicts(Range(list'))
      BY <2>1, EvictsGrows
    <2>3. ~noisy /\ Evicts(Range(input)) => Evicts(Range(list'))
      BY <1>5, <2>2 DEF IInv, KeepsEvicting
    <2>4. QED
      BY <1>1, <1>8, <2>3 DEF KeepsEvicting, Evicts
  <1>13. LoopState'
    <2>1. pc' = "again" => repeat' <= MaxRepsBack
      BY <1>1, <1>9, MaxRepsBackAssumption
    <2>2. verdict' = "none" /\ pc' \in {"again", "recover"}
      BY <1>1 DEF IInv, LoopState
    <2>3. QED
      BY <1>1, <1>5, <2>1, <2>2 DEF LoopState
  <1>14. Learnt' /\ Verdict'
    BY <1>1 DEF IInv, Learnt, Verdict
  <1>15. QED
    BY <1>10, <1>11, <1>12, <1>13, <1>14 DEF IInv

LEMMA RecoverInv == IInv /\ Recover => IInv'
  <1> SUFFICES ASSUME IInv, Recover PROVE IInv'
    OBVIOUS
  <1> DEFINE h == Head(back)
             t == Tail(back)
  <1>1. /\ pc = "recover" /\ back # <<>> /\ can' = can \o h /\ back' = t
        /\ UNCHANGED <<input, backtracking, groups, noisy, pc, list, base,
                       order, n, ret, len, cans, repeat, verdict>>
    BY DEF Recover, callVars, testVars
  <1>2. /\ back \in Seq(Seq(Elem)) /\ can \in Seq(Elem) /\ Apart(back)
        /\ IsInjective(can) /\ Range(can) \cap Held(back) = {}
        /\ Range(InPlay) \cap Aside = {}
        /\ Range(InPlay) \cup Aside = Range(input) /\ IsInjective(InPlay)
    BY DEF IInv, TypeOK, NothingLost, AllThere, NoneTwice
  <1>3. /\ t \in Seq(Seq(Elem)) /\ h \in Seq(Elem)
        /\ Held(back) = Held(t) \cup Range(h)
        /\ Apart(t) /\ IsInjective(h) /\ Range(h) \cap Held(t) = {}
    BY <1>1, <1>2, Behead
  <1> HIDE DEF h, t
  <1>4. /\ can' \in Seq(Elem) /\ Range(can') = Range(can) \cup Range(h)
        /\ IsInjective(can')
    <2>1. Range(can) \cap Range(h) = {}
      BY <1>2, <1>3
    <2>2. QED
      BY <1>1, <1>2, <1>3, <2>1, ConcatProperties, RangeConcatenation,
         JoinInjective
  <1>5. InPlay' = InPlay
    BY <1>1 DEF InPlay
  <1>6. Held(back') = Held(t) /\ Aside' = Aside
    <2>1. Held(back') = Held(t)
      BY <1>1 DEF Held
    <2>2. Aside' = Range(can') \cup Held(back')
      BY DEF Aside, Held
    <2>3. QED
      BY <1>3, <1>4, <2>1, <2>2 DEF Aside
  <1>7. TypeOK'
    BY <1>1, <1>3, <1>4 DEF IInv, TypeOK, TestTypeOK
  <1>8. NothingLost'
    <2>1. AllThere'
      BY <1>1, <1>2, <1>5, <1>6 DEF AllThere
    <2>2. NoneTwice'
      BY <1>1, <1>2, <1>3, <1>4, <1>5, <1>6 DEF NoneTwice, Apart
    <2>3. QED
      BY <2>1, <2>2 DEF NothingLost
  <1>9. KeepsEvicting'
    BY <1>1, <1>5 DEF IInv, KeepsEvicting, Evicts
  <1>10. LoopState' /\ Learnt' /\ Verdict'
    BY <1>1 DEF IInv, LoopState, Learnt, Verdict
  <1>11. QED
    BY <1>7, <1>8, <1>9, <1>10 DEF IInv

LEMMA FinalTestInv == IInv /\ FinalTest => IInv'
  <1> SUFFICES ASSUME IInv, FinalTest PROVE IInv'
    OBVIOUS
  <1> USE DEF FinalTest, callVars, testVars
  <1>1. TypeOK'
    BY DEF IInv, TypeOK, TestTypeOK
  <1>2. InPlay' = InPlay
    BY DEF InPlay
  <1>3. NothingLost' /\ KeepsEvicting'
    BY <1>2, SameLines
  <1>4. LoopState' /\ Learnt'
    BY DEF IInv, LoopState, Learnt
  <1>5. Verdict'
    <2>1. PICK ok \in Answers(Range(list)) :
            verdict' = IF ok /\ len <= Target THEN "found" ELSE "failed"
      OBVIOUS
    <2>2. ok => Trusted(Range(list))
      BY <2>1 DEF Answers, Trusted
    <2>3. QED
      BY <2>1, <2>2 DEF Verdict, Trusted, Evicts
  <1>6. QED
    BY <1>1, <1>3, <1>4, <1>5 DEF IInv

LEMMA StepInv == IInv /\ [Next]_vars => IInv'
  <1> SUFFICES ASSUME IInv, [Next]_vars PROVE IInv'
    OBVIOUS
  <1>1. CASE Next
    BY <1>1, NoRecordInv, ShuffleInv, SplitInv, TryInv, RemoveChunkInv,
       BacktrackInv, GiveUpInv, ReducedInv, RecoverInv, FinalTestInv DEF Next
  <1>2. CASE UNCHANGED vars
    <2>1. InPlay' = InPlay
      BY <1>2 DEF vars, callVars, testVars, InPlay
    <2>2. NothingLost' /\ KeepsEvicting'
      BY <1>2, <2>1, SameLines DEF vars, callVars, testVars
    <2>3. TypeOK'
      BY <1>2 DEF IInv, TypeOK, TestTypeOK, vars, callVars, testVars
    <2>4. LoopState' /\ Verdict'
      BY <1>2 DEF IInv, LoopState, Verdict, Trusted, Evicts, vars, callVars,
                  testVars
    <2>5. Learnt'
      BY <1>2 DEF IInv, Learnt, Evicts, vars, callVars, testVars
    <2>6. QED
      BY <2>2, <2>3, <2>4, <2>5 DEF IInv
  <1>3. QED
    BY <1>1, <1>2

(* In every state of gt_eviction() every line is in one of its lists, and  *)
(* the lists, the counters and what the tests have told are as the routine *)
(* takes them to be.                                                       *)
THEOREM Inductive == Spec => []IInv
  <1>1. Init => IInv
    BY InitInv
  <1>2. IInv /\ [Next]_vars => IInv'
    BY StepInv
  <1>3. QED
    BY <1>1, <1>2, PTL DEF Spec

(* Every variable keeps its type.                                          *)
THEOREM TypeCorrect == Spec => []TypeOK
  <1>1. IInv => TypeOK
    BY DEF IInv
  <1>2. QED
    BY <1>1, Inductive, PTL

-----------------------------------------------------------------------------
(***************************************************************************)
(* The counters.  Once the recovery has begun cans is stale.               *)
(***************************************************************************)
Counted == pc \notin {"recover", "done"} => cans = Cardinality(Held(back))

(* Adding a list to lines that have none in common with it.                *)
LEMMA CountBoth ==
  ASSUME NEW S, NEW c \in Seq(Elem), IsFiniteSet(S), IsInjective(c),
         Range(c) \cap S = {}
  PROVE  /\ Cardinality(S \cup Range(c)) = Cardinality(S) + Len(c)
         /\ Cardinality(S) \in Nat /\ Len(c) \in Nat
  <1>1. IsFiniteSet(Range(c)) /\ Cardinality(Range(c)) = Len(c) /\ Len(c) \in Nat
    BY FiniteRange, InjectiveCount, LenProperties
  <1>2. Cardinality(S \cap Range(c)) = 0 /\ Cardinality(S) \in Nat
    BY FS_EmptySet, FS_CardinalityType
  <1>3. Cardinality(S \cup Range(c))
          = Cardinality(S) + Cardinality(Range(c)) - Cardinality(S \cap Range(c))
    BY <1>1, FS_Union
  <1>4. QED
    BY <1>1, <1>2, <1>3

LEMMA FiniteHeld == IInv => IsFiniteSet(Held(back))
  <1> SUFFICES ASSUME IInv PROVE IsFiniteSet(Held(back))
    OBVIOUS
  <1>1. Held(back) \subseteq Range(input) /\ input \in Seq(Elem)
    BY DEF IInv, TypeOK, NothingLost, AllThere, Aside
  <1>2. QED
    BY <1>1, FiniteRange, FS_Subset

LEMMA CountedStep == IInv /\ Counted /\ [Next]_vars => Counted'
  <1> SUFFICES ASSUME IInv, Counted, [Next]_vars PROVE Counted'
    OBVIOUS
  <1>1. IsFiniteSet(Held(back)) /\ back \in Seq(Seq(Elem))
    BY FiniteHeld DEF IInv, TypeOK
  <1>2. CASE RemoveChunk
    <2>1. /\ back' = Append(back, TriedChunk) /\ cans' = cans + Len(TriedChunk)
          /\ TriedChunk \in Seq(Elem) /\ IsInjective(TriedChunk)
          /\ Aside = Held(back) /\ InPlay = base /\ Range(TriedChunk) \subseteq Range(base)
          /\ cans = Cardinality(Held(back))
      BY <1>2, AtDecision DEF RemoveChunk, Counted
    <2>2. Range(TriedChunk) \cap Held(back) = {}
      BY <2>1 DEF IInv, NothingLost, NoneTwice
    <2>3. Held(back') = Held(back) \cup Range(TriedChunk)
      BY <1>1, <2>1, Push
    <2>4. Cardinality(Held(back')) = Cardinality(Held(back)) + Len(TriedChunk)
      BY <1>1, <2>1, <2>2, <2>3, CountBoth
    <2>5. QED
      BY <2>1, <2>4 DEF Counted
  <1>3. CASE Backtrack
    <2> DEFINE top == back[Len(back)]
               rest == SubSeq(back, 1, Len(back) - 1)
    <2>1. /\ back # <<>> /\ back' = rest /\ cans' = cans - Len(top)
          /\ cans = Cardinality(Held(back))
      BY <1>3 DEF Backtrack, Counted
    <2>2. /\ top \in Seq(Elem) /\ Held(back) = Held(rest) \cup Range(top)
          /\ IsInjective(top) /\ Range(top) \cap Held(rest) = {}
      BY <1>1, <2>1, Pop DEF IInv, NothingLost, NoneTwice
    <2>3. IsFiniteSet(Held(rest))
      BY <1>1, <2>2, FS_Subset
    <2> HIDE DEF top, rest
    <2>4. /\ Cardinality(Held(back)) = Cardinality(Held(rest)) + Len(top)
          /\ Cardinality(Held(rest)) \in Nat /\ Len(top) \in Nat
      BY <2>2, <2>3, CountBoth
    <2>5. cans' = Cardinality(Held(back'))
      BY <2>1, <2>4
    <2>6. QED
      BY <2>5 DEF Counted
  <1>4. CASE NoRecord \/ GiveUp \/ Reduced \/ Recover \/ FinalTest
    BY <1>4 DEF NoRecord, GiveUp, Reduced, Recover, FinalTest, Counted
  <1>5. CASE Shuffle \/ Split \/ Try \/ UNCHANGED vars
    <2>1. UNCHANGED <<back, cans>> /\ (pc' \notin {"recover", "done"} =>
                                        pc \notin {"recover", "done"})
      BY <1>5 DEF Shuffle, Split, Try, vars
    <2>2. QED
      BY <2>1 DEF Counted, Held
  <1>6. QED
    BY <1>2, <1>3, <1>4, <1>5 DEF Next

(* At the start of every level len is the length of *ptr and cans the      *)
(* number of lines in back[], however often the routine has backtracked    *)
(* (algorithms.c 244-262).                                                 *)
THEOREM CountsRight == Spec => []Accounting
  <1>1. Init => Counted
    <2> SUFFICES ASSUME Init PROVE cans = Cardinality(Held(back))
      BY DEF Counted
    <2>1. cans = 0 /\ back = <<>>
      BY DEF Init, Entry
    <2>2. Held(back) = {}
      BY <2>1 DEF Held
    <2>3. QED
      BY <2>1, <2>2, FS_EmptySet
  <1>2. IInv /\ Counted /\ [Next]_vars => Counted'
    BY CountedStep
  <1>3. IInv /\ Counted => Accounting
    BY DEF IInv, LoopState, Counted, Accounting
  <1>4. QED
    BY <1>1, <1>2, <1>3, Inductive, PTL DEF Spec

-----------------------------------------------------------------------------
(***************************************************************************)
(* The height bound.                                                       *)
(***************************************************************************)
LEMMA Powers ==
  ASSUME NEW b \in Nat \ {0}
  PROVE  /\ \A h \in Nat : Power(b, h) \in Nat \ {0}
         /\ Power(b, 0) = 1
         /\ \A h \in Nat : Power(b, h + 1) = b * Power(b, h)
  <1> DEFINE S == Nat \ {0}
             times == [k \in Nat |-> [v \in S |-> b * v]]
  <1>1. /\ 1 \in S /\ times \in [Nat -> [S -> S]]
        /\ \A k \in Nat, v \in S : times[k][v] = b * v
    OBVIOUS
  <1> HIDE DEF times
  <1>2. PICK f \in [Nat -> S] : Forever(f, 1, times)
    <2> HIDE DEF S
    <2>1. 1 \in S /\ times \in [Nat -> [S -> S]]
      BY <1>1
    <2>2. QED
      BY <2>1, StepsForever, Zenon
  <1>3. \A k \in Nat : f[k] \in S /\ f[k + 1] = b * f[k]
    BY <1>1, <1>2 DEF Forever
  <1>4. ASSUME NEW h \in Nat PROVE Power(b, h) = f[h]
    <2> DEFINE Eq(p) == p = [k \in 0 .. h |-> IF k = 0 THEN 1 ELSE b * p[k - 1]]
               g == [k \in 0 .. h |-> f[k]]
               p == CHOOSE q : Eq(q)
               T == {k \in Nat : p[k] = f[k]}
    <2>1. Eq(g)
      <3>1. ASSUME NEW k \in 0 .. h
            PROVE  g[k] = IF k = 0 THEN 1 ELSE b * g[k - 1]
        <4>1. CASE k = 0
          BY <1>2, <4>1 DEF Forever
        <4>2. CASE k # 0
          <5>1. k - 1 \in Nat /\ k - 1 \in 0 .. h /\ (k - 1) + 1 = k
            BY <4>2
          <5>2. QED
            BY <1>3, <4>2, <5>1
        <4>3. QED
          BY <4>1, <4>2
      <3>2. QED
        BY <3>1
    <2>2. Eq(p)
      BY <2>1
    <2>3. Power(b, h) = p[h]
      BY DEF Power
    <2> HIDE DEF p, g
    <2>4. 0 \in T
      BY <1>2, <2>2 DEF Forever
    <2>5. ASSUME NEW k \in 0 .. h - 1, k \in T PROVE k + 1 \in T
      <3>1. k + 1 \in 0 .. h /\ k + 1 # 0 /\ (k + 1) - 1 = k /\ k \in Nat /\ k + 1 \in Nat
        OBVIOUS
      <3>2. p[k + 1] = b * p[k]
        BY <2>2, <3>1
      <3>3. QED
        BY <1>3, <2>5, <3>1, <3>2
    <2> HIDE DEF T, Eq
    <2>6. \A k \in 0 .. h : k \in T
      BY <2>4, <2>5, EveryUpTo
    <2>7. h \in 0 .. h
      OBVIOUS
    <2>8. QED
      BY <2>3, <2>6, <2>7 DEF T
  <1> HIDE DEF S
  <1>5. QED
    BY <1>2, <1>3, <1>4 DEF S, Forever

(* Two levels take more than a part in Target + 1 of the list away: the    *)
(* first all but a remainder, the second at least one line.                *)
LEMMA TwoLevels ==
  ASSUME NEW s \in Nat, NEW d \in Nat, NEW e \in Nat, NEW t \in Nat,
         s = t + d + e, d >= s \div Chunks, e >= 1
  PROVE  t * Chunks <= s * Target
  <1> DEFINE q == s \div Chunks
  <1>1. q \in Nat /\ s <= q * Chunks + Target /\ Chunks = Target + 1 /\ Target \in Nat
    <2>1. Chunks \in Nat /\ Chunks > 0 /\ Chunks = Target + 1 /\ Target \in Nat
      BY TargetAssumption DEF Chunks
    <2>2. q \in Nat /\ s = Chunks * q + (s % Chunks) /\ s % Chunks \in 0 .. Chunks - 1
      BY <2>1
    <2> HIDE DEF q
    <2>3. Chunks * q = q * Chunks /\ q * Chunks \in Nat
      BY <2>1, <2>2
    <2>4. QED
      BY <2>1, <2>2, <2>3
  <1> HIDE DEF q
  <1>2. d >= q
    BY DEF q
  <1>3. d + e >= q + 1
    BY <1>1, <1>2
  <1>4. (d + e) * Chunks >= (q + 1) * Chunks
    BY <1>1, <1>3
  <1>5. (q + 1) * Chunks = q * Chunks + Target + 1
    BY <1>1
  <1>6. s <= (d + e) * Chunks
    BY <1>1, <1>4, <1>5
  <1>7. t * Chunks = s * Chunks - (d + e) * Chunks
    BY <1>1
  <1>8. s * Chunks = s * Target + s
    BY <1>1
  <1>9. QED
    BY <1>1, <1>6, <1>7, <1>8

(* The bound is well defined ...                                           *)
LEMMA HeightExists ==
  ASSUME NEW size \in Nat
  PROVE  Height(size) \in Nat /\ EnoughLevels(size, Height(size))
  <1> DEFINE T == {h \in Nat : (Target + h) * Power(Target, h)
                                 <= Target * Power(Chunks, h)}
             E == {h \in 0 .. size : EnoughLevels(size, h)}
  <1>1. Target \in Nat \ {0} /\ Chunks \in Nat \ {0} /\ Chunks = Target + 1
    BY TargetAssumption DEF Chunks
  <1>2. 0 \in T
    BY <1>1, Powers
  <1>3. ASSUME NEW h \in 0 .. size - 1, h \in T PROVE h + 1 \in T
    <2> DEFINE a == Power(Target, h)
               c == Power(Chunks, h)
    <2>1. /\ a \in Nat /\ c \in Nat /\ h \in Nat
          /\ Power(Target, h + 1) = Target * a
          /\ Power(Chunks, h + 1) = Chunks * c
      <3>1. h \in Nat
        OBVIOUS
      <3>2. a \in Nat \ {0} /\ Power(Target, h + 1) = Target * a
        BY <1>1, <3>1, Powers
      <3>3. c \in Nat \ {0} /\ Power(Chunks, h + 1) = Chunks * c
        BY <1>1, <3>1, Powers
      <3>4. QED
        BY <3>1, <3>2, <3>3
    <2>2. (Target + h) * a <= Target * c
      BY <1>3
    <2> HIDE DEF a, c
    <2>3. Chunks * ((Target + h) * a) <= Chunks * (Target * c)
      <3>1. (Target + h) * a \in Nat /\ Target * c \in Nat
        BY <1>1, <2>1
      <3>2. QED
        BY <1>1, <2>2, <3>1
    <2>4. Chunks * (Target * c) = Target * (Chunks * c)
      BY <1>1, <2>1
    <2>5. Chunks * ((Target + h) * a) = (Target + (h + 1)) * (Target * a) + h * a
      BY <1>1, <2>1
    <2>6. h * a \in Nat /\ (Target + (h + 1)) * (Target * a) \in Nat
          /\ Target * (Chunks * c) \in Nat
      BY <1>1, <2>1
    <2>7. (Target + (h + 1)) * (Target * a) <= Target * (Chunks * c)
      BY <2>3, <2>4, <2>5, <2>6
    <2>8. QED
      BY <2>1, <2>7
  <1> HIDE DEF T
  <1>4. size \in T
    <2>1. \A h \in 0 .. size : h \in T
      BY <1>2, <1>3, EveryUpTo
    <2>2. QED
      BY <2>1
  <1>5. size \in E
    <2> DEFINE a == Power(Target, size)
               c == Target * Power(Chunks, size)
    <2>1. a \in Nat /\ c \in Nat /\ (Target + size) * a <= c
      <3>1. Power(Target, size) \in Nat /\ Power(Chunks, size) \in Nat
        BY <1>1, Powers
      <3>2. c \in Nat
        BY <1>1, <3>1
      <3>3. QED
        BY <1>4, <3>1, <3>2 DEF T
    <2> HIDE DEF a, c
    <2>2. (Target + size) * a = size * a + Target * a /\ Target * a \in Nat
          /\ size * a \in Nat
      BY <1>1, <2>1
    <2>3. size * a <= c
      BY <2>1, <2>2
    <2>4. QED
      BY <2>3 DEF EnoughLevels, a, c
  <1>6. \E h \in E : \A g \in 0 .. h - 1 : g \notin E
    <2> DEFINE F == {h \in Nat : \A g \in 0 .. h : g \notin E}
    <2> SUFFICES ASSUME \A h \in E : \E g \in 0 .. h - 1 : g \in E PROVE FALSE
      OBVIOUS
    <2>1. 0 \in F
      <3>1. 0 \notin E
        BY <1>1
      <3>2. QED
        BY <3>1
    <2>2. ASSUME NEW h \in 0 .. size - 1, h \in F PROVE h + 1 \in F
      <3>1. h + 1 \notin E
        BY <2>2
      <3>2. QED
        BY <2>2, <3>1
    <2> HIDE DEF F, E
    <2>3. \A h \in 0 .. size : h \in F
      BY <2>1, <2>2, EveryUpTo
    <2>4. QED
      BY <1>5, <2>3 DEF F
  <1>7. \E h \in 0 .. size : /\ EnoughLevels(size, h)
                             /\ \A g \in 0 .. h - 1 : ~EnoughLevels(size, g)
    <2>1. PICK h \in E : \A g \in 0 .. h - 1 : g \notin E
      BY <1>6
    <2>2. ASSUME NEW g \in 0 .. h - 1 PROVE ~EnoughLevels(size, g)
      <3>1. g \in 0 .. size
        BY <2>1
      <3>2. QED
        BY <2>1, <3>1
    <2>3. QED
      BY <2>1, <2>2
  <1>8. Height(size) \in 0 .. size /\ EnoughLevels(size, Height(size))
    BY <1>7 DEF Height
  <1>9. QED
    BY <1>8

-----------------------------------------------------------------------------
(* How long the list was when each of the chunks in back[] left it.        *)
Ladder(size) == \A j \in 1 .. Len(back) :
                  /\ size[j - 1] > Target
                  /\ size[j - 1] = size[j] + Len(back[j])
                  /\ Len(back[j]) >= size[j - 1] \div Chunks

Levels == \E size \in [0 .. Len(back) -> Nat] :
            /\ size[0] = Len(input) /\ size[Len(back)] = Len(InPlay)
            /\ Ladder(size)

Enough == /\ Len(back) <= Room
          /\ pc \notin {"recover", "done"} => Levels

(* With a list that is still too long there is room for one more chunk.    *)
LEMMA RoomForOneMore ==
  ASSUME IInv, Levels, Len(InPlay) > Target
  PROVE  Len(back) + 1 <= Room
  <1> DEFINE k == Len(back)
             l == Len(input)
             h == Height(l)
  <1>1. k \in Nat /\ l \in Nat /\ h \in Nat /\ EnoughLevels(l, h)
    BY LenProperties, HeightExists DEF IInv, TypeOK
  <1>2. /\ Target \in Nat \ {0} /\ Chunks \in Nat \ {0} /\ Chunks = Target + 1
    BY TargetAssumption DEF Chunks
  <1>3. PICK size \in [0 .. k -> Nat] :
          size[0] = l /\ size[k] = Len(InPlay) /\ Ladder(size)
    BY DEF Levels
  <1> HIDE DEF k, l, h
  <1>4. \A j \in 0 .. k : size[j] \in Nat /\ size[j] > Target
    <2> SUFFICES ASSUME NEW j \in 0 .. k PROVE size[j] > Target
      BY <1>3
    <2>1. CASE j = k
      BY <1>3, <2>1
    <2>2. CASE j # k
      <3>1. j + 1 \in 1 .. k /\ (j + 1) - 1 = j
        BY <1>1, <2>2
      <3>2. QED
        BY <1>3, <3>1 DEF Ladder, k
    <2>3. QED
      BY <2>1, <2>2
  <1> SUFFICES ASSUME ~(k < 2 * h) PROVE FALSE
    BY <1>1 DEF Room, k, h, l
  <1> DEFINE T == {j \in Nat : size[2 * j] * Power(Chunks, j)
                                 <= l * Power(Target, j)}
  <1>5. 0 \in T
    <2>1. Power(Chunks, 0) = 1 /\ Power(Target, 0) = 1 /\ 2 * 0 = 0
      BY <1>2, Powers
    <2>2. QED
      BY <1>1, <1>3, <2>1
  <1>6. ASSUME NEW j \in 0 .. h - 1, j \in T PROVE j + 1 \in T
    <2> DEFINE s == size[2 * j]
               t == size[2 * j + 2]
               a == Power(Target, j)
               c == Power(Chunks, j)
    <2>1. /\ j \in Nat /\ 2 * j \in 0 .. k /\ 2 * j + 1 \in 1 .. k /\ 2 * j + 2 \in 1 .. k
          /\ 2 * (j + 1) = 2 * j + 2 /\ (2 * j + 1) - 1 = 2 * j
          /\ (2 * j + 2) - 1 = 2 * j + 1
      BY <1>1
    <2>2. /\ a \in Nat /\ Power(Target, j + 1) = Target * a
      BY <1>2, <2>1, Powers
    <2>3. /\ c \in Nat /\ Power(Chunks, j + 1) = Chunks * c
      BY <1>2, <2>1, Powers
    <2>4. t * Chunks <= s * Target
      <3> DEFINE d == Len(back[2 * j + 1])
                 e == Len(back[2 * j + 2])
                 u == size[2 * j + 1]
      <3>1. d \in Nat /\ e \in Nat
        <4>1. back \in Seq(Seq(Elem)) /\ \A i \in 1 .. k : back[i] \in Seq(Elem)
          BY ElementOfSeq DEF IInv, TypeOK, k
        <4>2. QED
          BY <2>1, <4>1, LenProperties
      <3>2. s \in Nat /\ t \in Nat /\ u \in Nat /\ u > Target
        BY <1>4, <2>1
      <3>3. s = u + d /\ d >= s \div Chunks
        BY <1>3, <2>1 DEF Ladder, k
      <3>4. u = t + e /\ e >= u \div Chunks
        BY <1>3, <2>1 DEF Ladder, k
      <3> HIDE DEF d, e, u, s, t
      <3>5. u \div Chunks >= 1
        <4> DEFINE q == u \div Chunks
        <4>1. q \in Nat /\ u = Chunks * q + (u % Chunks) /\ u % Chunks \in 0 .. Chunks - 1
          <5>1. Chunks > 0
            BY <1>2
          <5>2. QED
            BY <1>2, <3>2, <5>1
        <4> HIDE DEF q
        <4>2. q # 0
          BY <1>2, <3>2, <4>1
        <4>3. QED
          BY <4>1, <4>2 DEF q
      <3>6. s = t + d + e /\ e >= 1
        BY <3>1, <3>2, <3>3, <3>4, <3>5, <1>2
      <3>7. QED
        BY <3>1, <3>2, <3>3, <3>6, TwoLevels
    <2>5. s * c <= l * a
      BY <1>6
    <2>6. s \in Nat /\ t \in Nat
      BY <1>4, <2>1
    <2> HIDE DEF s, t, a, c
    <2>7. (t * Chunks) * c <= (s * Target) * c
      BY <1>2, <2>3, <2>4, <2>6
    <2>8. (s * c) * Target <= (l * a) * Target
      <3>1. s * c \in Nat /\ l * a \in Nat
        BY <1>1, <2>2, <2>3, <2>6
      <3>2. QED
        BY <1>2, <2>5, <3>1
    <2>9. /\ (t * Chunks) * c = t * (Chunks * c) /\ (s * Target) * c = (s * c) * Target
          /\ (l * a) * Target = l * (Target * a)
          /\ t * (Chunks * c) \in Nat /\ (s * c) * Target \in Nat
          /\ l * (Target * a) \in Nat
      BY <1>1, <1>2, <2>2, <2>3, <2>6
    <2>10. t * (Chunks * c) <= l * (Target * a)
      BY <2>7, <2>8, <2>9
    <2>11. QED
      BY <2>1, <2>2, <2>3, <2>10 DEF t
  <1> HIDE DEF T
  <1>7. h \in T
    <2>1. \A j \in 0 .. h : j \in T
      BY <1>1, <1>5, <1>6, EveryUpTo
    <2>2. QED
      BY <1>1, <2>1
  <1>8. QED
    <2> DEFINE s == size[2 * h]
               c == Power(Chunks, h)
               a == Power(Target, h)
    <2>1. s * c <= l * a /\ l * a <= Target * c
      BY <1>1, <1>7 DEF T, EnoughLevels
    <2>2. s \in Nat /\ s > Target
      <3>1. 2 * h \in 0 .. k
        BY <1>1
      <3>2. QED
        BY <1>4, <3>1
    <2>3. a \in Nat /\ c \in Nat \ {0}
      BY <1>1, <1>2, Powers
    <2> HIDE DEF s, a, c
    <2>4. s * c > Target * c
      BY <1>2, <2>2, <2>3
    <2>5. s * c \in Nat /\ l * a \in Nat /\ Target * c \in Nat
      BY <1>1, <1>2, <2>2, <2>3
    <2>6. QED
      BY <2>1, <2>4, <2>5

LEMMA Share == ASSUME NEW l \in Nat, NEW m \in Nat, m > 0
               PROVE  l \div m \in Nat /\ (l \div m) * m <= l
  <1> DEFINE k == l \div m
  <1>1. k \in Nat /\ l = m * k + (l % m) /\ l % m \in 0 .. m - 1
    OBVIOUS
  <1> HIDE DEF k
  <1>2. m * k = k * m /\ k * m \in Nat
    BY <1>1
  <1>3. k \in Nat /\ k * m <= l
    BY <1>1, <1>2
  <1>4. QED
    BY <1>3 DEF k

LEMMA OneTimesMore ==
  ASSUME NEW m \in Nat \ {0}, NEW k \in Nat
  PROVE  (m - 1) * k \in Nat /\ m * k = (m - 1) * k + k /\ k * m = (m - 1) * k + k
  OBVIOUS

(* Every chunk has at least its share of the lines, rounded down.          *)
LEMMA ChunkSize ==
  ASSUME NEW s \in Seq(Elem), NEW j \in 1 .. Chunks
  PROVE  Len(Chunk(s, j)) >= Len(s) \div Chunks
  <1> DEFINE k == Len(s) \div Chunks
  <1>1. Len(s) \in Nat /\ Chunks \in Nat \ {0} /\ Chunks > 0 /\ j \in Nat
    BY ChunksType
  <1>2. k \in Nat /\ k * Chunks <= Len(s)
    BY <1>1, Share
  <1>3. (j - 1) * k \in Nat /\ j * k = (j - 1) * k + k /\ k * Chunks = (Chunks - 1) * k + k
    <2> HIDE DEF k
    <2>1. j \in Nat \ {0}
      BY <1>1
    <2>2. QED
      BY <1>1, <1>2, <2>1, OneTimesMore
  <1>4. Len(Chunk(s, j)) = Final(s, j) - First(s, j) + 1
    BY Bounds, Excerpt DEF Chunk
  <1> HIDE DEF k
  <1>5. /\ First(s, j) = (j - 1) * k + 1
        /\ j # Chunks => Final(s, j) = j * k
        /\ j = Chunks => Final(s, j) = Len(s)
    BY DEF First, Final, k
  <1>6. Len(Chunk(s, j)) >= k
    BY <1>1, <1>2, <1>3, <1>4, <1>5
  <1>7. QED
    BY <1>6 DEF k

LEMMA EnoughStep == IInv /\ Enough /\ [Next]_vars => Enough'
  <1> SUFFICES ASSUME IInv, Enough, [Next]_vars PROVE Enough'
    OBVIOUS
  <1>1. /\ back \in Seq(Seq(Elem)) /\ Len(back) \in Nat /\ Room \in Nat
    <2>1. Len(input) \in Nat /\ Len(back) \in Nat
      BY LenProperties DEF IInv, TypeOK
    <2>2. QED
      <3>1. Height(Len(input)) \in Nat
        BY <2>1, HeightExists
      <3>2. QED
        BY <2>1, <3>1 DEF Room, IInv, TypeOK
  <1>2. Room' = Room
    <2>1. input' = input
      BY DEF Next, NoRecord, Shuffle, Split, Try, RemoveChunk, Backtrack, GiveUp,
             Reduced, Recover, FinalTest, callVars, vars
    <2>2. QED
      BY <2>1 DEF Room
  <1>3. CASE RemoveChunk
    <2>1. /\ pc = "decide" /\ back' = Append(back, TriedChunk) /\ list' = list
          /\ pc' = "reduce" /\ input' = input /\ n > 0
      BY <1>3 DEF RemoveChunk, callVars, IInv, LoopState
    <2>2. /\ TriedChunk \in Seq(Elem) /\ Len(TriedChunk) + Len(list) = Len(base)
          /\ InPlay = base /\ Len(base) > Target /\ Len(TriedChunk) \in Nat
          /\ list \in Seq(Elem) /\ Len(list) \in Nat /\ base \in Seq(Elem)
      BY <2>1, AtDecision, LenProperties DEF IInv, LoopState
    <2>3. Levels
      BY <2>1 DEF Enough
    <2>4. /\ Len(back') = Len(back) + 1 /\ back'[Len(back) + 1] = TriedChunk
          /\ \A j \in 1 .. Len(back) : back'[j] = back[j]
      BY <1>1, <2>1, <2>2, AppendProperties
    <2>5. Len(back') <= Room
      BY <2>2, <2>3, <2>4, RoomForOneMore
    <2>6. Len(TriedChunk) >= Len(base) \div Chunks
      <3>1. order[n] \in 1 .. Chunks
        <4>1. n \in 1 .. Chunks /\ order \in Orders
          BY <2>1, ChunksType DEF IInv, TypeOK
        <4>2. QED
          BY <4>1, OrderType
      <3>2. QED
        BY <2>2, <3>1, ChunkSize DEF TriedChunk
    <2>7. Levels'
      <3>1. PICK size \in [0 .. Len(back) -> Nat] :
              /\ size[0] = Len(input) /\ size[Len(back)] = Len(base)
              /\ Ladder(size)
        BY <2>2, <2>3 DEF Levels
      <3> DEFINE k == Len(back)
                 more == [j \in 0 .. k + 1 |-> IF j = k + 1 THEN Len(list) ELSE size[j]]
      <3>2. /\ more \in [0 .. k + 1 -> Nat] /\ more[k + 1] = Len(list)
            /\ \A j \in 0 .. k : more[j] = size[j]
        <4>1. \A j \in 0 .. k + 1 : j # k + 1 => j \in 0 .. k
          BY <1>1
        <4>2. \A j \in 0 .. k : j \in 0 .. k + 1 /\ j # k + 1
          BY <1>1
        <4>3. k + 1 \in 0 .. k + 1
          BY <1>1
        <4>4. QED
          BY <2>2, <4>1, <4>2, <4>3
      <3> HIDE DEF more
      <3>3. ASSUME NEW j \in 1 .. k + 1
            PROVE  /\ more[j - 1] > Target
                   /\ more[j - 1] = more[j] + Len(back'[j])
                   /\ Len(back'[j]) >= more[j - 1] \div Chunks
        <4>1. CASE j = k + 1
          <5>1. more[j - 1] = Len(base) /\ more[j] = Len(list) /\ back'[j] = TriedChunk
            <6>1. j - 1 = k /\ k \in 0 .. k
              BY <1>1, <4>1
            <6>2. QED
              BY <2>4, <3>1, <3>2, <4>1, <6>1
          <5>2. QED
            BY <2>2, <2>6, <5>1
        <4>2. CASE j # k + 1
          <5>1. j \in 1 .. k /\ j \in 0 .. k /\ j - 1 \in 0 .. k
            BY <1>1, <4>2
          <5>2. QED
            BY <2>4, <3>1, <3>2, <5>1 DEF Ladder
        <4>3. QED
          BY <4>1, <4>2
      <3>4. InPlay' = list
        BY <2>1 DEF InPlay
      <3>5. more[0] = Len(input')
        <4>1. 0 \in 0 .. k
          BY <1>1
        <4>2. QED
          BY <2>1, <3>1, <3>2, <4>1
      <3>6. QED
        BY <2>4, <3>2, <3>3, <3>4, <3>5 DEF Levels, Ladder
    <2>8. QED
      BY <1>2, <2>5, <2>7 DEF Enough
  <1>4. CASE Backtrack
    <2> DEFINE k == Len(back)
               top == back[Len(back)]
               rest == SubSeq(back, 1, Len(back) - 1)
    <2>1. /\ pc = "decide" /\ back # <<>> /\ back' = rest /\ input' = input
          /\ list' = (list \o TriedChunk) \o top /\ pc' \in {"again", "recover"}
      BY <1>4 DEF Backtrack, callVars
    <2>2. /\ top \in Seq(Elem) /\ Len(rest) = k - 1 /\ k \in Nat /\ k > 0
          /\ \A j \in 1 .. k - 1 : rest[j] = back[j]
      <3>1. k > 0 /\ Len(rest) = k - 1 /\ top \in Seq(Elem)
        BY <1>1, <2>1, Pop, EmptySeq
      <3>2. 1 \in 1 .. k + 1 /\ k - 1 \in 1 - 1 .. k
        BY <1>1, <3>1
      <3>3. \A j \in 1 .. (k - 1) - 1 + 1 : rest[j] = back[1 + j - 1]
        BY <1>1, <3>2, Excerpt
      <3>4. QED
        BY <1>1, <3>1, <3>3
    <2>3. /\ list \o TriedChunk \in Seq(Elem) /\ Len(list \o TriedChunk) = Len(base)
          /\ InPlay = base /\ base \in Seq(Elem)
      BY <2>1, Rejoined, AtDecision
    <2>4. Len(list') = Len(base) + Len(top) /\ Len(base) \in Nat /\ Len(top) \in Nat
      <3> HIDE DEF top
      <3>1. Len(list') = Len(list \o TriedChunk) + Len(top)
        BY <2>1, <2>2, <2>3, ConcatProperties
      <3>2. QED
        BY <2>2, <2>3, <3>1, LenProperties
    <2> HIDE DEF top, rest
    <2>5. Len(back') <= Room
      BY <1>1, <2>1, <2>2 DEF Enough
    <2>6. Levels'
      <3>1. PICK size \in [0 .. k -> Nat] :
              /\ size[0] = Len(input) /\ size[k] = Len(base) /\ Ladder(size)
        BY <2>1, <2>3 DEF Levels, Enough
      <3> DEFINE fewer == [j \in 0 .. k - 1 |-> size[j]]
      <3>2. fewer \in [0 .. k - 1 -> Nat] /\ \A j \in 0 .. k - 1 : fewer[j] = size[j]
        <4>1. \A j \in 0 .. k - 1 : j \in 0 .. k
          BY <2>2
        <4>2. QED
          BY <4>1
      <3> HIDE DEF fewer
      <3>3. size[k - 1] = Len(list')
        <4>1. k \in 1 .. k
          BY <2>2
        <4>2. size[k - 1] = Len(base) + Len(back[k])
          BY <3>1, <4>1 DEF Ladder
        <4>3. QED
          BY <2>4, <4>2 DEF top
      <3>4. ASSUME NEW j \in 1 .. k - 1
            PROVE  /\ fewer[j - 1] > Target
                   /\ fewer[j - 1] = fewer[j] + Len(back'[j])
                   /\ Len(back'[j]) >= fewer[j - 1] \div Chunks
        <4>1. j \in 1 .. k /\ j \in 0 .. k - 1 /\ j - 1 \in 0 .. k - 1
          BY <2>2
        <4>2. back'[j] = back[j]
          BY <2>1, <2>2
        <4>3. QED
          BY <3>1, <3>2, <4>1, <4>2 DEF Ladder
      <3>5. InPlay' = list'
        BY <2>1 DEF InPlay
      <3>6. fewer[0] = Len(input') /\ fewer[k - 1] = Len(list')
        <4>1. 0 \in 0 .. k - 1 /\ k - 1 \in 0 .. k - 1
          BY <2>2
        <4>2. QED
          BY <2>1, <3>1, <3>2, <3>3, <4>1
      <3>7. Len(back') = k - 1
        BY <2>1, <2>2
      <3>8. QED
        BY <3>2, <3>4, <3>5, <3>6, <3>7 DEF Levels, Ladder
    <2>7. QED
      BY <1>2, <2>5, <2>6 DEF Enough
  <1>5. CASE Recover
    <2>1. back # <<>> /\ back' = Tail(back) /\ pc' = "recover"
      BY <1>5 DEF Recover
    <2>2. Len(back') = Len(back) - 1
      BY <1>1, <2>1, HeadTailProperties
    <2>3. QED
      BY <1>1, <1>2, <2>1, <2>2 DEF Enough
  <1>6. CASE NoRecord \/ GiveUp \/ Reduced \/ FinalTest
    BY <1>2, <1>6 DEF NoRecord, GiveUp, Reduced, FinalTest, Enough
  <1>7. CASE Shuffle \/ Split \/ Try \/ UNCHANGED vars
    <2>1. UNCHANGED <<input, back>> /\ (pc' \notin {"recover", "done"} =>
                                          pc \notin {"recover", "done"})
      BY <1>7 DEF Shuffle, Split, Try, callVars, vars
    <2>2. InPlay' = InPlay
      BY <1>7 DEF Shuffle, Split, Try, vars, InPlay
    <2>3. QED
      BY <1>2, <2>1, <2>2 DEF Enough, Levels, Ladder
  <1>8. QED
    BY <1>3, <1>4, <1>5, <1>6, <1>7 DEF Next

LEMMA EnoughAtFirst == Entry => Enough
  <1> SUFFICES ASSUME Entry PROVE Enough
    OBVIOUS
  <1>1. back = <<>> /\ pc = "start" /\ list = input /\ input \in Seq(Elem)
    BY CandidatesAssumption DEF Entry
  <1>2. Len(back) = 0 /\ Len(input) \in Nat
    BY <1>1, LenProperties
  <1>3. Room \in Nat
    BY <1>2, HeightExists DEF Room
  <1>4. Levels
    <2> DEFINE size == [j \in 0 .. 0 |-> Len(input)]
    <2>1. size \in [0 .. 0 -> Nat] /\ size[0] = Len(input)
      BY <1>2
    <2>2. InPlay = input
      BY <1>1 DEF InPlay
    <2> HIDE DEF size
    <2>3. QED
      BY <1>2, <2>1, <2>2 DEF Levels, Ladder
  <1>5. QED
    BY <1>2, <1>3, <1>4 DEF Enough

(* back[] never needs more than the 2h slots that gt_eviction() reserves,  *)
(* whatever the tests answer and however often it backtracks: the question *)
(* of algorithms.c 200, "TODO: check height bound".                        *)
THEOREM HeightSuffices == Spec => []HeightBound
  <1>1. Init => Enough
    BY EnoughAtFirst DEF Init
  <1>2. IInv /\ Enough /\ [Next]_vars => Enough'
    BY EnoughStep
  <1>3. Enough => HeightBound
    BY DEF Enough, HeightBound
  <1>4. QED
    BY <1>1, <1>2, <1>3, Inductive, PTL DEF Spec

(* No line is lost and none linked twice, whatever the tests answer and    *)
(* however often the routine backtracks.                                   *)
THEOREM LosesNothing == Spec => []NothingLost
  <1>1. IInv => NothingLost
    BY DEF IInv
  <1>2. QED
    BY <1>1, Inductive, PTL

(* With exact timing the lines in play always evict.                       *)
THEOREM StaysEvicting == Spec => []KeepsEvicting
  <1>1. IInv => KeepsEvicting
    BY DEF IInv
  <1>2. QED
    BY <1>1, Inductive, PTL

(* A zero return is a minimal eviction set.                                *)
THEOREM MinimalWhenFound == Spec => []FoundIsMinimal
  <1>1. ASSUME IInv, verdict = "found" PROVE Len(list) <= Target
    BY <1>1 DEF IInv, Verdict, LoopState
  <1>2. ASSUME IInv, verdict = "found", ~noisy
        PROVE  /\ Evicts(Range(list))
               /\ \A e \in Range(list) : ~Evicts(Range(list) \ {e})
    <2>1. Evicts(Range(list))
      BY <1>2 DEF IInv, Verdict, Trusted
    <2>2. /\ IsFiniteSet(Range(list)) /\ Cardinality(Range(list)) \in Nat
          /\ Cardinality(Range(list)) <= Len(list) /\ Len(list) \in Nat
      BY <1>2, FiniteRange, LenProperties DEF IInv, TypeOK
    <2>3. ASSUME NEW e \in Range(list) PROVE ~Evicts(Range(list) \ {e})
      <3>1. /\ IsFiniteSet(Range(list) \ {e})
            /\ Cardinality(Range(list) \ {e}) = Cardinality(Range(list)) - 1
        BY <2>2, FS_RemoveElement
      <3>2. Cardinality(Range(list) \ {e}) < Target
        BY <1>1, <1>2, <2>2, <3>1, TargetAssumption
      <3>3. Cardinality(Range(list) \ {e}) \in Nat
        BY <3>1, FS_CardinalityType
      <3>4. QED
        BY <3>1, <3>2, <3>3, EvictsSize, TargetAssumption
    <2>4. QED
      BY <2>1, <2>3
  <1>3. IInv => FoundIsMinimal
    BY <1>1, <1>2 DEF FoundIsMinimal
  <1>4. QED
    BY <1>3, Inductive, PTL

-----------------------------------------------------------------------------
(***************************************************************************)
(* The argument group testing stands on: of Target + 1 chunks, Target      *)
(* lines of one group leave at least one free.                             *)
(***************************************************************************)
(* Two chunks have no position in common.                                  *)
LEMMA ChunksApart ==
  ASSUME NEW s \in Seq(Elem), NEW j \in 1 .. Chunks, NEW k \in 1 .. Chunks,
         j # k
  PROVE  Range(Chunk(s, j)) \subseteq Range(Without(s, k))
  <1> DEFINE q == Len(s) \div Chunks
             a == First(s, j)
             b == Final(s, j)
             c == First(s, k)
             d == Final(s, k)
  <1>1. /\ Len(s) \in Nat /\ a \in 1 .. Len(s) + 1 /\ b \in a - 1 .. Len(s)
        /\ c \in 1 .. Len(s) + 1 /\ d \in c - 1 .. Len(s)
    BY Bounds, LenProperties
  <1>2. b <= c - 1 \/ d <= a - 1
    <2>1. q \in Nat /\ j \in Nat /\ k \in Nat /\ Chunks \in Nat
      <3>1. Len(s) \in Nat /\ Chunks \in Nat \ {0} /\ j \in Nat /\ k \in Nat
        BY ChunksType, LenProperties
      <3> HIDE DEF a, b, c, d
      <3>2. QED
        BY <3>1
    <2> HIDE DEF q
    <2>2. CASE j < k
      <3>1. b = j * q /\ c = (k - 1) * q + 1
        BY <2>2, ChunksType DEF First, Final, q
      <3>2. j * q <= (k - 1) * q
        BY <2>1, <2>2
      <3>3. j * q \in Nat /\ (k - 1) * q \in Int
        BY <2>1
      <3>4. QED
        BY <3>1, <3>2, <3>3
    <2>3. CASE k < j
      <3>1. d = k * q /\ a = (j - 1) * q + 1
        BY <2>3, ChunksType DEF First, Final, q
      <3>2. k * q <= (j - 1) * q
        BY <2>1, <2>3
      <3>3. k * q \in Nat /\ (j - 1) * q \in Int
        BY <2>1
      <3>4. QED
        BY <3>1, <3>2, <3>3
    <2>4. QED
      BY <2>1, <2>2, <2>3
  <1> HIDE DEF a, b, c, d
  <1>3. Range(SubSeq(s, a, b)) = {s[i] : i \in a .. b}
    BY <1>1, SliceRange
  <1>4. /\ d + 1 \in 1 .. Len(s) + 1 /\ Len(s) \in (d + 1) - 1 .. Len(s)
        /\ 1 \in 1 .. Len(s) + 1 /\ c - 1 \in 1 - 1 .. Len(s)
    BY <1>1
  <1>5. /\ Range(SubSeq(s, d + 1, Len(s))) = {s[i] : i \in d + 1 .. Len(s)}
        /\ Range(SubSeq(s, 1, c - 1)) = {s[i] : i \in 1 .. c - 1}
    BY <1>4, SliceRange
  <1>6. SubSeq(s, d + 1, Len(s)) \in Seq(Elem) /\ SubSeq(s, 1, c - 1) \in Seq(Elem)
    BY <1>4, Excerpt
  <1>7. Range(Without(s, k)) = {s[i] : i \in d + 1 .. Len(s)}
                                 \cup {s[i] : i \in 1 .. c - 1}
    <2>1. Without(s, k) = SubSeq(s, d + 1, Len(s)) \o SubSeq(s, 1, c - 1)
      BY DEF Without, c, d
    <2> DEFINE tail == SubSeq(s, d + 1, Len(s))
               front == SubSeq(s, 1, c - 1)
    <2>2. tail \in Seq(Elem) /\ front \in Seq(Elem)
      BY <1>6
    <2> HIDE DEF tail, front
    <2>3. Range(tail \o front) = Range(tail) \cup Range(front)
      BY <2>2, RangeConcatenation
    <2>4. QED
      BY <1>5, <2>1, <2>3, Zenon DEF tail, front
  <1>8. a .. b \subseteq (d + 1 .. Len(s)) \cup (1 .. c - 1)
    BY <1>1, <1>2
  <1>9. Chunk(s, j) = SubSeq(s, a, b)
    BY DEF Chunk, a, b
  <1>10. QED
    BY <1>3, <1>7, <1>8, <1>9

(* Some chunk can be left out of a list that evicts.                       *)
THEOREM SomeRemovable ==
  ASSUME NEW s \in Seq(Elem), Evicts(Range(s))
  PROVE  \E j \in 1 .. Chunks : Evicts(Range(Without(s, j)))
  <1> SUFFICES ASSUME \A j \in 1 .. Chunks : ~Evicts(Range(Without(s, j)))
               PROVE  FALSE
    OBVIOUS
  <1>1. PICK g \in groups : Cardinality(Range(s) \cap g) >= Target
    BY DEF Evicts
  <1> DEFINE G == Range(s) \cap g
             N == Cardinality(G)
  <1>2. IsFiniteSet(G) /\ N \in Nat /\ ExistsBijection(1 .. N, G)
    BY FiniteRange, FS_Intersection, FS_CardinalityType
  <1>3. PICK f \in Bijection(1 .. N, G) : TRUE
    BY <1>2 DEF ExistsBijection
  <1> HIDE DEF G, N
  <1>4. 1 .. Target \subseteq 1 .. N /\ Target \in Nat
    BY <1>1, <1>2, TargetAssumption DEF G, N
  <1>5. /\ \A i \in 1 .. Target : f[i] \in G
        /\ \A i, j \in 1 .. Target : f[i] = f[j] => i = j
    BY <1>3, <1>4 DEF Bijection, Injection, IsInjective
  <1>6. ASSUME NEW j \in 1 .. Chunks
        PROVE  \E i \in 1 .. Target : f[i] \notin Range(Without(s, j))
    <2> SUFFICES ASSUME \A i \in 1 .. Target : f[i] \in Range(Without(s, j))
                 PROVE  FALSE
      OBVIOUS
    <2> DEFINE W == Range(Without(s, j)) \cap g
               r == [i \in 1 .. Target |-> f[i]]
    <2>1. IsFiniteSet(W)
      BY ChunkSplits, FiniteRange, FS_Intersection
    <2>2. r \in Injection(1 .. Target, W)
      BY <1>5 DEF Injection, IsInjective, G
    <2>3. Cardinality(1 .. Target) = Target
      BY <1>4, FS_Interval
    <2>4. Cardinality(W) >= Target
      BY <2>1, <2>2, <2>3, FS_Injection, FS_CardinalityType
    <2>5. QED
      BY <2>4 DEF Evicts
  <1> DEFINE m == [j \in 1 .. Chunks |->
                     CHOOSE i \in 1 .. Target : f[i] \notin Range(Without(s, j))]
  <1>7. /\ m \in [1 .. Chunks -> 1 .. Target]
        /\ \A j \in 1 .. Chunks : f[m[j]] \notin Range(Without(s, j))
    BY <1>6
  <1>8. /\ IsFiniteSet(1 .. Chunks) /\ Cardinality(1 .. Chunks) = Chunks
        /\ IsFiniteSet(1 .. Target) /\ Cardinality(1 .. Target) = Target
        /\ Target < Chunks
    BY <1>4, ChunksType, FS_Interval DEF Chunks
  <1> HIDE DEF m
  <1>9. PICK j \in 1 .. Chunks, k \in 1 .. Chunks : j # k /\ m[j] = m[k]
    <2>1. Cardinality(1 .. Target) < Cardinality(1 .. Chunks)
      BY <1>8
    <2>2. QED
      BY <1>7, <1>8, <2>1, FS_PigeonHole
  <1>10. f[m[j]] \in Range(s)
    BY <1>5, <1>7 DEF G
  <1>11. f[m[j]] \in Range(Chunk(s, j))
    <2>1. Range(Chunk(s, j)) \cup Range(Without(s, j)) = Range(s)
      BY ChunkSplits
    <2>2. QED
      BY <1>7, <1>10, <2>1
  <1>12. QED
    BY <1>7, <1>9, <1>11, ChunksApart

(* With exact timing the loop over the chunks ends with a positive test.   *)
THEOREM ChunkAlwaysGoes == Spec => []SomeChunkGoes
  <1>1. IInv => SomeChunkGoes
    <2> SUFFICES ASSUME IInv, ~noisy, Evicts(Range(input)), pc = "decide", ~ret
                 PROVE  FALSE
      BY DEF SomeChunkGoes
    <2>1. n = Chunks /\ order \in Orders /\ base \in Seq(Elem)
      BY DEF IInv, TypeOK, LoopState
    <2>2. Evicts(Range(base))
      BY DEF IInv, KeepsEvicting, InPlay
    <2>3. PICK j \in 1 .. Chunks : Evicts(Range(Without(base, j)))
      BY <2>1, <2>2, SomeRemovable
    <2>4. order \in Surjection(1 .. Chunks, 1 .. Chunks)
      <3>1. IsFiniteSet(1 .. Chunks)
        BY ChunksType, FS_Interval
      <3>2. QED
        BY <2>1, <3>1, FS_Injection DEF Orders
    <2>5. PICK m \in 1 .. Chunks : order[m] = j
      BY <2>4 DEF Surjection
    <2>6. QED
      BY <2>1, <2>3, <2>5 DEF IInv, Learnt
  <1>2. QED
    BY <1>1, Inductive, PTL

-----------------------------------------------------------------------------
(***************************************************************************)
(* gt_eviction() is a reduction in the sense of module Reduction.          *)
(***************************************************************************)
LEMMA SameCount ==
  ASSUME NEW S
  PROVE  Contract!Cardinality(S) = Cardinality(S)
  BY DEF Cardinality, Contract!Cardinality, IsFiniteSet, Contract!IsFiniteSet

LEMMA SameTrust ==
  ASSUME NEW S
  PROVE  /\ Contract!Evicts(S) <=> Evicts(S)
         /\ Contract!Trusted(S) <=> Trusted(S)
  BY SameCount DEF Evicts, Trusted, Contract!Evicts, Contract!Trusted

LEMMA InitRefines == Init => Contract!Init
  <1> SUFFICES ASSUME Init PROVE Contract!Init
    OBVIOUS
  <1>1. TypeOK /\ InPlay = list /\ can = <<>> /\ back = <<>>
    BY InitInv DEF Init, Entry, IInv, InPlay
  <1>2. Range(InPlay) \subseteq Elem
    BY <1>1, RangeOfSeq DEF TypeOK
  <1>3. Aside = {}
    BY <1>1 DEF Aside, Held, Range
  <1>4. Contract!TestTypeOK
    BY <1>1 DEF TypeOK, TestTypeOK, Contract!TestTypeOK
  <1>5. QED
    BY <1>2, <1>3, <1>4 DEF Init, Entry, Contract!Init

LEMMA StepRefines == IInv /\ [Next]_vars => [Contract!Next]_(Contract!vars)
  <1> SUFFICES ASSUME IInv, [Next]_vars
               PROVE  Contract!Next \/ UNCHANGED Contract!vars
    BY Zenon
  <1>1. IInv'
    BY StepInv
  <1> USE DEF callVars, testVars
  <1>2. ASSUME Range(InPlay)' = Range(InPlay), Aside' = Aside,
               UNCHANGED <<verdict, testVars>>
        PROVE  UNCHANGED Contract!vars
    BY <1>2 DEF Contract!vars
  <1>3. ASSUME UNCHANGED <<can, back, verdict, testVars>>,
               Range(InPlay)' = Range(InPlay)
        PROVE  UNCHANGED Contract!vars
    BY <1>2, <1>3 DEF Aside, Held
  <1>4. CASE NoRecord
    <2>1. InPlay' = InPlay /\ Aside' = Aside /\ verdict = "none"
      BY <1>4 DEF NoRecord, InPlay, Aside, Held, IInv, LoopState
    <2>2. Contract!Fail
      BY <1>4, <2>1 DEF NoRecord, Contract!Fail, Contract!testVars
    <2>3. QED
      BY <2>2 DEF Contract!Next
  <1>5. CASE Shuffle
    BY <1>3, <1>5 DEF Shuffle, InPlay
  <1>6. CASE Split
    BY <1>3, <1>6 DEF Split, InPlay
  <1>7. CASE Try
    BY <1>3, <1>7 DEF Try, InPlay
  <1>8. CASE Reduced
    BY <1>3, <1>8 DEF Reduced, InPlay
  <1>9. CASE RemoveChunk
    <2> DEFINE X == Range(TriedChunk)
    <2>1. /\ pc = "decide" /\ Smaller /\ back' = Append(back, TriedChunk)
          /\ pc' = "reduce"
          /\ UNCHANGED <<list, can, verdict, groups, noisy>>
      BY <1>9 DEF RemoveChunk
    <2>2. /\ InPlay = base /\ InPlay' = list
          /\ X \cup Range(list) = Range(base) /\ X \cap Range(list) = {}
          /\ TriedChunk \in Seq(Elem)
      BY <2>1, AtDecision DEF InPlay
    <2>3. Aside' = Aside \cup X
      <3>1. Held(back') = Held(back) \cup X
        BY <2>1, <2>2, Push DEF IInv, TypeOK
      <3>2. Aside' = Range(can) \cup Held(back')
        BY <2>1 DEF Aside, Held
      <3>3. QED
        BY <3>1, <3>2 DEF Aside
    <2>4. verdict = "none"
      BY <2>1 DEF IInv, LoopState
    <2>5. Aside \cap Range(base) = {}
      BY <2>2 DEF IInv, NothingLost, NoneTwice
    <2> HIDE DEF X
    <2>6. /\ Range(InPlay)' \in SUBSET (Range(InPlay) \cup Aside)
          /\ Aside' = (Range(InPlay) \cup Aside) \ Range(InPlay)'
      <3>1. Range(InPlay)' = Range(list) /\ Range(InPlay) = Range(base)
        BY <2>2
      <3>2. QED
        BY <2>2, <2>3, <2>5, <3>1
    <2>7. Contract!Move
      BY <2>1, <2>4, <2>6 DEF Contract!Move, Contract!testVars
    <2>8. QED
      BY <2>7 DEF Contract!Next
  <1>10. CASE Backtrack
    <2> DEFINE X == Range(back[Len(back)])
               rest == SubSeq(back, 1, Len(back) - 1)
    <2>1. /\ pc = "decide" /\ back # <<>> /\ back' = rest
          /\ list' = (list \o TriedChunk) \o back[Len(back)]
          /\ pc' \in {"again", "recover"}
          /\ UNCHANGED <<can, verdict, groups, noisy>>
      BY <1>10 DEF Backtrack, Again
    <2>2. /\ back \in Seq(Seq(Elem)) /\ verdict = "none" /\ Apart(back)
      BY <2>1 DEF IInv, TypeOK, LoopState, NothingLost, NoneTwice
    <2>3. /\ back[Len(back)] \in Seq(Elem) /\ Held(back) = Held(rest) \cup X
          /\ X \cap Held(rest) = {}
      BY <2>1, <2>2, Pop
    <2>4. /\ InPlay = base /\ Range(can) = {} /\ Aside = Held(back)
      BY <2>1, AtDecision
    <2>5. Range(list') = Range(base) \cup X
      <3>1. /\ list \o TriedChunk \in Seq(Elem)
            /\ Range(list \o TriedChunk) = Range(base)
        BY <2>1, Rejoined
      <3> DEFINE p == list \o TriedChunk
                 t == back[Len(back)]
      <3>2. t \in Seq(Elem) /\ list' = p \o t /\ X = Range(t)
        BY <2>1, <2>3
      <3>3. p \in Seq(Elem) /\ Range(p) = Range(base)
        BY <3>1
      <3> HIDE DEF p, t, X
      <3>4. Range(p \o t) = Range(p) \cup Range(t)
        BY <3>2, <3>3, RangeConcatenation
      <3>5. QED
        BY <3>2, <3>3, <3>4
    <2> HIDE DEF X, rest
    <2>6. Range(InPlay)' = Range(InPlay) \cup X
      BY <2>1, <2>4, <2>5 DEF InPlay
    <2>7. Aside' = Aside \ X /\ X \in SUBSET Aside
      <3>1. Aside' = Range(can) \cup Held(rest)
        BY <2>1 DEF Aside, Held
      <3>2. QED
        BY <2>3, <2>4, <3>1
    <2>8. Aside \cap Range(InPlay) = {}
      BY DEF IInv, NothingLost, NoneTwice
    <2>9. /\ Range(InPlay)' \in SUBSET (Range(InPlay) \cup Aside)
          /\ Aside' = (Range(InPlay) \cup Aside) \ Range(InPlay)'
      BY <2>6, <2>7, <2>8
    <2>10. Contract!Move
      BY <2>1, <2>2, <2>9 DEF Contract!Move, Contract!testVars
    <2>11. QED
      BY <2>10 DEF Contract!Next
  <1>11. CASE GiveUp
    <2>1. Range(list') = Range(base) /\ InPlay = base /\ InPlay' = list'
      BY <1>11, Rejoined DEF GiveUp, InPlay
    <2>2. QED
      BY <1>3, <1>11, <2>1 DEF GiveUp
  <1>12. CASE Recover
    <2>1. /\ back # <<>> /\ can' = can \o Head(back) /\ back' = Tail(back)
          /\ UNCHANGED <<pc, list, base, verdict, groups, noisy>>
      BY <1>12 DEF Recover
    <2>2. /\ back \in Seq(Seq(Elem)) /\ can \in Seq(Elem)
      BY DEF IInv, TypeOK
    <2>3. Head(back) \in Seq(Elem)
          /\ Held(back) = Held(Tail(back)) \cup Range(Head(back))
      BY <2>1, <2>2, Behead
    <2>4. Range(can') = Range(can) \cup Range(Head(back))
      BY <2>1, <2>2, <2>3, RangeConcatenation
    <2>5. Aside' = Range(can') \cup Held(Tail(back))
      BY <2>1 DEF Aside, Held
    <2>6. Aside' = Aside
      BY <2>3, <2>4, <2>5 DEF Aside
    <2>7. InPlay' = InPlay
      BY <2>1 DEF InPlay
    <2>8. QED
      BY <1>2, <2>1, <2>6, <2>7
  <1>13. CASE FinalTest
    <2>1. /\ pc = "recover" /\ pc' = "done" /\ verdict = "none"
          /\ UNCHANGED <<list, can, back, groups, noisy>>
      BY <1>13 DEF FinalTest, IInv, LoopState
    <2>2. /\ InPlay = list /\ InPlay' = InPlay /\ Aside' = Aside
      BY <2>1 DEF InPlay, Aside, Held
    <2>3. CASE verdict' = "found"
      <3>1. len' <= Target /\ Trusted(Range(list))'
        BY <1>1, <2>3 DEF IInv, Verdict
      <3>2. len' = Len(list)
        BY <1>1, <2>1 DEF IInv, LoopState
      <3>3. /\ Cardinality(Range(list)) \in Nat
            /\ Cardinality(Range(list)) <= Len(list) /\ Len(list) \in Nat
        BY FiniteRange, LenProperties DEF IInv, TypeOK
      <3>4. Contract!Cardinality(Range(InPlay)) <= Target
        BY <2>2, <3>1, <3>2, <3>3, TargetAssumption, SameCount
      <3>5. Contract!Trusted(Range(InPlay))
        <4>1. Trusted(Range(list))
          BY <2>1, <3>1 DEF Trusted, Evicts
        <4>2. QED
          BY <2>2, <4>1, SameTrust
      <3>6. Contract!Succeed
        BY <2>1, <2>2, <2>3, <3>4, <3>5 DEF Contract!Succeed, Contract!testVars
      <3>7. QED
        BY <3>6 DEF Contract!Next
    <2>4. CASE verdict' = "failed"
      <3>1. Contract!Fail
        BY <2>1, <2>2, <2>4 DEF Contract!Fail, Contract!testVars
      <3>2. QED
        BY <3>1 DEF Contract!Next
    <2>5. verdict' \in {"found", "failed"}
      BY <1>13 DEF FinalTest
    <2>6. QED
      BY <2>3, <2>4, <2>5
  <1>14. CASE UNCHANGED vars
    BY <1>3, <1>14 DEF vars, InPlay
  <1>15. QED
    BY <1>4, <1>5, <1>6, <1>7, <1>8, <1>9, <1>10, <1>11, <1>12, <1>13, <1>14
    DEF Next

(* The whole routine implements the contract of module Reduction.          *)
THEOREM Refinement == Spec => IsReduction
  <1>1. Init => Contract!Init
    BY InitRefines
  <1>2. IInv /\ [Next]_vars => [Contract!Next]_(Contract!vars)
    BY StepRefines
  <1>3. QED
    BY <1>1, <1>2, Inductive, PTL DEF Spec, IsReduction, Contract!Spec

-----------------------------------------------------------------------------
(***************************************************************************)
(* gt_eviction_any().  Everything but its way of giving up is shared with  *)
(* gt_eviction(), and so are the lemmas.                                   *)
(***************************************************************************)
(* After GiveUpAny(): the chunk tried last is in no list any more, nothing *)
(* had been removed before, and len still counts the missing chunk.        *)
Lost == /\ pc \in {"recover", "done"} /\ verdict # "found"
        /\ len > Target
        /\ can = <<>> /\ back = <<>>
        /\ \E j \in 1 .. Chunks, s \in Seq(Elem) :
             /\ IsInjective(s) /\ Range(s) = Range(input)
             /\ list = Without(s, j)
        /\ TypeOK

AnyInv == input \in Candidates /\ (IInv \/ Lost)

-----------------------------------------------------------------------------
LEMMA GiveUpAnyLoses == IInv /\ GiveUpAny => Lost'
  <1> SUFFICES ASSUME IInv, GiveUpAny PROVE Lost'
    OBVIOUS
  <1>1. /\ pc = "decide" /\ back = <<>> /\ pc' = "recover" /\ EndLevel
        /\ UNCHANGED <<callVars, list, can, order, back, len, cans, repeat,
                       verdict>>
    BY DEF GiveUpAny
  <1>2. /\ InPlay = base /\ can = <<>> /\ Aside = Held(back) /\ base \in Seq(Elem)
    BY <1>1, AtDecision
  <1>3. /\ len > Target /\ verdict = "none" /\ n \in 1 .. Chunks
        /\ list = Without(base, order[n])
    BY <1>1 DEF IInv, TypeOK, LoopState
  <1>4. order[n] \in 1 .. Chunks
    BY <1>3, OrderType DEF IInv, TypeOK
  <1>5. IsInjective(base) /\ Range(base) = Range(input)
    <2>1. Aside = {}
      BY <1>1, <1>2 DEF Held
    <2>2. QED
      BY <1>2, <2>1 DEF IInv, NothingLost, AllThere, NoneTwice
  <1>6. TypeOK'
    BY <1>1, EndLevelType DEF IInv, TypeOK, TestTypeOK, callVars, testVars
  <1>7. \E j \in 1 .. Chunks, s \in Seq(Elem) :
          /\ IsInjective(s) /\ Range(s) = Range(input')
          /\ list' = Without(s, j)
    BY <1>1, <1>2, <1>3, <1>4, <1>5 DEF callVars
  <1>8. QED
    BY <1>1, <1>2, <1>3, <1>6, <1>7 DEF Lost

LEMMA LostStays == Lost /\ [NextAny]_vars => Lost'
  <1> SUFFICES ASSUME Lost, [NextAny]_vars PROVE Lost'
    OBVIOUS
  <1>1. /\ pc \in {"recover", "done"} /\ back = <<>> /\ len > Target
        /\ verdict # "found"
    BY DEF Lost
  <1>2. FinalTest \/ UNCHANGED vars
    BY <1>1 DEF NextAny, NoRecord, Shuffle, Split, Try, RemoveChunk, Backtrack,
                GiveUpAny, Reduced, Recover
  <1>3. /\ UNCHANGED <<callVars, list, can, base, order, n, ret, back, len,
                       cans, repeat>>
        /\ \/ pc' = "done" /\ verdict' = "failed"
           \/ UNCHANGED <<pc, verdict>>
    <2>1. len \in Nat /\ Target \in Nat /\ ~(len <= Target)
      BY <1>1, TargetAssumption DEF Lost, TypeOK
    <2>2. QED
      BY <1>2, <2>1 DEF FinalTest, vars
  <1>4. TypeOK'
    BY <1>3 DEF Lost, TypeOK, TestTypeOK, callVars, testVars
  <1>5. QED
    BY <1>3, <1>4 DEF Lost, callVars

(* In every state the invariant of gt_eviction() holds, or                 *)
(* gt_eviction_any() has given up and dropped a chunk (algorithms.c        *)
(* 393-396).                                                               *)
THEOREM AnyInductive == SpecAny => []AnyInv
  <1>1. InitAny => AnyInv
    BY EntryInv DEF InitAny, Entry, AnyInv
  <1>2. AnyInv /\ [NextAny]_vars => AnyInv'
    <2> SUFFICES ASSUME AnyInv, [NextAny]_vars PROVE AnyInv'
      OBVIOUS
    <2>1. input' = input
      BY DEF NextAny, NoRecord, Shuffle, Split, Try, RemoveChunk, Backtrack,
             GiveUpAny, Reduced, Recover, FinalTest, callVars, vars
    <2>2. CASE Lost
      BY <2>1, <2>2, LostStays DEF AnyInv
    <2>3. CASE IInv /\ GiveUpAny
      BY <2>1, <2>3, GiveUpAnyLoses DEF AnyInv
    <2>4. CASE IInv /\ ~GiveUpAny
      <3>1. [Next]_vars
        BY <2>4 DEF NextAny, Next
      <3>2. QED
        BY <2>1, <2>4, <3>1, StepInv DEF AnyInv
    <2>5. QED
      BY <2>2, <2>3, <2>4 DEF AnyInv
  <1>3. QED
    BY <1>1, <1>2, PTL DEF SpecAny

-----------------------------------------------------------------------------
(* Every variable keeps its type, also after a chunk got lost.             *)
THEOREM AnyTypeCorrect == SpecAny => []TypeOK
  <1>1. AnyInv => TypeOK
    BY DEF AnyInv, IInv, Lost
  <1>2. QED
    BY <1>1, AnyInductive, PTL

(* back[] of gt_eviction_any(), which has the same estimate and the same   *)
(* question in algorithms.c 339, is large enough as well.                  *)
THEOREM HeightSufficesAny == SpecAny => []HeightBound
  <1>1. InitAny => Enough
    BY EnoughAtFirst DEF InitAny
  <1>2. AnyInv /\ Enough /\ [NextAny]_vars => Enough'
    <2> SUFFICES ASSUME AnyInv, Enough, [NextAny]_vars PROVE Enough'
      OBVIOUS
    <2>1. input' = input
      BY DEF NextAny, NoRecord, Shuffle, Split, Try, RemoveChunk, Backtrack,
             GiveUpAny, Reduced, Recover, FinalTest, callVars, vars
    <2>2. CASE Lost
      <3>1. pc \in {"recover", "done"} /\ pc' \in {"recover", "done"}
              /\ back = <<>> /\ back' = back
        BY <2>2, LostStays, <2>2 DEF Lost
      <3>2. QED
        BY <2>1, <3>1 DEF Enough, Room
    <2>3. CASE IInv /\ GiveUpAny
      <3>1. pc' = "recover" /\ back' = back
        BY <2>3 DEF GiveUpAny
      <3>2. QED
        BY <2>1, <3>1 DEF Enough, Room
    <2>4. CASE IInv /\ ~GiveUpAny
      <3>1. [Next]_vars
        BY <2>4 DEF NextAny, Next
      <3>2. QED
        BY <2>4, <3>1, EnoughStep
    <2>5. QED
      BY <2>2, <2>3, <2>4 DEF AnyInv
  <1>3. Enough => HeightBound
    BY DEF Enough, HeightBound
  <1>4. QED
    BY <1>1, <1>2, <1>3, AnyInductive, PTL DEF SpecAny

(* A zero return accounts for every line the caller passed: each is in     *)
(* *ptr or *can and in only one of them.                                   *)
THEOREM FoundLosesNothing == SpecAny => []FoundKeepsAll
  <1>1. AnyInv => FoundKeepsAll
    BY DEF AnyInv, IInv, Lost, FoundKeepsAll
  <1>2. QED
    BY <1>1, AnyInductive, PTL

(* Lists of the same lines are cut into chunks of the same lengths.        *)
LEMMA SameCuts ==
  ASSUME NEW s \in Seq(Elem), NEW t \in Seq(Elem), IsInjective(s),
         IsInjective(t), Range(s) = Range(t), NEW j \in 1 .. Chunks
  PROVE  Len(Chunk(s, j)) = Len(Chunk(t, j))
  <1>1. Len(s) = Len(t)
    <2>1. Cardinality(Range(s)) = Len(s) /\ Cardinality(Range(t)) = Len(t)
      BY InjectiveCount
    <2>2. QED
      BY <2>1
  <1>2. First(s, j) = First(t, j) /\ Final(s, j) = Final(t, j)
    BY <1>1 DEF First, Final
  <1>3. Len(Chunk(s, j)) = Final(s, j) - First(s, j) + 1
    BY Bounds, Excerpt DEF Chunk
  <1>4. Len(Chunk(t, j)) = Final(t, j) - First(t, j) + 1
    BY Bounds, Excerpt DEF Chunk
  <1>5. QED
    BY <1>2, <1>3, <1>4

(* Whatever the tests answer and however often the routine backtracks, a   *)
(* failure loses at most one chunk, and only when it had removed nothing:  *)
(* all the rest is in *ptr (the else of algorithms.c 393-396 lacks the     *)
(* list_concat() that gt_eviction() has in 267).                           *)
THEOREM AtMostOneChunkLost == SpecAny => []LosesOneChunk
  <1>1. IInv => LosesOneChunk
    BY DEF IInv, NothingLost, AllThere, LosesOneChunk
  <1>2. ASSUME Lost, input \in Candidates PROVE LosesOneChunk
    <2>1. PICK j \in 1 .. Chunks, s \in Seq(Elem) :
            /\ IsInjective(s) /\ Range(s) = Range(input)
            /\ list = Without(s, j)
      BY <1>2 DEF Lost
    <2>2. InPlay = list /\ Aside = {}
      BY <1>2 DEF Lost, InPlay, Aside, Held, Range
    <2>3. /\ Chunk(s, j) \in Seq(Elem) /\ IsInjective(Chunk(s, j))
          /\ Range(Chunk(s, j)) \cup Range(list) = Range(input)
          /\ Range(Chunk(s, j)) \cap Range(list) = {}
      BY <2>1, ChunkSplits
    <2>4. Range(input) \ (Range(InPlay) \cup Aside) = Range(Chunk(s, j))
      BY <2>2, <2>3
    <2>5. Cardinality(Range(Chunk(s, j))) = Len(Chunk(s, j))
      BY <2>3, InjectiveCount
    <2>6. Len(Chunk(s, j)) = Len(Chunk(input, j))
      BY <1>2, <2>1, CandidatesAssumption, SameCuts
    <2>7. QED
      BY <2>2, <2>4, <2>5, <2>6 DEF LosesOneChunk
  <1>3. QED
    BY <1>1, <1>2, AnyInductive, PTL DEF AnyInv
=============================================================================
