---------------------------- MODULE FinderProofs ----------------------------
(***************************************************************************)
(* What the worker of the browser port saves, for every buffer, colouring  *)
(* of its lines, associativity and number of lines kept unasked.           *)
(***************************************************************************)
EXTENDS Finder, FiniteSetTheorems, SequenceTheorems, TLAPS

(***************************************************************************)
(* The inductive invariant.                                                *)
(***************************************************************************)
Types ==
  /\ refs \subseteq Elem /\ vics \subseteq Elem /\ rest \subseteq Elem
  /\ color \in [Elem \cup {Page} -> Color] /\ unasked \in Unasked
  /\ results \in Seq(SUBSET Elem)
  /\ victim \in Elem \cup {Page, None}
  /\ conflict \in BOOLEAN /\ next \in BOOLEAN
  /\ e \in Nat \ {0} /\ passed \in Nat
  /\ passedOf \in Seq(Nat) /\ Len(passedOf) = Len(results)

Flow ==
  /\ pc \in {"generate", "cb", "compare", "reduce", "save", "done"}
  /\ pc = "generate" => conflict /\ results = <<>> /\ next
  /\ pc # "done" => /\ ~conflict => refs = Elem
                    /\ results # <<>> => conflict /\ Cardinality(refs) > Way
  /\ victim = None => vics = {} /\ pc \in {"compare", "save", "done"}
  /\ ~conflict => ~next /\ Len(results) <= 1
  /\ pc = "compare" => next
  /\ pc = "reduce" => ~next
  /\ pc = "save" => victim = None \/ ~(r < Retry)

(* The lines of the conflict set, wherever they are.                       *)
Kept == refs \cup UNION Range(results)

Apart ==
  \A k \in DOMAIN results :
    /\ results[k] \cap refs = {}
    /\ \A l \in DOMAIN results \ {k} : results[k] \cap results[l] = {}

OneColor(S) == \E c \in Color : Cardinality(S) = Way /\ OfColor(S, c) = S

(* What exact answers have told.                                           *)
Fits == conflict =>
          /\ EvictVictims(Kept)
          /\ \A c \in Color : \/ Cardinality(OfColor(Kept, c)) <= Way
                              \/ Cardinality(OfColor(Kept, c)) <= unasked
Suited == conflict /\ ~next /\ pc \in {"cb", "reduce"} => Evicts(refs, victim)
Saved == conflict \/ Cardinality(Elem) # Way =>
           \A k \in DOMAIN results :
             \/ OneColor(results[k])
             \/ /\ k = Len(results) /\ victim = None /\ pc = "done"
                /\ Cardinality(results[k]) = Way => Len(results) = 1


(* Each set of a colour has used up Way of the lines that were kept of it. *)
Budget ==
  conflict =>
    \A c \in Color :
      LET n == Cardinality(OfColor(refs, c)) + Way * Cardinality(SetsOf(c))
      IN  n <= Way \/ n <= unasked

(* The victim is evicted by no set that it has been compared with.         *)
Strange(k) == passed < k => ~Evicts(results[k], victim)
Compared ==
  conflict =>
    /\ pc = "compare" /\ victim # None =>
         \A k \in DOMAIN results : k < e => Strange(k)
    /\ ~next /\ pc \in {"cb", "reduce"} => \A k \in DOMAIN results : Strange(k)
NewColors == \A c \in Color : \A k, l \in SetsOf(c) : k < l => k <= passedOf[l]

Exact == Fits /\ Suited /\ Saved /\ Budget /\ Compared /\ NewColors

FInv == /\ Types /\ Flow /\ Apart
        /\ ~noisy => Exact

-----------------------------------------------------------------------------
(***************************************************************************)
(* Lines of one colour.                                                    *)
(***************************************************************************)
LEMMA FiniteLines ==
  ASSUME NEW S \in SUBSET Elem, NEW c
  PROVE  /\ IsFiniteSet(S) /\ Cardinality(S) \in Nat
         /\ IsFiniteSet(OfColor(S, c)) /\ Cardinality(OfColor(S, c)) \in Nat
         /\ OfColor(S, c) \subseteq S
         /\ Cardinality(OfColor(S, c)) <= Cardinality(S)
  <1>1. IsFiniteSet(S)
    BY LinesAssumption, FS_Subset
  <1>2. OfColor(S, c) \in SUBSET S
    BY DEF OfColor
  <1>3. IsFiniteSet(OfColor(S, c)) /\ Cardinality(OfColor(S, c)) <= Cardinality(S)
    BY <1>1, <1>2, FS_Subset
  <1>4. QED
    BY <1>1, <1>2, <1>3, FS_CardinalityType

LEMMA MoreOfColor ==
  ASSUME NEW T \in SUBSET Elem, NEW S \in SUBSET T, NEW c
  PROVE  Cardinality(OfColor(S, c)) <= Cardinality(OfColor(T, c))
  <1>1. OfColor(S, c) \in SUBSET OfColor(T, c)
    BY DEF OfColor
  <1>2. IsFiniteSet(OfColor(T, c))
    BY FiniteLines
  <1>3. QED
    BY <1>1, <1>2, FS_Subset

LEMMA EvictsMore ==
  ASSUME NEW T \in SUBSET Elem, NEW S \in SUBSET T, NEW v, Evicts(S, v)
  PROVE  Evicts(T, v)
  <1>1. /\ Cardinality(OfColor(S, color[v])) <= Cardinality(OfColor(T, color[v]))
        /\ Cardinality(OfColor(S, color[v])) \in Nat
        /\ Cardinality(OfColor(T, color[v])) \in Nat
    BY MoreOfColor, FiniteLines
  <1>2. QED
    BY <1>1, ConflictAssumption DEF Evicts

(* Way lines that evict are all of the colour of the line they evict.      *)
LEMMA AllOneColor ==
  ASSUME NEW K \in SUBSET Elem, NEW v, color[v] \in Color,
         Cardinality(K) = Way, Evicts(K, v)
  PROVE  OneColor(K)
  <1> DEFINE S == OfColor(K, color[v])
  <1>1. /\ IsFiniteSet(K) /\ S \subseteq K /\ Cardinality(S) \in Nat
        /\ Cardinality(S) <= Cardinality(K)
    BY FiniteLines
  <1>2. Cardinality(S) = Cardinality(K)
    BY <1>1, ConflictAssumption DEF Evicts
  <1>3. S = K
    BY <1>1, <1>2, FS_Subset
  <1>4. QED
    BY <1>3 DEF OneColor

(* What a line adds to a set.                                              *)
LEMMA OneLineMore ==
  ASSUME NEW S \in SUBSET Elem, NEW x \in Elem, NEW c
  PROVE  /\ c # color[x] => OfColor(S \cup {x}, c) = OfColor(S, c)
         /\ Cardinality(OfColor(S \cup {x}, color[x]))
              <= Cardinality(OfColor(S, color[x])) + 1
         /\ Cardinality(S \cup {x}) <= Cardinality(S) + 1
  <1>1. c # color[x] => OfColor(S \cup {x}, c) = OfColor(S, c)
    BY DEF OfColor
  <1>2. OfColor(S \cup {x}, color[x]) = OfColor(S, color[x]) \cup {x}
    BY DEF OfColor
  <1>3. \A T : IsFiniteSet(T) => Cardinality(T \cup {x}) <= Cardinality(T) + 1
    <2> SUFFICES ASSUME NEW T, IsFiniteSet(T)
                 PROVE  Cardinality(T \cup {x}) <= Cardinality(T) + 1
      OBVIOUS
    <2>1. Cardinality(T) \in Nat
      BY FS_CardinalityType
    <2>2. CASE x \in T
      <3>1. T \cup {x} = T
        BY <2>2
      <3>2. QED
        BY <2>1, <3>1
    <2>3. CASE x \notin T
      <3>1. Cardinality(T \cup {x}) = Cardinality(T) + 1
        BY <2>3, FS_AddElement
      <3>2. QED
        BY <2>1, <3>1
    <2>4. QED
      BY <2>2, <2>3
  <1>4. QED
    BY <1>1, <1>2, <1>3, FiniteLines

LEMMA KeptLines ==
  ASSUME FInv
  PROVE  Kept \in SUBSET Elem
  <1>1. \A j \in DOMAIN results : results[j] \in SUBSET Elem
    BY ElementOfSeq, LenProperties DEF FInv, Types
  <1>2. QED
    BY <1>1 DEF FInv, Types, Kept, Range

LEMMA NoSets ==
  ASSUME NEW c
  PROVE  /\ results = <<>> => Way * Cardinality(SetsOf(c)) = 0
         /\ results' = <<>> => (Way * Cardinality(SetsOf(c)))' = 0
  <1>1. /\ results = <<>> => SetsOf(c) = {}
        /\ results' = <<>> => SetsOf(c)' = {}
    BY DEF SetsOf
  <1>2. Way * Cardinality({}) = 0
    BY FS_EmptySet, ConflictAssumption
  <1>3. QED
    BY <1>1, <1>2

LEMMA InitInv == Init => FInv
  <1> SUFFICES ASSUME Init PROVE FInv
    OBVIOUS
  <1>1. results = <<>> /\ vics = {} /\ victim = Page
    BY DEF Init
  <1>2. Types
    <2>1. <<>> \in Seq(SUBSET Elem)
      BY EmptySeq
    <2>2. QED
      BY <1>1, <2>1 DEF Init, Types
  <1>3. Flow
    BY <1>1, FinderAssumption DEF Init, Flow
  <1>4. Apart /\ Saved
    BY <1>1 DEF Apart, Saved
  <1>5. Suited
    BY DEF Init, Suited
  <1>6. Fits
    <2> SUFFICES ASSUME conflict PROVE Fits
      BY DEF Fits
    <2>1. Kept = {}
      BY <1>1 DEF Init, Kept, Range
    <2>2. ASSUME NEW c PROVE Cardinality(OfColor(Kept, c)) = 0
      <3>1. OfColor(Kept, c) = {}
        BY <2>1 DEF OfColor
      <3>2. QED
        BY <3>1, FS_EmptySet
    <2>3. QED
      BY <1>1, <2>2, ConflictAssumption DEF Fits, EvictVictims
  <1>7. Budget
    <2> SUFFICES ASSUME conflict, NEW c \in Color
                 PROVE  Cardinality(OfColor(refs, c)) + Way * Cardinality(SetsOf(c))
                          <= Way
      BY DEF Budget
    <2>1. OfColor(refs, c) = {}
      BY DEF Init, OfColor
    <2>2. QED
      BY <1>1, <2>1, NoSets, FS_EmptySet, ConflictAssumption
  <1>8. Compared /\ NewColors
    BY <1>1 DEF Compared, NewColors, SetsOf
  <1>9. QED
    BY <1>2, <1>3, <1>4, <1>5, <1>6, <1>7, <1>8 DEF FInv, Exact

(* Steps that leave the lines alone.                                       *)
LEMMA SameKept ==
  ASSUME UNCHANGED <<refs, results>>
  PROVE  Kept' = Kept /\ (Apart => Apart')
  BY DEF Kept, Apart, Range

LEMMA GenerateInv == FInv /\ GenerateOne => FInv'
  <1> SUFFICES ASSUME FInv, GenerateOne PROVE FInv'
    OBVIOUS
  <1>1. /\ pc = "generate" /\ conflict /\ next /\ results = <<>>
        /\ UNCHANGED <<machine, pc, control, history>>
    BY DEF GenerateOne, FInv, Flow
  <1>2. PICK x \in rest : /\ KeepUnasked(x) \/ Keep(x) \/ LeaveOut(x)
                          /\ rest' = rest \ {x}
    BY DEF GenerateOne, Generate
  <1>3. /\ x \in Elem /\ refs \in SUBSET Elem /\ vics \subseteq Elem
        /\ color[x] \in Color /\ unasked \in Nat /\ Way \in Nat \ {0}
    BY <1>2, ConflictAssumption DEF FInv, Types
  <1>4. /\ refs' \in {refs, refs \cup {x}} /\ vics' \in {vics, vics \cup {x}}
    BY <1>2 DEF KeepUnasked, Keep, LeaveOut
  <1>5. Types'
    BY <1>1, <1>2, <1>3, <1>4 DEF FInv, Types, machine, control, history
  <1>6. Flow'
    BY <1>1 DEF FInv, Flow, control
  <1>7. Apart'
    BY <1>1 DEF Apart, control
  <1>8. Suited' /\ Saved'
    BY <1>1 DEF Suited, Saved, control
  <1>9. ASSUME ~noisy PROVE Fits'
    <2>1. Kept = refs /\ Kept' = refs'
      BY <1>1 DEF Kept, Range, control
    <2>2. /\ EvictVictims(refs)
          /\ \A c \in Color : \/ Cardinality(OfColor(refs, c)) <= Way
                              \/ Cardinality(OfColor(refs, c)) <= unasked
      BY <1>1, <1>9, <2>1 DEF FInv, Exact, Fits
    <2>3. ASSUME EvictVictims(refs)',
                 \A c \in Color : \/ Cardinality(OfColor(refs', c)) <= Way
                                  \/ Cardinality(OfColor(refs', c)) <= unasked
          PROVE  Fits'
      BY <1>1, <2>1, <2>3 DEF Fits, OfColor, machine, EvictVictims, Evicts
    <2>4. CASE LeaveOut(x)
      <3>1. Evicts(refs, x) /\ refs' = refs /\ vics' = vics \cup {x}
        BY <1>9, <2>4 DEF LeaveOut, Answers
      <3>2. EvictVictims(refs)'
        BY <1>1, <2>2, <3>1 DEF EvictVictims, Evicts, OfColor, machine
      <3>3. QED
        BY <2>2, <2>3, <3>1, <3>2
    <2>5. CASE KeepUnasked(x) \/ Keep(x)
      <3>1. refs' = refs \cup {x} /\ vics' = vics
        BY <2>5 DEF KeepUnasked, Keep
      <3>2. EvictVictims(refs)'
        <4>1. \A v \in vics : Evicts(refs', v)
          BY <1>3, <2>2, <3>1, EvictsMore DEF EvictVictims
        <4>2. QED
          BY <1>1, <3>1, <4>1 DEF EvictVictims, Evicts, OfColor, machine
      <3>3. ASSUME NEW c \in Color
            PROVE  \/ Cardinality(OfColor(refs', c)) <= Way
                   \/ Cardinality(OfColor(refs', c)) <= unasked
        <4>1. /\ c # color[x] => OfColor(refs', c) = OfColor(refs, c)
              /\ Cardinality(OfColor(refs', color[x]))
                   <= Cardinality(OfColor(refs, color[x])) + 1
              /\ Cardinality(refs') <= Cardinality(refs) + 1
          BY <1>3, <3>1, OneLineMore
        <4>2. /\ Cardinality(refs) \in Nat /\ Cardinality(refs') \in Nat
              /\ Cardinality(OfColor(refs', c)) \in Nat
              /\ Cardinality(OfColor(refs', c)) <= Cardinality(refs')
              /\ Cardinality(OfColor(refs, color[x])) \in Nat
          BY <1>3, <3>1, FiniteLines
        <4>3. CASE KeepUnasked(x)
          <5>1. Cardinality(refs) < unasked
            BY <4>3 DEF KeepUnasked
          <5>2. QED
            BY <1>3, <4>1, <4>2, <5>1
        <4>4. CASE Keep(x) /\ c = color[x]
          <5>1. ~Evicts(refs, x)
            BY <1>9, <4>4 DEF Keep, Answers
          <5>2. Cardinality(OfColor(refs, color[x])) < Way
            BY <1>3, <4>2, <5>1 DEF Evicts
          <5>3. QED
            BY <1>3, <4>1, <4>2, <4>4, <5>2
        <4>5. CASE c # color[x]
          BY <2>2, <4>1, <4>5
        <4>6. QED
          BY <2>5, <4>3, <4>4, <4>5
      <3>4. QED
        BY <2>3, <3>2, <3>3
    <2>6. QED
      BY <1>2, <2>4, <2>5
  <1>10. ASSUME ~noisy PROVE Budget'
    <2> SUFFICES ASSUME NEW c \in Color
                 PROVE  LET n == Cardinality(OfColor(refs, c)') + (Way * Cardinality(SetsOf(c)))'
                        IN  n <= Way \/ n <= unasked
      BY <1>1 DEF Budget, machine
    <2>1. Kept' = refs'
      BY <1>1 DEF Kept, Range, control
    <2>2. \/ Cardinality(OfColor(refs, c)') <= Way
          \/ Cardinality(OfColor(refs, c)') <= unasked
      BY <1>1, <1>9, <1>10, <2>1 DEF Fits, machine, control, OfColor
    <2>3. (Way * Cardinality(SetsOf(c)))' = 0
      BY <1>1, NoSets DEF control
    <2>4. Cardinality(OfColor(refs, c)') \in Nat
      <3>1. refs' \in SUBSET Elem
        BY <1>3, <1>4
      <3>2. OfColor(refs, c)' = OfColor(refs', c)
        BY <1>1 DEF OfColor, machine
      <3>3. QED
        BY <3>1, <3>2, FiniteLines
    <2>5. QED
      BY <2>2, <2>3, <2>4
  <1>11. Compared' /\ NewColors'
    BY <1>1 DEF Compared, NewColors, SetsOf, control
  <1>12. QED
    BY <1>1, <1>5, <1>6, <1>7, <1>8, <1>9, <1>10, <1>11 DEF FInv, Exact, machine

(* Steps that at most look for another victim.                             *)
LEMMA Quiet ==
  ASSUME FInv, pc # "done",
         UNCHANGED <<machine, rest, refs, conflict, results, passedOf>>,
         vics' \subseteq vics, victim' \in Elem \cup {Page, None},
         next' \in BOOLEAN, e' \in Nat \ {0}, passed' \in Nat,
         Flow', ~noisy => Suited' /\ Compared'
  PROVE  FInv'
  <1>1. Types'
    BY DEF FInv, Types, machine
  <1>2. Kept' = Kept /\ Apart'
    BY SameKept DEF FInv
  <1>3. ASSUME ~noisy PROVE Fits'
    BY <1>2, <1>3 DEF FInv, Exact, Fits, EvictVictims, Evicts, OfColor, machine
  <1>4. ASSUME ~noisy PROVE Saved'
    BY <1>4 DEF FInv, Exact, Saved, OneColor, OfColor, machine
  <1>5. ASSUME ~noisy PROVE Budget' /\ NewColors'
    <2>1. \A c : SetsOf(c)' = SetsOf(c) /\ OfColor(refs, c)' = OfColor(refs, c)
      BY DEF SetsOf, OfColor, machine
    <2>2. QED
      BY <1>5, <2>1 DEF FInv, Exact, Budget, NewColors, machine
  <1>6. QED
    BY <1>1, <1>2, <1>3, <1>4, <1>5 DEF FInv, Exact, machine

LEMMA GeneratedInv == FInv /\ Generated => FInv'
  <1> SUFFICES ASSUME FInv, Generated PROVE FInv'
    OBVIOUS
  <1> USE DEF Generated, control, history
  <1>1. Flow'
    BY DEF FInv, Flow
  <1>2. Suited' /\ Compared'
    BY DEF FInv, Flow, Suited, Compared
  <1>3. QED
    BY <1>1, <1>2, Quiet DEF FInv, Types

LEMMA KeepVictimInv == FInv /\ KeepVictim => FInv'
  <1> SUFFICES ASSUME FInv, KeepVictim PROVE FInv'
    OBVIOUS
  <1> USE DEF KeepVictim, control, history
  <1>1. Flow'
    BY DEF FInv, Flow
  <1>2. ~noisy => Suited' /\ Compared'
    BY DEF FInv, Exact, Suited, Compared, Strange, Evicts, OfColor, machine
  <1>3. QED
    BY <1>1, <1>2, Quiet DEF FInv, Types

(* vics.pop() takes a line from vics, or gives undefined when it is empty. *)
LEMMA PopType ==
  ASSUME FInv, NEW n, Pop(n)
  PROVE  /\ vics' \subseteq vics /\ victim' \in Elem \cup {Page, None}
         /\ victim' = None => vics' = {}
  BY FinderAssumption DEF FInv, Types, Pop

LEMMA NextVictimInv == FInv /\ NextVictim => FInv'
  <1> SUFFICES ASSUME FInv, NextVictim PROVE FInv'
    OBVIOUS
  <1> USE DEF NextVictim
  <1>1. /\ vics' \subseteq vics /\ victim' \in Elem \cup {Page, None}
        /\ victim' = None => vics' = {}
    BY PopType
  <1>2. Flow'
    BY <1>1 DEF FInv, Flow
  <1>3. Suited' /\ Compared'
    BY DEF Suited, Compared, FirstOfResults, FInv, Types, Flow
  <1>4. QED
    BY <1>1, <1>2, <1>3, Quiet DEF FInv, Types, Pop, FirstOfResults

LEMMA CompareInv == FInv /\ Compare => FInv'
  <1> SUFFICES ASSUME FInv, Compare PROVE FInv'
    OBVIOUS
  <1> USE DEF Compare
  <1>1. /\ vics' \subseteq vics /\ victim' \in Elem \cup {Page, None}
        /\ victim' = None => vics' = {}
    BY PopType DEF FInv, Types, Flow
  <1>2. Flow'
    BY <1>1 DEF FInv, Flow
  <1>3. Suited'
    BY <1>2 DEF Suited, Flow
  <1>4. PICK miss \in Answers(results[e], victim) :
          IF miss THEN Pop(e) ELSE UNCHANGED <<victim, vics, passed>>
    OBVIOUS
  <1>5. e \in Nat \ {0} /\ passed \in Nat /\ passed' \in Nat /\ next
        /\ DOMAIN results = 1 .. Len(results)
    BY <1>4, LenProperties DEF FInv, Types, Flow, Pop
  <1>6. ~noisy => Compared'
    <2> SUFFICES ASSUME ~noisy, conflict, NEW k \in DOMAIN results, k < e + 1, passed' < k
                 PROVE  ~Evicts(results[k], victim)'
      BY <1>5 DEF Compared, Strange, machine
    <2>1. CASE miss
      BY <1>4, <1>5, <2>1 DEF Pop
    <2>2. CASE ~miss
      <3>1. passed' = passed /\ victim' = victim /\ ~Evicts(results[e], victim)
        BY <1>4, <2>2 DEF Answers
      <3>2. k = e \/ k < e
        BY <1>5
      <3>3. k < e => ~Evicts(results[k], victim)
        BY <3>1 DEF FInv, Exact, Compared, Strange
      <3>4. QED
        BY <3>1, <3>2, <3>3 DEF Evicts, OfColor, machine
    <2>3. QED
      BY <2>1, <2>2
  <1>7. QED
    BY <1>1, <1>2, <1>3, <1>5, <1>6, Quiet DEF FInv, Types

LEMMA JudgeInv == FInv /\ Judge => FInv'
  <1> SUFFICES ASSUME FInv, Judge PROVE FInv'
    OBVIOUS
  <1> USE DEF Judge
  <1>1. PICK miss \in Answers(refs, victim) :
          IF miss THEN pc' = "reduce" /\ next' = FALSE
                  ELSE pc' = "cb" /\ UNCHANGED next
    OBVIOUS
  <1>2. next' \in BOOLEAN /\ next
    BY <1>1 DEF FInv, Types, Flow
  <1>3. Flow'
    BY <1>1 DEF FInv, Flow
  <1>4. ~noisy => Suited'
    <2>1. CASE miss
      BY <1>1, <2>1 DEF Suited, Answers, Evicts, OfColor, machine
    <2>2. CASE ~miss
      BY <1>1, <1>2, <2>2 DEF Suited
    <2>3. QED
      BY <2>1, <2>2
  <1>5. ~noisy => Compared'
    <2> SUFFICES ASSUME ~noisy, conflict, NEW k \in DOMAIN results, Strange(k)
                 PROVE  Strange(k)'
      <3>1. \A k \in DOMAIN results : k < e
        BY LenProperties DEF FInv, Types
      <3>2. conflict /\ ~noisy => \A k \in DOMAIN results : Strange(k)
        BY <3>1 DEF FInv, Exact, Compared
      <3>3. pc' # "compare"
        BY <1>1
      <3>4. QED
        BY <3>2, <3>3 DEF Compared, machine
    <2>1. QED
      BY DEF Strange, Evicts, OfColor, machine, history
  <1>6. QED
    BY <1>2, <1>3, <1>4, <1>5, Quiet DEF FInv, Types, history

LEMMA NoMoreVictimsInv == FInv /\ NoMoreVictims => FInv'
  <1> SUFFICES ASSUME FInv, NoMoreVictims PROVE FInv'
    OBVIOUS
  <1> USE DEF NoMoreVictims, CbFails
  <1>1. pc' = "save" /\ next
    BY DEF FInv, Flow
  <1>2. Flow'
    BY <1>1 DEF FInv, Flow
  <1>3. Suited' /\ Compared'
    BY <1>1 DEF Suited, Compared
  <1>4. QED
    BY <1>2, <1>3, Quiet DEF FInv, Types, history

LEMMA ReductionFailsInv == FInv /\ ReductionFails => FInv'
  <1> SUFFICES ASSUME FInv, ReductionFails PROVE FInv'
    OBVIOUS
  <1> USE DEF ReductionFails, CbFails
  <1>1. victim # None
    BY DEF FInv, Flow
  <1>2. Flow'
    BY <1>1 DEF FInv, Flow
  <1>3. ~noisy => Suited' /\ Compared'
    BY DEF FInv, Exact, Suited, Compared, Strange, Evicts, OfColor, machine, history
  <1>4. QED
    BY <1>2, <1>3, Quiet DEF FInv, Types, history

-----------------------------------------------------------------------------
(* A set is saved, or the rest of the lines when the victims ran out.      *)
LEMMA PushInv ==
  ASSUME FInv, pc \in {"reduce", "save"}, NEW K \in SUBSET refs, Push(K), Again,
         UNCHANGED <<machine, rest, vics, conflict, victim, e, passed>>,
         pc = "save" => K = refs /\ victim = None,
         pc = "reduce" => /\ Cardinality(K) = Way
                          /\ noisy \/ Evicts(K, victim) \/ K = refs
  PROVE  FInv'
  <1> DEFINE m == Len(results)
  <1>1. /\ results \in Seq(SUBSET Elem) /\ K \in SUBSET Elem /\ refs \in SUBSET Elem
        /\ m \in Nat /\ DOMAIN results = 1 .. m
        /\ \A k \in 1 .. m : results[k] \in SUBSET Elem
    BY LenProperties, ElementOfSeq DEF FInv, Types
  <1>2. /\ results' = Append(results, K) /\ refs' = refs \ K
        /\ passedOf' = Append(passedOf, passed)
    BY DEF Push
  <1>3. /\ results' \in Seq(SUBSET Elem) /\ Len(results') = m + 1
        /\ DOMAIN results' = 1 .. m + 1
        /\ \A k \in 1 .. m : results'[k] = results[k]
        /\ results'[m + 1] = K
    BY <1>1, <1>2, AppendProperties, LenProperties
  <1>13. /\ passedOf \in Seq(Nat) /\ Len(passedOf) = m /\ passed \in Nat
         /\ passedOf' \in Seq(Nat) /\ Len(passedOf') = m + 1
         /\ \A k \in 1 .. m : passedOf'[k] = passedOf[k]
         /\ passedOf'[m + 1] = passed
    BY <1>2, AppendProperties, LenProperties DEF FInv, Types
  <1> HIDE DEF m
  <1>4. Types'
    BY <1>1, <1>2, <1>3, <1>13 DEF FInv, Types, machine, Again, Flow
  <1>5. conflict \/ pc' = "done"
    BY DEF Again
  <1>6. Flow'
    <2>1. ~conflict => m = 0
      BY EmptySeq DEF FInv, Flow, m
    <2>2. ~conflict => Len(results') <= 1
      BY <1>3, <2>1
    <2>3. QED
      BY <1>5, <2>2 DEF FInv, Flow, Again
  <1>7. Kept' = Kept
    <2>1. Range(results') = Range(results) \cup {K}
      BY <1>1, <1>2, <1>3 DEF Range
    <2>2. QED
      BY <1>2, <2>1 DEF Kept
  <1>8. Apart'
    <2> SUFFICES ASSUME NEW k \in 1 .. m + 1, NEW l \in 1 .. m + 1
                 PROVE  /\ results'[k] \cap refs' = {}
                        /\ l # k => results'[k] \cap results'[l] = {}
      BY <1>3 DEF Apart
    <2>1. \A j \in 1 .. m : results'[j] = results[j] /\ results[j] \cap refs = {}
      BY <1>1, <1>3 DEF FInv, Apart
    <2>2. \A i, j \in 1 .. m : i # j => results[i] \cap results[j] = {}
      BY <1>1 DEF FInv, Apart
    <2>3. k \in 1 .. m \/ k = m + 1
      BY <1>1
    <2>4. l \in 1 .. m \/ l = m + 1
      BY <1>1
    <2>5. K \cap refs' = {} /\ refs' \subseteq refs /\ K \subseteq refs
      BY <1>2
    <2>6. QED
      BY <1>3, <2>1, <2>2, <2>3, <2>4, <2>5
  <1>9. ASSUME ~noisy PROVE Fits'
    BY <1>7, <1>9 DEF FInv, Exact, Fits, EvictVictims, Evicts, OfColor, machine
  <1>10. Suited'
    BY DEF Suited, Again
  <1>11. ASSUME ~noisy PROVE Saved'
    <2> SUFFICES ASSUME conflict \/ Cardinality(Elem) # Way,
                        NEW k \in 1 .. m + 1
                 PROVE  \/ OneColor(results'[k])
                        \/ /\ k = m + 1 /\ victim = None /\ pc' = "done"
                           /\ Cardinality(results'[k]) = Way => m = 0
      <3>1. ASSUME NEW S PROVE OneColor(S)' = OneColor(S')
        BY DEF OneColor, OfColor, machine
      <3>2. QED
        BY <1>1, <1>3 DEF Saved, OneColor, OfColor, machine
    <2>1. CASE k \in 1 .. m
      BY <1>1, <1>3, <1>11, <2>1 DEF FInv, Exact, Saved
    <2>2. CASE k = m + 1 /\ pc = "reduce"
      <3>1. victim \in Elem \cup {Page} /\ color[victim] \in Color
        BY <2>2 DEF FInv, Types, Flow
      <3>2. Evicts(K, victim)
        <4>1. CASE K = refs
          <5>1. conflict
            BY <2>2, <4>1 DEF FInv, Flow
          <5>2. QED
            BY <1>11, <2>2, <4>1, <5>1 DEF FInv, Exact, Suited, Flow
        <4>2. QED
          BY <1>11, <2>2, <4>1
      <3>3. QED
        BY <1>1, <1>3, <2>2, <3>1, <3>2, AllOneColor
    <2>3. CASE k = m + 1 /\ pc = "save"
      <3>1. victim = None /\ K = refs /\ vics = {}
        BY <2>3 DEF FInv, Flow
      <3>2. pc' = "done"
        BY <3>1 DEF Again
      <3>3. Cardinality(K) = Way => results = <<>>
        BY <2>3, <3>1, ConflictAssumption DEF FInv, Flow
      <3>4. Cardinality(K) = Way => m = 0
        BY <3>3, EmptySeq DEF m
      <3>5. QED
        BY <1>3, <2>3, <3>1, <3>2, <3>4
    <2>4. QED
      BY <1>1, <2>1, <2>2, <2>3
  <1>14. /\ \A c : SetsOf(c) \subseteq 1 .. m
         /\ \A c : SetsOf(c)' = IF Cardinality(K) = Way /\ OfColor(K, c) = K
                                THEN SetsOf(c) \cup {m + 1} ELSE SetsOf(c)
    <2> SUFFICES ASSUME NEW c
                 PROVE  /\ SetsOf(c) \subseteq 1 .. m
                        /\ SetsOf(c)' = IF Cardinality(K) = Way /\ OfColor(K, c) = K
                                        THEN SetsOf(c) \cup {m + 1} ELSE SetsOf(c)
      OBVIOUS
    <2>1. SetsOf(c) \subseteq 1 .. m
      BY <1>1 DEF SetsOf
    <2>2. SetsOf(c)' = {k \in 1 .. m + 1 : /\ Cardinality(results'[k]) = Way
                                           /\ OfColor(results'[k], c) = results'[k]}
      BY <1>3 DEF SetsOf, OfColor, machine
    <2>3. SetsOf(c) = {k \in 1 .. m : /\ Cardinality(results[k]) = Way
                                      /\ OfColor(results[k], c) = results[k]}
      BY <1>1 DEF SetsOf
    <2>4. 1 .. m + 1 = 1 .. m \cup {m + 1}
      BY <1>1
    <2>5. QED
      BY <1>3, <2>1, <2>2, <2>3, <2>4
  <1>15. ASSUME ~noisy PROVE Budget'
    <2> SUFFICES ASSUME conflict, NEW c \in Color
                 PROVE  LET n == Cardinality(OfColor(refs \ K, c))
                                   + Way * Cardinality(SetsOf(c)')
                        IN  n <= Way \/ n <= unasked
      BY <1>2 DEF Budget, OfColor, machine
    <2> DEFINE a == Cardinality(OfColor(refs, c))
               b == Cardinality(OfColor(refs \ K, c))
               n == Cardinality(SetsOf(c))
    <2>1. /\ a \in Nat /\ b \in Nat /\ b <= a /\ n \in Nat
          /\ IsFiniteSet(SetsOf(c)) /\ IsFiniteSet(OfColor(refs, c))
      <3>1. IsFiniteSet(1 .. m)
        BY <1>1, FS_Interval
      <3>2. QED
        BY <1>1, <1>14, <3>1, FS_Subset, FS_CardinalityType, FiniteLines, MoreOfColor
    <2>2. a + Way * n <= Way \/ a + Way * n <= unasked
      BY <1>15 DEF FInv, Exact, Budget
    <2>3. Way \in Nat \ {0} /\ unasked \in Nat
      BY ConflictAssumption DEF FInv, Types
    <2>4. CASE Cardinality(K) = Way /\ OfColor(K, c) = K
      <3>1. Cardinality(SetsOf(c)') = n + 1
        <4>1. m + 1 \notin SetsOf(c)
          BY <1>1, <1>14
        <4>2. SetsOf(c)' = SetsOf(c) \cup {m + 1}
          BY <1>14, <2>4
        <4>3. QED
          BY <2>1, <4>1, <4>2, FS_AddElement
      <3>2. b = a - Way
        <4>1. OfColor(refs \ K, c) = OfColor(refs, c) \ K
          BY DEF OfColor
        <4>2. OfColor(refs, c) \cap K = K
          BY <2>4 DEF OfColor
        <4>3. Cardinality(OfColor(refs, c) \ K)
                = Cardinality(OfColor(refs, c)) - Cardinality(OfColor(refs, c) \cap K)
          BY <2>1, FS_Difference
        <4>4. QED
          BY <2>4, <4>1, <4>2, <4>3
      <3>3. Way * (n + 1) = Way * n + Way /\ Way * n \in Nat
        BY <2>1, <2>3
      <3> HIDE DEF a, b, n
      <3>4. b + Way * (n + 1) = a + Way * n
        BY <2>1, <2>3, <3>2, <3>3
      <3>5. QED
        BY <2>2, <3>1, <3>4 DEF a, b, n
    <2>5. CASE ~ (Cardinality(K) = Way /\ OfColor(K, c) = K)
      <3>1. SetsOf(c)' = SetsOf(c)
        BY <1>14, <2>5
      <3>2. Way * n \in Nat
        BY <2>1, <2>3
      <3> HIDE DEF a, b, n
      <3>3. b + Way * n <= Way \/ b + Way * n <= unasked
        BY <2>1, <2>2, <2>3, <3>2
      <3>4. QED
        BY <3>1, <3>3 DEF b, n
    <2>6. QED
      BY <2>4, <2>5
  <1>16. ASSUME ~noisy PROVE NewColors'
    <2> SUFFICES ASSUME NEW c \in Color, NEW k \in SetsOf(c)', NEW l \in SetsOf(c)', k < l
                 PROVE  k <= passedOf'[l]
      BY DEF NewColors, machine
    <2>1. /\ l \in SetsOf(c) \/ l = m + 1
          /\ k \in SetsOf(c) \/ k = m + 1
      BY <1>14
    <2>2. k \in SetsOf(c) /\ k \in 1 .. m
      BY <1>1, <1>14, <2>1
    <2>3. CASE l \in SetsOf(c)
      BY <1>13, <1>14, <1>16, <2>2, <2>3 DEF FInv, Exact, NewColors
    <2>4. CASE l = m + 1 /\ l \notin SetsOf(c)
      <3>1. Cardinality(K) = Way /\ OfColor(K, c) = K
        BY <1>14, <2>4
      <3>2. pc = "reduce" /\ conflict
        <4>1. results # <<>>
          BY <1>1, <2>2, EmptySeq DEF m
        <4>2. conflict /\ Cardinality(refs) > Way
          BY <4>1 DEF FInv, Flow
        <4>3. Cardinality(refs) \in Nat /\ Way \in Nat
          BY <1>1, FiniteLines, ConflictAssumption
        <4>4. K # refs
          BY <3>1, <4>2, <4>3
        <4>5. QED
          BY <4>2, <4>4
      <3>3. victim \in Elem \cup {Page} /\ Evicts(K, victim)
        <4>1. victim \in Elem \cup {Page}
          BY <3>2 DEF FInv, Types, Flow
        <4>2. K = refs => Evicts(K, victim)
          BY <1>16, <3>2 DEF FInv, Exact, Suited, Flow
        <4>3. QED
          BY <1>16, <3>2, <4>1, <4>2
      <3>4. c = color[victim]
        <4>1. OfColor(K, color[victim]) # {}
          <5>1. Cardinality(OfColor(K, color[victim])) # 0
            BY <1>1, <3>3, FiniteLines, ConflictAssumption DEF Evicts
          <5>2. QED
            BY <5>1, FS_EmptySet
        <4>2. PICK x \in K : color[x] = color[victim]
          BY <4>1 DEF OfColor
        <4>3. color[x] = c
          BY <3>1, <4>2 DEF OfColor
        <4>4. QED
          BY <4>2, <4>3
      <3>5. Evicts(results[k], victim)
        BY <2>2, <3>4, ConflictAssumption DEF SetsOf, Evicts
      <3>6. ~ (passed < k)
        BY <1>1, <1>16, <2>2, <3>2, <3>5 DEF FInv, Exact, Flow, Compared, Strange
      <3>7. QED
        BY <1>13, <2>2, <2>4, <3>6
    <2>5. QED
      BY <2>1, <2>3, <2>4
  <1>17. Compared'
    BY DEF Compared, Again
  <1>18. QED
    BY <1>4, <1>6, <1>8, <1>9, <1>10, <1>11, <1>15, <1>16, <1>17
       DEF FInv, Exact, machine

LEMMA SuccessInv == FInv /\ Success => FInv'
  <1> SUFFICES ASSUME FInv, Success PROVE FInv'
    OBVIOUS
  <1>1. PICK K \in SUBSET refs : /\ Cardinality(K) = Way
                                 /\ noisy \/ Evicts(K, victim) \/ K = refs
                                 /\ Push(K)
    BY DEF Success
  <1>2. QED
    BY <1>1, PushInv DEF Success

LEMMA AfterFailureInv == FInv /\ AfterFailure => FInv'
  <1> SUFFICES ASSUME FInv, AfterFailure PROVE FInv'
    OBVIOUS
  <1>1. /\ pc = "save" /\ Again
        /\ UNCHANGED <<machine, rest, vics, conflict, victim, e, passed>>
    BY DEF AfterFailure
  <1>2. CASE FewEnough
    <2>1. Push(refs) /\ victim = None
      BY <1>1, <1>2 DEF AfterFailure, FewEnough, FInv, Flow
    <2>2. QED
      BY <1>1, <2>1, PushInv
  <1>3. CASE ~FewEnough
    <2>1. UNCHANGED <<results, refs, passedOf>>
      BY <1>3 DEF AfterFailure
    <2>2. next' = conflict /\ next' \in BOOLEAN
      BY <1>1 DEF FInv, Flow, Types, Again
    <2>3. Flow'
      BY <1>1, <2>1 DEF FInv, Flow, Again
    <2>4. Suited' /\ Compared'
      BY <1>1 DEF Suited, Compared, Again
    <2>5. QED
      BY <1>1, <2>1, <2>2, <2>3, <2>4, Quiet DEF FInv, Types
  <1>4. QED
    BY <1>2, <1>3

LEMMA StepInv == FInv /\ [Next]_vars => FInv'
  <1> SUFFICES ASSUME FInv, [Next]_vars PROVE FInv'
    OBVIOUS
  <1>1. CASE Next
    BY <1>1, GenerateInv, GeneratedInv, KeepVictimInv, NextVictimInv, CompareInv,
       JudgeInv, NoMoreVictimsInv, ReductionFailsInv, SuccessInv,
       AfterFailureInv DEF Next
  <1>2. CASE UNCHANGED vars
    <2> USE <1>2 DEF vars, machine, control, history
    <2>1. Types' /\ Flow'
      BY DEF FInv, Types, Flow
    <2>2. Kept' = Kept /\ Apart'
      BY SameKept DEF FInv
    <2>3. ASSUME ~noisy PROVE Fits'
      BY <2>2, <2>3 DEF FInv, Exact, Fits, EvictVictims, Evicts, OfColor
    <2>4. ASSUME ~noisy PROVE Suited' /\ Saved'
      BY <2>4 DEF FInv, Exact, Suited, Saved, Evicts, OneColor, OfColor
    <2>5. ASSUME ~noisy PROVE Budget' /\ Compared' /\ NewColors'
      <3>1. \A c : SetsOf(c)' = SetsOf(c) /\ OfColor(refs, c)' = OfColor(refs, c)
        BY DEF SetsOf, OfColor
      <3>2. \A k : Strange(k)' = Strange(k)
        BY DEF Strange, Evicts, OfColor
      <3>3. QED
        BY <2>5, <3>1, <3>2 DEF FInv, Exact, Budget, NewColors, Compared
    <2>6. QED
      BY <2>1, <2>2, <2>3, <2>4, <2>5 DEF FInv, Exact
  <1>3. QED
    BY <1>1, <1>2

(* What start() and cb() keep true from one eviction set to the next: which*)
(* lines are left, and of which colours (finder.js 37-55, 121-173).        *)
THEOREM Inductive == Spec => []FInv
  BY InitInv, StepInv, PTL DEF Spec

-----------------------------------------------------------------------------
(* However the lines are coloured and whatever reductions fail, the lines  *)
(* kept and saved evict every victim that is left, and when every line was *)
(* asked for hold no more than Way lines of a colour.                      *)
THEOREM KeepsConflictSet == Spec => []ConflictSetKept
  <1>1. FInv => ConflictSetKept
    <2> SUFFICES ASSUME FInv, ~noisy, conflict
                 PROVE  /\ EvictVictims(Kept)
                        /\ unasked = 0 => NoneToSpare(Kept)
      BY DEF ConflictSetKept, Kept
    <2>1. /\ EvictVictims(Kept)
          /\ \A c \in Color : \/ Cardinality(OfColor(Kept, c)) <= Way
                              \/ Cardinality(OfColor(Kept, c)) <= unasked
      BY DEF FInv, Exact, Fits
    <2>2. ASSUME unasked = 0, NEW c \in Color
          PROVE  Cardinality(OfColor(Kept, c)) <= Way
      <3>1. Cardinality(OfColor(Kept, c)) \in Nat
        BY KeptLines, FiniteLines
      <3>2. QED
        BY <2>1, <2>2, <3>1, ConflictAssumption
    <2>3. QED
      BY <2>1, <2>2 DEF NoneToSpare
  <1>2. QED
    BY <1>1, Inductive, PTL

(* What is saved is a set of Way lines of one colour, but for the rest of  *)
(* the conflict set, saved last when the victims run out (finder.js 41-54).*)
THEOREM SavesEvictionSets == Spec => []SavedEvict
  <1>1. FInv => SavedEvict
    BY DEF FInv, Exact, Saved, OneColor, SavedEvict
  <1>2. QED
    BY <1>1, Inductive, PTL

(* A colour is found again only for a victim that was taken in the loop of *)
(* finder.js 143-149, behind the set of that colour, and no more often     *)
(* than the lines kept unasked (evset.js 142) make up eviction sets.       *)
THEOREM FindsAgain == Spec => []FoundAgain
  <1>1. FInv => FoundAgain
    <2> SUFFICES ASSUME FInv, ~noisy, NEW c \in Color
                 PROVE  \/ Cardinality(SetsOf(c)) <= 1
                        \/ Way * Cardinality(SetsOf(c)) <= unasked
      BY DEF FoundAgain, FInv, Exact, NewColors
    <2> DEFINE n == Cardinality(SetsOf(c))
               a == Cardinality(OfColor(refs, c))
    <2>1. /\ results \in Seq(SUBSET Elem) /\ Len(results) \in Nat
          /\ DOMAIN results = 1 .. Len(results) /\ refs \in SUBSET Elem
          /\ unasked \in Nat /\ Way \in Nat \ {0}
      BY LenProperties, ConflictAssumption DEF FInv, Types
    <2>2. IsFiniteSet(1 .. Len(results)) /\ Cardinality(1 .. Len(results)) = Len(results)
      BY <2>1, FS_Interval
    <2>3. n \in Nat /\ n <= Len(results) /\ a \in Nat
      <3>1. SetsOf(c) \subseteq 1 .. Len(results)
        BY <2>1 DEF SetsOf
      <3>2. QED
        <4>1. /\ IsFiniteSet(SetsOf(c))
              /\ Cardinality(SetsOf(c)) <= Cardinality(1 .. Len(results))
          BY <2>2, <3>1, FS_Subset
        <4>2. n \in Nat /\ a \in Nat
          BY <2>1, <4>1, FS_CardinalityType, FiniteLines
        <4>3. QED
          BY <2>2, <4>1, <4>2
    <2>4. CASE ~conflict
      <3>1. Len(results) <= 1
        BY <2>4 DEF FInv, Flow
      <3>2. QED
        BY <2>1, <2>3, <3>1
    <2>5. CASE conflict
      <3>1. a + Way * n <= Way \/ a + Way * n <= unasked
        BY <2>5 DEF FInv, Exact, Budget
      <3> HIDE DEF a, n
      <3>2. \/ n = 0 \/ n = 1
            \/ n - 2 \in Nat /\ Way * n = Way * (n - 2) + 2 * Way
                /\ Way * (n - 2) \in Nat
        BY <2>1, <2>3
      <3>3. Way * n \in Nat
        BY <2>1, <2>3
      <3>4. n <= 1 \/ Way * n <= unasked
        BY <2>1, <2>3, <3>1, <3>2, <3>3
      <3>5. QED
        BY <3>4 DEF n
    <2>6. QED
      BY <2>4, <2>5
  <1>2. QED
    BY <1>1, Inductive, PTL
=============================================================================
