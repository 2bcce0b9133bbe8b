------------------------ MODULE NaiveReductionProofs ------------------------
(***************************************************************************)
(* What holds of naive_eviction() and naive_eviction_optimistic() for      *)
(* every list, associativity, grouping of the lines and outcome of the     *)
(* tests.                                                                  *)
(***************************************************************************)
EXTENDS NaiveReduction, ListLemmas

(***************************************************************************)
(* The inductive invariant, in parts.                                      *)
(***************************************************************************)
LinkedOnce == /\ IsInjective(list) /\ IsInjective(can)
              /\ Range(list) \cap Range(can) = {}

LoopState ==
  /\ pc # "done" => verdict = "none"
  /\ pc \in {"collect", "short"} => optimistic
  /\ optimistic /\ (pc = "final" \/ verdict = "found") => Len(list) = Target

(* The last elen lines of the list are those found necessary, es the first *)
(* of them.                                                                *)
KeptBehind ==
  optimistic /\ pc \in {"loop", "collect"} =>
    /\ elen <= Len(list)
    /\ elen = 0 => es = Null
    /\ elen > 0 => /\ es \in Elem /\ list[Len(list) - elen + 1] = es
                   /\ Len(list) > Target \/ can # <<>>

Necessary ==
  optimistic /\ Exact /\ pc \in {"loop", "collect"} =>
    \A i \in Len(list) - elen + 1 .. Len(list) :
      ~Evicts(Range(list) \ {list[i]})

IInv == /\ TypeOK /\ LinkedOnce /\ LoopState /\ KeptBehind /\ Necessary
        /\ OptimisticKeeps /\ OneLineShort /\ NoNullWrite

-----------------------------------------------------------------------------
(* A line goes from the head of the list s to the top of the list c.       *)
LEMMA HeadAside ==
  ASSUME NEW s \in Seq(Elem), NEW c \in Seq(Elem), s # <<>>,
         IsInjective(s), IsInjective(c), Range(s) \cap Range(c) = {}
  PROVE  LET t == Tail(s)
             d == Push(Head(s), c)
         IN  /\ t \in Seq(Elem) /\ IsInjective(t)
             /\ d \in Seq(Elem) /\ IsInjective(d)
             /\ Range(t) \cap Range(d) = {}
             /\ Range(t) = Range(s) \ {Head(s)} /\ Head(s) \in Range(s)
             /\ Range(d) = {Head(s)} \cup Range(c)
             /\ Len(t) = Len(s) - 1 /\ Head(d) = Head(s) /\ d # <<>>
             /\ \A i \in 1 .. Len(s) - 1 : t[i] = s[i + 1]
  <1>1. /\ Tail(s) \in Seq(Elem) /\ IsInjective(Tail(s)) /\ Head(s) \in Elem
        /\ Range(Tail(s)) = Range(s) \ {Head(s)} /\ Head(s) \in Range(s)
        /\ Len(Tail(s)) = Len(s) - 1
        /\ \A i \in 1 .. Len(s) - 1 : Tail(s)[i] = s[i + 1]
    BY Beheaded
  <1>2. Head(s) \notin Range(c)
    BY <1>1
  <1> DEFINE h == Head(s)
  <1> HIDE DEF h
  <1>3. /\ <<h>> \o c \in Seq(Elem) /\ IsInjective(<<h>> \o c)
        /\ Range(<<h>> \o c) = {h} \cup Range(c)
        /\ Head(<<h>> \o c) = h /\ <<h>> \o c # <<>>
    BY <1>1, <1>2, InFront DEF h
  <1>4. Push(Head(s), c) = <<h>> \o c
    BY DEF Push, h
  <1>5. QED
    BY <1>1, <1>3, <1>4, Zenon DEF h

(* A line comes back from the top of c to the end of s.                    *)
LEMMA TopBack ==
  ASSUME NEW s \in Seq(Elem), NEW c \in Seq(Elem), c # <<>>,
         IsInjective(s), IsInjective(c), Range(s) \cap Range(c) = {}
  PROVE  LET t == Append(s, Head(c))
             d == Tail(c)
         IN  /\ t \in Seq(Elem) /\ IsInjective(t)
             /\ d \in Seq(Elem) /\ IsInjective(d)
             /\ Range(t) \cap Range(d) = {}
             /\ Range(t) = Range(s) \cup {Head(c)} /\ Head(c) \in Range(c)
             /\ Range(d) = Range(c) \ {Head(c)}
  <1>1. /\ Tail(c) \in Seq(Elem) /\ IsInjective(Tail(c)) /\ Head(c) \in Elem
        /\ Range(Tail(c)) = Range(c) \ {Head(c)} /\ Head(c) \in Range(c)
    BY Beheaded
  <1>2. Head(c) \notin Range(s)
    BY <1>1
  <1>3. /\ Append(s, Head(c)) \in Seq(Elem) /\ IsInjective(Append(s, Head(c)))
        /\ Range(Append(s, Head(c))) = Range(s) \cup {Head(c)}
    BY <1>1, <1>2, AtTheEnd
  <1>4. QED
    BY <1>1, <1>3

(* The head of s goes round to its end.                                    *)
LEMMA Rotated ==
  ASSUME NEW s \in Seq(Elem), s # <<>>, IsInjective(s)
  PROVE  LET t == Append(Tail(s), Head(s))
         IN  /\ t \in Seq(Elem) /\ IsInjective(t)
             /\ Range(t) = Range(s) /\ Len(t) = Len(s)
             /\ \A i \in 1 .. Len(s) - 1 : t[i] = s[i + 1]
             /\ t[Len(s)] = Head(s) /\ Head(s) \in Elem
             /\ Range(Tail(s)) = Range(s) \ {Head(s)}
  <1>1. /\ Tail(s) \in Seq(Elem) /\ IsInjective(Tail(s)) /\ Head(s) \in Elem
        /\ Range(Tail(s)) = Range(s) \ {Head(s)} /\ Head(s) \in Range(s)
        /\ Len(Tail(s)) = Len(s) - 1 /\ Len(s) \in Nat
        /\ \A i \in 1 .. Len(s) - 1 : Tail(s)[i] = s[i + 1]
    BY Beheaded
  <1> DEFINE u == Tail(s)
             h == Head(s)
  <1>2. u \in Seq(Elem) /\ h \in Elem /\ IsInjective(u) /\ h \notin Range(u)
    BY <1>1
  <1> HIDE DEF u, h
  <1>3. /\ Append(u, h) \in Seq(Elem) /\ Len(Append(u, h)) = Len(u) + 1
        /\ \A i \in 1 .. Len(u) : Append(u, h)[i] = u[i]
        /\ Append(u, h)[Len(u) + 1] = h
        /\ Range(Append(u, h)) = Range(u) \cup {h}
        /\ IsInjective(Append(u, h))
    BY <1>2, AtTheEnd
  <1>4. Len(u) = Len(s) - 1 /\ Len(u) + 1 = Len(s)
    BY <1>1 DEF u
  <1>5. QED
    BY <1>1, <1>3, <1>4 DEF u, h

(* Target lines none of which can be spared are an eviction set.           *)
LEMMA EnoughNecessary ==
  ASSUME NEW R, NEW N, Evicts(R), N \subseteq R, Cardinality(N) = Target,
         \A e \in N : ~Evicts(R \ {e})
  PROVE  Evicts(N)
  <1>1. PICK g \in groups : Cardinality(R \cap g) >= Target
    BY DEF Evicts
  <1>2. ASSUME NEW e \in N, e \notin g PROVE FALSE
    <2>1. (R \ {e}) \cap g = R \cap g
      BY <1>2
    <2>2. Evicts(R \ {e})
      BY <1>1, <2>1 DEF Evicts
    <2>3. QED
      BY <2>2
  <1>3. N \cap g = N
    BY <1>2
  <1>4. Cardinality(N \cap g) >= Target
    BY <1>3, TargetAssumption
  <1>5. QED
    BY <1>4 DEF Evicts

-----------------------------------------------------------------------------
(* What an answer tells when tests are exact.                              *)
LEMMA ExactAnswer ==
  ASSUME Exact, NEW S, NEW a \in Answers(S)
  PROVE  a = Evicts(S)
  BY DEF Exact, Answers

LEMMA InitInv == Init => IInv
  <1> SUFFICES ASSUME Init PROVE IInv
    OBVIOUS
  <1>1. /\ list \in Seq(Elem) /\ IsInjective(list) /\ can = <<>>
        /\ Len(list) \in Nat
    BY CandidatesAssumption, LenProperties DEF Init
  <1>2. TypeOK
    <2>1. TestTypeOK
      BY GroupingsAssumption DEF Init, TestTypeOK
    <2>2. can \in Seq(Elem)
      BY <1>1, EmptySeq
    <2>3. /\ pc = "loop" /\ fail = FALSE /\ verdict = "none"
          /\ repeat = 0 /\ elen = 0 /\ es = Null
      BY DEF Init
    <2>4. repeat \in 0 .. MaxRepsBack + 1 /\ elen \in 0 .. Target
      BY <2>3, MaxRepsBackAssumption, TargetAssumption
    <2>5. QED
      BY <1>1, <2>1, <2>2, <2>3, <2>4 DEF TypeOK
  <1>3. LinkedOnce /\ LoopState
    BY <1>1 DEF Init, LinkedOnce, LoopState, IsInjective, Range
  <1>4. KeptBehind /\ Necessary
    BY <1>1 DEF Init, KeptBehind, Necessary
  <1>5. OptimisticKeeps /\ OneLineShort /\ NoNullWrite
    BY DEF Init, OptimisticKeeps, OneLineShort, NoNullWrite, Trusted, Exact
  <1>6. QED
    BY <1>2, <1>3, <1>4, <1>5 DEF IInv

LEMMA Nonempty ==
  ASSUME TypeOK, Len(list) > Target
  PROVE  list # <<>>
  BY TargetAssumption, EmptySeq DEF TypeOK

LEMMA SetAsideInv == IInv /\ SetAside => IInv'
  <1> SUFFICES ASSUME IInv, SetAside PROVE IInv'
    OBVIOUS
  <1>1. /\ ~optimistic /\ pc = "loop" /\ list # <<>>
        /\ TRUE \in Answers(Range(list))
        /\ list' = Tail(list) /\ can' = Push(Head(list), can) /\ fail' = FALSE
        /\ UNCHANGED <<call, pc, repeat, elen, es, verdict>>
    BY Nonempty DEF SetAside, NaiveRound, IInv
  <1>2. /\ list' \in Seq(Elem) /\ IsInjective(list')
        /\ can' \in Seq(Elem) /\ IsInjective(can')
        /\ Range(list') \cap Range(can') = {}
        /\ Range(list') = Range(list) \ {Head(list)} /\ Head(list) \in Range(list)
        /\ Head(can') = Head(list) /\ can' # <<>>
    BY <1>1, HeadAside DEF IInv, TypeOK, LinkedOnce
  <1>3. TypeOK' /\ LinkedOnce'
    BY <1>1, <1>2 DEF IInv, TypeOK, TestTypeOK, LinkedOnce, call, testVars
  <1>4. LoopState' /\ KeptBehind' /\ Necessary' /\ OptimisticKeeps' /\ NoNullWrite'
    BY <1>1 DEF IInv, LoopState, KeptBehind, Necessary, OptimisticKeeps,
                NoNullWrite, call
  <1>5. OneLineShort'
    <2> SUFFICES ASSUME Exact
                 PROVE  repeat = 0 /\ Evicts(Range(list') \cup {Head(can')})
      BY <1>1, <1>2 DEF OneLineShort, Exact, Evicts, call, testVars
    <2>1. Evicts(Range(list)) /\ repeat = 0
      BY <1>1, ExactAnswer DEF IInv, OneLineShort
    <2>2. Range(list') \cup {Head(can')} = Range(list)
      BY <1>2
    <2>3. QED
      BY <2>1, <2>2
  <1>6. QED
    BY <1>3, <1>4, <1>5 DEF IInv

LEMMA TakeBackInv == IInv /\ TakeBack => IInv'
  <1> SUFFICES ASSUME IInv, TakeBack PROVE IInv'
    OBVIOUS
  <1>1. /\ ~optimistic /\ pc = "loop" /\ can # <<>>
        /\ FALSE \in Answers(Range(list))
        /\ list' = Append(list, Head(can)) /\ can' = Tail(can) /\ fail' = TRUE
        /\ UNCHANGED <<call, elen, es, verdict>>
        /\ \/ pc' = "final" /\ UNCHANGED repeat
           \/ pc' = pc /\ ~TooManySteps
                /\ repeat' = IF fail THEN repeat + 1 ELSE repeat
    BY DEF TakeBack, NaiveRound
  <1>2. /\ list' \in Seq(Elem) /\ IsInjective(list')
        /\ can' \in Seq(Elem) /\ IsInjective(can')
        /\ Range(list') \cap Range(can') = {}
        /\ Range(list') = Range(list) \cup {Head(can)}
    BY <1>1, TopBack DEF IInv, TypeOK, LinkedOnce
  <1>3. repeat' \in 0 .. MaxRepsBack + 1
    BY <1>1, MaxRepsBackAssumption DEF IInv, TypeOK, TooManySteps
  <1>4. TypeOK' /\ LinkedOnce'
    BY <1>1, <1>2, <1>3 DEF IInv, TypeOK, TestTypeOK, LinkedOnce, call, testVars
  <1>5. LoopState' /\ KeptBehind' /\ Necessary' /\ OptimisticKeeps' /\ NoNullWrite'
    BY <1>1 DEF IInv, LoopState, KeptBehind, Necessary, OptimisticKeeps,
                NoNullWrite, call
  <1>6. OneLineShort'
    <2> SUFFICES ASSUME Exact
                 PROVE  repeat' = 0 /\ Evicts(Range(list'))
      BY <1>1 DEF OneLineShort, Exact, Evicts, call, testVars
    <2>1. ~Evicts(Range(list))
      BY <1>1, ExactAnswer
    <2>2. Evicts(Range(list) \cup {Head(can)}) /\ ~fail /\ repeat = 0
      BY <1>1, <2>1 DEF IInv, OneLineShort
    <2>3. QED
      BY <1>1, <1>2, <2>2
  <1>7. QED
    BY <1>4, <1>5, <1>6 DEF IInv

(* Steps that only leave a loop, or say what the routine returns.          *)
LEMMA LeaveInv ==
  ASSUME IInv, UNCHANGED <<call, list, can, fail, repeat, elen, es>>,
         pc' \in {"loop", "collect", "short", "final", "done"},
         pc' \in {"loop", "collect"} => pc = "loop" \/ UNCHANGED pc,
         pc' = "final" => ~optimistic \/ UNCHANGED pc,
         pc' \in {"collect", "short"} => optimistic,
         pc' # "done" => verdict' = "none",
         verdict' \in {"none", "found", "failed"},
         verdict' = "found" => pc = "final" \/ UNCHANGED verdict
  PROVE  IInv'
  <1> USE DEF call, testVars
  <1>1. TypeOK' /\ LinkedOnce'
    BY DEF IInv, TypeOK, TestTypeOK, LinkedOnce
  <1>2. LoopState' /\ KeptBehind'
    BY DEF IInv, TypeOK, LoopState, KeptBehind
  <1>3. Necessary' /\ OptimisticKeeps'
    BY DEF IInv, Necessary, OptimisticKeeps, Exact, Evicts
  <1>4. OneLineShort' /\ NoNullWrite'
    BY DEF IInv, OneLineShort, NoNullWrite, Exact, Evicts
  <1>5. QED
    BY <1>1, <1>2, <1>3, <1>4 DEF IInv

LEMMA NothingToTakeBackInv == IInv /\ NothingToTakeBack => IInv'
  BY LeaveInv DEF NothingToTakeBack, NaiveRound, IInv, LoopState

LEMMA NaiveEndInv == IInv /\ NaiveEnd => IInv'
  BY LeaveInv DEF NaiveEnd, IInv, LoopState

LEMMA OptimisticEndInv == IInv /\ OptimisticEnd => IInv'
  BY LeaveInv DEF OptimisticEnd, IInv, LoopState

LEMMA ReturnShortInv == IInv /\ ReturnShort => IInv'
  BY LeaveInv DEF ReturnShort

LEMMA FinalTestInv == IInv /\ FinalTest => IInv'
  BY LeaveInv DEF FinalTest

LEMMA StutterInv == IInv /\ UNCHANGED vars => IInv'
  BY LeaveInv DEF vars, IInv, TypeOK, NoNullWrite, LoopState

LEMMA DiscardInv == IInv /\ Discard => IInv'
  <1> SUFFICES ASSUME IInv, Discard PROVE IInv'
    OBVIOUS
  <1>1. /\ optimistic /\ pc = "loop" /\ list # <<>>
        /\ elen < Target /\ Len(list) > Target
        /\ TRUE \in Answers(Range(Tail(list)))
        /\ list' = Tail(list) /\ can' = Push(Head(list), can)
        /\ UNCHANGED <<call, pc, fail, repeat, elen, es, verdict>>
    BY Nonempty DEF Discard, OptimisticRound, IInv
  <1>2. /\ list' \in Seq(Elem) /\ IsInjective(list')
        /\ can' \in Seq(Elem) /\ IsInjective(can')
        /\ Range(list') \cap Range(can') = {} /\ can' # <<>>
        /\ Range(list') = Range(list) \ {Head(list)}
        /\ Len(list') = Len(list) - 1
        /\ \A i \in 1 .. Len(list) - 1 : list'[i] = list[i + 1]
    BY <1>1, HeadAside DEF IInv, TypeOK, LinkedOnce
  <1>3. elen \in Nat /\ Target \in Nat /\ Len(list) \in Nat
    BY TargetAssumption, LenProperties DEF IInv, TypeOK
  <1>4. TypeOK' /\ LinkedOnce'
    BY <1>1, <1>2 DEF IInv, TypeOK, TestTypeOK, LinkedOnce, call, testVars
  <1>5. LoopState' /\ OneLineShort' /\ NoNullWrite'
    BY <1>1 DEF IInv, LoopState, OneLineShort, NoNullWrite, call
  <1>6. KeptBehind'
    <2>1. elen > 0 => list'[Len(list') - elen + 1] = list[Len(list) - elen + 1]
      BY <1>1, <1>2, <1>3
    <2>2. QED
      BY <1>1, <1>2, <1>3, <2>1 DEF IInv, KeptBehind, call
  <1>7. Exact => Evicts(Range(list'))
    BY <1>1, ExactAnswer
  <1>8. OptimisticKeeps'
    BY <1>1, <1>7 DEF OptimisticKeeps, Exact, Evicts, call, testVars
  <1>9. Necessary'
    <2> SUFFICES ASSUME Exact, NEW i \in Len(list') - elen + 1 .. Len(list')
                 PROVE  ~Evicts(Range(list') \ {list'[i]})
      BY <1>1 DEF Necessary, Exact, Evicts, call, testVars
    <2>1. /\ i + 1 \in Len(list) - elen + 1 .. Len(list)
          /\ i \in 1 .. Len(list) - 1
      BY <1>1, <1>2, <1>3
    <2>2. list'[i] = list[i + 1]
      BY <1>2, <2>1
    <2>3. ~Evicts(Range(list) \ {list'[i]})
      BY <1>1, <2>1, <2>2 DEF IInv, Necessary
    <2>4. Range(list') \ {list'[i]} \subseteq Range(list) \ {list'[i]}
      BY <1>2
    <2>5. IsFiniteSet(Range(list) \ {list'[i]})
      BY FiniteRange, FS_Difference DEF IInv, TypeOK
    <2>6. QED
      BY <2>3, <2>4, <2>5, EvictsGrows
  <1>10. QED
    BY <1>4, <1>5, <1>6, <1>8, <1>9 DEF IInv

LEMMA KeepInv == IInv /\ Keep => IInv'
  <1> SUFFICES ASSUME IInv, Keep PROVE IInv'
    OBVIOUS
  <1>1. /\ optimistic /\ pc = "loop" /\ list # <<>>
        /\ elen < Target /\ Len(list) > Target
        /\ FALSE \in Answers(Range(Tail(list)))
        /\ list' = Append(Tail(list), Head(list))
        /\ elen' = elen + 1
        /\ es' = IF es = Null THEN Head(list) ELSE es
        /\ UNCHANGED <<call, pc, can, fail, repeat, verdict>>
    BY Nonempty DEF Keep, OptimisticRound, IInv
  <1>2. /\ list' \in Seq(Elem) /\ IsInjective(list')
        /\ Range(list') = Range(list) /\ Len(list') = Len(list)
        /\ \A i \in 1 .. Len(list) - 1 : list'[i] = list[i + 1]
        /\ list'[Len(list)] = Head(list) /\ Head(list) \in Elem
        /\ Range(Tail(list)) = Range(list) \ {Head(list)}
    BY <1>1, Rotated DEF IInv, TypeOK, LinkedOnce
  <1>3. elen \in Nat /\ Target \in Nat /\ Len(list) \in Nat
    BY TargetAssumption, LenProperties DEF IInv, TypeOK
  <1>4. TypeOK' /\ LinkedOnce'
    BY <1>1, <1>2, <1>3 DEF IInv, TypeOK, TestTypeOK, LinkedOnce, call, testVars
  <1>5. LoopState' /\ OneLineShort' /\ NoNullWrite'
    BY <1>1 DEF IInv, LoopState, OneLineShort, NoNullWrite, call
  <1>6. KeptBehind'
    <2>1. list'[Len(list') - elen' + 1] = es' /\ es' \in Elem
      <3>1. CASE elen = 0
        BY <1>1, <1>2, <1>3, <3>1 DEF IInv, KeptBehind
      <3>2. CASE elen > 0
        <4>1. /\ es # Null /\ es \in Elem /\ es' = es
              /\ list[Len(list) - elen + 1] = es
          BY <1>1, <3>2, NullAssumption DEF IInv, KeptBehind
        <4>2. /\ Len(list') - elen' + 1 \in 1 .. Len(list) - 1
              /\ (Len(list') - elen' + 1) + 1 = Len(list) - elen + 1
          BY <1>1, <1>2, <1>3, <3>2
        <4>3. QED
          BY <1>2, <4>1, <4>2
      <3>3. QED
        BY <1>3, <3>1, <3>2
    <2>2. elen' > 0 /\ elen' <= Len(list') /\ Len(list') > Target
      BY <1>1, <1>2, <1>3
    <2>3. elen' # 0
      BY <1>1, <1>3
    <2>4. QED
      BY <2>1, <2>2, <2>3 DEF KeptBehind
  <1>7. OptimisticKeeps'
    BY <1>1, <1>2 DEF IInv, OptimisticKeeps, Exact, Evicts, call, testVars
  <1>8. Necessary'
    <2> SUFFICES ASSUME Exact, NEW i \in Len(list') - elen' + 1 .. Len(list')
                 PROVE  ~Evicts(Range(list) \ {list'[i]})
      BY <1>1, <1>2 DEF Necessary, Exact, Evicts, call, testVars
    <2>1. CASE i = Len(list)
      <3>1. ~Evicts(Range(Tail(list)))
        BY <1>1, ExactAnswer
      <3>2. QED
        BY <1>2, <2>1, <3>1
    <2>2. CASE i # Len(list)
      <3> DEFINE n == Len(list)
                 m == elen
      <3>1. /\ n \in Nat /\ m \in Nat /\ Target \in Nat /\ m < Target /\ n > Target
            /\ i \in n - (m + 1) + 1 .. n /\ i # n
        BY <1>1, <1>2, <1>3, <2>2
      <3> HIDE DEF n, m
      <3>2. /\ i \in 1 .. n - 1 /\ i + 1 \in n - m + 1 .. n
        BY <3>1
      <3>3. /\ i \in 1 .. Len(list) - 1
            /\ i + 1 \in Len(list) - elen + 1 .. Len(list)
        BY <3>2 DEF n, m
      <3>4. QED
        BY <1>1, <1>2, <3>3 DEF IInv, Necessary
    <2>3. QED
      BY <2>1, <2>2
  <1>9. QED
    BY <1>4, <1>5, <1>6, <1>7, <1>8 DEF IInv

(* Two lists with no line in common put one behind the other.              *)
LEMMA PutTogether ==
  ASSUME NEW c \in Seq(Elem), NEW s \in Seq(Elem),
         IsInjective(c), IsInjective(s), Range(c) \cap Range(s) = {}
  PROVE  /\ c \o s \in Seq(Elem) /\ IsInjective(c \o s)
         /\ Range(c \o s) = Range(c) \cup Range(s)
         /\ Len(c \o s) = Len(c) + Len(s)
  BY JoinInjective, RangeConcatenation, ConcatProperties

LEMMA ShortInv == IInv /\ Short => IInv'
  <1> SUFFICES ASSUME IInv, Short PROVE IInv'
    OBVIOUS
  <1>1. /\ pc = "collect" /\ optimistic
        /\ can' = can \o list /\ list' = <<>> /\ pc' = "short"
        /\ UNCHANGED <<call, fail, repeat, elen, es, verdict>>
    BY DEF Short, IInv, LoopState
  <1>2. can' \in Seq(Elem) /\ IsInjective(can')
    BY <1>1, PutTogether DEF IInv, TypeOK, LinkedOnce
  <1>3. list' \in Seq(Elem) /\ IsInjective(list') /\ Range(list') = {}
    BY <1>1, EmptySeq DEF IsInjective, Range
  <1>4. TypeOK'
    BY <1>1, <1>2, <1>3 DEF IInv, TypeOK, TestTypeOK, call, testVars
  <1>5. LinkedOnce'
    BY <1>2, <1>3 DEF LinkedOnce
  <1>6. LoopState' /\ KeptBehind' /\ Necessary' /\ OptimisticKeeps'
        /\ OneLineShort' /\ NoNullWrite'
    BY <1>1 DEF IInv, LoopState, KeptBehind, Necessary, OptimisticKeeps,
                OneLineShort, NoNullWrite, call
  <1>7. QED
    BY <1>4, <1>5, <1>6 DEF IInv

(* What Collect() finds: the lines behind es are the last Target of the    *)
(* list, some line is in front of them or already in *can, and they evict  *)
(* when the list does.                                                     *)
LEMMA Collected ==
  ASSUME IInv, Collect
  PROVE  /\ list' \in Seq(Elem) /\ can' \in Seq(Elem)
         /\ IsInjective(list') /\ IsInjective(can')
         /\ Range(list') \cap Range(can') = {}
         /\ Range(list') \cup Range(can') = Range(list) \cup Range(can)
         /\ Len(list') = Target /\ pc' = "final"
         /\ Exact => Evicts(Range(list'))
  <1>1. /\ pc = "collect" /\ optimistic /\ elen >= Target
        /\ can' = can \o SubSeq(list, 1, EsAt - 1)
        /\ list' = SubSeq(list, EsAt, Len(list))
        /\ pc' = IF can' = <<>> THEN "crash" ELSE "final"
    BY DEF Collect, IInv, LoopState
  <1>2. /\ list \in Seq(Elem) /\ can \in Seq(Elem)
        /\ IsInjective(list) /\ IsInjective(can)
        /\ Range(list) \cap Range(can) = {}
        /\ Len(list) \in Nat /\ Len(can) \in Nat /\ DOMAIN list = 1 .. Len(list)
        /\ Target \in Nat \ {0} /\ elen = Target
    BY <1>1, TargetAssumption, LenProperties DEF IInv, TypeOK, LinkedOnce
  <1> DEFINE k == Len(list) - Target + 1
  <1>3. /\ Target <= Len(list) /\ list[k] = es
        /\ Len(list) > Target \/ can # <<>>
    BY <1>1, <1>2 DEF IInv, KeptBehind
  <1>4. /\ k \in 1 .. Len(list) /\ k \in 1 .. Len(list) + 1 /\ k \in Int
        /\ Len(list) - k + 1 = Target
        /\ Len(list) > Target => k - 1 > 0
    BY <1>2, <1>3
  <1> HIDE DEF k
  <1>5. EsAt = k
    <2>1. k \in DOMAIN list
      BY <1>2, <1>4
    <2>2. \A i \in DOMAIN list : list[i] = es => i = k
      BY <1>2, <1>3, <2>1, Zenon DEF IsInjective
    <2>3. QED
      BY <1>3, <2>1, <2>2, Zenon DEF EsAt
  <1> DEFINE front == SubSeq(list, 1, k - 1)
             rear == SubSeq(list, k, Len(list))
  <1>6. /\ front \in Seq(Elem) /\ Len(front) = k - 1
        /\ rear \in Seq(Elem) /\ Len(rear) = Len(list) - k + 1
        /\ Range(rear) = {list[i] : i \in k .. Len(list)}
        /\ Range(list) = Range(front) \cup Range(rear)
        /\ IsInjective(front) /\ IsInjective(rear)
        /\ Range(front) \cap Range(rear) = {}
    BY <1>2, <1>4, CutInTwo
  <1> HIDE DEF front, rear
  <1>7. list' = rear /\ can' = can \o front
    BY <1>1, <1>5 DEF front, rear
  <1>8. /\ can \o front \in Seq(Elem) /\ IsInjective(can \o front)
        /\ Range(can \o front) = Range(can) \cup Range(front)
        /\ Len(can \o front) = Len(can) + Len(front)
    BY <1>2, <1>6, PutTogether
  <1>9. pc' = "final"
    <2>1. /\ Len(can') = Len(can) + (k - 1) /\ k - 1 \in Nat
          /\ can' \in Seq(Elem)
      BY <1>4, <1>6, <1>7, <1>8
    <2>2. Len(can) > 0 \/ k - 1 > 0
      BY <1>2, <1>3, <1>4, EmptySeq
    <2>3. Len(can') > 0
      BY <1>2, <2>1, <2>2
    <2>4. can' # <<>>
      BY <2>3, EmptySeq
    <2>5. QED
      BY <1>1, <2>4
  <1>10. ASSUME Exact PROVE Evicts(Range(rear))
    <2>1. Evicts(Range(list))
      BY <1>1, <1>10 DEF IInv, OptimisticKeeps
    <2>2. Cardinality(Range(rear)) = Target /\ Range(rear) \subseteq Range(list)
      BY <1>4, <1>6, InjectiveCount
    <2>3. ASSUME NEW e \in Range(rear) PROVE ~Evicts(Range(list) \ {e})
      <3>1. PICK i \in k .. Len(list) : e = list[i]
        BY <1>6
      <3>2. i \in Len(list) - elen + 1 .. Len(list)
        BY <1>2, <3>1 DEF k
      <3>3. QED
        BY <1>1, <1>10, <3>1, <3>2 DEF IInv, Necessary
    <2>4. QED
      BY <2>1, <2>2, <2>3, EnoughNecessary
  <1>11. QED
    BY <1>2, <1>4, <1>6, <1>7, <1>8, <1>9, <1>10

LEMMA CollectInv == IInv /\ Collect => IInv'
  <1> SUFFICES ASSUME IInv, Collect PROVE IInv'
    OBVIOUS
  <1>1. /\ pc = "collect" /\ optimistic /\ verdict = "none"
        /\ UNCHANGED <<call, fail, repeat, elen, es, verdict>>
    BY DEF Collect, IInv, LoopState
  <1>2. /\ list' \in Seq(Elem) /\ can' \in Seq(Elem)
        /\ IsInjective(list') /\ IsInjective(can')
        /\ Range(list') \cap Range(can') = {}
        /\ Len(list') = Target /\ pc' = "final"
        /\ Exact => Evicts(Range(list'))
    BY Collected
  <1>3. TypeOK' /\ LinkedOnce'
    BY <1>1, <1>2 DEF IInv, TypeOK, TestTypeOK, LinkedOnce, call, testVars
  <1>4. LoopState' /\ KeptBehind' /\ Necessary' /\ OneLineShort' /\ NoNullWrite'
    BY <1>1, <1>2 DEF IInv, LoopState, KeptBehind, Necessary, OneLineShort,
                      NoNullWrite, call
  <1>5. OptimisticKeeps'
    BY <1>1, <1>2 DEF OptimisticKeeps, Exact, Evicts, call, testVars
  <1>6. QED
    BY <1>3, <1>4, <1>5 DEF IInv

LEMMA StepInv == IInv /\ [Next]_vars => IInv'
  BY SetAsideInv, NothingToTakeBackInv, TakeBackInv, NaiveEndInv, DiscardInv,
     KeepInv, OptimisticEndInv, ShortInv, ReturnShortInv, CollectInv,
     FinalTestInv, StutterInv DEF Next

(* What the loops of both routines keep true from round to round: where    *)
(* every line is, and what exact tests have told (algorithms.c 21-60,      *)
(* 107-138).                                                               *)
THEOREM Inductive == Spec => []IInv
  <1>1. QED
    BY InitInv, StepInv, PTL DEF Spec

-----------------------------------------------------------------------------
(* Both routines only handle lines of the list they were called with, and  *)
(* their counters stay in range: repeat at MAX_REPS_BACK + 1 and elen at   *)
(* the associativity (algorithms.c 8-84, 100-175).                         *)
THEOREM TypeCorrect == Spec => []TypeOK
  BY Inductive, PTL DEF IInv

(* Whatever the list and the grouping, the naive routine with exact timing *)
(* is at most the line on top of *can away from an evicting list: it never *)
(* backtracks and always has the line to take back.                        *)
THEOREM NeverBacktracks == Spec => []OneLineShort
  BY Inductive, PTL DEF IInv

(* With exact timing the optimistic routine works on an evicting list up   *)
(* to its last test: in particular what lies behind es when it has found   *)
(* Target lines necessary is itself an eviction set.                       *)
THEOREM KeepsEvicting == Spec => []OptimisticKeeps
  BY Inductive, PTL DEF IInv

(* The unguarded es->prev->next = NULL of the optimistic routine is safe   *)
(* for every list and every outcome of the tests.                          *)
THEOREM NeverWritesNull == Spec => []NoNullWrite
  BY Inductive, PTL DEF IInv

(* A set the optimistic routine reports found has exactly the lines of the *)
(* associativity, though it does not look at the length again, also when   *)
(* the tests are noisy.                                                    *)
THEOREM FoundIsMinimal == Spec => []JustTheNecessary
  <1>1. IInv => JustTheNecessary
    BY DEF IInv, LoopState, JustTheNecessary
  <1>2. QED
    BY <1>1, Inductive, PTL
-----------------------------------------------------------------------------
(* The refinement of Reduction: a line only moves between *ptr and *can.   *)
LEMMA SameCount ==
  ASSUME NEW S
  PROVE  Contract!Cardinality(S) = Cardinality(S)
  BY DEF Cardinality, Contract!Cardinality, IsFiniteSet, Contract!IsFiniteSet

LEMMA SameTrust ==
  ASSUME NEW S
  PROVE  /\ Contract!Evicts(S) <=> Evicts(S)
         /\ Contract!Trusted(S) <=> Trusted(S)
  BY SameCount DEF Evicts, Trusted, Contract!Evicts, Contract!Trusted

LEMMA InitRefines == Init => Contract!Init
  <1> SUFFICES ASSUME Init PROVE Contract!Init
    OBVIOUS
  <1>1. TypeOK /\ can = <<>> /\ verdict = "none"
    BY InitInv DEF Init, IInv
  <1>2. Range(list) \subseteq Elem
    BY <1>1, RangeOfSeq DEF TypeOK
  <1>3. Range(can) = {}
    BY <1>1 DEF Range
  <1>4. Contract!TestTypeOK
    BY <1>1 DEF TypeOK, TestTypeOK, Contract!TestTypeOK
  <1>5. QED
    BY <1>1, <1>2, <1>3, <1>4 DEF Contract!Init

(* Every step that handles the lists, under an invariant that tells which  *)
(* lines they hold after it.                                               *)
LEMMA Moved ==
  ASSUME LinkedOnce', verdict = "none", UNCHANGED <<call, verdict>>,
         Range(list)' \cup Range(can)' = Range(list) \cup Range(can)
  PROVE  Contract!Next
  <1>1. /\ Range(list)' \in SUBSET (Range(list) \cup Range(can))
        /\ Range(can)' = (Range(list) \cup Range(can)) \ Range(list)'
    BY DEF LinkedOnce
  <1>2. Contract!Move
    BY <1>1 DEF Contract!Move, Contract!testVars, call, testVars
  <1>3. QED
    BY <1>2 DEF Contract!Next

LEMMA FinalTestRefines ==
  ASSUME IInv, FinalTest
  PROVE  Contract!Next
  <1>1. PICK ok \in Answers(Range(list)) :
          verdict' = IF ok /\ (optimistic \/ Len(list) <= Target)
                       THEN "found" ELSE "failed"
    BY DEF FinalTest
  <1>2. /\ verdict = "none"
        /\ optimistic => Len(list) = Target
        /\ UNCHANGED <<call, list, can>>
    BY DEF FinalTest, IInv, LoopState
  <1>3. CASE ok /\ (optimistic \/ Len(list) <= Target)
    <2>1. Cardinality(Range(list)) <= Target
      <3>1. Len(list) <= Target /\ Len(list) \in Nat /\ Target \in Nat
        BY <1>2, <1>3, TargetAssumption, LenProperties DEF IInv, TypeOK
      <3>2. Cardinality(Range(list)) = Len(list)
        BY InjectiveCount DEF IInv, TypeOK, LinkedOnce
      <3>3. QED
        BY <3>1, <3>2
    <2>2. Trusted(Range(list))
      BY <1>3 DEF Answers, Trusted
    <2>3. Contract!Cardinality(Range(list)) <= Target /\ Contract!Trusted(Range(list))
      BY <2>1, <2>2, SameCount, SameTrust
    <2>4. Contract!Succeed
      BY <1>1, <1>2, <1>3, <2>3
      DEF Contract!Succeed, Contract!testVars, call, testVars
    <2>5. QED
      BY <2>4 DEF Contract!Next
  <1>4. CASE ~(ok /\ (optimistic \/ Len(list) <= Target))
    <2>1. Contract!Fail
      BY <1>1, <1>2, <1>4 DEF Contract!Fail, Contract!testVars, call, testVars
    <2>2. QED
      BY <2>1 DEF Contract!Next
  <1>5. QED
    BY <1>3, <1>4

LEMMA StepRefines == IInv /\ [Next]_vars => [Contract!Next]_(Contract!vars)
  <1> SUFFICES ASSUME IInv, [Next]_vars
               PROVE  Contract!Next \/ UNCHANGED Contract!vars
    BY Zenon
  <1>1. IInv'
    BY StepInv
  <1>2. LinkedOnce' /\ list \in Seq(Elem) /\ can \in Seq(Elem)
        /\ IsInjective(list) /\ IsInjective(can)
        /\ Range(list) \cap Range(can) = {}
    BY <1>1 DEF IInv, TypeOK, LinkedOnce
  <1>3. ASSUME UNCHANGED <<call, list, can, verdict>>
        PROVE  UNCHANGED Contract!vars
    BY <1>3 DEF Contract!vars, call, testVars
  <1>4. CASE SetAside
    <2>1. /\ list # <<>> /\ list' = Tail(list) /\ can' = Push(Head(list), can)
          /\ verdict = "none" /\ UNCHANGED <<call, verdict>>
      BY <1>4, Nonempty DEF SetAside, NaiveRound, IInv, LoopState
    <2>2. Range(list)' \cup Range(can)' = Range(list) \cup Range(can)
      BY <1>2, <2>1, HeadAside
    <2>3. QED
      BY <1>2, <2>1, <2>2, Moved
  <1>5. CASE TakeBack
    <2>1. /\ can # <<>> /\ list' = Append(list, Head(can)) /\ can' = Tail(can)
          /\ verdict = "none" /\ UNCHANGED <<call, verdict>>
      BY <1>5 DEF TakeBack, NaiveRound, IInv, LoopState
    <2>2. Range(list)' \cup Range(can)' = Range(list) \cup Range(can)
      BY <1>2, <2>1, TopBack
    <2>3. QED
      BY <1>2, <2>1, <2>2, Moved
  <1>6. CASE Discard
    <2>1. /\ list # <<>> /\ list' = Tail(list) /\ can' = Push(Head(list), can)
          /\ verdict = "none" /\ UNCHANGED <<call, verdict>>
      BY <1>6, Nonempty DEF Discard, OptimisticRound, IInv, LoopState
    <2>2. Range(list)' \cup Range(can)' = Range(list) \cup Range(can)
      BY <1>2, <2>1, HeadAside
    <2>3. QED
      BY <1>2, <2>1, <2>2, Moved
  <1>7. CASE Keep
    <2>1. /\ list # <<>> /\ list' = Append(Tail(list), Head(list))
          /\ verdict = "none" /\ UNCHANGED <<call, can, verdict>>
      BY <1>7, Nonempty DEF Keep, OptimisticRound, IInv, LoopState
    <2>2. Range(list)' \cup Range(can)' = Range(list) \cup Range(can)
      BY <1>2, <2>1, Rotated
    <2>3. QED
      BY <1>2, <2>1, <2>2, Moved
  <1>8. CASE Short
    <2>1. /\ can' = can \o list /\ list' = <<>>
          /\ verdict = "none" /\ UNCHANGED <<call, verdict>>
      BY <1>8 DEF Short, IInv, LoopState
    <2>2. Range(can') = Range(can) \cup Range(list)
      BY <1>2, <2>1, RangeConcatenation
    <2>3. Range(list') = {}
      BY <2>1 DEF Range
    <2>4. Range(list)' \cup Range(can)' = Range(list) \cup Range(can)
      BY <2>2, <2>3
    <2>5. QED
      BY <1>2, <2>1, <2>4, Moved
  <1>9. CASE Collect
    <2>1. verdict = "none" /\ UNCHANGED <<call, verdict>>
      BY <1>9 DEF Collect, IInv, LoopState
    <2>2. Range(list)' \cup Range(can)' = Range(list) \cup Range(can)
      BY <1>9, Collected
    <2>3. QED
      BY <1>2, <2>1, <2>2, Moved
  <1>10. CASE ReturnShort
    <2>1. Contract!Fail
      BY <1>10 DEF ReturnShort, IInv, LoopState, Contract!Fail,
                   Contract!testVars, call, testVars
    <2>2. QED
      BY <2>1 DEF Contract!Next
  <1>11. CASE FinalTest
    BY <1>11, FinalTestRefines
  <1>12. CASE NothingToTakeBack \/ NaiveEnd \/ OptimisticEnd \/ UNCHANGED vars
    BY <1>3, <1>12 DEF NothingToTakeBack, NaiveEnd, OptimisticEnd, vars
  <1>13. QED
    BY <1>4, <1>5, <1>6, <1>7, <1>8, <1>9, <1>10, <1>11, <1>12 DEF Next

(* Both routines are reductions as find_evsets() uses them, whatever the   *)
(* tests answer: no line is lost or in both lists at any moment, and what  *)
(* is found has at most Target lines.                                      *)
THEOREM Refinement == Spec => IsReduction
  <1>1. Init => Contract!Init
    BY InitRefines
  <1>2. IInv /\ [Next]_vars => [Contract!Next]_(Contract!vars)
    BY StepRefines
  <1>3. QED
    BY <1>1, <1>2, Inductive, PTL DEF Spec, IsReduction, Contract!Spec
=============================================================================
