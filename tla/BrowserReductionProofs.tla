----------------------- MODULE BrowserReductionProofs -----------------------
(***************************************************************************)
(* Proofs about module BrowserReduction: the chain of addresses that the   *)
(* timed code follows is the array refs after every step, and the browser  *)
(* port implements the safety part of the contract of a reduction.         *)
(***************************************************************************)
EXTENDS BrowserReduction, ListLemmas

(***************************************************************************)
(* Chains in memory.                                                       *)
(***************************************************************************)
First(s) == IF s = <<>> THEN Null ELSE s[1]

(* What is linked in this order is what the timed code runs through.       *)
LEMMA Chains ==
  ASSUME NEW mem \in [Elem -> Ptr], NEW s \in Seq(Elem), IsInjective(s),
         Linked(mem, s, Null)
  PROVE  Chain([next |-> mem], First(s)) = s
  <1> DEFINE n == Cardinality(Elem)
  <1>1. n \in Nat /\ Len(s) \in Nat /\ Len(s) <= n
    <2>1. Range(s) \subseteq Elem /\ Cardinality(Range(s)) = Len(s)
      BY RangeOfSeq, InjectiveCount
    <2>2. QED
      BY <2>1, ElemAssumption, FS_Subset, FS_CardinalityType, LenProperties
  <1>2. \A p : Chain([next |-> mem], p) = Walk(mem, Null, p, Null, n)
    BY DEF Chain, Upto
  <1> HIDE DEF n
  <1>3. Ptr = Elem \cup {Null} /\ Null \notin Elem
    BY NullAssumption DEF Ptr
  <1>4. CASE s = <<>>
    BY <1>1, <1>2, <1>3, <1>4, WalkAlong DEF First
  <1>5. CASE s # <<>>
    <2>1. \A i \in 1 .. Len(s) - 1 : mem[s[i]] = s[i + 1] /\ s[i + 1] # Null
      BY <1>1, <1>3, ElementOfSeq DEF Linked
    <2>2. mem[s[Len(s)]] \in {Null, Null}
      BY <1>5 DEF Linked
    <2>3. Len(s) <= n + 1
      BY <1>1
    <2>4. Walk(mem, Null, s[1], Null, n) = s
      BY <1>1, <1>3, <1>5, <2>1, <2>2, <2>3, WalkAlong
    <2>5. QED
      BY <1>2, <1>5, <2>4 DEF First
  <1>6. QED
    BY <1>4, <1>5

-----------------------------------------------------------------------------
(***************************************************************************)
(* The object: refs, what is set aside, and the memory.                    *)
(***************************************************************************)
Object == [refs : Seq(Elem), ptr : Ptr, del : Seq(Seq(Elem)),
           mem : [Elem -> Ptr]]

Aside(ev) == UNION {Range(ev.del[k]) : k \in DOMAIN ev.del}

(* Every chunk set aside has lines, which are its own, and is a chain.     *)
SoundChunks(ev) ==
  /\ \A k \in DOMAIN ev.del : /\ ev.del[k] # <<>> /\ IsInjective(ev.del[k])
                              /\ Linked(ev.mem, ev.del[k], Null)
                              /\ Range(ev.del[k]) \cap Range(ev.refs) = {}
  /\ \A j, k \in DOMAIN ev.del :
       j # k => Range(ev.del[j]) \cap Range(ev.del[k]) = {}

Sound(ev) == /\ ev \in Object
             /\ IsInjective(ev.refs)
             /\ Linked(ev.mem, ev.refs, Null)
             /\ ev.ptr = First(ev.refs)
             /\ SoundChunks(ev)

LEMMA InPtr == Elem \subseteq Ptr /\ Null \in Ptr /\ Null \notin Elem
  BY NullAssumption DEF Ptr

LEMMA FirstType == ASSUME NEW s \in Seq(Elem) PROVE First(s) \in Ptr
  <1>1. CASE s = <<>>
    BY <1>1, InPtr DEF First
  <1>2. CASE s # <<>>
    <2>1. 1 \in 1 .. Len(s)
      BY <1>2, EmptySeq
    <2>2. QED
      BY <1>2, <2>1, ElementOfSeq, InPtr DEF First
  <1>3. QED
    BY <1>1, <1>2

LEMMA LastLine ==
  ASSUME NEW s \in Seq(Elem), s # <<>>
  PROVE  /\ Len(s) \in Nat \ {0} /\ Last(s) = s[Len(s)]
         /\ Last(s) \in Elem /\ Last(s) \in Range(s)
         /\ s[1] \in Elem /\ s[1] \in Range(s)
         /\ IsInjective(s) => \A i \in 1 .. Len(s) - 1 : s[i] # Last(s)
  <1>1. Len(s) \in Nat \ {0} /\ DOMAIN s = 1 .. Len(s) /\ Last(s) = s[Len(s)]
    BY EmptySeq, LenProperties DEF Last
  <1>2. Len(s) \in 1 .. Len(s) /\ 1 \in 1 .. Len(s)
    BY <1>1
  <1>3. QED
    BY <1>1, <1>2, ElementOfSeq DEF Range, IsInjective

(* The list s is a, the chunk q and z.                                     *)
Between(s, a, q, z) == s = (a \o q) \o z

(* The chunk taken out stood between a and z.                              *)
LEMMA UnlinkChunk ==
  ASSUME NEW ev, Sound(ev), NEW a \in Seq(Elem), NEW q \in Seq(Elem),
         NEW z \in Seq(Elem), q # <<>>, Between(ev.refs, a, q, z)
  PROVE  LET after == Unlink(ev, q)
         IN  /\ Sound(after)
             /\ after.refs = a \o z
             /\ after.del = Append(ev.del, q)
             /\ \A e \in Elem \ Range(ev.refs) : after.mem[e] = ev.mem[e]
  <1> DEFINE aq == a \o q
             s == CHOOSE k \in DOMAIN ev.refs : ev.refs[k] = q[1]
             rest == SubSeq(ev.refs, 1, s - 1)
                       \o SubSeq(ev.refs, s + Len(q), Len(ev.refs))
             behind == IF s > Len(rest) THEN Null ELSE rest[s]
             ended == [ev.mem EXCEPT ![Last(q)] = Null]
             mem2 == IF s = 1 THEN ended ELSE [ended EXCEPT ![rest[s - 1]] = behind]
             after == Unlink(ev, q)
  <1>1. /\ ev \in Object /\ IsInjective(ev.refs) /\ Linked(ev.mem, ev.refs, Null)
        /\ ev.ptr = First(ev.refs) /\ ev.refs \in Seq(Elem)
        /\ ev.mem \in [Elem -> Ptr] /\ ev.del \in Seq(Seq(Elem)) /\ SoundChunks(ev)
    BY DEF Sound, Object
  <1>2. /\ aq \in Seq(Elem) /\ Len(aq) = Len(a) + Len(q)
        /\ Len(a) \in Nat /\ Len(q) \in Nat \ {0} /\ Len(z) \in Nat
        /\ Len(ev.refs) = Len(a) + Len(q) + Len(z)
        /\ ev.refs = aq \o z
    BY TakenApart, EmptySeq DEF Between
  <1>3. /\ IsInjective(aq) /\ IsInjective(a) /\ IsInjective(q) /\ IsInjective(z)
        /\ Range(aq) = Range(a) \cup Range(q)
        /\ Range(a) \cap Range(q) = {}
        /\ Range(a) \cap Range(z) = {} /\ Range(q) \cap Range(z) = {}
        /\ Range(ev.refs) = Range(a) \cup Range(q) \cup Range(z)
    <2>1. IsInjective(aq) /\ IsInjective(z) /\ Range(aq) \cap Range(z) = {}
            /\ Range(ev.refs) = Range(aq) \cup Range(z)
      <3> HIDE DEF aq
      <3>1. QED
        BY <1>1, <1>2, TakenApart
    <2>2. IsInjective(a) /\ IsInjective(q) /\ Range(a) \cap Range(q) = {}
            /\ Range(aq) = Range(a) \cup Range(q)
      BY <2>1, TakenApart
    <2>3. QED
      BY <2>1, <2>2
  <1>4. s = Len(a) + 1
    <2>1. Len(a) + 1 \in 1 .. Len(aq) /\ Len(a) + 1 \in 1 .. Len(ev.refs) /\ 1 \in 1 .. Len(q)
            /\ DOMAIN ev.refs = 1 .. Len(ev.refs)
      BY <1>1, <1>2, LenProperties
    <2>2. aq[Len(a) + 1] = q[1] /\ ev.refs[Len(a) + 1] = aq[Len(a) + 1]
      <3>1. aq[Len(a) + 1] = q[1]
        BY <2>1, TakenApart
      <3>2. (aq \o z)[Len(a) + 1] = aq[Len(a) + 1]
        BY <1>2, <2>1, TakenApart
      <3>3. QED
        BY <1>2, <3>1, <3>2
    <2>3. QED
      BY <1>1, <2>1, <2>2 DEF IsInjective
  <1>5. rest = a \o z
    <2>1. SubSeq(ev.refs, 1, Len(a)) = a
      <3>1. ev.refs = a \o (q \o z) /\ q \o z \in Seq(Elem)
        BY ConcatAssociative, ConcatProperties DEF Between
      <3>2. QED
        BY <3>1, TakenApart
    <2>2. SubSeq(ev.refs, Len(aq) + 1, Len(aq) + Len(z)) = z
      BY <1>2, TakenApart
    <2>3. s - 1 = Len(a) /\ s + Len(q) = Len(aq) + 1 /\ Len(ev.refs) = Len(aq) + Len(z)
      <3> HIDE DEF aq, s
      <3>1. QED
        BY <1>2, <1>4
    <2>4. QED
      BY <2>1, <2>2, <2>3
  <1> DEFINE t == a \o z
  <1>6. t \in Seq(Elem) /\ Len(t) = Len(a) + Len(z)
        /\ Range(t) = Range(a) \cup Range(z) /\ IsInjective(t)
    BY <1>3, TakenApart, JoinInjective
  <1> HIDE DEF s, rest
  <1>7. behind = First(z)
    <2>1. CASE z = <<>>
      <3>1. Len(z) = 0
        BY <2>1
      <3>2. s > Len(t)
        BY <1>2, <1>4, <1>6, <3>1
      <3>3. QED
        BY <1>5, <2>1, <3>2 DEF First
    <2>2. CASE z # <<>>
      <3>1. 1 \in 1 .. Len(z) /\ ~(s > Len(t))
        BY <1>2, <1>4, <1>6, <2>2, EmptySeq
      <3>2. t[s] = z[1]
        BY <1>4, <3>1, TakenApart
      <3>3. QED
        BY <1>5, <2>2, <3>1, <3>2 DEF First
    <2>3. QED
      BY <2>1, <2>2
  <1>8. a # <<>> => /\ s # 1 /\ rest[s - 1] = Last(a)
                    /\ Last(a) \in Elem /\ Last(a) \in Range(a)
    <2> SUFFICES ASSUME a # <<>> PROVE /\ s # 1 /\ rest[s - 1] = Last(a)
                                       /\ Last(a) \in Elem /\ Last(a) \in Range(a)
      OBVIOUS
    <2>1. Len(a) \in Nat \ {0} /\ Len(a) \in 1 .. Len(a) /\ Last(a) = a[Len(a)]
            /\ Last(a) \in Elem /\ Last(a) \in Range(a)
      BY LastLine
    <2>2. t[Len(a)] = a[Len(a)]
      BY <2>1, TakenApart
    <2>3. s - 1 = Len(a) /\ s # 1
      BY <1>4, <2>1
    <2>4. QED
      BY <1>5, <2>1, <2>2, <2>3
  <1>9. a = <<>> => s = 1
    BY <1>4
  <1>10. Last(q) \in Elem /\ Last(q) \in Range(q)
    BY LastLine
  <1> HIDE DEF behind
  <1>11. /\ mem2 \in [Elem -> Ptr]
         /\ mem2[Last(q)] = Null
         /\ a # <<>> => mem2[Last(a)] = First(z)
         /\ \A e \in Elem : e # Last(q) /\ (a # <<>> => e # Last(a))
                              => mem2[e] = ev.mem[e]
    <2>1. First(z) \in Ptr /\ Null \in Ptr
      BY FirstType, InPtr
    <2>2. CASE a = <<>>
      BY <1>1, <1>9, <1>10, <2>1, <2>2
    <2>3. CASE a # <<>>
      <3>1. Last(a) # Last(q)
        BY <1>3, <1>8, <1>10, <2>3
      <3>2. mem2 = [ended EXCEPT ![Last(a)] = First(z)]
        BY <1>7, <1>8, <2>3
      <3>3. QED
        BY <1>1, <1>8, <1>10, <2>1, <2>3, <3>1, <3>2
    <2>4. QED
      BY <2>2, <2>3
  <1> HIDE DEF mem2
  <1>12. \A e \in Elem \ Range(ev.refs) : mem2[e] = ev.mem[e]
    BY <1>3, <1>8, <1>10, <1>11
  <1>13. Linked(mem2, q, Null)
    <2>1. Linked(ev.mem, aq, First(z)) \/ Linked(ev.mem, aq, Null)
      <3>1. Linked(ev.mem, aq \o z, Null) /\ aq \in Seq(Elem)
        BY <1>1, <1>2
      <3> HIDE DEF aq
      <3>2. QED
        BY <3>1, Parted DEF First
    <2>2. \A i \in 1 .. Len(q) - 1 : ev.mem[q[i]] = q[i + 1]
      <3>1. Linked(ev.mem, q, First(z)) \/ Linked(ev.mem, q, Null)
        BY <2>1, Parted
      <3>2. QED
        BY <3>1 DEF Linked
    <2>3. ASSUME NEW i \in 1 .. Len(q) - 1 PROVE mem2[q[i]] = q[i + 1]
      <3>1. q[i] # Last(q) /\ i \in 1 .. Len(q) /\ q[i] \in Elem /\ q[i] \in Range(q)
        BY <1>2, <1>3, LastLine, ElementOfSeq, RangeEquality
      <3>2. mem2[q[i]] = ev.mem[q[i]]
        BY <1>3, <1>8, <1>11, <3>1
      <3>3. QED
        BY <2>2, <3>2
    <2>4. QED
      BY <1>11, <2>3, LastLine DEF Linked
  <1>14. Linked(mem2, z, Null)
    <2>1. Linked(ev.mem, z, Null)
      <3>1. Linked(ev.mem, aq \o z, Null) /\ aq \in Seq(Elem)
        BY <1>1, <1>2
      <3> HIDE DEF aq
      <3>2. QED
        BY <3>1, Parted
    <2>2. \A e \in Range(z) : mem2[e] = ev.mem[e]
      BY <1>3, <1>8, <1>10, <1>11, RangeOfSeq
    <2>3. QED
      BY <2>1, <2>2, Untouched
  <1>15. Linked(mem2, a, First(z))
    <2>1. Linked(ev.mem, aq, First(z)) \/ Linked(ev.mem, aq, Null)
      <3>1. Linked(ev.mem, aq \o z, Null) /\ aq \in Seq(Elem)
        BY <1>1, <1>2
      <3> HIDE DEF aq
      <3>2. QED
        BY <3>1, Parted DEF First
    <2>2. \A i \in 1 .. Len(a) - 1 : ev.mem[a[i]] = a[i + 1]
      BY <2>1, Parted
    <2>3. ASSUME NEW i \in 1 .. Len(a) - 1 PROVE mem2[a[i]] = a[i + 1]
      <3>1. i \in 1 .. Len(a) /\ a # <<>>
        BY <1>2, EmptySeq
      <3>2. a[i] # Last(a) /\ a[i] \in Elem /\ a[i] \in Range(a)
        BY <1>3, <3>1, LastLine, ElementOfSeq, RangeEquality
      <3>3. mem2[a[i]] = ev.mem[a[i]]
        BY <1>3, <1>10, <1>11, <3>2
      <3>4. QED
        BY <2>2, <3>3
    <2>4. QED
      BY <1>11, <2>3, LastLine DEF Linked
  <1>16. Linked(mem2, t, Null)
    <2>1. CASE z = <<>>
      BY <1>15, <2>1, ConcatEmptySeq DEF First
    <2>2. CASE z # <<>>
      BY <1>14, <1>15, <2>2, Joined DEF First
    <2>3. QED
      BY <2>1, <2>2
  <1>17. /\ after.refs = t /\ after.del = Append(ev.del, q) /\ after.mem = mem2
         /\ after.ptr = (IF s > 1 THEN ev.ptr ELSE behind)
         /\ after = [refs |-> after.refs, ptr |-> after.ptr, del |-> after.del,
                     mem |-> after.mem]
    <2>1. after = [refs |-> rest, del |-> Append(ev.del, q), mem |-> mem2,
                   ptr |-> IF s > 1 THEN ev.ptr ELSE behind]
      BY DEF Unlink, s, rest, behind, mem2
    <2>2. QED
      BY <1>5, <2>1
  <1>18. after.ptr = First(t)
    <2>1. CASE a = <<>>
      <3>1. t = z
        BY <2>1, ConcatEmptySeq
      <3>2. ~(s > 1)
        BY <1>9, <2>1
      <3>3. QED
        BY <1>7, <1>17, <3>1, <3>2
    <2>2. CASE a # <<>>
      <3>1. s > 1 /\ 1 \in 1 .. Len(a) /\ 1 \in 1 .. Len(aq)
        BY <1>2, <1>4, <2>2, EmptySeq
      <3>2. t[1] = a[1] /\ aq[1] = a[1]
        BY <3>1, TakenApart
      <3>3. (aq \o z)[1] = aq[1]
        BY <1>2, <3>1, TakenApart
      <3>4. t # <<>> /\ ev.refs # <<>>
        BY <1>2, <1>6, <3>1, EmptySeq
      <3>5. QED
        BY <1>1, <1>2, <1>17, <3>1, <3>2, <3>3, <3>4 DEF First
    <2>3. QED
      BY <2>1, <2>2
  <1> HIDE DEF after, t
  <1>19. after \in Object
    <2>1. First(t) \in Ptr /\ Append(ev.del, q) \in Seq(Seq(Elem))
      BY <1>1, <1>6, FirstType, AppendProperties
    <2>2. QED
      BY <1>6, <1>11, <1>17, <1>18, <2>1 DEF Object
  <1>20. SoundChunks(after)
    <2> DEFINE m2 == Len(ev.del) + 1
               del2 == Append(ev.del, q)
    <2>1. /\ DOMAIN ev.del = 1 .. Len(ev.del) /\ Len(ev.del) \in Nat
          /\ DOMAIN del2 = 1 .. m2
          /\ \A k \in 1 .. Len(ev.del) : del2[k] = ev.del[k] /\ ev.del[k] \in Seq(Elem)
          /\ del2[m2] = q
      BY <1>1, LenProperties, AppendProperties, ElementOfSeq
    <2> HIDE DEF del2
    <2>2. ASSUME NEW k \in 1 .. Len(ev.del)
          PROVE  /\ del2[k] # <<>> /\ IsInjective(del2[k])
                 /\ Linked(mem2, del2[k], Null)
                 /\ Range(del2[k]) \cap Range(t) = {}
                 /\ Range(del2[k]) \cap Range(q) = {}
      <3>1. /\ ev.del[k] # <<>> /\ IsInjective(ev.del[k])
            /\ Linked(ev.mem, ev.del[k], Null)
            /\ Range(ev.del[k]) \cap Range(ev.refs) = {}
        BY <1>1, <2>1 DEF SoundChunks
      <3>2. Range(ev.del[k]) \subseteq Elem
        BY <2>1, RangeOfSeq
      <3>3. Linked(mem2, ev.del[k], Null)
        BY <1>12, <2>1, <3>1, <3>2, Untouched
      <3>4. QED
        BY <1>3, <1>6, <2>1, <3>1, <3>3
    <2>3. q # <<>> /\ IsInjective(q) /\ Linked(mem2, q, Null) /\ Range(q) \cap Range(t) = {}
      BY <1>3, <1>6, <1>13
    <2>4. ASSUME NEW j \in 1 .. m2, NEW k \in 1 .. m2, j # k
          PROVE  Range(del2[j]) \cap Range(del2[k]) = {}
      <3>1. CASE j # m2 /\ k # m2
        <4>1. j \in DOMAIN ev.del /\ k \in DOMAIN ev.del
          BY <2>1, <3>1
        <4>2. QED
          BY <1>1, <2>1, <2>4, <4>1 DEF SoundChunks
      <3>2. CASE j = m2
        <4>1. k \in 1 .. Len(ev.del)
          BY <2>1, <2>4, <3>2
        <4>2. QED
          BY <2>1, <2>2, <3>2, <4>1
      <3>3. CASE k = m2
        <4>1. j \in 1 .. Len(ev.del)
          BY <2>1, <2>4, <3>3
        <4>2. QED
          BY <2>1, <2>2, <3>3, <4>1
      <3>4. QED
        BY <3>1, <3>2, <3>3
    <2>5. ASSUME NEW k \in 1 .. m2
          PROVE  /\ del2[k] # <<>> /\ IsInjective(del2[k])
                 /\ Linked(mem2, del2[k], Null)
                 /\ Range(del2[k]) \cap Range(t) = {}
      <3>1. k \in 1 .. Len(ev.del) \/ k = m2
        BY <2>1
      <3>2. QED
        BY <2>1, <2>2, <2>3, <3>1
    <2>6. after.del = del2
      BY <1>17 DEF del2
    <2>7. QED
      BY <1>17, <2>1, <2>4, <2>5, <2>6 DEF SoundChunks
  <1>21. Sound(after)
    BY <1>6, <1>16, <1>17, <1>18, <1>19, <1>20 DEF Sound
  <1>22. QED
    BY <1>12, <1>17, <1>21 DEF after, t

LEMMA FrontLines ==
  ASSUME NEW S, NEW s \in Seq(S), s # <<>>
  PROVE  /\ Len(s) \in Nat \ {0}
         /\ Front(s) \in Seq(S) /\ Len(Front(s)) = Len(s) - 1
         /\ \A i \in 1 .. Len(s) - 1 : Front(s)[i] = s[i]
         /\ Last(s) = s[Len(s)] /\ Last(s) \in S
  <1> DEFINE most == Len(s) - 1
             front == SubSeq(s, 1, most)
  <1>1. Len(s) \in Nat \ {0} /\ 1 \in 1 .. Len(s) + 1 /\ Len(s) \in 1 .. Len(s)
          /\ most \in 1 - 1 .. Len(s) /\ most - 1 + 1 = most
    BY EmptySeq
  <1>2. Front(s) = front
    BY DEF Front
  <1> HIDE DEF most
  <1>3. /\ front \in Seq(S) /\ Len(front) = most
        /\ \A i \in 1 .. most : front[i] = s[1 + i - 1]
    BY <1>1, Excerpt
  <1> HIDE DEF front
  <1>4. \A i \in 1 .. most : 1 + i - 1 = i
    BY <1>1
  <1>5. Last(s) = s[Len(s)] /\ Last(s) \in S
    BY <1>1, ElementOfSeq DEF Last
  <1>6. QED
    BY <1>1, <1>2, <1>3, <1>4, <1>5 DEF most

LEMMA AppendLast ==
  ASSUME NEW S, NEW s \in Seq(S), NEW e \in S
  PROVE  Append(s, e) # <<>> /\ Last(Append(s, e)) = e
  <1> DEFINE t == Append(s, e)
  <1>1. t \in Seq(S) /\ Len(t) = Len(s) + 1 /\ t[Len(s) + 1] = e /\ Len(s) \in Nat
    BY AppendProperties, LenProperties
  <1> HIDE DEF t
  <1>2. t # <<>> /\ t[Len(t)] = e
    BY <1>1, EmptySeq
  <1>3. QED
    BY <1>2 DEF Last, t

LEMMA FrontInjective ==
  ASSUME NEW s \in Seq(Elem), s # <<>>, IsInjective(s)
  PROVE  /\ Last(s) \in Elem /\ Last(s) \in Range(s)
         /\ Front(s) \in Seq(Elem) /\ IsInjective(Front(s))
         /\ Range(Front(s)) \subseteq Range(s) /\ Last(s) \notin Range(Front(s))
         /\ Range(s) = Range(Front(s)) \cup {Last(s)}
  <1> DEFINE n == Len(s)
             f == Front(s)
             x == Last(s)
  <1>1. /\ n \in Nat \ {0} /\ f \in Seq(Elem) /\ Len(f) = n - 1
        /\ \A i \in 1 .. n - 1 : f[i] = s[i]
        /\ x = s[n] /\ x \in Elem
    BY FrontLines
  <1>2. DOMAIN s = 1 .. n
    BY LenProperties
  <1> HIDE DEF n, f, x
  <1>3. DOMAIN f = 1 .. n - 1
    BY <1>1, LenProperties
  <1>4. n \in 1 .. n /\ \A i \in 1 .. n - 1 : i \in 1 .. n /\ i # n
    BY <1>1
  <1>5. \A i \in 1 .. n : i \in 1 .. n - 1 \/ i = n
    BY <1>1
  <1>6. IsInjective(f) /\ x \notin Range(f)
    BY <1>1, <1>2, <1>3, <1>4 DEF IsInjective, Range
  <1>7. Range(s) = Range(f) \cup {x}
    BY <1>1, <1>2, <1>3, <1>4, <1>5 DEF Range
  <1>8. QED
    BY <1>1, <1>6, <1>7 DEF f, x

Lines(ev) == Range(ev.refs) \cup Aside(ev)

LEMMA AsideLines == ASSUME NEW ev, Sound(ev)
                    PROVE  Lines(ev) \subseteq Elem /\ Range(ev.refs) \cap Aside(ev) = {}
  <1>1. \A k \in DOMAIN ev.del : Range(ev.del[k]) \subseteq Elem
    <2>1. ev.del \in Seq(Seq(Elem)) /\ DOMAIN ev.del = 1 .. Len(ev.del)
      BY LenProperties DEF Sound, Object
    <2>2. QED
      BY <2>1, ElementOfSeq, RangeOfSeq
  <1>2. Range(ev.refs) \subseteq Elem
    BY RangeOfSeq DEF Sound, Object
  <1>3. QED
    BY <1>1, <1>2 DEF Lines, Aside, Sound, SoundChunks

LEMMA RelinkChunk ==
  ASSUME NEW ev, Sound(ev), ev.del # <<>>
  PROVE  LET after == Relink(ev)
         IN  /\ Sound(after)
             /\ after.refs = Last(ev.del) \o ev.refs
             /\ after.del = Front(ev.del)
             /\ Lines(after) = Lines(ev)
             /\ \A e \in Elem \ Lines(ev) : after.mem[e] = ev.mem[e]
  <1> DEFINE q == Last(ev.del)
             t == q \o ev.refs
             n == Len(ev.del)
             mem2 == IF ev.refs = <<>> THEN ev.mem
                     ELSE [ev.mem EXCEPT ![Last(q)] = ev.refs[1]]
             after == Relink(ev)
  <1>1. /\ ev.refs \in Seq(Elem) /\ IsInjective(ev.refs) /\ Linked(ev.mem, ev.refs, Null)
        /\ ev.mem \in [Elem -> Ptr] /\ ev.del \in Seq(Seq(Elem)) /\ SoundChunks(ev)
    BY DEF Sound, Object
  <1>2. /\ n \in Nat \ {0} /\ DOMAIN ev.del = 1 .. n /\ q = ev.del[n] /\ q \in Seq(Elem)
        /\ Front(ev.del) \in Seq(Seq(Elem)) /\ DOMAIN Front(ev.del) = 1 .. n - 1
        /\ \A k \in 1 .. n - 1 : Front(ev.del)[k] = ev.del[k] /\ ev.del[k] \in Seq(Elem)
    <2>1. DOMAIN ev.del = 1 .. n
      BY <1>1, LenProperties
    <2>2. n \in Nat \ {0} /\ q = ev.del[n] /\ q \in Seq(Elem)
            /\ Front(ev.del) \in Seq(Seq(Elem)) /\ Len(Front(ev.del)) = n - 1
            /\ \A k \in 1 .. n - 1 : Front(ev.del)[k] = ev.del[k]
      BY <1>1, FrontLines
    <2>3. DOMAIN Front(ev.del) = 1 .. n - 1
      BY <2>2, LenProperties
    <2> HIDE DEF n, q
    <2>4. \A k \in 1 .. n - 1 : ev.del[k] \in Seq(Elem)
      BY <1>1, <2>1, <2>2, LenProperties
    <2>5. QED
      BY <2>1, <2>2, <2>3, <2>4
  <1>3. /\ after.refs = t /\ after.del = Front(ev.del) /\ after.mem = mem2
        /\ after.ptr = q[1]
        /\ after = [refs |-> after.refs, ptr |-> after.ptr, del |-> after.del,
                    mem |-> after.mem]
    <2>1. after = [refs |-> t, del |-> Front(ev.del), ptr |-> q[1], mem |-> mem2]
      BY DEF Relink
    <2> HIDE DEF q, t, mem2, after
    <2>2. QED
      BY <2>1
  <1> HIDE DEF q, n, after
  <1>4. /\ q # <<>> /\ IsInjective(q) /\ Linked(ev.mem, q, Null)
        /\ Range(q) \cap Range(ev.refs) = {}
        /\ \A k \in 1 .. n - 1 : Range(ev.del[k]) \cap Range(q) = {}
    <2>1. n \in DOMAIN ev.del /\ \A k \in 1 .. n - 1 : k \in DOMAIN ev.del /\ k # n
      BY <1>2
    <2>2. QED
      BY <1>1, <1>2, <2>1 DEF SoundChunks
  <1>5. /\ t \in Seq(Elem) /\ IsInjective(t) /\ Range(t) = Range(q) \cup Range(ev.refs)
        /\ t # <<>> /\ t[1] = q[1]
    <2>1. Len(q) \in Nat \ {0} /\ 1 \in 1 .. Len(q)
      BY <1>2, <1>4, EmptySeq
    <2>2. Len(t) = Len(q) + Len(ev.refs) /\ t[1] = q[1] /\ t \in Seq(Elem)
            /\ Range(t) = Range(q) \cup Range(ev.refs) /\ Len(ev.refs) \in Nat
      <3> DEFINE s == ev.refs
      <3>1. s \in Seq(Elem) /\ t = q \o s
        BY <1>1
      <3> HIDE DEF s, t
      <3>2. Len(t) = Len(q) + Len(s) /\ t[1] = q[1] /\ t \in Seq(Elem)
              /\ Range(t) = Range(q) \cup Range(s) /\ Len(s) \in Nat
        BY <1>2, <2>1, <3>1, TakenApart
      <3>3. QED
        BY <3>2 DEF s
    <2>3. t # <<>>
      BY <2>1, <2>2, EmptySeq
    <2>4. QED
      BY <1>1, <1>2, <1>4, <2>2, <2>3, JoinInjective
  <1>6. Last(q) \in Elem /\ Last(q) \in Range(q) /\ q[1] \in Elem /\ Last(q) = q[Len(q)]
          /\ \A i \in 1 .. Len(q) - 1 : q[i] # Last(q)
    BY <1>2, <1>4, LastLine
  <1>7. /\ mem2 \in [Elem -> Ptr]
        /\ \A e \in Elem : e # Last(q) => mem2[e] = ev.mem[e]
        /\ mem2[Last(q)] = First(ev.refs)
    <2>1. CASE ev.refs = <<>>
      <3>1. ev.mem[Last(q)] = Null
        BY <1>4, <1>6 DEF Linked
      <3>2. QED
        BY <1>1, <2>1, <3>1 DEF First
    <2>2. CASE ev.refs # <<>>
      <3>1. ev.refs[1] \in Ptr
        BY <1>1, <2>2, LastLine, InPtr
      <3>2. QED
        BY <1>1, <1>6, <2>2, <3>1 DEF First
    <2>3. QED
      BY <2>1, <2>2
  <1> HIDE DEF mem2
  <1>8. Linked(mem2, q, First(ev.refs))
    <2>1. ASSUME NEW i \in 1 .. Len(q) - 1 PROVE mem2[q[i]] = q[i + 1]
      <3>1. q[i] \in Elem
        <4>1. i \in 1 .. Len(q)
          BY <1>2, LenProperties
        <4>2. QED
          BY <1>2, <4>1, ElementOfSeq
      <3>2. QED
        BY <1>4, <1>6, <1>7, <3>1 DEF Linked
    <2>2. QED
      BY <1>6, <1>7, <2>1 DEF Linked
  <1>9. Linked(mem2, ev.refs, Null)
    <2>1. \A e \in Range(ev.refs) : mem2[e] = ev.mem[e]
      <3>1. Range(ev.refs) \subseteq Elem
        BY <1>1, RangeOfSeq
      <3>2. Last(q) \notin Range(ev.refs)
        BY <1>4, <1>6
      <3>3. QED
        BY <1>7, <3>1, <3>2
    <2>2. QED
      BY <1>1, <2>1, Untouched
  <1>10. Linked(mem2, t, Null)
    <2>1. CASE ev.refs = <<>>
      BY <1>2, <1>8, <2>1, ConcatEmptySeq DEF First
    <2>2. CASE ev.refs # <<>>
      BY <1>1, <1>2, <1>8, <1>9, <2>2, Joined DEF First
    <2>3. QED
      BY <2>1, <2>2
  <1> HIDE DEF t
  <1>11. after \in Object /\ after.ptr = First(after.refs)
    <2>1. q[1] \in Ptr /\ after.ptr = First(t)
      BY <1>3, <1>5, <1>6, InPtr DEF First
    <2>2. QED
      BY <1>2, <1>3, <1>5, <1>7, <2>1 DEF Object
  <1>12. SoundChunks(after)
    <2> DEFINE d == Front(ev.del)
    <2>1. ASSUME NEW k \in 1 .. n - 1
          PROVE  /\ d[k] # <<>> /\ IsInjective(d[k]) /\ Linked(mem2, d[k], Null)
                 /\ Range(d[k]) \cap Range(t) = {}
      <3>1. k \in DOMAIN ev.del /\ d[k] = ev.del[k] /\ ev.del[k] \in Seq(Elem)
        BY <1>2
      <3>2. /\ ev.del[k] # <<>> /\ IsInjective(ev.del[k])
            /\ Linked(ev.mem, ev.del[k], Null)
            /\ Range(ev.del[k]) \cap Range(ev.refs) = {}
            /\ Range(ev.del[k]) \cap Range(q) = {}
        BY <1>1, <1>4, <3>1 DEF SoundChunks
      <3>3. \A e \in Range(ev.del[k]) : mem2[e] = ev.mem[e]
        BY <1>6, <1>7, <3>1, <3>2, RangeOfSeq
      <3>4. QED
        BY <1>5, <3>1, <3>2, <3>3, Untouched
    <2>2. ASSUME NEW j \in 1 .. n - 1, NEW k \in 1 .. n - 1, j # k
          PROVE  Range(d[j]) \cap Range(d[k]) = {}
      <3>1. j \in DOMAIN ev.del /\ k \in DOMAIN ev.del /\ d[j] = ev.del[j] /\ d[k] = ev.del[k]
        BY <1>2
      <3>2. QED
        BY <1>1, <2>2, <3>1 DEF SoundChunks
    <2> HIDE DEF d
    <2>3. after.del = d /\ DOMAIN d = 1 .. n - 1
      BY <1>2, <1>3 DEF d
    <2>4. QED
      BY <1>3, <2>1, <2>2, <2>3 DEF SoundChunks
  <1>13. Lines(after) = Lines(ev)
    <2>1. Aside(ev) = Aside(after) \cup Range(q)
      <3>1. ASSUME NEW k \in 1 .. n PROVE k \in 1 .. n - 1 \/ k = n
        BY <1>2
      <3>2. ASSUME NEW k \in 1 .. n - 1 PROVE k \in 1 .. n
        BY <1>2
      <3>3. n \in 1 .. n
        BY <1>2
      <3>4. Aside(ev) = UNION {Range(ev.del[k]) : k \in 1 .. n}
        BY <1>2 DEF Aside
      <3>5. Aside(after) = UNION {Range(ev.del[k]) : k \in 1 .. n - 1}
        <4> DEFINE d == after.del
        <4>1. DOMAIN d = 1 .. n - 1 /\ \A k \in 1 .. n - 1 : d[k] = ev.del[k]
          BY <1>2, <1>3
        <4>2. Aside(after) = UNION {Range(d[k]) : k \in DOMAIN d}
          BY DEF Aside
        <4> HIDE DEF d
        <4>3. QED
          BY <4>1, <4>2
      <3>6. q = ev.del[n]
        BY <1>2
      <3>7. QED
        BY <3>1, <3>2, <3>3, <3>4, <3>5, <3>6
    <2>2. QED
      BY <1>3, <1>5, <2>1 DEF Lines
  <1>14. \A e \in Elem \ Lines(ev) : after.mem[e] = ev.mem[e]
    <2>1. Last(q) \in Lines(ev)
      <3>1. n \in DOMAIN ev.del /\ q = ev.del[n]
        BY <1>2
      <3>2. QED
        BY <1>6, <3>1 DEF Lines, Aside
    <2>2. QED
      BY <1>3, <1>7, <2>1
  <1>15. Sound(after)
    BY <1>3, <1>5, <1>10, <1>11, <1>12 DEF Sound
  <1>16. QED
    BY <1>3, <1>13, <1>14, <1>15 DEF after, t, q

(* One chunk after another, until none is set aside.                       *)
LEMMA RelinkAllChunks ==
  ASSUME NEW ev, Sound(ev)
  PROVE  LET after == RelinkAll(ev)
         IN  /\ Sound(after)
             /\ after.del = <<>>
             /\ Range(after.refs) = Lines(ev)
             /\ Len(after.refs) >= Len(ev.refs)
             /\ ev.del = <<>> => after = ev
             /\ \A e \in Elem \ Lines(ev) : after.mem[e] = ev.mem[e]
  <1> DEFINE n == Len(ev.del)
             S == {x \in Object : Sound(x)}
             step == [k \in Nat |-> [x \in S |-> Relink(x)]]
  <1>1. n \in Nat /\ ev \in S /\ ev.del \in Seq(Seq(Elem))
    BY LenProperties DEF Sound, Object
  <1>2. ASSUME NEW x \in S PROVE Relink(x) \in S
    <2>1. CASE x.del = <<>>
      BY <2>1 DEF Relink
    <2>2. CASE x.del # <<>>
      BY <2>2, RelinkChunk DEF Sound
    <2>3. QED
      BY <2>1, <2>2
  <1> HIDE DEF S
  <1>3. step \in [Nat -> [S -> S]] /\ \A k \in Nat, x \in S : step[k][x] = Relink(x)
    BY <1>2
  <1> HIDE DEF step
  <1>4. PICK f \in [0 .. n -> S] : Steps(f, n, ev, step)
    BY <1>1, <1>3, StepsTo, Zenon
  <1> DEFINE Eq(u) == u = [k \in 0 .. n |-> IF k = 0 THEN ev ELSE Relink(u[k - 1])]
             undo == CHOOSE u : Eq(u)
  <1>5. Eq(f)
    <2>1. ASSUME NEW k \in 0 .. n
          PROVE  f[k] = IF k = 0 THEN ev ELSE Relink(f[k - 1])
      <3>1. CASE k = 0
        BY <1>4, <3>1 DEF Steps
      <3>2. CASE k # 0
        <4>1. k - 1 \in 0 .. n - 1 /\ k - 1 \in 0 .. n /\ (k - 1) + 1 = k /\ k - 1 \in Nat
          BY <1>1, <3>2
        <4>2. f[k] = step[k - 1][f[k - 1]] /\ f[k - 1] \in S
          BY <1>4, <4>1 DEF Steps
        <4>3. QED
          BY <1>3, <3>2, <4>1, <4>2
      <3>3. QED
        BY <3>1, <3>2
    <2>2. QED
      BY <2>1
  <1>6. Eq(undo)
    BY <1>5
  <1>7. RelinkAll(ev) = undo[n]
    BY DEF RelinkAll
  <1> HIDE DEF undo
  <1>8. undo[0] = ev /\ \A k \in 0 .. n - 1 : undo[k + 1] = Relink(undo[k])
    <2>1. 0 \in 0 .. n
      BY <1>1
    <2>2. ASSUME NEW k \in 0 .. n - 1 PROVE undo[k + 1] = Relink(undo[k])
      <3>1. k + 1 \in 0 .. n /\ k + 1 # 0 /\ (k + 1) - 1 = k
        BY <1>1
      <3>2. QED
        BY <1>6, <3>1
    <2>3. QED
      BY <1>6, <2>1, <2>2
  <1> HIDE DEF Eq
  <1> DEFINE Good(x, k) == /\ Sound(x) /\ Len(x.del) = n - k
                           /\ Lines(x) = Lines(ev) /\ Len(x.refs) >= Len(ev.refs)
                           /\ \A e \in Elem \ Lines(ev) : x.mem[e] = ev.mem[e]
             T == {k \in Nat : Good(undo[k], k)}
  <1>9. 0 \in T
    <2>1. Len(ev.refs) \in Nat
      BY LenProperties DEF Sound, Object
    <2>2. QED
      BY <1>1, <1>8, <2>1
  <1>10. ASSUME NEW k \in 0 .. n - 1, k \in T PROVE k + 1 \in T
    <2> DEFINE x == undo[k]
    <2>1. /\ Sound(x) /\ Len(x.del) = n - k /\ Lines(x) = Lines(ev)
          /\ Len(x.refs) >= Len(ev.refs)
          /\ \A e \in Elem \ Lines(ev) : x.mem[e] = ev.mem[e]
      BY <1>10
    <2>2. undo[k + 1] = Relink(x) /\ k \in Nat /\ n - k > 0
      BY <1>1, <1>8
    <2> HIDE DEF x
    <2>3. x.del # <<>> /\ x.del \in Seq(Seq(Elem)) /\ x.refs \in Seq(Elem)
      BY <2>1, <2>2, EmptySeq DEF Sound, Object
    <2> DEFINE y == Relink(x)
    <2>4. /\ Sound(y) /\ y.refs = Last(x.del) \o x.refs /\ y.del = Front(x.del)
          /\ Lines(y) = Lines(x)
          /\ \A e \in Elem \ Lines(x) : y.mem[e] = x.mem[e]
      BY <2>1, <2>3, RelinkChunk
    <2> HIDE DEF y
    <2>5. Len(y.del) = n - (k + 1) /\ Last(x.del) \in Seq(Elem)
      <3> DEFINE d == x.del
      <3>1. d \in Seq(Seq(Elem)) /\ d # <<>> /\ Len(d) = n - k /\ y.del = Front(d)
        BY <2>1, <2>3, <2>4
      <3> HIDE DEF d
      <3>2. Len(Front(d)) = Len(d) - 1 /\ Last(d) \in Seq(Elem)
        BY <3>1, FrontLines
      <3>3. Len(y.del) = n - (k + 1)
        BY <1>1, <2>2, <3>1, <3>2
      <3>4. QED
        BY <3>2, <3>3 DEF d
    <2>6. Len(y.refs) >= Len(ev.refs)
      <3> DEFINE a == Last(x.del)
                 b == x.refs
      <3>1. a \in Seq(Elem) /\ b \in Seq(Elem) /\ y.refs = a \o b /\ Len(b) >= Len(ev.refs)
        BY <2>1, <2>3, <2>4, <2>5
      <3> HIDE DEF a, b
      <3>2. Len(ev.refs) \in Nat
        BY LenProperties DEF Sound, Object
      <3>3. Len(a \o b) = Len(a) + Len(b) /\ Len(a) \in Nat /\ Len(b) \in Nat
        BY <3>1, TakenApart
      <3>4. QED
        BY <3>1, <3>2, <3>3
    <2>7. Good(y, k + 1)
      BY <2>1, <2>4, <2>5, <2>6
    <2>8. undo[k + 1] = y /\ k + 1 \in Nat
      BY <2>2 DEF y
    <2> HIDE DEF Good
    <2>9. QED
      BY <2>7, <2>8
  <1>11. n \in T
    <2> HIDE DEF T
    <2>1. \A k \in 0 .. n : k \in T
      BY <1>1, <1>9, <1>10, EveryUpTo
    <2>2. QED
      BY <1>1, <2>1
  <1> DEFINE z == undo[n]
  <1>12. /\ Sound(z) /\ Len(z.del) = n - n /\ Lines(z) = Lines(ev)
         /\ Len(z.refs) >= Len(ev.refs)
         /\ \A e \in Elem \ Lines(ev) : z.mem[e] = ev.mem[e]
    BY <1>11
  <1> HIDE DEF z, T
  <1>13. z.del = <<>>
    <2>1. z.del \in Seq(Seq(Elem)) /\ Len(z.del) = 0
      BY <1>1, <1>12 DEF Sound, Object
    <2>2. QED
      BY <2>1, EmptySeq
  <1>14. Lines(z) = Range(z.refs)
    BY <1>13 DEF Lines, Aside
  <1>15. ev.del = <<>> => z = ev
    BY <1>8 DEF z
  <1>16. QED
    BY <1>7, <1>12, <1>13, <1>14, <1>15 DEF z

(* indicesToLinkedList().                                                  *)
LEMMA LinkEverything ==
  ASSUME NEW ev, ev \in Object, NEW s \in Seq(Elem), IsInjective(s)
  PROVE  LET after == LinkAll(ev, s)
         IN  /\ after \in Object
             /\ after.refs = s /\ after.ptr = First(s) /\ after.del = ev.del
             /\ Linked(after.mem, s, Null)
             /\ \A e \in Elem \ Range(s) : after.mem[e] = ev.mem[e]
  <1> DEFINE mem2 == [x \in Elem |-> IF x \in Range(s) THEN Links(s, Null).next[x]
                                                      ELSE ev.mem[x]]
             after == LinkAll(ev, s)
  <1>1. /\ ev.mem \in [Elem -> Ptr] /\ ev.del \in Seq(Seq(Elem)) /\ Len(s) \in Nat
        /\ DOMAIN s = 1 .. Len(s) /\ \A i \in 1 .. Len(s) : s[i] \in Elem /\ s[i] \in Range(s)
    BY LenProperties, RangeEquality, ElementOfSeq DEF Object
  <1>2. /\ after.refs = s /\ after.del = ev.del /\ after.mem = mem2 /\ after.ptr = First(s)
        /\ after = [refs |-> after.refs, ptr |-> after.ptr, del |-> after.del,
                    mem |-> after.mem]
    <2>1. after = [ev EXCEPT !.refs = s, !.ptr = First(s), !.mem = mem2]
      BY DEF LinkAll, First
    <2> HIDE DEF mem2, after
    <2>2. QED
      BY <2>1 DEF Object
  <1>3. \A i \in 1 .. Len(s) - 1 : mem2[s[i]] = s[i + 1]
    <2> SUFFICES ASSUME NEW i \in 1 .. Len(s) - 1 PROVE mem2[s[i]] = s[i + 1]
      OBVIOUS
    <2>1. i \in 1 .. Len(s) /\ s[i] \in Elem /\ s[i] \in Range(s)
      BY <1>1
    <2>2. (CHOOSE j \in DOMAIN s : s[j] = s[i]) = i
      BY <1>1, <2>1 DEF IsInjective
    <2>3. Links(s, Null).next[s[i]] = s[i + 1]
      BY <2>1, <2>2 DEF Links
    <2>4. QED
      BY <2>1, <2>3
  <1>4. s # <<>> => mem2[s[Len(s)]] = Null
    <2> SUFFICES ASSUME s # <<>> PROVE mem2[s[Len(s)]] = Null
      OBVIOUS
    <2>1. Len(s) \in 1 .. Len(s) /\ s[Len(s)] \in Elem /\ s[Len(s)] \in Range(s)
      BY <1>1, EmptySeq
    <2>2. ~ \E j \in 1 .. Len(s) - 1 : s[j] = s[Len(s)]
      BY <1>1, <2>1 DEF IsInjective
    <2>3. Links(s, Null).next[s[Len(s)]] = Null
      BY <2>1, <2>2 DEF Links
    <2>4. QED
      BY <2>1, <2>3
  <1>5. mem2 \in [Elem -> Ptr] /\ \A e \in Elem \ Range(s) : mem2[e] = ev.mem[e]
    <2>1. ASSUME NEW x \in Range(s) PROVE mem2[x] \in Ptr
      <3>1. PICK i \in 1 .. Len(s) : x = s[i]
        BY <1>1 DEF Range
      <3>2. CASE i = Len(s)
        <4>1. s # <<>>
          BY <1>1, <3>2, EmptySeq
        <4>2. QED
          BY <1>4, <3>1, <3>2, <4>1, InPtr
      <3>3. CASE i # Len(s)
        <4> DEFINE l == Len(s)
        <4>1. l \in Nat /\ i \in 1 .. l /\ i # l
          BY <1>1, <3>1, <3>3
        <4> HIDE DEF l
        <4>2. i \in 1 .. l - 1 /\ i + 1 \in 1 .. l
          BY <4>1
        <4>3. QED
          BY <1>1, <1>3, <3>1, <4>2, InPtr DEF l
      <3>4. QED
        BY <3>2, <3>3
    <2>2. QED
      BY <1>1, <2>1
  <1> HIDE DEF mem2, after
  <1>6. Linked(mem2, s, Null)
    BY <1>3, <1>4 DEF Linked
  <1>7. after \in Object
    BY <1>1, <1>2, <1>5, FirstType DEF Object
  <1>8. QED
    BY <1>2, <1>5, <1>6, <1>7 DEF after

(* What start() makes of the chunks set aside.                             *)
LEMMA Flattened ==
  ASSUME NEW ss \in Seq(Seq(Elem)),
         \A k \in DOMAIN ss : IsInjective(ss[k]),
         \A j, k \in DOMAIN ss : j # k => Range(ss[j]) \cap Range(ss[k]) = {}
  PROVE  /\ FlattenSeq(ss) \in Seq(Elem) /\ IsInjective(FlattenSeq(ss))
         /\ Range(FlattenSeq(ss)) = UNION {Range(ss[k]) : k \in DOMAIN ss}
  <1> DEFINE n == Len(ss)
             L == Seq(Elem)
             more(k) == IF k + 2 \in 1 .. n THEN ss[k + 2] ELSE <<>>
             step == [k \in Nat |-> [x \in L |-> x \o more(k)]]
  <1>1. n \in Nat /\ DOMAIN ss = 1 .. n /\ \A k \in 1 .. n : ss[k] \in Seq(Elem)
    BY LenProperties, ElementOfSeq
  <1>2. CASE n = 0
    <2>1. ss = <<>> /\ FlattenSeq(ss) = ss /\ ss \in Seq(Elem) /\ DOMAIN ss = {}
      BY <1>1, <1>2, EmptySeq DEF FlattenSeq
    <2>2. QED
      BY <2>1 DEF IsInjective, Range
  <1>3. CASE n # 0
    <2>1. n - 1 \in Nat /\ 1 \in 1 .. n /\ ss[1] \in L
      BY <1>1, <1>3
    <2>2. ASSUME NEW k \in Nat, NEW x \in L PROVE x \o more(k) \in L
      <3>1. more(k) \in Seq(Elem)
        BY <1>1, EmptySeq
      <3>2. QED
        BY <3>1, ConcatProperties
    <2> HIDE DEF more, L, n
    <2>3. step \in [Nat -> [L -> L]] /\ \A k \in Nat, x \in L : step[k][x] = x \o more(k)
      BY <2>2
    <2> HIDE DEF step
    <2>4. PICK f \in [0 .. n - 1 -> L] : Steps(f, n - 1, ss[1], step)
      BY <2>1, <2>3, StepsTo, Zenon
    <2> DEFINE Eq(u) == u = [k \in 1 .. Len(ss) |-> IF k = 1 THEN ss[k]
                                                    ELSE u[k - 1] \o ss[k]]
               g == [k \in 1 .. Len(ss) |-> f[k - 1]]
               flat == CHOOSE u : Eq(u)
    <2>5. Eq(g)
      <3>1. ASSUME NEW k \in 1 .. n
            PROVE  g[k] = IF k = 1 THEN ss[k] ELSE g[k - 1] \o ss[k]
        <4>1. g[k] = f[k - 1]
          BY DEF n
        <4>2. CASE k = 1
          <5>1. f[0] = ss[1]
            BY <2>4 DEF Steps
          <5>2. QED
            BY <4>1, <4>2, <5>1
        <4>3. CASE k # 1
          <5> DEFINE j == k - 2
          <5>1. j \in 0 .. (n - 1) - 1 /\ j + 1 = k - 1 /\ j + 2 = k /\ k - 1 \in 1 .. n
                  /\ j \in 0 .. n - 1 /\ j \in Nat /\ (k - 1) - 1 = j
            BY <1>1, <4>3
          <5> HIDE DEF j
          <5>2. f[j + 1] = step[j][f[j]] /\ f[j] \in L
            BY <2>4, <5>1 DEF Steps
          <5>3. f[j + 1] = f[j] \o more(j) /\ more(j) = ss[k]
            BY <2>3, <5>1, <5>2 DEF more
          <5>4. g[k - 1] = f[j]
            BY <5>1 DEF n
          <5>5. QED
            BY <4>1, <4>3, <5>1, <5>3, <5>4
        <4>4. QED
          BY <4>2, <4>3
      <3>2. QED
        BY <3>1 DEF n
    <2>6. Eq(flat)
      BY <2>5
    <2>7. FlattenSeq(ss) = flat[n]
      BY <1>1, <1>3 DEF FlattenSeq, n
    <2> HIDE DEF flat
    <2>8. flat[1] = ss[1] /\ \A k \in 1 .. n - 1 : flat[k + 1] = flat[k] \o ss[k + 1]
      <3>1. ASSUME NEW k \in 1 .. n - 1 PROVE flat[k + 1] = flat[k] \o ss[k + 1]
        <4>1. k + 1 \in 1 .. n /\ k + 1 # 1 /\ (k + 1) - 1 = k
          BY <1>1
        <4>2. QED
          BY <2>6, <4>1 DEF n
      <3>2. QED
        BY <2>1, <2>6, <3>1 DEF n
    <2> HIDE DEF Eq
    <2> DEFINE U(k) == UNION {Range(ss[j]) : j \in 1 .. k}
               T == {k \in Nat : /\ flat[k + 1] \in Seq(Elem) /\ IsInjective(flat[k + 1])
                                 /\ Range(flat[k + 1]) = U(k + 1)}
    <2>9. 0 \in T
      <3>1. 0 + 1 = 1 /\ 1 .. 1 = {1}
        OBVIOUS
      <3>2. IsInjective(ss[1]) /\ ss[1] \in Seq(Elem)
        BY <1>1, <2>1
      <3>3. QED
        BY <2>8, <3>1, <3>2
    <2>10. ASSUME NEW k \in 0 .. (n - 1) - 1, k \in T PROVE k + 1 \in T
      <3>1. k + 1 \in 1 .. n - 1 /\ k + 2 = (k + 1) + 1 /\ k + 2 \in 1 .. n /\ k + 1 \in Nat
        BY <1>1
      <3>2. flat[k + 2] = flat[k + 1] \o ss[k + 2] /\ ss[k + 2] \in Seq(Elem)
              /\ IsInjective(ss[k + 2])
        BY <1>1, <2>8, <3>1
      <3>3. flat[k + 1] \in Seq(Elem) /\ IsInjective(flat[k + 1])
              /\ Range(flat[k + 1]) = U(k + 1)
        BY <2>10
      <3>4. U(k + 1) \cap Range(ss[k + 2]) = {}
        <4>1. \A j \in 1 .. k + 1 : j \in 1 .. n /\ j # k + 2
          BY <1>1
        <4>2. QED
          BY <1>1, <3>1, <4>1
      <3>5. U(k + 2) = U(k + 1) \cup Range(ss[k + 2])
        <4>1. \A j : j \in 1 .. k + 2 <=> j \in 1 .. k + 1 \/ j = k + 2
          BY <3>1
        <4>2. QED
          BY <4>1
      <3> HIDE DEF U
      <3>6. flat[k + 2] \in Seq(Elem) /\ Range(flat[k + 2]) = U(k + 2)
              /\ IsInjective(flat[k + 2])
        <4> DEFINE p == flat[k + 1]
                   q == ss[k + 2]
        <4>1. p \in Seq(Elem) /\ q \in Seq(Elem) /\ IsInjective(p) /\ IsInjective(q)
                /\ Range(p) \cap Range(q) = {}
          BY <3>2, <3>3, <3>4
        <4> HIDE DEF p, q
        <4>2. p \o q \in Seq(Elem) /\ IsInjective(p \o q)
                /\ Range(p \o q) = Range(p) \cup Range(q)
          BY <4>1, TakenApart, JoinInjective
        <4>3. QED
          BY <3>2, <3>3, <3>5, <4>2 DEF p, q
      <3>7. QED
        BY <3>1, <3>6
    <2> HIDE DEF T
    <2>11. n - 1 \in T
      <3>1. \A k \in 0 .. n - 1 : k \in T
        BY <2>1, <2>9, <2>10, EveryUpTo
      <3>2. QED
        BY <2>1, <3>1
    <2>12. (n - 1) + 1 = n
      BY <1>1
    <2>13. QED
      BY <1>1, <2>7, <2>11, <2>12 DEF T
  <1>4. QED
    BY <1>2, <1>3

-----------------------------------------------------------------------------
(***************************************************************************)
(* Array.chunk().                                                          *)
(***************************************************************************)
(* How many lines the first k pieces have.                                 *)
Start(s, k) ==
  LET q == Len(s) \div (Target + 1)
      ceiled == Len(s) % (Target + 1)
  IN  k * q + (IF k < ceiled THEN k ELSE ceiled)

(* A list of more than Target lines is cut into Target + 1 pieces, none    *)
(* empty and none so long that fewer than Target lines are left without.   *)
LEMMA PiecesFit ==
  ASSUME NEW s \in Seq(Elem), Len(s) > Target
  PROVE  /\ Start(s, 0) = 0 /\ Start(s, Target + 1) = Len(s)
         /\ \A k \in 1 .. Target + 1 :
              /\ Start(s, k - 1) \in 0 .. Len(s) /\ Start(s, k) \in 1 .. Len(s)
              /\ Start(s, k - 1) < Start(s, k)
              /\ Len(s) - (Start(s, k) - Start(s, k - 1)) >= Target
         /\ Pieces(s) \in Seq(Seq(Elem)) /\ Len(Pieces(s)) = Target + 1
         /\ \A k \in 1 .. Target + 1 :
              Pieces(s)[k] = SubSeq(s, Start(s, k - 1) + 1, Start(s, k))
  <1> DEFINE n == Target + 1
             q == Len(s) \div n
             ceiled == Len(s) % n
             extra(k) == IF k < ceiled THEN k ELSE ceiled
  <1>1. n \in Nat /\ n > 1 /\ Target = n - 1 /\ Len(s) \in Nat /\ Len(s) >= n
    BY TargetAssumption, LenProperties
  <1>2. /\ q \in Nat /\ ceiled \in 0 .. n - 1 /\ Len(s) = n * q + ceiled
    <2> HIDE DEF n
    <2>1. QED
      BY <1>1
  <1>3. \A k : Start(s, k) = k * q + extra(k)
    BY DEF Start
  <1> HIDE DEF n, q, ceiled
  <1>4. q >= 1
    <2>1. q = 0 => n * q = 0
      BY <1>1
    <2>2. QED
      BY <1>1, <1>2, <2>1
  <1>5. ASSUME NEW k \in 0 .. n
        PROVE  /\ k * q \in Nat /\ extra(k) \in 0 .. ceiled
               /\ k * q <= n * q /\ Start(s, k) \in 0 .. Len(s)
    <2>1. k * q \in Nat /\ k * q <= n * q
      <3>1. n * q = k * q + (n - k) * q /\ (n - k) * q \in Nat
        BY <1>1, <1>2
      <3>2. k * q \in Nat
        BY <1>1, <1>2
      <3>3. QED
        BY <3>1, <3>2
    <2>2. n * q \in Nat
      BY <1>1, <1>2
    <2>3. extra(k) \in 0 .. ceiled
      BY <1>2
    <2> HIDE DEF extra
    <2>4. QED
      BY <1>2, <1>3, <2>1, <2>2, <2>3
  <1>6. Start(s, 0) = 0
    BY <1>2, <1>3
  <1>7. Start(s, n) = Len(s)
    BY <1>1, <1>2, <1>3
  <1>8. ASSUME NEW k \in 1 .. n
        PROVE  /\ Start(s, k) = Start(s, k - 1) + q + (IF k <= ceiled THEN 1 ELSE 0)
    <2>1. k * q = (k - 1) * q + q
      BY <1>1, <1>2
    <2>2. extra(k) = extra(k - 1) + (IF k <= ceiled THEN 1 ELSE 0)
      BY <1>1, <1>2
    <2>3. (k - 1) * q \in Nat /\ extra(k - 1) \in Nat
      BY <1>1, <1>2, <1>5
    <2> HIDE DEF extra
    <2>4. QED
      BY <1>2, <1>3, <2>1, <2>2, <2>3
  <1>9. n * q - q >= Target /\ n * q \in Nat
    <2>1. n * q - q = Target * q
      BY <1>1, <1>2
    <2>2. Target * q = Target + Target * (q - 1) /\ Target * (q - 1) \in Nat
      BY <1>1, <1>2, <1>4
    <2>3. n * q \in Nat /\ Target \in Nat
      BY <1>1, <1>2
    <2>4. QED
      BY <2>1, <2>2, <2>3
  <1>10. ASSUME NEW k \in 1 .. n
         PROVE  /\ Start(s, k - 1) \in 0 .. Len(s) /\ Start(s, k) \in 1 .. Len(s)
                /\ Start(s, k - 1) < Start(s, k)
                /\ Len(s) - (Start(s, k) - Start(s, k - 1)) >= Target
    <2>1. k - 1 \in 0 .. n /\ k \in 0 .. n
      BY <1>1
    <2>2. Start(s, k - 1) \in 0 .. Len(s) /\ Start(s, k) \in 0 .. Len(s)
      BY <1>5, <2>1
    <2> DEFINE one == IF k <= ceiled THEN 1 ELSE 0
               from == Start(s, k - 1)
               to == Start(s, k)
               all == n * q
    <2>3. one \in 0 .. 1 /\ one <= ceiled
      BY <1>1, <1>2
    <2>4. to = from + q + one /\ from \in 0 .. Len(s) /\ to \in 0 .. Len(s)
      BY <1>8, <2>2
    <2>5. /\ all \in Nat /\ all - q >= Target /\ Len(s) = all + ceiled
          /\ q \in Nat /\ q >= 1 /\ ceiled \in Nat /\ Target \in Nat
      BY <1>1, <1>2, <1>4, <1>9
    <2> HIDE DEF one, from, to, all
    <2>6. from < to /\ to \in 1 .. Len(s) /\ Len(s) - (to - from) >= Target
      BY <2>3, <2>4, <2>5
    <2>7. QED
      BY <2>4, <2>6 DEF from, to
  <1>11. /\ Pieces(s) \in Seq(Seq(Elem)) /\ Len(Pieces(s)) = n
         /\ \A k \in 1 .. n : Pieces(s)[k] = SubSeq(s, Start(s, k - 1) + 1, Start(s, k))
    <2>1. Pieces(s) = [k \in 1 .. n |-> SubSeq(s, Start(s, k - 1) + 1, Start(s, k))]
      BY DEF Pieces, Start, n
    <2>2. \A k \in 1 .. n : SubSeq(s, Start(s, k - 1) + 1, Start(s, k)) \in Seq(Elem)
      <3> SUFFICES ASSUME NEW k \in 1 .. n
                   PROVE SubSeq(s, Start(s, k - 1) + 1, Start(s, k)) \in Seq(Elem)
        OBVIOUS
      <3> DEFINE x == Start(s, k - 1)
                 y == Start(s, k)
      <3>1. x \in 0 .. Len(s) /\ y \in 1 .. Len(s) /\ x < y
        BY <1>10
      <3> HIDE DEF x, y
      <3>2. x + 1 \in 1 .. Len(s) + 1 /\ y \in (x + 1) - 1 .. Len(s)
        BY <1>1, <3>1
      <3>3. SubSeq(s, x + 1, y) \in Seq(Elem)
        BY <3>2, Excerpt
      <3>4. QED
        BY <3>3 DEF x, y
    <2> DEFINE piece == [k \in 1 .. n |-> SubSeq(s, Start(s, k - 1) + 1, Start(s, k))]
    <2>3. piece \in Seq(Seq(Elem)) /\ Len(piece) = n
      BY <1>1, <2>2
    <2>4. QED
      BY <2>1, <2>3
  <1>12. QED
    BY <1>6, <1>7, <1>10, <1>11 DEF n

-----------------------------------------------------------------------------
(***************************************************************************)
(* The invariant.                                                          *)
(***************************************************************************)
Types ==
  /\ input \in Candidates /\ TestTypeOK
  /\ pc \in {"generate", "reduce", "try", "ask", "finish", "save", "done"}
  /\ indices \in Seq(Elem) /\ IsInjective(indices)
  /\ vics \subseteq Elem /\ saved \in Seq(Elem)
  /\ verdict \in {"none", "found", "failed"}
  /\ c \in Nat

(* Until the first line is kept, ptr may point into the list the object    *)
(* was made with.                                                          *)
Generating ==
  pc = "generate" =>
    /\ evset \in Object /\ evset.del = <<>>
    /\ Range(indices) \cap (Range(evset.refs) \cup vics) = {}
    /\ evset.refs = <<>> => vics = {} /\ (indices = <<>> => evset.ptr = Null)
    /\ evset.refs # <<>> => Sound(evset)

Reducing == pc # "generate" => indices = <<>> /\ Sound(evset)

(* A victim ends a chain of its own and is in no other.                    *)
VictimsApart == /\ vics \cap Lines(evset) = {}
                /\ \A v \in vics : evset.mem[v] = Null

Worth(lines) == Len(lines) > Target \/ Trusted(Range(lines))

AtReduce == pc = "reduce" => /\ Worth(evset.refs)
                             /\ Len(evset.refs) >= Target \/ evset.del = <<>>

(* Of the list b that was cut up the first c - 1 pieces have been tried    *)
(* and put back; they are now in a, in another order.                      *)
AtTry == pc = "try" =>
           \E a, b \in Seq(Elem) :
             /\ Len(b) > Target /\ m = Pieces(b) /\ c \in 1 .. Target + 2
             /\ Len(a) = Start(b, c - 1)
             /\ evset.refs = a \o SubSeq(b, Start(b, c - 1) + 1, Len(b))

AtAsk == pc = "ask" =>
           \E a, b \in Seq(Elem) :
             /\ Len(b) > Target /\ m = Pieces(b) /\ c \in 1 .. Target + 1
             /\ Len(a) = Start(b, c - 1)
             /\ evset.refs = a \o SubSeq(b, Start(b, c) + 1, Len(b))
             /\ evset.del # <<>> /\ Last(evset.del) = m[c]

AtFinish == pc = "finish" => /\ Worth(evset.refs)
                             /\ Len(evset.refs) = Target \/ evset.del = <<>>

AtEnd ==
  /\ pc \in {"generate", "reduce", "try", "ask", "finish"} => verdict = "none"
  /\ pc = "save" => verdict = "found" /\ Len(evset.refs) = Target
  /\ pc = "done" => verdict # "none"
  /\ saved # <<>> =>
       /\ pc = "done" /\ evset.del = <<>>
       /\ IsInjective(saved) /\ Linked(evset.mem, saved, Null)
       /\ Range(saved) \cap (Range(evset.refs) \cup vics) = {}

IInv == /\ Types /\ Generating /\ Reducing /\ VictimsApart
        /\ AtReduce /\ AtTry /\ AtAsk /\ AtFinish /\ AtEnd

LEMMA NothingAside == ASSUME NEW ev, ev.del = <<>>
                      PROVE  Aside(ev) = {} /\ Lines(ev) = Range(ev.refs)
  BY DEF Aside, Lines

LEMMA UnlinkLines ==
  ASSUME NEW ev, NEW after, ev \in Object, after \in Object, NEW a \in Seq(Elem),
         NEW q \in Seq(Elem), NEW z \in Seq(Elem), Between(ev.refs, a, q, z),
         after.refs = a \o z, after.del = Append(ev.del, q)
  PROVE  Lines(after) = Lines(ev)
  <1>1. ev.del \in Seq(Seq(Elem)) /\ a \o q \in Seq(Elem)
    BY ConcatProperties DEF Object
  <1>2. Range(ev.refs) = Range(a) \cup Range(q) \cup Range(z)
    <2>1. Range(a \o q) = Range(a) \cup Range(q)
      BY TakenApart
    <2> DEFINE aq == a \o q
    <2>2. aq \in Seq(Elem)
      BY <1>1
    <2> HIDE DEF aq
    <2>3. Range(aq \o z) = Range(aq) \cup Range(z)
      BY <2>2, TakenApart
    <2>4. QED
      BY <2>1, <2>3 DEF Between, aq
  <1>3. Range(after.refs) = Range(a) \cup Range(z)
    BY TakenApart
  <1>4. Aside(after) = Aside(ev) \cup Range(q)
    <2> DEFINE d == ev.del
               d2 == Append(d, q)
               n == Len(d)
    <2>1. /\ n \in Nat /\ DOMAIN d = 1 .. n /\ DOMAIN d2 = 1 .. n + 1
          /\ \A k \in 1 .. n : d2[k] = d[k]
          /\ d2[n + 1] = q
      <3>1. d \in Seq(Seq(Elem))
        BY <1>1
      <3> HIDE DEF d
      <3>2. d2 \in Seq(Seq(Elem)) /\ Len(d2) = n + 1 /\ n \in Nat
        BY <3>1, AppendProperties, LenProperties
      <3>3. QED
        BY <3>1, <3>2, AppendProperties, LenProperties
    <2>2. Aside(ev) = UNION {Range(d[k]) : k \in DOMAIN d}
      BY DEF Aside
    <2>3. Aside(after) = UNION {Range(d2[k]) : k \in DOMAIN d2}
      BY DEF Aside
    <2> HIDE DEF d, d2, n
    <2>4. \A k : k \in 1 .. n + 1 <=> k \in 1 .. n \/ k = n + 1
      BY <2>1
    <2>5. Aside(after) = UNION {Range(d2[k]) : k \in 1 .. n + 1}
      BY <2>1, <2>3
    <2>6. Aside(ev) = UNION {Range(d[k]) : k \in 1 .. n}
      BY <2>1, <2>2
    <2>7. QED
      BY <2>1, <2>4, <2>5, <2>6
  <1>5. QED
    BY <1>2, <1>3, <1>4 DEF Lines

(* What the timed code follows is refs.                                    *)
LEMMA TimedLines ==
  ASSUME IInv, pc # "generate" \/ indices = <<>>
  PROVE  Chain(Memory(evset), evset.ptr) = evset.refs
  <1>1. evset.mem \in [Elem -> Ptr]
    BY DEF IInv, Generating, Reducing, Sound, Object
  <1>2. CASE pc = "generate" /\ evset.refs = <<>>
    <2>1. evset.ptr = First(<<>>) /\ <<>> \in Seq(Elem) /\ IsInjective(<<>>)
            /\ Linked(evset.mem, <<>>, Null)
      BY <1>2, EmptySeq DEF IInv, Generating, First, IsInjective, Linked
    <2>2. QED
      BY <1>1, <1>2, <2>1, Chains DEF Memory
  <1>3. CASE ~(pc = "generate" /\ evset.refs = <<>>)
    <2>1. Sound(evset)
      BY <1>3 DEF IInv, Generating, Reducing
    <2>2. /\ evset.refs \in Seq(Elem) /\ IsInjective(evset.refs)
          /\ Linked(evset.mem, evset.refs, Null) /\ evset.ptr = First(evset.refs)
      BY <2>1 DEF Sound, Object
    <2>3. QED
      BY <1>1, <2>2, Chains DEF Memory
  <1>4. QED
    BY <1>2, <1>3

(* The memory of the victims is not touched while lines move in and out.   *)
LEMMA VictimsStay ==
  ASSUME VictimsApart, NEW after, Lines(after) = Lines(evset), vics \subseteq Elem,
         \A e \in Elem \ Lines(evset) : after.mem[e] = evset.mem[e]
  PROVE  /\ vics \cap Lines(after) = {}
         /\ \A v \in vics : after.mem[v] = Null
  BY DEF VictimsApart

LEMMA BlankObject == Blank \in Object
  BY InPtr, EmptySeq DEF Blank, Object

LEMMA InitInv == Init => IInv
  <1> SUFFICES ASSUME Init PROVE IInv
    OBVIOUS
  <1>1. input \in Seq(Elem) /\ IsInjective(input) /\ input \in Candidates
    BY CandidatesAssumption DEF Init
  <1> DEFINE ev == LinkAll(Blank, input)
  <1>2. /\ ev \in Object /\ ev.refs = input /\ ev.ptr = First(input) /\ ev.del = <<>>
        /\ Linked(ev.mem, input, Null)
    BY <1>1, BlankObject, LinkEverything DEF Blank
  <1> HIDE DEF ev
  <1>3. <<>> \in Seq(Elem) /\ IsInjective(<<>>) /\ Range(<<>>) = {}
    BY EmptySeq DEF IsInjective, Range
  <1>4. /\ groups \in Groupings /\ noisy \in BOOLEAN
        /\ vics = {} /\ saved = <<>> /\ m = <<>> /\ c = 0 /\ r = 0 /\ verdict = "none"
    BY DEF Init
  <1>5. TestTypeOK
    BY <1>4, GroupingsAssumption DEF TestTypeOK
  <1>6. VictimsApart /\ AtEnd
    <2>1. pc \in {"generate", "reduce"}
      BY DEF Init
    <2>2. QED
      BY <1>4, <2>1 DEF VictimsApart, AtEnd
  <1>7. CASE pc = "generate" /\ indices = input /\ evset = [ev EXCEPT !.refs = <<>>]
    <2>1. evset \in Object /\ evset.refs = <<>> /\ evset.del = <<>> /\ evset.ptr = ev.ptr
      BY <1>2, <1>3, <1>7 DEF Object
    <2>2. indices = <<>> => evset.ptr = Null
      BY <1>2, <1>7, <2>1 DEF First
    <2>3. Types
      BY <1>1, <1>3, <1>4, <1>5, <1>7 DEF Types
    <2>4. Generating
      BY <1>3, <1>4, <2>1, <2>2 DEF Generating
    <2>5. QED
      BY <1>6, <1>7, <2>3, <2>4 DEF IInv, Reducing, AtReduce, AtTry, AtAsk, AtFinish
  <1>8. CASE /\ pc = "reduce" /\ indices = <<>>
             /\ Trusted(Range(input)) \/ Len(input) > Target
             /\ evset = ev
    <2>1. Types
      BY <1>1, <1>3, <1>4, <1>5, <1>8 DEF Types
    <2>2. Sound(evset)
      BY <1>1, <1>2, <1>8 DEF Sound, SoundChunks
    <2>3. AtReduce
      BY <1>2, <1>8 DEF AtReduce, Worth
    <2>4. QED
      BY <1>6, <1>8, <2>1, <2>2, <2>3
         DEF IInv, Generating, Reducing, AtTry, AtAsk, AtFinish
  <1>9. QED
    BY <1>7, <1>8 DEF Init, ev

-----------------------------------------------------------------------------
(***************************************************************************)
(* Each step keeps the invariant.                                          *)
(***************************************************************************)
(* What does not depend on where the algorithm stands.                     *)
Footing == Types /\ Generating /\ Reducing /\ VictimsApart

LEMMA Unsaved == ASSUME AtEnd, pc # "done" PROVE saved = <<>>
  BY DEF AtEnd

(* A step of the reduction that moves chunks about.                        *)
LEMMA StandsFirm ==
  ASSUME IInv, pc # "generate", pc' \in {"reduce", "try", "ask", "finish", "save", "done"},
         UNCHANGED <<call, lists>>, c' \in Nat, verdict' \in {"none", "found", "failed"},
         Sound(evset'), Lines(evset') = Lines(evset),
         \A e \in Elem \ Lines(evset) : evset'.mem[e] = evset.mem[e]
  PROVE  Footing'
  <1>1. /\ input' = input /\ groups' = groups /\ noisy' = noisy
        /\ indices' = indices /\ vics' = vics /\ saved' = saved
    BY DEF call, lists, testVars
  <1>2. Types'
    BY <1>1 DEF IInv, Types, TestTypeOK
  <1>3. Generating' /\ Reducing'
    BY <1>1 DEF IInv, Generating, Reducing
  <1>4. VictimsApart'
    <2>1. vics \subseteq Elem /\ VictimsApart
      BY DEF IInv, Types
    <2>2. vics \cap Lines(evset') = {} /\ \A v \in vics : evset'.mem[v] = Null
      BY <2>1, VictimsStay
    <2>3. QED
      BY <1>1, <2>2 DEF VictimsApart
  <1>5. QED
    BY <1>2, <1>3, <1>4 DEF Footing

LEMMA KeepLineInv == IInv /\ KeepLine => IInv'
  <1> SUFFICES ASSUME IInv, KeepLine PROVE IInv'
    OBVIOUS
  <1> DEFINE x == Last(indices)
             ev == evset
             after == LinkElement(ev, x)
             mem2 == [ev.mem EXCEPT ![x] = First(ev.refs)]
             t == <<x>> \o ev.refs
  <1>1. /\ pc = "generate" /\ indices # <<>> /\ evset' = after
        /\ indices' = Front(indices) /\ pc' = pc
        /\ input' = input /\ groups' = groups /\ noisy' = noisy
        /\ vics' = vics /\ saved' = saved /\ c' = c /\ verdict' = verdict
    BY DEF KeepLine, call, testVars
  <1>2. /\ indices \in Seq(Elem) /\ IsInjective(indices)
        /\ ev \in Object /\ ev.del = <<>> /\ vics \subseteq Elem
        /\ Range(indices) \cap (Range(ev.refs) \cup vics) = {}
        /\ ev.refs # <<>> => Sound(ev)
        /\ vics \cap Lines(ev) = {} /\ \A v \in vics : ev.mem[v] = Null
    BY <1>1 DEF IInv, Types, Generating, VictimsApart
  <1>3. /\ ev.refs \in Seq(Elem) /\ ev.mem \in [Elem -> Ptr] /\ Len(ev.refs) \in Nat
        /\ IsInjective(ev.refs) /\ Linked(ev.mem, ev.refs, Null)
    <2>1. ev.refs \in Seq(Elem) /\ ev.mem \in [Elem -> Ptr] /\ Len(ev.refs) \in Nat
      BY <1>2, LenProperties DEF Object
    <2>2. ev.refs = <<>> => IsInjective(ev.refs) /\ Linked(ev.mem, ev.refs, Null)
      BY DEF IsInjective, Linked
    <2>3. QED
      BY <1>2, <2>1, <2>2 DEF Sound
  <1>4. /\ x \in Elem /\ x \in Range(indices)
        /\ Front(indices) \in Seq(Elem) /\ IsInjective(Front(indices))
        /\ Range(Front(indices)) \subseteq Range(indices) /\ x \notin Range(Front(indices))
    BY <1>1, <1>2, FrontInjective
  <1> HIDE DEF x
  <1>5. /\ after.refs = t /\ after.del = <<>> /\ after.ptr = x /\ after.mem = mem2
        /\ after = [refs |-> after.refs, ptr |-> after.ptr, del |-> after.del,
                    mem |-> after.mem]
    <2>1. after = [ev EXCEPT !.refs = t, !.ptr = x, !.mem = mem2]
      BY DEF LinkElement, First
    <2> HIDE DEF after, t, mem2
    <2>2. QED
      BY <1>2, <2>1 DEF Object
  <1> HIDE DEF after
  <1>6. /\ t \in Seq(Elem) /\ t # <<>> /\ Range(t) = {x} \cup Range(ev.refs)
        /\ IsInjective(t) /\ t[1] = x
    <2>1. x \notin Range(ev.refs)
      BY <1>2, <1>4
    <2>2. /\ t \in Seq(Elem) /\ t # <<>> /\ Range(t) = {x} \cup Range(ev.refs)
          /\ IsInjective(t)
      BY <1>3, <1>4, <2>1, InFront
    <2>3. <<x>> \in Seq(Elem) /\ Len(<<x>>) = 1 /\ <<x>>[1] = x
      BY <1>4, LenProperties
    <2>4. t[1] = <<x>>[1]
      BY <1>3, <2>3, TakenApart
    <2>5. QED
      BY <2>2, <2>3, <2>4
  <1>7. mem2 \in [Elem -> Ptr] /\ mem2[x] = First(ev.refs)
          /\ \A e \in Elem \ {x} : mem2[e] = ev.mem[e]
    BY <1>3, <1>4, FirstType
  <1> HIDE DEF mem2
  <1>8. Linked(mem2, t, Null)
    <2>1. Linked(mem2, <<x>>, First(ev.refs)) /\ <<x>> \in Seq(Elem)
      BY <1>4, <1>7 DEF Linked
    <2>2. CASE ev.refs = <<>>
      <3>1. t = <<x>> /\ First(ev.refs) = Null
        BY <2>1, <2>2, ConcatEmptySeq DEF First
      <3>2. QED
        BY <2>1, <3>1
    <2>3. CASE ev.refs # <<>>
      <3>1. \A e \in Range(ev.refs) : mem2[e] = ev.mem[e]
        <4>1. Range(ev.refs) \subseteq Elem
          BY <1>3, RangeOfSeq
        <4>2. x \notin Range(ev.refs)
          BY <1>2, <1>4
        <4>3. QED
          BY <1>7, <4>1, <4>2
      <3>2. Linked(mem2, ev.refs, Null)
        BY <1>3, <3>1, Untouched
      <3>3. QED
        BY <1>3, <2>1, <2>3, <3>2, Joined DEF First
    <2>4. QED
      BY <2>2, <2>3
  <1>9. after \in Object
    BY <1>4, <1>5, <1>6, <1>7, InPtr, EmptySeq DEF Object
  <1>10. Sound(after)
    BY <1>5, <1>6, <1>8, <1>9 DEF Sound, SoundChunks, First
  <1>11. Lines(after) = {x} \cup Range(ev.refs) /\ Lines(ev) = Range(ev.refs)
    BY <1>2, <1>5, <1>6, NothingAside
  <1>12. Types'
    BY <1>1, <1>2, <1>4 DEF IInv, Types, TestTypeOK
  <1>13. Generating'
    BY <1>1, <1>2, <1>4, <1>5, <1>6, <1>9, <1>10 DEF Generating
  <1>14. VictimsApart'
    <2>1. x \notin vics
      BY <1>2, <1>4
    <2>2. \A v \in vics : mem2[v] = Null
      BY <1>2, <1>7, <2>1
    <2>3. vics \cap Lines(after) = {}
      BY <1>2, <1>11, <2>1
    <2>4. QED
      BY <1>1, <1>5, <2>2, <2>3 DEF VictimsApart
  <1>15. AtEnd'
    BY <1>1 DEF IInv, AtEnd
  <1>16. QED
    BY <1>1, <1>12, <1>13, <1>14, <1>15
       DEF IInv, Reducing, AtReduce, AtTry, AtAsk, AtFinish

LEMMA MakeVictimInv == IInv /\ MakeVictim => IInv'
  <1> SUFFICES ASSUME IInv, MakeVictim PROVE IInv'
    OBVIOUS
  <1> DEFINE x == Last(indices)
             ev == evset
             after == [ev EXCEPT !.mem[x] = Null]
             mem2 == [ev.mem EXCEPT ![x] = Null]
  <1>1. /\ pc = "generate" /\ indices # <<>> /\ ev.refs # <<>> /\ evset' = after
        /\ indices' = Front(indices) /\ pc' = pc /\ vics' = vics \cup {x}
        /\ input' = input /\ groups' = groups /\ noisy' = noisy
        /\ saved' = saved /\ c' = c /\ verdict' = verdict
    BY DEF MakeVictim, call, testVars
  <1>2. /\ indices \in Seq(Elem) /\ IsInjective(indices)
        /\ ev \in Object /\ ev.del = <<>> /\ vics \subseteq Elem
        /\ Range(indices) \cap (Range(ev.refs) \cup vics) = {}
        /\ Sound(ev)
        /\ vics \cap Lines(ev) = {} /\ \A v \in vics : ev.mem[v] = Null
    BY <1>1 DEF IInv, Types, Generating, VictimsApart
  <1>3. /\ ev.refs \in Seq(Elem) /\ ev.mem \in [Elem -> Ptr]
        /\ IsInjective(ev.refs) /\ Linked(ev.mem, ev.refs, Null) /\ ev.ptr = First(ev.refs)
    BY <1>2 DEF Sound, Object
  <1>4. /\ x \in Elem /\ x \in Range(indices)
        /\ Front(indices) \in Seq(Elem) /\ IsInjective(Front(indices))
        /\ Range(Front(indices)) \subseteq Range(indices) /\ x \notin Range(Front(indices))
    BY <1>1, <1>2, FrontInjective
  <1> HIDE DEF x
  <1>5. /\ after.refs = ev.refs /\ after.del = <<>> /\ after.ptr = ev.ptr /\ after.mem = mem2
        /\ after \in Object
    <2>1. after = [ev EXCEPT !.mem = mem2]
      OBVIOUS
    <2>2. mem2 \in [Elem -> Ptr]
      BY <1>3, <1>4, InPtr
    <2> HIDE DEF after, mem2
    <2>3. QED
      BY <1>2, <2>1, <2>2 DEF Object
  <1> HIDE DEF after
  <1>6. mem2[x] = Null /\ \A e \in Elem \ {x} : mem2[e] = ev.mem[e]
    BY <1>3, <1>4
  <1> HIDE DEF mem2
  <1>7. Linked(mem2, ev.refs, Null)
    <2>1. \A e \in Range(ev.refs) : mem2[e] = ev.mem[e]
      <3>1. Range(ev.refs) \subseteq Elem
        BY <1>3, RangeOfSeq
      <3>2. x \notin Range(ev.refs)
        BY <1>2, <1>4
      <3>3. QED
        BY <1>6, <3>1, <3>2
    <2>2. QED
      BY <1>3, <2>1, Untouched
  <1>8. Sound(after)
    BY <1>3, <1>5, <1>7 DEF Sound, SoundChunks
  <1>9. Lines(after) = Range(ev.refs) /\ Lines(ev) = Range(ev.refs)
    BY <1>2, <1>5, NothingAside
  <1>10. Types'
    BY <1>1, <1>2, <1>4 DEF IInv, Types, TestTypeOK
  <1>11. Generating'
    BY <1>1, <1>2, <1>4, <1>5, <1>8 DEF Generating
  <1>12. VictimsApart'
    <2>1. x \notin Range(ev.refs)
      BY <1>2, <1>4
    <2>2. \A v \in vics \cup {x} : mem2[v] = Null
      BY <1>2, <1>6
    <2>3. (vics \cup {x}) \cap Lines(after) = {}
      BY <1>2, <1>9, <2>1
    <2>4. QED
      BY <1>1, <1>5, <2>2, <2>3 DEF VictimsApart
  <1>13. AtEnd'
    BY <1>1 DEF IInv, AtEnd
  <1>14. QED
    BY <1>1, <1>10, <1>11, <1>12, <1>13
       DEF IInv, Reducing, AtReduce, AtTry, AtAsk, AtFinish

LEMMA FindVictimInv == IInv /\ FindVictim => IInv'
  <1> SUFFICES ASSUME IInv, FindVictim PROVE IInv'
    OBVIOUS
  <1>1. /\ pc = "generate" /\ indices = <<>> /\ indices' = indices
        /\ input' = input /\ groups' = groups /\ noisy' = noisy
        /\ vics' = vics /\ saved' = saved /\ evset' = evset /\ c' = c
    BY DEF FindVictim, call, lists, testVars
  <1>2. evset \in Object /\ evset.del = <<>> /\ saved = <<>>
    BY <1>1, Unsaved DEF IInv, Generating
  <1>3. Sound(evset)
    <2>1. CASE evset.refs = <<>>
      <3>1. evset.ptr = First(evset.refs)
        BY <1>1, <2>1 DEF IInv, Generating, First
      <3>2. IsInjective(evset.refs) /\ Linked(evset.mem, evset.refs, Null)
        BY <2>1 DEF IsInjective, Linked
      <3>3. QED
        BY <1>2, <3>1, <3>2 DEF Sound, SoundChunks
    <2>2. CASE evset.refs # <<>>
      BY <1>1, <2>2 DEF IInv, Generating
    <2>3. QED
      BY <2>1, <2>2
  <1>4. pc' \in {"reduce", "done"}
    BY DEF FindVictim
  <1>5. verdict' \in {"none", "found", "failed"}
          /\ (pc' = "reduce" => verdict' = "none") /\ (pc' = "done" => verdict' # "none")
    BY <1>1 DEF FindVictim, IInv, AtEnd
  <1>6. pc' = "reduce" => Worth(evset.refs)
    <2>1. Chain(Memory(evset), evset.ptr) = evset.refs
      BY <1>1, TimedLines
    <2>2. QED
      BY <2>1 DEF FindVictim, Worth
  <1>7. AtReduce'
    <2>1. Worth(evset.refs)' <=> Worth(evset.refs)
      BY <1>1 DEF Worth, Trusted, Evicts
    <2>2. QED
      BY <1>1, <1>2, <1>6, <2>1 DEF AtReduce
  <1>8. Types' /\ VictimsApart'
    BY <1>1, <1>4, <1>5 DEF IInv, Types, VictimsApart, TestTypeOK
  <1>9. AtEnd'
    BY <1>1, <1>2, <1>4, <1>5 DEF AtEnd
  <1>10. QED
    BY <1>1, <1>3, <1>4, <1>7, <1>8, <1>9
       DEF IInv, Generating, Reducing, AtTry, AtAsk, AtFinish

LEMMA CutUpInv == IInv /\ CutUp => IInv'
  <1> SUFFICES ASSUME IInv, CutUp PROVE IInv'
    OBVIOUS
  <1>1. /\ pc = "reduce" /\ pc' = "try" /\ Len(evset.refs) > Target
        /\ m' = Pieces(evset.refs) /\ c' = 1 /\ evset' = evset
        /\ UNCHANGED <<call, lists>> /\ saved' = saved /\ verdict' = verdict
    BY DEF CutUp, lists
  <1>2. Sound(evset) /\ evset.refs \in Seq(Elem)
    BY <1>1 DEF IInv, Reducing, Sound, Object
  <1>3. Footing'
    <2>1. verdict' \in {"none", "found", "failed"}
      BY <1>1 DEF IInv, Types
    <2>2. QED
      BY <1>1, <1>2, <2>1, StandsFirm, Zenon
  <1>4. AtTry'
    <2> DEFINE b == evset.refs
    <2>1. Start(b, 1 - 1) = 0 /\ Len(b) > Target /\ Len(b) \in Nat
      BY <1>1, <1>2, PiecesFit, LenProperties
    <2>2. b = <<>> \o SubSeq(b, 0 + 1, Len(b))
      <3>1. SubSeq(b, 1, Len(b)) = b
        BY <1>2, SubSeqFull
      <3>2. <<>> \o b = b
        BY <1>2, ConcatEmptySeq
      <3>3. QED
        BY <3>1, <3>2
    <2>3. <<>> \in Seq(Elem) /\ Len(<<>>) = 0
      BY EmptySeq
    <2>4. 1 \in 1 .. Target + 2
      BY TargetAssumption
    <2>5. QED
      BY <1>1, <1>2, <2>1, <2>2, <2>3, <2>4 DEF AtTry
  <1>5. AtEnd'
    BY <1>1 DEF IInv, AtEnd
  <1>6. QED
    BY <1>1, <1>3, <1>4, <1>5 DEF Footing, IInv, AtReduce, AtAsk, AtFinish

(* Where the c-th piece stands while the pieces before it have been put    *)
(* back in front.                                                          *)
LEMMA PieceInPlace ==
  ASSUME NEW a \in Seq(Elem), NEW b \in Seq(Elem), Len(b) > Target,
         NEW k \in 1 .. Target + 1, Len(a) = Start(b, k - 1)
  PROVE  LET q == Pieces(b)[k]
             z == SubSeq(b, Start(b, k) + 1, Len(b))
         IN  /\ q \in Seq(Elem) /\ q # <<>> /\ z \in Seq(Elem)
             /\ SubSeq(b, Start(b, k - 1) + 1, Len(b)) = q \o z
             /\ Len(q \o a) = Start(b, k)
             /\ Len(a \o z) >= Target
  <1> DEFINE x == Start(b, k - 1)
             y == Start(b, k)
             n == Len(b)
             q == SubSeq(b, x + 1, y)
             z == SubSeq(b, y + 1, n)
  <1>1. /\ x \in 0 .. n /\ y \in 1 .. n /\ x < y /\ n - (y - x) >= Target
        /\ Pieces(b)[k] = q /\ n \in Nat /\ Target \in Nat /\ Len(a) = x
    BY PiecesFit, LenProperties, TargetAssumption
  <1> HIDE DEF x, y
  <1>2. /\ q \in Seq(Elem) /\ Len(q) = y - x /\ z \in Seq(Elem) /\ Len(z) = n - y
    <2>1. x + 1 \in 1 .. n + 1 /\ y \in (x + 1) - 1 .. n
            /\ y + 1 \in 1 .. n + 1 /\ n \in (y + 1) - 1 .. n
            /\ y - (x + 1) + 1 = y - x /\ n - (y + 1) + 1 = n - y
      BY <1>1
    <2>2. QED
      BY <2>1, Excerpt
  <1>3. SubSeq(b, x + 1, n) = q \o z
    <2>1. x + 1 \in 1 .. n + 1 /\ y \in (x + 1) - 1 .. n /\ n \in y .. n
      BY <1>1
    <2>2. QED
      BY <1>1, <2>1, ConcatAdjacentSubSeq
  <1> HIDE DEF q, z, n
  <1>4. q # <<>>
    BY <1>1, <1>2, EmptySeq
  <1>5. Len(q \o a) = y /\ Len(a \o z) >= Target
    <2>1. Len(q \o a) = Len(q) + Len(a) /\ Len(a \o z) = Len(a) + Len(z)
      BY <1>2, ConcatProperties
    <2>2. QED
      BY <1>1, <1>2, <2>1
  <1>6. QED
    BY <1>1, <1>2, <1>3, <1>4, <1>5 DEF x, y, q, z, n

LEMMA LeaveOutInv == IInv /\ LeaveOut => IInv' /\ Lines(evset') = Lines(evset)
  <1> SUFFICES ASSUME IInv, LeaveOut PROVE IInv' /\ Lines(evset') = Lines(evset)
    OBVIOUS
  <1>1. /\ pc = "try" /\ pc' = "ask" /\ c <= Len(m) /\ evset' = Unlink(evset, m[c])
        /\ m' = m /\ c' = c /\ UNCHANGED <<call, lists>> /\ saved' = saved
        /\ verdict' = verdict
    BY DEF LeaveOut, lists
  <1>2. Sound(evset) /\ evset \in Object /\ evset.del \in Seq(Seq(Elem))
          /\ c \in Nat /\ verdict \in {"none", "found", "failed"}
    BY <1>1 DEF IInv, Reducing, Sound, Object, Types
  <1>3. PICK a \in Seq(Elem), b \in Seq(Elem) :
          /\ Len(b) > Target /\ m = Pieces(b) /\ c \in 1 .. Target + 2
          /\ Len(a) = Start(b, c - 1)
          /\ evset.refs = a \o SubSeq(b, Start(b, c - 1) + 1, Len(b))
    BY <1>1 DEF IInv, AtTry
  <1>4. c \in 1 .. Target + 1
    <2>1. Len(m) = Target + 1
      BY <1>3, PiecesFit
    <2>2. QED
      BY <1>1, <1>3, <2>1, TargetAssumption
  <1> DEFINE q == m[c]
             z == SubSeq(b, Start(b, c) + 1, Len(b))
             after == evset'
  <1>5. q \in Seq(Elem) /\ q # <<>> /\ z \in Seq(Elem)
          /\ evset.refs = a \o (q \o z)
    BY <1>3, <1>4, PieceInPlace
  <1> HIDE DEF q, z
  <1>6. Between(evset.refs, a, q, z)
    <2>1. (a \o q) \o z = a \o (q \o z)
      BY <1>5, ConcatAssociative
    <2>2. QED
      BY <1>5, <2>1 DEF Between
  <1>7. /\ Sound(after) /\ after.refs = a \o z /\ after.del = Append(evset.del, q)
        /\ \A e \in Elem \ Range(evset.refs) : after.mem[e] = evset.mem[e]
    <2> DEFINE u == Unlink(evset, q)
    <2>1. /\ Sound(u) /\ u.refs = a \o z /\ u.del = Append(evset.del, q)
          /\ \A e \in Elem \ Range(evset.refs) : u.mem[e] = evset.mem[e]
      <3>1. /\ Sound(evset) /\ Between(evset.refs, a, q, z)
            /\ q \in Seq(Elem) /\ q # <<>> /\ z \in Seq(Elem)
        BY <1>2, <1>5, <1>6
      <3>2. QED
        BY <3>1, UnlinkChunk
    <2> HIDE DEF u
    <2>2. after = u
      BY <1>1 DEF q, u
    <2>3. QED
      BY <2>1, <2>2
  <1>8. Lines(after) = Lines(evset)
    <2>1. after \in Object
      BY <1>7 DEF Sound
    <2>2. QED
      BY <1>2, <1>5, <1>6, <1>7, <2>1, UnlinkLines
  <1>9. \A e \in Elem \ Lines(evset) : after.mem[e] = evset.mem[e]
    BY <1>7 DEF Lines
  <1>10. Footing'
    BY <1>1, <1>2, <1>7, <1>8, <1>9, StandsFirm, Zenon
  <1>11. after.del # <<>> /\ Last(after.del) = q
    <2> DEFINE d == evset.del
               d2 == Append(d, q)
    <2>1. d2 # <<>> /\ Last(d2) = q
      BY <1>2, <1>5, AppendLast
    <2>2. after.del = d2
      BY <1>7
    <2> HIDE DEF d2
    <2>3. QED
      BY <2>1, <2>2
  <1>12. AtAsk'
    BY <1>1, <1>3, <1>4, <1>7, <1>11 DEF AtAsk, q, z
  <1>13. AtEnd'
    BY <1>1 DEF IInv, AtEnd
  <1>14. QED
    BY <1>1, <1>8, <1>10, <1>12, <1>13 DEF Footing, IInv, AtReduce, AtTry, AtFinish

(* An answer that may be given makes the lines worth something.            *)
LEMMA Evicted ==
  ASSUME TRUE \in Answers(Range(evset.refs))
  PROVE  Worth(evset.refs)
  BY DEF Answers, Worth, Trusted

LEMMA WorthStays ==
  ASSUME UNCHANGED testVars
  PROVE  \A s : Worth(s)' <=> Worth(s')
  BY DEF testVars, Worth, Trusted, Evicts

(* A chunk is put back, if there is one.                                   *)
LEMMA RelinkOne ==
  ASSUME NEW ev, Sound(ev)
  PROVE  LET after == Relink(ev)
         IN  /\ Sound(after) /\ Lines(after) = Lines(ev)
             /\ Len(after.refs) >= Len(ev.refs)
             /\ \A e \in Elem \ Lines(ev) : after.mem[e] = ev.mem[e]
  <1>1. ev.refs \in Seq(Elem) /\ Len(ev.refs) \in Nat /\ ev.del \in Seq(Seq(Elem))
    BY LenProperties DEF Sound, Object
  <1>2. CASE ev.del = <<>>
    <2>1. Relink(ev) = ev
      BY <1>2 DEF Relink
    <2>2. QED
      BY <1>1, <2>1
  <1>3. CASE ev.del # <<>>
    <2> DEFINE after == Relink(ev)
               q == Last(ev.del)
    <2>1. /\ Sound(after) /\ Lines(after) = Lines(ev)
          /\ after.refs = q \o ev.refs
          /\ \A e \in Elem \ Lines(ev) : after.mem[e] = ev.mem[e]
      BY <1>3, RelinkChunk
    <2>2. q \in Seq(Elem)
      BY <1>1, <1>3, FrontLines
    <2> HIDE DEF after, q
    <2>3. Len(after.refs) = Len(q) + Len(ev.refs) /\ Len(q) \in Nat
      BY <1>1, <2>1, <2>2, TakenApart
    <2>4. Len(after.refs) >= Len(ev.refs)
      BY <1>1, <2>3
    <2>5. QED
      BY <2>1, <2>4 DEF after
  <1>4. QED
    BY <1>2, <1>3

LEMMA AskInv == IInv /\ Ask => IInv' /\ Lines(evset') = Lines(evset)
  <1> SUFFICES ASSUME IInv, Ask PROVE IInv' /\ Lines(evset') = Lines(evset)
    OBVIOUS
  <1>1. /\ pc = "ask" /\ UNCHANGED <<call, lists>> /\ UNCHANGED testVars
        /\ saved' = saved /\ verdict' = verdict
    BY DEF Ask, call, lists
  <1>2. Sound(evset) /\ evset.del \in Seq(Seq(Elem)) /\ evset.refs \in Seq(Elem)
          /\ c \in Nat /\ verdict \in {"none", "found", "failed"}
    BY <1>1 DEF IInv, Reducing, Sound, Object, Types
  <1>3. PICK a \in Seq(Elem), b \in Seq(Elem) :
          /\ Len(b) > Target /\ m = Pieces(b) /\ c \in 1 .. Target + 1
          /\ Len(a) = Start(b, c - 1)
          /\ evset.refs = a \o SubSeq(b, Start(b, c) + 1, Len(b))
          /\ evset.del # <<>> /\ Last(evset.del) = m[c]
    BY <1>1 DEF IInv, AtAsk
  <1> DEFINE q == m[c]
             z == SubSeq(b, Start(b, c) + 1, Len(b))
  <1>4. /\ q \in Seq(Elem) /\ q # <<>> /\ z \in Seq(Elem)
        /\ Len(q \o a) = Start(b, c) /\ Len(a \o z) >= Target
    BY <1>3, PieceInPlace
  <1> HIDE DEF q, z
  <1>5. evset.refs = a \o z /\ Last(evset.del) = q
    BY <1>3 DEF q, z
  <1>6. Chain(Memory(evset), evset.ptr) = evset.refs
    BY <1>1, TimedLines
  <1>7. \/ /\ TRUE \in Answers(Range(evset.refs))
           /\ pc' = "reduce" /\ c' = 0 /\ evset' = evset
        \/ pc' = "try" /\ c' = c + 1 /\ m' = m /\ evset' = Relink(evset)
    BY <1>6 DEF Ask, Answers
  <1>8. AtEnd'
    BY <1>1, <1>7 DEF IInv, AtEnd
  <1>9. CASE /\ TRUE \in Answers(Range(evset.refs))
             /\ pc' = "reduce" /\ c' = 0 /\ evset' = evset
    <2>1. Footing'
      BY <1>1, <1>2, <1>9, StandsFirm
    <2>2. AtReduce'
      <3>1. Worth(evset.refs)
        BY <1>9, Evicted
      <3>2. Worth(evset.refs)'
        BY <1>1, <1>9, <3>1 DEF testVars, Worth, Trusted, Evicts
      <3>3. Len(evset.refs) >= Target
        BY <1>4, <1>5
      <3>4. QED
        BY <1>9, <3>2, <3>3 DEF AtReduce
    <2>3. QED
      BY <1>8, <1>9, <2>1, <2>2 DEF Footing, IInv, AtTry, AtAsk, AtFinish
  <1>10. CASE pc' = "try" /\ c' = c + 1 /\ m' = m /\ evset' = Relink(evset)
    <2> DEFINE u == Relink(evset)
    <2>1. /\ Sound(u) /\ Lines(u) = Lines(evset)
          /\ \A e \in Elem \ Lines(evset) : u.mem[e] = evset.mem[e]
      BY <1>2, RelinkOne
    <2>2. u.refs = q \o (a \o z)
      BY <1>2, <1>3, <1>5, RelinkChunk
    <2> HIDE DEF u
    <2>3. evset' = u
      BY <1>10 DEF u
    <2>4. Footing'
      BY <1>1, <1>2, <1>10, <2>1, <2>3, StandsFirm
    <2>5. AtTry'
      <3>1. u.refs = (q \o a) \o z
        <4>1. (q \o a) \o z = q \o (a \o z)
          BY <1>4, ConcatAssociative
        <4>2. QED
          BY <2>2, <4>1
      <3>2. q \o a \in Seq(Elem)
        BY <1>3, <1>4, ConcatProperties
      <3>3. c + 1 \in 1 .. Target + 2 /\ (c + 1) - 1 = c
        BY <1>2, <1>3, TargetAssumption
      <3> DEFINE qa == q \o a
      <3>4. qa \in Seq(Elem) /\ u.refs = qa \o z /\ Len(qa) = Start(b, c)
        BY <1>4, <3>1, <3>2
      <3> HIDE DEF qa
      <3>5. \E x, y \in Seq(Elem) :
              /\ Len(y) > Target /\ m' = Pieces(y) /\ c' \in 1 .. Target + 2
              /\ Len(x) = Start(y, c' - 1)
              /\ evset'.refs = x \o SubSeq(y, Start(y, c' - 1) + 1, Len(y))
        <4>1. c' - 1 = c /\ c' \in 1 .. Target + 2
          BY <1>10, <3>3
        <4>2. evset'.refs = qa \o SubSeq(b, Start(b, c' - 1) + 1, Len(b))
          BY <2>3, <3>4, <4>1 DEF z
        <4>3. QED
          BY <1>3, <1>10, <3>4, <4>1, <4>2
      <3>6. QED
        BY <3>5 DEF AtTry
    <2>6. QED
      BY <1>8, <1>10, <2>1, <2>3, <2>4, <2>5
         DEF Footing, IInv, AtReduce, AtAsk, AtFinish
  <1>11. QED
    BY <1>7, <1>9, <1>10

LEMMA StuckInv == IInv /\ Stuck => IInv' /\ Lines(evset') = Lines(evset)
  <1> SUFFICES ASSUME IInv, Stuck PROVE IInv' /\ Lines(evset') = Lines(evset)
    OBVIOUS
  <1>1. /\ pc = "try" /\ c > Len(m) /\ c' = 0
        /\ evset' = Relink(evset) \/ evset' = RelinkAll(evset)
        /\ pc' = IF evset'.del = <<>> THEN "finish" ELSE "reduce"
        /\ UNCHANGED <<call, lists>> /\ UNCHANGED testVars
        /\ saved' = saved /\ verdict' = verdict
    BY DEF Stuck, call, lists
  <1>2. Sound(evset) /\ evset.refs \in Seq(Elem) /\ verdict \in {"none", "found", "failed"}
    BY <1>1 DEF IInv, Reducing, Sound, Object, Types
  <1>3. Len(evset.refs) > Target /\ Len(evset.refs) \in Nat
    <2>1. PICK a \in Seq(Elem), b \in Seq(Elem) :
            /\ Len(b) > Target /\ m = Pieces(b) /\ c \in 1 .. Target + 2
            /\ Len(a) = Start(b, c - 1)
            /\ evset.refs = a \o SubSeq(b, Start(b, c - 1) + 1, Len(b))
      BY <1>1 DEF IInv, AtTry
    <2>2. Len(m) = Target + 1 /\ Start(b, Target + 1) = Len(b) /\ Len(b) \in Nat
      BY <2>1, PiecesFit, LenProperties
    <2>3. c - 1 = Target + 1
      BY <1>1, <2>1, <2>2, TargetAssumption
    <2> DEFINE z == SubSeq(b, Len(b) + 1, Len(b))
    <2>4. z \in Seq(Elem)
      <3>1. Len(b) + 1 \in 1 .. Len(b) + 1 /\ Len(b) \in (Len(b) + 1) - 1 .. Len(b)
        BY <2>2
      <3>2. QED
        BY <2>1, <3>1, Excerpt
    <2>5. Len(a) = Len(b) /\ evset.refs = a \o z
      BY <2>1, <2>2, <2>3
    <2> HIDE DEF z
    <2>6. Len(evset.refs) = Len(a) + Len(z) /\ Len(z) \in Nat
      BY <2>1, <2>4, <2>5, TakenApart
    <2>7. QED
      BY <2>1, <2>2, <2>5, <2>6, TargetAssumption
  <1>4. /\ Sound(evset') /\ Lines(evset') = Lines(evset)
        /\ Len(evset'.refs) >= Len(evset.refs)
        /\ \A e \in Elem \ Lines(evset) : evset'.mem[e] = evset.mem[e]
    <2>1. CASE evset' = Relink(evset)
      <3> DEFINE u == Relink(evset)
      <3>1. /\ Sound(u) /\ Lines(u) = Lines(evset) /\ Len(u.refs) >= Len(evset.refs)
            /\ \A e \in Elem \ Lines(evset) : u.mem[e] = evset.mem[e]
        BY <1>2, RelinkOne
      <3> HIDE DEF u
      <3>2. evset' = u
        BY <2>1 DEF u
      <3>3. QED
        BY <3>1, <3>2
    <2>2. CASE evset' = RelinkAll(evset)
      <3> DEFINE u == RelinkAll(evset)
      <3>1. /\ Sound(u) /\ u.del = <<>> /\ Range(u.refs) = Lines(evset)
            /\ Len(u.refs) >= Len(evset.refs)
            /\ \A e \in Elem \ Lines(evset) : u.mem[e] = evset.mem[e]
        BY <1>2, RelinkAllChunks
      <3> HIDE DEF u
      <3>2. evset' = u
        BY <2>2 DEF u
      <3>3. Lines(u) = Lines(evset)
        BY <3>1, NothingAside
      <3>4. QED
        BY <3>1, <3>2, <3>3
    <2>3. QED
      BY <1>1, <2>1, <2>2
  <1>5. pc' \in {"reduce", "finish"} /\ (pc' = "finish" => evset'.del = <<>>)
    BY <1>1
  <1>6. Footing'
    BY <1>1, <1>2, <1>4, <1>5, StandsFirm
  <1>7. Len(evset'.refs) > Target
    <2>1. Len(evset'.refs) \in Nat
      BY <1>4, LenProperties DEF Sound, Object
    <2>2. QED
      BY <1>3, <1>4, <2>1, TargetAssumption
  <1>8. Worth(evset.refs)' /\ Len(evset'.refs) >= Target
    <2>1. Len(evset'.refs) \in Nat
      BY <1>4, LenProperties DEF Sound, Object
    <2>2. QED
      BY <1>7, <2>1, TargetAssumption DEF Worth
  <1>9. AtReduce' /\ AtFinish'
    BY <1>5, <1>8 DEF AtReduce, AtFinish
  <1>10. AtEnd'
    BY <1>1, <1>5 DEF IInv, AtEnd
  <1>11. QED
    BY <1>4, <1>5, <1>6, <1>9, <1>10 DEF Footing, IInv, AtTry, AtAsk

LEMMA ReducedInv == IInv /\ Reduced => IInv'
  <1> SUFFICES ASSUME IInv, Reduced PROVE IInv'
    OBVIOUS
  <1>1. /\ pc = "reduce" /\ Len(evset.refs) <= Target /\ pc' = "finish"
        /\ evset' = evset /\ c' = c /\ UNCHANGED <<call, lists>> /\ UNCHANGED testVars
        /\ saved' = saved /\ verdict' = verdict
    BY DEF Reduced, call, lists
  <1>2. Sound(evset) /\ Len(evset.refs) \in Nat /\ c \in Nat
          /\ verdict \in {"none", "found", "failed"}
    BY <1>1, LenProperties DEF IInv, Reducing, Sound, Object, Types
  <1>3. Footing'
    BY <1>1, <1>2, StandsFirm
  <1>4. AtFinish'
    <2>1. Worth(evset.refs) /\ (Len(evset.refs) >= Target \/ evset.del = <<>>)
      BY <1>1 DEF IInv, AtReduce
    <2>2. Worth(evset.refs)'
      BY <1>1, <2>1 DEF testVars, Worth, Trusted, Evicts
    <2>3. QED
      BY <1>1, <1>2, <2>1, <2>2, TargetAssumption DEF AtFinish
  <1>5. AtEnd'
    BY <1>1 DEF IInv, AtEnd
  <1>6. QED
    BY <1>1, <1>3, <1>4, <1>5 DEF Footing, IInv, AtReduce, AtTry, AtAsk

LEMMA FinishInv == IInv /\ Finish => IInv'
  <1> SUFFICES ASSUME IInv, Finish PROVE IInv'
    OBVIOUS
  <1>1. /\ pc = "finish" /\ c' = c /\ UNCHANGED <<call, lists>> /\ saved' = saved
        /\ \/ /\ Len(evset.refs) = Target
              /\ verdict' = "found" /\ pc' = "save" /\ evset' = evset
           \/ verdict' = "failed" /\ pc' = "done" /\ evset' = RelinkAll(evset)
    BY DEF Finish, lists
  <1>2. Sound(evset) /\ c \in Nat /\ saved = <<>>
    BY <1>1, Unsaved DEF IInv, Reducing, Types
  <1>3. /\ Sound(evset') /\ Lines(evset') = Lines(evset)
        /\ \A e \in Elem \ Lines(evset) : evset'.mem[e] = evset.mem[e]
    <2>1. CASE evset' = evset
      BY <1>2, <2>1
    <2>2. CASE evset' = RelinkAll(evset)
      <3> DEFINE u == RelinkAll(evset)
      <3>1. /\ Sound(u) /\ u.del = <<>> /\ Range(u.refs) = Lines(evset)
            /\ \A e \in Elem \ Lines(evset) : u.mem[e] = evset.mem[e]
        BY <1>2, RelinkAllChunks
      <3> HIDE DEF u
      <3>2. evset' = u
        BY <2>2 DEF u
      <3>3. Lines(u) = Lines(evset)
        BY <3>1, NothingAside
      <3>4. QED
        BY <3>1, <3>2, <3>3
    <2>3. QED
      BY <1>1, <2>1, <2>2
  <1>4. Footing'
    BY <1>1, <1>2, <1>3, StandsFirm
  <1>5. AtEnd'
    BY <1>1, <1>2 DEF AtEnd
  <1>6. QED
    BY <1>1, <1>4, <1>5 DEF Footing, IInv, AtReduce, AtTry, AtAsk, AtFinish

(* What start() makes of the object it saves.                              *)
LEMMA Relisted ==
  ASSUME NEW ev, Sound(ev)
  PROVE  LET after == LinkAll([ev EXCEPT !.del = <<>>], FlattenSeq(ev.del))
         IN  /\ Sound(after) /\ after.del = <<>>
             /\ Range(after.refs) = Aside(ev)
             /\ \A e \in Elem \ Aside(ev) : after.mem[e] = ev.mem[e]
  <1> DEFINE t == FlattenSeq(ev.del)
             bare == [ev EXCEPT !.del = <<>>]
             after == LinkAll(bare, t)
  <1>1. /\ ev \in Object /\ ev.del \in Seq(Seq(Elem)) /\ SoundChunks(ev)
    BY DEF Sound, Object
  <1>2. t \in Seq(Elem) /\ IsInjective(t) /\ Range(t) = Aside(ev)
    BY <1>1, Flattened DEF SoundChunks, Aside
  <1> HIDE DEF t
  <1>3. bare \in Object /\ bare.mem = ev.mem /\ bare.del = <<>>
    BY <1>1, EmptySeq DEF Object
  <1> HIDE DEF bare
  <1>4. /\ after \in Object
        /\ after.refs = t /\ after.ptr = First(t) /\ after.del = bare.del
        /\ Linked(after.mem, t, Null)
        /\ \A e \in Elem \ Range(t) : after.mem[e] = bare.mem[e]
    BY <1>2, <1>3, LinkEverything
  <1> HIDE DEF after
  <1>5. Sound(after)
    BY <1>2, <1>3, <1>4 DEF Sound, SoundChunks
  <1>6. /\ Sound(after) /\ after.del = <<>> /\ Range(after.refs) = Aside(ev)
        /\ \A e \in Elem \ Aside(ev) : after.mem[e] = ev.mem[e]
    BY <1>2, <1>3, <1>4, <1>5
  <1>7. QED
    BY <1>6 DEF after, bare, t

LEMMA SaveInv ==
  IInv /\ Save => IInv' /\ Range(evset'.refs) = Aside(evset) /\ evset'.del = <<>>
  <1> SUFFICES ASSUME IInv, Save
               PROVE  /\ IInv' /\ Range(evset'.refs) = Aside(evset)
                      /\ evset'.del = <<>>
    OBVIOUS
  <1>1. /\ pc = "save" /\ pc' = "done" /\ saved' = evset.refs
        /\ evset' = LinkAll([evset EXCEPT !.del = <<>>], FlattenSeq(evset.del))
        /\ input' = input /\ groups' = groups /\ noisy' = noisy
        /\ indices' = indices /\ vics' = vics /\ c' = c /\ verdict' = verdict
    BY DEF Save, call, testVars
  <1>2. /\ Sound(evset) /\ verdict = "found" /\ indices = <<>>
        /\ vics \subseteq Elem /\ vics \cap Lines(evset) = {}
        /\ \A v \in vics : evset.mem[v] = Null
    BY <1>1 DEF IInv, Reducing, AtEnd, VictimsApart, Types
  <1>3. /\ evset.refs \in Seq(Elem) /\ IsInjective(evset.refs)
        /\ Linked(evset.mem, evset.refs, Null)
        /\ Range(evset.refs) \cap Aside(evset) = {}
    BY <1>2, AsideLines DEF Sound, Object
  <1>4. /\ Sound(evset') /\ evset'.del = <<>> /\ Range(evset'.refs) = Aside(evset)
        /\ \A e \in Elem \ Aside(evset) : evset'.mem[e] = evset.mem[e]
    <2> DEFINE u == LinkAll([evset EXCEPT !.del = <<>>], FlattenSeq(evset.del))
    <2>1. /\ Sound(u) /\ u.del = <<>> /\ Range(u.refs) = Aside(evset)
          /\ \A e \in Elem \ Aside(evset) : u.mem[e] = evset.mem[e]
      BY <1>2, Relisted
    <2> HIDE DEF u
    <2>2. evset' = u
      BY <1>1 DEF u
    <2>3. QED
      BY <2>1, <2>2
  <1>5. Types'
    BY <1>1, <1>3 DEF IInv, Types, TestTypeOK
  <1>6. VictimsApart'
    <2>1. Lines(evset') = Aside(evset) /\ Aside(evset) \subseteq Lines(evset)
      BY <1>4, NothingAside DEF Lines
    <2>2. QED
      BY <1>1, <1>2, <1>4, <2>1 DEF VictimsApart
  <1>7. AtEnd'
    <2>1. Linked(evset'.mem, evset.refs, Null)
      <3>1. \A e \in Range(evset.refs) : evset'.mem[e] = evset.mem[e]
        BY <1>3, <1>4, RangeOfSeq
      <3>2. QED
        BY <1>3, <3>1, Untouched
    <2>2. Range(evset.refs) \cap (Range(evset'.refs) \cup vics) = {}
      BY <1>2, <1>3, <1>4 DEF Lines
    <2>3. QED
      BY <1>1, <1>2, <1>3, <1>4, <2>1, <2>2 DEF AtEnd
  <1>8. QED
    BY <1>1, <1>2, <1>4, <1>5, <1>6, <1>7
       DEF IInv, Generating, Reducing, AtReduce, AtTry, AtAsk, AtFinish

LEMMA StutterInv == IInv /\ UNCHANGED vars => IInv'
  <1> SUFFICES ASSUME IInv, UNCHANGED vars PROVE IInv'
    OBVIOUS
  <1>1. /\ input' = input /\ groups' = groups /\ noisy' = noisy /\ pc' = pc
        /\ indices' = indices /\ vics' = vics /\ saved' = saved /\ evset' = evset
        /\ m' = m /\ c' = c /\ verdict' = verdict
    BY DEF vars, call, lists, testVars
  <1>2. Types' /\ Generating' /\ Reducing' /\ VictimsApart'
    BY <1>1 DEF IInv, Types, TestTypeOK, Generating, Reducing, VictimsApart
  <1>3. Worth(evset.refs)' <=> Worth(evset.refs)
    BY <1>1 DEF Worth, Trusted, Evicts
  <1>4. AtReduce' /\ AtFinish' /\ AtEnd'
    BY <1>1, <1>3 DEF IInv, AtReduce, AtFinish, AtEnd
  <1>5. AtTry' /\ AtAsk'
    BY <1>1 DEF IInv, AtTry, AtAsk
  <1>6. QED
    BY <1>2, <1>4, <1>5 DEF IInv

LEMMA StepInv == IInv /\ [Next]_vars => IInv'
  BY KeepLineInv, MakeVictimInv, FindVictimInv, CutUpInv, LeaveOutInv, AskInv,
     StuckInv, ReducedInv, FinishInv, SaveInv, StutterInv DEF Next

(* What the methods of the object keep true: refs, the chunks set aside    *)
(* and the links in memory describe the same lists (evset.js 41-156,       *)
(* finder.js 150-203).                                                     *)
THEOREM Inductive == Spec => []IInv
  BY InitInv, StepInv, PTL DEF Spec

-----------------------------------------------------------------------------
(* For every list, associativity and outcome of the tests: what the timed  *)
(* code follows through memory is the array refs, every chunk set aside is *)
(* a chain that ends with it, every victim a chain of its own, and the     *)
(* chain of the saved set survives.                                        *)
THEOREM MemoryIsRight == Spec => []MemoryFollowsRefs
  <1>1. ASSUME IInv PROVE MemoryFollowsRefs
    <2>1. evset.mem \in [Elem -> Ptr]
      BY <1>1 DEF IInv, Generating, Reducing, Sound, Object
    <2>2. ASSUME NEW s \in Seq(Elem), IsInjective(s), Linked(evset.mem, s, Null),
                 s # <<>>
          PROVE  Chain(Memory(evset), s[1]) = s
      BY <2>1, <2>2, Chains DEF Memory, First
    <2>3. \/ pc = "generate" /\ evset.refs = <<>>
          \/ Chain(Memory(evset), evset.ptr) = evset.refs
      <3>1. CASE pc # "generate"
        BY <1>1, <3>1, TimedLines
      <3>2. CASE evset.refs # <<>>
        <4>1. /\ evset.refs \in Seq(Elem) /\ IsInjective(evset.refs)
              /\ Linked(evset.mem, evset.refs, Null) /\ evset.ptr = evset.refs[1]
          BY <1>1, <3>2 DEF IInv, Generating, Reducing, Sound, Object, First
        <4>2. QED
          BY <2>2, <3>2, <4>1
      <3>3. QED
        BY <3>1, <3>2
    <2>4. ASSUME NEW k \in DOMAIN evset.del
          PROVE  Chain(Memory(evset), evset.del[k][1]) = evset.del[k]
      <3>1. Sound(evset)
        <4>1. evset.del # <<>>
          BY <2>4
        <4>2. QED
          BY <1>1, <4>1 DEF IInv, Generating, Reducing
      <3>2. evset.del[k] \in Seq(Elem)
        BY <3>1, ElementOfSeq, LenProperties DEF Sound, Object
      <3>3. /\ evset.del[k] # <<>> /\ IsInjective(evset.del[k])
            /\ Linked(evset.mem, evset.del[k], Null)
        BY <3>1 DEF Sound, SoundChunks
      <3>4. QED
        BY <2>2, <3>2, <3>3
    <2>5. ASSUME NEW v \in vics PROVE Chain(Memory(evset), v) = <<v>>
      <3>1. v \in Elem /\ evset.mem[v] = Null
        BY <1>1 DEF IInv, Types, VictimsApart
      <3>2. /\ <<v>> \in Seq(Elem) /\ IsInjective(<<v>>) /\ <<v>> # <<>>
            /\ <<v>>[1] = v /\ Linked(evset.mem, <<v>>, Null)
        BY <3>1 DEF IsInjective, Linked
      <3>3. QED
        BY <2>2, <3>2
    <2>6. saved # <<>> => Chain(Memory(evset), saved[1]) = saved
      BY <1>1, <2>2 DEF IInv, Types, AtEnd
    <2>7. QED
      BY <2>3, <2>4, <2>5, <2>6 DEF MemoryFollowsRefs
  <1>2. QED
    BY <1>1, Inductive, PTL

-----------------------------------------------------------------------------
(***************************************************************************)
(* The refinement of Reduction.                                            *)
(***************************************************************************)
Kept == IF saved = <<>> THEN Range(evset.refs) \cup Range(indices)
        ELSE Range(saved)
Dropped == vics \cup Range(FlattenSeq(evset.del))
             \cup IF saved = <<>> THEN {} ELSE Range(evset.refs)

LEMMA SetAside ==
  ASSUME NEW ev, ev \in Object, SoundChunks(ev)
  PROVE  Range(FlattenSeq(ev.del)) = Aside(ev)
  <1>1. ev.del \in Seq(Seq(Elem))
    BY DEF Object
  <1>2. QED
    BY <1>1, Flattened DEF SoundChunks, Aside

LEMMA BeforeSaving ==
  ASSUME IInv, saved = <<>>
  PROVE  /\ Kept = Range(evset.refs) \cup Range(indices)
         /\ Dropped = vics \cup Aside(evset)
  <1>1. evset.del = <<>> => SoundChunks(evset)
    BY DEF SoundChunks
  <1>2. evset \in Object /\ SoundChunks(evset)
    BY <1>1 DEF IInv, Generating, Reducing, Sound
  <1>3. Range(FlattenSeq(evset.del)) = Aside(evset)
    BY <1>2, SetAside
  <1>4. QED
    BY <1>3 DEF Kept, Dropped

LEMMA SameCount ==
  ASSUME NEW S
  PROVE  Contract!Cardinality(S) = Cardinality(S)
  BY DEF Cardinality, Contract!Cardinality, IsFiniteSet, Contract!IsFiniteSet

LEMMA SameTrust ==
  ASSUME NEW S
  PROVE  Contract!Trusted(S) <=> Trusted(S)
  BY SameCount DEF Evicts, Trusted, Contract!Evicts, Contract!Trusted

LEMMA InitRefines == Init => Contract!Init
  <1> SUFFICES ASSUME Init PROVE Contract!Init
    OBVIOUS
  <1>1. IInv /\ saved = <<>> /\ vics = {} /\ verdict = "none"
    BY InitInv DEF Init
  <1>2. evset.del = <<>>
    BY DEF Init, LinkAll, Blank
  <1>3. Kept = Range(evset.refs) \cup Range(indices) /\ Dropped = {}
    BY <1>1, <1>2, BeforeSaving, NothingAside
  <1>4. evset.refs \in Seq(Elem) /\ indices \in Seq(Elem) /\ TestTypeOK
    BY <1>1 DEF IInv, Types, Generating, Reducing, Sound, Object
  <1>5. Kept \subseteq Elem
    BY <1>3, <1>4, RangeOfSeq
  <1>6. QED
    BY <1>1, <1>3, <1>4, <1>5
       DEF Contract!Init, Contract!TestTypeOK, TestTypeOK, Kept, Dropped

(* Chunks have been moved about.                                           *)
LEMMA Moved ==
  ASSUME IInv, IInv', pc # "generate", pc' # "generate", pc # "done", verdict = "none",
         UNCHANGED <<call, lists, verdict>>, Lines(evset') = Lines(evset)
  PROVE  Contract!Next
  <1>1. /\ saved = <<>> /\ saved' = <<>> /\ vics' = vics /\ UNCHANGED testVars
        /\ indices = <<>> /\ indices' = <<>>
    <2>1. saved = <<>> /\ indices = <<>>
      BY Unsaved DEF IInv, Reducing
    <2>2. UNCHANGED <<saved, vics, indices>> /\ UNCHANGED testVars
      BY DEF call, lists
    <2>3. QED
      BY <2>1, <2>2
  <1>2. Range(indices) = {}
    BY <1>1 DEF Range
  <1>3. Kept = Range(evset.refs) /\ Dropped = vics \cup Aside(evset)
    BY <1>1, <1>2, BeforeSaving
  <1>4. Kept' = Range(evset'.refs) /\ Dropped' = vics \cup Aside(evset')
    <2>1. Sound(evset')
      BY DEF IInv, Reducing
    <2>2. Range(FlattenSeq(evset'.del)) = Aside(evset')
      BY <2>1, SetAside DEF Sound
    <2>3. QED
      BY <1>1, <1>2, <2>2 DEF Kept, Dropped
  <1>5. /\ vics \cap Lines(evset) = {}
        /\ Range(evset'.refs) \cap Aside(evset') = {}
    BY <1>1, AsideLines DEF IInv, Reducing, VictimsApart
  <1>6. /\ Kept' \in SUBSET (Kept \cup Dropped)
        /\ Dropped' = (Kept \cup Dropped) \ Kept'
    BY <1>3, <1>4, <1>5 DEF Lines
  <1>7. Contract!Move
    BY <1>1, <1>6 DEF Contract!Move, Contract!testVars, testVars, Kept, Dropped
  <1>8. QED
    BY <1>7 DEF Contract!Next

LEMMA StepRefines == IInv /\ [Next]_vars => [Contract!Next]_(Contract!vars)
  <1> SUFFICES ASSUME IInv, [Next]_vars
               PROVE  Contract!Next \/ UNCHANGED Contract!vars
    BY Zenon
  <1>1. IInv'
    BY StepInv
  <1>2. ASSUME Kept' = Kept, Dropped' = Dropped, verdict' = verdict, UNCHANGED call
        PROVE  UNCHANGED Contract!vars
    BY <1>2 DEF Contract!vars, Kept, Dropped, call, testVars
  <1>3. ASSUME Kept' = Kept, Dropped' = Dropped, verdict = "none",
               verdict' = "failed", UNCHANGED call
        PROVE  Contract!Fail
    BY <1>3 DEF Contract!Fail, Contract!testVars, Kept, Dropped, call, testVars
  <1>4. CASE KeepLine
    <2> DEFINE x == Last(indices)
    <2>1. /\ indices # <<>> /\ saved = <<>> /\ indices \in Seq(Elem)
          /\ IsInjective(indices) /\ evset.refs \in Seq(Elem)
      BY <1>4, Unsaved DEF KeepLine, IInv, Types, Generating, Object
    <2>2. /\ evset'.refs = <<x>> \o evset.refs /\ evset'.del = evset.del
          /\ indices' = Front(indices) /\ saved' = saved /\ vics' = vics
          /\ verdict' = verdict /\ UNCHANGED call
      <3>1. evset \in Object
        BY <1>4 DEF KeepLine, IInv, Generating
      <3>2. QED
        BY <1>4, <3>1 DEF KeepLine, LinkElement, Object
    <2>3. x \in Elem /\ Range(indices) = Range(Front(indices)) \cup {x}
      BY <2>1, FrontInjective
    <2> HIDE DEF x
    <2>4. Range(<<x>> \o evset.refs) = {x} \cup Range(evset.refs)
      BY <2>1, <2>3, InFront
    <2>5. Kept' = Kept /\ Dropped' = Dropped
      BY <2>1, <2>2, <2>3, <2>4 DEF Kept, Dropped
    <2>6. QED
      BY <1>2, <2>2, <2>5
  <1>5. CASE MakeVictim
    <2> DEFINE x == Last(indices)
    <2>1. /\ indices # <<>> /\ saved = <<>> /\ indices \in Seq(Elem)
          /\ IsInjective(indices) /\ evset \in Object /\ verdict = "none"
          /\ Range(indices) \cap (Range(evset.refs) \cup vics) = {}
      BY <1>5, Unsaved DEF MakeVictim, IInv, Types, Generating, AtEnd
    <2>2. /\ evset'.refs = evset.refs /\ evset'.del = evset.del
          /\ indices' = Front(indices) /\ saved' = saved /\ vics' = vics \cup {x}
          /\ verdict' = verdict /\ UNCHANGED call
      BY <1>5, <2>1 DEF MakeVictim, Object
    <2>3. /\ x \in Range(indices) /\ x \notin Range(Front(indices))
          /\ Range(indices) = Range(Front(indices)) \cup {x}
      BY <2>1, FrontInjective
    <2> HIDE DEF x
    <2>4. vics \cap Range(evset.refs) = {} /\ evset.del = <<>>
      BY <1>5 DEF MakeVictim, IInv, Generating, VictimsApart, Lines
    <2>5. Range(FlattenSeq(evset.del)) = {}
      <3>1. SoundChunks(evset)
        BY <2>4 DEF SoundChunks
      <3>2. QED
        BY <2>1, <2>4, <3>1, SetAside, NothingAside
    <2>6. /\ Kept' \in SUBSET (Kept \cup Dropped)
          /\ Dropped' = (Kept \cup Dropped) \ Kept'
      BY <2>1, <2>2, <2>3, <2>4, <2>5 DEF Kept, Dropped
    <2>7. Contract!Move
      BY <2>1, <2>2, <2>6
         DEF Contract!Move, Contract!testVars, testVars, call, Kept, Dropped
    <2>8. QED
      BY <2>7 DEF Contract!Next
  <1>6. CASE FindVictim
    <2>1. /\ Kept' = Kept /\ Dropped' = Dropped /\ UNCHANGED call /\ verdict = "none"
      BY <1>6 DEF FindVictim, lists, Kept, Dropped, IInv, AtEnd
    <2>2. verdict' = verdict \/ verdict' = "failed"
      BY <1>6 DEF FindVictim
    <2>3. QED
      BY <1>2, <1>3, <2>1, <2>2 DEF Contract!Next
  <1>7. CASE LeaveOut
    <2>1. Lines(evset') = Lines(evset)
      BY <1>7, LeaveOutInv
    <2>2. QED
      BY <1>1, <1>7, <2>1, Moved DEF LeaveOut, IInv, AtEnd
  <1>8. CASE Ask
    <2>1. Lines(evset') = Lines(evset)
      BY <1>8, AskInv
    <2>2. pc = "ask" /\ pc' # "generate" /\ verdict = "none"
            /\ UNCHANGED <<call, lists, verdict>>
      BY <1>8 DEF Ask, IInv, AtEnd
    <2>3. QED
      BY <1>1, <2>1, <2>2, Moved
  <1>9. CASE Stuck
    <2>1. Lines(evset') = Lines(evset)
      BY <1>9, StuckInv
    <2>2. pc = "try" /\ pc' # "generate" /\ verdict = "none"
            /\ UNCHANGED <<call, lists, verdict>>
      BY <1>9 DEF Stuck, IInv, AtEnd
    <2>3. QED
      BY <1>1, <2>1, <2>2, Moved
  <1>10. CASE Finish
    <2>1. /\ pc = "finish" /\ Sound(evset) /\ Worth(evset.refs) /\ indices = <<>>
          /\ Len(evset.refs) = Target \/ evset.del = <<>>
          /\ saved = <<>> /\ verdict = "none" /\ UNCHANGED <<call, lists>>
      BY <1>10, Unsaved DEF Finish, IInv, Reducing, AtFinish, AtEnd
    <2>2. CASE Len(evset.refs) = Target
      <3>1. verdict' = "found" /\ evset' = evset
        BY <1>10, <2>2 DEF Finish
      <3>2. Kept' = Kept /\ Dropped' = Dropped
        BY <2>1, <3>1 DEF lists, Kept, Dropped
      <3>3. Kept = Range(evset.refs)
        BY <2>1 DEF Kept, Range
      <3>4. Cardinality(Kept) = Target
        BY <2>1, <2>2, <3>3, InjectiveCount DEF Sound, Object
      <3>5. Trusted(Kept)
        BY <2>1, <2>2, <3>3, TargetAssumption DEF Worth
      <3>6. Contract!Cardinality(Kept) <= Target /\ Contract!Trusted(Kept)
        BY <3>4, <3>5, SameCount, SameTrust, TargetAssumption
      <3>7. Contract!Succeed
        BY <2>1, <3>1, <3>2, <3>6
           DEF Contract!Succeed, Contract!testVars, call, testVars, Kept, Dropped
      <3>8. QED
        BY <3>7 DEF Contract!Next
    <2>3. CASE Len(evset.refs) # Target
      <3>1. verdict' = "failed" /\ evset' = RelinkAll(evset)
        BY <1>10, <2>3 DEF Finish
      <3>2. evset' = evset
        BY <2>1, <2>3, <3>1, RelinkAllChunks
      <3>3. Kept' = Kept /\ Dropped' = Dropped
        BY <2>1, <3>2 DEF lists, Kept, Dropped
      <3>4. QED
        BY <1>3, <2>1, <3>1, <3>3 DEF Contract!Next
    <2>4. QED
      BY <2>2, <2>3
  <1>11. CASE Save
    <2>1. Range(evset'.refs) = Aside(evset) /\ evset'.del = <<>>
      BY <1>11, SaveInv
    <2>2. /\ saved' = evset.refs /\ vics' = vics /\ saved = <<>> /\ indices = <<>>
          /\ verdict' = verdict /\ UNCHANGED call /\ Sound(evset)
          /\ Len(evset.refs) = Target
      BY <1>11, Unsaved DEF Save, IInv, Reducing, AtEnd
    <2>3. saved' # <<>>
      BY <2>2, EmptySeq, TargetAssumption
    <2>4. Range(indices) = {} /\ Range(FlattenSeq(evset.del)) = Aside(evset)
            /\ Range(FlattenSeq(evset'.del)) = {}
      <3>1. Range(indices) = {}
        BY <2>2 DEF Range
      <3>2. Range(FlattenSeq(evset.del)) = Aside(evset)
        BY <2>2, SetAside DEF Sound
      <3>3. Range(FlattenSeq(evset'.del)) = {}
        <4>1. <<>> \in Seq(Seq(Elem)) /\ DOMAIN <<>> = {}
          BY EmptySeq
        <4>2. Range(FlattenSeq(<<>>)) = {}
          BY <4>1, Flattened
        <4>3. QED
          BY <2>1, <4>2
      <3>4. QED
        BY <3>1, <3>2, <3>3
    <2>5. Kept' = Kept /\ Dropped' = Dropped
      BY <2>1, <2>2, <2>3, <2>4 DEF Kept, Dropped
    <2>6. QED
      BY <1>2, <2>2, <2>5
  <1>12. CASE CutUp \/ Reduced \/ UNCHANGED vars
    <2>1. UNCHANGED <<call, lists, evset, verdict>>
      BY <1>12 DEF CutUp, Reduced, vars
    <2>2. QED
      BY <1>2, <2>1 DEF lists, Kept, Dropped
  <1>13. QED
    BY <1>4, <1>5, <1>6, <1>7, <1>8, <1>9, <1>10, <1>11, <1>12 DEF Next

(* The browser port is, whatever the tests answer, a reduction as the C    *)
(* program has them: at every moment each line is in play or set aside,    *)
(* never both, what is found has the right size and has been seen to       *)
(* evict, and the verdict is final (evset.js 94-214, finder.js 150-203).   *)
(* That a verdict comes at all, the rest of IsReduction, is not proved.    *)
THEOREM Refinement == Spec => Contract!Spec
  <1>1. Init => Contract!Init
    BY InitRefines
  <1>2. IInv /\ [Next]_vars => [Contract!Next]_(Contract!vars)
    BY StepRefines
  <1>3. QED
    BY <1>1, <1>2, Inductive, PTL DEF Spec, Contract!Spec
=============================================================================
