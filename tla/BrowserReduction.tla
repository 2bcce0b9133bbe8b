--------------------------- MODULE BrowserReduction --------------------------
(***************************************************************************)
(* The object of browser/evset.js from the conflict set to the eviction    *)
(* set that finder.js saves: genConflictSet(), groupReduction(), and what  *)
(* start() and cb() make of the result -- group testing a second time, in  *)
(* JavaScript.  The lines are kept twice, as the array refs and as a chain *)
(* of addresses in the shared memory, which is all the WebAssembly code    *)
(* sees: wasm_miss() follows the addresses from ptr on.  Every method      *)
(* changes both by hand.                                                   *)
(*                                                                         *)
(* The answers genConflictSet() gets are left open here (module            *)
(* ConflictSet is about them).                                             *)
(*                                                                         *)
(* Target is the property assoc, Null the address 0 that ends a chain.     *)
(***************************************************************************)
EXTENDS EvictionTest, ListHeap

CONSTANTS Candidates, Groupings,
          MaxStuck        \* MAX in groupReduction(), 20 in the code

ASSUME CandidatesAssumption ==
         \A s \in Candidates : s \in Seq(Elem) /\ IsInjective(s)
ASSUME GroupingsAssumption == Groupings \subseteq SUBSET SUBSET Elem
ASSUME MaxStuckAssumption == MaxStuck \in Nat

VARIABLES
  input,                  \* refs at the call
  pc,
  indices, vics,          \* genConflictSet(): lines to come, lines left over
  saved,                  \* what RESULTS got
  evset,                  \* refs, ptr, del and the memory they describe
  m, c,                   \* the chunks of this level, the one to try
  r,                      \* levels on which no chunk could be left out
  verdict

call == <<input, testVars>>
lists == <<indices, vics, saved>>
vars == <<call, lists, pc, evset, m, c, r, verdict>>

Memory(ev) == [next |-> ev.mem]

(* indicesToLinkedList(): every address leads to the next one.  Addresses  *)
(* that are not in the list keep what they hold.                           *)
LinkAll(ev, refs) ==
  [ev EXCEPT !.refs = refs,
             !.ptr = IF refs = <<>> THEN Null ELSE refs[1],
             !.mem = [x \in Elem |-> IF x \in Range(refs)
                                       THEN Links(refs, Null).next[x] ELSE @[x]]]

Blank == [refs |-> <<>>, ptr |-> Null, del |-> <<>>,
          mem |-> [x \in Elem |-> Null]]

(* Without CONFLICT the object comes to the reduction as it was made, with *)
(* more lines than it needs; with CONFLICT, after genConflictSet().        *)
Init == /\ input \in Candidates
        /\ groups \in Groupings
        /\ noisy \in BOOLEAN
        /\ \/ /\ pc = "generate" /\ indices = input
              /\ evset = [LinkAll(Blank, input) EXCEPT !.refs = <<>>]
           \/ /\ pc = "reduce" /\ indices = <<>>
              /\ Trusted(Range(input)) \/ Len(input) > Target
              /\ evset = LinkAll(Blank, input)
        /\ vics = {} /\ saved = <<>>
        /\ m = <<>> /\ c = 0 /\ r = 0
        /\ verdict = "none"

-----------------------------------------------------------------------------
(* linkElement(): a single line goes in front of the list.                 *)
LinkElement(ev, x) ==
  [ev EXCEPT !.refs = <<x>> \o @, !.ptr = x,
             !.mem[x] = IF ev.refs = <<>> THEN Null ELSE ev.refs[1]]

(* genConflictSet() takes the lines from the end.  The first ones are kept *)
(* unasked; a line that is asked for is first made the end of a chain.     *)
KeepLine == /\ pc = "generate" /\ indices # <<>>
            /\ evset' = LinkElement(evset, Last(indices))
            /\ indices' = Front(indices)
            /\ UNCHANGED <<call, vics, saved, pc, m, c, r, verdict>>

MakeVictim == /\ pc = "generate" /\ indices # <<>> /\ evset.refs # <<>>
              /\ evset' = [evset EXCEPT !.mem[Last(indices)] = Null]
              /\ vics' = vics \cup {Last(indices)}
              /\ indices' = Front(indices)
              /\ UNCHANGED <<call, saved, pc, m, c, r, verdict>>

(* cb() goes on to the reduction with a victim that the conflict set is    *)
(* seen to evict, and returns without one.                                 *)
FindVictim == /\ pc = "generate" /\ indices = <<>>
              /\ \/ vics # {} /\ Trusted(Range(Chain(Memory(evset), evset.ptr)))
                    /\ pc' = "reduce" /\ UNCHANGED verdict
                 \/ pc' = "done" /\ verdict' = "failed"
              /\ UNCHANGED <<call, lists, evset, m, c, r>>

-----------------------------------------------------------------------------
(* Array.chunk(): as many pieces as the associativity and one more; what   *)
(* does not divide evenly goes to the first ones.                          *)
Pieces(s) ==
  LET n == Target + 1
      q == Len(s) \div n
      ceiled == Len(s) % n
      start(k) == k * q + (IF k < ceiled THEN k ELSE ceiled)
  IN  [k \in 1 .. n |-> SubSeq(s, start(k - 1) + 1, start(k))]

UnlinkLeavingGap(ev, chunk) ==
  LET s == CHOOSE k \in DOMAIN ev.refs : ev.refs[k] = chunk[1]
      rest == SubSeq(ev.refs, 1, s - 1)
                \o SubSeq(ev.refs, s + Len(chunk), Len(ev.refs))
      ended == [ev.mem EXCEPT ![Last(chunk)] = Null]
  IN  [refs |-> rest, del |-> Append(ev.del, chunk), mem |-> ended,
       ptr |-> IF rest = <<>> THEN Null ELSE IF s = 1 THEN rest[1] ELSE ev.ptr]

(* unlinkChunk(): the chunk becomes a chain of its own, and the line       *)
(* before it, if any, leads to the one behind it or ends the list.         *)
Unlink(ev, chunk) ==
  LET s == CHOOSE k \in DOMAIN ev.refs : ev.refs[k] = chunk[1]
      rest == SubSeq(ev.refs, 1, s - 1)
                \o SubSeq(ev.refs, s + Len(chunk), Len(ev.refs))
      behind == IF s > Len(rest) THEN Null ELSE rest[s]
      ended == [ev.mem EXCEPT ![Last(chunk)] = Null]
  IN  [refs |-> rest,
       del |-> Append(ev.del, chunk),
       mem |-> IF s = 1 THEN ended ELSE [ended EXCEPT ![rest[s - 1]] = behind],
       ptr |-> IF s > 1 THEN ev.ptr ELSE behind]

(* relinkChunk(): the chunk taken out last goes in front of the list.      *)
Relink(ev) ==
  LET chunk == Last(ev.del)
  IN  IF ev.del = <<>> THEN ev
      ELSE [refs |-> chunk \o ev.refs,
            del |-> Front(ev.del),
            ptr |-> chunk[1],
            mem |-> IF ev.refs = <<>> THEN ev.mem
                    ELSE [ev.mem EXCEPT ![Last(chunk)] = ev.refs[1]]]

(* while (this.del.length > 0) this.relinkChunk();                         *)
RelinkAll(ev) ==
  LET undo[k \in 0 .. Len(ev.del)] == IF k = 0 THEN ev ELSE Relink(undo[k - 1])
  IN  undo[Len(ev.del)]

-----------------------------------------------------------------------------
CutUp == /\ pc = "reduce" /\ Len(evset.refs) > Target
         /\ m' = Pieces(evset.refs) /\ c' = 1
         /\ pc' = "try"
         /\ UNCHANGED <<call, lists, evset, r, verdict>>

LeaveOut == /\ pc = "try" /\ c <= Len(m)
            /\ evset' = Unlink(evset, m[c])
            /\ pc' = "ask"
            /\ UNCHANGED <<call, lists, m, c, r, verdict>>

(* The timed code follows the addresses, not refs.                         *)
Ask == /\ pc = "ask"
       /\ \E miss \in Answers(Range(Chain(Memory(evset), evset.ptr))) :
            IF miss THEN /\ pc' = "reduce" /\ c' = 0 /\ m' = <<>>
                         /\ UNCHANGED evset
                    ELSE /\ pc' = "try" /\ c' = c + 1 /\ UNCHANGED m
                         /\ evset' = Relink(evset)
       /\ UNCHANGED <<call, lists, r, verdict>>

CountNothing(k) == k
CountStuck(k) == k + 1

(* No chunk could be left out: take one back, up to MaxStuck times, then   *)
(* all of them.                                                            *)
Stuck == /\ pc = "try" /\ c > Len(m)
         /\ r' = CountStuck(r)
         /\ evset' = IF r' < MaxStuck THEN Relink(evset) ELSE RelinkAll(evset)
         /\ pc' = IF evset'.del = <<>> THEN "finish" ELSE "reduce"
         /\ m' = <<>> /\ c' = 0
         /\ UNCHANGED <<call, lists, verdict>>

Reduced == /\ pc = "reduce" /\ Len(evset.refs) <= Target
           /\ pc' = "finish"
           /\ UNCHANGED <<call, lists, evset, m, c, r, verdict>>

(* cb() looks at the length and asks no more.                              *)
Finish == /\ pc = "finish"
          /\ IF Len(evset.refs) = Target
               THEN verdict' = "found" /\ pc' = "save" /\ UNCHANGED evset
               ELSE verdict' = "failed" /\ pc' = "done" /\ evset' = RelinkAll(evset)
          /\ UNCHANGED <<call, lists, m, c, r>>

(* start() saves refs and makes a list of what was set aside.  The chain   *)
(* of the set that is saved stays in memory: the next victims are timed    *)
(* with it.                                                                *)
Save == /\ pc = "save"
        /\ saved' = evset.refs
        /\ evset' = LinkAll([evset EXCEPT !.del = <<>>], FlattenSeq(evset.del))
        /\ pc' = "done"
        /\ UNCHANGED <<call, indices, vics, m, c, r, verdict>>

Next == \/ KeepLine \/ MakeVictim \/ FindVictim
        \/ CutUp \/ LeaveOut \/ Ask \/ Stuck \/ Reduced \/ Finish \/ Save

Spec == Init /\ [][Next]_vars /\ WF_vars(Next)
-----------------------------------------------------------------------------
(* The two representations agree after every step: the chain in memory,    *)
(* which is what is timed, runs through refs in order; every chunk set     *)
(* aside is a chain that ends where the chunk does (evset.js 58-88), every *)
(* victim one of its own (148); and the chain of the set that was saved    *)
(* outlives the relinking of the others.  Only before genConflictSet() has *)
(* kept a line does ptr point into the old list.                           *)
MemoryFollowsRefs ==
  LET in(p) == Chain(Memory(evset), p)
  IN  /\ \/ pc = "generate" /\ evset.refs = <<>>
         \/ in(evset.ptr) = evset.refs
      /\ \A k \in DOMAIN evset.del : in(evset.del[k][1]) = evset.del[k]
      /\ \A v \in vics : in(v) = <<v>>
      /\ saved # <<>> => in(saved[1]) = saved

(* groupReduction() with what comes before and after it does what a        *)
(* reduction of the C program does, although it asks no last question: no  *)
(* line is lost, what is found is of the right size and known to evict,    *)
(* and it returns, because r bounds how often it starts over.  The victims *)
(* count as set aside.                                                     *)
Contract == INSTANCE Reduction
              WITH kept <- IF saved = <<>> THEN Range(evset.refs) \cup Range(indices)
                                           ELSE Range(saved),
                   dropped <- vics \cup Range(FlattenSeq(evset.del))
                                \cup IF saved = <<>> THEN {} ELSE Range(evset.refs)
IsReduction == Contract!LiveSpec
=============================================================================
