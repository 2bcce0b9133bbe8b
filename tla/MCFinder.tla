------------------------------ MODULE MCFinder -------------------------------
(* Finder, with lines and colours numbered.  The code looks at neither     *)
(* number, and takes lines in any order: one colouring stands for those    *)
(* that give as many lines each colour.                                    *)
EXTENDS Finder

InOrder == \A x, y \in Elem : x < y => color[x] <= color[y]

MCInit == Init /\ InOrder

MCSpec == MCInit /\ [][Next]_vars /\ WF_vars(Next)
=============================================================================
