------------------------------ MODULE MCTiming ------------------------------
(* Timing with every time from two that are negative to an outlier.  Of    *)
(* these two one names slot 0 of a table of one round, the other none.     *)
EXTENDS Timing

MCTimes == -2 .. Outlier
MCRatios == {-4, 0, 2, 3}
=============================================================================
