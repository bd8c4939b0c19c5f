----------------------------- MODULE MCJobEnqueue -----------------------------
(* Small instances of JobEnqueue for TLC.                                  *)
EXTENDS JobEnqueue, TLC

\* Inputs 1 and 2 differ in brandId only: two job ids, one identity.  Input 3 is another job.
MCJobIds == [x \in Inputs |-> x]
MCKeys == [x \in Inputs |-> IF x = 3 THEN "other" ELSE "same"]
===============================================================================
