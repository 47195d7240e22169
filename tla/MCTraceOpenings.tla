--------------------------- MODULE MCTraceOpenings ---------------------------
(* Instances of TraceOpenings for TLC.                                      *)
EXTENDS TraceOpenings
CONSTANT r1

(* 1-2-3-7, with forks 1-4-5 and 2-6.                                       *)
Fork == <<0, 1, 2, 1, 4, 2, 3>>

(* r1 is accepted below the inner fork, in both branches of the outer one.  *)
OneResponse == [r \in {r1} |-> {2, 4}]
=============================================================================
