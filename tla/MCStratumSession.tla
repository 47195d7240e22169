--------------------------- MODULE MCStratumSession ---------------------------
(* Instances of StratumSession for TLC.                                     *)
EXTENDS StratumSession
CONSTANT q1

TaskThenTrace == <<"tasks", "attention">>
=============================================================================
