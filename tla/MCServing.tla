---------------------------- MODULE MCServing ----------------------------
(* One card, the session's task and one a closed session left behind.   *)
EXTENDS Serving
============================================================================
