--------------------------- MODULE MCWatchChannel ---------------------------
(* Model checking of WatchChannel: the handle channel() returns and its     *)
(* clones.                                                                  *)
EXTENDS WatchChannel
=============================================================================
