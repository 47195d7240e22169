--------------------------- MODULE MCSessionLoop ---------------------------
(* Instance: a queue of two, three short sessions, two inferences at once.  *)
EXTENDS SessionLoop
=============================================================================
