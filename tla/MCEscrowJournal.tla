--------------------------- MODULE MCEscrowJournal ---------------------------
(* Model checking of EscrowJournal.                                         *)
EXTENDS EscrowJournal
=============================================================================
