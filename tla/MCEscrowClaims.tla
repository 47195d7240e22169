--------------------------- MODULE MCEscrowClaims ---------------------------
(* Model checking of EscrowClaims.                                          *)
EXTENDS EscrowClaims
=============================================================================
