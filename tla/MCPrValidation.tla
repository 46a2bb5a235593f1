--------------------------- MODULE MCPrValidation ---------------------------
(* An instance of PrValidation for TLC: the constants are model values. *)
EXTENDS PrValidation
=============================================================================
