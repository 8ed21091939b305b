--------------------------- MODULE MCContextValue ---------------------------
(* A value of two pieces read three times.                                   *)
EXTENDS ContextValue
=============================================================================
