----------------------------- MODULE MCTransfer -----------------------------
(* Two chunks: a reader may stop, and a source break off, before, between    *)
(* and after them.                                                           *)
EXTENDS Transfer
=============================================================================
