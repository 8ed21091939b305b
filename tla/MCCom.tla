-------------------------------- MODULE MCCom --------------------------------
(* Two consumers and up to five calls: NewCom, Close, NewCom, Close and one  *)
(* call out of order.                                                        *)
EXTENDS Com

CONSTANTS c1, c2

MCConsumers == {c1, c2}
=============================================================================
