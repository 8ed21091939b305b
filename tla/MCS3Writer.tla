----------------------------- MODULE MCS3Writer -----------------------------
(* A file of three full chunks of two bytes and the empty chunk the handler   *)
(* adds when the length is a multiple of the buffer, on three workers.        *)
EXTENDS S3Writer

MCOffset == <<0, 2, 4, 6>>
MCLength == <<2, 2, 2, 0>>
MCWorkers == {1, 2, 3}
=============================================================================
