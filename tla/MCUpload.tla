------------------------------ MODULE MCUpload ------------------------------
(* Two file parts, of two chunks and of one, and two workers: the chunks of  *)
(* one part and the first chunks of both are written concurrently.           *)
EXTENDS Upload

MCNumChunks == <<2, 1>>
MCWorkers == {1, 2}
=============================================================================
