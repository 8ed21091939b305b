---------------------------- MODULE MCWorkerPool ----------------------------
(* Four jobs on two workers: more jobs than workers, so dispatch goroutines  *)
(* compete for channels; one job may hang and either worker may be stopped.  *)
EXTENDS WorkerPool

CONSTANTS j1, j2, j3, j4, w1, w2

MCJobs == {j1, j2, j3, j4}
MCStuck == {j4}
MCWorkers == {w1, w2}
=============================================================================
