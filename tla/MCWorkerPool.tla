---------------------------- MODULE MCWorkerPool ----------------------------
(***************************************************************************)
(* Tasks of the worker pool's run.                                          *)
(***************************************************************************)
EXTENDS WorkerPool

CONSTANTS t1, t2, t3, t4, t5

FourPinned == {t1, t2, t3, t4}
OneNested  == {t5}
=============================================================================
