--------------------------- MODULE MCWorkerClient ---------------------------
(* Three calls: one that is cancelled by flag, one by rebuilding the worker, *)
(* one that cannot be posted; up to three generations of the client.        *)
EXTENDS WorkerClient
=============================================================================
