-------------------------- MODULE MCWorkerService --------------------------
(* TLC instances of WorkerService.  No symmetry: the runs check action and *)
(* liveness properties.                                                    *)
EXTENDS WorkerService
=============================================================================
