--------------------------- MODULE MCEventStream ---------------------------
(* A TLC instance of EventStream: the pipeline of a job, a task for one    *)
(* event beside it, one websocket, and a history that overflows.          *)
EXTENDS EventStream

CONSTANTS pipeline, worker, v1

MCPlan == [p \in {pipeline, worker} |->
    IF p = pipeline THEN <<"status", "step", "completed">> ELSE <<"status">>]
=============================================================================
