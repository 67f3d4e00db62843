---------------------------- MODULE MCWorkerLease ----------------------------
(* Model-checking instance of WorkerLease: the liveness of the lane.       *)
EXTENDS WorkerLease

=============================================================================
