-------------------------- MODULE MCWorkerDelivery --------------------------
(* Model-checking instances of WorkerDelivery.                             *)
EXTENDS WorkerDelivery, TLC

\* Dispatcher instances are interchangeable.
Symmetry == Permutations(Disp)

=============================================================================
