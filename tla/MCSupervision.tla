--------------------------- MODULE MCSupervision ---------------------------
(***************************************************************************)
(* The instances of Supervision that TLC checks.  Every action names the   *)
(* Boundaries it reads by their order, so no symmetry is used.             *)
(***************************************************************************)
EXTENDS Supervision
=============================================================================
