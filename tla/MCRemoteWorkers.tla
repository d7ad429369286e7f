-------------------------- MODULE MCRemoteWorkers --------------------------
(***************************************************************************)
(* Instances of RemoteWorkers for TLC.                                     *)
(***************************************************************************)
EXTENDS RemoteWorkers, TLC

(* Files are alike; only the safety run uses it. *)
Symmetry == Permutations(Files)
=============================================================================
