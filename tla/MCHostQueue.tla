---------------------------- MODULE MCHostQueue ----------------------------
(***************************************************************************)
(* Instances of HostQueue for TLC.                                         *)
(***************************************************************************)
EXTENDS HostQueue, TLC

(* Remote nodes are alike, and so are files; only the safety runs use it. *)
Symmetry == Permutations(Remotes) \cup Permutations(Files)
=============================================================================
