---------------------------- MODULE MCFaultStore ----------------------------
(* Small instances of FaultStore for TLC.                                   *)
EXTENDS FaultStore, TLC

Symmetry == Permutations(Uploads) \cup Permutations(Projects)
=============================================================================
