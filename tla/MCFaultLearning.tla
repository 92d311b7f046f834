--------------------------- MODULE MCFaultLearning ---------------------------
(* Small instances of FaultLearning for TLC.                                *)
EXTENDS FaultLearning, TLC

Symmetry == Permutations(Machines \ {NoMachine})
=============================================================================
