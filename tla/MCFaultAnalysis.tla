--------------------------- MODULE MCFaultAnalysis ---------------------------
(* Small instances of FaultAnalysis for TLC.                                *)
EXTENDS FaultAnalysis
=============================================================================
