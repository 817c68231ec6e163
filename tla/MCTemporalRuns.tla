--------------------------- MODULE MCTemporalRuns ---------------------------
(* Instances of TemporalRuns for TLC.                                       *)
EXTENDS TemporalRuns

BothModes == {"run", "stream"}
OneApproval == {"a"}
NoneNested == {}
=============================================================================
