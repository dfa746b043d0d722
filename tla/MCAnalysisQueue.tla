-------------------------- MODULE MCAnalysisQueue --------------------------
(* Model values and bounds for the runs of AnalysisQueue. *)
EXTENDS AnalysisQueue

CONSTANTS w1, h1

OneWorker == {w1}
OneHandler == {h1}
OneAnalysis == {1}
=============================================================================
