--------------------------- MODULE MCExportQueue ---------------------------
\* Instances of ExportQueue: one worker, one or two exports, with an object of
\* their own or with one they share.
EXTENDS ExportQueue

CONSTANTS w1, h1, k1, k2

OneWorker == {w1}
OneHandler == {h1}
OneExport == {1}
TwoExports == {1, 2}
TwoKeys == {k1, k2}
OwnKeys == [e \in Exports |-> IF e = 1 THEN k1 ELSE k2]
SharedKey == [e \in Exports |-> k1]
=============================================================================
