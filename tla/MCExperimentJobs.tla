-------------------------- MODULE MCExperimentJobs --------------------------
\* Instances of ExperimentJobs: a plan of one item, which two requests that
\* overlap queue twice.
EXTENDS ExperimentJobs

CONSTANTS p1, i1, w1, w2, u1, h1, h2

OnePlan == {p1}
OneItem == {i1}
InOnePlan == [i \in OneItem |-> p1]
OneJob == {1}
TwoJobs == {1, 2}
OneWorker == {w1}
TwoWorkers == {w1, w2}
OneUser == {u1}
OneRequest == {h1}
TwoRequests == {h1, h2}
=============================================================================
