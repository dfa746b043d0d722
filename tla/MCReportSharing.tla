-------------------------- MODULE MCReportSharing --------------------------
\* An instance of ReportSharing: two requests at a time, two results, a link
\* that the plan allows and two more, one request to the desk, one text.
EXTENDS ReportSharing, TLC

CONSTANTS h1, h2, t1, t2, t3, d1, x1

TwoHandlers == {h1, h2}
ThreeTokens == {t1, t2, t3}
OneDesk == {d1}
OneText == {x1}
Symmetry == Permutations(TwoHandlers) \cup Permutations(ThreeTokens)
=============================================================================
