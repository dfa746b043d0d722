-------------------------- MODULE MCResearchSpecs --------------------------
\* An instance of ResearchSpecs: two requests at a time, a proposal that can get
\* two cards, three versions, two exports, two comparisons of different verdict.
EXTENDS ResearchSpecs, TLC

CONSTANTS h1, h2, p1, c1, c2, x1, x2, r1, r2

TwoHandlers == {h1, h2}
OneProposal == {p1}
OneCard == {c1}
TwoCards == {c1, c2}
TwoExports == {x1, x2}
TwoReports == {r1, r2}
BothVerdicts == [r \in TwoReports |-> IF r = r1 THEN "verified" ELSE "divergent"]
Symmetry == Permutations(TwoHandlers) \cup Permutations(TwoCards) \cup Permutations(TwoExports)
=============================================================================
