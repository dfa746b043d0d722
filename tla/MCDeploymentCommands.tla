------------------------- MODULE MCDeploymentCommands -------------------------
\* Instances of DeploymentCommands: one command of every kind, but two orders, the
\* second of which may only reduce a position.  A freeze runs like a pause.
EXTENDS DeploymentCommands

CONSTANTS k1, k2

TwoKeys == {k1, k2}
SecondKey == {k2}
OneOfEachKind == ((Types \ {"freeze"}) \X {k1}) \cup {<<"submit_order", k2>>}
=============================================================================
