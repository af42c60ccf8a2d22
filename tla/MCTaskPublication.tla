-------------------------- MODULE MCTaskPublication --------------------------
EXTENDS TaskPublication, TLC

CONSTANTS r1, r2, r3, rules, issues

MCRun == {r1, r2, r3}
TwoRuns == {r1, r2}
TwoArtifacts == {rules, issues}
=============================================================================
