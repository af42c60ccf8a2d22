----------------------------- MODULE MCReviewRun -----------------------------
EXTENDS ReviewRun, TLC

CONSTANTS boundaries, tests, before, after

MCStage == {boundaries, tests}
MCSource == {before, after}

\* Stages are interchangeable, and so are contents.
Symmetry == Permutations(Stage) \cup Permutations(Source)
=============================================================================
