------------------------ MODULE MCReviewAgentProcess ------------------------
EXTENDS ReviewAgentProcess, TLC

CONSTANTS a1, a2

TwoAgents == {a1, a2}

\* The agents are interchangeable.
Symmetry == Permutations(Agent)
=============================================================================
