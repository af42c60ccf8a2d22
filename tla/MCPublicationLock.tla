-------------------------- MODULE MCPublicationLock --------------------------
EXTENDS PublicationLock, TLC

CONSTANTS p1, p2, p3

ThreeProcs == {p1, p2, p3}

\* The processes are interchangeable; every property treats them alike.
Symmetry == Permutations(Proc)
=============================================================================
