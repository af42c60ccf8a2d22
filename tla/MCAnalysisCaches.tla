--------------------------- MODULE MCAnalysisCaches ---------------------------
(***************************************************************************)
(* Two sequences of runs over a TypeScript and a Python source, edited at     *)
(* most MaxEdits times.                                                       *)
(***************************************************************************)
EXTENDS AnalysisCaches, TLC

CONSTANTS r1, r2, a, b, c1, c2

MCRun == {r1, r2}
MCSource == {a, b}
MCPython == {b}
MCContent == {c1, c2}
MCStart == {[p \in {a, b, Config, Runtime} |-> c1]}

Symmetry == Permutations(MCRun)
=============================================================================
