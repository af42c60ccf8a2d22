------------------------- MODULE MCLintExecutionCache -------------------------
(***************************************************************************)
(* Two runs of the linter over a project of two sources, one of which one    *)
(* content of the ignore file hides, edited at most MaxEdits times.           *)
(***************************************************************************)
EXTENDS LintExecutionCache, TLC

CONSTANTS r1, r2, a, b, c1, c2

MCRun == {r1, r2}
MCSource == {a, b}
MCContent == {c1, c2}
MCHides == [h \in {c1, c2, "absent"} |-> IF h = c2 THEN {b} ELSE {}]
MCStart == {[p \in {a, b, Ignore, Config, Manifest} |-> IF p = Ignore THEN i ELSE c1] : i \in {c1, "absent"}}

Symmetry == Permutations(MCRun)
=============================================================================
