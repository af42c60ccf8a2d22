--------------------------- MODULE MCPythonWorker ---------------------------
(***************************************************************************)
(* Two sessions of one host process that send three batches in all.           *)
(***************************************************************************)
EXTENDS PythonWorker, TLC

CONSTANTS s1, s2

MCSession == {s1, s2}
=============================================================================
