--------------------------- MODULE MCRuntimeGraph ---------------------------
(* Model-checking instances of RuntimeGraph.                               *)
EXTENDS RuntimeGraph, TLC

CONSTANTS agent, tool, task, branch

\* One agent declares a branch.
MCBranchesOf == [n \in Names |-> IF n = agent THEN {branch} ELSE {}]
=============================================================================
