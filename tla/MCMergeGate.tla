---------------------------- MODULE MCMergeGate ----------------------------
(* Two runs on one repository, one of them with a second pipeline.         *)
EXTENDS MergeGate

CONSTANTS r1, r2, p1, p2, p3

MCRuns == {r1, r2}
MCPipelines == {p1, p2, p3}
MCRunOf == [p \in MCPipelines |-> IF p = p3 THEN r2 ELSE r1]
=============================================================================
