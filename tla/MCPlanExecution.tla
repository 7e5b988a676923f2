-------------------------- MODULE MCPlanExecution --------------------------
(* Two nodes and one that depends on both, executed two times.             *)
EXTENDS PlanExecution

CONSTANTS plan_node, code_node, docs_node, first, second

MCNodes == {plan_node, code_node, docs_node}
MCDepends ==
  [n \in MCNodes |-> IF n = docs_node THEN {plan_node, code_node} ELSE {}]
MCExecutions == {first, second}
=============================================================================
