----------------------------- MODULE MCWorkflow ----------------------------
(* Plan, review, deploy, and round again: the review's approval and the    *)
(* outcome of the deployment are conditions; only the tool is retried.     *)
EXTENDS Workflow

CONSTANTS plan, review, deploy, d1, d2, l1, l2

MCNodes == {plan, review, deploy}
MCReviews == {review}
MCTools == {deploy}
MCIf == [n \in MCNodes |-> CASE n = plan   -> {}
                             [] n = review -> {deploy}
                             [] n = deploy -> {plan}]
MCElse == [n \in MCNodes |-> IF n = plan THEN review ELSE End]
MCTimeout == [n \in MCReviews |-> "approve"]
MCRetries == [n \in MCNodes |-> IF n = deploy THEN 1 ELSE 0]
MCDrafts == {d1, d2}
MCLoops == {l1, l2}
=============================================================================
