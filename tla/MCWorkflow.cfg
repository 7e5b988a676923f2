CONSTANTS
  plan = plan
  review = review
  deploy = deploy
  d1 = d1
  d2 = d2
  l1 = l1
  l2 = l2
  Nodes <- MCNodes
  first_node = plan
  Reviews <- MCReviews
  Tools <- MCTools
  edge_if <- MCIf
  edge_else <- MCElse
  review_timeout <- MCTimeout
  retries <- MCRetries
  max_iterations = 3
  Drafts <- MCDrafts
  MaxDecisions = 2
  Loops <- MCLoops
  MaxResumes = 1
  MaxMishaps = 1
  persist_checkpoints = TRUE
SPECIFICATION FairSpec
INVARIANTS
  TypeOK
  ToolNeedsApproval
  AllowIsOnRecord
  ConditionsHold
  ReviewNeedsDecision
PROPERTIES
  EveryCallAnswered
  ExecutionEnds
CHECK_DEADLOCK FALSE
