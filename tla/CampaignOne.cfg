SPECIFICATION Spec
CONSTANTS
  c1 = c1
  c2 = c2
  k1 = k1
  k2 = k2
  k3 = k3
  x1 = x1
  x2 = x2
  Campaigns = {c1}
  Contacts = {k1, k2, k3}
  Executors = {x1, x2}
  CampaignOf <- OneCampaign
  Position <- OnePosition
  Undecryptable = {}
  BatchSize = 2
  MinSample = 2
  MaxFailureRate = 50
  MaxRuns = 2
  MaxSuppressions = 1
  MaxAborts = 1
SYMMETRY EqualExecutors
INVARIANTS SendsAccounted SecondSendNeedsRollback FewLateSends StopsAtThreshold CompletedIsDone
PROPERTY ImplementsCampaignBooks
CHECK_DEADLOCK FALSE
