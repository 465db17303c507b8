SPECIFICATION FairSpec
CONSTANTS
  c1 = c1
  c2 = c2
  k1 = k1
  k2 = k2
  k3 = k3
  x1 = x1
  x2 = x2
  Campaigns = {c1, c2}
  Contacts = {k1, k2, k3}
  Executors = {x1, x2}
  CampaignOf <- TwoCampaigns
  Position <- TwoPosition
  Undecryptable = {k3}
  BatchSize = 2
  MinSample = 2
  MaxFailureRate = 50
  MaxRuns = 1
  MaxSuppressions = 1
  MaxAborts = 0
PROPERTY RunsEnd
CHECK_DEADLOCK FALSE
