SPECIFICATION FairSpec
CONSTANTS
  j1 = j1
  b1 = b1
  t1 = t1
  Jobs = {j1, b1}
  Campaigns = {j1}
  Targets = {t1}
  TargetOf <- MCTargetOf
  MaxConcurrent = 1
  MaxRetries = 0
  Fires = {f1, f2}
  MaxBoots = 2
  MaxChanges = 1
INVARIANTS CampaignGateHolds
PROPERTIES JobsGoOn
CHECK_DEADLOCK FALSE
