SPECIFICATION LoneSpec
CONSTANTS
  p1 = p1
  p2 = p2
  p3 = p3
  t1 = t1
  t2 = t2
  Commands = {c1, c2}
  Targets = {t1, t2}
  Approved = {p1, p2, p3}
  TargetOf <- MCTargetOf
  BaseOf <- MCBaseOf
  Original = Original
  Releasers = {owner, operator}
  Owner = owner
  Approvers = {}
  MaxReleases = 3
  MaxRevisions = 4
SYMMETRY Symmetry
INVARIANTS ReleaseBehindRun CanariedBeforeActive
PROPERTIES ChainedActivations LegalReleaseMoves
CHECK_DEADLOCK FALSE
