SPECIFICATION Spec
CONSTANTS
  code = code
  ann = ann
  bob = bob
  eve = eve
  dan = dan
  stub = stub
  c1 = c1
  c2 = c2
  Proposals = {code}
  Principals = {ann, bob, eve, dan}
  Names = {ann, bob, eve, dan, stub}
  Begins <- MCBegins
  AuthorOf <- MCAuthorOf
  RiskClass <- MCRiskClass
  Reviewers = {ann, bob, eve}
  Promoters = {eve, dan}
  Calls = {c1, c2}
  MaxBoots = 2
SYMMETRY Symmetry
INVARIANTS ApprovedHasQuorum DecisionsRecorded DiskAgrees PromotionsStand
CHECK_DEADLOCK FALSE
