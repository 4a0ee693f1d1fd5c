SPECIFICATION LoneSpec
CONSTANTS
  Nil = Nil
  Calls = {c1, c2}
  Candidates = {good, bad}
  Eligible = {good}
  Dominates = {}
  Datasets = {d1}
  MaxCandidates = 1
  MaxProposals = 1
INVARIANTS EvidenceBehindState ProposalsRestOnEvidence
PROPERTIES AloneMovesLegally SealedWithinBudget 
CHECK_DEADLOCK FALSE
