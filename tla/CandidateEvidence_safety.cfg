SPECIFICATION EvidenceSpec
CONSTANTS
  r1 = r1
  r2 = r2
  b1 = b1
  b2 = b2
  k1 = k1
  k2 = k2
  f0 = f0
  f1 = f1
  Runs = {r1, r2}
  Bytes = {b1, b2}
  Compares = {k1, k2}
  Files = {f0, f1}
  RunOrder <- MCRunOrder
  Flaws <- MCFlaws
  Sources <- MCSources
  Seeds <- MCSeeds
  Weak <- MCWeak
  MaxReports = 2
SYMMETRY Symmetry
INVARIANTS PromotedIsProven HoldoutUnseen AnswersTheRequest
CHECK_DEADLOCK FALSE
