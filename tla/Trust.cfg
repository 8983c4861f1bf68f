CONSTANTS
  Orgs = {o1, o2}
  Rounds = {r1, r2}
  r1 = r1
  r2 = r2
  Offers <- MCOffers
  Models <- MCModels
  Standings = {100, 40}
  MinTrust = 30
  MinAccuracy = 50
  MaxDrop = 15
  MaxExamples = 5
  MaxGlobalTrees = 4
  MaxRows = 3
  MaxAttempts = 2
  MaxRestarts = 1
  None = None
SPECIFICATION Spec
SYMMETRY Symmetry
CHECK_DEADLOCK FALSE
INVARIANTS
  TrustTypeOK
  
  OneFeatureSpace
  
  FailsOnUnusable
  WeightedShares
PROPERTIES
  FloorIsFinal
  MergedAboveFloor
