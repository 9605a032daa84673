CONSTANTS
  Amounts = {20, 40, 100}
  Coverages = {1, 2, 3}
  MaxEnded = 2
  MaxBlocked = 6
SPECIFICATION Spec
INVARIANTS ApprovedLossBounded
PROPERTIES WorseNeverHelps
