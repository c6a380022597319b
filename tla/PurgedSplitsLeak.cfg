SPECIFICATION SplitsSpec
CONSTANTS
  Samples = 5
  Groups = 3
  Lifespans = {0, 1, 3}
  Embargoes = {0, 1}
  SplitCaps = {2, 9}
  MinTrain = 1
INVARIANT NoTrainingSampleOverlapsTest
CHECK_DEADLOCK FALSE
