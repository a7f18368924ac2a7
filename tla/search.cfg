SPECIFICATION LiveSpec
CONSTANTS
  seed = seed
  small = small
  twin1 = twin1
  twin2 = twin2
  wild = wild
  w1 = w1
  w2 = w2
  Genes <- FiveGenes
  Seed = seed
  Slices <- FewSlices
  Weights <- TwoWindows
  Fingerprint <- Prints
  Stored <- FewStored
  PopSize = 3
  MaxGenerations = 5
  EliteCount = 1
  Patience = 2
  MinDelta = 4
  ProbSteps = 2
  ScaleSteps = 1
  Workers <- TwoWorkers
  Faults <- AllFaults
CHECK_DEADLOCK FALSE
INVARIANTS
  TypeOK
  BestKept
  RecordIsTrue
PROPERTIES
  EarlyStopIsEarned
  Terminates
  ImplementsSearch
