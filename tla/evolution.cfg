SPECIFICATION LiveSpec
CONSTANTS
  p1 = p1
  p2 = p2
  r1 = r1
  MaxTasks = 2
  Promoters <- TwoPromoters
  Readers <- OneReader
  Faults <- AllFaults
INVARIANTS
  TypeOK
  EpochIsActive
  DoneHasGene
PROPERTIES
  OnlyChampionsRetire
  ServiceFreed
  PromotionTakesEffect
