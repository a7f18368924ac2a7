SPECIFICATION Spec
CONSTANTS
  i1 = i1
  i2 = i2
  Instances <- OneInstance
  MaxBar = 2
  MonthOf <- MonthTurns
  InitRow <- Holding
  Faults <- AllFaults
  MaxRelease = 1
  MaxSteps = 3
  ReportRows <- SmallRows
  ReportUsdt = {1}
  ReportQty = {0}
INVARIANTS
  TypeOK
  TierOncePerMonth
PROPERTY
  StatusTransitions
