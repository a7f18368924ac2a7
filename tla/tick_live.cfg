SPECIFICATION LiveSpec
CONSTANTS
  i1 = i1
  i2 = i2
  Instances <- TwoInstances
  MaxBar = 2
  MonthOf <- SameMonth
  InitRow <- Unborn
  Faults <- NoFault
  MaxRelease = 0
  MaxSteps = 2
  ReportRows = {}
  ReportUsdt = {1}
  ReportQty = {}
INVARIANTS
  OneTickPerInstance
  BarOnce
  TierHasOrder
PROPERTIES
  BarProcessed
  StoppedGoesQuiet
