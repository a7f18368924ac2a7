SPECIFICATION Spec
CONSTANTS
  i1 = i1
  Instances <- OneInstance
  MaxBar = 2
  MonthOf <- SameMonth
  InitRow <- Floor
  Faults <- CrashOnly
  MaxRelease = 1
  MaxSteps = 2
  ReportFaults <- Rollback
  Sessions <- OneSession
  BuySize = 2
  InitWallet <- OneBtc
  AgentFaults <- AllButBalance
  Units = {0}
CONSTRAINT TiersInOrder
ACTION_CONSTRAINT OnlyStarts
INVARIANTS
  OrderRecorded
  TradeWithinFill
  LedgerWithinPurchases
