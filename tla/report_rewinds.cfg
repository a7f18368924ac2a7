SPECIFICATION Spec
CONSTANTS
  i1 = i1
  Instances <- OneInstance
  MaxBar = 1
  MonthOf <- FirstMonth
  InitRow <- Floor
  Faults <- NoFault
  MaxRelease = 0
  MaxSteps = 3
  ReportFaults <- NoFault
  Sessions <- OneSession
  BuySize = 1
  InitWallet <- OneBtc
  AgentFaults <- NoFault
  Units = {0}
INVARIANT BarDecidedOnce
