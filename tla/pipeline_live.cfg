SPECIFICATION LiveSpec
CONSTANTS
  i1 = i1
  Instances <- OneInstance
  MaxBar = 2
  MonthOf <- SameMonth
  InitRow <- Floating
  Faults <- NoFault
  MaxRelease = 0
  MaxSteps = 2
  ReportFaults <- NoFault
  Sessions <- OneSession
  BuySize = 1
  InitWallet <- OnlyBtc
  AgentFaults <- BalanceOnly
  Units = {0, 1, 2}
INVARIANTS
  TypeOK
  LedgerFollowsTrades
  BarRepeatedByReport
PROPERTIES
  SentSettles
  ImplementsManager
