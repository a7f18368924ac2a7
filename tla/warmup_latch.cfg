SPECIFICATION Spec
CONSTANTS
  Days <- ElevenDays
  Months <- ThreeMonths
  Paths <- FewPaths
  Spans <- FourSpans
  WarmupDays = 4
  Spawns <- ThreeSpawns
  DropPct = 20
  StopPct = 10
  SellPermille = {20, 50}
  MinOrder = 11
  MinBars = 1
  SigmaBars = 2
  QuietPermille = 210
  LotStep = 2
  LotMin = 5
  FeePermille = 1
CHECK_DEADLOCK FALSE
INVARIANT WarmupOnlyWarms
