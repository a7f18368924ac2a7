SPECIFICATION LiveSpec
CONSTANTS
  s1 = s1
  MaxConn = 3
  MaxAgents = 1
  Senders <- OneSender
  MaxQueue = 1
INVARIANTS
  TypeOK
  RegisteredIsServed
PROPERTY
  BrokenLeaves
CHECK_DEADLOCK FALSE
