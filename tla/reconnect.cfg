SPECIFICATION Spec
CONSTANTS
  s1 = s1
  MaxConn = 3
  MaxAgents = 1
  Senders <- NoSender
  MaxQueue = 1
INVARIANT ServedIsRegistered
