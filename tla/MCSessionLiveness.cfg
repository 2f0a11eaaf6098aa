CONSTANTS
  None = None
  Requests = {r1, r2}
  Browsers = {b1}
  Ids = {i1, i2}
  Signals = {s1}
  MaxSessions = 1
  IdleTime = 1
  MaxTime = 3
SPECIFICATION Spec
PROPERTIES
  IdleAgentsClose
  SignalsEndTheProcess
