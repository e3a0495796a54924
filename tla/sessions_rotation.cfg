SPECIFICATION RotationFair
CONSTANTS
  Requests = {r1, r2}
  MaxSessions = 3
  MaxResets = 0
  Cap = 2
INVARIANTS
  OneLivePerFamily
PROPERTIES
  KeepsChain
  RequestsFinish
