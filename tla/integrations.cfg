SPECIFICATION Spec
CHECK_DEADLOCK FALSE
CONSTANTS
  Deliveries = {d1}
  Attempts = 3
  MaxPauses = 1
  Searches = {q1, q2}
  CacheKeys = {k1}
  Interval = 2
  Ttl = 2
  Window = 3
  ClientLimit = 1
  MaxSessions = 2
  MaxReads = 2
  MaxFaults = 1
INVARIANTS
  RecordIsHonest
  PairingAlive
PROPERTIES
  UpstreamPaced
  SearchAnswered
  PairingNoticed
