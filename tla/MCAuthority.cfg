SPECIFICATION PartsSpec
CONSTANTS
  None = None  g1 = g1  m1 = m1  m2 = m2  k1 = k1  k2 = k2  d1 = d1  a1 = a1  q1 = q1  q2 = q2  q3 = q3
  Guard = {g1}  Lease = 6  Interval = 2  Timeout = 2  MinWait = 1  Lag = 0
  ProofEnds = 9  MaxPending = 1  MaxLink = 2  MaxAttempt = 3  Horizon = 8
  Member = {m1, m2}  Cred = {k1, k2}  Operation = {"read", "exec"}  Permits = {{"read"}}  TTL = {1}
  DeviceConn = {d1}  Client = {a1}  MaxShares = 1  MaxSwitch = 1  MaxId = 4  LastDay = 1
  Conn = {q1, q2, q3}  Size = {2}  Minute = 2  MaxDevices = 1  HelloPerMinute = 2  BytesPerMinute = 3
  LastTick = 3
SYMMETRY Symmetry
INVARIANTS
  LeaseInv
  AccessInv
  QuotaInv
  ReadInv
PROPERTIES
  AccessChanges
