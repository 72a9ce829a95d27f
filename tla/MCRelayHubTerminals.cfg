SPECIFICATION FairSpec
CONSTANTS
  Device = {d1}
  DeviceConn = {a1, a2}
  ClientConn = {c1}
  Request = {r1}
  Nil = Nil
  Frames <- TerminalFrames
  Settings <- TerminalSettings
  PerDevice = 2
  MaxRoute = 1
  MaxId = 2
INVARIANTS
  TruncationReported
PROPERTIES
  EverythingSettles
