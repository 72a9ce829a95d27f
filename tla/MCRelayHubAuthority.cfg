SPECIFICATION Spec
CONSTANTS
  Device = {d1}
  DeviceConn = {a1, a2}
  ClientConn = {c1}
  Request = {r1}
  Nil = Nil
  Frames <- AuthorityFrames
  Settings <- AuthoritySettings
  PerDevice = 1
  MaxRoute = 1
  MaxId = 3
SYMMETRY ConnSymmetry
INVARIANTS
  AuthorityCurrent
PROPERTIES
  LeaseOnlyIfAuthorised
