SPECIFICATION Spec
CONSTANTS
  Device = {d1, d2}
  DeviceConn = {a1, a2}
  ClientConn = {c1, c2}
  Request = {r1}
  Nil = Nil
  Frames <- RoutingFrames
  Settings <- RoutingSettings
  PerDevice = 1
  MaxRoute = 2
  MaxId = 3
SYMMETRY ConnSymmetry
INVARIANTS
  RouterInv
  DeviceInStep
PROPERTIES
  ImplementsContract
  RouteEndsForCause
