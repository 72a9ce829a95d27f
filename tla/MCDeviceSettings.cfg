SPECIFICATION InstanceSpec
CONSTANTS
  theNode = theNode
  None = None
  Node = theNode
  Call = {1, 2}
  Slots = 2
  Relay = {"r", "q"}
  MaxLink = 2
CHECK_DEADLOCK FALSE
INVARIANTS
  SettingsInv
PROPERTIES
  OkMeansApplied
  GateMoves
