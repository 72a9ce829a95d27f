SPECIFICATION Spec
CONSTANTS
  p1 = p1  None = None  Unreadable = Unreadable
  Peer = {p1}
  Relay = {"r", "q"}
  Default = "r"
  MaxIdentity = 3
  MaxRevision = 5
INVARIANTS
  FreshProfileIsEmpty
CHECK_DEADLOCK FALSE
