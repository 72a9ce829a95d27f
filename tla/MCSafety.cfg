SPECIFICATION PartsSpec
CONSTANTS
  c1 = c1  c2 = c2  h1 = h1  s1 = s1  s2 = s2  i1 = i1  i2 = i2  k1 = k1  p1 = p1  p2 = p2
  IpcConn = {h1}  Call = {c1, c2}  OwnerOf <- OneHead  Stream = {c1}  Slots = 1  MaxOutput = 0
  Scope = {s1, s2}  Id = {i1, i2}  Content = {"review"}  Session = {k1}  SessionOf <- OneSession
  Context = {"unconfirmed", "off", "owner", "members"}  Allowed <- Allows  NoContext = "unconfirmed"
  MaxReceipts = 2  Capacity = 1  MaxTicket = 2  MaxGeneration = 2  MaxRestart = 1
  None = None  Unreadable = Unreadable
  Peer = {p1, p2}  Relay = {"r", "q"}  Default = "r"  MaxIdentity = 3  MaxRevision = 5
SYMMETRY Symmetry
INVARIANTS
  CallInv
  ManagerInv
  IdentityInv
PROPERTIES
  ReceiptsChange
  IdentityKept
