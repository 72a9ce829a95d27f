SPECIFICATION PartsSpec
CONSTANTS
  c1 = c1  h1 = h1  s1 = s1  s2 = s2  i1 = i1  k1 = k1  v1 = v1  v2 = v2  v3 = v3
  IpcConn = {h1}  Call = {c1}  OwnerOf <- OneHead  Stream = {c1}  Slots = 1  MaxOutput = 3
  None = None  Version = {v1, v2, v3}  Bad = {v3}  MaxFault = 3
INVARIANTS
  CallIsHonest
  ReleaseInv
PROPERTIES
  CallsAndReceiptsEnd
  RecoveryIsSound
CHECK_DEADLOCK FALSE
