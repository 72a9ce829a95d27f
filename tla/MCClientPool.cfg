SPECIFICATION FairSpec
CONSTANTS
  c1 = c1  c2 = c2
  Call = {c1, c2}
  Target = {"device"}
  Grant = {"g", "h"}
  Token = {"t"}
  Relay = {"r", "q"}
  None = None
  MaxChange = 1
INVARIANTS
  PoolInv
PROPERTIES
  KeepsIdentity
  PoolSettles
