SPECIFICATION FairSpec
CONSTANTS
  e1 = e1
  None = None
  Exec = {e1}
  Policy = {"plain", "ask", "deny"}
  Timed = {e1}
  Chunk = {2}
  MaxOutput = 3
  MaxReads = 2
  MaxLink = 2
INVARIANTS
  ExecInv
  NothingOutlives
PROPERTIES
  EndedReturns
