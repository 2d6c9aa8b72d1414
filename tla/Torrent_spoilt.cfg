SPECIFICATION Spec
PROPERTY RefetchesSpoilt
CHECK_DEADLOCK FALSE
CONSTANTS
  Parts = {"download"}
  Conns = {c1, c2} Honest = {c1} Spoilers = {c2} Slow = {}
  PipelineDepth = 1 HighWater = 0 NumThreads = 1 OnDisk = {{}}
  MaxFaults = 0 MaxMoves = 3
  PieceLength = 4 TotalSize = 6 BlockSize = 2 NumPieces = 2 MaxAvail = 2
  Leechers = {u1, u2, u3} Slots = 1 MaxScore = 1 MaxChanges = 0
  Mates = {m1, m2, m3} m1 = m1 m2 = m2 m3 = m3 e1 = e1 e2 = e2
  Faithful = {m1} MetaPieces = 2 MaxWrong = 0
  Endpoint <- Endpoints IPv4 = {e1, e2} Dialed = {m2} PexGap = 2 MaxSwarm = 0
  Callers = {c1, c2} MaxCalls = 0 Prioritised = {1} Tellable = {{0, 1}, {0}, {1}}
