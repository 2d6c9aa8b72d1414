SPECIFICATION Spec
 
PROPERTIES  EveryoneGetsATurn 
CHECK_DEADLOCK FALSE
CONSTANTS
  Parts = {"picker", "download", "upload", "metadata", "pex"}
  Conns = {c1, c2} Honest = {c1} Spoilers = {} Slow = {c2}
  PipelineDepth = 2 HighWater = 0 NumThreads = 1 OnDisk = {{}}
  MaxFaults = 1 MaxMoves = 2
  PieceLength = 4 TotalSize = 6 BlockSize = 2 NumPieces = 2 MaxAvail = 2
  Leechers = {u1, u2, u3} Slots = 1 MaxScore = 1 MaxChanges = 8
  Mates = {m1, m2, m3} m1 = m1 m2 = m2 m3 = m3 e1 = e1 e2 = e2
  Faithful = {m1} MetaPieces = 2 MaxWrong = 2
  Endpoint <- Endpoints IPv4 = {e1, e2} Dialed = {m2} PexGap = 2 MaxSwarm = 5
  Callers = {c1, c2} MaxCalls = 6 Prioritised = {1} Tellable = {{0, 1}, {0}, {1}}
