CONSTANTS
  Conns = {c1}
  WSConns = {}
  Stoppers = {s1}
  NoConn = NoConn
SPECIFICATION FairSpec
PROPERTY StopReturns
