CONSTANTS
  Conns = {c1, c2}
  WSConns = {c2}
  Stoppers = {s1, s2}
  NoConn = NoConn
SPECIFICATION ServedSpec
INVARIANTS WaitGroupCounts NoOrphanListener OneStraggler StoppedLeavesOne
PROPERTIES StartReturns ClosedConnectionsEnd 
