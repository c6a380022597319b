SPECIFICATION ServicesSpec
CONSTANTS
  Clients = {p1}
  Lots = 3
  MaxSlices = 3
  MaxServiceFaults = 2
  MaxItems = 2
  SnapLimit = 1
  QueueSize = 1
  MaxChanges <- Changes
  MaxPings = 1
  McpCallers = {c1, c2}
  MaxCalls = 2
  MaxServers = 2
  PipeRoom = 1
  MaxExpiries = 1
  a1 = a1  a2 = a2  z1 = z1  z2 = z2  f = f
  NoHolder = NoHolder
  Callers = {a1, a2, z1, z2, f}
  OpOf <- Ops
  Reports = {r1, r2, r3}
  MaxQueue = 2
  MaxFaults = 2
INVARIANTS
  CallsSafe TrailSound
PROPERTIES
  StreamHonest StreamSettles TasksEnd CallsEnd EventuallyWritten
CHECK_DEADLOCK FALSE
