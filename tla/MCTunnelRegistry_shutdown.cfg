\* An ensure that waits for a slot while it is taken out of the registry.
CONSTANTS
  a = a  b = b  i1 = i1  i2 = i2  p1 = p1  p2 = p2  k1 = k1  k2 = k2
  Threads = {a, b}
  Ids = {i1}
  Configs = {k1}
  Ports = {p1}
  MaxTunnels = 1
  MaxCalls = 3
SPECIFICATION Spec
INVARIANT ShutdownReachesAll
