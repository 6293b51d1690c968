\* Two threads on two connections with two configurations and room for two tunnels.
CONSTANTS
  a = a  b = b  i1 = i1  i2 = i2  p1 = p1  p2 = p2  k1 = k1  k2 = k2
  Threads = {a, b}
  Ids = {i1, i2}
  Configs = {k1, k2}
  Ports = {p1, p2}
  MaxTunnels = 2
  MaxCalls = 3
SPECIFICATION FairSpec
INVARIANTS NoStrayProcess UnsharedNeverLeaks
PROPERTY CallsReturn
