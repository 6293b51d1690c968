\* Three calls, two evictions, one cached Redis database of two, one open transaction.
CONSTANTS
  r1 = r1  r2 = r2  r3 = r3   ui = ui
  Requests = {r1, r2, r3}
  View = ui
  Drivers <- MCDrivers
  Databases <- MCDatabases
  MaxCached = 1
  MaxActive = 1
  MaxEvicts = 2
  MaxRunning = 2
SYMMETRY MCSymmetry
SPECIFICATION Spec
INVARIANTS RetiredIsSwept OneBuild LruBound StatementsInside
PROPERTY NewPoolStays
