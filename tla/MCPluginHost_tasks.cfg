\* One context, two callers racing for its slot while the host comes up and goes
\* down; only the lock holder and the executor are fair.
CONSTANTS
  p1 = p1  p2 = p2  p3 = p3  p4 = p4  e1 = e1  e2 = e2  e3 = e3
  Plugins = {p1}
  Entries = {e1, e2, e3}
  EntriesOf <- MCSoloEntries
  Valid = {p1, p2, p3}
  MaxCatalog = 2
  Granted = {p1, p2}
  Callers = {c1, c2}
  MaxTasks = 1
  TaskIdBound = 3
SPECIFICATION FairSpec
INVARIANTS NoOrphanTask
PROPERTIES ImplementsScope ShutdownCompletes RunsEnd
