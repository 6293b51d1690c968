\* Four plugins, p4 malformed, p3 in conflict with p1 and too much for the catalog:
\* the order of operations and what they leave behind.
CONSTANTS
  p1 = p1  p2 = p2  p3 = p3  p4 = p4  e1 = e1  e2 = e2  e3 = e3
  Plugins = {p1, p2, p3, p4}
  Entries = {e1, e2, e3}
  EntriesOf <- MCEntriesOf
  Valid = {p1, p2, p3}
  MaxCatalog = 2
  Granted = {p1, p2}
  Callers = {c1}
  MaxTasks = 1
  TaskIdBound = 0
SPECIFICATION Spec
INVARIANTS ToolsAreUsable HostConsistent FailureIsolated
PROPERTY ReverseShutdown
