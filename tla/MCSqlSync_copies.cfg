\* Two tasks on the rows of one table, or one task on two tables; another client around
\* them, a cancellation at any time.  Only the executor is fair.
CONSTANTS
  t1 = t1  t2 = t2
  Tasks = {t1, t2}
  MaxRuns = 2
  Engines = {"mysql", "postgres"}
  NumTables = 2
  MaxKey = 2
  BatchSize = 2
  Clash <- MCClash
  MaxOthers = 1
SPECIFICATION MCSpec
INVARIANTS CompletedIsComplete SequencesAhead CancelledIsWhole
INVARIANTS OneExecutor CancelVisible CancelsAsked ResultsConfirmed
PROPERTIES ImplementsCopy EveryTaskEnds
