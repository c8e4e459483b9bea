SPECIFICATION EnginesSpec
CONSTANTS
  None = None
  MaxRuns = 3
  Callers = {caller}
  Sweep = sweep
  LastMonth = 2
  AiSlots = {s1, s2}
  Cap = 2
  MaxCost = 2
  MaxCalls = 2
  MaxSpent = 10
  MaxAllocRuns = 4
  AllocMonths = {"Jan"}
  AllocWorkers = {w1, w2}
  AllocMembers = {"Pat", "Rae"}
  AllocReviewers = {"Rae"}
  Lines = {1, 2, 3}
  Cents <- SomeCents
  Rates <- SomeRates
  MaxReviews = 1
  ListRows = {"r1", "r2"}
  Edits = {"e1", "e2"}
  RefetchOn = {"done", "failed"}
  Entries = {"je"}
  MaxTicks = 2
  MaxSaves = 2
  MaxMarks = 1
  MaxGets = 1
INVARIANTS EnginesTypeOK OneRunAtATime ScheduledOnce
INVARIANTS OvershootBounded LatestRunIsLive
INVARIANTS PoolSplitsFairly EntryMovesTotal
INVARIANTS SettledShowsServer NothingLeftUnsaved
PROPERTIES NotLockedOut
CHECK_DEADLOCK FALSE
