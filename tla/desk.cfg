SPECIFICATION DeskSpec
CONSTANTS
  None = None
  Workers = {w1, w2}
  Deciders = {w1}
  Decisions = {"clear", "action"}
  Reviewers = {"Rae"}
  Keys = {"k1", "k2"}
  Ids = {a1, a2}
  MaxTasks = 3
  Clerks = {a1, a2}
  Periods <- SomePeriods
  Dues <- SomeDues
  Steps = {1}
  MaxSeries = 1
  MaxEdits = 1
  DefaultSteps = {"recon", "review"}
  CustomSteps = {"custom"}
  LinkedSteps = {"recon"}
  SeededDep <- SomeDeps
  Members = {a1, a2}
  MaxRequests = 1
  BankAccounts = {bank}
  MaxUploads = 3
  Handlers = {a1, a2}
  MaxFiles = 2
  MaxSends = 3
  Callers = {"pull1", "pull2", "autopilot", "other"}
  Sessions = {"web", "worker", "web2"}
  Procs = {"first", "second"}
  SessionOf <- Session
  ProcOf <- Machine
  MaxGen = 2
  Faults = {"late", "skip", "lose", "commit", "crash"}
SYMMETRY DeskSymmetry
INVARIANTS DeskTypeOK CountsHonest
INVARIANTS MonthEndsKept OneOpenOccurrence
INVARIANTS NoCycle NeverStuck PageAgreesWithGate
INVARIANTS FilesMatchEvidence
INVARIANTS StoredTokenAccepted
PROPERTIES DecisionsKept RefreshedOnce
CHECK_DEADLOCK FALSE
