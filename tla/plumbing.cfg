SPECIFICATION PlumbingSpec
CONSTANTS
  None = None
  Calls = {"get", "post"}
  Writes = {"post"}
  Companies = {"A", "B"}
  MaxSwitches = 1
  Requests = {"status", "posted", "allocate"}
  Rows = {"review_row"}
  Audit = "audit"
  Program <- ProgramOf
  Callers = {"pull1", "pull2", "autopilot"}
  Sessions = {"web", "worker"}
  Procs = {"app"}
  SessionOf <- Shared
  ProcOf <- OneProcess
  MaxGen = 2
  Faults = {"late", "skip", "lose", "commit", "crash"}
INVARIANTS
  WrittenOnce
  SignedForCompany
  InOrderChainVerifies
PROPERTIES
  EveryRequestReturns
  EveryRequestEnds
  EveryCallReturns
CHECK_DEADLOCK FALSE
