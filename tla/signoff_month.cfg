SPECIFICATION Spec
CONSTANTS
  Accounts = {"cash"}
  Periods = {1}
  Users = {"Pat", "Rae", "Ada"}
  Amounts = {0, 1, 2}
  Tol = 1
  Role <- RoleOf
  Lockers = {"Ada"}
  Kind <- AgingKinds
  None = None
INVARIANTS
  ApproverOnRecord
  ConclusionTies
