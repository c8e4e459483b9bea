SPECIFICATION BatchSpec
CONSTANTS
  Accounts = {"prepaid", "bank"}
  Periods = {1}
  Users = {"Ada", "Rae"}
  Amounts = {0, 2}
  Tol = 1
  Role <- RoleOf
  Lockers = {"Ada"}
  Kind <- MixedKinds
  None = None
PROPERTY
  ApprovalMeetsGates
