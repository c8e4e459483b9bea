SPECIFICATION RollSpec
CONSTANTS
  Accounts = {"cash"}
  Periods = {1, 2}
  Users = {"Ada"}
  Amounts = {0, 2}
  Tol = 1
  Role <- RoleOf
  Lockers = {"Ada"}
  Kind <- AgingKinds
  None = None
INVARIANTS
  ClosedBooksTie
  RollForwardFromClose
PROPERTY
  LockSpec
