SPECIFICATION PullSpec
CONSTANTS
  Accounts = {"cash"}
  Periods = {1}
  Users = {"Pat", "Rae", "Ada"}
  Amounts = {0, 2}
  Tol = 1
  Role <- RoleOf
  Lockers = {"Ada"}
  Kind <- PlainKinds
  None = None
INVARIANT SignoffMatchesBooks
