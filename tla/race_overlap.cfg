SPECIFICATION OverlapSpec
CONSTANTS
  Accounts = {"cash"}
  Periods = {1}
  Users = {"Ada"}
  Amounts = {0, 2}
  Tol = 1
  Role <- RoleOf
  Lockers = {"Ada"}
  Kind <- PlainKinds
  None = None
  Workers = {w1, w2}
  Idle = Idle
  Asked = {"reviewed", "pending"}
  Entered = {2}
SYMMETRY Swap
INVARIANTS
  ConclusionTies
  OneActiveConclusion
