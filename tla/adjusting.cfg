SPECIFICATION Spec
CONSTANTS
  Rows = {e1, e2}
  Accounts = {"cash", "rent"}
  Drafts = {{"cash"}, {"cash", "rent"}}
  Producers = {"bank"}
  BankPulls = {"bank"}
  Filers = {"bill", "thread"}
  Findings = {"bill"}
  Fixable = {"bill"}
  Miscoded = {"bill"}
  PairOf <- Pairs
  Users = {"Rae", "Ada"}
  Role <- RoleOf
  None = None
SYMMETRY RowSymmetry
INVARIANTS
  MakerIsNotApprover
  OneEntryPerFinding
PROPERTIES
  SavedStaysLocked
  ClosedDecisionsStay
  StartedOverWhenPosted
