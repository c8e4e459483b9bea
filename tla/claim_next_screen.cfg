SPECIFICATION ApiSpec
CONSTANTS
  None = None
  Calls = {"get", "post"}
  Writes = {"post"}
  Companies = {"A", "B"}
  MaxSwitches = 1
INVARIANT NextScreenSigned
CHECK_DEADLOCK FALSE
