SPECIFICATION FairSpec
CONSTANTS
  Callers = {c1, c2}
  ProxyURL = {"p", "q", "r"}
  BadURL = bad
  Idle = idle
  Direct = direct
  Loads <- Twice
  MaxFailures = 2
  Cooldown = 1

PROPERTIES OnlyHealthyHandedOut
