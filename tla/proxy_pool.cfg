SPECIFICATION FairSpec
CONSTANTS
  Callers = {c1, c2}
  ProxyURL = {"p", "q", "r"}
  BadURL = bad
  Idle = idle
  Direct = direct
  Loads <- TwoCalls
  MaxFailures = 2
  Cooldown = 1
INVARIANTS TypeOK EnabledBelowLimit LateFailuresBounded NobodyOverlooked
PROPERTIES CooldownServed ComesBack
