SPECIFICATION AuditorFairSpec
CONSTANTS
  Callers = {c1, c2}
  Interval = 4
  Jitter = 3
  Host = {h1, h2}
  None = none
  Served <- MCServed
INVARIANTS AuditorTypeOK SingleFlight AnswersAgree RateBounded
PROPERTIES EveryAskAnswered EveryWaitReturns
