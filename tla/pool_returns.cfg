SPECIFICATION FairSpec
CONSTANTS
  Callers = {c1, c2}
  Workers = {w1, w2, w3}
  NoWorker = NoWorker
  Requests = {q1}
  NoRequest = NoRequest
  MaxIdle = 1
  MaxSteps = 1
  MaxCalls = 2
  MaxDeaths = 1
CHECK_DEADLOCK FALSE
PROPERTIES Returns
