SPECIFICATION Spec
CONSTANTS
  Callers = {c1, c2}
  Workers = {w1, w2, w3}
  NoWorker = NoWorker
  Requests = {q1, q2}
  NoRequest = NoRequest
  MaxIdle = 1
  MaxSteps = 1
  MaxCalls = 3
  MaxDeaths = 1
SYMMETRY Symmetry
CHECK_DEADLOCK FALSE
INVARIANTS PoolIsSound
PROPERTIES FailuresNameTheStep Implements
