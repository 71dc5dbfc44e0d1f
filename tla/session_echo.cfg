SPECIFICATION SteadySpec
CONSTANTS
  Windows = {w1}
  Agent = Agent
  Nobody = Nobody
  Parts = {p1}
  NoPart = NoPart
  Texts = {t1, t2}
  Blank = Blank
  Initial = p1
  Already = {w1}
  Capacity = 2
  MaxEdits = 2
  MaxDrops = 0
  MaxFailures = 0
  MaxRestarts = 0
  Quiet = {}
CHECK_DEADLOCK FALSE
PROPERTIES EchoNeverCommits
