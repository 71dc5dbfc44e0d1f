SPECIFICATION FairSteadySpec
CONSTANTS
  Windows = {w1, w2}
  Agent = Agent
  Nobody = Nobody
  Parts = {p1, p2}
  NoPart = NoPart
  Texts = {t1, t2}
  Blank = Blank
  Initial = p1
  Already = {w1, w2}
  Capacity = 2
  MaxEdits = 2
  MaxDrops = 0
  MaxFailures = 1
  MaxRestarts = 0
  Quiet = {}
CHECK_DEADLOCK FALSE
INVARIANTS ReportsAreTrue
PROPERTIES EchoesDie SeenNeverFalls Converges ReportsCatchUp LastEditWins
