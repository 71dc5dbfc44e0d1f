SPECIFICATION AnySpec
CONSTANTS
  Parts = {p1, p2}
  NoPart = NoPart
  Scripts = {s1, s2}
  Saves = {v1}
  Races = {}
  MaxActs = 4
  MaxFailures = 1
CHECK_DEADLOCK FALSE
INVARIANTS CleanMeansSaved
PROPERTIES KeystrokeWins Evaluates
