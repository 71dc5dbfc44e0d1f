SPECIFICATION Spec
CONSTANTS
  Agents = {a1, a2}
  Parts = {p1, p2}
  NoPart = NoPart
  Texts = {t1, t2}
  NoText = NoText
  AtSession = AtSession
  InTab = TRUE
  UserWaits = FALSE
  Times = {1, 3}
  HistoryKept = 2
  Tools = {"edit_part", "save_project", "set_script", "open_project", "restore_snapshot"}
  MaxCalls = 3
  MaxActs = 3
  MaxFailures = 1
SYMMETRY Symmetry
CHECK_DEADLOCK FALSE
PROPERTIES KeepsWhatItReplaces EditsWhatItRead HistoryKeepsNewest
