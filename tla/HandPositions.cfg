CONSTANTS
  TradeIDs = {t1, t2}
  OrderIDs = {o1, o2}
  NoID = NoID
  Levels = {0}
  Qtys = {1}
  Times = {1}
  MaxCount = 2
  MaxCloses = 1
SPECIFICATION MCSpec
INVARIANTS PositionsSound
PROPERTIES StepDiscipline
SYMMETRY Symmetry
