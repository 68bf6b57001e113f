CONSTANTS b1 = b1 b2 = b2 t1 = t1 t2 = t2
  Brokers = {b1, b2, b3} Servers <- MCServers Callers = {k1, k2}
  Topics = {t1, t2} Groups = {g1} Configurations <- MCConfigurations
  Present = Present Absent = Absent Millisecond = 2 MaxMoves = 1
SPECIFICATION Spec
SYMMETRY Symmetry
INVARIANTS TypeOK NilMeansDecided ConnectionsReleased
CHECK_DEADLOCK FALSE
