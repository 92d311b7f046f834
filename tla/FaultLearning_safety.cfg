SPECIFICATION LearnSpec
CONSTANTS
  Sessions = {1, 2, 3}
  Machines = {m1, NoMachine}
  NoMachine = NoMachine
  Codes = {c1}
  Hours = {h1}
  Scores = {1, 2}
  NoCode = NoCode
  MaxExperiences = 2
  MaxMishaps = 2
INVARIANTS
  LearnTypeOK
  TopKept
  PrunedAtRest
  HistoryAdds
  HistoryCounts
SYMMETRY Symmetry
CHECK_DEADLOCK FALSE
