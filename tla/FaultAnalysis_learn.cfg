SPECIFICATION FairAnalysisSpec
CONSTANTS
  Sessions = {1, 2}
  Machines = {m1}
  NoMachine = NoMachine
  Codes = {c1}
  Hours = {h1}
  Scores = {1}
  NoCode = NoCode
  MaxExperiences = 1
  MaxMishaps = 1
  Replies = {"short", "brief", "empty", "connection"}
  Retrievals = {"unreachable"}
INVARIANTS
  AnalysisTypeOK
  LearnedIsParsed
  CallsSpent
PROPERTIES
  LearnSpec
  AnalysisEnds
CHECK_DEADLOCK FALSE
