SPECIFICATION AnalysisSpec
CONSTANTS
  Sessions = {1}
  Machines = {m1}
  NoMachine = NoMachine
  Codes = {c1}
  Hours = {h1}
  Scores = {1}
  NoCode = NoCode
  MaxExperiences = 1
  MaxMishaps = 0
  Replies = {"valid", "brief", "short", "empty", "malformed", "unknown"}
  Retrievals = {"found", "none"}
INVARIANTS
  NoSilentFallback
CHECK_DEADLOCK FALSE
