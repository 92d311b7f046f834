SPECIFICATION Spec
CONSTANTS
  q1 = q1
  q2 = q2
  l1 = l1
  x1 = x1
  motor = motor
  valve = valve
  ghost = ghost
  plc1 = plc1
  plc2 = plc2
  c1 = c1
  c2 = c2
  c3 = c3
  c4 = c4
  c5 = c5
  Queries = {q1, q2}
  Loaders = {l1}
  Resets = {x1}
  Threads = {q1, q2, l1, x1}
  Keys = {motor, valve}
  Files = {plc1, plc2}
  Chunks = {c1, c2, c3, c4, c5}
  PointId <- MCPointId
  Textless = {c2}
  Broken = {c4}
  WarmLimit = 4
  ListLimit = 4
  Limit <- MCLimit
  FileOf <- MCFileOf
  Parsed <- MCParsed
  Requests <- MCRequests
  Replies <- MCReplies
  Tags <- MCTags
  Similar = {}
  TopK = 1
  Nobody = Nobody
  NoAnswer = NoAnswer
  NoScope = NoScope
  MaxRestarts = 1
INVARIANTS
  KnowTypeOK
  CacheAgrees
  StrictInScope
  WarmLoadsAll
PROPERTIES
  NeverFlagsHeld
  FailureExplained
  TagNamesSpec
SYMMETRY Symmetry
