SPECIFICATION FairSpec
CONSTANTS
  Instances = {i1}
  Jobs = {j1, j2}
  Deletes = {}
  Projects = {p1}
  Names = {plc, table}
  LogicFiles = {plc}
  SheetFiles = {}
  TableFiles = {table}
  TextFiles = {}
  NoJob = NoJob
  NoFile = NoFile
  VectorStore = FALSE
  MaxUpload = 2
  MaxCrashes = 1
  MaxFaults = 1
INVARIANTS
  CompleteMeansTried
PROPERTIES
  JobEnds
