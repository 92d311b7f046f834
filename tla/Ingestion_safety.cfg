SPECIFICATION Spec
CONSTANTS
  Instances = {i1, i2}
  Jobs = {j1, j2}
  Deletes = {d1}
  Projects = {p1}
  Names = {sheet}
  LogicFiles = {}
  SheetFiles = {sheet}
  TableFiles = {}
  TextFiles = {}
  NoJob = NoJob
  NoFile = NoFile
  VectorStore = TRUE
  MaxUpload = 1
  MaxCrashes = 1
  MaxFaults = 1
INVARIANTS
  TypeOK
  FileDocHasVectors
  IndexingExplained
  OrphansExplained
  ReadyHasPass
PROPERTIES
  OutcomeSettled
SYMMETRY Symmetry
