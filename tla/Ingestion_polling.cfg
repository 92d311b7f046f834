SPECIFICATION FairSpec
CONSTANTS
  Instances = {i1}
  Jobs = {j1}
  Deletes = {}
  Projects = {p1}
  Names = {note}
  LogicFiles = {}
  SheetFiles = {}
  TableFiles = {}
  TextFiles = {note}
  NoJob = NoJob
  NoFile = NoFile
  VectorStore = TRUE
  MaxUpload = 1
  MaxCrashes = 1
  MaxFaults = 0
PROPERTIES
  PollingEnds
