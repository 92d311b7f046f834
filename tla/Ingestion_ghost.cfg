SPECIFICATION Spec
CONSTANTS
  Instances = {i1}
  Jobs = {j1}
  Deletes = {d1}
  Projects = {p1}
  Names = {note}
  LogicFiles = {}
  SheetFiles = {}
  TableFiles = {}
  TextFiles = {note}
  NoJob = NoJob
  NoFile = NoFile
  VectorStore = TRUE
  MaxUpload = 1
  MaxCrashes = 0
  MaxFaults = 0
INVARIANTS
  NoGhostProject
