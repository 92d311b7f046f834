SPECIFICATION StoreSpec
CONSTANTS
  Uploads = {}
  Readers = {}
  Resets = {}
  Analyses = {a1, a2}
  Projects = {p1}
  NoDataset = NoDataset
  MaxDatasets = 1
INVARIANTS
  OrchestratorReady
CHECK_DEADLOCK FALSE
