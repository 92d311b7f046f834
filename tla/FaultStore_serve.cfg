SPECIFICATION StoreSpec
CONSTANTS
  Uploads = {u1, u2}
  Readers = {g1}
  Resets = {x1}
  Analyses = {a1}
  Projects = {p1, p2}
  NoDataset = NoDataset
  MaxDatasets = 1
INVARIANTS
  StoreTypeOK
  WithinLimit
  LoadedStays
  NobodyStuck
PROPERTIES
  DatasetSpec
SYMMETRY Symmetry
CHECK_DEADLOCK FALSE
