\* Mutual exclusion of mut, with no proviso.
SPECIFICATION Spec
CONSTANTS
  MaxPolls = 1
  MaxFaults = 0
  Chunks <- MCChunks
  DataBytes <- MCDataBytes
  WeakStores = FALSE
INVARIANTS
  MutualExclusion
