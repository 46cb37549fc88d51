\* Interleavings of the gateway's threads, the two unlocked stores of read_port
\* becoming visible in either order.
SPECIFICATION Spec
CONSTANTS
  MaxPolls = 3
  MaxFaults = 0
  Chunks <- MCChunks
  DataBytes <- MCDataBytes
  WeakStores = TRUE
INVARIANTS
  TypeOK
  ExclusionUnlessReinit
  WholeUploads
  Attribution
  AnswerNotForgotten
