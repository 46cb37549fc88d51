\* Progress of the gateway under fair scheduling, with one failing network call.
SPECIFICATION FairSpec
CONSTANTS
  MaxPolls = 1
  MaxFaults = 1
  Chunks <- MCChunks
  DataBytes <- MCDataBytes
  WeakStores = TRUE
PROPERTIES
  AnswerUploaded
  ReaderServed
