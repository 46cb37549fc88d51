\* The sent callback says that data have been received, as rawapi.txt has it.
SPECIFICATION Spec
CONSTANTS
  Mss = 2
  PeerBuf = 4
  MaxRtx = 2
  SynMaxRtx = 1
  Plans <- MCHeldTwice
CONSTRAINT Narrowed
CHECK_DEADLOCK FALSE
INVARIANTS SentArrived
