\* One connection and its peer over a network that disturbs packets.
SPECIFICATION FairSpec
CONSTANTS
  Mss = 2
  PeerBuf = 4
  MaxRtx = 2
  SynMaxRtx = 1
  Plans <- MCPlans
CHECK_DEADLOCK FALSE
INVARIANTS ReceivedWhole SentSound PcbSound FreedOnlyByFin
PROPERTIES NeverStuck
