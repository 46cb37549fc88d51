\* The control block is given back in tcp_slowtmr, as the comment of tcp_close says.
SPECIFICATION Spec
CONSTANTS
  Mss = 2
  PeerBuf = 4
  MaxRtx = 2
  SynMaxRtx = 1
  Plans <- MCFreed
CHECK_DEADLOCK FALSE
INVARIANTS FreedInTimer
