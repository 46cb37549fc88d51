SPECIFICATION FairSpec
CONSTANTS
    MaxQs = 2
    BoxSize = 2
    Wnd = 3
    SndBuf = 6
    MaxFaults = 1
INVARIANTS OneAnswer CallsSound FreedWhole WindowReturned SamplesWhole
PROPERTIES LossNoticed NotStarving
