SPECIFICATION FairSpec
CONSTANTS
    Ring = 3
    PktLen = 3
    MaxPkts = 10
INVARIANTS EdgeKept InStep
PROPERTIES MasksEnd PacketsTaken
