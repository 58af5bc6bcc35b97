SPECIFICATION FairSpec
CONSTANTS
    Size = 5
    PacketLengths <- MCPacketLengths
    ReadSizes <- MCReadSizes
    MaxBytes = 10
    MaxReinit = 1
    MaxFaults = 1
CHECK_DEADLOCK FALSE
INVARIANT NoByteTwice
