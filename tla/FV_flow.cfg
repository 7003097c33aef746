SPECIFICATION FvSpec
CONSTANTS
    NPorts = 4
    Vf = 1
    Pf = 2
    FlagLen = 2
    BurstSize = 2
    MaxCheck = 2
    Flows = {"f1", "f2"}
    NoFlow = "other"
    Packets <- Arriving
    Interval = 1
    Second = 10
    Ticks = 2
    WordSize = 30
    MaxPackets = 3
    MaxTime = 4
INVARIANTS ToldBeforeStop StatusPrinted 
PROPERTY SignalReachesAll
CHECK_DEADLOCK FALSE
