SPECIFICATION Spec
CONSTANTS
    t1 = t1
    t2 = t2
    Threads = {t1, t2}
    Word = 16
    LockBit = 8
    UpperMod = 4
    Interval = 1
    Expire = 1
    Classes = {0, 1}
    Conf <- PairConf
    InitPir <- FastPir
    Flows <- PairFlows
    Lens = {2}
    Junk = {0, 3}
    MaxPackets = 3
    Start <- Loaded
    MaxTime <- Until3
INVARIANT StoredRateReadBack

CHECK_DEADLOCK FALSE
