SPECIFICATION Spec
CONSTANTS
    t1 = t1
    t2 = t2
    Threads = {t1, t2}
    Word = 8
    LockBit = 4
    UpperMod = 4
    Interval = 1
    Expire = 1
    Classes = {0, 1}
    Conf <- SoloConf
    InitPir <- TreePir
    Flows <- SoloFlows
    Lens = {2}
    Junk = {7}
    MaxPackets = 2
    Start <- LateStarts
    MaxTime <- UntilLate
INVARIANT LockHasOwner

CHECK_DEADLOCK FALSE
SYMMETRY Symmetry
