SPECIFICATION Spec
CONSTANTS
    t1 = t1
    t2 = t2
    Threads = {t1, t2}
    Word = 16
    LockBit = 8
    UpperMod = 4
    Interval = 1
    Expire = 2
    Classes = {0, 1, 2, 3}
    Conf <- PrioConf
    InitPir <- PrioPir
    Flows <- PrioFlows
    Lens = {2}
    Junk = {0, 3}
    MaxPackets = 2
    Start <- Loaded
    MaxTime <- Until2
INVARIANTS PrioritiesFit

CHECK_DEADLOCK FALSE
SYMMETRY Symmetry
