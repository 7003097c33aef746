SPECIFICATION AllSpec
CONSTANTS
    Configs <- SmallConfigs
    PidxBits = 4
    FieldBits = 3
    Unit = 6
    WordBits = 16
    Rates <- SmallRates
    Word = 65536
    LockBit = 32768
    UpperMod = 16
    Interval = 1
    Expire = 2
INVARIANTS WordsMeanConfig PrioritiesShare 
PROPERTY TreeIsWritten
CHECK_DEADLOCK FALSE
