SPECIFICATION RefreshSpec
CONSTANTS
    Word = 16
    LockBit = 8
    UpperMod = 4
    Interval = 1
    Expire = 2
INVARIANTS RefillIsExact BorrowRateUnlocks ShareFits ExpiredIsGreen
CHECK_DEADLOCK FALSE
