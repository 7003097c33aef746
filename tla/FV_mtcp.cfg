SPECIFICATION MtcpSpec
CONSTANTS
    NPairs = 1
    Spurious = TRUE
    Faults = TRUE
    MaySigint = TRUE
    MaxErrors = 1
    MaxStreams = 3
    NumConnection = 2
    Stops <- StopsBoth
INVARIANTS StreamsBounded  
PROPERTIES  FlowEndsItsOwn
PROPERTIES  SendersFinish
CHECK_DEADLOCK FALSE
