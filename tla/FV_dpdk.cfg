SPECIFICATION DpdkSpec
CONSTANTS
    NFlows = 1
    Mixed = FALSE
    Classes = 2
    RxBurst = 2
    RingBurst = 3
    QosDequeue = 2
    TxBurst = 3
    RingSlots = 3
    DrainTsc = 2
    MaxPackets = 4
    PfcValues <- PfcInputs
    Options = {"bsz", "rth"}
    EalCores <- UsedCores
    EalMaster = 8
    Masters = {8, 40}
    NCpus = 10
    Socket <- TwoSockets
    NPorts = 5
    MaxOptions = 3
    ProfileFiles <- FileInputs
    MaxSubports = 2
    MaxPipes = 3
    NClasses = 2
    DefaultPipes = 3
    NbPfc = 2
    Captures <- CaptureInputs
    MinPkt = 2
    MaxPkt = 4
    BufSize = 5
    MinMbufs = 2
    TxPorts <- SendPorts
    SubportsPerPort = 2
    PipesPerSubport = 2
    TcsPerPipe = 2
    QueuesPerTc = 2
    Word = 64
    MaxLen = 1
    Times = {0, 1, 2}
    MaxArg = 2
INVARIANTS   ServedIfApart DevicesUsedOnce
INVARIANTS ProfilesAsWritten  AnswerIsScope
PROPERTIES FlowsAreFifos PacketsMoveOn LoopsEnd
CHECK_DEADLOCK FALSE
