-------------------------------- MODULE MCDpdk --------------------------------
(***************************************************************************)
(* The parts of dpdk_sched on small instances.  They do not run against    *)
(* each other, so one run takes them side by side: "which" says which of   *)
(* them a behaviour is about, and the variables of the others stay as they *)
(* are.                                                                    *)
(*                                                                         *)
(* The properties and the constants are those of the modules.  Three       *)
(* threads serve a flow of two classes.                                    *)
(***************************************************************************)
EXTENDS DpdkPipelineSafety, DpdkConfig, SchedProfile, Pcap, QueueStats, TLC

VARIABLE
    which   \* "pipe", "mixed", "two", "config", "profile", "pcap" or "stats"

all == <<which, vars, configVars, profileVars, pcapVars, statsVars>>

-----------------------------------------------------------------------------
(* The same with one core that schedules and sends. *)
Mix == INSTANCE DpdkPipeline
          WITH NFlows <- 1, Mixed <- TRUE, Classes <- 2, RxBurst <- 2, RingBurst <- 3,
               QosDequeue <- 2, TxBurst <- 3, RingSlots <- 3, DrainTsc <- 2,
               MaxPackets <- 4

(* Two flows on the same threads, packet by packet, through rings of one.  *)
Two == INSTANCE DpdkPipelineSafety
          WITH NFlows <- 2, Mixed <- FALSE, Classes <- 1, RxBurst <- 1, RingBurst <- 1,
               QosDequeue <- 1, TxBurst <- 2, RingSlots <- 1, DrainTsc <- 1,
               MaxPackets <- 2

(* Cores 1 to 8 of nine, the third on another socket, the last one the     *)
(* master, and ports 0 to 4.  Flows between two ports name the three free  *)
(* cores; the other values are too many, too few, too large, the master, a *)
(* core of a virtual port, or one that the mask takes for another.         *)
TwoSockets(c) == IF c = 3 THEN 1 ELSE 0
FreeCores == {5, 6, 7}
Pairs ==
    {<<p, q, r, w>> : p, q \in {3, 4}, r, w \in FreeCores}
    \cup {<<p, q, r, w, t>> : p, q \in {3, 4}, r, w, t \in FreeCores}
Edges ==
    {<<>>, <<3>>, <<3, 4, 5, 6, 7, 8>>, <<259, 4, 5, 6, 7>>, <<5, 4, 5, 6, 7>>,
     <<3, 4, 8, 6, 7>>, <<3, 4, 3, 6, 7>>, <<4, 3, 5, 9, 7>>, <<4, 3, 5, 6, 71>>,
     <<4, 3, 263, 6, 5>>, <<3, 3, 4, 6, 7>>, <<4, 4, 5, 4>>}
UsedCores == 1..8
PfcInputs == Pairs \cup Edges

(* Profiles of two subports of up to three pipes, with two or three        *)
(* profiles and lists of two numbers, some of them too short.              *)
Ranges ==
    {[first |-> 0, last |-> 1, profile |-> 0], [first |-> 1, last |-> 2, profile |-> 1],
     [first |-> 1, last |-> 1, profile |-> 2], [first |-> 2, last |-> 1, profile |-> 0],
     [first |-> 2, last |-> 3, profile |-> 0]}
EntryLists == UNION {[1..n -> Ranges] : n \in 0..2}
PortSections ==
    {[subports |-> <<2>>, pipes |-> <<3>>, qsize |-> <<32, 32>>],
     [subports |-> <<>>, pipes |-> <<>>, qsize |-> <<>>],
     [subports |-> <<>>, pipes |-> <<2>>, qsize |-> <<32>>],
     [subports |-> <<1>>, pipes |-> <<>>, qsize |-> <<32, 16, 8>>]}
FileInputs ==
    [port : PortSections,
     subports : {0 :> s @@ 1 :> r : s \in EntryLists, r \in {<<>>} \cup [1..1 -> Ranges]}
                \cup {0 :> s : s \in EntryLists},
     profiles : {[k \in {0, 1} |-> <<k + 1, 1>>], [k \in {0, 2} |-> <<1, 1>>],
                 [k \in {0, 1} |-> IF k = 0 THEN <<2>> ELSE <<1, 1>>],
                 [k \in {1, 2} |-> <<2, k>>], <<>>}]
(* Captures of up to four records, of every length around the three        *)
(* limits, whose last one may be cut off.                                  *)
Whole == {[incl |-> n, there |-> n] : n \in {0, 1, 2, 4, 5, 6}}
CutOff == {[incl |-> 4, there |-> 2], [incl |-> 4, there |-> 0], [incl |-> 6, there |-> 3]}
CaptureInputs ==
    {s \o t : s \in UNION {[1..n -> Whole] : n \in 0..3}, t \in {<<>>} \cup [1..1 -> CutOff]}
(* A prompt over two flows that send to the ports 2 and 1. *)
SendPorts == <<2, 1>>

ASSUME PartsAssumption ==
    /\ PipelineAssumption /\ Mix!PipelineAssumption /\ Two!PipelineAssumption
    /\ ConfigAssumption

-----------------------------------------------------------------------------
(* A part that a behaviour is not about. *)
ProfileIdle ==
    /\ stage = "none" /\ file = "none" /\ params = "none" /\ entry = "none"
    /\ profileOf = "none" /\ weights = "none" /\ sched = "none"
PcapIdle ==
    /\ progress = "none" /\ capture = "none" /\ next = "none" /\ buffer = "none"
    /\ eltCount = "none" /\ size = "none" /\ elements = "none" /\ buffers = <<>>
StatsIdle ==
    /\ at = "none" /\ line = "none" /\ outcome = "none" /\ ntimes = "none"
    /\ job = "none" /\ count = "none" /\ visited = "none" /\ part = "none"
    /\ average = "none" /\ seen = "none"

DpdkInit ==
    /\ ConfigInit
    /\ \/ /\ \/ which \in {"pipe", "config"} /\ Init
             \/ which = "mixed" /\ Mix!Init
             \/ which = "two" /\ Two!Init
          /\ ProfileIdle /\ PcapIdle /\ StatsIdle
       \/ which = "profile" /\ ProfileInit /\ Init /\ PcapIdle /\ StatsIdle
       \/ which = "pcap" /\ PcapInit /\ Init /\ ProfileIdle /\ StatsIdle
       \/ which = "stats" /\ StatsInit /\ Init /\ ProfileIdle /\ PcapIdle

(* What a step of a part leaves alone. *)
PipelineOnly == UNCHANGED <<which, configVars, profileVars, pcapVars, statsVars>>
ConfigOnly == UNCHANGED <<which, vars, profileVars, pcapVars, statsVars>>
ProfileOnly == UNCHANGED <<which, vars, configVars, pcapVars, statsVars>>
PcapOnly == UNCHANGED <<which, vars, configVars, profileVars, statsVars>>
StatsOnly == UNCHANGED <<which, vars, configVars, profileVars, pcapVars>>

DpdkNext ==
    \/ which = "pipe" /\ Next /\ PipelineOnly
    \/ which = "mixed" /\ Mix!Next /\ PipelineOnly
    \/ which = "two" /\ Two!Next /\ PipelineOnly
    \/ which = "config" /\ ConfigNext /\ ConfigOnly
    \/ which = "profile" /\ ProfileNext /\ ProfileOnly
    \/ which = "pcap" /\ PcapNext /\ PcapOnly
    \/ which = "stats" /\ StatsNext /\ StatsOnly

(* The fairness of the parts: each thread of the pipeline runs on a core   *)
(* of its own, the capture is read and a line at the prompt is answered by *)
(* one thread that nothing holds up.                                       *)
ReceiverStep ==
    /\ \/ which = "pipe" /\ Receiver
       \/ which = "mixed" /\ Mix!Receiver
       \/ which = "two" /\ Two!Receiver
    /\ PipelineOnly
WorkerStep ==
    \/ /\ \/ which = "pipe" /\ Worker
          \/ which = "mixed" /\ Mix!Worker
          \/ which = "two" /\ Two!Worker
       /\ PipelineOnly
    \/ which = "pcap" /\ PcapNext /\ PcapOnly
    \/ which = "stats" /\ Work /\ StatsOnly
TransmitterStep ==
    /\ \/ which = "pipe" /\ Transmitter
       \/ which = "mixed" /\ Mix!Transmitter
       \/ which = "two" /\ Two!Transmitter
    /\ PipelineOnly

DpdkSpec ==
    /\ DpdkInit /\ [][DpdkNext]_all
    /\ WF_all(ReceiverStep) /\ WF_all(WorkerStep) /\ WF_all(TransmitterStep)

-----------------------------------------------------------------------------
(* The pipeline (app_thread.c).  EachOnceInOrder and FlowsAreFifos are     *)
(* those of DpdkPipelineSafety; they hold of Mix as well, which differs in *)
(* its threads only, of the first flow of Two, and of the other parts,     *)
(* which leave the pipeline in its initial state.                          *)
(*                                                                         *)
(* When threads serve two flows in turn, each flow keeps its packets, each *)
(* in one place and in order, and its counters (app_thread.c:182-412).     *)
TwoFlowsApart == which = "two" => Two!EachOnceInOrder

(* Packets move on: a worker that spins on the tx ring of a flow gets on,  *)
(* although its transmitter takes no less than a burst off the ring, and a *)
(* packet in the table is sent, by a full burst or by the drain, also when *)
(* no other packet of its flow follows (app_thread.c:297-315, 353).        *)
PacketsMoveOn == WorkerGetsOn /\ TableIsSent

-----------------------------------------------------------------------------
(* The other parts: ServedIfApart and DevicesUsedOnce are those of         *)
(* DpdkConfig, ProfilesAsWritten is that of SchedProfile, PoolIsCapture    *)
(* that of Pcap, and AnswerIsScope that of QueueStats.                     *)
(*                                                                         *)
(* The loops that go around end: the pool is built, since a pass over a    *)
(* file that was counted yields at least one packet (pcap.c:174-203), and  *)
(* a command at the prompt returns (stats.c:63-73).                        *)
LoopsEnd == PoolIsBuilt /\ PromptReturns
=============================================================================
