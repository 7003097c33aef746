------------------------------ MODULE DpdkConfig ------------------------------
(***************************************************************************)
(* From the command line of dpdk_sched to its threads: args.c reads the    *)
(* options and checks the cores, init.c creates rings, pools and ports,    *)
(* main.c gives every core the thread that its roles call for.             *)
(*                                                                         *)
(* External: the EAL, which has parsed its own core mask and master core   *)
(* before, and the NIC ports.                                              *)
(***************************************************************************)
EXTENDS Naturals, Sequences, FiniteSets

CONSTANTS
    PfcValues,    \* what may be given to --pfc: sequences of numbers
    Options,      \* options of sizes that may be given
    EalCores,     \* the cores of the EAL's mask
    EalMaster,    \* and its master core
    Masters,      \* what may be given to --mst
    NCpus,        \* app_cpu_core_count
    Socket(_),    \* rte_lcore_to_socket_id
    NPorts,       \* RTE_MAX_ETHPORTS
    MaxOptions    \* bound: options on the command line

ConfigAssumption ==
    /\ EalCores \subseteq 0..63 /\ EalMaster \in EalCores /\ Masters \subseteq Nat
    /\ \A v \in PfcValues : v \in Seq(Nat)
    /\ NCpus \in 0..64 /\ NPorts \in 4..32 /\ MaxOptions \in Nat
    /\ Options \subseteq {"rsz", "bsz", "rth", "tth"}

VARIABLES
    phase,     \* "args", "check", "init", "launch", "run", or "exit"
    given,     \* options read so far
    flows,     \* qos_conf[0 .. nb_pfc - 1]
    master,    \* app_master_core
    sizes,     \* ring_conf, burst_conf, rx_thresh, tx_thresh: numbers given
    rxUsed, txUsed, coresUsed,   \* the masks of used ports and cores
    rings,     \* names of the rings that exist
    configured,\* per port the number of times it was configured
    pool,      \* per port the pool its RX queue uses
    ready,     \* flows that are initialised
    thread     \* what each core runs

configVars ==
    <<phase, given, flows, master, sizes, rxUsed, txUsed, coresUsed, rings,
      configured, pool, ready, thread>>

parsing == <<flows, master, sizes, rxUsed, txUsed, coresUsed>>
devices == <<rings, configured, pool, ready>>

Ports == 0..(NPorts - 1)
VfPorts == 0..3
NoPool == "none"
Wanted(o) == IF o = "bsz" THEN 4 ELSE 3

ConfigInit ==
    /\ phase = "args" /\ given = 0
    /\ flows = <<>> /\ master = 0
    /\ sizes = [o \in {"rsz", "bsz", "rth", "tth"} |-> "default"]
    /\ rxUsed = {} /\ txUsed = {} /\ coresUsed = {}
    /\ rings = {} /\ ready = 0
    /\ configured = [p \in Ports |-> 0]
    /\ pool = [p \in Ports |-> NoPool]
    /\ thread = [c \in EalCores |-> [kind |-> "none", serves |-> {}]]

Exit == phase' = "exit"

-----------------------------------------------------------------------------
(* app_parse_flow_conf.  Ports and cores are bytes; without a fifth number *)
(* the worker's core also sends.                                           *)
Byte(n) == n % 256
FlowConf(v) ==
    [rx_port |-> Byte(v[1]), tx_port |-> Byte(v[2]), rx_core |-> Byte(v[3]),
     wt_core |-> Byte(v[4]), tx_core |-> IF Len(v) = 5 THEN Byte(v[5]) ELSE Byte(v[4])]

CoresOf(f) == {f.rx_core, f.wt_core, f.tx_core}

(* 1lu << core and 1u << master core.  A shift by more than the width is   *)
(* undefined: on x86-64 it is by the number modulo the width.              *)
Bit(core) == core % 64
MasterBit(core) == core % 32

PfcValid(f) ==
    /\ f.rx_core # f.wt_core
    /\ f.rx_port < NPorts /\ f.tx_port < NPorts
    /\ f.rx_port \notin rxUsed /\ f.tx_port \notin txUsed

Pfc(v) ==
    /\ Len(v) \in {4, 5} /\ PfcValid(FlowConf(v))
    /\ LET f == FlowConf(v) IN
          /\ flows' = Append(flows, f)
          /\ rxUsed' = rxUsed \cup {f.rx_port} /\ txUsed' = txUsed \cup {f.tx_port}
          /\ coresUsed' = coresUsed \cup {Bit(c) : c \in CoresOf(f)}
    /\ UNCHANGED <<phase, master, sizes>>

(* The number of values is the result if there are too few or too many:    *)
(* an empty string passes for success.                                     *)
PfcEmpty(v) == Len(v) = 0 /\ UNCHANGED <<phase, parsing>>

PfcInvalid(v) ==
    /\ Len(v) # 0 /\ ~(Len(v) \in {4, 5} /\ PfcValid(FlowConf(v)))
    /\ Exit
    /\ UNCHANGED parsing

Mst(m) ==
    /\ master' = m
    /\ UNCHANGED <<phase, flows, sizes, rxUsed, txUsed, coresUsed>>

(* The four other options that take lists of numbers. *)
Sizes(o, n) ==
    /\ \/ n = Wanted(o) /\ sizes' = [sizes EXCEPT ![o] = "given"] /\ UNCHANGED phase
       \/ n = 0 /\ UNCHANGED <<phase, sizes>>
       \/ n \notin {0, Wanted(o)} /\ Exit /\ UNCHANGED sizes
    /\ UNCHANGED <<flows, master, rxUsed, txUsed, coresUsed>>

Option ==
    /\ phase = "args" /\ given < MaxOptions
    /\ given' = given + 1
    /\ \/ \E v \in PfcValues : Pfc(v) \/ PfcEmpty(v) \/ PfcInvalid(v)
       \/ \E m \in Masters : Mst(m)
       \/ \E o \in Options : \E n \in 0..Wanted(o) : Sizes(o, n)
    /\ UNCHANGED <<devices, thread>>

EndOfOptions ==
    /\ phase = "args"
    /\ phase' = "check"
    /\ UNCHANGED <<given, parsing, devices, thread>>

(* Fault: the master core is not checked. *)
MasterAny == TRUE

MasterFree == MasterBit(master) \notin coresUsed

(* Cores 1 to 4 always receive from the virtual ports. *)
ByHand == 1..4

(* The checks after the last option. *)
Sane ==
    /\ MasterFree
    /\ coresUsed \cup {MasterBit(master)} \cup ByHand = EalCores /\ master = EalMaster
    /\ flows # <<>>
    /\ \A i \in DOMAIN flows :
          /\ flows[i].rx_core < NCpus /\ flows[i].wt_core < NCpus
          /\ Socket(flows[i].rx_core) = Socket(flows[i].wt_core)

CheckArgs ==
    /\ phase = "check"
    /\ IF Sane THEN phase' = "init" ELSE Exit
    /\ UNCHANGED <<given, parsing, devices, thread>>

-----------------------------------------------------------------------------
(* app_init *)
RingNameCore(i, core) == <<0, core>>     \* fault: the flow is not in the name
RingName(i, core) == <<i, core>>

(* Fault: a port is configured for every flow that names it. *)
InitPortAgain(done, p, name) ==
    [configured |-> [done.configured EXCEPT ![p] = @ + 1],
     pool |-> [done.pool EXCEPT ![p] = name]]

(* app_init_port, with the pool of the flow that names it first. *)
InitPort(done, p, name) ==
    IF done.configured[p] > 0 THEN done
    ELSE [configured |-> [done.configured EXCEPT ![p] = @ + 1],
          pool |-> [done.pool EXCEPT ![p] = name]]

Devices == [configured |-> configured, pool |-> pool]
Became(done) == configured' = done.configured /\ pool' = done.pool

InitFlow ==
    /\ phase = "init" /\ ready < Len(flows)
    /\ LET i == ready + 1
           f == flows[i]
       IN /\ rings' = rings \cup {RingName(i, f.rx_core), RingName(i, f.tx_core)}
          /\ Became(InitPort(InitPort(Devices, f.rx_port, i), f.tx_port, i))
    /\ ready' = ready + 1
    /\ UNCHANGED <<phase, given, parsing, thread>>

(* The virtual ports come last. *)
InitVfs ==
    /\ phase = "init" /\ ready = Len(flows)
    /\ Became(InitPort(InitPort(InitPort(InitPort(Devices, 0, "vf"), 1, "vf"), 2, "vf"), 3, "vf"))
    /\ phase' = "launch"
    /\ UNCHANGED <<given, parsing, rings, ready, thread>>

(* Any step of the set-up may fail and end the program. *)
InitFails ==
    /\ phase = "init"
    /\ Exit
    /\ UNCHANGED <<given, parsing, devices, thread>>

-----------------------------------------------------------------------------
(* app_main_loop *)
Rx(c) == {i \in DOMAIN flows : flows[i].rx_core = c}
Wt(c) == {i \in DOMAIN flows : flows[i].wt_core = c}
Tx(c) == {i \in DOMAIN flows : flows[i].tx_core = c}

Mode(c) == {m \in {"RX", "WT", "TX"} :
               CASE m = "RX" -> Rx(c) # {} [] m = "WT" -> Wt(c) # {} [] m = "TX" -> Tx(c) # {}}

(* Fault: the sender is given what the core schedules. *)
SendMainLoopWt(c) ==
    CASE Mode(c) = {"RX"} -> [kind |-> "rx", serves |-> Rx(c)]
      [] Mode(c) = {"TX", "WT"} -> [kind |-> "mixed", serves |-> Wt(c)]
      [] Mode(c) = {"TX"} -> [kind |-> "tx", serves |-> Wt(c)]
      [] Mode(c) = {"WT"} -> [kind |-> "worker", serves |-> Wt(c)]
      [] OTHER -> [kind |-> "none", serves |-> {}]

(* Fault: a core that schedules and sends serves what it sends as well. *)
SendMainLoopAll(c) ==
    CASE Mode(c) = {"RX"} -> [kind |-> "rx", serves |-> Rx(c)]
      [] Mode(c) = {"TX", "WT"} -> [kind |-> "mixed", serves |-> Wt(c) \cup Tx(c)]
      [] Mode(c) = {"TX"} -> [kind |-> "tx", serves |-> Tx(c)]
      [] Mode(c) = {"WT"} -> [kind |-> "worker", serves |-> Wt(c)]
      [] OTHER -> [kind |-> "none", serves |-> {}]

(* The other combinations return at once: RX and WT with a message, RX and *)
(* TX, and all three, without one.                                         *)
SendMainLoop(c) ==
    CASE Mode(c) = {"RX"} -> [kind |-> "rx", serves |-> Rx(c)]
      [] Mode(c) = {"TX", "WT"} -> [kind |-> "mixed", serves |-> Wt(c)]
      [] Mode(c) = {"TX"} -> [kind |-> "tx", serves |-> Tx(c)]
      [] Mode(c) = {"WT"} -> [kind |-> "worker", serves |-> Wt(c)]
      [] OTHER -> [kind |-> "none", serves |-> {}]

VfCores == 0..4

AppMainLoop(c) ==
    IF c \in VfCores THEN [kind |-> "vf", serves |-> {}] ELSE SendMainLoop(c)

(* Every core but the master starts. *)
Launch ==
    /\ phase = "launch"
    /\ thread' = [c \in EalCores |-> IF c = master THEN [kind |-> "stats", serves |-> {}]
                                     ELSE AppMainLoop(c)]
    /\ phase' = "run"
    /\ UNCHANGED <<given, parsing, devices>>

ConfigNext ==
    \/ Option \/ EndOfOptions \/ CheckArgs
    \/ InitFlow \/ InitVfs \/ InitFails \/ Launch

ConfigSpec == ConfigInit /\ [][ConfigNext]_configVars

-----------------------------------------------------------------------------
Running(kind, i) == {c \in EalCores : thread[c].kind = kind /\ i \in thread[c].serves}

(* One core receives for the flow, one schedules it, one sends it. *)
Served(i) ==
    /\ Cardinality(Running("rx", i)) = 1
    /\ \/ /\ Cardinality(Running("mixed", i)) = 1
          /\ Running("worker", i) \cup Running("tx", i) = {}
       \/ /\ Cardinality(Running("worker", i)) = 1 /\ Cardinality(Running("tx", i)) = 1
          /\ Running("mixed", i) = {}

RolesApart ==
    /\ \A i, j \in DOMAIN flows :
          flows[i].rx_core \notin {flows[j].wt_core, flows[j].tx_core}
    /\ \A i, j \in DOMAIN flows :
          flows[i].wt_core = flows[j].tx_core => /\ flows[i].tx_core = flows[i].wt_core
                                                 /\ flows[j].tx_core = flows[j].wt_core
    /\ \A i \in DOMAIN flows : CoresOf(flows[i]) \cap VfCores = {}

(* The masks stand for the cores that were named.  No check sees to it for *)
(* a sending core (args.c:474-492) and for the master (args.c:447-454).    *)
MasksFit == master < 32 /\ \A i \in DOMAIN flows : flows[i].tx_core < 64

(* If the roles of the flows do not meet on a core, and none is on the     *)
(* cores of the virtual ports, every flow is served from end to end, once  *)
(* (main.c:81-172).                                                        *)
ServedIfApart ==
    phase = "run" /\ MasksFit /\ RolesApart => \A i \in DOMAIN flows : Served(i)

(* Whatever was accepted, no packet of a flow is taken by two threads: at  *)
(* most one core reads its rx ring, and at most one its tx ring (the rings *)
(* have a single consumer, init.c:346-355).                                *)
SingleConsumer ==
    phase = "run" => \A i \in DOMAIN flows :
       /\ Cardinality(Running("rx", i)) <= 1
       /\ Cardinality(Running("worker", i) \cup Running("mixed", i)) <= 1
       /\ Cardinality(Running("tx", i)) <= 1

(* The rings of two flows are different ones; the two of one flow are, if  *)
(* it is received and sent on different cores (init.c:343-357).            *)
RingsApart ==
    phase \in {"launch", "run"} =>
       Cardinality(rings) = Cardinality({<<i, flows[i].rx_core>> : i \in DOMAIN flows}
                                        \cup {<<i, flows[i].tx_core>> : i \in DOMAIN flows})

(* A port that two flows and a virtual function name is configured once,   *)
(* and every port in use is (init.c:123-125, 369-386).                     *)
PortsConfiguredOnce ==
    /\ \A p \in Ports : configured[p] <= 1
    /\ phase \in {"launch", "run"} =>
          {p \in Ports : configured[p] = 1} = rxUsed \cup txUsed \cup VfPorts

DevicesUsedOnce == SingleConsumer /\ RingsApart /\ PortsConfiguredOnce
=============================================================================
