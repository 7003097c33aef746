--------------------------- MODULE DpdkSetupProofs ----------------------------
(***************************************************************************)
(* Proofs about the set-up of dpdk_sched: whatever command line it is      *)
(* given, each ring has one reader and each port is configured once, and   *)
(* flows whose roles do not meet on a core are served from end to end;     *)
(* and about what it makes of its files and of its prompt: the pool of     *)
(* packets is the capture, the schedulers have the profiles of the file,   *)
(* and an average is one of the queues a line names.                       *)
(***************************************************************************)
EXTENDS DpdkConfig, SchedProfile, Pcap, QueueStats, DivLemmas, FiniteSetTheorems,
        SequenceTheorems

ConfFlow == [rx_port : Ports, tx_port : Ports, rx_core : 0..255, wt_core : 0..255,
         tx_core : 0..255]

(* The ports of the first n flows, and those configured so far. *)
PortsOf(n) == {flows[i].rx_port : i \in 1..n} \cup {flows[i].tx_port : i \in 1..n}
SoFar == PortsOf(ready) \cup (IF phase \in {"launch", "run"} THEN VfPorts ELSE {})

(* What the options leave behind: the masks cover the flows. *)
Parsed ==
    /\ phase \in {"args", "check", "init", "launch", "run", "exit"}
    /\ flows \in Seq(ConfFlow) /\ master \in Nat
    /\ rxUsed = {flows[i].rx_port : i \in 1..Len(flows)}
    /\ txUsed = {flows[i].tx_port : i \in 1..Len(flows)}
    /\ \A i \in 1..Len(flows) : \A c \in CoresOf(flows[i]) : Bit(c) \in coresUsed

(* What the set-up has done for the flows that are ready. *)
SetUp ==
    /\ ready \in 0..Len(flows)
    /\ phase \in {"args", "check"} => ready = 0
    /\ phase \in {"launch", "run"} => ready = Len(flows)
    /\ rings = {<<i, flows[i].rx_core>> : i \in 1..ready}
               \cup {<<i, flows[i].tx_core>> : i \in 1..ready}
    /\ configured \in [Ports -> 0..1]
    /\ \A p \in Ports : configured[p] = 1 <=> p \in SoFar

(* What the cores run, and what was checked before. *)
Started ==
    /\ phase \in {"init", "launch", "run"} => Sane
    /\ phase = "run" =>
          thread = [c \in EalCores |-> IF c = master THEN [kind |-> "stats", serves |-> {}]
                                       ELSE AppMainLoop(c)]

ConfigInv == Parsed /\ SetUp /\ Started

-----------------------------------------------------------------------------
LEMMA FlowsTyped ==
    ASSUME flows \in Seq(ConfFlow)
    PROVE  /\ Len(flows) \in Nat /\ DOMAIN flows = 1..Len(flows)
           /\ \A i \in 1..Len(flows) : flows[i] \in ConfFlow
BY LenProperties, ElementOfSeq

(* A valid value of --pfc is a flow between two ports. *)
LEMMA FlowConfTyped ==
    ASSUME ConfigAssumption, NEW v \in PfcValues, Len(v) \in {4, 5}, PfcValid(FlowConf(v))
    PROVE  FlowConf(v) \in ConfFlow
<1>1. v \in Seq(Nat) BY DEF ConfigAssumption
<1>2. v[1] \in Nat /\ v[2] \in Nat /\ v[3] \in Nat /\ v[4] \in Nat
  BY <1>1, ElementOfSeq
<1>3. Len(v) = 5 => v[5] \in Nat BY <1>1, ElementOfSeq
<1>4. \A n \in Nat : Byte(n) \in 0..255 BY DEF Byte
<1>5. /\ FlowConf(v).rx_port = Byte(v[1]) /\ FlowConf(v).tx_port = Byte(v[2])
      /\ FlowConf(v).rx_port < NPorts /\ FlowConf(v).tx_port < NPorts
  BY DEF FlowConf, PfcValid
<1>6. Byte(v[1]) \in Ports /\ Byte(v[2]) \in Ports
  <2>1. Byte(v[1]) \in 0..255 /\ Byte(v[2]) \in 0..255 BY <1>2, <1>4
  <2>2. NPorts \in Nat BY DEF ConfigAssumption
  <2>3. \A n \in 0..255 : n < NPorts => n \in Ports BY <2>2 DEF Ports
  <2>4. Byte(v[1]) < NPorts /\ Byte(v[2]) < NPorts BY <1>5
  <2> QED BY <2>1, <2>3, <2>4
<1>7. (IF Len(v) = 5 THEN Byte(v[5]) ELSE Byte(v[4])) \in 0..255 BY <1>2, <1>3, <1>4
<1> QED BY <1>2, <1>4, <1>6, <1>7 DEF FlowConf, ConfFlow

-----------------------------------------------------------------------------
(* A port that is initialised is configured once, the others are as before. *)
LEMMA InitPortOnce ==
    ASSUME NEW done, done.configured \in [Ports -> 0..1], NEW p \in Ports, NEW name
    PROVE  /\ InitPort(done, p, name).configured \in [Ports -> 0..1]
           /\ \A q \in Ports : InitPort(done, p, name).configured[q] = 1 <=>
                                  q = p \/ done.configured[q] = 1
<1>1. done.configured[p] \in 0..1 OBVIOUS
<1>2. CASE done.configured[p] > 0
  <2>1. InitPort(done, p, name) = done BY <1>2 DEF InitPort
  <2>2. done.configured[p] = 1 BY <1>1, <1>2
  <2> QED BY <2>1, <2>2
<1>3. CASE ~(done.configured[p] > 0)
  <2>1. InitPort(done, p, name).configured = [done.configured EXCEPT ![p] = @ + 1]
    BY <1>3 DEF InitPort
  <2>2. done.configured[p] = 0 BY <1>1, <1>3
  <2>3. InitPort(done, p, name).configured = [done.configured EXCEPT ![p] = 1]
    BY <2>1, <2>2
  <2> QED BY <2>3
<1> QED BY <1>2, <1>3

-----------------------------------------------------------------------------
LEMMA InitialConfig == ASSUME ConfigAssumption, ConfigInit PROVE ConfigInv
<1>1. Parsed BY DEF ConfigInit, Parsed
<1>2. SoFar = {} BY DEF ConfigInit, SoFar, PortsOf
<1>3. SetUp
  <2>1. \A i \in 1..ready : FALSE BY DEF ConfigInit
  <2> QED BY <1>2, <2>1 DEF ConfigInit, SetUp
<1>4. Started BY DEF ConfigInit, Started
<1> QED BY <1>1, <1>3, <1>4 DEF ConfigInv

(* A step of the options, after which nothing is ready yet. *)
LEMMA ConfigOption ==
    ASSUME ConfigAssumption, ConfigInv, Option
    PROVE  ConfigInv'
<1> USE DEF ConfigInv
<1>0. /\ phase = "args" /\ ready = 0 /\ UNCHANGED <<rings, configured, pool, ready, thread>>
  BY DEF Option, SetUp, devices
<1>1. /\ rings = {} /\ \A p \in Ports : configured[p] # 1
      /\ configured \in [Ports -> 0..1]
  BY <1>0 DEF SetUp, SoFar, PortsOf
<1>2. ASSUME phase' \in {"args", "exit"}, flows' \in Seq(ConfFlow)
      PROVE  SetUp' /\ Started'
  <2>1. Len(flows') \in Nat BY <1>2, LenProperties
  <2>2. SoFar' = {} BY <1>0, <1>2 DEF SoFar, PortsOf
  <2>3. /\ \A i \in 1..ready' : FALSE
        /\ 0 \in 0..Len(flows')
    BY <1>0, <2>1
  <2>4. SetUp' BY <1>0, <1>1, <1>2, <2>2, <2>3 DEF SetUp
  <2> QED BY <1>2, <2>4 DEF Started
<1>3. ASSUME NEW v \in PfcValues, Pfc(v) PROVE ConfigInv'
  <2> DEFINE f == FlowConf(v)
             n == Len(flows)
  <2>1. /\ flows' = Append(flows, f)
        /\ rxUsed' = rxUsed \cup {f.rx_port} /\ txUsed' = txUsed \cup {f.tx_port}
        /\ coresUsed' = coresUsed \cup {Bit(c) : c \in CoresOf(f)}
        /\ UNCHANGED <<phase, master, sizes>>
    BY <1>3 DEF Pfc
  <2>2. f \in ConfFlow BY <1>3, FlowConfTyped DEF Pfc
  <2> HIDE DEF f
  <2>3. n \in Nat /\ flows \in Seq(ConfFlow) BY LenProperties DEF Parsed
  <2>4. /\ flows' \in Seq(ConfFlow) /\ Len(flows') = n + 1
        /\ \A i \in 1..n : flows'[i] = flows[i]
        /\ flows'[n + 1] = f
    BY <2>1, <2>2, <2>3, AppendProperties
  <2> HIDE DEF n
  <2>5. 1..Len(flows') = (1..n) \cup {n + 1} BY <2>3, <2>4
  <2>6. /\ rxUsed' = {flows'[i].rx_port : i \in 1..Len(flows')}
        /\ txUsed' = {flows'[i].tx_port : i \in 1..Len(flows')}
    <3>1. /\ rxUsed = {flows[i].rx_port : i \in 1..n}
          /\ txUsed = {flows[i].tx_port : i \in 1..n}
      BY DEF Parsed, n
    <3>2. /\ {flows'[i].rx_port : i \in 1..Len(flows')}
                = {flows[i].rx_port : i \in 1..n} \cup {f.rx_port}
          /\ {flows'[i].tx_port : i \in 1..Len(flows')}
                = {flows[i].tx_port : i \in 1..n} \cup {f.tx_port}
      BY <2>4, <2>5
    <3> QED BY <2>1, <3>1, <3>2
  <2>7. ASSUME NEW i \in 1..Len(flows'), NEW c \in CoresOf(flows'[i])
        PROVE  Bit(c) \in coresUsed'
    <3>1. CASE i \in 1..n BY <2>1, <2>4, <2>7, <3>1 DEF Parsed, n
    <3>2. CASE i = n + 1 BY <2>1, <2>4, <2>7, <3>2
    <3> QED BY <2>5, <3>1, <3>2
  <2>8. Parsed' BY <2>1, <2>4, <2>6, <2>7 DEF Parsed
  <2> QED BY <1>0, <1>2, <2>1, <2>4, <2>8
<1>4. ASSUME UNCHANGED <<flows, rxUsed, txUsed, coresUsed>>, phase' \in {"args", "exit"},
             master' \in Nat
      PROVE  ConfigInv'
  <2>1. Parsed' BY <1>4 DEF Parsed
  <2>2. flows' \in Seq(ConfFlow) BY <1>4 DEF Parsed
  <2> QED BY <1>2, <1>4, <2>1, <2>2
<1>5. master \in Nat BY DEF Parsed
<1>6. ASSUME NEW v \in PfcValues, PfcEmpty(v) \/ PfcInvalid(v) PROVE ConfigInv'
  BY <1>0, <1>4, <1>5, <1>6 DEF PfcEmpty, PfcInvalid, Exit, parsing
<1>7. ASSUME NEW m \in Masters, Mst(m) PROVE ConfigInv'
  BY <1>0, <1>4, <1>7 DEF Mst, ConfigAssumption
<1>8. ASSUME NEW o \in Options, NEW n \in 0..Wanted(o), Sizes(o, n) PROVE ConfigInv'
  BY <1>0, <1>4, <1>5, <1>8 DEF Sizes, Exit
<1> QED BY <1>3, <1>6, <1>7, <1>8 DEF Option

-----------------------------------------------------------------------------
(* The flows stay as they were parsed from then on. *)
LEMMA ParsedKept ==
    ASSUME Parsed, UNCHANGED parsing,
           phase' \in {"args", "check", "init", "launch", "run", "exit"}
    PROVE  Parsed' /\ (Sane => Sane')
<1>1. UNCHANGED <<flows, master, sizes, rxUsed, txUsed, coresUsed>> BY DEF parsing
<1>2. Parsed' BY <1>1 DEF Parsed
<1>3. Sane => Sane' BY <1>1 DEF Sane, MasterFree
<1> QED BY <1>2, <1>3

LEMMA ConfigInitFlow ==
    ASSUME ConfigAssumption, ConfigInv, InitFlow
    PROVE  ConfigInv'
<1> USE DEF ConfigInv
<1> DEFINE i == ready + 1
           f == flows[i]
           one == InitPort(Devices, f.rx_port, i)
           two == InitPort(one, f.tx_port, i)
<1>1. /\ phase = "init" /\ phase' = "init" /\ ready < Len(flows) /\ ready' = i
      /\ rings' = rings \cup {<<i, f.rx_core>>, <<i, f.tx_core>>}
      /\ configured' = two.configured
      /\ UNCHANGED parsing
  BY DEF InitFlow, Became, RingName
<1>2. Parsed' /\ Sane' BY <1>1, ParsedKept DEF Started
<1>3. flows' = flows BY <1>1 DEF parsing
<1>4. /\ Len(flows) \in Nat /\ ready \in Nat /\ i \in 1..Len(flows)
      /\ 1..i = (1..ready) \cup {i}
  BY <1>1, FlowsTyped DEF Parsed, SetUp
<1>5. f \in ConfFlow BY <1>4, FlowsTyped DEF Parsed
<1>6. f.rx_port \in Ports /\ f.tx_port \in Ports BY <1>5 DEF ConfFlow
<1>7. rings' = {<<j, flows'[j].rx_core>> : j \in 1..ready'}
               \cup {<<j, flows'[j].tx_core>> : j \in 1..ready'}
  <2>1. rings = {<<j, flows[j].rx_core>> : j \in 1..ready}
                \cup {<<j, flows[j].tx_core>> : j \in 1..ready}
    BY DEF SetUp
  <2> QED BY <1>1, <1>3, <1>4, <2>1
<1>8. /\ Devices.configured = configured /\ configured \in [Ports -> 0..1]
      /\ \A p \in Ports : configured[p] = 1 <=> p \in PortsOf(ready)
  BY <1>1 DEF Devices, SetUp, SoFar
<1>9. /\ one.configured \in [Ports -> 0..1]
      /\ \A q \in Ports : one.configured[q] = 1 <=> q = f.rx_port \/ configured[q] = 1
  BY <1>6, <1>8, InitPortOnce
<1>10. /\ two.configured \in [Ports -> 0..1]
       /\ \A q \in Ports : two.configured[q] = 1 <=> q = f.tx_port \/ one.configured[q] = 1
  <2> HIDE DEF one
  <2> QED BY <1>6, <1>9, InitPortOnce
<1> HIDE DEF one, two
<1>11. SoFar' = PortsOf(ready) \cup {f.rx_port, f.tx_port}
  <2>1. SoFar' = {flows[j].rx_port : j \in 1..i} \cup {flows[j].tx_port : j \in 1..i}
    BY <1>1, <1>3 DEF SoFar, PortsOf
  <2> QED BY <1>4, <2>1 DEF PortsOf
<1>12. \A p \in Ports : configured'[p] = 1 <=> p \in SoFar'
  BY <1>1, <1>8, <1>9, <1>10, <1>11
<1>13. SetUp' BY <1>1, <1>3, <1>4, <1>7, <1>10, <1>12 DEF SetUp
<1>14. Started' BY <1>1, <1>2 DEF Started
<1> QED BY <1>2, <1>13, <1>14

LEMMA ConfigInitVfs ==
    ASSUME ConfigAssumption, ConfigInv, InitVfs
    PROVE  ConfigInv'
<1> USE DEF ConfigInv
<1> DEFINE zero == InitPort(Devices, 0, "vf")
           one == InitPort(zero, 1, "vf")
           two == InitPort(one, 2, "vf")
           three == InitPort(two, 3, "vf")
<1>1. /\ phase = "init" /\ phase' = "launch" /\ ready = Len(flows) /\ ready' = ready
      /\ rings' = rings /\ configured' = three.configured
      /\ UNCHANGED parsing
  BY DEF InitVfs, Became
<1>2. Parsed' /\ Sane' BY <1>1, ParsedKept DEF Started
<1>3. flows' = flows BY <1>1 DEF parsing
<1>4. 0 \in Ports /\ 1 \in Ports /\ 2 \in Ports /\ 3 \in Ports
  BY DEF Ports, ConfigAssumption
<1>5. /\ Devices.configured = configured /\ configured \in [Ports -> 0..1]
      /\ \A p \in Ports : configured[p] = 1 <=> p \in PortsOf(ready)
  BY <1>1 DEF Devices, SetUp, SoFar
<1>6. /\ zero.configured \in [Ports -> 0..1]
      /\ \A q \in Ports : zero.configured[q] = 1 <=> q = 0 \/ configured[q] = 1
  BY <1>4, <1>5, InitPortOnce
<1> HIDE DEF zero
<1>7. /\ one.configured \in [Ports -> 0..1]
      /\ \A q \in Ports : one.configured[q] = 1 <=> q = 1 \/ zero.configured[q] = 1
  BY <1>4, <1>6, InitPortOnce
<1> HIDE DEF one
<1>8. /\ two.configured \in [Ports -> 0..1]
      /\ \A q \in Ports : two.configured[q] = 1 <=> q = 2 \/ one.configured[q] = 1
  BY <1>4, <1>7, InitPortOnce
<1> HIDE DEF two
<1>9. /\ three.configured \in [Ports -> 0..1]
      /\ \A q \in Ports : three.configured[q] = 1 <=> q = 3 \/ two.configured[q] = 1
  BY <1>4, <1>8, InitPortOnce
<1> HIDE DEF three
<1>10. SoFar' = PortsOf(ready) \cup VfPorts BY <1>1, <1>3 DEF SoFar, PortsOf
<1>11. VfPorts = {0, 1, 2, 3} BY DEF VfPorts
<1>12. \A p \in Ports : configured'[p] = 1 <=> p \in SoFar'
  BY <1>1, <1>5, <1>6, <1>7, <1>8, <1>9, <1>10, <1>11
<1>13. ready \in 0..Len(flows)
       /\ rings = {<<j, flows[j].rx_core>> : j \in 1..ready}
                  \cup {<<j, flows[j].tx_core>> : j \in 1..ready}
  BY DEF SetUp
<1>14. SetUp' BY <1>1, <1>3, <1>9, <1>12, <1>13 DEF SetUp
<1>15. Started' BY <1>1, <1>2 DEF Started
<1> QED BY <1>2, <1>14, <1>15

LEMMA ConfigStep ==
    ASSUME ConfigAssumption, ConfigInv, [ConfigNext]_configVars
    PROVE  ConfigInv'
<1> USE DEF ConfigInv
(* The other steps change neither the flows nor the devices. *)
<1>1. ASSUME UNCHANGED <<parsing, devices>>,
             phase' \in {"args", "check", "init", "launch", "run", "exit"},
             SoFar' = SoFar, ready = 0 \/ phase' \notin {"args", "check"},
             ready = Len(flows) \/ phase' \notin {"launch", "run"}
      PROVE  Parsed' /\ SetUp' /\ (Sane => Sane')
  <2>1. UNCHANGED <<flows, master, rings, configured, ready>>
    BY <1>1 DEF parsing, devices
  <2>2. SetUp' BY <1>1, <2>1 DEF SetUp
  <2> QED BY <1>1, <2>2, ParsedKept
<1>2. CASE EndOfOptions
  <2>1. SoFar' = SoFar BY <1>2 DEF EndOfOptions, SoFar, PortsOf, parsing, devices
  <2>2. Parsed' /\ SetUp' BY <1>1, <1>2, <2>1 DEF EndOfOptions, SetUp
  <2> QED BY <1>2, <2>2 DEF EndOfOptions, Started
<1>3. CASE CheckArgs
  <2>1. SoFar' = SoFar BY <1>3 DEF CheckArgs, Exit, SoFar, PortsOf, parsing, devices
  <2>2. phase' \in {"init", "exit"} /\ (phase' = "init" => Sane)
    BY <1>3 DEF CheckArgs, Exit
  <2>3. Parsed' /\ SetUp' /\ (Sane => Sane')
    BY <1>1, <1>3, <2>1, <2>2 DEF CheckArgs, SetUp
  <2> QED BY <2>2, <2>3 DEF Started
<1>4. CASE InitFails
  <2>1. SoFar' = SoFar BY <1>4 DEF InitFails, Exit, SoFar, PortsOf, parsing, devices
  <2>2. Parsed' /\ SetUp' BY <1>1, <1>4, <2>1 DEF InitFails, Exit
  <2> QED BY <1>4, <2>2 DEF InitFails, Exit, Started
<1>5. CASE Launch
  <2>1. SoFar' = SoFar BY <1>5 DEF Launch, SoFar, PortsOf, parsing, devices
  <2>2. Parsed' /\ SetUp' /\ Sane' BY <1>1, <1>5, <2>1 DEF Launch, SetUp, Started
  <2>3. thread' = [c \in EalCores |-> IF c = master' THEN [kind |-> "stats", serves |-> {}]
                                      ELSE AppMainLoop(c)']
    BY <1>5 DEF Launch, parsing, AppMainLoop, SendMainLoop, Mode, Rx, Wt, Tx
  <2> QED BY <2>2, <2>3 DEF Started
<1>6. CASE UNCHANGED configVars
  <2>1. UNCHANGED <<parsing, devices, phase, thread>>
    BY <1>6 DEF configVars, parsing, devices
  <2>2. SoFar' = SoFar BY <2>1 DEF SoFar, PortsOf, parsing, devices
  <2>3. Parsed' /\ SetUp' /\ (Sane => Sane')
    BY <1>1, <2>1, <2>2 DEF Parsed, SetUp
  <2>4. \A c : AppMainLoop(c)' = AppMainLoop(c)
    BY <2>1 DEF parsing, AppMainLoop, SendMainLoop, Mode, Rx, Wt, Tx
  <2>5. Started' BY <2>1, <2>3, <2>4 DEF Started, parsing
  <2> QED BY <2>3, <2>5
<1> QED
  BY <1>2, <1>3, <1>4, <1>5, <1>6, ConfigOption, ConfigInitFlow, ConfigInitVfs DEF ConfigNext

LEMMA ConfigInvariant == ASSUME ConfigAssumption PROVE ConfigSpec => []ConfigInv
<1>1. ConfigInit => ConfigInv BY InitialConfig
<1>2. ConfigInv /\ [ConfigNext]_configVars => ConfigInv' BY ConfigStep
<1> QED BY <1>1, <1>2, PTL DEF ConfigSpec

-----------------------------------------------------------------------------
(* What a core that runs serves: the flows that name it for that role. *)
LEMMA ModeOf ==
    ASSUME NEW c
    PROVE  /\ Mode(c) \subseteq {"RX", "WT", "TX"}
           /\ "RX" \in Mode(c) <=> Rx(c) # {}
           /\ "WT" \in Mode(c) <=> Wt(c) # {}
           /\ "TX" \in Mode(c) <=> Tx(c) # {}
BY DEF Mode

LEMMA ServesItsRole ==
    ASSUME ConfigInv, phase = "run", NEW c \in EalCores
    PROVE  /\ thread[c].kind = "rx" => thread[c].serves = Rx(c)
           /\ thread[c].kind = "worker" => thread[c].serves = Wt(c)
           /\ thread[c].kind = "mixed" => thread[c].serves = Wt(c)
           /\ thread[c].kind = "tx" => thread[c].serves = Tx(c)
<1>1. thread[c] = IF c = master THEN [kind |-> "stats", serves |-> {}] ELSE AppMainLoop(c)
  BY DEF ConfigInv, Started
<1>2. CASE c = master BY <1>1, <1>2
<1>3. CASE c # master /\ c \in VfCores BY <1>1, <1>3 DEF AppMainLoop
<1>4. CASE c # master /\ c \notin VfCores
  <2>1. thread[c] = SendMainLoop(c) BY <1>1, <1>4 DEF AppMainLoop
  <2> QED BY <2>1 DEF SendMainLoop
<1> QED BY <1>2, <1>3, <1>4

LEMMA AtMostOne ==
    ASSUME NEW S, NEW x, S \subseteq {x}
    PROVE  Cardinality(S) <= 1
<1>1. CASE S = {}
  <2>1. Cardinality({}) = 0 BY FS_EmptySet
  <2> QED BY <1>1, <2>1
<1>2. CASE S # {}
  <2>1. S = {x} BY <1>2
  <2>2. Cardinality({x}) = 1 BY FS_Singleton
  <2> QED BY <2>1, <2>2
<1> QED BY <1>1, <1>2

(* The cores that run a role for a flow are the one it names. *)
LEMMA RunningWhere ==
    ASSUME ConfigInv, phase = "run", NEW i \in DOMAIN flows
    PROVE  /\ Running("rx", i) \subseteq {flows[i].rx_core}
           /\ Running("worker", i) \cup Running("mixed", i) \subseteq {flows[i].wt_core}
           /\ Running("tx", i) \subseteq {flows[i].tx_core}
BY ServesItsRole DEF Running, Rx, Wt, Tx

-----------------------------------------------------------------------------
(* Whatever command line was accepted, each ring has one core that reads   *)
(* it, the rings of two flows are different ones, and a port is configured *)
(* once, however many flows and virtual functions name it                  *)
(* (init.c:123-125, 343-386).                                              *)
THEOREM DevicesTheorem == ASSUME ConfigAssumption PROVE ConfigSpec => []DevicesUsedOnce
<1>1. ConfigInv => DevicesUsedOnce
  <2> SUFFICES ASSUME ConfigInv PROVE DevicesUsedOnce OBVIOUS
  <2>1. SingleConsumer
    <3> SUFFICES ASSUME phase = "run", NEW i \in DOMAIN flows
                 PROVE  /\ Cardinality(Running("rx", i)) <= 1
                        /\ Cardinality(Running("worker", i) \cup Running("mixed", i)) <= 1
                        /\ Cardinality(Running("tx", i)) <= 1
      BY DEF SingleConsumer
    <3> QED BY RunningWhere, AtMostOne
  <2>2. DOMAIN flows = 1..Len(flows) BY FlowsTyped DEF ConfigInv, Parsed
  <2>3. RingsApart BY <2>2 DEF RingsApart, ConfigInv, SetUp
  <2>4. PortsConfiguredOnce
    <3>1. \A p \in Ports : configured[p] \in 0..1 BY DEF ConfigInv, SetUp
    <3>2. ASSUME phase \in {"launch", "run"}
          PROVE  {p \in Ports : configured[p] = 1} = rxUsed \cup txUsed \cup VfPorts
      <4>1. SoFar = rxUsed \cup txUsed \cup VfPorts
        BY <3>2 DEF ConfigInv, Parsed, SetUp, SoFar, PortsOf
      <4>2. rxUsed \subseteq Ports /\ txUsed \subseteq Ports
        BY FlowsTyped DEF ConfigInv, Parsed, ConfFlow
      <4>3. VfPorts \subseteq Ports BY DEF VfPorts, Ports, ConfigAssumption
      <4> QED BY <4>1, <4>2, <4>3 DEF ConfigInv, SetUp
    <3> QED BY <3>1, <3>2 DEF PortsConfiguredOnce
  <2> QED BY <2>1, <2>3, <2>4 DEF DevicesUsedOnce
<1> QED BY <1>1, ConfigInvariant, PTL

-----------------------------------------------------------------------------
(* A core that a flow names runs send_main_loop. *)
LEMMA NamedCoresSend ==
    ASSUME ConfigAssumption, ConfigInv, phase = "run", MasksFit, RolesApart,
           NEW i \in DOMAIN flows, NEW c \in CoresOf(flows[i])
    PROVE  c \in EalCores /\ thread[c] = SendMainLoop(c)
<1>1. Sane BY DEF ConfigInv, Started
<1>2. i \in 1..Len(flows) /\ flows[i] \in ConfFlow BY FlowsTyped DEF ConfigInv, Parsed
<1>3. c \in 0..255
  <2>1. \A x \in ConfFlow : x.rx_core \in 0..255 /\ x.wt_core \in 0..255 /\ x.tx_core \in 0..255
    BY DEF ConfFlow
  <2>2. \A x \in ConfFlow : CoresOf(x) \subseteq 0..255 BY <2>1 DEF CoresOf
  <2>3. flows[i] \in ConfFlow BY <1>2
  <2>4. CoresOf(flows[i]) \subseteq 0..255 BY <2>2, <2>3
  <2> QED BY <2>4
<1>4. c < 64 BY <1>1, <1>2, <1>3 DEF Sane, MasksFit, CoresOf, ConfigAssumption, ConfFlow
<1>5. Bit(c) = c BY <1>3, <1>4 DEF Bit
<1>6. c \in coresUsed BY <1>2, <1>5 DEF ConfigInv, Parsed
<1>7. c \in EalCores BY <1>1, <1>6 DEF Sane
<1>8. MasterBit(master) = master BY DEF MasterBit, MasksFit, ConfigInv, Parsed
<1>9. c # master BY <1>1, <1>6, <1>8 DEF Sane, MasterFree
<1>10. c \notin VfCores BY DEF RolesApart
<1> QED BY <1>7, <1>9, <1>10 DEF ConfigInv, Started, AppMainLoop

(* If the roles of the flows do not meet on a core, and none is on the     *)
(* cores of the virtual ports, every flow is served from end to end, once  *)
(* (main.c:81-172).                                                        *)
THEOREM ServedTheorem == ASSUME ConfigAssumption PROVE ConfigSpec => []ServedIfApart
<1>1. ConfigInv => ServedIfApart
  <2> SUFFICES ASSUME ConfigInv, phase = "run", MasksFit, RolesApart,
                      NEW i \in DOMAIN flows
               PROVE  Served(i)
    BY DEF ServedIfApart
  <2> DEFINE r == flows[i].rx_core
             w == flows[i].wt_core
             t == flows[i].tx_core
  <2>1. /\ r \in EalCores /\ thread[r] = SendMainLoop(r)
        /\ w \in EalCores /\ thread[w] = SendMainLoop(w)
        /\ t \in EalCores /\ thread[t] = SendMainLoop(t)
    BY NamedCoresSend DEF CoresOf
  <2>2. Mode(r) = {"RX"}
    <3>1. i \in Rx(r) /\ Wt(r) = {} /\ Tx(r) = {} BY DEF Rx, Wt, Tx, RolesApart
    <3> QED BY <3>1, ModeOf
  <2>3. Rx(w) = {} /\ Rx(t) = {} /\ i \in Wt(w) /\ i \in Tx(t)
    BY DEF Rx, Wt, Tx, RolesApart
  <2>4. Running("rx", i) = {r}
    <3>1. thread[r].kind = "rx" /\ i \in thread[r].serves
      BY <2>1, <2>2 DEF SendMainLoop, Rx
    <3> QED BY <2>1, <3>1, RunningWhere DEF Running
  <2>5. CASE w = t
    <3>1. Mode(w) = {"TX", "WT"} BY <2>3, <2>5, ModeOf
    <3>2. thread[w].kind = "mixed" /\ i \in thread[w].serves
      BY <2>1, <2>3, <3>1 DEF SendMainLoop
    <3>3. Running("mixed", i) = {w}
      BY <2>1, <3>2, RunningWhere DEF Running
    <3>4. Running("worker", i) = {} /\ Running("tx", i) = {}
      BY <2>5, <3>2, RunningWhere DEF Running
    <3> QED BY <2>4, <3>3, <3>4, FS_Singleton DEF Served
  <2>6. CASE w # t
    <3>1. Tx(w) = {} /\ Wt(t) = {} BY <2>6 DEF Tx, Wt, RolesApart
    <3>2. Mode(w) = {"WT"} /\ Mode(t) = {"TX"} BY <2>3, <3>1, ModeOf
    <3>3. /\ thread[w].kind = "worker" /\ i \in thread[w].serves
          /\ thread[t].kind = "tx" /\ i \in thread[t].serves
      BY <2>1, <2>3, <3>2 DEF SendMainLoop
    <3>4. Running("worker", i) = {w} /\ Running("tx", i) = {t}
      BY <2>1, <3>3, RunningWhere DEF Running
    <3>5. Running("mixed", i) = {} BY <3>3, RunningWhere DEF Running
    <3> QED BY <2>4, <3>4, <3>5, FS_Singleton DEF Served
  <2> QED BY <2>5, <2>6
<1> QED BY <1>1, ConfigInvariant, PTL

-----------------------------------------------------------------------------
(* SchedProfile: the invariant of the reader of the profile file.          *)

RangeSet == [first : Nat, last : Nat, profile : Nat]

ProfileTypes ==
    /\ stage \in {"port", "subport", "pipe", "flows", "ready", "exit"}
    /\ file \in ProfileFiles
    /\ params \in [subports : 0..MaxSubports, pipes : 0..MaxPipes,
                   qsize : [1..NClasses -> Nat], profiles : Nat]
    /\ entry \in (0..MaxSubports) \X (Nat \ {0})
    /\ profileOf \in [Subports -> [Pipes -> Int]]

(* What the sections of the port and of the profiles left behind.          *)
SectionsRead ==
    /\ stage = "port" => params = Defaults /\ entry = <<0, 1>>
    /\ stage # "port" =>
          \/ file.port.qsize = <<>> /\ params.qsize = Defaults.qsize
          \/ params.qsize = ListRead(file.port.qsize, Defaults.qsize)
    /\ stage \in {"flows", "ready"} =>
          /\ params.profiles = NSections
          /\ \A k \in 1..NSections :
                k - 1 \in DOMAIN file.profiles =>
                   weights[k] = ListRead(file.profiles[k - 1], BuiltIn(k - 1))

(* The profiles mapped so far exist, and are those of the last of the      *)
(* entries read so far: the first DoneOf(s) of subport s.                  *)
DoneOf(s) == IF s < Sub THEN Len(EntriesOf(s)) ELSE IF s = Sub THEN entry[2] - 1 ELSE 0
CoversUpTo(s, p, n) ==
    {i \in 1..n : EntriesOf(s)[i].first <= p /\ p <= EntriesOf(s)[i].last}
LastUpTo(s, p, n) ==
    /\ CoversUpTo(s, p, n) = {} => profileOf[s][p] = NoProfile
    /\ CoversUpTo(s, p, n) # {} =>
          \E i \in CoversUpTo(s, p, n) :
             /\ \A k \in CoversUpTo(s, p, n) : k <= i
             /\ profileOf[s][p] = EntriesOf(s)[i].profile
Mapped ==
    stage \notin {"port", "exit"} =>
       /\ \A s \in Subports : \A p \in Pipes :
             /\ profileOf[s][p] # NoProfile => profileOf[s][p] \in DOMAIN file.profiles
             /\ LastUpTo(s, p, DoneOf(s))
       /\ entry[2] - 1 <= Len(EntriesOf(Sub))
       /\ stage # "subport" /\ Valid => Sub = MaxSubports

(* The schedulers that came up are alike, and librte_sched took them.      *)
Rows == [s \in 0..(params.subports - 1) |-> [p \in 0..(params.pipes - 1) |-> profileOf[s][p]]]
CameUp ==
    /\ sched \in Seq({Rows})
    /\ sched # <<>> => stage \in {"flows", "ready", "exit"} /\ SchedTakes
    /\ stage = "ready" => Len(sched) = NbPfc

ProfileInv == ProfileTypes /\ SectionsRead /\ Mapped /\ CameUp

-----------------------------------------------------------------------------

LEMMA ProfileConstants ==
    /\ MaxSubports \in Nat \ {0} /\ MaxPipes \in Nat \ {0} /\ NClasses \in Nat \ {0}
    /\ DefaultPipes \in 1..MaxPipes /\ NbPfc \in Nat \ {0}
BY ProfileAssumption

(* What a list of numbers leaves in a field is of its type.                *)
LEMMA ListsTyped ==
    ASSUME NEW l \in Seq(Nat), NEW old
    PROVE  ListRead(l, old) \in [1..NClasses -> Nat]
<1>1. Len(l) \in Nat /\ \A j \in 1..Len(l) : l[j] \in Nat BY LenProperties, ElementOfSeq
<1>2. \A j \in 1..NClasses : (IF j <= Len(l) THEN l[j] ELSE 0) \in Nat
  BY <1>1, ProfileConstants
<1> QED BY <1>2 DEF ListRead

LEMMA EntriesTyped ==
    ASSUME file \in ProfileFiles, NEW s
    PROVE  /\ EntriesOf(s) \in Seq(RangeSet) /\ Len(EntriesOf(s)) \in Nat
           /\ DOMAIN EntriesOf(s) = 1..Len(EntriesOf(s))
           /\ \A i \in 1..Len(EntriesOf(s)) : EntriesOf(s)[i] \in RangeSet
<1>1. EntriesOf(s) \in Seq(RangeSet) BY ProfileAssumption DEF EntriesOf, RangeSet
<1> QED BY <1>1, LenProperties, ElementOfSeq

LEMMA ProfileInitInv == ProfileInit => ProfileInv
<1> SUFFICES ASSUME ProfileInit PROVE ProfileInv OBVIOUS
<1> USE DEF ProfileInit
<1>1. Defaults \in [subports : 0..MaxSubports, pipes : 0..MaxPipes,
                    qsize : [1..NClasses -> Nat], profiles : Nat]
  <2>1. [j \in 1..NClasses |-> 64] \in [1..NClasses -> Nat] OBVIOUS
  <2>2. 1 \in 0..MaxSubports /\ DefaultPipes \in 0..MaxPipes BY ProfileConstants
  <2> QED BY <2>1, <2>2 DEF Defaults
<1>2. profileOf \in [Subports -> [Pipes -> Int]] OBVIOUS
<1>3. ProfileTypes BY <1>1, <1>2, ProfileConstants DEF ProfileTypes
<1>4. CameUp BY DEF CameUp
<1> QED BY <1>3, <1>4 DEF ProfileInv, SectionsRead, Mapped


(* What a key gives for a number is in the range of its array.             *)
LEMMA GivenTyped ==
    ASSUME NEW n \in Nat, NEW g \in {<<>>} \cup {<<k>> : k \in 0..n}, NEW old \in 0..n
    PROVE  Value(g, old) \in 0..n
<1>1. CASE g = <<>> BY <1>1 DEF Value
<1>2. ASSUME NEW k \in 0..n, g = <<k>> PROVE Value(g, old) \in 0..n
  BY <1>2 DEF Value
<1> QED BY <1>1, <1>2

LEMMA TypesStep == ProfileInv /\ [ProfileNext]_profileVars => ProfileTypes'
<1> SUFFICES ASSUME ProfileInv, [ProfileNext]_profileVars PROVE ProfileTypes' OBVIOUS
<1>0. ProfileTypes BY DEF ProfileInv
<1> USE DEF ProfileTypes
<1>1. CASE CfgLoadPort
  <2> DEFINE port == file.port
             q == IF port.qsize = <<>> THEN params.qsize ELSE ListRead(port.qsize, params.qsize)
             a == Value(port.subports, params.subports)
             b == Value(port.pipes, params.pipes)
  <2>1. a \in 0..MaxSubports /\ b \in 0..MaxPipes
    BY <1>0, ProfileAssumption, ProfileConstants, GivenTyped
  <2>2. q \in [1..NClasses -> Nat]
    BY <1>0, ProfileAssumption, ListsTyped
  <2>3. params' = [params EXCEPT !.subports = a, !.pipes = b, !.qsize = q]
    BY <1>0, <1>1 DEF CfgLoadPort
  <2> HIDE DEF a, b, q
  <2>4. params' \in [subports : 0..MaxSubports, pipes : 0..MaxPipes,
                     qsize : [1..NClasses -> Nat], profiles : Nat]
    BY <1>0, <2>1, <2>2, <2>3
  <2>5. [s \in Subports |-> [p \in Pipes |-> NoProfile]] \in [Subports -> [Pipes -> Int]]
    BY DEF NoProfile
  <2> QED BY <1>0, <1>1, <2>4, <2>5 DEF CfgLoadPort
<1>2. CASE ReadEntry
  <2>1. Sub \in Subports /\ Entry \in RangeSet /\ entry[2] + 1 \in Nat \ {0}
    <3>1. Sub \in 0..MaxSubports /\ entry[2] \in Nat \ {0} BY <1>0 DEF Sub
    <3>2. Sub \in Subports BY <1>2, <3>1, ProfileConstants DEF ReadEntry, Subports
    <3>3. Entries = EntriesOf(Sub) BY DEF Entries, EntriesOf
    <3> QED BY <1>0, <1>2, <3>1, <3>2, <3>3, EntriesTyped DEF ReadEntry, Entry
  <2>2. MapPipes(profileOf[Sub], Entry) \in [Pipes -> Int]
    BY <1>0, <2>1 DEF MapPipes, RangeSet
  <2>3. profileOf' \in [Subports -> [Pipes -> Int]]
    BY <1>0, <1>2, <2>2 DEF ReadEntry
  <2>4. entry' \in (0..MaxSubports) \X (Nat \ {0})
    BY <1>0, <1>2, <2>1 DEF ReadEntry, Sub
  <2> QED BY <1>0, <1>2, <2>3, <2>4 DEF ReadEntry
<1>3. CASE NextSubport
  <2>1. Sub + 1 \in 0..MaxSubports BY <1>0, <1>3, ProfileConstants DEF NextSubport, Sub
  <2> QED BY <1>0, <1>3, <2>1 DEF NextSubport
<1>4. CASE BadEntry BY <1>0, <1>4 DEF BadEntry
<1>5. CASE EndOfSubports BY <1>0, <1>5 DEF EndOfSubports
<1>6. CASE CfgLoadPipe
  <2>1. NSections \in Nat BY <1>0, ProfileAssumption, FS_CardinalityType DEF NSections
  <2> QED BY <1>0, <1>6, <2>1 DEF CfgLoadPipe
<1>7. CASE InitSchedPort BY <1>0, <1>7 DEF InitSchedPort
<1>8. CASE Ready BY <1>0, <1>8 DEF Ready
<1>9. CASE UNCHANGED profileVars BY <1>0, <1>9 DEF profileVars
<1> QED BY <1>1, <1>2, <1>3, <1>4, <1>5, <1>6, <1>7, <1>8, <1>9 DEF ProfileNext

LEMMA SectionsStep == ProfileInv /\ [ProfileNext]_profileVars => SectionsRead'
<1> SUFFICES ASSUME ProfileInv, [ProfileNext]_profileVars PROVE SectionsRead' OBVIOUS
<1>0. ProfileTypes /\ SectionsRead BY DEF ProfileInv
<1> USE DEF SectionsRead
<1>1. CASE CfgLoadPort
  <2>1. /\ params.qsize = Defaults.qsize
        /\ params'.qsize = IF file.port.qsize = <<>> THEN params.qsize
                           ELSE ListRead(file.port.qsize, params.qsize)
    BY <1>0, <1>1 DEF CfgLoadPort, ProfileTypes
  <2>2. \A l, old : ListRead(l, old) = ListRead(l, Defaults.qsize) BY DEF ListRead
  <2> QED BY <1>1, <2>1, <2>2 DEF CfgLoadPort
<1>2. CASE ReadEntry BY <1>0, <1>2 DEF ReadEntry
<1>3. CASE NextSubport BY <1>0, <1>3 DEF NextSubport
<1>4. CASE BadEntry BY <1>0, <1>4 DEF BadEntry
<1>5. CASE EndOfSubports BY <1>0, <1>5 DEF EndOfSubports
<1>6. CASE CfgLoadPipe
  <2>1. params'.qsize = params.qsize /\ params'.profiles = NSections /\ NSections' = NSections
    BY <1>0, <1>6 DEF CfgLoadPipe, ProfileTypes, NSections
  <2>2. \A k \in 1..NSections :
           k - 1 \in DOMAIN file.profiles =>
              weights'[k] = ListRead(file.profiles[k - 1], BuiltIn(k - 1))
    BY <1>6 DEF CfgLoadPipe
  <2> QED BY <1>0, <1>6, <2>1, <2>2 DEF CfgLoadPipe
<1>7. CASE InitSchedPort BY <1>0, <1>7 DEF InitSchedPort, NSections
<1>8. CASE Ready BY <1>0, <1>8 DEF Ready, NSections
<1>9. CASE UNCHANGED profileVars BY <1>0, <1>9 DEF profileVars, NSections
<1> QED BY <1>1, <1>2, <1>3, <1>4, <1>5, <1>6, <1>7, <1>8, <1>9 DEF ProfileNext


LEMMA CameUpStep == ProfileInv /\ [ProfileNext]_profileVars => CameUp'
<1> SUFFICES ASSUME ProfileInv, [ProfileNext]_profileVars PROVE CameUp' OBVIOUS
<1>0. CameUp /\ NbPfc \in Nat \ {0} BY ProfileConstants DEF ProfileInv
<1> USE DEF CameUp
<1>1. ASSUME stage \in {"port", "subport", "pipe"}, sched' = sched, stage' # "ready" PROVE CameUp'
  <2>1. sched = <<>> BY <1>0, <1>1
  <2> QED BY <1>1, <2>1
<1>2. ASSUME UNCHANGED <<file, params, profileOf, weights>>
      PROVE  Rows' = Rows /\ (SchedTakes' <=> SchedTakes)
  BY <1>2 DEF Rows, SchedTakes
<1>3. CASE CfgLoadPort BY <1>1, <1>3 DEF CfgLoadPort
<1>4. CASE ReadEntry BY <1>1, <1>4 DEF ReadEntry
<1>5. CASE NextSubport BY <1>1, <1>5 DEF NextSubport
<1>6. CASE BadEntry BY <1>1, <1>6 DEF BadEntry
<1>7. CASE EndOfSubports BY <1>1, <1>7 DEF EndOfSubports
<1>8. CASE CfgLoadPipe BY <1>1, <1>8 DEF CfgLoadPipe
<1>9. CASE InitSchedPort
  <2>1. Rows' = Rows /\ (SchedTakes' <=> SchedTakes) BY <1>2, <1>9 DEF InitSchedPort
  <2>2. CASE SchedTakes
    <3>1. sched' = Append(sched, Rows) /\ stage' = "flows"
      BY <1>9, <2>2 DEF InitSchedPort, Rows
    <3>2. sched' \in Seq({Rows}) BY <1>0, <3>1, AppendProperties
    <3> QED BY <2>1, <2>2, <3>1, <3>2
  <2>3. CASE ~SchedTakes
    <3>1. sched' = sched /\ stage' = "exit" BY <1>9, <2>3 DEF InitSchedPort
    <3> QED BY <1>0, <2>1, <3>1
  <2> QED BY <2>2, <2>3
<1>10. CASE Ready
  <2>1. Rows' = Rows /\ (SchedTakes' <=> SchedTakes) BY <1>2, <1>10 DEF Ready
  <2> QED BY <1>0, <1>10, <2>1 DEF Ready
<1>11. CASE UNCHANGED profileVars
  <2>1. Rows' = Rows /\ (SchedTakes' <=> SchedTakes) BY <1>2, <1>11 DEF profileVars
  <2> QED BY <1>0, <1>11, <2>1 DEF profileVars
<1> QED BY <1>3, <1>4, <1>5, <1>6, <1>7, <1>8, <1>9, <1>10, <1>11 DEF ProfileNext

(* One more entry is read: it decides for the pipes it covers.             *)
LEMMA OneMoreEntry ==
    ASSUME ProfileTypes, Sub \in Subports, entry[2] \in 1..Len(EntriesOf(Sub)),
           NEW p \in Pipes, LastUpTo(Sub, p, entry[2] - 1),
           NEW new, new = MapPipes(profileOf[Sub], EntriesOf(Sub)[entry[2]])[p]
    PROVE  LET n == entry[2]
               E == EntriesOf(Sub)
           IN /\ CoversUpTo(Sub, p, n) = {} => new = NoProfile
              /\ CoversUpTo(Sub, p, n) # {} =>
                    \E i \in CoversUpTo(Sub, p, n) :
                       (\A k \in CoversUpTo(Sub, p, n) : k <= i) /\ new = E[i].profile
<1> DEFINE n == entry[2]
           E == EntriesOf(Sub)
           C == CoversUpTo(Sub, p, n - 1)
           D == CoversUpTo(Sub, p, n)
           e == E[n]
<1>1. n \in Nat \ {0} /\ e.first \in Nat /\ e.last \in Nat /\ p \in Nat
  <2>1. e \in RangeSet /\ Len(E) \in Nat BY EntriesTyped DEF ProfileTypes
  <2>2. p \in Nat BY ProfileConstants DEF Pipes
  <2>3. n \in Nat \ {0} BY <2>1
  <2> QED BY <2>1, <2>2, <2>3 DEF RangeSet
<1>2. D = IF e.first <= p /\ p <= e.last THEN C \cup {n} ELSE C
  <2>1. 1..n = 1..(n - 1) \cup {n} BY <1>1
  <2> QED BY <2>1 DEF CoversUpTo
<1>3. \A k \in C : k \in Nat /\ k <= n BY <1>1 DEF CoversUpTo
<1>4. CASE e.first <= p /\ p <= e.last
  <2>1. p \in e.first..e.last BY <1>1, <1>4
  <2>2. new = e.profile BY <2>1 DEF MapPipes
  <2>3. n \in D /\ \A k \in D : k <= n BY <1>1, <1>2, <1>3, <1>4
  <2> QED BY <2>2, <2>3
<1>5. CASE ~(e.first <= p /\ p <= e.last)
  <2>1. p \notin e.first..e.last BY <1>1, <1>5
  <2>2. new = profileOf[Sub][p] BY <2>1 DEF MapPipes
  <2>3. D = C BY <1>2, <1>5
  <2> QED BY <2>2, <2>3 DEF LastUpTo
<1> QED BY <1>4, <1>5

LEMMA MappedStep == ProfileInv /\ [ProfileNext]_profileVars => Mapped'
<1> SUFFICES ASSUME ProfileInv, [ProfileNext]_profileVars PROVE Mapped' OBVIOUS
<1>0. ProfileTypes /\ Mapped BY DEF ProfileInv
<1>a. Sub \in 0..MaxSubports /\ entry[2] \in Nat \ {0} /\ entry = <<Sub, entry[2]>>
  BY <1>0 DEF ProfileTypes, Sub
<1>b. \A s : Len(EntriesOf(s)) \in Nat BY <1>0, EntriesTyped DEF ProfileTypes
<1>f. file' = file => /\ \A s : EntriesOf(s)' = EntriesOf(s)
                      /\ Valid' <=> Valid
                      /\ \A s, p, n : CoversUpTo(s, p, n)' = CoversUpTo(s, p, n)
  BY DEF EntriesOf, Valid, RangeValid, CoversUpTo
<1>g. Entries = EntriesOf(Sub) BY DEF Entries, EntriesOf
<1>1. ASSUME UNCHANGED <<file, entry, profileOf>>, stage \notin {"port", "exit"},
             stage # "subport" \/ stage' = "subport" \/ (Valid => Sub = MaxSubports)
      PROVE  Mapped'
  <2>1. \A s : DoneOf(s)' = DoneOf(s) BY <1>1, <1>f DEF DoneOf, Sub
  <2>2. Sub' = Sub BY <1>1 DEF Sub
  <2>3. \A s, p, n : LastUpTo(s, p, n) => LastUpTo(s, p, n)'
    BY <1>1, <1>f DEF LastUpTo
  <2> QED BY <1>0, <1>1, <1>f, <2>1, <2>2, <2>3 DEF Mapped
<1>2. CASE CfgLoadPort
  <2>1. entry = <<0, 1>> /\ entry' = entry /\ file' = file /\ stage' = "subport"
    BY <1>2 DEF CfgLoadPort, ProfileInv, SectionsRead
  <2>2. Sub' = 0 /\ entry'[2] = 1 BY <2>1 DEF Sub
  <2>3. \A s \in Subports : DoneOf(s)' = 0
    BY <2>2, ProfileConstants DEF DoneOf, Subports
  <2>4. \A s \in Subports : \A p \in Pipes : profileOf'[s][p] = NoProfile
    BY <1>2 DEF CfgLoadPort
  <2>5. \A s, p : CoversUpTo(s, p, 0)' = {} BY DEF CoversUpTo
  <2>6. \A s \in Subports : \A p \in Pipes : LastUpTo(s, p, DoneOf(s))'
    BY <2>3, <2>4, <2>5 DEF LastUpTo
  <2>7. entry'[2] - 1 <= Len(EntriesOf(Sub))'
    BY <1>b, <1>f, <2>1, <2>2
  <2> QED BY <2>1, <2>4, <2>6, <2>7 DEF Mapped
<1>3. CASE ReadEntry
  <2>1. /\ stage = "subport" /\ stage' = "subport" /\ file' = file
        /\ Sub \in Subports /\ entry[2] \in 1..Len(EntriesOf(Sub))
        /\ HasProfile(Entry) /\ Entry = EntriesOf(Sub)[entry[2]]
        /\ profileOf' = [profileOf EXCEPT ![Sub] = MapPipes(@, Entry)]
        /\ entry' = <<Sub, entry[2] + 1>>
    BY <1>3, <1>a, <1>b, <1>g, ProfileConstants DEF ReadEntry, Subports, Entry
  <2>2. Sub' = Sub /\ entry'[2] = entry[2] + 1 BY <2>1 DEF Sub
  <2>3. profileOf \in [Subports -> [Pipes -> Int]] BY <1>0 DEF ProfileTypes
  <2>4. /\ profileOf'[Sub] = MapPipes(profileOf[Sub], Entry)
        /\ \A s \in Subports : s # Sub => profileOf'[s] = profileOf[s]
    BY <2>1, <2>3
  <2>5. \A s \in Subports : s # Sub => DoneOf(s)' = DoneOf(s)
    BY <1>f, <2>1, <2>2 DEF DoneOf
  <2>6. DoneOf(Sub) = entry[2] - 1 /\ DoneOf(Sub)' = entry[2]
    BY <1>a, <2>2 DEF DoneOf
  <2>7. ASSUME NEW s \in Subports, NEW p \in Pipes
        PROVE  /\ profileOf'[s][p] # NoProfile => profileOf'[s][p] \in DOMAIN file.profiles
               /\ LastUpTo(s, p, DoneOf(s))'
    <3>1. CASE s # Sub
      BY <1>0, <1>f, <2>1, <2>4, <2>5, <2>7, <3>1 DEF Mapped, LastUpTo
    <3>2. CASE s = Sub
      <4> DEFINE new == MapPipes(profileOf[Sub], Entry)[p]
      <4>1. new = profileOf'[s][p] BY <2>4, <3>2
      <4>2. LastUpTo(Sub, p, entry[2] - 1)
        BY <1>0, <2>1, <2>6, <2>7 DEF Mapped
      <4>3. new = Entry.profile \/ new = profileOf[Sub][p] BY <2>7 DEF MapPipes
      <4>4. new # NoProfile => new \in DOMAIN file.profiles
        BY <1>0, <2>1, <2>7, <4>3 DEF Mapped, HasProfile
      <4>5. /\ CoversUpTo(Sub, p, entry[2]) = {} => new = NoProfile
            /\ CoversUpTo(Sub, p, entry[2]) # {} =>
                  \E i \in CoversUpTo(Sub, p, entry[2]) :
                     /\ \A k \in CoversUpTo(Sub, p, entry[2]) : k <= i
                     /\ new = EntriesOf(Sub)[i].profile
        BY <1>0, <2>1, <2>7, <4>2, OneMoreEntry
      <4> HIDE DEF new
      <4>6. ASSUME NEW n, n = entry[2] PROVE LastUpTo(s, p, n)'
        BY <1>f, <2>1, <3>2, <4>1, <4>5, <4>6 DEF LastUpTo
      <4>7. DoneOf(s)' = entry[2] BY <2>1, <2>2, <2>6, <3>2
      <4>8. LastUpTo(s, p, DoneOf(s))' BY <4>6, <4>7 DEF LastUpTo
      <4> QED BY <4>1, <4>4, <4>8
    <3> QED BY <3>1, <3>2
  <2>8. entry'[2] - 1 <= Len(EntriesOf(Sub))'
    BY <1>a, <1>b, <1>f, <2>1, <2>2
  <2> QED BY <2>1, <2>7, <2>8 DEF Mapped
<1>4. CASE NextSubport
  <2>1. /\ stage = "subport" /\ stage' = "subport" /\ UNCHANGED <<file, profileOf>>
        /\ entry[2] > Len(EntriesOf(Sub)) /\ entry' = <<Sub + 1, 1>>
    BY <1>4, <1>g DEF NextSubport
  <2>2. Sub' = Sub + 1 /\ entry'[2] = 1 BY <2>1 DEF Sub
  <2>3. entry[2] - 1 = Len(EntriesOf(Sub))
    BY <1>0, <1>a, <1>b, <2>1 DEF Mapped
  <2>4. \A s \in Subports : DoneOf(s)' = DoneOf(s)
    <3> SUFFICES ASSUME NEW s \in Subports PROVE DoneOf(s)' = DoneOf(s) OBVIOUS
    <3>1. s \in Nat BY ProfileConstants DEF Subports
    <3>2. EntriesOf(s)' = EntriesOf(s) BY <1>f, <2>1
    <3>3. DoneOf(s)' = IF s < Sub + 1 THEN Len(EntriesOf(s)) ELSE 0
      BY <2>2, <3>2 DEF DoneOf
    <3>4. DoneOf(s) = IF s < Sub + 1 THEN Len(EntriesOf(s)) ELSE 0
      BY <1>a, <2>3, <3>1 DEF DoneOf
    <3> QED BY <3>3, <3>4
  <2>5. \A s \in Subports : \A p \in Pipes : LastUpTo(s, p, DoneOf(s))'
    BY <1>0, <1>f, <2>1, <2>4 DEF Mapped, LastUpTo
  <2>6. entry'[2] - 1 <= Len(EntriesOf(Sub))'
    <3>1. Len(EntriesOf(Sub + 1)) \in Nat BY <1>b
    <3>2. EntriesOf(Sub)' = EntriesOf(Sub + 1) BY <1>f, <2>1, <2>2 DEF EntriesOf
    <3> QED BY <2>2, <3>1, <3>2
  <2> QED BY <1>0, <2>1, <2>5, <2>6 DEF Mapped
<1>5. CASE BadEntry
  <2>1. CASE RangeValid(Entry) BY <1>5, <2>1 DEF BadEntry, Mapped
  <2>2. CASE ~RangeValid(Entry)
    <3>1. ~Valid
      <4>1. Sub \in DOMAIN file.subports /\ Entry = file.subports[Sub][entry[2]]
            /\ entry[2] \in DOMAIN file.subports[Sub]
        <5>1. entry[2] \in 1..Len(EntriesOf(Sub)) BY <1>5, <1>a, <1>b, <1>g DEF BadEntry
        <5>2. EntriesOf(Sub) # <<>> BY <5>1
        <5>3. Sub \in DOMAIN file.subports /\ EntriesOf(Sub) = file.subports[Sub]
          BY <5>2 DEF EntriesOf
        <5>4. entry[2] \in DOMAIN EntriesOf(Sub)
          BY <1>0, <5>1, EntriesTyped DEF ProfileTypes
        <5> QED BY <1>g, <5>3, <5>4 DEF Entry
      <4> QED BY <2>2, <4>1 DEF Valid
    <3> QED BY <1>1, <1>5, <3>1 DEF BadEntry
  <2> QED BY <2>1, <2>2
<1>6. CASE EndOfSubports BY <1>1, <1>6 DEF EndOfSubports
<1>7. CASE CfgLoadPipe BY <1>1, <1>7 DEF CfgLoadPipe
<1>8. CASE InitSchedPort
  <2>1. CASE SchedTakes BY <1>1, <1>8, <2>1 DEF InitSchedPort
  <2>2. CASE ~SchedTakes BY <1>8, <2>2 DEF InitSchedPort, Mapped
  <2> QED BY <2>1, <2>2
<1>9. CASE Ready BY <1>1, <1>9 DEF Ready
<1>10. CASE UNCHANGED profileVars
  <2>1. CASE stage \in {"port", "exit"} BY <1>10, <2>1 DEF profileVars, Mapped
  <2>2. CASE stage \notin {"port", "exit"} BY <1>1, <1>10, <2>2 DEF profileVars
  <2> QED BY <2>1, <2>2
<1> QED BY <1>2, <1>3, <1>4, <1>5, <1>6, <1>7, <1>8, <1>9, <1>10 DEF ProfileNext

LEMMA ProfileInvariance == ProfileSpec => []ProfileInv
<1>1. ProfileInv /\ [ProfileNext]_profileVars => ProfileInv'
  <2> SUFFICES ASSUME ProfileInv, [ProfileNext]_profileVars PROVE ProfileInv' OBVIOUS
  <2> QED BY TypesStep, SectionsStep, MappedStep, CameUpStep DEF ProfileInv
<1> QED BY <1>1, ProfileInitInv, PTL DEF ProfileSpec

(* What is true of the schedulers once the program is up. *)
LEMMA UpFacts ==
    ASSUME ProfileInv, stage = "ready"
    PROVE  /\ SchedTakes
           /\ params.subports \in 0..MaxSubports /\ params.pipes \in 0..MaxPipes
           /\ \A f \in DOMAIN sched :
                 /\ DOMAIN sched[f] \subseteq Subports
                 /\ \A s \in DOMAIN sched[f] :
                       /\ DOMAIN sched[f][s] \subseteq Pipes
                       /\ \A p \in DOMAIN sched[f][s] :
                             /\ s \in 0..(params.subports - 1) /\ p \in 0..(params.pipes - 1)
                             /\ sched[f][s][p] = profileOf[s][p]
<1>1. CameUp /\ ProfileTypes BY DEF ProfileInv
<1>2. sched # <<>> BY <1>1, ProfileConstants DEF CameUp
<1>3. SchedTakes BY <1>1, <1>2 DEF CameUp
<1>4. params.subports \in 0..MaxSubports /\ params.pipes \in 0..MaxPipes
  BY <1>1 DEF ProfileTypes
<1>5. \A f \in DOMAIN sched : sched[f] = Rows
  <2> SUFFICES ASSUME NEW f \in DOMAIN sched PROVE sched[f] = Rows OBVIOUS
  <2>1. sched[f] \in {Rows} BY <1>1, ElementOfSeq, LenProperties DEF CameUp
  <2> QED BY <2>1
<1>6. /\ DOMAIN Rows = 0..(params.subports - 1)
      /\ \A s \in DOMAIN Rows : /\ DOMAIN Rows[s] = 0..(params.pipes - 1)
                                /\ \A p \in DOMAIN Rows[s] : Rows[s][p] = profileOf[s][p]
  BY DEF Rows
<1>7. 0..(params.subports - 1) \subseteq Subports /\ 0..(params.pipes - 1) \subseteq Pipes
  BY <1>4, ProfileConstants DEF Subports, Pipes
<1> QED BY <1>3, <1>4, <1>5, <1>6, <1>7

(* Whatever the profile file gives, within the arrays of main.h: if the    *)
(* program comes up, a pipe of every flow has the profile of the last line *)
(* that names it, the file describes that profile, and the queue sizes are *)
(* the file's or the built-in ones (cfg_file.c:70-81, 168-172, 306-338,    *)
(* init.c:292-293).                                                        *)
THEOREM ProfileTheorem == ProfileSpec => []ProfilesAsWritten
<1>1. ProfileInv => LastEntryWins
  <2> SUFFICES ASSUME ProfileInv, stage = "ready", Valid, NEW f \in DOMAIN sched,
                      NEW s \in DOMAIN sched[f], NEW p \in DOMAIN sched[f][s]
               PROVE  IF Covers(s, p) = {} THEN sched[f][s][p] = NoProfile
                      ELSE \E i \in Covers(s, p) :
                              /\ \A k \in Covers(s, p) : k <= i
                              /\ sched[f][s][p] = EntriesOf(s)[i].profile
    BY DEF LastEntryWins
  <2>1. s \in Subports /\ p \in Pipes /\ sched[f][s][p] = profileOf[s][p] BY UpFacts
  <2>2. Sub = MaxSubports /\ LastUpTo(s, p, DoneOf(s)) BY <2>1 DEF ProfileInv, Mapped
  <2>3. DoneOf(s) = Len(EntriesOf(s)) BY <2>1, <2>2, ProfileConstants DEF DoneOf, Subports
  <2>4. Covers(s, p) = CoversUpTo(s, p, DoneOf(s))
    BY <2>3, EntriesTyped DEF Covers, CoversUpTo, ProfileInv, ProfileTypes
  <2> QED BY <2>1, <2>2, <2>4 DEF LastUpTo
<1>2. ProfileInv => ProfilesDescribed
  <2> SUFFICES ASSUME ProfileInv, stage = "ready", NEW f \in DOMAIN sched,
                      NEW s \in DOMAIN sched[f], NEW p \in DOMAIN sched[f][s],
                      sched[f][s][p] # NoProfile
               PROVE  /\ sched[f][s][p] \in DOMAIN file.profiles
                      /\ \A j \in 1..NClasses : weights[sched[f][s][p] + 1][j] =
                                               file.profiles[sched[f][s][p]][j]
    BY DEF ProfilesDescribed
  <2> DEFINE v == sched[f][s][p]
  <2>1. /\ s \in Subports /\ p \in Pipes /\ v = profileOf[s][p] /\ SchedTakes
        /\ s \in 0..(params.subports - 1) /\ p \in 0..(params.pipes - 1)
    BY UpFacts
  <2>2. v \in DOMAIN file.profiles BY <2>1 DEF ProfileInv, Mapped
  <2>3. v < params.profiles /\ params.profiles = NSections
    BY <2>1 DEF SchedTakes, ProfileInv, SectionsRead
  <2>4. /\ DOMAIN file.profiles \subseteq Nat /\ NSections \in Nat
        /\ file.profiles[v] \in Seq(Nat)
    BY <2>2, ProfileAssumption, FS_CardinalityType DEF ProfileInv, ProfileTypes, NSections
  <2> HIDE DEF v
  <2>5. v + 1 \in 1..NSections /\ (v + 1) - 1 = v BY <2>2, <2>3, <2>4
  <2>6. weights[v + 1] = ListRead(file.profiles[v], BuiltIn(v))
    <3>1. \A k \in 1..NSections : k - 1 \in DOMAIN file.profiles =>
                weights[k] = ListRead(file.profiles[k - 1], BuiltIn(k - 1))
      BY DEF ProfileInv, SectionsRead
    <3> QED BY <2>2, <2>5, <3>1
  <2>7. \A j \in 1..NClasses : weights[v + 1][j] > 0
    BY <2>1, <2>3, <2>5 DEF SchedTakes
  <2>8. ASSUME NEW j \in 1..NClasses PROVE weights[v + 1][j] = file.profiles[v][j]
    <3>1. weights[v + 1][j] = IF j <= Len(file.profiles[v]) THEN file.profiles[v][j] ELSE 0
      BY <2>6, <2>8 DEF ListRead
    <3> QED BY <2>7, <3>1
  <2> QED BY <2>2, <2>8 DEF v
<1>3. ProfileInv => ListsWhole
  <2> SUFFICES ASSUME ProfileInv, stage = "ready",
                      ~(params.qsize = Defaults.qsize /\ file.port.qsize = <<>>)
               PROVE  /\ Len(file.port.qsize) >= NClasses
                      /\ \A j \in 1..NClasses : params.qsize[j] = file.port.qsize[j]
    BY DEF ListsWhole
  <2>1. params.qsize = ListRead(file.port.qsize, Defaults.qsize)
    BY DEF ProfileInv, SectionsRead
  <2>2. \A j \in 1..NClasses : params.qsize[j] > 0 BY UpFacts DEF SchedTakes
  <2>3. Len(file.port.qsize) \in Nat
    BY ProfileAssumption, LenProperties DEF ProfileInv, ProfileTypes
  <2>4. \A j \in 1..NClasses :
           params.qsize[j] = IF j <= Len(file.port.qsize) THEN file.port.qsize[j] ELSE 0
    BY <2>1 DEF ListRead
  <2>5. \A j \in 1..NClasses : j <= Len(file.port.qsize) BY <2>2, <2>4
  <2> QED BY <2>3, <2>4, <2>5, ProfileConstants
<1>4. ProfileInv => ProfilesAsWritten BY <1>1, <1>2, <1>3 DEF ProfilesAsWritten
<1> QED BY <1>4, ProfileInvariance, PTL

-----------------------------------------------------------------------------
(* Pcap.  The number of packets that are built is a power of two.          *)

Powers ==
    {1, 2, 4, 8, 16, 32, 64, 128, 256, 512, 1024, 2048, 4096, 8192, 16384, 32768, 65536,
     131072, 262144, 524288, 1048576, 2097152, 4194304, 8388608, 16777216, 33554432,
     67108864, 134217728, 268435456, 536870912, 1073741824}

(* The powers of two of a pool, written out.                               *)
LEMMA PowersListed == PowersOfTwo = Powers
<1> DEFINE pow == [i \in 0..30 |-> 2^i]
<1>1. /\ pow[0] = 1 /\ pow[1] = 2 /\ pow[2] = 4 /\ pow[3] = 8 /\ pow[4] = 16 /\ pow[5] = 32
      /\ pow[6] = 64 /\ pow[7] = 128
      /\ pow[8] = 256 /\ pow[9] = 512 /\ pow[10] = 1024 /\ pow[11] = 2048
      /\ pow[12] = 4096 /\ pow[13] = 8192
      /\ pow[14] = 16384 /\ pow[15] = 32768 /\ pow[16] = 65536 /\ pow[17] = 131072
      /\ pow[18] = 262144
      /\ pow[19] = 524288 /\ pow[20] = 1048576 /\ pow[21] = 2097152
      /\ pow[22] = 4194304 /\ pow[23] = 8388608
      /\ pow[24] = 16777216 /\ pow[25] = 33554432 /\ pow[26] = 67108864 /\ pow[27] = 134217728
      /\ pow[28] = 268435456 /\ pow[29] = 536870912 /\ pow[30] = 1073741824
  BY SMT
<1>2. 0..30 = {0,1,2,3,4,5,6,7,8,9,10,11,12,13,14,15,16,17,18,19,20,21,22,23,24,25,26,27,28,29,30}
  OBVIOUS
<1>3. ASSUME NEW i \in 0..30 PROVE 2^i \in Powers
  <2>1. pow[i] = 2^i OBVIOUS
  <2> HIDE DEF pow
  <2>2. pow[i] \in Powers BY <1>1, <1>2 DEF Powers
  <2> QED BY <2>1, <2>2
<1>4. ASSUME NEW p \in Powers PROVE \E i \in 0..30 : p = 2^i
  <2>1. \A i \in 0..30 : pow[i] = 2^i OBVIOUS
  <2> HIDE DEF pow
  <2>2. \E i \in 0..30 : p = pow[i]
    BY <1>1 DEF Powers
  <2> QED BY <2>1, <2>2
<1> QED BY <1>3, <1>4 DEF PowersOfTwo

(* Among them there is a smallest one that is large enough.                *)
LEMMA LeastListed ==
  ASSUME NEW n \in Nat, n <= 1073741824
  PROVE \E p \in Powers : p >= n /\ \A q \in Powers : q >= n => p <= q
BY DEF Powers

LEMMA LeastPower ==
  ASSUME NEW n \in Nat, n <= 2^30
  PROVE \E p \in PowersOfTwo : p >= n /\ \A q \in PowersOfTwo : q >= n => p <= q
<1>1. n <= 1073741824 BY SMT
<1> QED BY <1>1, LeastListed, PowersListed

(* The largest power of two of a pool. *)
Room == 2^30
Records == [incl : Nat, there : Nat]
Buffers == [from : Nat, bytes : Nat, len : Nat]

PcapTypes ==
    /\ capture \in Seq(Records) /\ Len(capture) <= Room
    /\ progress \in {"open", "count", "create", "build", "ready", "none"}
    /\ next \in Nat \ {0} /\ buffer \in Nat /\ eltCount \in Nat /\ elements \in Nat
    /\ buffers \in Seq(Buffers)

(* The records counted so far, and all of them once the count is over.     *)
CountedSome == eltCount <= Len(capture) /\ \A i \in 1..eltCount : Usable(i)
CountedWhole == eltCount > 0 /\ (eltCount = Len(capture) \/ ~Usable(eltCount + 1))

(* The buffers built so far, and where the constructor goes on.            *)
BuiltCycle ==
    \A i \in 1..Len(buffers) :
       /\ buffers[i].from = ((i - 1) % eltCount) + 1
       /\ FitsBuffer(capture[buffers[i].from]) => buffers[i].bytes = buffers[i].from
GoesOn == Len(buffers) % eltCount = IF next = eltCount + 1 THEN 0 ELSE next - 1

PcapInv ==
    /\ PcapTypes
    /\ progress \in {"open", "count"} => next = eltCount + 1
    /\ progress \in {"open", "count", "create", "none"} => buffers = <<>>
    /\ progress # "none" => CountedSome
    /\ progress \in {"create", "build", "ready"} => CountedWhole
    /\ progress \in {"build", "ready"} => elements >= eltCount /\ BuiltCycle
    /\ progress = "build" => next \in 1..(eltCount + 1) /\ GoesOn
    /\ progress = "ready" => Len(buffers) = elements

LEMMA PcapConstants ==
    /\ MinPkt \in Nat \ {0} /\ MaxPkt \in Nat \ {0} /\ BufSize \in Nat \ {0}
    /\ Room \in Nat /\ MinMbufs \in Nat /\ MinMbufs <= Room
    /\ \A f \in Captures : f \in Seq(Records) /\ Len(f) <= Room
<1>2. MinPkt \in Nat \ {0} /\ MaxPkt \in Nat
      /\ BufSize \in Nat /\ MinPkt <= MaxPkt /\ MaxPkt <= BufSize
  BY PcapAssumption
<1> QED BY <1>2, PcapAssumption DEF Records, Room

(* A read takes the next record exactly if there is one that has bytes or  *)
(* is passed over for its length.                                          *)
LEMMA ReadsUsable ==
    ASSUME PcapTypes
    PROVE  /\ Result > 0 <=> next <= Len(capture) /\ Usable(next)
           /\ Result \in Nat
           /\ next <= Len(capture) =>
                 /\ Bytes \in Nat /\ Clamp(Record.incl) \in Nat
                 /\ FitsBuffer(capture[next]) => Bytes = next
<1>1. CASE next <= Len(capture)
  <2>1. capture[next] \in Records
    BY <1>1, ElementOfSeq, LenProperties DEF PcapTypes
  <2>2. capture[next].incl \in Nat /\ capture[next].there \in Nat
    BY <2>1 DEF Records
  <2> QED BY <1>1, <2>2, PcapConstants
          DEF PcapTypes, Result, AtEnd, Record, Bytes, Clamp, FitsBuffer, Usable
<1>2. CASE next > Len(capture)
  BY <1>2, LenProperties DEF PcapTypes, Result, AtEnd
<1>3. Len(capture) \in Nat BY LenProperties DEF PcapTypes
<1> QED BY <1>1, <1>2, <1>3 DEF PcapTypes

(* The pool has room for all of the packets that were counted.             *)
LEMMA PoolHolds ==
    ASSUME eltCount \in Nat, eltCount <= Room
    PROVE  PoolSize \in Nat /\ PoolSize >= eltCount
<1> DEFINE n == IF eltCount < MinMbufs THEN MinMbufs ELSE eltCount
<1>1. n \in Nat /\ n <= Room /\ eltCount <= n BY PcapConstants
<1> HIDE DEF n
<1>2. \E p \in PowersOfTwo : p >= n /\ \A q \in PowersOfTwo : q >= n => p <= q
  BY <1>1, LeastPower DEF Room
<1>3. AlignPow2(n) \in PowersOfTwo /\ AlignPow2(n) >= n
  BY <1>2 DEF AlignPow2
<1>4. PowersOfTwo \subseteq Nat BY PowersListed DEF Powers
<1>5. PoolSize = AlignPow2(n) BY DEF PoolSize, n
<1>6. AlignPow2(n) \in Nat BY <1>3, <1>4
<1> QED BY <1>1, <1>3, <1>5, <1>6

LEMMA PcapInitInv == PcapInit => PcapInv
<1> SUFFICES ASSUME PcapInit PROVE PcapInv OBVIOUS
<1> USE DEF PcapInit
<1>1. PcapTypes BY PcapConstants DEF PcapTypes, Stale
<1>2. CountedSome BY <1>1, LenProperties DEF CountedSome, PcapTypes
<1> QED BY <1>1, <1>2 DEF PcapInv

LEMMA PcapStep == PcapInv /\ [PcapNext]_pcapVars => PcapInv'
<1> SUFFICES ASSUME PcapInv, [PcapNext]_pcapVars PROVE PcapInv' OBVIOUS
<1>0. PcapTypes /\ Len(capture) \in Nat /\ Len(buffers) \in Nat
  BY LenProperties DEF PcapInv, PcapTypes
<1>u. capture' = capture => \A i : Usable(i)' <=> Usable(i)
  BY DEF Usable, FitsBuffer
<1>1. CASE Open
  <2>1. PcapTypes' BY <1>1, <1>0 DEF Open, PcapTypes
  <2> QED BY <1>1, <1>u, <2>1 DEF Open, PcapInv, CountedSome
<1>2. CASE Count
  <2>1. next = eltCount + 1 /\ Result > 0 /\ buffers = <<>> /\ CountedSome
    BY <1>2 DEF Count, Counted, PcapInv
  <2>2. next <= Len(capture) /\ Usable(next) /\ Bytes \in Nat
    BY <1>0, <2>1, ReadsUsable
  <2>3. PcapTypes' BY <1>2, <1>0, <2>2 DEF Count, PcapTypes
  <2>4. CountedSome'
    <3>1. capture' = capture /\ eltCount' = next BY <1>2, <2>1 DEF Count
    <3>2. \A i \in 1..next : Usable(i) BY <1>0, <2>1, <2>2 DEF CountedSome, PcapTypes
    <3> QED BY <1>0, <1>u, <2>2, <3>1, <3>2 DEF CountedSome
  <2> QED BY <1>2, <2>1, <2>3, <2>4 DEF Count, PcapInv
<1>3. CASE EndOfCount
  <2>1. next = eltCount + 1 /\ ~(Result > 0) /\ buffers = <<>> /\ CountedSome
    BY <1>3 DEF EndOfCount, Counted, PcapInv
  <2>2. eltCount = Len(capture) \/ ~Usable(eltCount + 1)
    BY <1>0, <2>1, ReadsUsable DEF CountedSome, PcapTypes
  <2>3. PcapTypes' BY <1>3, <1>0 DEF EndOfCount, PcapTypes
  <2>4. CountedSome' BY <1>3, <1>u, <2>1 DEF EndOfCount, CountedSome
  <2>5. eltCount > 0 => CountedWhole' BY <1>3, <1>u, <2>2 DEF EndOfCount, CountedWhole
  <2>6. progress' = "create" => eltCount > 0 BY <1>3 DEF EndOfCount
  <2> QED BY <1>3, <2>1, <2>3, <2>4, <2>5, <2>6 DEF EndOfCount, PcapInv
<1>4. CASE Create
  <2>1. buffers = <<>> /\ CountedSome /\ CountedWhole /\ eltCount \in Nat \ {0}
    BY <1>4, <1>0 DEF Create, PcapInv, CountedWhole, PcapTypes
  <2>2. PoolSize \in Nat /\ PoolSize >= eltCount
    BY <1>0, <2>1, PoolHolds, PcapConstants DEF CountedSome, PcapTypes
  <2>3. PcapTypes' BY <1>4, <1>0, <2>2 DEF Create, PcapTypes, Rewind, Stale
  <2>4. CountedSome' /\ CountedWhole' /\ BuiltCycle'
    BY <1>4, <1>u, <2>1 DEF Create, CountedSome, CountedWhole, BuiltCycle
  <2>5. GoesOn'
    <3>1. 0 % eltCount = 0 BY <2>1
    <3> QED BY <1>4, <2>1, <3>1 DEF Create, GoesOn, Rewind
  <2>6. next' \in 1..(eltCount' + 1) BY <1>4, <2>1 DEF Create, Rewind
  <2> QED BY <1>4, <2>2, <2>3, <2>4, <2>5, <2>6 DEF Create, PcapInv
<1>5. CASE Ctor
  <2>0. CountedSome /\ CountedWhole /\ BuiltCycle /\ GoesOn /\ next \in 1..(eltCount + 1)
        /\ elements >= eltCount /\ eltCount \in Nat \ {0} /\ Result > 0
    BY <1>5, <1>0 DEF Ctor, PcapInv, CountedWhole, PcapTypes
  <2>1. next <= Len(capture) /\ Usable(next) /\ Bytes \in Nat /\ Clamp(Record.incl) \in Nat
        /\ (FitsBuffer(capture[next]) => Bytes = next)
    BY <1>0, <2>0, ReadsUsable
  <2>2. next \in 1..eltCount /\ Len(buffers) % eltCount = next - 1
    BY <1>0, <2>0, <2>1 DEF CountedWhole, GoesOn
  <2> DEFINE new == [from |-> next, bytes |-> Bytes, len |-> Clamp(Record.incl)]
             L == Len(buffers)
  <2>3. new \in Buffers BY <2>1, <1>0 DEF Buffers, PcapTypes
  <2>4. buffers' = Append(buffers, new) BY <1>5 DEF Ctor
  <2>5. /\ buffers' \in Seq(Buffers) /\ Len(buffers') = L + 1
        /\ \A i \in 1..L : buffers'[i] = buffers[i]
        /\ buffers'[L + 1] = new
    BY <1>0, <2>3, <2>4, AppendProperties DEF PcapTypes
  <2>6. PcapTypes' BY <1>5, <1>0, <2>1, <2>5 DEF Ctor, PcapTypes
  <2>7. CountedSome' /\ CountedWhole'
    BY <1>5, <1>u, <2>0 DEF Ctor, CountedSome, CountedWhole
  <2>8. BuiltCycle'
    <3>1. capture' = capture /\ eltCount' = eltCount BY <1>5 DEF Ctor
    <3> SUFFICES ASSUME NEW i \in 1..(L + 1)
                 PROVE  /\ buffers'[i].from = ((i - 1) % eltCount) + 1
                        /\ FitsBuffer(capture[buffers'[i].from])
                              => buffers'[i].bytes = buffers'[i].from
      BY <2>5, <3>1 DEF BuiltCycle, FitsBuffer
    <3>2. CASE i \in 1..L BY <2>0, <2>5, <3>2 DEF BuiltCycle
    <3>3. CASE i = L + 1
      <4>1. i - 1 = L BY <1>0, <3>3
      <4>2. buffers'[i].from = next /\ buffers'[i].bytes = Bytes BY <2>5, <3>3
      <4> HIDE DEF L, new
      <4>3. (i - 1) % eltCount = next - 1 BY <2>2, <4>1 DEF L
      <4> QED BY <2>1, <2>2, <4>2, <4>3
    <3> QED BY <3>2, <3>3, <1>0
  <2>9. GoesOn' /\ next' \in 1..(eltCount' + 1)
    <3>1. next' = next + 1 /\ eltCount' = eltCount BY <1>5 DEF Ctor
    <3>2. ((L % eltCount) + 1) % eltCount = (L + 1) % eltCount
      BY <1>0, <2>0, CountStep
    <3>3. next % eltCount = (L + 1) % eltCount BY <2>2, <3>2
    <3>4. next % eltCount = IF next = eltCount THEN 0 ELSE next
      <4>1. CASE next = eltCount
        <5>1. eltCount = 1 * eltCount + 0 /\ 0 \in 0..(eltCount - 1) /\ 1 \in Nat BY <2>0
        <5>2. (1 * eltCount + 0) % eltCount = 0 BY <2>0, <5>1, Remainder
        <5> QED BY <4>1, <5>1, <5>2
      <4>2. CASE next # eltCount BY <2>2, <2>0, <4>2
      <4> QED BY <4>1, <4>2
    <3>5. Len(buffers') % eltCount' = IF next = eltCount THEN 0 ELSE next
      BY <2>5, <3>1, <3>3, <3>4
    <3> QED BY <2>0, <2>2, <3>1, <3>5 DEF GoesOn
  <2> HIDE DEF new, L
  <2>10. UNCHANGED <<progress, elements, eltCount>> /\ progress = "build" BY <1>5 DEF Ctor
  <2> QED BY <2>0, <2>6, <2>7, <2>8, <2>9, <2>10 DEF PcapInv
<1>6. CASE CtorRewind
  <2>0. CountedSome /\ CountedWhole /\ BuiltCycle /\ GoesOn /\ next \in 1..(eltCount + 1)
        /\ elements >= eltCount /\ eltCount \in Nat \ {0} /\ Result = 0 /\ progress = "build"
    BY <1>6, <1>0 DEF CtorRewind, PcapInv, CountedWhole, PcapTypes
  <2>1. next = eltCount + 1
    BY <1>0, <2>0, ReadsUsable DEF CountedSome
  <2>2. PcapTypes' BY <1>6, <1>0 DEF CtorRewind, PcapTypes, Rewind
  <2>3. CountedSome' /\ CountedWhole'
    BY <1>6, <1>u, <2>0 DEF CtorRewind, CountedSome, CountedWhole
  <2>4. BuiltCycle'
    BY <1>6, <2>0 DEF CtorRewind, BuiltCycle, FitsBuffer
  <2>5. GoesOn' /\ next' \in 1..(eltCount' + 1)
    BY <1>6, <2>0, <2>1 DEF CtorRewind, GoesOn, Rewind
  <2>6. UNCHANGED <<progress, elements, eltCount>> BY <1>6 DEF CtorRewind
  <2> QED BY <2>0, <2>2, <2>3, <2>4, <2>5, <2>6 DEF PcapInv
<1>7. CASE Built
  <2>1. UNCHANGED <<capture, next, buffer, eltCount, elements, buffers>>
        /\ progress = "build" /\ progress' = "ready" /\ Len(buffers) = elements
    BY <1>7 DEF Built
  <2>2. PcapTypes' BY <1>0, <2>1 DEF PcapTypes
  <2>3. CountedSome' /\ CountedWhole' /\ BuiltCycle'
    BY <1>u, <2>1 DEF PcapInv, CountedSome, CountedWhole, BuiltCycle, FitsBuffer
  <2> QED BY <2>1, <2>2, <2>3 DEF PcapInv
<1>8. CASE UNCHANGED pcapVars
  <2>1. UNCHANGED <<capture, progress, next, buffer, eltCount, elements, buffers>>
    BY <1>8 DEF pcapVars
  <2>2. PcapTypes' BY <1>0, <2>1 DEF PcapTypes
  <2>3. /\ CountedSome' <=> CountedSome
        /\ CountedWhole' <=> CountedWhole
        /\ BuiltCycle' <=> BuiltCycle
        /\ GoesOn' <=> GoesOn
    BY <1>u, <2>1 DEF CountedSome, CountedWhole, BuiltCycle, GoesOn, FitsBuffer
  <2> QED BY <2>1, <2>2, <2>3 DEF PcapInv
<1> QED BY <1>1, <1>2, <1>3, <1>4, <1>5, <1>6, <1>7, <1>8 DEF PcapNext

(* Whatever the capture, of at most 2^30 records: the constructor of the   *)
(* pool gives the buffers the records in the order of the capture and from *)
(* the first one again after the last, and every record that was counted   *)
(* is in the pool, with its own bytes if it fits a buffer                  *)
(* (pcap.c:134-143, 177-183, 221-243).                                     *)
THEOREM PoolTheorem == PcapSpec => []PoolIsCapture
<1>1. PcapInv => PoolCycles
  <2> SUFFICES ASSUME PcapInv, NEW i \in DOMAIN buffers
               PROVE  buffers[i].from = ((i - 1) % eltCount) + 1
    BY DEF PoolCycles
  <2>1. i \in 1..Len(buffers) /\ buffers # <<>>
    BY LenProperties, EmptySeq DEF PcapInv, PcapTypes
  <2> QED BY <2>1 DEF PcapInv, PcapTypes, BuiltCycle
<1>2. PcapInv => EveryRecordUsed
  <2> SUFFICES ASSUME PcapInv, progress = "ready", NEW k \in DOMAIN capture,
                      \A i \in 1..k : Usable(i)
               PROVE  \E j \in DOMAIN buffers :
                         /\ buffers[j].from = k
                         /\ FitsBuffer(capture[k]) => buffers[j].bytes = k
    BY DEF EveryRecordUsed
  <2>1. /\ CountedSome /\ CountedWhole /\ BuiltCycle /\ elements >= eltCount
        /\ Len(buffers) = elements /\ eltCount \in Nat \ {0} /\ elements \in Nat
    BY DEF PcapInv, PcapTypes, CountedWhole
  <2>2. /\ DOMAIN capture = 1..Len(capture) /\ DOMAIN buffers = 1..Len(buffers)
        /\ Len(capture) \in Nat
    BY LenProperties DEF PcapInv, PcapTypes
  <2>3. k \in 1..eltCount
    <3>1. k \in Nat \ {0} /\ k <= Len(capture) BY <2>2
    <3> SUFFICES ASSUME k > eltCount PROVE FALSE BY <2>1, <3>1
    <3>2. eltCount + 1 \in 1..k BY <2>1, <3>1
    <3>3. Usable(eltCount + 1) BY <3>2
    <3>4. eltCount \in Nat /\ Len(capture) \in Nat BY <2>1, <2>2
    <3>5. eltCount < Len(capture) BY <3>1, <3>4
    <3> QED BY <2>1, <3>3, <3>4, <3>5 DEF CountedWhole
  <2>4. k \in DOMAIN buffers BY <2>1, <2>2, <2>3
  <2>5. (k - 1) % eltCount = k - 1
    BY <2>1, <2>3
  <2>6. /\ buffers[k].from = ((k - 1) % eltCount) + 1
        /\ FitsBuffer(capture[buffers[k].from]) => buffers[k].bytes = buffers[k].from
    BY <2>1, <2>2, <2>4 DEF BuiltCycle
  <2>7. buffers[k].from = k BY <2>1, <2>3, <2>5, <2>6
  <2> QED BY <2>4, <2>6, <2>7
<1>3. PcapInv => PoolIsCapture BY <1>1, <1>2 DEF PoolIsCapture
<1> QED BY <1>3, PcapInitInv, PcapStep, PTL DEF PcapSpec

-----------------------------------------------------------------------------
(* QueueStats: the queues by their digits.                                 *)

(* A queue by its subport, its pipe, its class and its place in the class. *)
QueueId(s, p, t, q) == Base(s, p) + t * QueuesPerTc + q
SubportRange == 0..(SubportsPerPort - 1)
PipeRange == 0..(PipesPerSubport - 1)
TcRange == 0..(TcsPerPipe - 1)
QueueRange == 0..(QueuesPerTc - 1)

LEMMA StatsConstants ==
    /\ SubportsPerPort \in Nat \ {0} /\ PipesPerSubport \in Nat \ {0}
    /\ TcsPerPipe \in Nat \ {0} /\ QueuesPerTc \in Nat \ {0} /\ Word \in Nat \ {0}
    /\ QueuesPerPipe \in Nat \ {0} /\ PipesPerSubport * QueuesPerPipe \in Nat \ {0}
    /\ PipesPerSubport * QueuesPerTc \in Nat \ {0}
<1>1. \A a, b \in Nat \ {0} : a * b \in Nat \ {0} OBVIOUS
<1>2. /\ SubportsPerPort \in Nat \ {0} /\ PipesPerSubport \in Nat \ {0}
      /\ TcsPerPipe \in Nat \ {0} /\ QueuesPerTc \in Nat \ {0} /\ Word \in Nat \ {0}
  BY StatsAssumption
<1> QED BY <1>1, <1>2 DEF QueuesPerPipe

(* The number of a queue, digit by digit. *)
LEMMA IdDigits ==
    ASSUME NEW s \in Nat, NEW p \in Nat, NEW t \in Nat, NEW q \in Nat
    PROVE  /\ QueueId(s, p, t, q) = ((s * PipesPerSubport + p) * TcsPerPipe + t) * QueuesPerTc + q
           /\ QueueId(s, p, t, q) = (s * PipesPerSubport + p) * QueuesPerPipe
                                       + (t * QueuesPerTc + q)
           /\ QueueId(s, p, t, q) = s * (PipesPerSubport * QueuesPerPipe)
                                       + (p * QueuesPerPipe + (t * QueuesPerTc + q))
<1>1. ASSUME NEW P \in Nat, NEW T \in Nat, NEW Q \in Nat
      PROVE  /\ (T * Q) * (s * P + p) + t * Q + q = ((s * P + p) * T + t) * Q + q
             /\ (T * Q) * (s * P + p) + t * Q + q = (s * P + p) * (T * Q) + (t * Q + q)
             /\ (T * Q) * (s * P + p) + t * Q + q = s * (P * (T * Q)) + (p * (T * Q) + (t * Q + q))
  BY <1>1
<1> QED BY <1>1, StatsConstants DEF QueueId, Base, QueuesPerPipe

LEMMA Encode ==
    ASSUME NEW s \in SubportRange, NEW p \in PipeRange, NEW t \in TcRange, NEW q \in QueueRange
    PROVE  /\ QueueId(s, p, t, q) \in QueueIds
           /\ Of(QueueId(s, p, t, q)) = [subport |-> s, pipe |-> p, tc |-> t, q |-> q]
<1> DEFINE id == QueueId(s, p, t, q)
           low == t * QueuesPerTc + q
           pipes == s * PipesPerSubport + p
<1>0. s \in Nat /\ p \in Nat /\ t \in Nat /\ q \in Nat
  BY StatsConstants DEF SubportRange, PipeRange, TcRange, QueueRange
<1>1. low \in 0..(QueuesPerPipe - 1)
  BY StatsConstants, DigitsBelow DEF TcRange, QueueRange, QueuesPerPipe
<1>2. pipes \in 0..(SubportsPerPort * PipesPerSubport - 1)
  BY StatsConstants, DigitsBelow DEF SubportRange, PipeRange
<1>3. pipes \in Nat /\ SubportsPerPort * PipesPerSubport \in Nat BY <1>0, StatsConstants
<1>4. p * QueuesPerPipe + low \in 0..(PipesPerSubport * QueuesPerPipe - 1)
  BY <1>1, StatsConstants, DigitsBelow DEF PipeRange
<1>5. /\ id = (pipes * TcsPerPipe + t) * QueuesPerTc + q
      /\ id = pipes * QueuesPerPipe + low
      /\ id = s * (PipesPerSubport * QueuesPerPipe) + (p * QueuesPerPipe + low)
  BY <1>0, IdDigits
<1> HIDE DEF id, low, pipes
<1>6. id \in QueueIds
  <2>1. pipes * QueuesPerPipe + low \in 0..((SubportsPerPort * PipesPerSubport) * QueuesPerPipe - 1)
    BY <1>1, <1>2, <1>3, StatsConstants, DigitsBelow
  <2> QED BY <1>5, <2>1 DEF QueueIds
<1>7. id \div (PipesPerSubport * QueuesPerPipe) = s
  BY <1>0, <1>4, <1>5, StatsConstants, TwoDigits
<1>8. (id \div QueuesPerPipe) % PipesPerSubport = p
  <2>1. id \div QueuesPerPipe = pipes BY <1>1, <1>3, <1>5, StatsConstants, TwoDigits
  <2>2. pipes % PipesPerSubport = p
    BY <1>0, StatsConstants, TwoDigits DEF pipes, PipeRange
  <2> QED BY <2>1, <2>2
<1>9. (id \div QueuesPerTc) % TcsPerPipe = t /\ id % QueuesPerTc = q
  <2> DEFINE high == pipes * TcsPerPipe + t
  <2>1. high \in Nat BY <1>0, <1>3, StatsConstants
  <2>2. high % TcsPerPipe = t BY <1>3, StatsConstants, TwoDigits DEF TcRange
  <2>3. id = high * QueuesPerTc + q BY <1>5
  <2> HIDE DEF high
  <2>4. id \div QueuesPerTc = high /\ id % QueuesPerTc = q
    BY <2>1, <2>3, StatsConstants, TwoDigits DEF QueueRange
  <2> QED BY <2>2, <2>4
<1> QED BY <1>6, <1>7, <1>8, <1>9 DEF Of, id

(* Every number of a queue has four digits.                                *)
LEMMA Decode ==
    ASSUME NEW id \in QueueIds
    PROVE  \E s \in SubportRange, p \in PipeRange, t \in TcRange, q \in QueueRange :
              id = QueueId(s, p, t, q)
<1> DEFINE pipes == id \div QueuesPerPipe
           low == id % QueuesPerPipe
<1>0. SubportsPerPort * PipesPerSubport \in Nat BY StatsConstants
<1>1. /\ pipes \in 0..(SubportsPerPort * PipesPerSubport - 1)
      /\ low \in 0..(QueuesPerPipe - 1) /\ id = pipes * QueuesPerPipe + low
  BY <1>0, StatsConstants, DigitsOf DEF QueueIds
<1> HIDE DEF pipes, low
<1> DEFINE s == pipes \div PipesPerSubport
           p == pipes % PipesPerSubport
           t == low \div QueuesPerTc
           q == low % QueuesPerTc
<1>2. s \in SubportRange /\ p \in PipeRange /\ pipes = s * PipesPerSubport + p
  BY <1>1, StatsConstants, DigitsOf DEF SubportRange, PipeRange
<1>3. t \in TcRange /\ q \in QueueRange /\ low = t * QueuesPerTc + q
  BY <1>1, StatsConstants, DigitsOf DEF TcRange, QueueRange, QueuesPerPipe
<1> HIDE DEF s, p, t, q
<1>4. s \in Nat /\ p \in Nat /\ t \in Nat /\ q \in Nat
  BY <1>2, <1>3, StatsConstants DEF SubportRange, PipeRange, TcRange, QueueRange
<1>5. id = QueueId(s, p, t, q) BY <1>1, <1>2, <1>3, <1>4, IdDigits
<1> QED BY <1>2, <1>3, <1>5

-----------------------------------------------------------------------------
(* The lines that are typed.                                               *)

(* The numbers of a line are the arguments of its command.                 *)
Typed(l, n) == DOMAIN l.nums = 1..n /\ \A i \in 1..n : l.nums[i] \in Nat

Reading == {<<"stats", "port", "subport">>, <<"stats", "port", "subport", "pipe">>,
            <<"qavg", "port", "subport", "pipe", "tc", "q">>,
            <<"qavg", "port", "subport", "pipe", "tc">>, <<"qavg", "port", "subport", "pipe">>,
            <<"qavg", "port", "subport", "tc">>, <<"qavg", "port", "subport">>}

LEMMA ReadsWords ==
    ASSUME NEW l, Reads(l) PROVE l.words \in Reading
BY DEF Reads, Known, cmd_help, cmd_quit, cmd_setqavg, cmd_appstats, cmd_subportstats,
       cmd_pipestats, cmd_avg_q, cmd_avg_tcpipe, cmd_avg_pipe, cmd_avg_tcsubport,
       cmd_avg_subport, Reading

LEMMA ReadsNumbers ==
    ASSUME NEW l \in Lines, l.words \in Reading
    PROVE  Typed(l, Len(l.words) - 1)
<1>1. l.nums \in Numbers(l.words) BY DEF Lines
<1>2. l.words[1] \notin {"help", "quit"} /\ l.words # <<"stats", "app">>
      /\ l.words \notin {<<"qavg", "n">>, <<"qavg", "period">>}
  BY DEF Reading
<1>3. l.nums \in [1..(Len(l.words) - 1) -> 0..MaxArg] BY <1>1, <1>2 DEF Numbers
<1>4. \A k \in 0..MaxArg : k \in Nat BY StatsAssumption
<1> QED BY <1>3, <1>4 DEF Typed

(* What the words of each command name, and how it is handled.             *)
LEMMA LineQ ==
    ASSUME NEW l \in Lines, l.words \in cmd_avg_q
    PROVE  /\ \A i \in 1..5 : l.nums[i] \in Nat
           /\ \A w : Named(l, w) \subseteq Nat
           /\ Named(l, "port") = {l.nums[1]} /\ Named(l, "subport") = {l.nums[2]}
           /\ Named(l, "pipe") = {l.nums[3]} /\ Named(l, "tc") = {l.nums[4]} /\ Named(l, "q") = {l.nums[5]}
           /\ Handler(l) = qavg_q(l.nums[1], l.nums[2], l.nums[3], l.nums[4], l.nums[5])
<1>0. l.words = <<"qavg", "port", "subport", "pipe", "tc", "q">> BY DEF cmd_avg_q
<1>1. l.words \in Reading /\ Len(l.words) - 1 = 5 BY <1>0 DEF Reading
<1>2. Typed(l, 5) BY <1>1, ReadsNumbers
<1>3. DOMAIN l.nums = {1, 2, 3, 4, 5} BY <1>2 DEF Typed
<1>4. /\ Named(l, "port") = {l.nums[1]} /\ Named(l, "subport") = {l.nums[2]}
      /\ Named(l, "pipe") = {l.nums[3]} /\ Named(l, "tc") = {l.nums[4]} /\ Named(l, "q") = {l.nums[5]}
  BY <1>0, <1>3 DEF Named
<1>5. Handler(l) = qavg_q(l.nums[1], l.nums[2], l.nums[3], l.nums[4], l.nums[5])
  BY <1>0 DEF Handler, cmd_subportstats, cmd_pipestats, cmd_avg_q, cmd_avg_tcpipe, cmd_avg_pipe,
         cmd_avg_tcsubport, cmd_avg_subport
<1>6. \A w : Named(l, w) \subseteq Nat BY <1>2 DEF Typed, Named
<1> QED BY <1>2, <1>4, <1>5, <1>6 DEF Typed

LEMMA LineTcPipe ==
    ASSUME NEW l \in Lines, l.words \in cmd_avg_tcpipe
    PROVE  /\ \A i \in 1..4 : l.nums[i] \in Nat
           /\ \A w : Named(l, w) \subseteq Nat
           /\ Named(l, "port") = {l.nums[1]} /\ Named(l, "subport") = {l.nums[2]}
           /\ Named(l, "pipe") = {l.nums[3]} /\ Named(l, "tc") = {l.nums[4]} /\ Named(l, "q") = {}
           /\ Handler(l) = qavg_tcpipe(l.nums[1], l.nums[2], l.nums[3], l.nums[4])
<1>0. l.words = <<"qavg", "port", "subport", "pipe", "tc">> BY DEF cmd_avg_tcpipe
<1>1. l.words \in Reading /\ Len(l.words) - 1 = 4 BY <1>0 DEF Reading
<1>2. Typed(l, 4) BY <1>1, ReadsNumbers
<1>3. DOMAIN l.nums = {1, 2, 3, 4} BY <1>2 DEF Typed
<1>4. /\ Named(l, "port") = {l.nums[1]} /\ Named(l, "subport") = {l.nums[2]}
      /\ Named(l, "pipe") = {l.nums[3]} /\ Named(l, "tc") = {l.nums[4]} /\ Named(l, "q") = {}
  BY <1>0, <1>3 DEF Named
<1>5. Handler(l) = qavg_tcpipe(l.nums[1], l.nums[2], l.nums[3], l.nums[4])
  BY <1>0 DEF Handler, cmd_subportstats, cmd_pipestats, cmd_avg_q, cmd_avg_tcpipe, cmd_avg_pipe,
         cmd_avg_tcsubport, cmd_avg_subport
<1>6. \A w : Named(l, w) \subseteq Nat BY <1>2 DEF Typed, Named
<1> QED BY <1>2, <1>4, <1>5, <1>6 DEF Typed

LEMMA LinePipe ==
    ASSUME NEW l \in Lines, l.words \in cmd_avg_pipe
    PROVE  /\ \A i \in 1..3 : l.nums[i] \in Nat
           /\ \A w : Named(l, w) \subseteq Nat
           /\ Named(l, "port") = {l.nums[1]} /\ Named(l, "subport") = {l.nums[2]}
           /\ Named(l, "pipe") = {l.nums[3]} /\ Named(l, "tc") = {} /\ Named(l, "q") = {}
           /\ Handler(l) = qavg_pipe(l.nums[1], l.nums[2], l.nums[3])
<1>0. l.words = <<"qavg", "port", "subport", "pipe">> BY DEF cmd_avg_pipe
<1>1. l.words \in Reading /\ Len(l.words) - 1 = 3 BY <1>0 DEF Reading
<1>2. Typed(l, 3) BY <1>1, ReadsNumbers
<1>3. DOMAIN l.nums = {1, 2, 3} BY <1>2 DEF Typed
<1>4. /\ Named(l, "port") = {l.nums[1]} /\ Named(l, "subport") = {l.nums[2]}
      /\ Named(l, "pipe") = {l.nums[3]} /\ Named(l, "tc") = {} /\ Named(l, "q") = {}
  BY <1>0, <1>3 DEF Named
<1>5. Handler(l) = qavg_pipe(l.nums[1], l.nums[2], l.nums[3])
  BY <1>0 DEF Handler, cmd_subportstats, cmd_pipestats, cmd_avg_q, cmd_avg_tcpipe, cmd_avg_pipe,
         cmd_avg_tcsubport, cmd_avg_subport
<1>6. \A w : Named(l, w) \subseteq Nat BY <1>2 DEF Typed, Named
<1> QED BY <1>2, <1>4, <1>5, <1>6 DEF Typed

LEMMA LineTcSubport ==
    ASSUME NEW l \in Lines, l.words \in cmd_avg_tcsubport
    PROVE  /\ \A i \in 1..3 : l.nums[i] \in Nat
           /\ \A w : Named(l, w) \subseteq Nat
           /\ Named(l, "port") = {l.nums[1]} /\ Named(l, "subport") = {l.nums[2]}
           /\ Named(l, "pipe") = {} /\ Named(l, "tc") = {l.nums[3]} /\ Named(l, "q") = {}
           /\ Handler(l) = qavg_tcsubport(l.nums[1], l.nums[2], l.nums[3])
<1>0. l.words = <<"qavg", "port", "subport", "tc">> BY DEF cmd_avg_tcsubport
<1>1. l.words \in Reading /\ Len(l.words) - 1 = 3 BY <1>0 DEF Reading
<1>2. Typed(l, 3) BY <1>1, ReadsNumbers
<1>3. DOMAIN l.nums = {1, 2, 3} BY <1>2 DEF Typed
<1>4. /\ Named(l, "port") = {l.nums[1]} /\ Named(l, "subport") = {l.nums[2]}
      /\ Named(l, "pipe") = {} /\ Named(l, "tc") = {l.nums[3]} /\ Named(l, "q") = {}
  BY <1>0, <1>3 DEF Named
<1>5. Handler(l) = qavg_tcsubport(l.nums[1], l.nums[2], l.nums[3])
  BY <1>0 DEF Handler, cmd_subportstats, cmd_pipestats, cmd_avg_q, cmd_avg_tcpipe, cmd_avg_pipe,
         cmd_avg_tcsubport, cmd_avg_subport
<1>6. \A w : Named(l, w) \subseteq Nat BY <1>2 DEF Typed, Named
<1> QED BY <1>2, <1>4, <1>5, <1>6 DEF Typed

LEMMA LineSubport ==
    ASSUME NEW l \in Lines, l.words \in cmd_avg_subport
    PROVE  /\ \A i \in 1..2 : l.nums[i] \in Nat
           /\ \A w : Named(l, w) \subseteq Nat
           /\ Named(l, "port") = {l.nums[1]} /\ Named(l, "subport") = {l.nums[2]}
           /\ Named(l, "pipe") = {} /\ Named(l, "tc") = {} /\ Named(l, "q") = {}
           /\ Handler(l) = qavg_subport(l.nums[1], l.nums[2])
<1>0. l.words = <<"qavg", "port", "subport">> BY DEF cmd_avg_subport
<1>1. l.words \in Reading /\ Len(l.words) - 1 = 2 BY <1>0 DEF Reading
<1>2. Typed(l, 2) BY <1>1, ReadsNumbers
<1>3. DOMAIN l.nums = {1, 2} BY <1>2 DEF Typed
<1>4. /\ Named(l, "port") = {l.nums[1]} /\ Named(l, "subport") = {l.nums[2]}
      /\ Named(l, "pipe") = {} /\ Named(l, "tc") = {} /\ Named(l, "q") = {}
  BY <1>0, <1>3 DEF Named
<1>5. Handler(l) = qavg_subport(l.nums[1], l.nums[2])
  BY <1>0 DEF Handler, cmd_subportstats, cmd_pipestats, cmd_avg_q, cmd_avg_tcpipe, cmd_avg_pipe,
         cmd_avg_tcsubport, cmd_avg_subport
<1>6. \A w : Named(l, w) \subseteq Nat BY <1>2 DEF Typed, Named
<1> QED BY <1>2, <1>4, <1>5, <1>6 DEF Typed

LEMMA LineSubportStat ==
    ASSUME NEW l \in Lines, l.words \in cmd_subportstats
    PROVE  /\ \A i \in 1..2 : l.nums[i] \in Nat
           /\ \A w : Named(l, w) \subseteq Nat
           /\ Named(l, "port") = {l.nums[1]} /\ Named(l, "subport") = {l.nums[2]}
           /\ Named(l, "pipe") = {} /\ Named(l, "tc") = {} /\ Named(l, "q") = {}
           /\ Handler(l) = subport_stat(l.nums[1], l.nums[2])
<1>0. l.words = <<"stats", "port", "subport">> BY DEF cmd_subportstats
<1>1. l.words \in Reading /\ Len(l.words) - 1 = 2 BY <1>0 DEF Reading
<1>2. Typed(l, 2) BY <1>1, ReadsNumbers
<1>3. DOMAIN l.nums = {1, 2} BY <1>2 DEF Typed
<1>4. /\ Named(l, "port") = {l.nums[1]} /\ Named(l, "subport") = {l.nums[2]}
      /\ Named(l, "pipe") = {} /\ Named(l, "tc") = {} /\ Named(l, "q") = {}
  BY <1>0, <1>3 DEF Named
<1>5. Handler(l) = subport_stat(l.nums[1], l.nums[2])
  BY <1>0 DEF Handler, cmd_subportstats, cmd_pipestats, cmd_avg_q, cmd_avg_tcpipe, cmd_avg_pipe,
         cmd_avg_tcsubport, cmd_avg_subport
<1>6. \A w : Named(l, w) \subseteq Nat BY <1>2 DEF Typed, Named
<1> QED BY <1>2, <1>4, <1>5, <1>6 DEF Typed

LEMMA LinePipeStat ==
    ASSUME NEW l \in Lines, l.words \in cmd_pipestats
    PROVE  /\ \A i \in 1..3 : l.nums[i] \in Nat
           /\ \A w : Named(l, w) \subseteq Nat
           /\ Named(l, "port") = {l.nums[1]} /\ Named(l, "subport") = {l.nums[2]}
           /\ Named(l, "pipe") = {l.nums[3]} /\ Named(l, "tc") = {} /\ Named(l, "q") = {}
           /\ Handler(l) = pipe_stat(l.nums[1], l.nums[2], l.nums[3])
<1>0. l.words = <<"stats", "port", "subport", "pipe">> BY DEF cmd_pipestats
<1>1. l.words \in Reading /\ Len(l.words) - 1 = 3 BY <1>0 DEF Reading
<1>2. Typed(l, 3) BY <1>1, ReadsNumbers
<1>3. DOMAIN l.nums = {1, 2, 3} BY <1>2 DEF Typed
<1>4. /\ Named(l, "port") = {l.nums[1]} /\ Named(l, "subport") = {l.nums[2]}
      /\ Named(l, "pipe") = {l.nums[3]} /\ Named(l, "tc") = {} /\ Named(l, "q") = {}
  BY <1>0, <1>3 DEF Named
<1>5. Handler(l) = pipe_stat(l.nums[1], l.nums[2], l.nums[3])
  BY <1>0 DEF Handler, cmd_subportstats, cmd_pipestats, cmd_avg_q, cmd_avg_tcpipe, cmd_avg_pipe,
         cmd_avg_tcsubport, cmd_avg_subport
<1>6. \A w : Named(l, w) \subseteq Nat BY <1>2 DEF Typed, Named
<1> QED BY <1>2, <1>4, <1>5, <1>6 DEF Typed

-----------------------------------------------------------------------------
(* The queues that a line names.                                           *)

(* A digit that a line lets through, and whether there is one below n.     *)
Lets(l, w, x) == Named(l, w) = {} \/ x \in Named(l, w)
LetsBelow(l, w, n) == Named(l, w) = {} \/ \E x \in Named(l, w) : x < n

LEMMA InScope ==
    ASSUME NEW l,
           NEW s \in SubportRange, NEW p \in PipeRange, NEW t \in TcRange, NEW q \in QueueRange
    PROVE  QueueId(s, p, t, q) \in Scope(l) <=>
              /\ Lets(l, "subport", s) /\ Lets(l, "pipe", p)
              /\ Lets(l, "tc", t) /\ Lets(l, "q", q)
<1> DEFINE d == Of(QueueId(s, p, t, q))
<1>1. d["subport"] = s /\ d["pipe"] = p /\ d["tc"] = t /\ d["q"] = q BY Encode
<1>2. QueueId(s, p, t, q) \in QueueIds BY Encode
<1> QED BY <1>1, <1>2 DEF Scope, Lets

LEMMA FromScope ==
    ASSUME NEW l, NEW id \in Scope(l)
    PROVE  \E s \in SubportRange, p \in PipeRange, t \in TcRange, q \in QueueRange :
              /\ id = QueueId(s, p, t, q)
              /\ Lets(l, "subport", s) /\ Lets(l, "pipe", p)
              /\ Lets(l, "tc", t) /\ Lets(l, "q", q)
<1>1. id \in QueueIds BY DEF Scope
<1>2. PICK s \in SubportRange, p \in PipeRange, t \in TcRange, q \in QueueRange :
              id = QueueId(s, p, t, q)
  BY <1>1, Decode
<1> QED BY <1>2, InScope

(* A line names some queue if each digit it gives is one that exists.      *)
LEMMA ScopeNonEmpty ==
    ASSUME NEW l, \A w : Named(l, w) \subseteq Nat
    PROVE  Scope(l) # {} <=>
              /\ LetsBelow(l, "subport", SubportsPerPort) /\ LetsBelow(l, "pipe", PipesPerSubport)
              /\ LetsBelow(l, "tc", TcsPerPipe) /\ LetsBelow(l, "q", QueuesPerTc)
<1>1. ASSUME NEW w, NEW n \in Nat \ {0}
      PROVE  LetsBelow(l, w, n) <=> \E x \in 0..(n - 1) : Lets(l, w, x)
  <2>1. CASE Named(l, w) = {}
    <3>1. 0 \in 0..(n - 1) BY <1>1
    <3> QED BY <2>1, <3>1 DEF LetsBelow, Lets
  <2>2. CASE Named(l, w) # {}
    <3>1. \A x \in Named(l, w) : x < n <=> x \in 0..(n - 1) BY <1>1
    <3> QED BY <2>2, <3>1 DEF LetsBelow, Lets
  <2> QED BY <2>1, <2>2
<1>2. Scope(l) # {} <=> \E s \in SubportRange, p \in PipeRange, t \in TcRange, q \in QueueRange :
              /\ Lets(l, "subport", s) /\ Lets(l, "pipe", p)
              /\ Lets(l, "tc", t) /\ Lets(l, "q", q)
  BY InScope, FromScope
<1> QED BY <1>1, <1>2, StatsConstants DEF SubportRange, PipeRange, TcRange, QueueRange

(* A sequence without repetition that has every element of a set.          *)
Enumerates(ids, S) ==
    /\ Len(ids) \in Nat \ {0} /\ DOMAIN ids = 1..Len(ids)
    /\ {ids[i] : i \in DOMAIN ids} = S /\ IsFiniteSet(S) /\ Len(ids) = Cardinality(S)
    /\ \A i, j \in 1..Len(ids) : ids[i] = ids[j] => i = j

LEMMA Enumerated ==
    ASSUME NEW S, NEW N \in Nat \ {0}, NEW ids, ids \in [1..N -> S],
           \A id \in S : \E i \in 1..N : ids[i] = id,
           \A i, j \in 1..N : ids[i] = ids[j] => i = j
    PROVE  Enumerates(ids, S)
<1>1. DOMAIN ids = 1..N /\ ids \in Seq(S) BY SeqDef
<1>2. Len(ids) = N BY <1>1, LenProperties
<1>3. {ids[i] : i \in DOMAIN ids} = S BY <1>1
<1>4. IsFiniteSet(1..N) /\ Cardinality(1..N) = N BY FS_Interval
<1>5. ids \in Bijection(1..N, S)
  BY DEF Bijection, Injection, Surjection, IsInjective
<1>6. IsFiniteSet(S) /\ Cardinality(S) = N
  BY <1>4, <1>5, FS_Bijection DEF ExistsBijection
<1> QED BY <1>1, <1>2, <1>3, <1>6 DEF Enumerates

(* What a line that reads queues is answered with.                         *)
Answers(l, j) ==
    /\ j.ok <=> /\ Named(l, "port") \cap {TxPorts[f] : f \in DOMAIN TxPorts} # {}
                /\ Scope(l) # {}
    /\ j.ok => j.ids = <<>> \/ Enumerates(j.ids, Scope(l))
    /\ \A f \in j.flow : TxPorts[f] \in Named(l, "port")
    /\ j.averages => j.ids # <<>> /\ j.divisor = Len(j.ids)

LEMMA CallAnswers ==
    ASSUME NEW l, NEW ok \in BOOLEAN, NEW port, Named(l, "port") = {port},
           ok <=> Scope(l) # {}, NEW ids, NEW divisor, NEW averages \in BOOLEAN,
           ok => ids = <<>> \/ Enumerates(ids, Scope(l)),
           averages => ids # <<>> /\ divisor = Len(ids)
    PROVE  Answers(l, Call(ok, port, ids, divisor, averages))
BY DEF Answers, Call, Flow

(* The list of the queues that N numbers give, if they are those of the    *)
(* scope, each once.                                                       *)
LEMMA ListOf ==
    ASSUME NEW N \in Nat \ {0}, NEW ids, DOMAIN ids = 1..N, ids = [i \in 1..N |-> ids[i]]
    PROVE  Len(ids) = N /\ ids # <<>>
<1>1. ids \in Seq({ids[i] : i \in 1..N}) BY SeqDef
<1> QED BY <1>1, LenProperties, EmptySeq

(* Command by command: the answer to a line is what its words name.        *)
LEMMA AnswersQ ==
    ASSUME NEW l \in Lines, l.words \in cmd_avg_q
    PROVE  Answers(l, Handler(l))
<1> DEFINE a == l.nums[1]  s == l.nums[2]  p == l.nums[3]  t == l.nums[4]  q == l.nums[5]
           id == QueueId(s, p, t, q)
           ids == <<id>>
           ok == s < SubportsPerPort /\ p < PipesPerSubport /\ t < TcsPerPipe /\ q < QueuesPerTc
<1>1. /\ a \in Nat /\ s \in Nat /\ p \in Nat /\ t \in Nat /\ q \in Nat
      /\ \A w : Named(l, w) \subseteq Nat
      /\ Named(l, "port") = {a} /\ Named(l, "subport") = {s} /\ Named(l, "pipe") = {p}
      /\ Named(l, "tc") = {t} /\ Named(l, "q") = {q}
      /\ Handler(l) = Call(ok, a, ids, 1, TRUE)
  BY LineQ DEF qavg_q, Below, QueueId
<1> HIDE DEF a, s, p, t, q
<1>2. ok <=> Scope(l) # {} BY <1>1, ScopeNonEmpty DEF LetsBelow
<1>3. ASSUME ok PROVE Enumerates(ids, Scope(l))
  <2>1. s \in SubportRange /\ p \in PipeRange /\ t \in TcRange /\ q \in QueueRange
    BY <1>1, <1>3, StatsConstants DEF SubportRange, PipeRange, TcRange, QueueRange
  <2>2. id \in Scope(l) BY <1>1, <2>1, InScope DEF Lets
  <2>3. \A x \in Scope(l) : x = id BY <1>1, FromScope DEF Lets
  <2> HIDE DEF id
  <2>4. ids \in [1..1 -> Scope(l)] /\ ids[1] = id /\ 1..1 = {1} BY <2>2
  <2> HIDE DEF ids
  <2>5. \A x \in Scope(l) : \E i \in 1..1 : ids[i] = x BY <2>3, <2>4
  <2>6. \A i, j \in 1..1 : ids[i] = ids[j] => i = j BY <2>4
  <2>7. 1 \in Nat \ {0} OBVIOUS
  <2> QED BY <2>4, <2>5, <2>6, <2>7, Enumerated
<1>4. ids # <<>> /\ Len(ids) = 1 /\ ok \in BOOLEAN /\ TRUE \in BOOLEAN OBVIOUS
<1>5. Named(l, "port") = {a} BY <1>1
<1> HIDE DEF ids, ok
<1>6. Answers(l, Call(ok, a, ids, 1, TRUE)) BY <1>2, <1>3, <1>4, <1>5, CallAnswers
<1> QED BY <1>1, <1>6

LEMMA AnswersTcPipe ==
    ASSUME NEW l \in Lines, l.words \in cmd_avg_tcpipe
    PROVE  Answers(l, Handler(l))
<1> DEFINE a == l.nums[1]  s == l.nums[2]  p == l.nums[3]  t == l.nums[4]
           ids == [i \in 1..QueuesPerTc |-> Base(s, p) + t * QueuesPerTc + i - 1]
           ok == s < SubportsPerPort /\ p < PipesPerSubport /\ t < TcsPerPipe
<1>1. /\ a \in Nat /\ s \in Nat /\ p \in Nat /\ t \in Nat
      /\ \A w : Named(l, w) \subseteq Nat
      /\ Named(l, "port") = {a} /\ Named(l, "subport") = {s} /\ Named(l, "pipe") = {p}
      /\ Named(l, "tc") = {t} /\ Named(l, "q") = {}
      /\ Handler(l) = Call(ok, a, ids, QueuesPerTc, TRUE)
  BY LineTcPipe DEF qavg_tcpipe, Below
<1> HIDE DEF a, s, p, t
<1>2. ok <=> Scope(l) # {} BY <1>1, ScopeNonEmpty DEF LetsBelow
<1>3. /\ DOMAIN ids = 1..QueuesPerTc
      /\ \A i \in 1..QueuesPerTc : ids[i] = QueueId(s, p, t, i - 1)
  <2>1. Base(s, p) + t * QueuesPerTc \in Nat BY <1>1, StatsConstants DEF Base
  <2> QED BY <2>1, StatsConstants DEF QueueId
<1>4. Len(ids) = QueuesPerTc /\ ids # <<>> BY StatsConstants, ListOf
<1> HIDE DEF ids
<1>5. ASSUME ok PROVE Enumerates(ids, Scope(l))
  <2>1. s \in SubportRange /\ p \in PipeRange /\ t \in TcRange
    BY <1>1, <1>5, StatsConstants DEF SubportRange, PipeRange, TcRange
  <2>2. \A i \in 1..QueuesPerTc : i - 1 \in QueueRange BY StatsConstants DEF QueueRange
  <2>3. \A i \in 1..QueuesPerTc : ids[i] \in Scope(l)
    BY <1>1, <1>3, <2>1, <2>2, InScope DEF Lets
  <2>4. \A id \in Scope(l) : \E i \in 1..QueuesPerTc : ids[i] = id
    <3> TAKE id \in Scope(l)
    <3>1. PICK q \in QueueRange : id = QueueId(s, p, t, q) BY <1>1, FromScope DEF Lets
    <3>2. q + 1 \in 1..QueuesPerTc /\ (q + 1) - 1 = q BY StatsConstants DEF QueueRange
    <3> QED BY <1>3, <3>1, <3>2
  <2>5. \A i, j \in 1..QueuesPerTc : ids[i] = ids[j] => i = j
    <3> SUFFICES ASSUME NEW i \in 1..QueuesPerTc, NEW j \in 1..QueuesPerTc, ids[i] = ids[j]
                 PROVE  i = j
      OBVIOUS
    <3>1. i - 1 = j - 1 BY <1>3, <2>1, <2>2, Encode
    <3> QED BY <3>1
  <2>6. ids \in [1..QueuesPerTc -> Scope(l)] BY <1>3, <2>3 DEF ids
  <2>7. QueuesPerTc \in Nat \ {0} BY StatsConstants
  <2> QED BY <2>4, <2>5, <2>6, <2>7, Enumerated
<1>6. ok \in BOOLEAN /\ TRUE \in BOOLEAN OBVIOUS
<1>7. Named(l, "port") = {a} BY <1>1
<1> HIDE DEF ok
<1>8. Answers(l, Call(ok, a, ids, QueuesPerTc, TRUE)) BY <1>2, <1>4, <1>5, <1>6, <1>7, CallAnswers
<1> QED BY <1>1, <1>8

(* The queues of a pipe follow each other.                                 *)
LEMMA PipeQueues ==
    ASSUME NEW l, NEW s \in Nat, NEW p \in Nat,
           Named(l, "subport") = {s}, Named(l, "pipe") = {p},
           Named(l, "tc") = {}, Named(l, "q") = {},
           s < SubportsPerPort, p < PipesPerSubport
    PROVE  Enumerates([i \in 1..QueuesPerPipe |-> Base(s, p) + i - 1], Scope(l))
<1> DEFINE ids == [i \in 1..QueuesPerPipe |-> Base(s, p) + i - 1]
<1>1. s \in SubportRange /\ p \in PipeRange
  BY StatsConstants DEF SubportRange, PipeRange
<1>2. DOMAIN ids = 1..QueuesPerPipe OBVIOUS
<1>3. Base(s, p) \in Nat BY StatsConstants DEF Base
<1>4. \A i \in 1..QueuesPerPipe : ids[i] = Base(s, p) + (i - 1) BY <1>3, StatsConstants
<1>5. ids \in [1..QueuesPerPipe -> {ids[i] : i \in 1..QueuesPerPipe}] OBVIOUS
<1> HIDE DEF ids
<1>6. ASSUME NEW i \in 1..QueuesPerPipe PROVE ids[i] \in Scope(l)
  <2> DEFINE t == (i - 1) \div QueuesPerTc  q == (i - 1) % QueuesPerTc
  <2>1. i - 1 \in 0..(TcsPerPipe * QueuesPerTc - 1) BY StatsConstants DEF QueuesPerPipe
  <2>2. t \in TcRange /\ q \in QueueRange /\ i - 1 = t * QueuesPerTc + q
    BY <2>1, StatsConstants, DigitsOf DEF TcRange, QueueRange
  <2> HIDE DEF t, q
  <2>3. ids[i] = QueueId(s, p, t, q)
    <3>1. t * QueuesPerTc \in Nat /\ q \in Nat
      BY <2>2, StatsConstants DEF TcRange, QueueRange
    <3> QED BY <1>3, <1>4, <2>2, <3>1 DEF QueueId
  <2> QED BY <1>1, <2>2, <2>3, InScope DEF Lets
<1>7. \A id \in Scope(l) : \E i \in 1..QueuesPerPipe : ids[i] = id
  <2> TAKE id \in Scope(l)
  <2>1. PICK t \in TcRange, q \in QueueRange : id = QueueId(s, p, t, q) BY FromScope DEF Lets
  <2> DEFINE i == t * QueuesPerTc + q
  <2>2. i \in 0..(QueuesPerPipe - 1)
    BY StatsConstants, DigitsBelow DEF TcRange, QueueRange, QueuesPerPipe
  <2>3. id = Base(s, p) + i
    <3>1. t * QueuesPerTc \in Nat /\ q \in Nat BY StatsConstants DEF TcRange, QueueRange
    <3> QED BY <1>3, <2>1, <3>1 DEF QueueId
  <2> HIDE DEF i
  <2>4. i + 1 \in 1..QueuesPerPipe /\ (i + 1) - 1 = i BY <2>2, StatsConstants
  <2> QED BY <1>4, <2>3, <2>4
<1>8. \A i, j \in 1..QueuesPerPipe : ids[i] = ids[j] => i = j
  BY <1>3, <1>4, StatsConstants
<1>9. QueuesPerPipe \in Nat \ {0} BY StatsConstants
<1>10. ids \in [1..QueuesPerPipe -> Scope(l)] BY <1>2, <1>5, <1>6
<1>11. Enumerates(ids, Scope(l)) BY <1>7, <1>8, <1>9, <1>10, Enumerated
<1> QED BY <1>11 DEF ids

LEMMA AnswersPipe ==
    ASSUME NEW l \in Lines, l.words \in cmd_avg_pipe
    PROVE  Answers(l, Handler(l))
<1> DEFINE a == l.nums[1]  s == l.nums[2]  p == l.nums[3]
           ids == [i \in 1..QueuesPerPipe |-> Base(s, p) + i - 1]
           ok == s < SubportsPerPort /\ p < PipesPerSubport
<1>1. /\ a \in Nat /\ s \in Nat /\ p \in Nat
      /\ \A w : Named(l, w) \subseteq Nat
      /\ Named(l, "port") = {a} /\ Named(l, "subport") = {s} /\ Named(l, "pipe") = {p}
      /\ Named(l, "tc") = {} /\ Named(l, "q") = {}
      /\ Handler(l) = Call(ok, a, ids, QueuesPerPipe, TRUE)
  BY LinePipe DEF qavg_pipe, Below
<1> HIDE DEF a, s, p
<1>2. ok <=> Scope(l) # {} BY <1>1, ScopeNonEmpty DEF LetsBelow
<1>3. Len(ids) = QueuesPerPipe /\ ids # <<>> BY StatsConstants, ListOf
<1>4. ASSUME ok PROVE Enumerates(ids, Scope(l)) BY <1>1, <1>4, PipeQueues
<1>5. ok \in BOOLEAN /\ TRUE \in BOOLEAN OBVIOUS
<1>6. Named(l, "port") = {a} BY <1>1
<1> HIDE DEF ids, ok
<1>7. Answers(l, Call(ok, a, ids, QueuesPerPipe, TRUE))
  BY <1>2, <1>3, <1>4, <1>5, <1>6, CallAnswers
<1> QED BY <1>1, <1>7

LEMMA AnswersPipeStat ==
    ASSUME NEW l \in Lines, l.words \in cmd_pipestats
    PROVE  Answers(l, Handler(l))
<1> DEFINE a == l.nums[1]  s == l.nums[2]  p == l.nums[3]
           ids == [n \in 1..QueuesPerPipe |->
                      Base(s, p) + ((n - 1) \div QueuesPerTc) * QueuesPerTc
                         + ((n - 1) % QueuesPerTc)]
           ok == s < SubportsPerPort /\ p < PipesPerSubport
<1>1. /\ a \in Nat /\ s \in Nat /\ p \in Nat
      /\ \A w : Named(l, w) \subseteq Nat
      /\ Named(l, "port") = {a} /\ Named(l, "subport") = {s} /\ Named(l, "pipe") = {p}
      /\ Named(l, "tc") = {} /\ Named(l, "q") = {}
      /\ Handler(l) = Call(ok, a, ids, 1, FALSE)
  BY LinePipeStat DEF pipe_stat, Below
<1> HIDE DEF a, s, p
<1>2. ok <=> Scope(l) # {} BY <1>1, ScopeNonEmpty DEF LetsBelow
<1>3. ids = [i \in 1..QueuesPerPipe |-> Base(s, p) + i - 1]
  <2>1. ASSUME NEW n \in 1..QueuesPerPipe
        PROVE  Base(s, p) + ((n - 1) \div QueuesPerTc) * QueuesPerTc
                  + ((n - 1) % QueuesPerTc) = Base(s, p) + n - 1
    <3> DEFINE d == ((n - 1) \div QueuesPerTc) * QueuesPerTc
               r == (n - 1) % QueuesPerTc
    <3>1. n - 1 \in Nat BY StatsConstants
    <3>2. n - 1 = d + r /\ d \in Nat /\ r \in Nat
      BY <3>1, StatsConstants, DivMod
    <3>3. Base(s, p) \in Nat
      <4>1. s \in Nat /\ p \in Nat BY <1>1
      <4> QED BY <4>1, StatsConstants DEF Base
    <3> HIDE DEF d, r
    <3>4. Base(s, p) + d + r = Base(s, p) + n - 1 BY <3>2, <3>3
    <3> QED BY <3>4 DEF d, r
  <2> QED BY <2>1
<1> HIDE DEF ids
<1>4. ASSUME ok PROVE Enumerates(ids, Scope(l)) BY <1>1, <1>3, <1>4, PipeQueues
<1>5. ok \in BOOLEAN /\ FALSE \in BOOLEAN OBVIOUS
<1>6. Named(l, "port") = {a} BY <1>1
<1> HIDE DEF ok
<1>7. Answers(l, Call(ok, a, ids, 1, FALSE))
  BY <1>2, <1>4, <1>5, <1>6, CallAnswers
<1> QED BY <1>1, <1>7

LEMMA AnswersSubportStat ==
    ASSUME NEW l \in Lines, l.words \in cmd_subportstats
    PROVE  Answers(l, Handler(l))
<1> DEFINE a == l.nums[1]  s == l.nums[2]
           ids == <<>>
           ok == s < SubportsPerPort
<1>1. /\ a \in Nat /\ s \in Nat
      /\ \A w : Named(l, w) \subseteq Nat
      /\ Named(l, "port") = {a} /\ Named(l, "subport") = {s} /\ Named(l, "pipe") = {}
      /\ Named(l, "tc") = {} /\ Named(l, "q") = {}
      /\ Handler(l) = Call(ok, a, ids, 1, FALSE)
  BY LineSubportStat DEF subport_stat, Below
<1> HIDE DEF a, s
<1>2. ok <=> Scope(l) # {} BY <1>1, ScopeNonEmpty DEF LetsBelow
<1>3. ids = <<>> OBVIOUS
<1> HIDE DEF ids
<1>4. ok \in BOOLEAN /\ FALSE \in BOOLEAN OBVIOUS
<1>5. Named(l, "port") = {a} BY <1>1
<1> HIDE DEF ok
<1>6. Answers(l, Call(ok, a, ids, 1, FALSE))
  BY <1>2, <1>3, <1>4, <1>5, CallAnswers
<1> QED BY <1>1, <1>6

LEMMA AnswersTcSubport ==
    ASSUME NEW l \in Lines, l.words \in cmd_avg_tcsubport
    PROVE  Answers(l, Handler(l))
<1> DEFINE a == l.nums[1]  s == l.nums[2]  t == l.nums[3]
           N == PipesPerSubport * QueuesPerTc
           P(n) == (n - 1) \div QueuesPerTc
           Q(n) == (n - 1) % QueuesPerTc
           ids == [n \in 1..N |-> Base(s, P(n)) + t * QueuesPerTc + Q(n)]
           ok == s < SubportsPerPort /\ t < TcsPerPipe
<1>1. /\ a \in Nat /\ s \in Nat /\ t \in Nat
      /\ \A w : Named(l, w) \subseteq Nat
      /\ Named(l, "port") = {a} /\ Named(l, "subport") = {s} /\ Named(l, "pipe") = {}
      /\ Named(l, "tc") = {t} /\ Named(l, "q") = {}
      /\ Handler(l) = Call(ok, a, ids, N, TRUE)
  BY LineTcSubport DEF qavg_tcsubport, Below
<1> HIDE DEF a, s, t
<1>2. ok <=> Scope(l) # {} BY <1>1, ScopeNonEmpty DEF LetsBelow
<1>3. /\ DOMAIN ids = 1..N
      /\ \A n \in 1..N : ids[n] = QueueId(s, P(n), t, Q(n))
  BY DEF QueueId
<1>4. Len(ids) = N /\ ids # <<>> BY StatsConstants, ListOf
<1>5. \A n \in 1..N : P(n) \in PipeRange /\ Q(n) \in QueueRange /\ n - 1 = P(n) * QueuesPerTc + Q(n)
  <2> TAKE n \in 1..N
  <2>1. n - 1 \in 0..(PipesPerSubport * QueuesPerTc - 1) BY StatsConstants
  <2> QED BY <2>1, StatsConstants, DigitsOf DEF PipeRange, QueueRange
<1>6. ASSUME NEW p \in PipeRange, NEW q \in QueueRange
      PROVE  \E n \in 1..N : P(n) = p /\ Q(n) = q
  <2> DEFINE n == p * QueuesPerTc + q
  <2>1. n \in 0..(PipesPerSubport * QueuesPerTc - 1)
    BY StatsConstants, DigitsBelow DEF PipeRange, QueueRange
  <2>2. n \div QueuesPerTc = p /\ n % QueuesPerTc = q
    BY StatsConstants, TwoDigits DEF PipeRange, QueueRange
  <2> HIDE DEF n
  <2>3. n + 1 \in 1..N /\ (n + 1) - 1 = n BY <2>1, StatsConstants
  <2> QED BY <2>2, <2>3
<1>7. ids \in [1..N -> {ids[i] : i \in 1..N}] OBVIOUS
<1>8. N \in Nat \ {0} BY StatsConstants
<1> HIDE DEF ids, P, Q, N
<1>9. ASSUME ok PROVE Enumerates(ids, Scope(l))
  <2>1. s \in SubportRange /\ t \in TcRange
    BY <1>1, <1>9, StatsConstants DEF SubportRange, TcRange
  <2>2. \A n \in 1..N : ids[n] \in Scope(l)
    BY <1>1, <1>3, <1>5, <2>1, InScope DEF Lets
  <2>3. \A id \in Scope(l) : \E n \in 1..N : ids[n] = id
    <3> TAKE id \in Scope(l)
    <3>1. PICK p \in PipeRange, q \in QueueRange : id = QueueId(s, p, t, q)
      BY <1>1, FromScope DEF Lets
    <3> QED BY <1>3, <1>6, <3>1
  <2>4. \A i, j \in 1..N : ids[i] = ids[j] => i = j
    <3> SUFFICES ASSUME NEW i \in 1..N, NEW j \in 1..N, ids[i] = ids[j] PROVE i = j
      OBVIOUS
    <3>1. P(i) = P(j) /\ Q(i) = Q(j) BY <1>3, <1>5, <2>1, Encode
    <3>2. i - 1 = j - 1 BY <1>5, <3>1
    <3>3. i \in Nat /\ j \in Nat BY <1>8
    <3> QED BY <3>2, <3>3
  <2>5. ids \in [1..N -> Scope(l)] BY <1>3, <1>7, <2>2
  <2> QED BY <1>8, <2>3, <2>4, <2>5, Enumerated
<1>10. ok \in BOOLEAN /\ TRUE \in BOOLEAN OBVIOUS
<1>11. Named(l, "port") = {a} BY <1>1
<1> HIDE DEF ok
<1>12. Answers(l, Call(ok, a, ids, N, TRUE)) BY <1>2, <1>4, <1>9, <1>10, <1>11, CallAnswers
<1> QED BY <1>1, <1>12

LEMMA AnswersSubport ==
    ASSUME NEW l \in Lines, l.words \in cmd_avg_subport
    PROVE  Answers(l, Handler(l))
<1> DEFINE a == l.nums[1]  s == l.nums[2]
           N == PipesPerSubport * QueuesPerPipe
           P(n) == (n - 1) \div QueuesPerPipe
           R(n) == (n - 1) % QueuesPerPipe
           ids == [n \in 1..N |-> Base(s, P(n)) + R(n)]
           ok == s < SubportsPerPort
<1>1. /\ a \in Nat /\ s \in Nat
      /\ \A w : Named(l, w) \subseteq Nat
      /\ Named(l, "port") = {a} /\ Named(l, "subport") = {s} /\ Named(l, "pipe") = {}
      /\ Named(l, "tc") = {} /\ Named(l, "q") = {}
      /\ Handler(l) = Call(ok, a, ids, N, TRUE)
  BY LineSubport DEF qavg_subport, Below
<1> HIDE DEF a, s
<1>2. ok <=> Scope(l) # {} BY <1>1, ScopeNonEmpty DEF LetsBelow
<1>3. /\ DOMAIN ids = 1..N
      /\ \A n \in 1..N : ids[n] = Base(s, P(n)) + R(n)
  OBVIOUS
<1>4. Len(ids) = N /\ ids # <<>> BY StatsConstants, ListOf
<1>5. \A n \in 1..N : /\ P(n) \in PipeRange /\ R(n) \in 0..(QueuesPerPipe - 1)
                      /\ n - 1 = P(n) * QueuesPerPipe + R(n)
  <2> TAKE n \in 1..N
  <2>1. n - 1 \in 0..(PipesPerSubport * QueuesPerPipe - 1) BY StatsConstants
  <2> QED BY <2>1, StatsConstants, DigitsOf DEF PipeRange
<1>6. ASSUME NEW p \in PipeRange, NEW r \in 0..(QueuesPerPipe - 1)
      PROVE  \E n \in 1..N : P(n) = p /\ R(n) = r
  <2> DEFINE n == p * QueuesPerPipe + r
  <2>1. n \in 0..(PipesPerSubport * QueuesPerPipe - 1)
    BY StatsConstants, DigitsBelow DEF PipeRange
  <2>2. n \div QueuesPerPipe = p /\ n % QueuesPerPipe = r
    BY StatsConstants, TwoDigits DEF PipeRange
  <2> HIDE DEF n
  <2>3. n + 1 \in 1..N /\ (n + 1) - 1 = n BY <2>1, StatsConstants
  <2> QED BY <2>2, <2>3
<1>7. ids \in [1..N -> {ids[i] : i \in 1..N}] OBVIOUS
<1>8. N \in Nat \ {0} BY StatsConstants
<1> HIDE DEF ids, P, R, N
<1>9. \A p \in PipeRange, t \in TcRange, q \in QueueRange :
         QueueId(s, p, t, q) = Base(s, p) + (t * QueuesPerTc + q)
  <2> TAKE p \in PipeRange, t \in TcRange, q \in QueueRange
  <2>1. Base(s, p) \in Nat
    <3>1. s \in Nat /\ p \in Nat BY <1>1, StatsConstants DEF PipeRange
    <3> QED BY <3>1, StatsConstants DEF Base
  <2>2. t * QueuesPerTc \in Nat /\ q \in Nat BY StatsConstants DEF TcRange, QueueRange
  <2> QED BY <2>1, <2>2 DEF QueueId
<1>10. \A n \in 1..N : \E t \in TcRange, q \in QueueRange :
          R(n) = t * QueuesPerTc + q /\ ids[n] = QueueId(s, P(n), t, q)
  <2> TAKE n \in 1..N
  <2> DEFINE t == R(n) \div QueuesPerTc  q == R(n) % QueuesPerTc
  <2>1. t \in TcRange /\ q \in QueueRange /\ R(n) = t * QueuesPerTc + q
    BY <1>5, StatsConstants, DigitsOf DEF TcRange, QueueRange, QueuesPerPipe
  <2> HIDE DEF t, q
  <2> QED BY <1>3, <1>5, <1>9, <2>1
<1>11. ASSUME ok PROVE Enumerates(ids, Scope(l))
  <2>1. s \in SubportRange BY <1>1, <1>11, StatsConstants DEF SubportRange
  <2>2. \A n \in 1..N : ids[n] \in Scope(l)
    BY <1>1, <1>5, <1>10, <2>1, InScope DEF Lets
  <2>3. \A id \in Scope(l) : \E n \in 1..N : ids[n] = id
    <3> TAKE id \in Scope(l)
    <3>1. PICK p \in PipeRange, t \in TcRange, q \in QueueRange : id = QueueId(s, p, t, q)
      BY <1>1, FromScope DEF Lets
    <3>2. t * QueuesPerTc + q \in 0..(QueuesPerPipe - 1)
      BY StatsConstants, DigitsBelow DEF TcRange, QueueRange, QueuesPerPipe
    <3> QED BY <1>3, <1>6, <1>9, <3>1, <3>2
  <2>4. \A i, j \in 1..N : ids[i] = ids[j] => i = j
    <3> SUFFICES ASSUME NEW i \in 1..N, NEW j \in 1..N, ids[i] = ids[j] PROVE i = j
      OBVIOUS
    <3>1. P(i) = P(j) /\ R(i) = R(j) BY <1>5, <1>10, <2>1, Encode
    <3>2. i - 1 = j - 1 BY <1>5, <3>1
    <3>3. i \in Nat /\ j \in Nat BY <1>8
    <3> QED BY <3>2, <3>3
  <2>5. ids \in [1..N -> Scope(l)] BY <1>3, <1>7, <2>2
  <2> QED BY <1>8, <2>3, <2>4, <2>5, Enumerated
<1>12. ok \in BOOLEAN /\ TRUE \in BOOLEAN BY <1>2
<1>13. Named(l, "port") = {a} BY <1>1
<1> HIDE DEF ok
<1>14. Answers(l, Call(ok, a, ids, N, TRUE))
  BY <1>2, <1>4, <1>11, <1>12, <1>13, CallAnswers
<1> QED BY <1>1, <1>14

(* Every line that reads queues is answered with the queues it names.      *)
LEMMA LineAnswers ==
    ASSUME NEW l \in Lines, Reads(l)
    PROVE  Answers(l, Handler(l))
<1>1. l.words \in UNION {cmd_subportstats, cmd_pipestats, cmd_avg_q, cmd_avg_tcpipe,
                         cmd_avg_pipe, cmd_avg_tcsubport, cmd_avg_subport}
  BY DEF Reads, Known
<1> QED BY <1>1, AnswersSubportStat, AnswersPipeStat, AnswersQ, AnswersTcPipe, AnswersPipe,
           AnswersTcSubport, AnswersSubport

-----------------------------------------------------------------------------
(* Averages, which are rounded twice.                                      *)

(* The sum total of n lengths out of the set s: it lies between n times    *)
(* any lower and n times any upper bound of them.                          *)
Between(s, n, total) ==
    \A m \in Nat : /\ (\A x \in s : m <= x) => m * n <= total
                   /\ (\A x \in s : x <= m) => total <= m * n

(* One more length that was read.                                          *)
LEMMA BetweenMore ==
    ASSUME NEW s, s \subseteq Nat, NEW n \in Nat, NEW total \in Nat, Between(s, n, total),
           NEW x \in Nat
    PROVE  Between(s \cup {x}, n, total) /\ Between(s \cup {x}, n + 1, total + x)
<1>1. \A m \in Nat : m * n \in Nat /\ m * (n + 1) = m * n + m OBVIOUS
<1>2. Between(s \cup {x}, n, total) BY DEF Between
<1>3. Between(s \cup {x}, n + 1, total + x)
  <2> SUFFICES ASSUME NEW m \in Nat
               PROVE  /\ (\A y \in s \cup {x} : m <= y) => m * (n + 1) <= total + x
                      /\ (\A y \in s \cup {x} : y <= m) => total + x <= m * (n + 1)
    BY DEF Between
  <2> DEFINE c == m * n
  <2>1. c \in Nat /\ m * (n + 1) = c + m BY <1>1
  <2>2. (\A y \in s \cup {x} : m <= y) => c <= total /\ m <= x BY DEF Between
  <2>3. (\A y \in s \cup {x} : y <= m) => total <= c /\ x <= m BY DEF Between
  <2> HIDE DEF c
  <2> QED BY <2>1, <2>2, <2>3
<1> QED BY <1>2, <1>3

(* The average of a pass, added to those of the passes before.             *)
LEMMA BetweenPasses ==
    ASSUME NEW s, s \subseteq Nat, NEW c \in Nat, NEW sum \in Nat, Between(s, c, sum),
           NEW n \in Nat \ {0}, NEW total \in Nat, Between(s, n, total)
    PROVE  Between(s, c + 1, sum + (total \div n))
<1> DEFINE a == total \div n
<1>1. a \in Nat OBVIOUS
<1>2. \A m \in Nat : m * n <= total => m <= a BY QuotientAbove
<1>3. \A m \in Nat : total <= m * n => a <= m
  <2> TAKE m \in Nat
  <2>1. (m + 1) * n = m * n + n /\ m * n \in Nat /\ m + 1 \in Nat OBVIOUS
  <2>2. total <= m * n => total < (m + 1) * n BY <2>1
  <2>3. total < (m + 1) * n => a < m + 1 BY <2>1, QuotientBelow
  <2> HIDE DEF a
  <2> QED BY <1>1, <2>2, <2>3
<1> HIDE DEF a
<1> SUFFICES ASSUME NEW m \in Nat
             PROVE  /\ (\A y \in s : m <= y) => m * (c + 1) <= sum + a
                    /\ (\A y \in s : y <= m) => sum + a <= m * (c + 1)
  BY DEF Between, a
<1> DEFINE d == m * c
<1>4. d \in Nat /\ m * (c + 1) = d + m OBVIOUS
<1>5. (\A y \in s : m <= y) => d <= sum /\ m <= a BY <1>2 DEF Between
<1>6. (\A y \in s : y <= m) => sum <= d /\ a <= m BY <1>3 DEF Between
<1> HIDE DEF d
<1> QED BY <1>1, <1>4, <1>5, <1>6

(* A rounded average is not below, and not above, all of the lengths.      *)
LEMMA BetweenAverage ==
    ASSUME NEW s, s \subseteq Nat, NEW n \in Nat \ {0}, NEW total \in Nat, Between(s, n, total)
    PROVE  (\E x \in s : x <= total \div n) /\ (\E x \in s : total \div n <= x)
<1> DEFINE a == total \div n
<1>1. a \in Nat /\ a * n <= total /\ total < (a + 1) * n BY Quotient
<1>2. (a + 1) * n \in Nat /\ a * n \in Nat OBVIOUS
<1> HIDE DEF a
<1>3. \E x \in s : x <= a
  <2> SUFFICES ASSUME \A x \in s : ~(x <= a) PROVE FALSE OBVIOUS
  <2>1. \A x \in s : a + 1 <= x BY <1>1
  <2>2. \A m \in Nat : (\A x \in s : m <= x) => m * n <= total BY DEF Between
  <2>3. a + 1 \in Nat BY <1>1
  <2>4. (a + 1) * n <= total BY <2>1, <2>2, <2>3
  <2> QED BY <1>1, <1>2, <2>4
<1>4. \E x \in s : a <= x
  <2> SUFFICES ASSUME \A x \in s : ~(a <= x) PROVE FALSE OBVIOUS
  <2>1. PICK x \in s : x <= a BY <1>3
  <2>2. a - 1 \in Nat BY <1>1, <2>1
  <2>3. \A y \in s : y <= a - 1 BY <1>1
  <2>4. total <= (a - 1) * n BY <2>2, <2>3 DEF Between
  <2>5. (a - 1) * n = a * n - n BY <1>1
  <2> QED BY <1>1, <1>2, <2>4, <2>5
<1> QED BY <1>3, <1>4 DEF a

-----------------------------------------------------------------------------
StatsTypes ==
    /\ line \in Lines /\ ntimes \in Nat /\ count \in Nat /\ part \in Nat /\ average \in Nat
    /\ seen \subseteq 0..MaxLen

(* The answer to the line that was typed last.                             *)
LineDone ==
    /\ outcome = "unavailable" => Reads(line) /\ ~Handler(line).ok
    /\ at \in {"read", "average", "crash"} => Reads(line) /\ Handler(line).ok
    /\ at \in {"read", "average"} => job = Handler(line)

(* The queues of this pass are read in the order of the list.              *)
PassRuns ==
    /\ at \in {"read", "average"} =>
          /\ IsFiniteSet(visited) /\ Cardinality(visited) <= Len(job.ids)
          /\ visited = {job.ids[i] : i \in 1..Cardinality(visited)}
    /\ at = "read" /\ job.averages => count < ntimes
    /\ at = "average" => job.averages /\ count = ntimes /\ ntimes > 0

SumsFit == ntimes * MaxLen * Cardinality(QueueIds) < Word
SumsBetween ==
    at \in {"read", "average"} /\ job.averages /\ SumsFit =>
       Between(seen, count, average) /\ Between(seen, Cardinality(visited), part)

StatsInv == StatsTypes /\ LineDone /\ PassRuns /\ SumsBetween

LEMMA QueueCount ==
    /\ IsFiniteSet(QueueIds) /\ Cardinality(QueueIds) \in Nat \ {0}
    /\ \A l : IsFiniteSet(Scope(l)) /\ Cardinality(Scope(l)) \in Nat
              /\ Cardinality(Scope(l)) <= Cardinality(QueueIds)
<1> DEFINE n == SubportsPerPort * PipesPerSubport * QueuesPerPipe
<1>1. n \in Nat \ {0}
  <2>1. \A a, b \in Nat \ {0} : a * b \in Nat \ {0} OBVIOUS
  <2> QED BY <2>1, StatsConstants
<1>2. QueueIds = 0..(n - 1) BY DEF QueueIds
<1> HIDE DEF n
<1>3. IsFiniteSet(QueueIds) /\ Cardinality(QueueIds) = n
  BY <1>1, <1>2, FS_Interval
<1>4. \A l : Scope(l) \in SUBSET QueueIds BY DEF Scope
<1> QED BY <1>1, <1>3, <1>4, FS_Subset, FS_CardinalityType

(* If the sums fit, those of a pass and of the passes do. *)
LEMMA Fitting ==
    ASSUME ntimes \in Nat \ {0}, SumsFit
    PROVE  /\ \A k \in Nat : k <= Cardinality(QueueIds) => MaxLen * k < Word
           /\ \A c \in Nat : c <= ntimes => MaxLen * c < Word
<1> DEFINE C == Cardinality(QueueIds)
           all == ntimes * MaxLen * C
<1>1. C \in Nat \ {0} /\ MaxLen \in Nat /\ Word \in Nat
  BY QueueCount, StatsConstants, StatsAssumption
<1>2. all < Word BY DEF SumsFit
<1> HIDE DEF C
<1>3. ntimes * MaxLen \in Nat /\ MaxLen * C \in Nat /\ all \in Nat BY <1>1
<1>4. all = ntimes * (MaxLen * C) BY <1>1
<1>5. ASSUME NEW k \in Nat, k <= C PROVE MaxLen * k < Word
  <2>1. MaxLen * k \in Nat /\ MaxLen * k <= MaxLen * C BY <1>1, <1>5, TimesMonotone
  <2>2. 1 * (MaxLen * C) <= ntimes * (MaxLen * C) BY <1>3, TimesMonotone
  <2>3. 1 * (MaxLen * C) = MaxLen * C BY <1>3
  <2> HIDE DEF all
  <2> DEFINE x == MaxLen * k  y == MaxLen * C  z == ntimes * (MaxLen * C)
  <2>4. x \in Nat /\ y \in Nat /\ z \in Nat /\ x <= y /\ y <= z /\ z < Word
    BY <1>2, <1>3, <1>4, <2>1, <2>2, <2>3
  <2> HIDE DEF x, y, z
  <2>5. x < Word BY <1>1, <2>4
  <2> QED BY <2>5 DEF x
<1>6. ASSUME NEW c \in Nat, c <= ntimes PROVE MaxLen * c < Word
  <2>1. MaxLen * c \in Nat /\ MaxLen * c <= MaxLen * ntimes BY <1>1, <1>6, TimesMonotone
  <2>2. (ntimes * MaxLen) * 1 <= (ntimes * MaxLen) * C BY <1>1, <1>3, TimesMonotone
  <2>3. (ntimes * MaxLen) * 1 = MaxLen * ntimes BY <1>1
  <2> DEFINE x == MaxLen * c  y == MaxLen * ntimes  z == (ntimes * MaxLen) * C
  <2>4. x \in Nat /\ y \in Nat /\ z \in Nat /\ x <= y /\ y <= z /\ z < Word
    BY <1>1, <1>2, <1>3, <2>1, <2>2, <2>3
  <2> HIDE DEF x, y, z
  <2>5. x < Word BY <1>1, <2>4
  <2> QED BY <2>5 DEF x
<1> QED BY <1>5, <1>6 DEF C

(* The job of a line that reads queues: its list, if there is one, is of   *)
(* queues, without repetition, no more than there are.                     *)
JobLists(j) ==
    /\ Len(j.ids) \in Nat /\ Len(j.ids) <= Cardinality(QueueIds)
    /\ \A i, k \in 1..Len(j.ids) : j.ids[i] = j.ids[k] => i = k
    /\ j.averages => Len(j.ids) \in Nat \ {0} /\ j.divisor = Len(j.ids)

LEMMA HandlerLists ==
    ASSUME NEW l \in Lines, Reads(l), Handler(l).ok
    PROVE  JobLists(Handler(l))
<1> DEFINE j == Handler(l)
<1>1. Answers(l, j) BY LineAnswers
<1>2. j.ok OBVIOUS
<1> SUFFICES JobLists(j) OBVIOUS
<1> HIDE DEF j
<1>3. CASE j.ids = <<>>
  <2>1. Len(j.ids) = 0 BY <1>3
  <2>2. ~j.averages BY <1>1, <1>3 DEF Answers
  <2> QED BY <2>1, <2>2, QueueCount DEF JobLists
<1>4. CASE Enumerates(j.ids, Scope(l))
  <2>1. Len(j.ids) \in Nat \ {0} /\ Len(j.ids) <= Cardinality(QueueIds)
    BY <1>4, QueueCount DEF Enumerates
  <2>2. \A i, k \in 1..Len(j.ids) : j.ids[i] = j.ids[k] => i = k BY <1>4 DEF Enumerates
  <2>3. j.averages => j.divisor = Len(j.ids) BY <1>1 DEF Answers
  <2> QED BY <2>1, <2>2, <2>3 DEF JobLists
<1> QED BY <1>1, <1>2, <1>3, <1>4 DEF Answers

LEMMA BetweenNone == ASSUME NEW s PROVE Between(s, 0, 0)
BY DEF Between

LEMMA StatsInitInv == StatsInit => StatsInv
<1> SUFFICES ASSUME StatsInit PROVE StatsInv OBVIOUS
<1> USE DEF StatsInit
<1>1. line \in Lines
  <2>1. line \in [words : {<<"help">>}, nums : Numbers(<<"help">>)]
    BY DEF Numbers
  <2> QED BY <2>1 DEF Lines
<1>2. StatsTypes BY <1>1, StatsAssumption DEF StatsTypes
<1>3. LineDone /\ PassRuns /\ SumsBetween BY DEF LineDone, PassRuns, SumsBetween
<1> QED BY <1>2, <1>3 DEF StatsInv

(* After an answer there is nothing left of the call.                      *)
LEMMA AnsweredInv ==
    ASSUME NEW a, NEW o, Answered(a, o), a \in {"prompt", "quit"}, line' \in Lines, ntimes' \in Nat,
           o = "unavailable" => Reads(line') /\ ~Handler(line').ok
    PROVE  StatsInv'
<1> USE DEF Answered
<1>1. StatsTypes' BY DEF StatsTypes
<1>2. LineDone' BY DEF LineDone
<1>3. PassRuns' BY DEF PassRuns
<1>4. SumsBetween' BY DEF SumsBetween
<1> QED BY <1>1, <1>2, <1>3, <1>4 DEF StatsInv

LEMMA PeriodNumbers ==
    ASSUME NEW l \in Lines, l.words \in cmd_setqavg PROVE l.nums[1] \in Nat
<1>1. l.nums \in Numbers(l.words) BY DEF Lines
<1>2. l.words \in {<<"qavg", "n">>, <<"qavg", "period">>} BY DEF cmd_setqavg
<1>3. l.words[1] = "qavg" /\ l.words # <<"stats", "app">> BY <1>2
<1>4. Numbers(l.words) = {<<t>> : t \in Times} BY <1>2, <1>3 DEF Numbers
<1>5. PICK t \in Times : l.nums = <<t>> BY <1>1, <1>4
<1>6. l.nums[1] = t BY <1>5
<1> QED BY <1>6, StatsAssumption

LEMMA MeasureInv ==
    ASSUME NEW l \in Lines, Measure(l), line' = l, StatsInv
    PROVE  StatsInv'
<1> USE DEF Measure
<1>0. ntimes \in Nat BY DEF StatsInv, StatsTypes
<1>1. StatsTypes' BY <1>0 DEF StatsTypes
<1>2. LineDone' BY DEF LineDone
<1>3. visited' = {} /\ count' = 0 /\ job' = Handler(l) /\ ntimes' = ntimes
      /\ at' \in {"crash", "read"}
  OBVIOUS
<1>4. JobLists(Handler(l)) BY HandlerLists
<1>5. job'.averages /\ at' = "read" => ntimes # 0 OBVIOUS
<1>6. IsFiniteSet({}) /\ Cardinality({}) = 0 BY FS_EmptySet
<1>7. PassRuns'
  BY <1>0, <1>3, <1>4, <1>5, <1>6 DEF PassRuns, JobLists
<1>8. SumsBetween'
  <2>1. Between({}, 0, 0) BY BetweenNone
  <2>2. seen' = {} /\ average' = 0 /\ part' = 0 OBVIOUS
  <2> QED BY <1>3, <1>6, <2>1, <2>2 DEF SumsBetween
<1> QED BY <1>1, <1>2, <1>7, <1>8 DEF StatsInv

LEMMA TypeLineInv ==
    ASSUME StatsInv, NEW l \in Lines, TypeLine(l) PROVE StatsInv'
<1>0. line' = l /\ ntimes \in Nat BY DEF TypeLine, StatsInv, StatsTypes
<1>1. CASE Quit(l) BY <1>0, <1>1, AnsweredInv DEF Quit
<1>2. CASE SetQavg(l)
  <2>1. l.words \in cmd_setqavg /\ Answered("prompt", "done") BY <1>2 DEF SetQavg
  <2>2. l.nums[1] \in Nat BY <2>1, PeriodNumbers
  <2>3. ntimes' \in Nat BY <1>0, <1>2, <2>2 DEF SetQavg
  <2> QED BY <1>0, <2>1, <2>3, AnsweredInv
<1>3. CASE PrintOnly(l) BY <1>0, <1>3, AnsweredInv DEF PrintOnly
<1>4. CASE Unknown(l) BY <1>0, <1>4, AnsweredInv DEF Unknown
<1>5. CASE Refuse(l) BY <1>0, <1>5, AnsweredInv DEF Refuse
<1>6. CASE Measure(l) BY <1>0, <1>6, MeasureInv
<1> QED BY <1>1, <1>2, <1>3, <1>4, <1>5, <1>6 DEF TypeLine

(* The queues read so far in a pass, and the next one.                     *)
LEMMA ReadInv ==
    ASSUME StatsInv, ReadQueue PROVE StatsInv'
<1> DEFINE k == Cardinality(visited)
           here == job.ids[k + 1]
<1>1. /\ at = "read" /\ UNCHANGED <<at, line, outcome, ntimes, job, count, average>>
      /\ k < Len(job.ids) /\ visited' = visited \cup {here}
  BY DEF ReadQueue
<1>2. PICK qlen \in 0..MaxLen : part' = (part + qlen) % Word /\ seen' = seen \cup {qlen}
  BY DEF ReadQueue
<1>3. /\ line \in Lines /\ ntimes \in Nat /\ count \in Nat /\ part \in Nat /\ average \in Nat
      /\ seen \subseteq 0..MaxLen
  BY DEF StatsInv, StatsTypes
<1>4. Word \in Nat \ {0} /\ MaxLen \in Nat BY StatsConstants, StatsAssumption
<1>5. JobLists(job)
  <2>1. Reads(line) /\ Handler(line).ok /\ job = Handler(line)
    BY <1>1 DEF StatsInv, LineDone
  <2> QED BY <1>3, <2>1, HandlerLists
<1>6. IsFiniteSet(visited) /\ visited = {job.ids[i] : i \in 1..k}
  BY <1>1 DEF StatsInv, PassRuns
<1>7. k \in Nat BY <1>6, FS_CardinalityType
<1>8. here \notin visited
  <2>1. k + 1 \in 1..Len(job.ids) BY <1>1, <1>5, <1>7 DEF JobLists
  <2>2. \A i \in 1..k : i \in 1..Len(job.ids) /\ i # k + 1 BY <1>1, <1>5, <1>7 DEF JobLists
  <2>3. \A i \in 1..k : job.ids[i] # here BY <1>5, <2>1, <2>2 DEF JobLists
  <2> QED BY <1>6, <2>3
<1>9. IsFiniteSet(visited') /\ Cardinality(visited') = k + 1
  BY <1>1, <1>6, <1>8, FS_AddElement
<1>10. visited' = {job.ids[i] : i \in 1..(k + 1)}
  <2>1. 1..(k + 1) = (1..k) \cup {k + 1} BY <1>7
  <2> QED BY <1>1, <1>6, <2>1
<1> HIDE DEF k, here
<1>11. StatsTypes'
  <2>1. part' \in Nat BY <1>2, <1>3, <1>4
  <2> QED BY <1>1, <1>2, <1>3, <2>1 DEF StatsTypes
<1>12. LineDone' BY <1>1 DEF StatsInv, LineDone
<1>13. PassRuns'
  <2>1. k + 1 <= Len(job.ids) BY <1>1, <1>5, <1>7 DEF JobLists
  <2> QED BY <1>1, <1>9, <1>10, <2>1 DEF StatsInv, PassRuns
<1>14. SumsBetween'
  <2> SUFFICES ASSUME job.averages, SumsFit
               PROVE  Between(seen', count, average) /\ Between(seen', k + 1, part')
    BY <1>1, <1>9 DEF SumsBetween, SumsFit
  <2>1. Between(seen, count, average) /\ Between(seen, k, part)
    BY <1>1 DEF StatsInv, SumsBetween, k
  <2>2. ntimes \in Nat \ {0} BY <1>1, <1>3 DEF StatsInv, PassRuns
  <2>3. k + 1 \in Nat /\ k + 1 <= Cardinality(QueueIds)
    BY <1>1, <1>5, <1>7, QueueCount DEF JobLists
  <2>4. MaxLen * (k + 1) < Word BY <2>2, <2>3, Fitting
  <2>5. part <= MaxLen * k
    <3>1. \A m \in Nat : (\A x \in seen : x <= m) => part <= m * k BY <2>1 DEF Between
    <3>2. \A x \in seen : x <= MaxLen BY <1>3, <1>4
    <3> QED BY <1>4, <3>1, <3>2
  <2>6. MaxLen * (k + 1) = MaxLen * k + MaxLen /\ MaxLen * k \in Nat BY <1>4, <1>7
  <2>7. part + qlen < Word
    <3> DEFINE c == MaxLen * k
    <3>1. c \in Nat /\ part <= c /\ c + MaxLen < Word BY <2>4, <2>5, <2>6
    <3> HIDE DEF c
    <3> QED BY <1>2, <1>3, <1>4, <3>1
  <2>8. part' = part + qlen BY <1>2, <1>3, <1>4, <2>7
  <2>9. seen \subseteq Nat /\ qlen \in Nat BY <1>2, <1>3, <1>4
  <2>10. /\ Between(seen \cup {qlen}, count, average)
         /\ Between(seen \cup {qlen}, k + 1, part + qlen)
    BY <1>3, <1>7, <2>1, <2>9, BetweenMore
  <2> QED BY <1>2, <2>8, <2>10
<1> QED BY <1>11, <1>12, <1>13, <1>14 DEF StatsInv

(* A pass is over: its average is added to those before it.                *)
LEMMA EndPassInv ==
    ASSUME StatsInv, EndPass PROVE StatsInv'
<1> DEFINE k == Cardinality(visited)
<1>1. /\ at = "read" /\ job.averages /\ k = Len(job.ids)
      /\ average' = (average + (part \div job.divisor)) % Word /\ count' = count + 1
      /\ at' = (IF count' = ntimes THEN "average" ELSE "read") /\ part' = 0 /\ visited' = {}
      /\ UNCHANGED <<line, outcome, ntimes, job, seen>>
  BY DEF EndPass
<1>2. /\ line \in Lines /\ ntimes \in Nat /\ count \in Nat /\ part \in Nat /\ average \in Nat
      /\ seen \subseteq 0..MaxLen
  BY DEF StatsInv, StatsTypes
<1>3. Word \in Nat \ {0} /\ MaxLen \in Nat BY StatsConstants, StatsAssumption
<1>4. JobLists(job)
  <2>1. Reads(line) /\ Handler(line).ok /\ job = Handler(line)
    BY <1>1 DEF StatsInv, LineDone
  <2> QED BY <1>2, <2>1, HandlerLists
<1>5. k \in Nat \ {0} /\ job.divisor = k BY <1>1, <1>4 DEF JobLists
<1>6. count < ntimes BY <1>1 DEF StatsInv, PassRuns
<1>7. part \div k \in Nat BY <1>2, <1>5, Quotient
<1>8. IsFiniteSet({}) /\ Cardinality({}) = 0 BY FS_EmptySet
<1>9. StatsTypes'
  <2> DEFINE b == part \div k
             a == average + b
  <2>3. b \in Nat /\ average' = (average + b) % Word BY <1>1, <1>5, <1>7
  <2> HIDE DEF b
  <2>2. a \in Nat /\ average' = a % Word BY <1>2, <2>3
  <2> HIDE DEF a
  <2>1. average' \in Nat BY <1>3, <2>2
  <2> QED BY <1>1, <1>2, <2>1 DEF StatsTypes
<1>10. LineDone' BY <1>1 DEF StatsInv, LineDone
<1>11. PassRuns'
  <2>1. Len(job.ids) \in Nat BY <1>4 DEF JobLists
  <2>2. 1..0 = {} OBVIOUS
  <2> HIDE DEF k
  <2> QED BY <1>1, <1>2, <1>6, <1>8, <2>1, <2>2 DEF PassRuns
<1>12. SumsBetween'
  <2> HIDE DEF k
  <2> SUFFICES ASSUME SumsFit
               PROVE  Between(seen, count + 1, average') /\ Between(seen, 0, 0)
    BY <1>1, <1>8 DEF SumsBetween, SumsFit
  <2>1. Between(seen, count, average) /\ Between(seen, k, part)
    BY <1>1 DEF StatsInv, SumsBetween, k
  <2>2. seen \subseteq Nat BY <1>2, <1>3
  <2>3. Between(seen, count + 1, average + (part \div k))
    BY <1>2, <1>5, <2>1, <2>2, BetweenPasses
  <2>4. ntimes \in Nat \ {0} /\ count + 1 \in Nat /\ count + 1 <= ntimes BY <1>2, <1>6
  <2>5. MaxLen * (count + 1) < Word BY <2>4, Fitting
  <2>6. average + (part \div k) <= MaxLen * (count + 1)
    <3>1. \A m \in Nat : (\A x \in seen : x <= m)
                           => average + (part \div k) <= m * (count + 1)
      BY <2>3 DEF Between
    <3>2. \A x \in seen : x <= MaxLen BY <1>2, <1>3
    <3> QED BY <1>3, <3>1, <3>2
  <2>7. average' = average + (part \div k)
    <3> DEFINE a == average + (part \div k)
               b == MaxLen * (count + 1)
    <3>1. a \in Nat /\ b \in Nat /\ a <= b /\ b < Word BY <1>2, <1>3, <1>7, <2>4, <2>5, <2>6
    <3>2. average' = a % Word BY <1>1, <1>5
    <3> HIDE DEF a, b
    <3>3. average' = a BY <1>3, <3>1, <3>2
    <3> QED BY <3>3 DEF a
  <2> QED BY <2>3, <2>7, BetweenNone
<1> QED BY <1>9, <1>10, <1>11, <1>12 DEF StatsInv

LEMMA WorkEnds ==
    ASSUME StatsInv, EndStat \/ Print_average PROVE StatsInv'
<1>1. Answered("prompt", "done") /\ line' = line /\ ntimes' = ntimes
  BY DEF EndStat, Print_average
<1>2. line' \in Lines /\ ntimes' \in Nat BY <1>1 DEF StatsInv, StatsTypes
<1> QED BY <1>1, <1>2, AnsweredInv

LEMMA StatsStep == StatsInv /\ [StatsNext]_statsVars => StatsInv'
<1> SUFFICES ASSUME StatsInv, [StatsNext]_statsVars PROVE StatsInv' OBVIOUS
<1>1. CASE \E l \in Lines : TypeLine(l) BY <1>1, TypeLineInv
<1>2. CASE ReadQueue BY <1>2, ReadInv
<1>3. CASE EndPass BY <1>3, EndPassInv
<1>4. CASE EndStat \/ Print_average BY <1>4, WorkEnds
<1>5. CASE UNCHANGED statsVars
  <2> USE <1>5 DEF statsVars
  <2>1. StatsTypes' BY DEF StatsInv, StatsTypes
  <2>2. LineDone' BY DEF StatsInv, LineDone
  <2>3. PassRuns' BY DEF StatsInv, PassRuns
  <2>4. SumsBetween' BY DEF StatsInv, SumsBetween, SumsFit
  <2> QED BY <2>1, <2>2, <2>3, <2>4 DEF StatsInv
<1> QED BY <1>1, <1>2, <1>3, <1>4, <1>5 DEF StatsNext, Work

LEMMA InvAnswers == StatsInv => AnswerIsScope
<1> SUFFICES ASSUME StatsInv PROVE AnswerIsScope OBVIOUS
<1>1. line \in Lines /\ ntimes \in Nat /\ average \in Nat /\ seen \subseteq Nat
  BY StatsAssumption DEF StatsInv, StatsTypes
<1>2. Reads(line) => Answers(line, Handler(line)) BY <1>1, LineAnswers
<1>3. RefusedIffAbsent
  <2>1. outcome = "unavailable" => Reads(line) /\ ~Handler(line).ok BY DEF StatsInv, LineDone
  <2>2. at \in {"read", "average", "crash"} => Reads(line) /\ Handler(line).ok
    BY DEF StatsInv, LineDone
  <2> QED BY <1>2, <2>1, <2>2 DEF RefusedIffAbsent, Answers
<1>4. ScopeIsRead
  <2> SUFFICES ASSUME at = "read"
               PROVE  /\ visited \subseteq Scope(line)
                      /\ Len(job.ids) # 0 => {job.ids[i] : i \in DOMAIN job.ids} = Scope(line)
                                             /\ Len(job.ids) = Cardinality(Scope(line))
                      /\ \A f \in job.flow : TxPorts[f] \in Named(line, "port")
    BY DEF ScopeIsRead
  <2>1. Reads(line) /\ Handler(line).ok /\ job = Handler(line) BY DEF StatsInv, LineDone
  <2>2. Answers(line, job) /\ job.ok BY <1>2, <2>1
  <2>3. JobLists(job) BY <1>1, <2>1, HandlerLists
  <2>4. /\ IsFiniteSet(visited) /\ Cardinality(visited) <= Len(job.ids)
        /\ visited = {job.ids[i] : i \in 1..Cardinality(visited)}
    BY DEF StatsInv, PassRuns
  <2>5. \A f \in job.flow : TxPorts[f] \in Named(line, "port") BY <2>2 DEF Answers
  <2>6. Cardinality(visited) \in Nat BY <2>4, FS_CardinalityType
  <2>7. CASE job.ids = <<>>
    <3>1. Len(job.ids) = 0 BY <2>7
    <3>2. 1..Cardinality(visited) = {} BY <2>4, <2>6, <3>1
    <3> QED BY <2>4, <2>5, <3>1, <3>2
  <2>8. CASE Enumerates(job.ids, Scope(line))
    <3>1. \A i \in 1..Cardinality(visited) : i \in DOMAIN job.ids
      BY <2>4, <2>6, <2>8 DEF Enumerates
    <3>2. visited \subseteq Scope(line) BY <2>4, <2>8, <3>1 DEF Enumerates
    <3> QED BY <2>5, <2>8, <3>2 DEF Enumerates
  <2> QED BY <2>2, <2>7, <2>8 DEF Answers
<1>5. AverageWithin
  <2> SUFFICES ASSUME at = "average", SumsFit
               PROVE  (\E n \in seen : n <= Printed) /\ (\E n \in seen : Printed <= n)
    BY DEF AverageWithin, SumsFit
  <2>1. job.averages /\ count = ntimes /\ ntimes \in Nat \ {0}
    BY <1>1 DEF StatsInv, PassRuns
  <2>2. Between(seen, ntimes, average) BY <2>1 DEF StatsInv, SumsBetween
  <2> QED BY <1>1, <2>1, <2>2, BetweenAverage DEF Printed
<1> QED BY <1>3, <1>4, <1>5 DEF AnswerIsScope

(* Whatever is typed, in whatever order, with any number of ports,         *)
(* subports, pipes, classes and queues: a line is refused only if it names *)
(* what does not exist, a pass reads the queues it names once each, and    *)
(* the average lies between the shortest and the longest length, if the    *)
(* sums fit the word (stats.c:52-308).                                     *)
THEOREM AnswerTheorem == StatsSpec => []AnswerIsScope
<1>1. StatsSpec => []StatsInv BY StatsInitInv, StatsStep, PTL DEF StatsSpec
<1> QED BY <1>1, InvAnswers, PTL
=============================================================================
