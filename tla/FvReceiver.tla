------------------------------ MODULE FvReceiver ------------------------------
(***************************************************************************)
(* The receiving thread of fv_flow.c: it empties its port, counts packets  *)
(* and adds up latencies per flow, and reports when an interval has        *)
(* passed.  recv_main_loop of dpdk_sched/main.c is the same loop.          *)
(*                                                                         *)
(* A packet is [flow |-> its flow, or NoFlow if the destination port is    *)
(* none of the four, mark |-> the byte that recv_main_loop compares with   *)
(* the magic number, lat |-> the difference to the eight bytes before it]. *)
(* The byte is Magic in a packet set_tstamp marked; what any other packet  *)
(* holds at that place gives some difference, too.                         *)
(*                                                                         *)
(* External: the port, and the clock of gettimeofday.                      *)
(***************************************************************************)
EXTENDS Naturals, Sequences, FiniteSets

CONSTANTS
    Flows,       \* the flows of the ports 5001 to 5004
    NoFlow,
    Packets,     \* the packets that may arrive
    Interval,    \* interval, in milliseconds
    Second,      \* 1000, which turns milliseconds into seconds
    Ticks,       \* ticks of the time stamp counter per microsecond
    WordSize,    \* 2^32, the size of the words that count packets per flow
    MaxPackets,  \* bound: packets in an interval
    MaxTime      \* bound: time

(* 't' and 's', and 't'|'s' as set_tstamp stores it. *)
CharT == 116
CharS == 115
Magic == 119

ASSUME ReceiverAssumption ==
    /\ {Second, Ticks, WordSize} \subseteq Nat \ {0}
    /\ {Interval, MaxPackets, MaxTime} \subseteq Nat
    /\ NoFlow \notin Flows
    /\ Packets \subseteq [flow : Flows \cup {NoFlow}, mark : 0..255, lat : Nat]

VARIABLES
    draining,   \* TRUE inside the loop that empties the port
    now, prev,  \* the clock, and the time of the last report
    recvPkts,   \* recv_pkts
    ipCnt,      \* ip_cnt: packets per flow
    avgLat,     \* avg_lat: the sum of the latencies
    latNb,      \* lat_nb: the number of summands
    report,     \* the last report, and the packets and time it is about
    taken       \* history: the packets since the last report

recvVars == <<draining, now, prev, recvPkts, ipCnt, avgLat, latNb, report, taken>>

Zero == [f \in Flows |-> 0]

RecvInit ==
    /\ draining = TRUE
    /\ now = 0 /\ prev = 0
    /\ recvPkts = 0 /\ ipCnt = Zero /\ avgLat = Zero /\ latNb = Zero
    /\ report = [pps |-> 0, flowPps |-> Zero, lat |-> Zero, of |-> <<>>, ms |-> 1]
    /\ taken = <<>>

-----------------------------------------------------------------------------
(* The test is "magic == 't'|'s'", which C reads as (magic == 't') | 's'.  *)
Marked(p) == p.mark = CharT \/ CharS # 0

(* A packet of a burst.  recv_pkts grows by the whole burst at its end,    *)
(* and nothing looks at it before the port is empty.                       *)
RxPacket(p) ==
    /\ draining /\ Len(taken) < MaxPackets
    /\ recvPkts' = recvPkts + 1
    /\ IF p.flow = NoFlow THEN UNCHANGED <<ipCnt, avgLat, latNb>>
       ELSE /\ ipCnt' = [ipCnt EXCEPT ![p.flow] = (@ + 1) % WordSize]
            /\ IF Marked(p)
               THEN /\ avgLat' = [avgLat EXCEPT ![p.flow] = @ + p.lat]
                    /\ latNb' = [latNb EXCEPT ![p.flow] = @ + 1]
               ELSE UNCHANGED <<avgLat, latNb>>
    /\ taken' = Append(taken, p)
    /\ UNCHANGED <<draining, now, prev, report>>

RxEmpty ==
    /\ draining
    /\ draining' = FALSE
    /\ UNCHANGED <<now, prev, recvPkts, ipCnt, avgLat, latNb, report, taken>>

Rate(n, ms) == (n * Second) \div ms

(* The counters of the flows are 32 bits wide, and so is the product. *)
FlowRate(n, ms) == ((n * Second) % WordSize) \div ms

Latency(f) == IF latNb[f] > 0 THEN (avgLat[f] \div latNb[f]) \div Ticks ELSE 0

(* Faults: a sum, or a count, runs on into the next interval. *)
ClearedNoNb == [ipCnt |-> Zero, avgLat |-> Zero, latNb |-> latNb]
ClearedNoCnt == [ipCnt |-> ipCnt, avgLat |-> Zero, latNb |-> Zero]

Cleared == [ipCnt |-> Zero, avgLat |-> Zero, latNb |-> Zero]

Report ==
    /\ ~draining /\ now - prev > Interval
    /\ LET ms == now - prev IN
       report' = [pps |-> Rate(recvPkts, ms),
                  flowPps |-> [f \in Flows |-> FlowRate(ipCnt[f], ms)],
                  lat |-> [f \in Flows |-> Latency(f)], of |-> taken, ms |-> ms]
    /\ prev' = now
    /\ recvPkts' = 0
    /\ ipCnt' = Cleared.ipCnt /\ avgLat' = Cleared.avgLat /\ latNb' = Cleared.latNb
    /\ taken' = <<>>
    /\ draining' = TRUE
    /\ UNCHANGED now

NoReport ==
    /\ ~draining /\ now - prev <= Interval
    /\ draining' = TRUE
    /\ UNCHANGED <<now, prev, recvPkts, ipCnt, avgLat, latNb, report, taken>>

Tick ==
    /\ now < MaxTime
    /\ now' = now + 1
    /\ UNCHANGED <<draining, prev, recvPkts, ipCnt, avgLat, latNb, report, taken>>

RecvNext ==
    \/ \E p \in Packets : RxPacket(p)
    \/ RxEmpty \/ Report \/ NoReport \/ Tick

RecvSpec == RecvInit /\ [][RecvNext]_recvVars

-----------------------------------------------------------------------------
OfFlow(f, pkts) == {i \in DOMAIN pkts : pkts[i].flow = f}

(* A report is about the packets of its interval, all of them, and about   *)
(* none before: the average latency of a flow lies between the least and   *)
(* the largest of its packets, and the rates are those of the packets      *)
(* taken, of each flow ("flow1 %ld pps") and of all, as long as the        *)
(* product fits the word of the counter (fv_flow.c:715-757,                *)
(* dpdk_sched/main.c:197-240).                                             *)
ReportIsInterval ==
    /\ report.pps = Rate(Len(report.of), report.ms)
    /\ \A f \in Flows :
          LET mine == OfFlow(f, report.of) IN
          /\ IF mine = {} THEN report.lat[f] = 0
             ELSE /\ \E i \in mine : report.lat[f] <= report.of[i].lat \div Ticks
                  /\ \E i \in mine : report.of[i].lat \div Ticks <= report.lat[f]
          /\ Cardinality(mine) * Second < WordSize =>
                report.flowPps[f] = Rate(Cardinality(mine), report.ms)
=============================================================================
