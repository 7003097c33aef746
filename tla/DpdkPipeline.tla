----------------------------- MODULE DpdkPipeline -----------------------------
(***************************************************************************)
(* The threads of dpdk_sched/app_thread.c.  A receiving thread reads       *)
(* bursts of a capture into the rx ring of a flow, a worker thread moves   *)
(* them through the flow's scheduler port into its tx ring, a transmitting *)
(* thread hands them to the NIC.  A mixed thread is worker and transmitter *)
(* in one and has no tx ring.  Every thread serves its flows in turn.      *)
(*                                                                         *)
(* Packets of a flow are numbered in the order in which they are read.  A  *)
(* buffer always carries the same record of the capture, so a buffer that  *)
(* comes back early is another packet with the content it had before.      *)
(* External: the rte_ring, the scheduler port and the NIC.                 *)
(***************************************************************************)
EXTENDS Naturals, Sequences, FiniteSets

CONSTANTS
    NFlows,      \* flows, all of them served by the same threads
    Mixed,       \* TRUE if one core is both worker and transmitter
    Classes,     \* number of queues a packet may be put into
    RxBurst, RingBurst, QosDequeue, TxBurst,    \* burst_conf
    RingSlots,   \* packets a ring holds, one less than its size
    DrainTsc,    \* drain_tsc: empty polls before the table is flushed
    MaxPackets   \* bound: packets read of each flow

(* The arrays of ring_burst packets also take what the scheduler releases, *)
(* and the worker's burst finds room when less than a burst is left.       *)
PipelineAssumption ==
    /\ {NFlows, Classes, RxBurst, RingBurst, QosDequeue, TxBurst, DrainTsc}
          \subseteq Nat \ {0}
    /\ Mixed \in BOOLEAN
    /\ QosDequeue <= RingBurst
    /\ RingSlots \in Nat /\ RingSlots >= 2 * QosDequeue - 1
    /\ MaxPackets \in Nat

Flows == 0..(NFlows - 1)
Packets == 1..MaxPackets
Threads == {"rx", "wt", "tx"}

VARIABLES
    pc,       \* what each thread does next
    conf,     \* conf_idx of each thread
    read,     \* packets read from the capture of each flow
    rxHand,   \* rx_mbufs of the receiving thread
    rxRing,   \* rx_ring of each flow
    wtHand,   \* mbufs of the worker or mixed thread
    port,     \* packets in the scheduler port, in order of their arrival
    txRing,   \* tx_ring of each flow
    txHand,   \* mbufs of the transmitting thread
    table,    \* m_table[0 .. n_mbufs - 1] of each flow
    counter,  \* empty polls since the last burst or drain
    sent,     \* packets the NIC took, in order
    rxStat, wtStat,  \* stat of the two threads: what they add up
    dropped   \* packets that were freed without being sent

vars == <<pc, conf, read, rxHand, rxRing, wtHand, port, txRing, txHand, table,
          counter, sent, rxStat, wtStat, dropped>>

(* get_pkt_sched: the traffic class and queue of a packet. *)
Class(p) == p % Classes

(* The thread that owns m_table. *)
Sender == IF Mixed THEN "wt" ELSE "tx"

Empty == [f \in Flows |-> <<>>]
NoStat == [f \in Flows |-> [nb_rx |-> 0, nb_drop |-> 0]]

Init ==
    /\ pc = [rx |-> "read", wt |-> "poll", tx |-> "poll"]
    /\ conf = [t \in Threads |-> 0]
    /\ read = [f \in Flows |-> 0]
    /\ rxHand = <<>> /\ wtHand = <<>> /\ txHand = <<>>
    /\ rxRing = Empty /\ port = Empty /\ txRing = Empty
    /\ table = Empty /\ sent = Empty
    /\ counter = [f \in Flows |-> 0]
    /\ rxStat = NoStat /\ wtStat = NoStat
    /\ dropped = [f \in Flows |-> {}]

-----------------------------------------------------------------------------
Elements(s) == {s[i] : i \in DOMAIN s}
Front(s, n) == SubSeq(s, 1, n)
Rest(s, n) == SubSeq(s, n + 1, Len(s))
Smaller(m, n) == IF m < n THEN m ELSE n
FitsBelow(ring, s) == Len(ring) + Len(s) < RingSlots    \* fault
Fits(ring, s) == Len(ring) + Len(s) <= RingSlots

Goto(t, step) == pc' = [pc EXCEPT ![t] = step]

(* conf_idx++, and back to 0 after the last flow. *)
NextConf(t) == conf' = [conf EXCEPT ![t] = (@ + 1) % NFlows]

-----------------------------------------------------------------------------
(* app_rx_thread *)
RxRead ==
    LET f == conf["rx"] IN
    /\ pc["rx"] = "read" /\ read[f] + RxBurst <= MaxPackets
    /\ rxHand' = [i \in 1..RxBurst |-> read[f] + i]
    /\ read' = [read EXCEPT ![f] = @ + RxBurst]
    /\ rxStat' = [rxStat EXCEPT ![f].nb_rx = @ + RxBurst]
    /\ Goto("rx", "enqueue")
    /\ UNCHANGED <<conf, rxRing, wtHand, port, txRing, txHand, table, counter,
                   sent, wtStat, dropped>>

(* rte_ring_sp_enqueue_bulk takes the whole burst or nothing. *)
RxEnqueue ==
    LET f == conf["rx"] IN
    /\ pc["rx"] = "enqueue" /\ Fits(rxRing[f], rxHand)
    /\ rxRing' = [rxRing EXCEPT ![f] = @ \o rxHand]
    /\ rxHand' = <<>>
    /\ NextConf("rx") /\ Goto("rx", "read")
    /\ UNCHANGED <<read, wtHand, port, txRing, txHand, table, counter, sent,
                   rxStat, wtStat, dropped>>

(* Fault: a burst that did not fit is forgotten without being counted.     *)
RxDropSilent ==
    LET f == conf["rx"] IN
    /\ pc["rx"] = "enqueue" /\ ~Fits(rxRing[f], rxHand)
    /\ dropped' = [dropped EXCEPT ![f] = @ \cup Elements(rxHand)]
    /\ rxHand' = <<>>
    /\ NextConf("rx") /\ Goto("rx", "read")
    /\ UNCHANGED <<read, rxRing, wtHand, port, txRing, txHand, table, counter,
                   sent, rxStat, wtStat>>

RxDrop ==
    LET f == conf["rx"] IN
    /\ pc["rx"] = "enqueue" /\ ~Fits(rxRing[f], rxHand)
    /\ dropped' = [dropped EXCEPT ![f] = @ \cup Elements(rxHand)]
    /\ rxStat' = [rxStat EXCEPT ![f].nb_drop = @ + Len(rxHand)]
    /\ rxHand' = <<>>
    /\ NextConf("rx") /\ Goto("rx", "read")
    /\ UNCHANGED <<read, rxRing, wtHand, port, txRing, txHand, table, counter,
                   sent, wtStat>>

Receiver == RxRead \/ RxEnqueue \/ RxDrop

-----------------------------------------------------------------------------
(* app_worker_thread, and the first half of app_mixed_thread: up to        *)
(* ring_burst packets leave the rx ring.                                   *)
WtPoll ==
    LET f == conf["wt"]
        n == Smaller(Len(rxRing[f]), RingBurst) IN
    /\ pc["wt"] = "poll"
    /\ wtHand' = Front(rxRing[f], n)
    /\ rxRing' = [rxRing EXCEPT ![f] = Rest(@, n)]
    /\ Goto("wt", IF n > 0 THEN "schedule" ELSE "release")
    /\ UNCHANGED <<conf, read, rxHand, port, txRing, txHand, table, counter,
                   sent, rxStat, wtStat, dropped>>

(* The ways to choose n of the positions 1 to m, in order, and what is at  *)
(* the chosen ones.                                                        *)
Choices(n, m) ==
    {c \in [1..n -> 1..m] : \A i, j \in 1..n : i < j => c[i] < c[j]}
Chosen(s, n, c) == [i \in 1..n |-> s[c[i]]]

(* rte_sched_port_enqueue keeps n packets of the burst, in their order,    *)
(* frees the others and says how many it kept.                             *)
WtSchedule ==
    LET f == conf["wt"] IN
    /\ pc["wt"] = "schedule"
    /\ \E n \in 0..Len(wtHand) : \E c \in Choices(n, Len(wtHand)) :
          LET kept == Chosen(wtHand, n, c) IN
          /\ port' = [port EXCEPT ![f] = @ \o kept]
          /\ dropped' = [dropped EXCEPT ![f] =
                            @ \cup (Elements(wtHand) \ Elements(kept))]
          /\ wtStat' = [wtStat EXCEPT ![f] =
                           [nb_rx |-> @.nb_rx + Len(wtHand),
                            nb_drop |-> @.nb_drop + (Len(wtHand) - n)]]
    /\ wtHand' = <<>>
    /\ Goto("wt", "release")
    /\ UNCHANGED <<conf, read, rxHand, rxRing, txRing, txHand, table, counter,
                   sent, rxStat>>

(* rte_sched_port_dequeue picks packets of any class, of each class the    *)
(* oldest first.                                                           *)
WtPick ==
    LET f == conf["wt"] IN
    /\ pc["wt"] = "release" /\ Len(wtHand) < QosDequeue
    /\ \E i \in DOMAIN port[f] :
          /\ \A j \in 1..(i - 1) : Class(port[f][j]) # Class(port[f][i])
          /\ wtHand' = Append(wtHand, port[f][i])
          /\ port' = [port EXCEPT ![f] = Front(@, i - 1) \o Rest(@, i)]
    /\ UNCHANGED <<pc, conf, read, rxHand, rxRing, txRing, txHand, table,
                   counter, sent, rxStat, wtStat, dropped>>

(* Fault: the next flow is up before the burst of this one is pushed.      *)
WtReleasedEarly ==
    /\ pc["wt"] = "release"
    /\ IF Mixed THEN Goto("wt", "count") ELSE Goto("wt", IF wtHand = <<>> THEN "poll" ELSE "push")
    /\ IF Mixed THEN UNCHANGED conf ELSE NextConf("wt")
    /\ UNCHANGED <<read, rxHand, rxRing, wtHand, port, txRing, txHand, table,
                   counter, sent, rxStat, wtStat, dropped>>

(* It stops when the rates allow no more. *)
WtReleased ==
    /\ pc["wt"] = "release"
    /\ IF Mixed THEN Goto("wt", "count") /\ UNCHANGED conf
       ELSE /\ Goto("wt", IF wtHand = <<>> THEN "poll" ELSE "push")
            /\ IF wtHand = <<>> THEN NextConf("wt") ELSE UNCHANGED conf
    /\ UNCHANGED <<read, rxHand, rxRing, wtHand, port, txRing, txHand, table,
                   counter, sent, rxStat, wtStat, dropped>>

(* Fault: the enqueue is tried once, and the packets are given up. *)
WtPushOnce ==
    LET f == conf["wt"] IN
    /\ pc["wt"] = "push"
    /\ txRing' = IF Fits(txRing[f], wtHand)
                 THEN [txRing EXCEPT ![f] = @ \o wtHand] ELSE txRing
    /\ wtHand' = <<>>
    /\ NextConf("wt") /\ Goto("wt", "poll")
    /\ UNCHANGED <<read, rxHand, rxRing, port, txHand, table, counter, sent,
                   rxStat, wtStat, dropped>>

(* The worker spins until the whole burst fits into the tx ring. *)
WtPush ==
    LET f == conf["wt"] IN
    /\ pc["wt"] = "push" /\ Fits(txRing[f], wtHand)
    /\ txRing' = [txRing EXCEPT ![f] = @ \o wtHand]
    /\ wtHand' = <<>>
    /\ NextConf("wt") /\ Goto("wt", "poll")
    /\ UNCHANGED <<read, rxHand, rxRing, port, txHand, table, counter, sent,
                   rxStat, wtStat, dropped>>

Worker == WtPoll \/ WtSchedule \/ WtPick \/ WtReleased \/ WtPush

-----------------------------------------------------------------------------
(* app_tx_thread: the ring is asked for exactly qos_dequeue packets. *)
TxPoll ==
    LET f == conf["tx"] IN
    /\ pc["tx"] = "poll" /\ Len(txRing[f]) >= QosDequeue
    /\ txHand' = Front(txRing[f], QosDequeue)
    /\ txRing' = [txRing EXCEPT ![f] = Rest(@, QosDequeue)]
    /\ Goto("tx", "fill")
    /\ UNCHANGED <<conf, read, rxHand, rxRing, wtHand, port, table, counter,
                   sent, rxStat, wtStat, dropped>>

(* Fault: the counter restarts with every poll. *)
CountAndRestart(t, f, n) ==
    /\ counter' = [counter EXCEPT ![f] = 0]
    /\ NextConf(t) /\ Goto(t, "poll")

(* counter++, and the test whether it is time to drain. *)
CountAnd(t, f, n) ==
    IF n + 1 > DrainTsc
    THEN /\ counter' = [counter EXCEPT ![f] = 0]
         /\ IF table[f] = <<>> THEN NextConf(t) /\ Goto(t, "poll")
                               ELSE UNCHANGED conf /\ Goto(t, "drain")
    ELSE /\ counter' = [counter EXCEPT ![f] = n + 1]
         /\ NextConf(t) /\ Goto(t, "poll")

TxIdle ==
    LET f == conf["tx"] IN
    /\ pc["tx"] = "poll" /\ Len(txRing[f]) < QosDequeue
    /\ CountAnd("tx", f, counter[f])
    /\ UNCHANGED <<read, rxHand, rxRing, wtHand, port, txRing, txHand, table,
                   sent, rxStat, wtStat, dropped>>

(* The mixed thread goes on with what the scheduler released, if anything. *)
MixedCount ==
    LET f == conf["wt"] IN
    /\ pc["wt"] = "count"
    /\ IF wtHand = <<>> THEN CountAnd("wt", f, counter[f])
       ELSE Goto("wt", "fill") /\ UNCHANGED <<conf, counter>>
    /\ UNCHANGED <<read, rxHand, rxRing, wtHand, port, txRing, txHand, table,
                   sent, rxStat, wtStat, dropped>>

-----------------------------------------------------------------------------
(* app_send_packets: packets go to the table, which is flushed when it is  *)
(* full; Hand is the burst in hand of the thread that sends.               *)
Hand == IF Mixed THEN wtHand ELSE txHand
SetHand(s) == IF Mixed THEN wtHand' = s /\ UNCHANGED txHand
                       ELSE txHand' = s /\ UNCHANGED wtHand

Fill ==
    LET f == conf[Sender]
        n == Smaller(Len(Hand), TxBurst - Len(table[f])) IN
    /\ pc[Sender] = "fill" /\ Hand # <<>>
    /\ table' = [table EXCEPT ![f] = @ \o Front(Hand, n)]
    /\ SetHand(Rest(Hand, n))
    /\ Goto(Sender, IF Len(table[f]) + n = TxBurst THEN "flush" ELSE "fill")
    /\ UNCHANGED <<conf, read, rxHand, rxRing, port, txRing, counter, sent,
                   rxStat, wtStat, dropped>>

(* The burst is in the table: the counter restarts from 0 and is counted.  *)
Filled ==
    /\ pc[Sender] = "fill" /\ Hand = <<>>
    /\ CountAnd(Sender, conf[Sender], 0)
    /\ UNCHANGED <<read, rxHand, rxRing, wtHand, port, txRing, txHand, table,
                   sent, rxStat, wtStat, dropped>>

(* Fault: mbufs does not move on when the burst is sent again. *)
SendOneAgain ==
    LET f == conf[Sender] IN
    /\ sent' = [sent EXCEPT ![f] = Append(@, Head(table[f]))]
    /\ table' = [table EXCEPT ![f] = Front(@, Len(@) - 1)]
    /\ UNCHANGED <<read, rxHand, rxRing, wtHand, port, txRing, txHand, counter,
                   rxStat, wtStat, dropped>>

(* app_send_burst sends again what the NIC did not take, so the NIC takes  *)
(* the burst packet by packet.                                             *)
SendOne ==
    LET f == conf[Sender] IN
    /\ sent' = [sent EXCEPT ![f] = Append(@, Head(table[f]))]
    /\ table' = [table EXCEPT ![f] = Tail(@)]
    /\ UNCHANGED <<read, rxHand, rxRing, wtHand, port, txRing, txHand, counter,
                   rxStat, wtStat, dropped>>

Last == Len(table[conf[Sender]]) = 1

Flush ==
    /\ pc[Sender] = "flush"
    /\ SendOne
    /\ IF Last THEN Goto(Sender, "fill") ELSE UNCHANGED pc
    /\ UNCHANGED conf

Drain ==
    /\ pc[Sender] = "drain"
    /\ SendOne
    /\ IF Last THEN NextConf(Sender) /\ Goto(Sender, "poll")
               ELSE UNCHANGED <<pc, conf>>

Output == Fill \/ Filled \/ Flush \/ Drain

Transmitter == (Mixed /\ MixedCount) \/ (~Mixed /\ (TxPoll \/ TxIdle)) \/ Output

-----------------------------------------------------------------------------
Next == Receiver \/ Worker \/ Transmitter

Spec == Init /\ [][Next]_vars
=============================================================================
