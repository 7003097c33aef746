-------------------------- MODULE DpdkPipelineSafety --------------------------
(* What the threads of app_thread.c must satisfy together. *)
EXTENDS DpdkPipeline

(* The packets that are in somebody's hands are those of the flow the      *)
(* thread is serving.                                                      *)
RxHand(f) == IF conf["rx"] = f THEN rxHand ELSE <<>>
WtHand(f) == IF conf["wt"] = f THEN wtHand ELSE <<>>
TxHand(f) == IF conf["tx"] = f THEN txHand ELSE <<>>

(* mbufs of the worker holds packets on their way to the scheduler, or     *)
(* packets the scheduler released.                                         *)
Before(f) == IF pc["wt"] = "schedule" THEN WtHand(f) ELSE <<>>
After(f) == IF pc["wt"] = "schedule" THEN <<>> ELSE WtHand(f)

(* The way of a packet from the scheduler to the NIC, the oldest first, as *)
(* packets leave the pipeline at the front.                                *)
Released(f) == sent[f] \o table[f] \o TxHand(f) \o txRing[f] \o After(f)
Accepted(f) == Released(f) \o port[f]
Offered(f) == Before(f) \o rxRing[f] \o RxHand(f)

(* A packet that was read is in exactly one place: in one ring, table,     *)
(* scheduler port or hand, sent, or freed.  No burst is copied twice or    *)
(* left out while three threads move bursts of different sizes             *)
(* (app_thread.c:182-412).                                                 *)
OnePlaceEach ==
    \A f \in Flows :
       LET all == Accepted(f) \o Offered(f) IN
       /\ Elements(all) \cup dropped[f] = 1..read[f]
       /\ Len(all) + Cardinality(dropped[f]) = read[f]

(* Packets of one class stay in order from the capture to the wire: the    *)
(* re-sent remainders, the table that is filled across bursts and the      *)
(* rings never let one overtake another (app_thread.c:230-320).            *)
ClassOrder ==
    \A f \in Flows :
       LET way == Accepted(f) \o Offered(f) IN
       \A i, j \in DOMAIN way :
          i < j /\ Class(way[i]) = Class(way[j]) => way[i] < way[j]

(* The counters of two threads and the rings between them add up: what the *)
(* receiver counted and did not drop is on its way to the worker or was    *)
(* counted there, and what the worker counted and did not drop was         *)
(* accepted by the scheduler (app_thread.c:194-209, 342-346).              *)
CountersAddUp ==
    \A f \in Flows :
       /\ rxStat[f].nb_rx = rxStat[f].nb_drop + wtStat[f].nb_rx + Len(Offered(f))
       /\ wtStat[f].nb_rx = wtStat[f].nb_drop + Len(Accepted(f))

EachOnceInOrder == OnePlaceEach /\ ClassOrder /\ CountersAddUp

(* To each flow the pipeline is a queue that may refuse a packet before    *)
(* the scheduler accepts it and never afterwards.                          *)
Fifo(f) == INSTANCE LossyFifo
              WITH arrived <- read[f], waiting <- Elements(Offered(f)),
                   accepted <- Elements(Accepted(f)) \ Elements(sent[f]),
                   out <- sent[f]
FlowsAreFifos ==
    /\ \A f \in Flows : Fifo(f)!Init
    /\ [][\A f \in Flows : [Fifo(f)!Next]_(Fifo(f)!fifo)]_vars

(* A worker that spins on the tx ring of one flow gets on: the transmitter *)
(* takes full bursts only, and still makes room (app_thread.c:297, 353).   *)
WorkerGetsOn == pc["wt"] = "push" ~> pc["wt"] # "push"

(* A packet in the table is sent, by a full burst or by the drain, also    *)
(* when no other packet of its flow follows (app_thread.c:307-315).        *)
TableIsSent ==
    \A f \in Flows, p \in Packets :
       p \in Elements(table[f]) ~> p \in Elements(sent[f])
=============================================================================
