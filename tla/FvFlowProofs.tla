----------------------------- MODULE FvFlowProofs -----------------------------
(* Proofs about the start and the end of fv_flow.c, for every number of    *)
(* ports, of receivers and senders, and of entries of force_quit, and      *)
(* about what a receiver reports, for every load.                          *)
EXTENDS FvFlow, FvReceiver, DivLemmas, FiniteSetTheorems, SequenceTheorems

Threads == Receivers \cup Senders

TypeInv ==
    /\ main \in {"init", "check", "launch", "sleep", "flag", "stop", "close", "exit", "failed"}
    /\ polls \in Nat /\ printFlag \in BOOLEAN /\ printed \in Nat
    /\ flag \in [Ports -> BOOLEAN]
    /\ port \in [Ports -> {"down", "up", "stopped", "closed"}]
    /\ pc \in [Threads -> {"none", "test", "drain", "fill", "send", "gone"}]
    /\ left \in [Senders -> Nat]

(* Where the main thread is in its loops over the ports, and what it has   *)
(* told the thread of the one at hand.                                     *)
MainInv ==
    /\ main \in {"init", "flag", "stop", "close"} => at \in Ports
    /\ main \in {"check", "launch", "sleep"} => at = 0
    /\ main \in {"stop", "close"} => flag[at]
    /\ ToldBeforeStop

(* No thread runs before the links are tested, and the wait for the links  *)
(* is over at the latest when the time is.                                 *)
StartInv ==
    /\ main \in {"init", "check", "launch"} => \A p \in Threads : pc[p] = "none"
    /\ main = "init" => polls = 0 /\ ~printFlag /\ printed = 0
    /\ main = "check" => printed = 0 /\ polls <= MaxCheck /\ (polls = MaxCheck => printFlag)
    /\ StatusPrinted

IInv == TypeInv /\ MainInv /\ StartInv

LEMMA Constants ==
    /\ {NPorts, Vf, Pf, FlagLen, BurstSize, MaxCheck} \subseteq Nat \ {0}
    /\ 0 \in Ports
    /\ Threads \subseteq Ports
<1>1. {NPorts, Vf, Pf, FlagLen, BurstSize, MaxCheck} \subseteq Nat \ {0} /\ Vf + Pf <= NPorts
  BY FlowAssumption
<1>2. NPorts \in Nat \ {0} /\ Vf \in Nat \ {0} /\ Pf \in Nat \ {0}
  BY <1>1
<1>3. 0 \in Ports
  BY <1>2 DEF Ports
<1>4. Threads \subseteq Ports
  BY <1>1, <1>2 DEF Threads, Receivers, Senders, Ports
<1> QED BY <1>1, <1>3, <1>4

LEMMA InitInv == Init => IInv
<1> SUFFICES ASSUME Init PROVE IInv
  OBVIOUS
<1> USE DEF Init
<1>1. TypeInv
  BY DEF TypeInv, Threads
<1>2. MainInv
  BY Constants DEF MainInv, ToldBeforeStop
<1>3. StartInv
  BY DEF StartInv, StatusPrinted, Threads
<1> QED BY <1>1, <1>2, <1>3 DEF IInv

LEMMA TypeStep == TypeInv /\ MainInv /\ [Next]_vars => TypeInv'
<1> SUFFICES ASSUME TypeInv, MainInv, [Next]_vars PROVE TypeInv'
  OBVIOUS
<1> USE DEF TypeInv
<1>1. CASE Main
  <2>1. CASE NicInit BY <2>1 DEF NicInit, check, threads
  <2>2. CASE Poll
    <3>1. printed + 1 \in Nat /\ polls + 1 \in Nat
      OBVIOUS
    <3>2. \A up \in BOOLEAN : TimeOver(up) \in BOOLEAN
      BY DEF TimeOver
    <3> QED BY <2>2, <3>1, <3>2 DEF Poll, threads
  <2>3. CASE Launch BY <2>3 DEF Launch, check, Threads
  <2>4. CASE Wake BY <2>4 DEF Wake, check, threads
  <2>5. CASE SetFlag BY <2>5 DEF SetFlag, check, threads
  <2>6. CASE Stop BY <2>6 DEF Stop, check, threads
  <2>7. CASE Close BY <2>7 DEF Close, check, threads
  <2> QED BY <1>1, <2>1, <2>2, <2>3, <2>4, <2>5, <2>6, <2>7 DEF Main
<1>2. CASE Fails BY <1>2 DEF Fails, check, threads
<1>3. CASE Signal BY <1>3 DEF Signal, check, threads
<1>4. ASSUME NEW p \in Receivers, Drained(p) PROVE TypeInv'
  BY <1>4 DEF Drained, check, Threads
<1>5. ASSUME NEW p \in Threads, Test(p) PROVE TypeInv'
  BY <1>5 DEF Test, check
<1>6. ASSUME NEW p \in Senders, FillBurst(p) PROVE TypeInv'
  BY <1>6, Constants DEF FillBurst, check, Threads
<1>7. ASSUME NEW p \in Senders, TxBurst(p) PROVE TypeInv'
  <2>1. \A n \in 0..left[p] : n \in Nat
    OBVIOUS
  <2> QED BY <1>7, <2>1 DEF TxBurst, check, Threads
<1>8. CASE UNCHANGED vars BY <1>8 DEF vars, check, threads
<1> QED BY <1>1, <1>2, <1>3, <1>4, <1>5, <1>6, <1>7, <1>8 DEF Next, Threads

LEMMA MainStep == TypeInv /\ MainInv /\ [Next]_vars => MainInv'
<1> SUFFICES ASSUME TypeInv, MainInv, [Next]_vars PROVE MainInv'
  OBVIOUS
<1> USE DEF MainInv, ToldBeforeStop
<1>0. NPorts \in Nat \ {0} /\ 0 \in Ports
  BY Constants
<1>1. CASE Main
  <2>1. CASE NicInit
    <3>1. at \in Ports
      BY <2>1 DEF NicInit
    <3>2. at' \in Ports /\ (at + 1 = NPorts => at' = 0)
      BY <1>0, <2>1, <3>1 DEF NicInit, Ports
    <3> QED BY <2>1, <3>2 DEF NicInit, TypeInv
  <2>2. CASE Poll BY <1>0, <2>2 DEF Poll
  <2>3. CASE Launch BY <1>0, <2>3 DEF Launch
  <2>4. CASE Wake BY <1>0, <2>4 DEF Wake
  <2>5. CASE SetFlag BY <2>5 DEF SetFlag, TypeInv
  <2>6. CASE Stop BY <2>6 DEF Stop, TypeInv
  <2>7. CASE Close
    <3>1. at \in Ports /\ flag[at]
      BY <2>7 DEF Close
    <3>2. at + 1 # NPorts => at' \in Ports
      BY <1>0, <2>7, <3>1 DEF Close, Ports
    <3> QED BY <2>7, <3>1, <3>2 DEF Close, LastPort, TypeInv
  <2> QED BY <1>1, <2>1, <2>2, <2>3, <2>4, <2>5, <2>6, <2>7 DEF Main
<1>2. CASE Fails BY <1>2 DEF Fails
<1>3. CASE Signal
  <2>1. \A p \in Ports : flag[p] => flag'[p]
    BY <1>3 DEF Signal
  <2> QED BY <1>0, <1>3, <2>1 DEF Signal
<1>4. ASSUME NEW p \in Receivers, Drained(p) PROVE MainInv'
  BY <1>4 DEF Drained
<1>5. ASSUME NEW p \in Threads, Test(p) PROVE MainInv'
  BY <1>5 DEF Test
<1>6. ASSUME NEW p \in Senders, FillBurst(p) PROVE MainInv'
  BY <1>6 DEF FillBurst
<1>7. ASSUME NEW p \in Senders, TxBurst(p) PROVE MainInv'
  BY <1>7 DEF TxBurst
<1>8. CASE UNCHANGED vars BY <1>8 DEF vars
<1> QED BY <1>1, <1>2, <1>3, <1>4, <1>5, <1>6, <1>7, <1>8 DEF Next, Threads

LEMMA StartStep == TypeInv /\ StartInv /\ [Next]_vars => StartInv'
<1> SUFFICES ASSUME TypeInv, StartInv, [Next]_vars PROVE StartInv'
  OBVIOUS
<1> USE DEF StartInv, StatusPrinted
<1>0. MaxCheck \in Nat \ {0}
  BY Constants
<1>1. CASE Main
  <2>1. CASE NicInit BY <1>0, <2>1 DEF NicInit, check, threads
  <2>2. CASE Poll
    <3>1. polls \in Nat /\ polls <= MaxCheck /\ printed = 0 /\ (polls = MaxCheck => printFlag)
      BY <2>2 DEF Poll, TypeInv
    <3>2. CASE printFlag
      BY <1>0, <2>2, <3>1, <3>2 DEF Poll, threads
    <3>3. CASE ~printFlag
      <4>1. polls' = polls + 1 /\ UNCHANGED <<main, printed>>
        BY <1>0, <2>2, <3>1, <3>3 DEF Poll
      <4>2. polls' <= MaxCheck
        BY <1>0, <3>1, <3>3, <4>1
      <4>3. PICK allUp \in BOOLEAN : printFlag' = TimeOver(allUp)
        BY <1>0, <2>2, <3>1, <3>3 DEF Poll
      <4>4. polls' = MaxCheck => polls = MaxCheck - 1
        BY <1>0, <3>1, <4>1
      <4>5. polls' = MaxCheck => printFlag'
        BY <4>3, <4>4 DEF TimeOver
      <4> QED BY <2>2, <3>1, <4>1, <4>2, <4>5 DEF Poll, threads
    <3> QED BY <3>2, <3>3
  <2>3. CASE Launch BY <2>3 DEF Launch, check
  <2>4. CASE Wake BY <2>4 DEF Wake, check, threads
  <2>5. CASE SetFlag BY <2>5 DEF SetFlag, check, threads
  <2>6. CASE Stop BY <2>6 DEF Stop, check, threads
  <2>7. CASE Close BY <2>7 DEF Close, check, threads
  <2> QED BY <1>1, <2>1, <2>2, <2>3, <2>4, <2>5, <2>6, <2>7 DEF Main
<1>2. CASE Fails BY <1>2 DEF Fails, check, threads
<1>3. CASE Signal BY <1>3 DEF Signal, check, threads
<1>4. ASSUME NEW p \in Receivers, Drained(p) PROVE StartInv'
  BY <1>4 DEF Drained, check, Threads
<1>5. ASSUME NEW p \in Threads, Test(p) PROVE StartInv'
  BY <1>5 DEF Test, check
<1>6. ASSUME NEW p \in Senders, FillBurst(p) PROVE StartInv'
  BY <1>6 DEF FillBurst, check, Threads
<1>7. ASSUME NEW p \in Senders, TxBurst(p) PROVE StartInv'
  BY <1>7 DEF TxBurst, check, Threads
<1>8. CASE UNCHANGED vars BY <1>8 DEF vars, check, threads
<1> QED BY <1>1, <1>2, <1>3, <1>4, <1>5, <1>6, <1>7, <1>8 DEF Next, Threads

LEMMA Invariance == Spec => []IInv
<1>1. IInv /\ [Next]_vars => IInv'
  BY TypeStep, MainStep, StartStep DEF IInv
<1> QED BY InitInv, <1>1, PTL DEF Spec

-----------------------------------------------------------------------------
(* A port is not stopped before its thread is told to leave it, for any    *)
(* number of ports, of threads and of flags (fv_flow.c:829-835).           *)
THEOREM ToldTheorem == Spec => []ToldBeforeStop
<1>1. IInv => ToldBeforeStop
  BY DEF IInv, MainInv
<1> QED BY Invariance, <1>1, PTL

(* The wait for the links ends with the status printed once, for any time  *)
(* it may take (fv_flow.c:490-530).                                        *)
THEOREM StatusTheorem == Spec => []StatusPrinted
<1>1. IInv => StatusPrinted
  BY DEF IInv, StartInv
<1> QED BY Invariance, <1>1, PTL

-----------------------------------------------------------------------------
(* What the counters of an interval stand for: the packets taken so far.   *)
(* The sum of the latencies lies between as many times the least and the   *)
(* largest of them; m is any bound of theirs.                              *)
Counted(f) ==
    /\ latNb[f] = Cardinality(OfFlow(f, taken))
    /\ ipCnt[f] = latNb[f] % WordSize
Summed(f) ==
    \A m \in Nat :
       /\ (\A i \in OfFlow(f, taken) : m <= taken[i].lat) => m * latNb[f] <= avgLat[f]
       /\ (\A i \in OfFlow(f, taken) : taken[i].lat <= m) => avgLat[f] <= m * latNb[f]

RecvTypes ==
    /\ now \in Nat /\ prev \in Nat /\ prev <= now
    /\ taken \in Seq(Packets)
    /\ ipCnt \in [Flows -> Nat] /\ avgLat \in [Flows -> Nat] /\ latNb \in [Flows -> Nat]

RecvInv ==
    /\ RecvTypes
    /\ recvPkts = Len(taken)
    /\ \A f \in Flows : Counted(f) /\ Summed(f)
    /\ ReportIsInterval

LEMMA OfFlowFinite ==
    ASSUME NEW s \in Seq(Packets), NEW f
    PROVE  IsFiniteSet(OfFlow(f, s)) /\ OfFlow(f, s) \subseteq 1..Len(s)
<1>1. OfFlow(f, s) \subseteq 1..Len(s) BY LenProperties DEF OfFlow
<1>2. IsFiniteSet(1..Len(s)) BY LenProperties, FS_Interval
<1> QED BY <1>1, <1>2, FS_Subset

(* The packets of a flow among those of s and one more, p. *)
LEMMA OfFlowOneMore ==
    ASSUME NEW s \in Seq(Packets), NEW t \in Seq(Packets), NEW p, NEW f,
           Len(t) = Len(s) + 1, t[Len(s) + 1] = p, \A i \in 1..Len(s) : t[i] = s[i]
    PROVE  /\ p.flow = f => OfFlow(f, t) = OfFlow(f, s) \cup {Len(s) + 1}
           /\ p.flow # f => OfFlow(f, t) = OfFlow(f, s)
           /\ \A i \in OfFlow(f, s) : t[i] = s[i]
<1>1. /\ DOMAIN s = 1..Len(s) /\ Len(s) \in Nat
      /\ DOMAIN t = 1..(Len(s) + 1)
  BY LenProperties
<1> QED BY <1>1, SMT DEF OfFlow

LEMMA NothingCounted ==
    ASSUME NEW f \in Flows, taken = <<>>, latNb[f] = 0, ipCnt[f] = 0, avgLat[f] = 0
    PROVE  Counted(f) /\ Summed(f)
<1>1. OfFlow(f, taken) = {} /\ Cardinality({}) = 0
  BY FS_EmptySet DEF OfFlow
<1>2. WordSize \in Nat \ {0}
  BY ReceiverAssumption
<1>3. 0 % WordSize = 0
  BY <1>2
<1>4. Counted(f)
  BY <1>1, <1>3 DEF Counted
<1>5. \A m \in Nat : m * latNb[f] = 0
  OBVIOUS
<1>6. Summed(f)
  BY <1>5 DEF Summed
<1> QED BY <1>4, <1>6

LEMMA RecvInitInv == RecvInit => RecvInv
<1> SUFFICES ASSUME RecvInit PROVE RecvInv
  OBVIOUS
<1>0. WordSize \in Nat \ {0} /\ Second \in Nat \ {0}
  BY ReceiverAssumption
<1>1. /\ taken = <<>> /\ recvPkts = 0 /\ report.of = <<>> /\ report.pps = 0 /\ report.ms = 1
      /\ now = 0 /\ prev = 0
      /\ \A f \in Flows : /\ latNb[f] = 0 /\ ipCnt[f] = 0 /\ avgLat[f] = 0
                          /\ report.lat[f] = 0 /\ report.flowPps[f] = 0
  BY DEF RecvInit, Zero
<1>2. \A f : OfFlow(f, <<>>) = {}
  BY DEF OfFlow
<1>3. Cardinality({}) = 0
  BY FS_EmptySet
<1>4. RecvTypes
  BY DEF RecvInit, RecvTypes, Zero
<1>5. \A f \in Flows : Counted(f) /\ Summed(f)
  BY <1>0, <1>1, <1>2, <1>3, NothingCounted
<1>6. Rate(0, 1) = 0
  BY <1>0 DEF Rate
<1>7. ReportIsInterval
  BY <1>1, <1>2, <1>3, <1>6 DEF ReportIsInterval
<1> QED BY <1>1, <1>4, <1>5, <1>7 DEF RecvInv

(* A packet is counted for its flow, and no other. *)
LEMMA PacketStep ==
    ASSUME RecvInv, NEW p \in Packets, RxPacket(p)
    PROVE  RecvInv'
<1>0. /\ WordSize \in Nat \ {0} /\ NoFlow \notin Flows
      /\ p.flow \in Flows \cup {NoFlow} /\ p.lat \in Nat
  BY ReceiverAssumption
<1>1. taken \in Seq(Packets) /\ Len(taken) \in Nat /\ taken' = Append(taken, p)
  BY LenProperties DEF RecvInv, RecvTypes, RxPacket
<1>2. RecvTypes'
  <2>1. taken' \in Seq(Packets)
    BY <1>1, AppendProperties
  <2>2. CASE p.flow = NoFlow
    BY <2>1, <2>2 DEF RecvInv, RecvTypes, RxPacket
  <2>3. CASE p.flow \in Flows
    <3>1. ipCnt' = [ipCnt EXCEPT ![p.flow] = (@ + 1) % WordSize]
      BY <1>0, <2>3 DEF RxPacket
    <3>2. /\ avgLat' \in {avgLat, [avgLat EXCEPT ![p.flow] = @ + p.lat]}
          /\ latNb' \in {latNb, [latNb EXCEPT ![p.flow] = @ + 1]}
      BY <1>0, <2>3 DEF RxPacket
    <3>3. ipCnt \in [Flows -> Nat] /\ avgLat \in [Flows -> Nat] /\ latNb \in [Flows -> Nat]
      BY DEF RecvInv, RecvTypes
    <3>4. ipCnt' \in [Flows -> Nat]
      BY <1>0, <2>3, <3>1, <3>3
    <3>5. avgLat' \in [Flows -> Nat] /\ latNb' \in [Flows -> Nat]
      BY <1>0, <2>3, <3>2, <3>3
    <3> QED BY <2>1, <3>4, <3>5 DEF RecvInv, RecvTypes, RxPacket
  <2> QED BY <1>0, <2>2, <2>3
<1>3. recvPkts' = Len(taken)'
  BY <1>1, AppendProperties DEF RecvInv, RxPacket
<1>4. ASSUME NEW f \in Flows
      PROVE  /\ p.flow = f => OfFlow(f, taken') = OfFlow(f, taken) \cup {Len(taken) + 1}
             /\ p.flow # f => OfFlow(f, taken') = OfFlow(f, taken)
             /\ taken'[Len(taken) + 1] = p
             /\ \A i \in OfFlow(f, taken) : taken'[i] = taken[i]
  <2>1. /\ taken \in Seq(Packets) /\ taken' \in Seq(Packets)
        /\ Len(taken') = Len(taken) + 1
        /\ taken'[Len(taken) + 1] = p /\ \A i \in 1..Len(taken) : taken'[i] = taken[i]
    BY <1>1, AppendProperties
  <2> QED BY <2>1, OfFlowOneMore
<1>5. ASSUME NEW f \in Flows PROVE Counted(f)' /\ Summed(f)'
  <2>0. /\ Counted(f) /\ Summed(f) /\ latNb[f] \in Nat /\ avgLat[f] \in Nat /\ ipCnt[f] \in Nat
        /\ IsFiniteSet(OfFlow(f, taken)) /\ Len(taken) + 1 \notin OfFlow(f, taken)
    BY <1>1, OfFlowFinite DEF RecvInv, RecvTypes
  <2>1. CASE p.flow # f
    <3>1. latNb'[f] = latNb[f] /\ ipCnt'[f] = ipCnt[f] /\ avgLat'[f] = avgLat[f]
      BY <1>0, <2>1 DEF RxPacket, RecvInv, RecvTypes
    <3>2. /\ OfFlow(f, taken') = OfFlow(f, taken)
          /\ \A i \in OfFlow(f, taken) : taken'[i] = taken[i]
      BY <1>1, <1>4, <2>1
    <3> QED BY <2>0, <3>1, <3>2 DEF Counted, Summed
  <2>2. CASE p.flow = f
    <3>1. /\ latNb'[f] = latNb[f] + 1 /\ ipCnt'[f] = (ipCnt[f] + 1) % WordSize
          /\ avgLat'[f] = avgLat[f] + p.lat
      BY <1>0, <2>2 DEF RxPacket, RecvInv, RecvTypes, Marked, CharS
    <3>2. /\ OfFlow(f, taken') = OfFlow(f, taken) \cup {Len(taken) + 1}
          /\ taken'[Len(taken) + 1] = p
          /\ \A i \in OfFlow(f, taken) : taken'[i] = taken[i]
      BY <1>1, <1>4, <2>2
    <3>3. Counted(f)'
      <4>1. Cardinality(OfFlow(f, taken')) = Cardinality(OfFlow(f, taken)) + 1
        BY <2>0, <3>2, FS_AddElement
      <4>2. (ipCnt[f] + 1) % WordSize = (latNb[f] + 1) % WordSize
        BY <1>0, <2>0, CountStep DEF Counted
      <4> QED BY <2>0, <3>1, <4>1, <4>2 DEF Counted
    <3>4. ASSUME NEW m \in Nat
          PROVE  /\ (\A i \in OfFlow(f, taken') : m <= taken'[i].lat)
                       => m * latNb'[f] <= avgLat'[f]
                 /\ (\A i \in OfFlow(f, taken') : taken'[i].lat <= m)
                       => avgLat'[f] <= m * latNb'[f]
      <4>1. m * (latNb[f] + 1) = m * latNb[f] + m /\ m * latNb[f] \in Nat
        BY <2>0
      <4>2. ASSUME \A i \in OfFlow(f, taken') : m <= taken'[i].lat
            PROVE  m * latNb'[f] <= avgLat'[f]
        <5>1. m <= p.lat /\ \A i \in OfFlow(f, taken) : m <= taken[i].lat
          BY <3>2, <4>2
        <5>2. m * latNb[f] <= avgLat[f]
          BY <2>0, <5>1 DEF Summed
        <5>3. m * latNb[f] + m <= avgLat[f] + p.lat
          <6> DEFINE c == m * latNb[f]
          <6>1. c \in Nat /\ c <= avgLat[f] BY <4>1, <5>2
          <6> HIDE DEF c
          <6>2. c + m <= avgLat[f] + p.lat BY <1>0, <2>0, <5>1, <6>1
          <6> QED BY <6>2 DEF c
        <5> QED BY <3>1, <4>1, <5>3
      <4>3. ASSUME \A i \in OfFlow(f, taken') : taken'[i].lat <= m
            PROVE  avgLat'[f] <= m * latNb'[f]
        <5>1. p.lat <= m /\ \A i \in OfFlow(f, taken) : taken[i].lat <= m
          BY <3>2, <4>3
        <5>2. avgLat[f] <= m * latNb[f]
          BY <2>0, <5>1 DEF Summed
        <5>3. avgLat[f] + p.lat <= m * latNb[f] + m
          <6> DEFINE c == m * latNb[f]
          <6>1. c \in Nat /\ avgLat[f] <= c BY <4>1, <5>2
          <6> HIDE DEF c
          <6>2. avgLat[f] + p.lat <= c + m BY <1>0, <2>0, <5>1, <6>1
          <6> QED BY <6>2 DEF c
        <5> QED BY <3>1, <4>1, <5>3
      <4> QED BY <4>2, <4>3
    <3>5. Summed(f)'
      BY <3>4 DEF Summed
    <3> QED BY <3>3, <3>5
  <2> QED BY <2>1, <2>2
<1>6. ReportIsInterval'
  <2>1. ReportIsInterval /\ report' = report
    BY DEF RecvInv, RxPacket
  <2> QED BY <2>1 DEF ReportIsInterval
<1> QED BY <1>2, <1>3, <1>5, <1>6 DEF RecvInv

(* The average that is printed lies among the latencies. *)
LEMMA LatencyAmong ==
    ASSUME RecvInv, NEW f \in Flows, OfFlow(f, taken) # {}
    PROVE  /\ \E i \in OfFlow(f, taken) : Latency(f) <= taken[i].lat \div Ticks
           /\ \E i \in OfFlow(f, taken) : taken[i].lat \div Ticks <= Latency(f)
<1> DEFINE mine == OfFlow(f, taken)
           mean == avgLat[f] \div latNb[f]
<1>0. Ticks \in Nat \ {0}
  BY ReceiverAssumption
<1>1. \A i \in mine : taken[i].lat \in Nat
  <2>1. taken \in Seq(Packets) /\ mine \subseteq 1..Len(taken)
    BY OfFlowFinite DEF RecvInv, RecvTypes
  <2>2. \A i \in mine : taken[i] \in Packets
    BY <2>1, ElementOfSeq
  <2> QED BY <2>2, ReceiverAssumption
<1>2. latNb[f] \in Nat \ {0} /\ avgLat[f] \in Nat
  <2>1. IsFiniteSet(mine) /\ latNb[f] = Cardinality(mine) /\ avgLat[f] \in Nat
    BY OfFlowFinite DEF RecvInv, RecvTypes, Counted
  <2> QED BY <2>1, FS_EmptySet, FS_CardinalityType
<1>3. mean \in Nat /\ Latency(f) = mean \div Ticks /\ mean \div Ticks \in Nat
  BY <1>0, <1>2 DEF Latency
<1>4. Summed(f)
  BY DEF RecvInv
<1> HIDE DEF mean
<1>5. \E i \in mine : Latency(f) <= taken[i].lat \div Ticks
  <2> SUFFICES ASSUME \A i \in mine : ~(Latency(f) <= taken[i].lat \div Ticks) PROVE FALSE
    OBVIOUS
  <2> DEFINE L == Latency(f)
  <2>0. L \in Nat BY <1>3
  <2>1. ASSUME NEW i \in mine PROVE taken[i].lat < L * Ticks
    <3>1. taken[i].lat \div Ticks \in Nat /\ taken[i].lat \div Ticks < L
      BY <1>0, <1>1, <2>0
    <3>2. ~(L * Ticks <= taken[i].lat)
      BY <1>0, <1>1, <2>0, <3>1, QuotientAbove
    <3> QED BY <1>0, <1>1, <2>0, <3>2
  <2> DEFINE m == L * Ticks - 1
  <2>2. m \in Nat /\ m < L * Ticks /\ \A i \in mine : taken[i].lat <= m
    BY <1>0, <1>1, <2>0, <2>1
  <2> HIDE DEF m
  <2>3. avgLat[f] <= m * latNb[f]
    BY <1>4, <2>2 DEF Summed
  <2>4. mean < L * Ticks
    <3>1. (m + 1) * latNb[f] = m * latNb[f] + latNb[f] /\ m * latNb[f] \in Nat
      BY <1>2, <2>2
    <3>2. avgLat[f] < (m + 1) * latNb[f]
      BY <1>2, <2>3, <3>1
    <3>3. mean < m + 1
      BY <1>2, <2>2, <3>2, QuotientBelow DEF mean
    <3>4. m + 1 = L * Ticks
      BY <1>0, <2>0 DEF m
    <3> QED BY <3>3, <3>4
  <2>5. mean \div Ticks < L
    BY <1>0, <1>3, <2>0, <2>4, QuotientBelow
  <2> QED BY <1>3, <2>5
<1>6. \E i \in mine : taken[i].lat \div Ticks <= Latency(f)
  <2> SUFFICES ASSUME \A i \in mine : ~(taken[i].lat \div Ticks <= Latency(f)) PROVE FALSE
    OBVIOUS
  <2> DEFINE m == (Latency(f) + 1) * Ticks
  <2>0. Latency(f) + 1 \in Nat /\ m \in Nat BY <1>0, <1>3
  <2>1. ASSUME NEW i \in mine PROVE m <= taken[i].lat
    <3>1. taken[i].lat \div Ticks \in Nat /\ ~(taken[i].lat \div Ticks < Latency(f) + 1)
      BY <1>0, <1>1, <1>3, <2>0
    <3>2. ~(taken[i].lat < m)
      BY <1>0, <1>1, <2>0, <3>1, QuotientBelow
    <3> QED BY <1>1, <2>0, <3>2
  <2> HIDE DEF m
  <2>2. m * latNb[f] <= avgLat[f]
    BY <1>4, <2>0, <2>1 DEF Summed
  <2>3. m <= mean
    BY <1>2, <2>0, <2>2, QuotientAbove DEF mean
  <2>4. Latency(f) + 1 <= mean \div Ticks
    BY <1>0, <1>3, <2>0, <2>3, QuotientAbove DEF m
  <2> QED BY <1>3, <2>4
<1> QED BY <1>5, <1>6

LEMMA ReportStep == RecvInv /\ Report => RecvInv'
<1> SUFFICES ASSUME RecvInv, Report PROVE RecvInv'
  OBVIOUS
<1>0. {WordSize, Second, Interval} \subseteq Nat /\ WordSize > 0
  BY ReceiverAssumption
<1> DEFINE ms == now - prev
<1>1. /\ now \in Nat /\ prev \in Nat /\ ms \in Nat \ {0}
  BY <1>0 DEF RecvInv, RecvTypes, Report
<1>2. /\ report' = [pps |-> Rate(recvPkts, ms),
                    flowPps |-> [f \in Flows |-> FlowRate(ipCnt[f], ms)],
                    lat |-> [f \in Flows |-> Latency(f)], of |-> taken, ms |-> ms]
      /\ taken' = <<>> /\ recvPkts' = 0 /\ now' = now /\ prev' = now
      /\ ipCnt' = Zero /\ avgLat' = Zero /\ latNb' = Zero
  BY DEF Report, Cleared
<1> HIDE DEF ms
<1>3. RecvTypes' /\ recvPkts' = Len(taken)'
  BY <1>1, <1>2 DEF RecvTypes, Zero
<1>4. \A f \in Flows : Counted(f)' /\ Summed(f)'
  <2>1. \A f : OfFlow(f, <<>>) = {}
    BY DEF OfFlow
  <2>2. \A f \in Flows : latNb'[f] = 0 /\ ipCnt'[f] = 0 /\ avgLat'[f] = 0
    BY <1>2 DEF Zero
  <2>3. WordSize \in Nat \ {0} /\ 0 % WordSize = 0 /\ Cardinality({}) = 0
    BY <1>0, FS_EmptySet
  <2>4. \A m \in Nat : m * 0 = 0
    OBVIOUS
  <2>5. \A f \in Flows : Counted(f)'
    BY <1>2, <2>1, <2>2, <2>3 DEF Counted
  <2>6. \A f \in Flows : Summed(f)'
    BY <1>2, <2>2, <2>4 DEF Summed
  <2> QED BY <2>5, <2>6
<1>5. ReportIsInterval'
  <2>1. report'.pps = Rate(Len(report'.of), report'.ms)
    BY <1>2 DEF RecvInv
  <2>2. ASSUME NEW f \in Flows
        PROVE  LET mine == OfFlow(f, report'.of) IN
          /\ IF mine = {} THEN report'.lat[f] = 0
             ELSE /\ \E i \in mine : report'.lat[f] <= report'.of[i].lat \div Ticks
                  /\ \E i \in mine : report'.of[i].lat \div Ticks <= report'.lat[f]
          /\ Cardinality(mine) * Second < WordSize =>
                report'.flowPps[f] = Rate(Cardinality(mine), report'.ms)
    <3> DEFINE mine == OfFlow(f, taken)
    <3>1. /\ report'.of = taken /\ report'.lat[f] = Latency(f)
          /\ report'.flowPps[f] = FlowRate(ipCnt[f], ms) /\ report'.ms = ms
      BY <1>2
    <3>2. /\ Cardinality(mine) \in Nat /\ latNb[f] = Cardinality(mine)
          /\ ipCnt[f] = Cardinality(mine) % WordSize
          /\ mine = {} => latNb[f] = 0
      BY OfFlowFinite, FS_CardinalityType, FS_EmptySet DEF RecvInv, RecvTypes, Counted
    <3>4. ASSUME Cardinality(mine) * Second < WordSize
          PROVE  FlowRate(ipCnt[f], ms) = Rate(Cardinality(mine), ms)
      <4> DEFINE n == Cardinality(mine)
      <4>0. n \in Nat /\ Second \in Nat /\ Second >= 1 BY <3>2, ReceiverAssumption
      <4> HIDE DEF n
      <4>1. PICK k \in Nat : Second = k + 1
        <5>1. Second - 1 \in Nat /\ Second = (Second - 1) + 1 BY <4>0
        <5> QED BY <5>1
      <4>2. n * Second = n * k + n /\ n * k \in Nat /\ n * Second \in Nat
        BY <4>0, <4>1
      <4>3. n < WordSize
        BY <1>0, <3>4, <4>0, <4>2 DEF n
      <4>4. n % WordSize = n /\ (n * Second) % WordSize = n * Second
        <5>1. n * Second < WordSize BY <3>4 DEF n
        <5>2. \A x \in Nat : x < WordSize => x % WordSize = x BY <1>0
        <5> QED BY <4>0, <4>2, <4>3, <5>1, <5>2
      <4> QED BY <3>2, <4>4 DEF FlowRate, Rate, n
    <3>5. mine # {} =>
             /\ \E i \in mine : Latency(f) <= taken[i].lat \div Ticks
             /\ \E i \in mine : taken[i].lat \div Ticks <= Latency(f)
      BY LatencyAmong
    <3>6. mine = {} => Latency(f) = 0
      BY <3>2 DEF Latency
    <3> HIDE DEF mine
    <3> QED BY <3>1, <3>4, <3>5, <3>6 DEF mine
  <2> QED BY <2>1, <2>2 DEF ReportIsInterval
<1> QED BY <1>3, <1>4, <1>5 DEF RecvInv

LEMMA RecvStep == RecvInv /\ [RecvNext]_recvVars => RecvInv'
<1> SUFFICES ASSUME RecvInv, [RecvNext]_recvVars PROVE RecvInv'
  OBVIOUS
<1>1. ASSUME NEW p \in Packets, RxPacket(p) PROVE RecvInv'
  BY <1>1, PacketStep
<1>2. CASE Report
  BY <1>2, ReportStep
<1>3. ASSUME UNCHANGED <<prev, recvPkts, ipCnt, avgLat, latNb, report, taken>>,
             now' \in Nat, now <= now'
      PROVE  RecvInv'
  <2>1. RecvTypes' /\ recvPkts' = Len(taken)'
    BY <1>3 DEF RecvInv, RecvTypes
  <2>2. \A f \in Flows : Counted(f)' /\ Summed(f)'
    BY <1>3 DEF RecvInv, Counted, Summed
  <2>3. ReportIsInterval'
    BY <1>3 DEF RecvInv, ReportIsInterval
  <2> QED BY <2>1, <2>2, <2>3 DEF RecvInv
<1>4. now \in Nat
  BY DEF RecvInv, RecvTypes
<1>5. CASE RxEmpty BY <1>3, <1>4, <1>5 DEF RxEmpty
<1>6. CASE NoReport BY <1>3, <1>4, <1>6 DEF NoReport
<1>7. CASE Tick BY <1>3, <1>4, <1>7 DEF Tick
<1>8. CASE UNCHANGED recvVars BY <1>3, <1>4, <1>8 DEF recvVars
<1> QED BY <1>1, <1>2, <1>5, <1>6, <1>7, <1>8 DEF RecvNext

(* A report is about the packets of its interval, whatever their number,   *)
(* their latencies, the widths of the counters and the length of an        *)
(* interval (fv_flow.c:715-757).                                           *)
THEOREM ReportTheorem == RecvSpec => []ReportIsInterval
<1>1. RecvInv => ReportIsInterval
  BY DEF RecvInv
<1> QED BY RecvInitInv, RecvStep, <1>1, PTL DEF RecvSpec
=============================================================================
