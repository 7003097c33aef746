---------------------------- MODULE MtcpMultiProofs ----------------------------
(* The theorems of MtcpMulti, for any number of pairs, flows, streams of a *)
(* flow and ports.  What a step does to the streams is as in MtcpFqProofs; *)
(* the time table closes a whole group of entries.                         *)
EXTENDS MtcpMulti, DivLemmas, SequenceTheorems

Stages == {"none", "new", "init", "listen", "ready", "signal", "test", "wait", "waiting",
           "loop", "epoll", "events", "break", "out", "gone"}
Stream == [core : Senders, port : Int, snd : {"syn", "open", "broken", "closed"},
           rcv : {"none", "queued", "accepted", "closed"}]
Event == [kind : {"out", "in", "err", "accept"}, id : Nat \ {0}]

(* What each variable may hold. *)
TypeInv ==
    /\ pc \in [Cores -> Stages]
    /\ todo \in [Senders -> Seq(Int)]
    /\ streams \in Seq(Stream)
    /\ batch \in [Cores -> SUBSET Event]
    /\ elapsed \in [Senders -> Nat]
    /\ begun \in [Senders -> SUBSET Flows] /\ ended \in [Senders -> SUBSET Flows]
    /\ evid \in [Senders -> [Flows -> [Conns -> Nat]]]

-----------------------------------------------------------------------------
LEMMA CoreFacts ==
    ASSUME ThreadsAssumption
    PROVE  /\ Senders \subseteq Cores /\ Receivers \subseteq Cores
           /\ \A c \in Cores : c \in Senders \/ c \in Receivers
           /\ \A s \in Senders : s \in Nat /\ s \notin Receivers
           /\ \A r \in Receivers : r \in Nat /\ Pair(r) \in Senders /\ r \notin Senders
BY DEF ThreadsAssumption, Senders, Receivers, Cores, Pair

LEMMA IdFacts ==
    ASSUME TypeInv
    PROVE  /\ Ids = 1..Len(streams) /\ Len(streams) \in Nat
           /\ \A i \in Ids : streams[i] \in Stream
<1>1. streams \in Seq(Stream) BY DEF TypeInv
<1>2. Ids = 1..Len(streams) /\ Len(streams) \in Nat BY <1>1, LenProperties DEF Ids
<1>3. \A i \in Ids : streams[i] \in Stream BY <1>1, <1>2, ElementOfSeq
<1> QED BY <1>2, <1>3

(* What no step takes from a stream: its place, its sender and its port,   *)
(* and that it was closed.                                                 *)
SameStreams ==
    /\ Ids \subseteq Ids'
    /\ \A i \in Ids : /\ streams'[i].core = streams[i].core
                      /\ streams'[i].port = streams[i].port
                      /\ streams[i].snd = "closed" => streams'[i].snd = "closed"

(* One stream changes its state at one of its ends, or at both. *)
LEMMA OneChanges ==
    ASSUME TypeInv, NEW i \in Ids, NEW x \in Stream, streams' = [streams EXCEPT ![i] = x],
           x.core = streams[i].core, x.port = streams[i].port,
           streams[i].snd = "closed" => x.snd = "closed"
    PROVE  /\ streams' \in Seq(Stream) /\ SameStreams /\ Ids' = Ids
           /\ \A k \in Ids : streams'[k] = IF k = i THEN x ELSE streams[k]
<1>1. streams \in Seq(Stream) /\ Ids = 1..Len(streams) BY IdFacts DEF TypeInv
<1>2. streams' \in Seq(Stream) /\ Ids' = Ids BY <1>1, ExceptSeq DEF Ids
<1>3. \A k \in Ids : streams'[k] = IF k = i THEN x ELSE streams[k]
  BY <1>1, ExceptSeq
<1> QED BY <1>2, <1>3 DEF SameStreams

LEMMA NoneChanges == ASSUME TypeInv, UNCHANGED streams
                     PROVE  streams' \in Seq(Stream) /\ SameStreams
BY DEF TypeInv, SameStreams, Ids

(* What becomes of a stream that the sender closes. *)
LEMMA ClosedFacts ==
    ASSUME TypeInv, NEW i \in Ids
    PROVE  /\ Closed(i)[i] \in Stream /\ Closed(i) = [streams EXCEPT ![i] = Closed(i)[i]]
           /\ Closed(i)[i].core = streams[i].core /\ Closed(i)[i].port = streams[i].port
           /\ Closed(i)[i].snd = "closed"
<1> DEFINE r == IF streams[i].rcv = "queued" THEN "closed" ELSE streams[i].rcv
           y == [streams[i] EXCEPT !.snd = "closed", !.rcv = r]
<1>1. streams[i] \in Stream /\ Ids = DOMAIN streams /\ i \in DOMAIN streams
  BY IdFacts DEF Ids
<1>2. y \in Stream /\ y.core = streams[i].core /\ y.port = streams[i].port /\ y.snd = "closed"
  BY <1>1, ZenonT(40) DEF Stream
<1>3. Closed(i) = [streams EXCEPT ![i] = y] BY <1>1 DEF Closed, Stream
<1>4. Closed(i)[i] = y BY <1>1, <1>3
<1> HIDE DEF y
<1> QED BY <1>2, <1>3, <1>4

-----------------------------------------------------------------------------
(* What the steps do to the streams. *)
LEMMA StackStreams ==
    ASSUME TypeInv, Stack
    PROVE  /\ streams' \in Seq(Stream) /\ SameStreams /\ Ids' = Ids
           /\ \A k \in Ids : streams'[k].snd = "closed" => streams[k].snd = "closed"
<1>2. PICK i \in Ids : Answer(i) \/ Break(i) BY DEF Stack
<1>4. PICK x \in Stream :
         /\ streams' = [streams EXCEPT ![i] = x]
         /\ x.core = streams[i].core /\ x.port = streams[i].port
         /\ x.snd # "closed" /\ streams[i].snd # "closed"
  <2>1. streams[i] \in Stream BY IdFacts
  <2>2. CASE Answer(i)
    <3>1. CASE streams' = [streams EXCEPT ![i].snd = "open", ![i].rcv = "queued"]
      <4> DEFINE x == [streams[i] EXCEPT !.snd = "open", !.rcv = "queued"]
      <4>1. x \in Stream /\ x.core = streams[i].core /\ x.port = streams[i].port /\ x.snd = "open"
        BY <2>1 DEF Stream
      <4>2. streams' = [streams EXCEPT ![i] = x] BY <3>1, IdFacts DEF Ids
      <4>3. streams[i].snd = "syn" BY <2>2 DEF Answer
      <4> HIDE DEF x
      <4> QED BY <4>1, <4>2, <4>3
    <3>2. CASE streams' = [streams EXCEPT ![i].snd = "broken"]
      <4>1. streams' = [streams EXCEPT ![i] = [streams[i] EXCEPT !.snd = "broken"]]
        BY <3>2
      <4> QED BY <2>1, <2>2, <4>1, ZenonT(40) DEF Answer, Stream
    <3> QED BY <2>2, <3>1, <3>2 DEF Answer
  <2>3. CASE Break(i)
    <3>1. streams' = [streams EXCEPT ![i] = [streams[i] EXCEPT !.snd = "broken"]]
      BY <2>3 DEF Break
    <3> QED BY <2>1, <2>3, <3>1, ZenonT(40) DEF Break, Stream
  <2> QED BY <1>2, <2>2, <2>3
<1>5. /\ streams' \in Seq(Stream) /\ SameStreams /\ Ids' = Ids
      /\ \A k \in Ids : streams'[k] = IF k = i THEN x ELSE streams[k]
  BY <1>4, OneChanges
<1> QED BY <1>4, <1>5

LEMMA ReceiveStreams ==
    ASSUME TypeInv, NEW r \in Receivers, NEW e \in batch[r],
           RecvAccept(r, e) \/ RecvError(r, e)
    PROVE  /\ streams' \in Seq(Stream) /\ SameStreams /\ Ids' = Ids
           /\ \A k \in Ids : streams'[k].snd = streams[k].snd
<1> DEFINE Goal == /\ streams' \in Seq(Stream) /\ SameStreams /\ Ids' = Ids
                   /\ \A k \in Ids : streams'[k].snd = streams[k].snd
<1>1. CASE UNCHANGED streams BY <1>1, NoneChanges DEF Ids
<1>2. ASSUME NEW x, x \in {"none", "queued", "accepted", "closed"},
             streams' = [streams EXCEPT ![e.id].rcv = x]
      PROVE  Goal
  <2>1. streams \in Seq(Stream) /\ streams \in [1..Len(streams) -> Stream]
        /\ Ids = 1..Len(streams)
    BY LenProperties, IdFacts DEF TypeInv
  <2>2. CASE e.id \in Ids
    <3> DEFINE y == [streams[e.id] EXCEPT !.rcv = x]
    <3>1. streams[e.id] \in Stream BY <2>2, IdFacts
    <3>2. y \in Stream /\ y.core = streams[e.id].core /\ y.snd = streams[e.id].snd
          /\ y.port = streams[e.id].port
      BY <1>2, <3>1 DEF Stream
    <3>3. streams' = [streams EXCEPT ![e.id] = y] BY <1>2
    <3> HIDE DEF y
    <3>4. /\ streams' \in Seq(Stream) /\ SameStreams /\ Ids' = Ids
          /\ \A k \in Ids : streams'[k] = IF k = e.id THEN y ELSE streams[k]
      BY <2>2, <3>2, <3>3, OneChanges
    <3> QED BY <3>2, <3>4
  <2>3. CASE e.id \notin Ids
    <3>1. streams' = streams BY <1>2, <2>1, <2>3
    <3> QED BY <1>1, <3>1
  <2> QED BY <2>2, <2>3
<1>3. CASE streams' = [streams EXCEPT ![e.id].rcv = "closed"] BY <1>2, <1>3
<1>4. CASE streams' = [streams EXCEPT ![e.id].rcv = IF @ = "queued" THEN "accepted" ELSE @]
  <2>1. CASE e.id \in Ids /\ streams[e.id].rcv # "queued"
    <3>1. streams[e.id] \in Stream BY <2>1, IdFacts
    <3>2. streams[e.id].rcv \in {"none", "queued", "accepted", "closed"}
      BY <3>1 DEF Stream
    <3>3. streams' = [streams EXCEPT ![e.id].rcv = streams[e.id].rcv] BY <1>4, <2>1
    <3> QED BY <1>2, <3>2, <3>3
  <2>2. CASE e.id \in Ids /\ streams[e.id].rcv = "queued"
    <3>1. streams' = [streams EXCEPT ![e.id].rcv = "accepted"] BY <1>4, <2>2
    <3> QED BY <1>2, <3>1
  <2>3. CASE e.id \notin Ids
    <3>1. streams \in [1..Len(streams) -> Stream] /\ Ids = 1..Len(streams)
      BY IdFacts, LenProperties DEF TypeInv
    <3>2. streams' = streams BY <1>4, <2>3, <3>1
    <3> QED BY <1>1, <3>2
  <2> QED BY <2>1, <2>2, <2>3
<1> QED BY <1>1, <1>3, <1>4 DEF RecvAccept, RecvError

(* A stream is opened for the next port, or none is. *)
LEMMA ConnectStreams ==
    ASSUME TypeInv, NEW s \in Senders, CreateConnection(s)
    PROVE  /\ streams' \in Seq(Stream) /\ SameStreams
           /\ todo' \in [Senders -> Seq(Int)]
           /\ \A k \in Ids : streams'[k] = streams[k]
           /\ streams' = streams \/ /\ Ids' = Ids \cup {Len(streams) + 1}
                                    /\ streams'[Len(streams) + 1] =
                                          [core |-> s, port |-> Head(todo[s]),
                                           snd |-> "syn", rcv |-> "none"]
<1>1. todo[s] # <<>> /\ todo[s] \in Seq(Int) /\ todo' = [todo EXCEPT ![s] = Tail(todo[s])]
  BY DEF CreateConnection, TypeInv
<1>2. Head(todo[s]) \in Int /\ Tail(todo[s]) \in Seq(Int) BY <1>1, HeadTailProperties
<1>3. todo' \in [Senders -> Seq(Int)] BY <1>1, <1>2 DEF TypeInv
<1>4. CASE UNCHANGED streams BY <1>3, <1>4, NoneChanges
<1>5. CASE streams' = Append(streams, [core |-> s, port |-> Head(todo[s]),
                                       snd |-> "syn", rcv |-> "none"])
  <2> DEFINE x == [core |-> s, port |-> Head(todo[s]), snd |-> "syn", rcv |-> "none"]
  <2>1. x \in Stream BY <1>2 DEF Stream
  <2>2. streams' = Append(streams, x) BY <1>5
  <2> HIDE DEF x
  <2>3. /\ streams' \in Seq(Stream) /\ Len(streams') = Len(streams) + 1
        /\ \A i \in 1..Len(streams) : streams'[i] = streams[i]
        /\ streams'[Len(streams) + 1] = x
    BY <2>1, <2>2, AppendProperties DEF TypeInv
  <2>4. Ids = 1..Len(streams) /\ Len(streams) \in Nat /\ Ids' = 1..Len(streams')
    BY <2>3, IdFacts, LenProperties DEF Ids
  <2>5. Ids' = Ids \cup {Len(streams) + 1} BY <2>3, <2>4
  <2> QED BY <1>3, <2>3, <2>4, <2>5 DEF SameStreams, x
<1> QED BY <1>4, <1>5 DEF CreateConnection

(* Some streams are closed by their sender, all at once. *)
LEMMA SomeClosed ==
    ASSUME TypeInv, NEW S, NEW f, streams' = [i \in Ids |-> IF i \in S THEN f[i] ELSE streams[i]],
           \A i \in Ids : /\ f[i] \in Stream /\ f[i].core = streams[i].core
                          /\ f[i].port = streams[i].port /\ f[i].snd = "closed"
    PROVE  /\ streams' \in Seq(Stream) /\ SameStreams /\ Ids' = Ids
           /\ \A k \in Ids : streams'[k].snd = IF k \in S THEN "closed" ELSE streams[k].snd
<1>1. /\ Ids = 1..Len(streams) /\ Len(streams) \in Nat
      /\ \A i \in Ids : streams[i] \in Stream
  BY IdFacts
<1>2. \A i \in Ids :
         /\ streams'[i] \in Stream /\ streams'[i].core = streams[i].core
         /\ streams'[i].port = streams[i].port
         /\ streams'[i].snd = IF i \in S THEN "closed" ELSE streams[i].snd
  BY <1>1
<1>3. streams' \in [1..Len(streams) -> Stream] BY <1>1, <1>2
<1>4. streams' \in Seq(Stream) /\ Ids' = Ids BY <1>1, <1>3, SeqDef DEF Ids
<1> QED BY <1>2, <1>4 DEF SameStreams

Due(s) == {i \in Ids : i \in ToClose(s)}

LEMMA ScheduleStreams ==
    ASSUME TypeInv, NEW s \in Senders, Schedule(s)
    PROVE  /\ streams' \in Seq(Stream) /\ SameStreams /\ Ids' = Ids
           /\ \A k \in Ids : streams'[k].snd = IF k \in Due(s) THEN "closed" ELSE streams[k].snd
<1> DEFINE f == [i \in Ids |-> Closed(i)[i]]
<1>1. streams' = [i \in Ids |-> IF i \in Due(s) THEN f[i] ELSE streams[i]]
  BY DEF Schedule, Due
<1>2. \A i \in Ids : f[i] \in Stream /\ f[i].core = streams[i].core
                     /\ f[i].port = streams[i].port /\ f[i].snd = "closed"
  BY ClosedFacts
<1> HIDE DEF f
<1> QED BY <1>1, <1>2, SomeClosed

(* The streams of a sender. *)
OwnedBy(s) == {i \in Ids : streams[i].core = s}

LEMMA LeaveStreams ==
    ASSUME TypeInv, NEW s \in Senders, Leave(s)
    PROVE  /\ streams' \in Seq(Stream) /\ SameStreams /\ Ids' = Ids
           /\ \A k \in Ids : streams'[k].snd = IF k \in OwnedBy(s) THEN "closed"
                                               ELSE streams[k].snd
<1> DEFINE f == [i \in Ids |-> [streams[i] EXCEPT !.snd = "closed"]]
<1>1. streams' = [i \in Ids |-> IF i \in OwnedBy(s) THEN f[i] ELSE streams[i]]
  BY DEF Leave, OwnedBy
<1>2. \A i \in Ids : f[i] \in Stream /\ f[i].core = streams[i].core
                     /\ f[i].port = streams[i].port /\ f[i].snd = "closed"
  BY IdFacts DEF Stream
<1> HIDE DEF f
<1> QED BY <1>1, <1>2, SomeClosed

LEMMA CloseOne ==
    ASSUME TypeInv, NEW i \in Ids, streams' = Closed(i)
    PROVE  /\ streams' \in Seq(Stream) /\ SameStreams /\ Ids' = Ids
           /\ \A k \in Ids : streams'[k].snd = IF k = i THEN "closed" ELSE streams[k].snd
<1> DEFINE x == Closed(i)[i]
<1>1. /\ x \in Stream /\ streams' = [streams EXCEPT ![i] = x]
      /\ x.core = streams[i].core /\ x.port = streams[i].port /\ x.snd = "closed"
  BY ClosedFacts
<1> HIDE DEF x
<1>2. /\ streams' \in Seq(Stream) /\ SameStreams /\ Ids' = Ids
      /\ \A k \in Ids : streams'[k] = IF k = i THEN x ELSE streams[k]
  BY <1>1, OneChanges
<1> QED BY <1>1, <1>2

-----------------------------------------------------------------------------
(* A group of entries is filled from its front and has each stream once;   *)
(* the groups of a sender are alike.                                       *)
Filled(t) ==
    \A j, k \in Conns : /\ t[j] = 0 /\ j < k => t[k] = 0
                        /\ t[j] = t[k] => j = k \/ t[j] = 0

LEMMA RecordFacts ==
    ASSUME MultiAssumption, NEW t \in [Conns -> Nat], NEW id \in Nat \ {0}, Filled(t)
    PROVE  /\ Record(t, id) \in [Conns -> Nat] /\ Filled(Record(t, id))
           /\ \A k \in Conns : Record(t, id)[k] \in {t[k], id}
           /\ (\A k \in Conns : t[k] # 0) => Record(t, id) = t
<1>1. Conns \subseteq Nat BY DEF MultiAssumption, Conns
<1>2. DOMAIN t = Conns OBVIOUS
<1> DEFINE hit == {j \in Conns : t[j] \in {0, id}}
           first(j) == j \in hit /\ \A k \in hit : j <= k
           u == [j \in Conns |-> IF first(j) THEN id ELSE t[j]]
<1>3. u = Record(t, id) BY <1>2 DEF Record
<1>4. \A j \in Conns : u[j] = IF first(j) THEN id ELSE t[j] OBVIOUS
<1>5. \A j, k \in Conns : first(j) /\ first(k) => j = k BY <1>1
<1>6. \A j, k \in Conns : first(j) /\ k < j => t[k] # 0 /\ t[k] # id BY <1>1
<1>7. \A j, k \in Conns : first(j) /\ j < k => t[k] # id BY <1>1 DEF Filled
<1>8. \A j \in Conns : first(j) => t[j] \in {0, id} OBVIOUS
<1>9. u \in [Conns -> Nat] OBVIOUS
<1> HIDE DEF hit, u, first
<1>10. Filled(u)
  <2> SUFFICES ASSUME NEW j \in Conns, NEW k \in Conns
               PROVE  /\ u[j] = 0 /\ j < k => u[k] = 0
                      /\ u[j] = u[k] => j = k \/ u[j] = 0
    BY DEF Filled
  <2>1. /\ t[j] = 0 /\ j < k => t[k] = 0
        /\ t[j] = t[k] => j = k \/ t[j] = 0
    BY DEF Filled
  <2>2. j \in Nat /\ k \in Nat BY <1>1
  <2>3. CASE first(j) BY <1>4, <1>5, <1>6, <1>7, <2>1, <2>2, <2>3
  <2>4. CASE first(k) /\ ~first(j)
    <3>1. u[k] = id /\ u[j] = t[j] /\ j # k BY <1>4, <2>4
    <3>2. t[j] # id /\ (j < k => t[j] # 0) BY <1>6, <1>7, <2>2, <2>4, <3>1
    <3> QED BY <3>1, <3>2
  <2>5. CASE ~first(j) /\ ~first(k) BY <1>4, <2>1, <2>5
  <2> QED BY <2>3, <2>4, <2>5
<1>11. \A k \in Conns : u[k] \in {t[k], id} BY <1>4
<1>12. (\A k \in Conns : t[k] # 0) => u = t
  <2> SUFFICES ASSUME \A k \in Conns : t[k] # 0 PROVE u = t OBVIOUS
  <2>1. \A k \in Conns : u[k] = t[k] BY <1>4, <1>8
  <2> QED BY <1>9, <2>1
<1> QED BY <1>3, <1>9, <1>10, <1>11, <1>12

-----------------------------------------------------------------------------
(* The ports of the flows that are due, as many of each as it has streams. *)
LEMMA PortFacts ==
    ASSUME ThreadsAssumption, MultiAssumption, NEW s \in Senders
    PROVE  /\ \A j \in Flows : \A k \in Conns : Port(s, j, k) \in Int
           /\ \A k \in Conns : Port(s, 0, k) \in ListenPorts(NPairs + s)
<1>1. /\ NFlows \in Nat \ {0} /\ Connection \in Nat \ {0} /\ MaxFnum \in Nat \ {0}
      /\ NPairs \in Nat \ {0} /\ s \in Nat
  BY CoreFacts DEF MultiAssumption, ThreadsAssumption
<1>2. PerPortNum \in Nat /\ PerFlowNum \in Nat
  <2>1. PerPortNum \in Nat BY <1>1, Quotient DEF PerPortNum
  <2> QED BY <1>1, <2>1, Quotient DEF PerFlowNum
<1>3. PerFlowNum <= PerPortNum
  <2>1. PerFlowNum * NFlows <= PerPortNum /\ PerFlowNum * NFlows \in Nat
    BY <1>1, <1>2, Quotient DEF PerFlowNum
  <2>2. PerFlowNum * 1 <= PerFlowNum * NFlows BY <1>1, <1>2, TimesMonotone
  <2> QED BY <1>2, <2>1, <2>2
<1>4. \A x \in Nat : PortOf(x) \in Int BY <1>1 DEF PortOf, NORMAL
<1>5. ASSUME NEW j \in Flows, NEW k \in Conns PROVE Port(s, j, k) \in Int
  <2>1. j \in Nat /\ k \in Nat BY <1>1 DEF Flows, Conns
  <2>2. s * PerPortNum \in Nat /\ j * PerPortNum \in Nat BY <1>1, <1>2, <2>1
  <2>3. s * PerPortNum + j * PerPortNum + k \in Nat BY <2>1, <2>2
  <2> QED BY <1>4, <2>3 DEF Port
<1>6. ASSUME NEW k \in Conns PROVE Port(s, 0, k) \in ListenPorts(NPairs + s)
  <2>1. k \in 0..(PerPortNum - 1)
    BY <1>1, <1>2, <1>3 DEF Conns, MultiAssumption
  <2>2. (NPairs + s) - NPairs = s BY <1>1
  <2>3. s * PerPortNum + 0 * PerPortNum + k = s * PerPortNum + k
    <3>1. s * PerPortNum \in Nat /\ 0 * PerPortNum = 0 BY <1>1, <1>2
    <3> QED BY <2>1, <3>1
  <2> QED BY <2>1, <2>2, <2>3 DEF Port, ListenPorts
<1> QED BY <1>5, <1>6

DuePorts(s) == {Port(s, j, k) : j \in ToStart(s), k \in Conns}

LEMMA ConnectFacts ==
    ASSUME ThreadsAssumption, MultiAssumption, NEW s \in Senders
    PROVE  /\ ToConnect(s) \in Seq(DuePorts(s))
           /\ Len(ToConnect(s)) = Cardinality(ToStart(s)) * Connection
           /\ Cardinality(ToStart(s)) \in Nat /\ IsFiniteSet(ToStart(s))
<1> DEFINE S == ToStart(s)
           C == Cardinality(S)
           P == {Port(s, j, k) : j \in S, k \in Conns}
           flow(n) == CHOOSE f \in S : Cardinality({g \in S : g < f}) = (n - 1) \div Connection
           q == [n \in 1..(C * Connection) |-> Port(s, flow(n), (n - 1) % Connection)]
<1>1. NFlows \in Nat /\ Connection \in Nat \ {0} /\ S \in SUBSET (0..(NFlows - 1))
  BY DEF MultiAssumption, ToStart, Flows
<1>2. IsFiniteSet(S) /\ C \in Nat
  <2>1. NFlows - 1 \in Int /\ 0 \in Int BY <1>1
  <2>2. IsFiniteSet(0..(NFlows - 1)) BY <2>1, FS_Interval
  <2> QED BY <1>1, <2>2, FS_Subset, FS_CardinalityType
<1>3. q = ToConnect(s) BY DEF ToConnect
<1> HIDE DEF S
<1>4. ASSUME NEW n \in 1..(C * Connection)
      PROVE  flow(n) \in S /\ (n - 1) % Connection \in Conns
  <2>1. C * Connection \in Nat BY <1>1, <1>2
  <2>2. n - 1 \in 0..(C * Connection - 1) BY <2>1
  <2>3. (n - 1) \div Connection \in 0..(C - 1) /\ (n - 1) % Connection \in Conns
    BY <1>1, <1>2, <2>2, DigitsOf DEF Conns
  <2>4. (n - 1) \div Connection + 1 \in 1..C BY <1>2, <2>3
  <2>5. \E f \in S : Cardinality(Smaller(S, f)) = ((n - 1) \div Connection + 1) - 1
    BY <1>1, <2>4, PlaceOf
  <2>6. ((n - 1) \div Connection + 1) - 1 = (n - 1) \div Connection BY <1>2, <2>3
  <2>7. \E f \in S : Cardinality({g \in S : g < f}) = (n - 1) \div Connection
    BY <2>5, <2>6 DEF Smaller
  <2> QED BY <2>3, <2>7
<1>5. \A n \in 1..(C * Connection) : Port(s, flow(n), (n - 1) % Connection) \in P
  <2> HIDE DEF flow
  <2> QED BY <1>4
<1>6. q \in [1..(C * Connection) -> P]
  <2> HIDE DEF flow, P
  <2> QED BY <1>5
<1>7. C * Connection \in Nat BY <1>1, <1>2
<1> HIDE DEF q, P, C
<1>8. q \in Seq(P) BY <1>6, <1>7, SeqDef
<1>9. Len(q) = C * Connection
  <2>1. DOMAIN q = 1..Len(q) /\ Len(q) \in Nat BY <1>8, LenProperties
  <2> QED BY <1>6, <1>7, <2>1
<1> QED BY <1>2, <1>3, <1>8, <1>9 DEF DuePorts, S, C, P

-----------------------------------------------------------------------------
(* The invariant.  What a sender has left of its batch is about streams of *)
(* its own that it has not closed, one event per stream, and only while it *)
(* deals with it; the entries of its groups are streams of its own.        *)
BatchOwned(s) ==
    /\ \A e \in batch[s] : /\ e.id \in Ids /\ streams[e.id].core = s
                           /\ streams[e.id].snd # "closed"
    /\ \A x, y \in batch[s] : x.id = y.id => x = y
    /\ batch[s] # {} => pc[s] = "events"
EvidOwned(s) ==
    \A j \in Flows :
       /\ Filled(evid[s][j]) /\ evid[s][j] = evid[s][0]
       /\ \A k \in Conns : evid[s][j][k] # 0 => evid[s][j][k] \in OwnedBy(s)
Owned == \A s \in Senders : BatchOwned(s) /\ EvidOwned(s)

MultiInv == TypeInv /\ Owned

LEMMA KeptOwn ==
    ASSUME SameStreams, NEW s \in Senders PROVE OwnedBy(s) \subseteq OwnedBy(s)'
BY DEF SameStreams, OwnedBy

(* Steps that leave the groups alone and bring no new events. *)
LEMMA KeptStep ==
    ASSUME ThreadsAssumption, Owned, SameStreams, UNCHANGED evid,
           \A s \in Senders : /\ batch'[s] \subseteq batch[s]
                              /\ batch'[s] # {} => pc'[s] = "events"
                              /\ \A e \in batch'[s] : streams'[e.id].snd # "closed"
    PROVE  Owned'
<1>1. ASSUME NEW s \in Senders PROVE BatchOwned(s)' /\ EvidOwned(s)'
  <2>1. BatchOwned(s) /\ EvidOwned(s) BY DEF Owned
  <2>2. \A e \in batch'[s] : e.id \in Ids' /\ streams'[e.id].core = s
    BY <2>1 DEF BatchOwned, SameStreams
  <2>3. BatchOwned(s)' BY <2>1, <2>2 DEF BatchOwned
  <2>4. OwnedBy(s) \subseteq OwnedBy(s)' BY KeptOwn
  <2>5. EvidOwned(s)' BY <2>1, <2>4 DEF EvidOwned, Filled
  <2> QED BY <2>3, <2>5
<1> QED BY <1>1 DEF Owned

(* Of these, a thread goes on that is not at its events. *)
LEMMA QuietStep ==
    ASSUME ThreadsAssumption, MultiInv, UNCHANGED <<todo, streams, batch, own>>,
           NEW c \in Cores, NEW step \in Stages, Goto(c, step), pc[c] # "events"
    PROVE  MultiInv'
<1>1. TypeInv /\ Owned BY DEF MultiInv
<1>2. TypeInv' BY <1>1 DEF TypeInv, Goto, own
<1>3. SameStreams BY <1>1, NoneChanges
<1>4. ASSUME NEW s \in Senders
      PROVE  /\ batch'[s] # {} => pc'[s] = "events"
             /\ \A e \in batch'[s] : streams'[e.id].snd # "closed"
  <2>1. BatchOwned(s) /\ s \in Cores BY <1>1, CoreFacts DEF Owned
  <2>2. pc[s] = "events" => pc'[s] = "events" BY <1>1, <2>1 DEF TypeInv, Goto
  <2> QED BY <2>1, <2>2 DEF BatchOwned
<1> QED BY <1>1, <1>2, <1>3, <1>4, KeptStep DEF MultiInv, own

(* Or no thread goes on: the stack, the clock and main. *)
LEMMA IdleStep ==
    ASSUME ThreadsAssumption, MultiInv, TypeInv', SameStreams, UNCHANGED <<pc, batch, evid>>,
           \A i \in Ids : streams'[i].snd = "closed" => streams[i].snd = "closed"
    PROVE  MultiInv'
<1>1. Owned BY DEF MultiInv
<1>2. \A s \in Senders : /\ batch'[s] # {} => pc'[s] = "events"
                         /\ \A e \in batch'[s] : streams'[e.id].snd # "closed"
  BY <1>1 DEF Owned, BatchOwned
<1> QED BY <1>1, <1>2, KeptStep DEF MultiInv

LEMMA SetUpStep ==
    ASSUME ThreadsAssumption, MultiAssumption, MultiInv, NEW c \in Cores,
           SetUp(c) \/ (c \in Senders /\ SpuriousWakeup(c) /\ UNCHANGED own)
    PROVE  MultiInv'
<1>0. UNCHANGED own BY DEF SetUp
<1>1. TypeInv /\ Owned BY DEF MultiInv
<1>2. CASE \/ StartThread(c) \/ CreateContext(c) \/ RunContext(c)
           \/ c \in Senders /\ (TestReady(c) \/ CondWait(c) \/ SpuriousWakeup(c))
           \/ c \in Receivers /\ (ServicePortConfig(c) \/ SetReady(c))
  <2>1. PICK step \in Stages : Goto(c, step)
    BY <1>2 DEF StartThread, CreateContext, RunContext, TestReady, CondWait, SpuriousWakeup,
                ServicePortConfig, SetReady, Stages
  <2>2. pc[c] # "events" /\ UNCHANGED <<todo, streams, batch>>
    BY <1>2 DEF StartThread, CreateContext, RunContext, TestReady, CondWait, SpuriousWakeup,
                ServicePortConfig, SetReady, At
  <2> QED BY <1>0, <2>1, <2>2, QuietStep
<1>3. CASE c \in Senders /\ CreateConnection(c)
  <2>1. /\ streams' \in Seq(Stream) /\ SameStreams /\ todo' \in [Senders -> Seq(Int)]
        /\ \A i \in Ids : streams'[i] = streams[i]
    BY <1>1, <1>3, ConnectStreams
  <2>2. UNCHANGED <<pc, batch>> BY <1>3 DEF CreateConnection
  <2>3. TypeInv' BY <1>0, <1>1, <2>1, <2>2 DEF TypeInv, own
  <2> QED BY <1>0, <2>1, <2>2, <2>3, IdleStep DEF own
<1>4. CASE c \in Receivers /\ CondSignal(c)
  <2>1. UNCHANGED <<todo, streams, batch>> BY <1>4 DEF CondSignal
  <2>2. TypeInv' BY <1>0, <1>1, <1>4, <2>1, CoreFacts DEF TypeInv, CondSignal, Stages, own
  <2>3. SameStreams BY <1>1, <2>1, NoneChanges
  <2>4. ASSUME NEW s \in Senders
        PROVE  /\ batch'[s] # {} => pc'[s] = "events"
               /\ \A e \in batch'[s] : streams'[e.id].snd # "closed"
    <3>1. BatchOwned(s) /\ s \in Cores /\ s # c BY <1>1, <1>4, CoreFacts DEF Owned
    <3>2. pc[s] = "events" => pc'[s] = "events" BY <1>4, <3>1 DEF CondSignal
    <3> QED BY <2>1, <3>1, <3>2 DEF BatchOwned
  <2> QED BY <1>0, <1>1, <2>1, <2>2, <2>3, <2>4, KeptStep DEF MultiInv, own
<1> QED BY <1>2, <1>3, <1>4 DEF SetUp

-----------------------------------------------------------------------------
(* A thread gets some of the events there are. *)
LEMMA WaitStep ==
    ASSUME ThreadsAssumption, MultiInv, NEW c \in Cores, EpollWait(c), UNCHANGED own
    PROVE  MultiInv'
<1>1. TypeInv /\ Owned BY DEF MultiInv
<1>2. /\ UNCHANGED <<streams, todo, evid>>
      /\ pc' = [pc EXCEPT ![c] = "events"] /\ pc[c] = "epoll"
  BY DEF EpollWait, Goto, At, own
<1>3. PICK b \in SUBSET Events(c) :
         /\ \A x, y \in b : x.id = y.id => x = y
         /\ batch' = [batch EXCEPT ![c] = b]
  BY DEF EpollWait
<1>4. Ids \subseteq Nat \ {0} BY <1>1, IdFacts
<1>5. Events(c) \subseteq Event
  BY <1>4 DEF Events, SenderEvents, ReceiverEvents, Event
<1>6. TypeInv' BY <1>1, <1>2, <1>3, <1>5 DEF TypeInv, Stages, own
<1>7. \A d \in Cores : /\ batch'[d] = IF d = c THEN b ELSE batch[d]
                       /\ pc'[d] = IF d = c THEN "events" ELSE pc[d]
  BY <1>1, <1>2, <1>3 DEF TypeInv
<1>8. ASSUME NEW s \in Senders PROVE BatchOwned(s)'
  <2>1. BatchOwned(s) /\ s \in Cores BY <1>1, CoreFacts DEF Owned
  <2>2. CASE s = c
    <3>1. \A e \in b : /\ e.id \in Ids /\ streams[e.id].core = s
                       /\ streams[e.id].snd # "closed"
      BY <1>3, <2>2 DEF Events, SenderEvents
    <3> QED BY <1>2, <1>3, <1>7, <2>1, <2>2, <3>1 DEF BatchOwned, Ids
  <2>3. CASE s # c BY <1>2, <1>7, <2>1, <2>3 DEF BatchOwned, Ids
  <2> QED BY <2>2, <2>3
<1>9. \A s \in Senders : OwnedBy(s)' = OwnedBy(s) BY <1>2 DEF OwnedBy, Ids
<1>10. \A s \in Senders : EvidOwned(s)' BY <1>1, <1>2, <1>9 DEF Owned, EvidOwned, Filled
<1> QED BY <1>6, <1>8, <1>10 DEF MultiInv, Owned

(* An event is taken from the batch. *)
LEMMA TakeFacts ==
    ASSUME ThreadsAssumption, MultiInv, NEW c \in Cores, NEW e \in batch[c], Take(c, e)
    PROVE  /\ pc' \in [Cores -> Stages] /\ batch' \in [Cores -> SUBSET Event]
           /\ e \in Event /\ pc[c] = "events"
           /\ \A d \in Cores : batch'[d] = IF d = c THEN batch[d] \ {e} ELSE batch[d]
           /\ \A s \in Senders : /\ batch'[s] \subseteq batch[s]
                                 /\ s = c => e \notin batch'[s]
                                 /\ batch'[s] # {} => pc'[s] = "events"
<1>1. pc \in [Cores -> Stages] /\ batch \in [Cores -> SUBSET Event] BY DEF MultiInv, TypeInv
<1>2. /\ batch' = [batch EXCEPT ![c] = batch[c] \ {e}] /\ pc[c] = "events"
      /\ pc' = [pc EXCEPT ![c] = IF batch[c] = {e} THEN "loop" ELSE "events"]
  BY DEF Take, Goto, At
<1>3. pc' \in [Cores -> Stages] /\ batch' \in [Cores -> SUBSET Event]
  BY <1>1, <1>2 DEF Stages
<1>4. \A d \in Cores : batch'[d] = IF d = c THEN batch[d] \ {e} ELSE batch[d]
  BY <1>1, <1>2
<1>5. ASSUME NEW s \in Senders PROVE batch'[s] # {} => pc'[s] = "events"
  <2>1. batch[s] # {} => pc[s] = "events" BY DEF MultiInv, Owned, BatchOwned
  <2>2. s \in Cores BY CoreFacts
  <2>3. CASE s = c BY <1>1, <1>2, <2>2, <2>3
  <2>4. CASE s # c BY <1>1, <1>2, <2>1, <2>2, <2>4
  <2> QED BY <2>3, <2>4
<1>6. \A s \in Senders : batch'[s] \subseteq batch[s] /\ (s = c => e \notin batch'[s])
  BY <1>4, CoreFacts
<1> QED BY <1>1, <1>2, <1>3, <1>4, <1>5, <1>6

(* Of these, the steps that change the streams at most and only so that no *)
(* sender has an event left of one that is closed.                         *)
LEMMA EventStep ==
    ASSUME ThreadsAssumption, MultiInv, NEW c \in Cores, NEW e \in batch[c], Take(c, e),
           UNCHANGED <<todo, elapsed, begun, ended, evid>>, streams' \in Seq(Stream), SameStreams,
           \A s \in Senders : \A x \in batch'[s] : streams'[x.id].snd # "closed"
    PROVE  MultiInv'
<1>1. TypeInv /\ Owned BY DEF MultiInv
<1>2. TypeInv' BY <1>1, TakeFacts DEF TypeInv
<1>3. \A s \in Senders : /\ batch'[s] \subseteq batch[s]
                         /\ batch'[s] # {} => pc'[s] = "events"
  BY TakeFacts
<1> QED BY <1>1, <1>2, <1>3, KeptStep DEF MultiInv

LEMMA TransferStep ==
    ASSUME ThreadsAssumption, MultiInv, NEW c \in Cores, NEW e \in batch[c],
           Transfer(c, e), UNCHANGED <<elapsed, begun, ended, evid>>
    PROVE  MultiInv'
<1>1. UNCHANGED <<streams, todo>> /\ Take(c, e) BY DEF Transfer
<1>2. streams' \in Seq(Stream) /\ SameStreams BY <1>1, NoneChanges DEF MultiInv
<1>3. \A s \in Senders : \A x \in batch'[s] : streams'[x.id].snd # "closed"
  <2> SUFFICES ASSUME NEW s \in Senders, NEW x \in batch'[s]
               PROVE  streams'[x.id].snd # "closed"
    OBVIOUS
  <2>1. x \in batch[s] BY <1>1, TakeFacts
  <2>2. streams[x.id].snd # "closed" BY <2>1 DEF MultiInv, Owned, BatchOwned
  <2> QED BY <1>1, <2>2
<1> QED BY <1>1, <1>2, <1>3, EventStep DEF own

LEMMA ReceiveStep ==
    ASSUME ThreadsAssumption, MultiInv, NEW r \in Receivers, NEW e \in batch[r],
           RecvAccept(r, e) \/ RecvError(r, e), UNCHANGED own
    PROVE  MultiInv'
<1>1. UNCHANGED todo /\ Take(r, e) /\ r \in Cores
  BY CoreFacts DEF RecvAccept, RecvError
<1>2. /\ streams' \in Seq(Stream) /\ SameStreams
      /\ \A i \in Ids : streams'[i].snd = streams[i].snd
  BY ReceiveStreams DEF MultiInv
<1>3. ASSUME NEW s \in Senders, NEW x \in batch'[s] PROVE streams'[x.id].snd # "closed"
  <2>1. x \in batch[s] BY <1>1, TakeFacts, CoreFacts
  <2>2. x.id \in Ids /\ streams[x.id].snd # "closed"
    BY <2>1 DEF MultiInv, Owned, BatchOwned
  <2> QED BY <1>2, <2>2
<1> QED BY <1>1, <1>2, <1>3, EventStep DEF own

(* A broken stream is closed: it had only one event in the batch, and no   *)
(* other sender has one.                                                   *)
LEMMA ErrorStep ==
    ASSUME ThreadsAssumption, MultiInv, NEW s \in Senders, NEW e \in batch[s], SendError(s, e)
    PROVE  MultiInv'
<1>1. UNCHANGED <<todo, own>> /\ Take(s, e) /\ s \in Cores
  BY CoreFacts DEF SendError
<1>2. e.id \in Ids /\ streams[e.id].core = s BY DEF MultiInv, Owned, BatchOwned
<1>3. /\ streams' \in Seq(Stream) /\ SameStreams
      /\ \A i \in Ids : streams'[i].snd = IF i = e.id THEN "closed" ELSE streams[i].snd
  BY <1>2, CloseOne DEF MultiInv, SendError
<1>4. ASSUME NEW u \in Senders, NEW x \in batch'[u] PROVE streams'[x.id].snd # "closed"
  <2>1. x \in batch[u] /\ (u = s => x # e) BY <1>1, TakeFacts
  <2>2. /\ x.id \in Ids /\ streams[x.id].core = u /\ streams[x.id].snd # "closed"
        /\ u = s /\ x.id = e.id => x = e
    BY <2>1 DEF MultiInv, Owned, BatchOwned
  <2> QED BY <1>2, <1>3, <2>1, <2>2
<1> QED BY <1>1, <1>3, <1>4, EventStep DEF own

(* A sender records a stream of its own in every group. *)
LEMMA WriteStep ==
    ASSUME ThreadsAssumption, MultiAssumption, MultiInv, NEW s \in Senders, NEW e \in batch[s],
           SendWrite(s, e)
    PROVE  MultiInv'
<1>1. /\ UNCHANGED <<todo, streams, elapsed, begun, ended, slot>>
      /\ Take(s, e) /\ s \in Cores
  BY CoreFacts DEF SendWrite
<1>2. TypeInv /\ Owned BY DEF MultiInv
<1>3. e \in Event /\ e.id \in Nat \ {0} BY <1>1, TakeFacts DEF Event
<1>4. e.id \in OwnedBy(s) BY <1>2 DEF Owned, BatchOwned, OwnedBy
<1>5. evid[s] \in [Flows -> [Conns -> Nat]] /\ EvidOwned(s) BY <1>2 DEF TypeInv, Owned
<1> DEFINE g(j) == Record(evid[s][j], e.id)
<1>6. \A j \in Flows : /\ g(j) \in [Conns -> Nat] /\ Filled(g(j)) /\ g(j) = g(0)
                       /\ \A k \in Conns : g(j)[k] \in {evid[s][j][k], e.id}
  <2> SUFFICES ASSUME NEW j \in Flows
               PROVE  /\ g(j) \in [Conns -> Nat] /\ Filled(g(j)) /\ g(j) = g(0)
                      /\ \A k \in Conns : g(j)[k] \in {evid[s][j][k], e.id}
    OBVIOUS
  <2>1. evid[s][j] \in [Conns -> Nat] /\ Filled(evid[s][j]) /\ evid[s][j] = evid[s][0]
    BY <1>5 DEF EvidOwned
  <2> QED BY <1>3, <2>1, RecordFacts
<1>7. evid' = [evid EXCEPT ![s] = [j \in Flows |-> g(j)]] BY DEF SendWrite
<1> HIDE DEF g
<1>8. evid' \in [Senders -> [Flows -> [Conns -> Nat]]]
      /\ \A u \in Senders : evid'[u] = IF u = s THEN [j \in Flows |-> g(j)] ELSE evid[u]
  BY <1>2, <1>6, <1>7 DEF TypeInv
<1>9. TypeInv' BY <1>1, <1>2, <1>8, TakeFacts DEF TypeInv
<1>10. \A u : OwnedBy(u)' = OwnedBy(u) BY <1>1 DEF OwnedBy, Ids
<1>11. 0 \in Flows BY DEF MultiAssumption, Flows
<1>12. ASSUME NEW u \in Senders PROVE EvidOwned(u)'
  <2>1. CASE u = s
    <3>1. \A j \in Flows : evid'[u][j] = g(j) BY <1>8, <2>1
    <3>2. \A j \in Flows : \A k \in Conns :
             evid'[u][j][k] # 0 => evid'[u][j][k] \in OwnedBy(u)
      BY <1>4, <1>5, <1>6, <2>1, <3>1 DEF EvidOwned
    <3>3. \A j \in Flows : Filled(evid'[u][j]) /\ evid'[u][j] = evid'[u][0]
      BY <1>6, <1>11, <3>1
    <3> QED BY <1>10, <3>2, <3>3 DEF EvidOwned, Filled
  <2>2. CASE u # s
    <3>1. evid'[u] = evid[u] /\ EvidOwned(u) BY <1>2, <1>8, <2>2 DEF Owned
    <3> QED BY <1>10, <3>1 DEF EvidOwned, Filled
  <2> QED BY <2>1, <2>2
<1>13. ASSUME NEW u \in Senders PROVE BatchOwned(u)'
  <2>1. BatchOwned(u) BY <1>2 DEF Owned
  <2>2. batch'[u] \subseteq batch[u] /\ (batch'[u] # {} => pc'[u] = "events")
    BY <1>1, TakeFacts
  <2> QED BY <1>1, <2>1, <2>2 DEF BatchOwned, Ids
<1> QED BY <1>9, <1>12, <1>13 DEF MultiInv, Owned

-----------------------------------------------------------------------------
(* A sender that is not at its events goes on, and closes streams of its   *)
(* own: by the time table, or when it leaves.                              *)
LEMMA ClosingStep ==
    ASSUME ThreadsAssumption, MultiInv, TypeInv', NEW s \in Senders, pc[s] # "events",
           NEW step, Goto(s, step), UNCHANGED <<batch, evid>>, SameStreams,
           \A i \in Ids : streams[i].core # s => streams'[i].snd = streams[i].snd
    PROVE  MultiInv'
<1>1. TypeInv /\ Owned BY DEF MultiInv
<1>2. ASSUME NEW u \in Senders
      PROVE  /\ batch'[u] # {} => pc'[u] = "events"
             /\ \A e \in batch'[u] : streams'[e.id].snd # "closed"
  <2>1. BatchOwned(u) /\ u \in Cores BY <1>1, CoreFacts DEF Owned
  <2>2. CASE u = s
    <3>1. batch'[u] = {} BY <2>1, <2>2 DEF BatchOwned
    <3> QED BY <3>1
  <2>3. CASE u # s
    <3>1. pc'[u] = pc[u] BY <1>1, <2>1, <2>3 DEF TypeInv, Goto
    <3>2. ASSUME NEW e \in batch'[u] PROVE streams'[e.id].snd # "closed"
      <4>1. /\ e.id \in Ids /\ streams[e.id].core = u
            /\ streams[e.id].snd # "closed"
        BY <2>1 DEF BatchOwned
      <4> QED BY <2>3, <4>1
    <3> QED BY <2>1, <3>1, <3>2 DEF BatchOwned
  <2> QED BY <2>2, <2>3
<1> QED BY <1>1, <1>2, KeptStep DEF MultiInv

LEMMA ScheduleStep ==
    ASSUME ThreadsAssumption, MultiAssumption, MultiInv, NEW s \in Senders, Schedule(s)
    PROVE  MultiInv'
<1>1. TypeInv /\ Owned /\ s \in Cores BY CoreFacts DEF MultiInv
<1>2. /\ UNCHANGED <<batch, elapsed, evid, slot>> /\ pc[s] # "events"
      /\ todo' = [todo EXCEPT ![s] = ToConnect(s)]
      /\ begun' = [begun EXCEPT ![s] = begun[s] \cup ToStart(s)]
      /\ ended' = [ended EXCEPT ![s] = ended[s] \cup ToEnd(s)]
  BY DEF Schedule, At
<1>3. PICK step \in {"break", "epoll"} : Goto(s, step) BY DEF Schedule
<1>4. begun[s] \subseteq Flows /\ ended[s] \subseteq Flows BY <1>1 DEF TypeInv
<1>5. ToStart(s) \subseteq Flows /\ ToEnd(s) \subseteq Flows
  BY <1>4 DEF ToStart, ToEnd
<1>6. ToConnect(s) \in Seq(Int)
  <2>1. ToConnect(s) \in Seq(DuePorts(s)) BY ConnectFacts
  <2>2. DuePorts(s) \subseteq Int BY <1>5, PortFacts DEF DuePorts
  <2> QED BY <2>1, <2>2, SeqMonotonic
<1>7. /\ streams' \in Seq(Stream) /\ SameStreams
      /\ \A i \in Ids : streams'[i].snd = IF i \in Due(s) THEN "closed" ELSE streams[i].snd
  BY <1>1, ScheduleStreams
<1>8. pc' \in [Cores -> Stages] BY <1>1, <1>3 DEF TypeInv, Goto, Stages
<1>9. TypeInv' BY <1>1, <1>2, <1>4, <1>5, <1>6, <1>7, <1>8 DEF TypeInv
<1>10. \A i \in Due(s) : streams[i].core = s
  <2> SUFFICES ASSUME NEW i \in Ids, NEW j \in ToEnd(s), NEW k \in Conns, evid[s][j][k] = i
               PROVE  streams[i].core = s
    BY DEF Due, ToClose
  <2>1. i # 0 BY <1>1, IdFacts
  <2>2. i \in OwnedBy(s) BY <1>1, <1>5, <2>1 DEF Owned, EvidOwned
  <2> QED BY <2>2 DEF OwnedBy
<1> QED BY <1>1, <1>2, <1>3, <1>7, <1>9, <1>10, ClosingStep

LEMMA OutStep ==
    ASSUME ThreadsAssumption, MultiInv, NEW s \in Senders, SendOut(s)
    PROVE  MultiInv'
<1>1. TypeInv BY DEF MultiInv
<1>2. /\ UNCHANGED <<batch, todo, own>> /\ pc[s] # "events"
      /\ Leave(s) /\ Goto(s, "out")
  BY DEF SendOut, At, Leave
<1>3. /\ streams' \in Seq(Stream) /\ SameStreams
      /\ \A i \in Ids : streams'[i].snd = IF i \in OwnedBy(s) THEN "closed"
                                          ELSE streams[i].snd
  BY <1>1, <1>2, LeaveStreams
<1>4. TypeInv' BY <1>1, <1>2, <1>3 DEF TypeInv, Goto, Stages, own
<1> QED BY <1>2, <1>3, <1>4, ClosingStep DEF OwnedBy, own

-----------------------------------------------------------------------------
LEMMA MultiStart == ASSUME ThreadsAssumption, MultiAssumption, Init PROVE MultiInv
<1>1. TypeInv BY CoreFacts DEF Init, ThreadsInit, TypeInv, Stages
<1>2. Conns \subseteq Nat /\ 0 \in Flows BY DEF MultiAssumption, Conns, Flows
<1>3. \A s \in Senders : BatchOwned(s)
  BY CoreFacts DEF Init, ThreadsInit, BatchOwned
<1>4. \A s \in Senders : \A j \in Flows : evid[s][j] = [k \in Conns |-> 0] BY DEF Init
<1>5. \A s \in Senders : EvidOwned(s) BY <1>2, <1>4 DEF EvidOwned, Filled
<1> QED BY <1>1, <1>3, <1>5 DEF MultiInv, Owned

LEMMA MultiNext ==
    ASSUME ThreadsAssumption, MultiAssumption, MultiInv, [Next]_vars PROVE MultiInv'
<1>1. TypeInv BY DEF MultiInv
<1>2. ASSUME UNCHANGED <<pc, batch, streams, todo, begun, ended, evid>>,
             elapsed' \in [Senders -> Nat]
      PROVE  MultiInv'
  <2>1. TypeInv' BY <1>1, <1>2 DEF TypeInv
  <2> QED BY <1>1, <1>2, <2>1, NoneChanges, IdleStep
<1>3. CASE Abort /\ UNCHANGED own BY <1>1, <1>2, <1>3 DEF Abort, own, TypeInv
<1>4. CASE Sigint /\ UNCHANGED own BY <1>1, <1>2, <1>4 DEF Sigint, own, TypeInv
<1>5. CASE MainReturn BY <1>1, <1>2, <1>5 DEF MainReturn, own, TypeInv
<1>6. CASE UNCHANGED vars BY <1>1, <1>2, <1>6 DEF vars, own, TypeInv
<1>7. ASSUME NEW s \in Senders, Tick(s) PROVE MultiInv'
  BY <1>1, <1>2, <1>7 DEF Tick, TypeInv
<1>8. CASE Stack /\ UNCHANGED own
  <2>1. /\ streams' \in Seq(Stream) /\ SameStreams
        /\ \A i \in Ids : streams'[i].snd = "closed" => streams[i].snd = "closed"
    BY <1>1, <1>8, StackStreams
  <2>2. UNCHANGED <<pc, batch, todo, own>> BY <1>8 DEF Stack, Answer, Break
  <2>3. TypeInv' BY <1>1, <2>1, <2>2 DEF TypeInv, own
  <2> QED BY <2>1, <2>2, <2>3, IdleStep DEF own
<1>9. ASSUME NEW s \in Senders, SpuriousWakeup(s), UNCHANGED own PROVE MultiInv'
  BY <1>9, SetUpStep, CoreFacts
<1>10. ASSUME NEW s \in Senders, RunSendContext(s) PROVE MultiInv'
  <2>1. CASE Schedule(s) BY <2>1, ScheduleStep
  <2>2. CASE SendOut(s) BY <2>2, OutStep
  <2>3. CASE EpollWait(s) /\ UNCHANGED own BY <2>3, WaitStep, CoreFacts
  <2>4. ASSUME NEW e \in batch[s], SendWrite(s, e) PROVE MultiInv' BY <2>4, WriteStep
  <2>5. ASSUME NEW e \in batch[s], SendError(s, e) PROVE MultiInv' BY <2>5, ErrorStep
  <2>6. ASSUME NEW e \in batch[s], Transfer(s, e), UNCHANGED own PROVE MultiInv'
    BY <2>6, TransferStep, CoreFacts DEF own
  <2> QED BY <1>10, <2>1, <2>2, <2>3, <2>4, <2>5, <2>6 DEF RunSendContext
<1>11. ASSUME NEW r \in Receivers, RunReceiver(r) PROVE MultiInv'
  <2>1. CASE RecvLoop(r) /\ UNCHANGED own
    <3>1. PICK step \in {"out", "epoll"} : Goto(r, step) BY <2>1 DEF RecvLoop
    <3>2. /\ UNCHANGED <<todo, streams, batch>> /\ pc[r] # "events"
          /\ r \in Cores /\ step \in Stages
      BY <2>1, <3>1, CoreFacts DEF RecvLoop, At, Stages
    <3> QED BY <2>1, <3>1, <3>2, QuietStep
  <2>2. CASE EpollWait(r) /\ UNCHANGED own BY <2>2, WaitStep, CoreFacts
  <2>3. ASSUME NEW e \in batch[r], RecvRead(r, e) PROVE MultiInv' 
    BY <2>3, TransferStep, CoreFacts DEF RecvRead
  <2>4. ASSUME NEW e \in batch[r], RecvAccept(r, e) \/ RecvError(r, e), UNCHANGED own
        PROVE  MultiInv'
    BY <2>4, ReceiveStep
  <2> QED BY <1>11, <2>1, <2>2, <2>3, <2>4 DEF RunReceiver
<1>12. ASSUME NEW c \in Cores, RunVnf(c) PROVE MultiInv'
  BY <1>10, <1>11, <1>12, SetUpStep DEF RunVnf
<1> QED BY <1>3, <1>4, <1>5, <1>6, <1>7, <1>8, <1>9, <1>12 DEF Next, Environment

LEMMA MultiInvariant == ASSUME ThreadsAssumption, MultiAssumption PROVE Spec => []MultiInv
BY MultiStart, MultiNext, PTL DEF Spec

(* A sender never deals with an event of a stream that it has closed,      *)
(* although the ends of several flows close the same streams               *)
(* (fv_mtcp_fq_multi.c:262-328).                                           *)
THEOREM StaleEventTheorem ==
    ASSUME ThreadsAssumption, MultiAssumption
    PROVE  Spec => []NoStaleEvent
<1>1. MultiInv => NoStaleEvent BY DEF MultiInv, Owned, BatchOwned, NoStaleEvent
<1> QED BY <1>1, MultiInvariant, PTL

-----------------------------------------------------------------------------
(* The hand-shake of a pair, as in fv_mtcp_fq.c. *)
PastWait(s) == pc[s] \in {"loop", "epoll", "events", "break"} \/ todo[s] # <<>>

ReceiverShake(r) ==
    /\ pc[r] \in {"ready", "signal"} \/ ready[Pair(r)] => listening[r] = ListenPorts(r)
    /\ pc[r] = "signal" => ready[Pair(r)]

ShakeInv ==
    /\ ready \in [Senders -> BOOLEAN]
    /\ listening \in [Receivers -> SUBSET Int]
    /\ \A r \in Receivers : ReceiverShake(r)
    /\ \A s \in Senders : PastWait(s) => ready[s]

LEMMA PairFacts ==
    ASSUME ThreadsAssumption
    PROVE  /\ NPairs \in Nat \ {0}
           /\ \A s \in Senders : Pair(s) = s /\ NPairs + s \in Receivers
                                 /\ Pair(NPairs + s) = s /\ s \in 0..(NPairs - 1)
           /\ \A r, q \in Receivers : Pair(r) = Pair(q) => r = q
<1>1. NPairs \in Nat /\ NPairs > 0 BY DEF ThreadsAssumption
<1>2. \A s \in 0..(NPairs - 1) : s % NPairs = s /\ (NPairs + s) % NPairs = s
  BY <1>1
<1>3. \A r \in NPairs..(2 * NPairs - 1) : r % NPairs = r - NPairs
  BY <1>1
<1>4. ASSUME NEW s \in Senders
      PROVE  Pair(s) = s /\ NPairs + s \in Receivers /\ Pair(NPairs + s) = s
             /\ s \in 0..(NPairs - 1)
  BY <1>1, <1>2 DEF Senders, Receivers, Pair
<1>5. ASSUME NEW r \in Receivers PROVE r = NPairs + Pair(r) /\ Pair(r) \in Senders
  BY <1>1, <1>3 DEF Senders, Receivers, Pair
<1> QED BY <1>1, <1>4, <1>5

LEMMA ListenFacts ==
    ASSUME ThreadsAssumption, MultiAssumption, NEW r \in Receivers
    PROVE  ListenPorts(r) \subseteq Int
<1>1. NPairs \in Nat \ {0} /\ MaxFnum \in Nat \ {0} /\ r - NPairs \in Nat
  BY DEF ThreadsAssumption, MultiAssumption, Receivers
<1>2. PerPortNum \in Nat BY <1>1, Quotient DEF PerPortNum
<1>3. (r - NPairs) * PerPortNum \in Nat BY <1>1, <1>2
<1>4. ASSUME NEW i \in 0..(PerPortNum - 1)
      PROVE  PortOf((r - NPairs) * PerPortNum + i) \in Int
  <2>1. (r - NPairs) * PerPortNum + i \in Nat BY <1>2, <1>3
  <2> QED BY <1>1, <2>1 DEF PortOf, NORMAL
<1> QED BY <1>4 DEF ListenPorts

(* Steps that leave the flags and the ports alone, bring no receiver to    *)
(* its flag and no sender past its wait.                                   *)
LEMMA ShakeKept ==
    ASSUME ShakeInv, UNCHANGED <<ready, listening>>,
           \A r \in Receivers : /\ pc'[r] = "ready" => pc[r] = "ready"
                                /\ pc'[r] = "signal" => pc[r] = "signal",
           \A s \in Senders : PastWait(s)' => PastWait(s)
    PROVE  ShakeInv'
BY DEF ShakeInv, ReceiverShake

LEMMA ShakeGoto ==
    ASSUME ThreadsAssumption, TypeInv, ShakeInv, UNCHANGED <<ready, listening, todo>>,
           NEW c \in Cores, NEW step, Goto(c, step),
           step \notin {"ready", "signal"},
           c \in Senders /\ step \in {"loop", "epoll", "events", "break"} => PastWait(c)
    PROVE  ShakeInv'
<1>1. \A d \in Cores : pc'[d] = IF d = c THEN step ELSE pc[d] BY DEF TypeInv, Goto
<1>2. \A r \in Receivers : /\ pc'[r] = "ready" => pc[r] = "ready"
                           /\ pc'[r] = "signal" => pc[r] = "signal"
  BY <1>1, CoreFacts
<1>3. \A s \in Senders : PastWait(s)' => PastWait(s)
  BY <1>1, CoreFacts DEF PastWait
<1> QED BY <1>2, <1>3, ShakeKept

(* The sender's side. *)
LEMMA ShakeTest ==
    ASSUME ThreadsAssumption, TypeInv, ShakeInv, NEW s \in Senders, TestReady(s)
    PROVE  ShakeInv'
<1>1. UNCHANGED <<ready, listening, todo>> BY DEF TestReady
<1>2. \A d \in Cores : pc'[d] = IF d = s THEN IF ready[Pair(s)] THEN "loop" ELSE "wait"
                                ELSE pc[d]
  BY DEF TestReady, TypeInv, Goto
<1>3. \A r \in Receivers : pc'[r] = pc[r] BY <1>2, CoreFacts
<1>4. ASSUME NEW u \in Senders, PastWait(u)' PROVE ready[u]
  <2>1. CASE PastWait(u) BY <2>1 DEF ShakeInv
  <2>2. CASE ~PastWait(u)
    <3>1. u = s /\ ready[Pair(s)] BY <1>1, <1>2, <1>4, <2>2, CoreFacts DEF PastWait
    <3> QED BY <3>1, PairFacts
  <2> QED BY <2>1, <2>2
<1> QED BY <1>1, <1>3, <1>4 DEF ShakeInv, ReceiverShake

LEMMA ShakeSend ==
    ASSUME ThreadsAssumption, TypeInv, ShakeInv, NEW s \in Senders,
           Schedule(s) \/ SendOut(s) \/ CreateConnection(s)
    PROVE  ShakeInv'
<1>1. UNCHANGED <<ready, listening>> /\ s \in Cores
  BY CoreFacts DEF Schedule, SendOut, CreateConnection
<1>2. PastWait(s)
  BY DEF Schedule, SendOut, CreateConnection, At, PastWait
<1>3. \A u \in Senders : u # s => todo'[u] = todo[u]
  BY DEF Schedule, SendOut, CreateConnection, TypeInv
<1>4. PICK step \in Stages \ {"ready", "signal"} : pc' = [pc EXCEPT ![s] = step] \/ pc' = pc
  <2>1. CASE Schedule(s)
    <3>1. PICK step \in {"break", "epoll"} : Goto(s, step) BY <2>1 DEF Schedule
    <3> QED BY <3>1 DEF Goto, Stages
  <2>2. CASE SendOut(s)
    <3>1. Goto(s, "out") BY <2>2 DEF SendOut, Leave
    <3> QED BY <3>1 DEF Goto, Stages
  <2>3. CASE CreateConnection(s)
    <3>1. "loop" \in Stages \ {"ready", "signal"} /\ pc' = pc
      BY <2>3 DEF CreateConnection, Stages
    <3> QED BY <3>1
  <2> QED BY <2>1, <2>2, <2>3
<1>5. \A d \in Cores : d # s => pc'[d] = pc[d] BY <1>4 DEF TypeInv
<1>6. \A r \in Receivers : pc'[r] = pc[r] BY <1>5, CoreFacts
<1>7. \A u \in Senders : PastWait(u)' => PastWait(u)
  BY <1>2, <1>3, <1>5, CoreFacts DEF PastWait
<1> QED BY <1>1, <1>6, <1>7, ShakeKept

(* The receiver's side. *)
LEMMA ShakeListen ==
    ASSUME ThreadsAssumption, MultiAssumption, TypeInv, ShakeInv, NEW r \in Receivers,
           ServicePortConfig(r)
    PROVE  ShakeInv'
<1>1. UNCHANGED <<ready, todo>> /\ pc[r] = "listen" BY DEF ServicePortConfig, At
<1>2. PICK p \in ListenPorts(r) \ listening[r] :
         /\ listening' = [listening EXCEPT ![r] = listening[r] \cup {p}]
         /\ Goto(r, IF listening'[r] = ListenPorts(r) THEN "ready" ELSE "listen")
  BY DEF ServicePortConfig
<1>3. ListenPorts(r) \subseteq Int BY ListenFacts
<1>4. listening' \in [Receivers -> SUBSET Int] BY <1>2, <1>3 DEF ShakeInv
<1>5. \A q \in Receivers : listening'[q] = IF q = r THEN listening[r] \cup {p} ELSE listening[q]
  BY <1>2 DEF ShakeInv
<1>6. \A d \in Cores : d # r => pc'[d] = pc[d] BY <1>2 DEF TypeInv, Goto
<1>7. pc'[r] \in {"ready", "listen"} /\ (pc'[r] = "ready" => listening'[r] = ListenPorts(r))
  BY <1>2, CoreFacts DEF TypeInv, Goto
<1>8. ~ready[Pair(r)]
  <2>1. p \in ListenPorts(r) /\ p \notin listening[r] BY <1>2
  <2> QED BY <2>1 DEF ShakeInv, ReceiverShake
<1>9. \A q \in Receivers : ReceiverShake(q)'
  <2> SUFFICES ASSUME NEW q \in Receivers PROVE ReceiverShake(q)'
    OBVIOUS
  <2>1. CASE q = r BY <1>1, <1>7, <1>8, <2>1 DEF ReceiverShake
  <2>2. CASE q # r
    <3>1. pc'[q] = pc[q] /\ listening'[q] = listening[q] BY <1>5, <1>6, <2>2, CoreFacts
    <3> QED BY <1>1, <3>1 DEF ShakeInv, ReceiverShake
  <2> QED BY <2>1, <2>2
<1>10. \A s \in Senders : PastWait(s)' => ready'[s]
  BY <1>1, <1>6, CoreFacts DEF ShakeInv, PastWait
<1> QED BY <1>1, <1>4, <1>9, <1>10 DEF ShakeInv

LEMMA ShakeReady ==
    ASSUME ThreadsAssumption, TypeInv, ShakeInv, NEW r \in Receivers, SetReady(r)
    PROVE  ShakeInv'
<1>1. UNCHANGED <<listening, todo>> /\ pc[r] = "ready" BY DEF SetReady, At
<1>2. ready' = [ready EXCEPT ![Pair(r)] = TRUE] /\ Goto(r, "signal") BY DEF SetReady
<1>3. ready' \in [Senders -> BOOLEAN] BY <1>2 DEF ShakeInv
<1>4. \A s \in Senders : ready'[s] <=> ready[s] \/ s = Pair(r) BY <1>2 DEF ShakeInv
<1>5. \A d \in Cores : pc'[d] = IF d = r THEN "signal" ELSE pc[d]
  BY <1>2 DEF TypeInv, Goto
<1>6. \A q \in Receivers : ReceiverShake(q)'
  <2> SUFFICES ASSUME NEW q \in Receivers PROVE ReceiverShake(q)'
    OBVIOUS
  <2>1. Pair(r) \in Senders /\ Pair(q) \in Senders /\ q \in Cores /\ r \in Cores
    BY CoreFacts
  <2>2. CASE q = r
    <3>1. listening[r] = ListenPorts(r) BY <1>1 DEF ShakeInv, ReceiverShake
    <3> QED BY <1>1, <1>4, <2>1, <2>2, <3>1 DEF ReceiverShake
  <2>3. CASE q # r
    <3>1. pc'[q] = pc[q] /\ (ready'[Pair(q)] <=> ready[Pair(q)])
      BY <1>4, <1>5, <2>1, <2>3, PairFacts
    <3> QED BY <1>1, <3>1 DEF ShakeInv, ReceiverShake
  <2> QED BY <2>2, <2>3
<1>7. \A s \in Senders : PastWait(s)' => ready'[s]
  BY <1>1, <1>4, <1>5, CoreFacts DEF ShakeInv, PastWait
<1> QED BY <1>1, <1>3, <1>6, <1>7 DEF ShakeInv

LEMMA ShakeSignal ==
    ASSUME ThreadsAssumption, TypeInv, ShakeInv, NEW r \in Receivers, CondSignal(r)
    PROVE  ShakeInv'
<1>1. UNCHANGED <<ready, listening, todo>> /\ pc[r] = "signal" BY DEF CondSignal, At
<1>2. \A d \in Cores : pc'[d] # pc[d] => d = r \/ d = Pair(r) BY DEF CondSignal
<1>3. pc'[r] = "loop" BY CoreFacts DEF CondSignal
<1>4. ready[Pair(r)] BY <1>1 DEF ShakeInv, ReceiverShake
<1>5. \A q \in Receivers : pc'[q] = pc[q] \/ pc'[q] = "loop"
  BY <1>2, <1>3, CoreFacts
<1>6. \A s \in Senders : PastWait(s)' => ready[s]
  BY <1>1, <1>2, <1>4, CoreFacts DEF ShakeInv, PastWait
<1> QED BY <1>1, <1>5, <1>6 DEF ShakeInv, ReceiverShake

LEMMA ShakeStart ==
    ASSUME ThreadsAssumption, Init PROVE ShakeInv
<1>1. \A r \in Receivers : pc[r] = "none" /\ ~ready[Pair(r)]
  BY CoreFacts DEF Init, ThreadsInit
<1>2. \A s \in Senders : ~PastWait(s)
  BY CoreFacts DEF Init, ThreadsInit, PastWait
<1> QED BY <1>1, <1>2 DEF Init, ThreadsInit, ShakeInv, ReceiverShake

LEMMA ShakeNext ==
    ASSUME ThreadsAssumption, MultiAssumption, ~Spurious, TypeInv, ShakeInv, [Next]_vars
    PROVE  ShakeInv'
<1>1. ASSUME UNCHANGED <<pc, ready, listening, todo>> PROVE ShakeInv'
  BY <1>1 DEF ShakeInv, ReceiverShake, PastWait
<1>2. CASE \/ UNCHANGED vars \/ Abort \/ Sigint \/ Stack \/ MainReturn
           \/ \E s \in Senders : Tick(s)
  BY <1>1, <1>2 DEF vars, Abort, Sigint, Stack, Answer, Break, MainReturn, Tick
<1>3. ASSUME NEW c \in Cores, StartThread(c) \/ CreateContext(c) PROVE ShakeInv'
  <2>1. PICK step \in {"new", "init", "gone"} : Goto(c, step)
    BY <1>3 DEF StartThread, CreateContext
  <2> QED BY <1>3, <2>1, ShakeGoto DEF StartThread, CreateContext
<1>4. ASSUME NEW c \in Cores, RunContext(c) PROVE ShakeInv'
  <2>1. PICK step \in {"test", "listen"} : Goto(c, step) BY <1>4 DEF RunContext
  <2> QED BY <1>4, <2>1, ShakeGoto DEF RunContext
<1>5. ASSUME NEW s \in Senders, CondWait(s) PROVE ShakeInv'
  BY <1>5, ShakeGoto, CoreFacts DEF CondWait
<1>6. ASSUME NEW c \in Cores, EpollWait(c) PROVE ShakeInv'
  <2>1. pc[c] = "epoll" BY <1>6 DEF EpollWait, At
  <2> QED BY <1>6, <2>1, ShakeGoto DEF EpollWait, PastWait
<1>7. ASSUME NEW c \in Cores, NEW e \in batch[c], Take(c, e),
             UNCHANGED <<ready, listening, todo>>
      PROVE  ShakeInv'
  <2>1. pc[c] = "events" BY <1>7 DEF Take, At
  <2>2. PICK step \in {"loop", "events"} : Goto(c, step) BY <1>7 DEF Take
  <2> QED BY <1>7, <2>1, <2>2, ShakeGoto DEF PastWait
<1>8. ASSUME NEW s \in Senders, RunSendContext(s) PROVE ShakeInv'
  <2>1. CASE Schedule(s) \/ SendOut(s) BY <2>1, ShakeSend
  <2>2. CASE EpollWait(s) BY <1>6, <2>2, CoreFacts
  <2>3. ASSUME NEW e \in batch[s], SendWrite(s, e) \/ SendError(s, e) \/ Transfer(s, e)
        PROVE  ShakeInv'
    <3>1. Take(s, e) /\ UNCHANGED <<ready, listening, todo>>
      BY <2>3 DEF Transfer, SendWrite, SendError
    <3> QED BY <1>7, <3>1, CoreFacts
  <2> QED BY <1>8, <2>1, <2>2, <2>3 DEF RunSendContext
<1>9. ASSUME NEW r \in Receivers, RunReceiver(r) PROVE ShakeInv'
  <2>1. CASE RecvLoop(r)
    <3>1. PICK step \in {"out", "epoll"} : Goto(r, step) BY <2>1 DEF RecvLoop
    <3> QED BY <2>1, <3>1, ShakeGoto, CoreFacts DEF RecvLoop
  <2>2. CASE EpollWait(r) BY <1>6, <2>2, CoreFacts
  <2>3. ASSUME NEW e \in batch[r], RecvRead(r, e) \/ RecvAccept(r, e) \/ RecvError(r, e)
        PROVE  ShakeInv'
    <3>1. Take(r, e) /\ UNCHANGED <<ready, listening, todo>>
      BY <2>3 DEF RecvRead, Transfer, RecvAccept, RecvError
    <3> QED BY <1>7, <3>1, CoreFacts
  <2> QED BY <1>9, <2>1, <2>2, <2>3 DEF RunReceiver
<1>10. ASSUME NEW c \in Cores, RunVnf(c) PROVE ShakeInv'
  <2>1. CASE StartThread(c) \/ CreateContext(c) \/ RunContext(c) BY <1>3, <1>4, <2>1
  <2>2. CASE c \in Senders /\ (TestReady(c) \/ CondWait(c))
    BY <1>5, <2>2, ShakeTest
  <2>3. CASE c \in Senders /\ CreateConnection(c) BY <2>3, ShakeSend
  <2>4. CASE c \in Receivers /\ (ServicePortConfig(c) \/ SetReady(c) \/ CondSignal(c))
    BY <2>4, ShakeListen, ShakeReady, ShakeSignal
  <2> QED BY <1>8, <1>9, <1>10, <2>1, <2>2, <2>3, <2>4 DEF RunVnf, SetUp
<1>11. \A s \in Senders : ~SpuriousWakeup(s) BY DEF SpuriousWakeup
<1> QED BY <1>2, <1>10, <1>11 DEF Next, Environment

-----------------------------------------------------------------------------
(* The first flow.  A sender records the streams it hears of first, and    *)
(* those are the streams of flow 0 if they are served before the clock     *)
(* goes on and there is room for them, whatever the other senders opened.  *)
PromptAssumption ==
    /\ ThreadsAssumption /\ MultiAssumption
    /\ Prompt /\ ~Spurious /\ ~Faults /\ ~MaySigint /\ MaxErrors = 0
    /\ (NPairs - 1) * (NFlows * Connection) + Connection <= MaxStreams
    /\ \A j \in Flows \ {0} : StartTs[0] < StartTs[j] /\ EndTs[0] <= EndTs[j]

(* Streams that the sender of stream i opened before it. *)
Older(i) == {n \in Ids : n < i /\ streams[n].core = streams[i].core}
Index(i) == Cardinality(Older(i))

Calm ==
    /\ done = [c \in Cores |-> FALSE] /\ errors = 0
    /\ \A r \in Receivers : pc[r] # "out"

(* Up to the start of the first flow only its streams are opened, all of   *)
(* them to ports on which somebody listens, so that none breaks; after it  *)
(* every group is full.                                                    *)
IsEarly(s) == elapsed[s] <= StartTs[0]
OnlyFirst(s) ==
    /\ pc[s] \notin {"break", "out"}
    /\ todo[s] \in Seq(ListenPorts(NPairs + s))
    /\ \A i \in OwnedBy(s) : /\ streams[i].snd \in {"syn", "open"}
                             /\ streams[i].port \in listening[NPairs + s]
    /\ \A e \in batch[s] : e.kind # "err"
    /\ Cardinality(OwnedBy(s)) + Len(todo[s]) = Cardinality(begun[s]) * Connection
FirstFull(s) == 0 \in begun[s] /\ 0 \notin Recorded(s)

(* Nothing is begun or ended before its time, and no flow has more streams *)
(* than it should; what is recorded is of the first flow.                  *)
Bounded(s) ==
    /\ \A j \in begun[s] : StartTs[j] <= elapsed[s]
    /\ \A j \in ended[s] : EndTs[j] <= elapsed[s]
    /\ Cardinality(OwnedBy(s)) + Len(todo[s]) <= Cardinality(begun[s]) * Connection
FirstFlow(s) == \A i \in Recorded(s) \ {0} : Index(i) < Connection

SparesOf(s) ==
    /\ IF IsEarly(s) THEN OnlyFirst(s) ELSE FirstFull(s)
    /\ Bounded(s) /\ FirstFlow(s)
SparesInv == Calm /\ \A s \in Senders : SparesOf(s)

LEMMA PromptFacts ==
    ASSUME PromptAssumption
    PROVE  /\ ThreadsAssumption /\ MultiAssumption
           /\ 0 \in Flows /\ Flows \subseteq Nat /\ Connection \in Nat \ {0}
           /\ Conns = 0..(Connection - 1)
           /\ \A j \in Flows : /\ StartTs[j] \in Nat /\ EndTs[j] \in Nat
                               /\ StartTs[j] < EndTs[j]
           /\ \A S \in SUBSET Flows : IsFiniteSet(S) /\ Cardinality(S) \in 0..NFlows
<1>1. ThreadsAssumption /\ MultiAssumption BY DEF PromptAssumption
<1>2. /\ 0 \in Flows /\ Flows \subseteq Nat /\ Connection \in Nat \ {0}
      /\ Conns = 0..(Connection - 1)
      /\ \A j \in Flows : /\ StartTs[j] \in Nat /\ EndTs[j] \in Nat
                          /\ StartTs[j] < EndTs[j]
  BY <1>1 DEF MultiAssumption, Flows, Conns
<1>3. IsFiniteSet(Flows) /\ Cardinality(Flows) = NFlows
  <2> DEFINE m == NFlows - 1
  <2>1. m \in Int /\ 0 \in Int /\ m >= 0 BY <1>1 DEF MultiAssumption
  <2>2. NFlows = m + 1 BY <1>1 DEF MultiAssumption
  <2> HIDE DEF m
  <2>3. IsFiniteSet(0..m) /\ Cardinality(0..m) = IF 0 > m THEN 0 ELSE m - 0 + 1
    BY <2>1, FS_Interval
  <2> QED BY <2>1, <2>2, <2>3 DEF Flows, m
<1>4. ASSUME NEW S \in SUBSET Flows
      PROVE  IsFiniteSet(S) /\ Cardinality(S) \in 0..NFlows
  <2>1. /\ IsFiniteSet(S) /\ Cardinality(S) <= Cardinality(Flows)
    BY <1>3, FS_Subset
  <2>2. Cardinality(S) \in Nat BY <2>1, FS_CardinalityType
  <2> QED BY <1>1, <1>3, <2>1, <2>2 DEF MultiAssumption
<1> QED BY <1>1, <1>2, <1>4

LEMMA IdsFinite ==
    ASSUME TypeInv
    PROVE  /\ IsFiniteSet(Ids) /\ Cardinality(Ids) = Len(streams)
           /\ \A S \in SUBSET Ids : IsFiniteSet(S) /\ Cardinality(S) \in Nat
<1> DEFINE n == Len(streams)
<1>1. Ids = 1..n /\ n \in Nat /\ 1 \in Int /\ n \in Int BY IdFacts
<1> HIDE DEF n
<1>2. IsFiniteSet(1..n) /\ Cardinality(1..n) = IF 1 > n THEN 0 ELSE n - 1 + 1
  BY <1>1, FS_Interval
<1>3. IsFiniteSet(Ids) /\ Cardinality(Ids) = n BY <1>1, <1>2
<1>4. \A S \in SUBSET Ids : IsFiniteSet(S) BY <1>3, FS_Subset
<1>5. \A S \in SUBSET Ids : Cardinality(S) \in Nat BY <1>4, FS_CardinalityType
<1> QED BY <1>3, <1>4, <1>5 DEF n

(* A set within another one that has an element more is smaller. *)
LEMMA SmallerSet ==
    ASSUME NEW T, IsFiniteSet(T), NEW S \in SUBSET T, NEW x \in T, x \notin S
    PROVE  Cardinality(S) \in Nat /\ Cardinality(T) \in Nat /\ Cardinality(S) < Cardinality(T)
<1>1. /\ IsFiniteSet(S) /\ Cardinality(S) <= Cardinality(T)
      /\ Cardinality(S) = Cardinality(T) => S = T
  BY FS_Subset
<1>2. Cardinality(S) \in Nat /\ Cardinality(T) \in Nat BY <1>1, FS_CardinalityType
<1> QED BY <1>1, <1>2

(* The streams of a sender are numbered by their indices. *)
LEMMA IndexFacts ==
    ASSUME TypeInv, NEW i \in Ids
    PROVE  /\ Index(i) \in Nat /\ streams[i].core \in Senders
           /\ Index(i) < Cardinality(OwnedBy(streams[i].core))
           /\ \A k \in Ids : streams[k].core = streams[i].core /\ i < k => Index(i) < Index(k)
<1>1. i \in Nat /\ Ids \subseteq Nat /\ streams[i].core \in Senders
  BY IdFacts DEF Stream
<1> DEFINE T == OwnedBy(streams[i].core)
<1>2. /\ T \subseteq Ids /\ Older(i) \subseteq T /\ i \in T /\ i \notin Older(i)
  BY <1>1 DEF OwnedBy, Older
<1>3. IsFiniteSet(T) BY <1>2, IdsFinite
<1> HIDE DEF T
<1>4. Cardinality(Older(i)) \in Nat /\ Cardinality(Older(i)) < Cardinality(T)
  BY <1>2, <1>3, SmallerSet
<1>5. ASSUME NEW k \in Ids, streams[k].core = streams[i].core, i < k
      PROVE  Index(i) < Index(k)
  <2>1. Older(i) \subseteq Older(k) /\ i \in Older(k) /\ Older(k) \subseteq Ids
    <3>1. \A n \in Ids : n < i => n < k BY <1>1, <1>5
    <3> QED BY <1>5, <3>1 DEF Older
  <2>2. IsFiniteSet(Older(k)) BY <2>1, IdsFinite
  <2> QED BY <1>2, <2>1, <2>2, SmallerSet DEF Index
<1> QED BY <1>1, <1>4, <1>5 DEF Index, T

(* A stream keeps its index. *)
LEMMA IndexKept ==
    ASSUME TypeInv, TypeInv', SameStreams, NEW i \in Ids
    PROVE  Older(i)' = Older(i) /\ Index(i)' = Index(i)
<1>1. Ids = 1..Len(streams) /\ Len(streams) \in Nat BY IdFacts
<1>2. Ids' = 1..Len(streams)' /\ Len(streams)' \in Nat
  BY LenProperties DEF TypeInv, Ids
<1>3. \A n \in Ids' : n < i => n \in Ids BY <1>1, <1>2
<1>4. Older(i)' = Older(i) BY <1>3 DEF SameStreams, Older
<1> QED BY <1>4 DEF Index

LEMMA RecordedIds ==
    ASSUME MultiInv, NEW s \in Senders
    PROVE  /\ Recorded(s) \ {0} \subseteq Ids
           /\ \A i \in Recorded(s) \ {0} : i \in OwnedBy(s)
BY DEF MultiInv, Owned, EvidOwned, OwnedBy, Recorded

(* Up to the start of the first flow no other one has begun or ended. *)
LEMMA EarlyBegun ==
    ASSUME PromptAssumption, TypeInv, NEW s \in Senders, IsEarly(s), Bounded(s)
    PROVE  begun[s] \subseteq {0} /\ Cardinality(begun[s]) \in {0, 1} /\ ended[s] = {}
<1>1. begun[s] \subseteq Flows /\ ended[s] \subseteq Flows /\ elapsed[s] \in Nat
  BY DEF TypeInv
<1>2. \A j \in Flows \ {0} : StartTs[0] < StartTs[j] BY DEF PromptAssumption
<1>3. begun[s] \subseteq {0}
  <2> SUFFICES ASSUME NEW j \in begun[s], j # 0 PROVE FALSE
    OBVIOUS
  <2>1. StartTs[j] <= elapsed[s] /\ elapsed[s] <= StartTs[0] /\ StartTs[0] < StartTs[j]
    BY <1>1, <1>2 DEF Bounded, IsEarly
  <2>2. StartTs[j] \in Nat /\ StartTs[0] \in Nat BY <1>1, PromptFacts
  <2> QED BY <1>1, <2>1, <2>2
<1>4. ended[s] = {}
  <2> SUFFICES ASSUME NEW j \in ended[s] PROVE FALSE
    OBVIOUS
  <2>1. j \in Flows /\ EndTs[j] <= elapsed[s] /\ elapsed[s] <= StartTs[0]
    BY <1>1 DEF Bounded, IsEarly
  <2>2. StartTs[j] \in Nat /\ StartTs[0] \in Nat /\ EndTs[j] \in Nat /\ StartTs[j] < EndTs[j]
    BY <2>1, PromptFacts
  <2>3. j = 0 \/ StartTs[0] < StartTs[j] BY <1>2, <2>1
  <2> QED BY <1>1, <2>1, <2>2, <2>3
<1>5. begun[s] = {} \/ begun[s] = {0} BY <1>3
<1>6. Cardinality({}) = 0 /\ \A x : Cardinality({x}) = 1 BY FS_EmptySet, FS_Singleton
<1> QED BY <1>3, <1>4, <1>5, <1>6

-----------------------------------------------------------------------------
(* Steps that leave the lists, the time and the groups of a sender alone. *)
LEMMA SparesKept ==
    ASSUME PromptAssumption, MultiInv, MultiInv', NEW s \in Senders, SparesOf(s),
           SameStreams, OwnedBy(s)' = OwnedBy(s),
           listening[NPairs + s] \subseteq listening'[NPairs + s],
           todo'[s] = todo[s], elapsed'[s] = elapsed[s], begun'[s] = begun[s],
           ended'[s] = ended[s], evid'[s] = evid[s],
           IsEarly(s) => /\ pc'[s] \notin {"break", "out"}
                         /\ \A i \in OwnedBy(s) : streams'[i].snd \in {"syn", "open"}
                         /\ \A e \in batch'[s] : e.kind # "err"
    PROVE  SparesOf(s)'
<1>1. (IsEarly(s)' <=> IsEarly(s)) /\ Recorded(s)' = Recorded(s)
  BY DEF IsEarly, Recorded
<1>2. Bounded(s)' BY DEF SparesOf, Bounded
<1>3. FirstFlow(s)'
  <2>1. \A i \in Recorded(s) \ {0} : Index(i)' = Index(i)
    BY IndexKept, RecordedIds DEF MultiInv
  <2> QED BY <1>1, <2>1 DEF SparesOf, FirstFlow
<1>4. CASE IsEarly(s)
  <2>1. \A i \in OwnedBy(s) : streams'[i].port \in listening'[NPairs + s]
    BY <1>4 DEF SparesOf, OnlyFirst, SameStreams, OwnedBy
  <2>2. OnlyFirst(s)' BY <1>4, <2>1 DEF SparesOf, OnlyFirst, ListenPorts, PortOf
  <2> QED BY <1>1, <1>2, <1>3, <1>4, <2>2 DEF SparesOf
<1>5. CASE ~IsEarly(s)
  <2>1. FirstFull(s)' BY <1>1, <1>5 DEF SparesOf, FirstFull
  <2> QED BY <1>1, <1>2, <1>3, <1>5, <2>1 DEF SparesOf
<1> QED BY <1>4, <1>5

(* No thread leaves, and no stream is opened, ends or breaks. *)
LEMMA QuietSpares ==
    ASSUME PromptAssumption, MultiInv, MultiInv', SparesInv, SameStreams, Ids' = Ids,
           UNCHANGED <<todo, done, errors, elapsed, begun, ended, evid>>,
           \A i \in Ids : streams'[i].snd = streams[i].snd,
           \A r \in Receivers : listening[r] \subseteq listening'[r] /\ pc'[r] # "out",
           \A s \in Senders : pc'[s] \in {"break", "out"} => pc[s] \in {"break", "out"},
           \A s \in Senders : \A e \in batch'[s] :
              e.kind = "err" => e \in batch[s] \/ streams[e.id].snd = "broken"
    PROVE  SparesInv'
<1>1. Calm' BY DEF SparesInv, Calm
<1>2. ASSUME NEW s \in Senders PROVE SparesOf(s)'
  <2>1. SparesOf(s) /\ NPairs + s \in Receivers BY PromptFacts, PairFacts DEF SparesInv
  <2>2. OwnedBy(s)' = OwnedBy(s) BY DEF SameStreams, OwnedBy
  <2>3. \A e \in batch'[s] : e.id \in OwnedBy(s)
    BY <2>2 DEF MultiInv, Owned, BatchOwned, OwnedBy
  <2>4. ASSUME IsEarly(s)
        PROVE  /\ pc'[s] \notin {"break", "out"}
               /\ \A i \in OwnedBy(s) : streams'[i].snd \in {"syn", "open"}
               /\ \A e \in batch'[s] : e.kind # "err"
    <3>1. OnlyFirst(s) BY <2>1, <2>4 DEF SparesOf
    <3>2. \A i \in OwnedBy(s) : i \in Ids /\ streams[i].snd \in {"syn", "open"}
      BY <3>1 DEF OnlyFirst, OwnedBy
    <3>3. pc'[s] \notin {"break", "out"} BY <3>1 DEF OnlyFirst
    <3>4. ASSUME NEW e \in batch'[s] PROVE e.kind # "err"
      <4>1. streams[e.id].snd # "broken" BY <2>3, <3>2
      <4> QED BY <3>1, <4>1 DEF OnlyFirst
    <3> QED BY <3>2, <3>3, <3>4
  <2> QED BY <2>1, <2>2, <2>4, SparesKept
<1> QED BY <1>1, <1>2 DEF SparesInv

LEMMA GotoSpares ==
    ASSUME PromptAssumption, MultiInv, MultiInv', SparesInv,
           UNCHANGED <<todo, done, errors, streams, batch, own>>,
           \A r \in Receivers : listening[r] \subseteq listening'[r],
           NEW c \in Cores, NEW step, Goto(c, step), step \notin {"break", "out"}
    PROVE  SparesInv'
<1>1. \A d \in Cores : pc'[d] = IF d = c THEN step ELSE pc[d]
  BY DEF MultiInv, TypeInv, Goto
<1>2. SameStreams /\ Ids' = Ids BY NoneChanges DEF MultiInv, Ids
<1>3. \A r \in Receivers : pc'[r] # "out"
  BY <1>1, CoreFacts, PromptFacts DEF SparesInv, Calm
<1>4. \A s \in Senders : pc'[s] \in {"break", "out"} => pc[s] \in {"break", "out"}
  BY <1>1, CoreFacts, PromptFacts
<1> QED BY <1>2, <1>3, <1>4, QuietSpares DEF own

LEMMA SetUpSpares ==
    ASSUME PromptAssumption, MultiInv, MultiInv', ShakeInv, SparesInv,
           NEW c \in Cores, SetUp(c), ~(c \in Senders /\ CreateConnection(c))
    PROVE  SparesInv'
<1>1. UNCHANGED own BY DEF SetUp
<1>2. CASE StartThread(c)
  <2>1. done' = done BY <1>2 DEF StartThread, SparesInv, Calm
  <2> QED BY <1>1, <1>2, <2>1, GotoSpares DEF StartThread
<1>3. CASE CreateContext(c)
  <2>1. PICK step \in {"init", "gone"} : Goto(c, step) BY <1>3 DEF CreateContext
  <2> QED BY <1>1, <1>3, <2>1, GotoSpares DEF CreateContext
<1>4. CASE RunContext(c)
  <2>1. PICK step \in {"test", "listen"} : Goto(c, step) BY <1>4 DEF RunContext
  <2> QED BY <1>1, <1>4, <2>1, GotoSpares DEF RunContext
<1>5. CASE TestReady(c) \/ CondWait(c)
  <2>1. PICK step \in {"loop", "wait", "waiting"} : Goto(c, step)
    BY <1>5 DEF TestReady, CondWait
  <2> QED BY <1>1, <1>5, <2>1, GotoSpares DEF TestReady, CondWait
<1>6. CASE c \in Receivers /\ ServicePortConfig(c)
  <2>1. PICK step \in {"ready", "listen"} : Goto(c, step) BY <1>6 DEF ServicePortConfig
  <2>2. PICK p : listening' = [listening EXCEPT ![c] = listening[c] \cup {p}]
    BY <1>6 DEF ServicePortConfig
  <2>3. \A r \in Receivers : listening[r] \subseteq listening'[r]
    BY <2>2 DEF ShakeInv
  <2>4. UNCHANGED <<todo, done, errors, streams, batch>> BY <1>6 DEF ServicePortConfig
  <2> QED BY <1>1, <2>1, <2>3, <2>4, GotoSpares
<1>7. CASE SetReady(c)
  <2>1. Goto(c, "signal") BY <1>7 DEF SetReady
  <2> QED BY <1>1, <1>7, <2>1, GotoSpares DEF SetReady
<1>8. CASE CondSignal(c)
  <2>1. UNCHANGED <<todo, done, errors, streams, batch, listening>> BY <1>8 DEF CondSignal
  <2>2. \A d \in Cores : pc'[d] \in {pc[d], "loop"} BY <1>8 DEF CondSignal
  <2>3. SameStreams /\ Ids' = Ids BY <2>1, NoneChanges DEF MultiInv, Ids
  <2>4. \A r \in Receivers : pc'[r] # "out"
    BY <2>2, CoreFacts, PromptFacts DEF SparesInv, Calm
  <2>5. \A s \in Senders : pc'[s] \in {"break", "out"} => pc[s] \in {"break", "out"}
    BY <2>2, CoreFacts, PromptFacts
  <2> QED BY <1>1, <2>1, <2>3, <2>4, <2>5, QuietSpares DEF own
<1> QED BY <1>2, <1>3, <1>4, <1>5, <1>6, <1>7, <1>8 DEF SetUp

LEMMA WaitSpares ==
    ASSUME PromptAssumption, MultiInv, MultiInv', SparesInv, NEW c \in Cores,
           EpollWait(c), UNCHANGED own
    PROVE  SparesInv'
<1>1. UNCHANGED <<todo, done, errors, streams, listening>> BY DEF EpollWait
<1>2. \A d \in Cores : pc'[d] = IF d = c THEN "events" ELSE pc[d]
  BY DEF EpollWait, MultiInv, TypeInv, Goto
<1>3. SameStreams /\ Ids' = Ids BY <1>1, NoneChanges DEF MultiInv, Ids
<1>4. \A r \in Receivers : pc'[r] # "out"
  BY <1>2, CoreFacts, PromptFacts DEF SparesInv, Calm
<1>5. \A s \in Senders : pc'[s] \in {"break", "out"} => pc[s] \in {"break", "out"}
  BY <1>2, CoreFacts, PromptFacts
<1>6. PICK b \in SUBSET Events(c) : batch' = [batch EXCEPT ![c] = b] BY DEF EpollWait
<1>7. ASSUME NEW s \in Senders, NEW e \in batch'[s], e.kind = "err"
      PROVE  e \in batch[s] \/ streams[e.id].snd = "broken"
  <2>1. CASE s = c
    <3>1. e \in SenderEvents(s) BY <1>6, <2>1 DEF Events, MultiInv, TypeInv
    <3> QED BY <1>7, <3>1 DEF SenderEvents
  <2>2. CASE s # c BY <1>6, <2>2, CoreFacts, PromptFacts DEF MultiInv, TypeInv
  <2> QED BY <2>1, <2>2
<1> QED BY <1>1, <1>3, <1>4, <1>5, <1>7, QuietSpares DEF own

(* An event is dealt with that ends no stream and enters none in a group. *)
LEMMA EventSpares ==
    ASSUME PromptAssumption, MultiInv, MultiInv', SparesInv, NEW c \in Cores,
           NEW e \in batch[c], Take(c, e), SameStreams, Ids' = Ids,
           UNCHANGED <<todo, done, errors, listening, elapsed, begun, ended, evid>>,
           \A i \in Ids : streams'[i].snd = streams[i].snd
    PROVE  SparesInv'
<1>1. \A d \in Cores : pc'[d] \in {pc[d], "loop", "events"}
  BY DEF Take, MultiInv, TypeInv, Goto
<1>2. \A r \in Receivers : pc'[r] # "out"
  BY <1>1, CoreFacts, PromptFacts DEF SparesInv, Calm
<1>3. \A s \in Senders : pc'[s] \in {"break", "out"} => pc[s] \in {"break", "out"}
  BY <1>1, CoreFacts, PromptFacts
<1>4. \A s \in Senders : batch'[s] \subseteq batch[s] BY TakeFacts, PromptFacts
<1> QED BY <1>2, <1>3, <1>4, QuietSpares

LEMMA ReceiverSpares ==
    ASSUME PromptAssumption, MultiInv, MultiInv', SparesInv, NEW r \in Receivers,
           RunReceiver(r)
    PROVE  SparesInv'
<1>1. r \in Cores BY CoreFacts, PromptFacts
<1>2. CASE RecvLoop(r) /\ UNCHANGED own
  <2>1. ~done[r] BY <1>1 DEF SparesInv, Calm
  <2>2. Goto(r, "epoll") BY <1>2, <2>1 DEF RecvLoop
  <2> QED BY <1>1, <1>2, <2>2, GotoSpares DEF RecvLoop
<1>3. CASE EpollWait(r) /\ UNCHANGED own BY <1>1, <1>3, WaitSpares
<1>4. ASSUME NEW e \in batch[r], RecvRead(r, e) PROVE SparesInv'
  <2>1. /\ UNCHANGED <<todo, done, errors, listening, streams, elapsed, begun, ended, evid>>
        /\ Take(r, e)
    BY <1>4 DEF RecvRead, Transfer
  <2>2. SameStreams /\ Ids' = Ids BY <2>1, NoneChanges DEF MultiInv, Ids
  <2> QED BY <1>1, <2>1, <2>2, EventSpares
<1>5. ASSUME NEW e \in batch[r], RecvAccept(r, e) \/ RecvError(r, e), UNCHANGED own
      PROVE  SparesInv'
  <2>1. UNCHANGED <<todo, done, errors, listening>> /\ Take(r, e)
    BY <1>5 DEF RecvAccept, RecvError
  <2>2. SameStreams /\ Ids' = Ids /\ \A k \in Ids : streams'[k].snd = streams[k].snd
    BY <1>5, ReceiveStreams DEF MultiInv
  <2> QED BY <1>1, <1>5, <2>1, <2>2, EventSpares DEF own
<1> QED BY <1>2, <1>3, <1>4, <1>5 DEF RunReceiver

(* The stack opens the streams of the first flow, and breaks none. *)
LEMMA StackSpares ==
    ASSUME PromptAssumption, MultiInv, MultiInv', SparesInv, Stack, UNCHANGED own
    PROVE  SparesInv'
<1>1. PICK k \in Ids : Answer(k) \/ Break(k) BY DEF Stack
<1>2. UNCHANGED <<pc, done, listening, todo, batch>> BY <1>1 DEF Answer, Break
<1>3. SameStreams /\ Ids' = Ids BY StackStreams DEF MultiInv
<1>4. errors = 0 /\ ~(errors < MaxErrors) /\ \A r \in Receivers : pc[r] # "out"
  BY DEF SparesInv, Calm, PromptAssumption
<1>5. errors' = errors BY <1>1, <1>4 DEF Answer, Break
<1>6. Calm' BY <1>2, <1>5 DEF SparesInv, Calm
<1>7. ASSUME NEW s \in Senders PROVE SparesOf(s)'
  <2>1. SparesOf(s) /\ NPairs + s \in Receivers BY PromptFacts, PairFacts DEF SparesInv
  <2>2. OwnedBy(s)' = OwnedBy(s) BY <1>3 DEF SameStreams, OwnedBy
  <2>3. ASSUME IsEarly(s), NEW i \in OwnedBy(s)
        PROVE  streams'[i].snd \in {"syn", "open"}
    <3>1. /\ i \in Ids /\ streams[i].snd \in {"syn", "open"}
          /\ streams[i].port \in listening[NPairs + s]
      BY <2>1, <2>3 DEF SparesOf, OnlyFirst, OwnedBy
    <3>2. Listener(streams[i].port) # {} BY <1>4, <2>1, <3>1 DEF Listener
    <3>3. CASE k = i
      <4>1. streams' = [streams EXCEPT ![i].snd = "open", ![i].rcv = "queued"]
        BY <1>1, <1>4, <3>2, <3>3 DEF Answer, Break
      <4>2. streams[i] \in Stream BY <3>1, IdFacts DEF MultiInv
      <4>3. streams'[i].snd = "open" BY <3>1, <4>1, <4>2 DEF Ids, Stream
      <4> QED BY <4>3
    <3>4. CASE k # i
      <4>1. streams'[i] = streams[i] BY <1>1, <3>1, <3>4 DEF Answer, Break, Ids
      <4> QED BY <3>1, <4>1
    <3> QED BY <3>3, <3>4
  <2>4. IsEarly(s) => /\ pc'[s] \notin {"break", "out"}
                      /\ \A e \in batch'[s] : e.kind # "err"
    BY <1>2, <2>1 DEF SparesOf, OnlyFirst
  <2> QED BY <1>2, <1>3, <2>1, <2>2, <2>3, <2>4, SparesKept DEF own
<1> QED BY <1>6, <1>7 DEF SparesInv

-----------------------------------------------------------------------------
(* What a sender does changes nothing of this for the other senders. *)
LEMMA SenderSpares ==
    ASSUME PromptAssumption, MultiInv, MultiInv', SparesInv, NEW s \in Senders,
           SparesOf(s)', SameStreams, UNCHANGED <<done, errors, listening>>,
           \A i \in Ids' : i \in Ids \/ streams'[i].core = s,
           \A i \in Ids : streams[i].core # s => streams'[i].snd = streams[i].snd,
           \A d \in Cores : d # s => pc'[d] = pc[d],
           \A u \in Senders : u # s =>
              /\ batch'[u] = batch[u] /\ todo'[u] = todo[u] /\ elapsed'[u] = elapsed[u]
              /\ begun'[u] = begun[u] /\ ended'[u] = ended[u] /\ evid'[u] = evid[u]
    PROVE  SparesInv'
<1>1. Calm' BY CoreFacts, PromptFacts DEF SparesInv, Calm
<1>2. ASSUME NEW u \in Senders, u # s PROVE SparesOf(u)'
  <2>1. SparesOf(u) /\ pc'[u] = pc[u] BY <1>2, CoreFacts, PromptFacts DEF SparesInv
  <2>2. OwnedBy(u)' = OwnedBy(u) BY <1>2 DEF SameStreams, OwnedBy
  <2>3. \A i \in OwnedBy(u) : streams'[i].snd = streams[i].snd BY <1>2 DEF OwnedBy
  <2>4. IsEarly(u) => /\ pc'[u] \notin {"break", "out"}
                      /\ \A i \in OwnedBy(u) : streams'[i].snd \in {"syn", "open"}
                      /\ \A e \in batch'[u] : e.kind # "err"
    BY <1>2, <2>1, <2>3 DEF SparesOf, OnlyFirst
  <2> QED BY <1>2, <2>1, <2>2, <2>4, SparesKept
<1> QED BY <1>1, <1>2 DEF SparesInv

(* A sender leaves, or deals with an error, only after the first start. *)
LEMMA OutSpares ==
    ASSUME PromptAssumption, MultiInv, MultiInv', SparesInv, NEW s \in Senders, SendOut(s)
    PROVE  SparesInv'
<1>1. SparesOf(s) /\ ~done[s] /\ s \in Cores
  BY CoreFacts, PromptFacts DEF SparesInv, Calm
<1>2. /\ UNCHANGED <<done, errors, listening, batch, todo, own>>
      /\ pc[s] = "break" /\ Leave(s) /\ Goto(s, "out")
  BY <1>1 DEF SendOut, At, Leave
<1>3. ~IsEarly(s) BY <1>1, <1>2 DEF SparesOf, OnlyFirst
<1>4. /\ SameStreams /\ Ids' = Ids
      /\ \A i \in Ids : streams[i].core # s => streams'[i].snd = streams[i].snd
  BY <1>2, LeaveStreams DEF MultiInv, OwnedBy
<1>5. OwnedBy(s)' = OwnedBy(s) BY <1>4 DEF SameStreams, OwnedBy
<1>6. SparesOf(s)' BY <1>1, <1>2, <1>3, <1>4, <1>5, SparesKept DEF own
<1>7. \A d \in Cores : d # s => pc'[d] = pc[d] BY <1>2 DEF Goto, MultiInv, TypeInv
<1> QED BY <1>2, <1>4, <1>6, <1>7, SenderSpares DEF own

LEMMA ErrorSpares ==
    ASSUME PromptAssumption, MultiInv, MultiInv', SparesInv, NEW s \in Senders,
           NEW e \in batch[s], SendError(s, e)
    PROVE  SparesInv'
<1>1. SparesOf(s) /\ s \in Cores BY CoreFacts, PromptFacts DEF SparesInv
<1>2. /\ UNCHANGED <<done, errors, listening, todo, own>> /\ Take(s, e)
      /\ e.kind = "err" /\ streams' = Closed(e.id)
  BY DEF SendError
<1>3. ~IsEarly(s) BY <1>1, <1>2 DEF SparesOf, OnlyFirst
<1>4. e.id \in Ids /\ streams[e.id].core = s BY DEF MultiInv, Owned, BatchOwned
<1>5. /\ SameStreams /\ Ids' = Ids
      /\ \A i \in Ids : streams[i].core # s => streams'[i].snd = streams[i].snd
  BY <1>2, <1>4, CloseOne DEF MultiInv
<1>6. OwnedBy(s)' = OwnedBy(s) BY <1>5 DEF SameStreams, OwnedBy
<1>7. SparesOf(s)' BY <1>1, <1>2, <1>3, <1>5, <1>6, SparesKept DEF own
<1>8. /\ \A d \in Cores : d # s => pc'[d] = pc[d]
      /\ \A u \in Senders : u # s => batch'[u] = batch[u]
  BY <1>2, CoreFacts, PromptFacts DEF Take, Goto, MultiInv, TypeInv
<1> QED BY <1>2, <1>5, <1>7, <1>8, SenderSpares DEF own

(* A stream that is entered in the groups is one of the first flow, or the *)
(* groups are full.                                                        *)
LEMMA WriteSpares ==
    ASSUME PromptAssumption, MultiInv, MultiInv', SparesInv, NEW s \in Senders,
           NEW e \in batch[s], SendWrite(s, e)
    PROVE  SparesInv'
<1>1. SparesOf(s) /\ s \in Cores BY CoreFacts, PromptFacts DEF SparesInv
<1>2. /\ UNCHANGED <<done, errors, listening, todo, streams, elapsed, begun, ended>>
      /\ Take(s, e) /\ e.kind = "out"
      /\ evid' = [evid EXCEPT ![s] = [j \in Flows |-> Record(evid[s][j], e.id)]]
  BY DEF SendWrite
<1>3. SameStreams /\ Ids' = Ids BY <1>2, NoneChanges DEF MultiInv, Ids
<1>4. OwnedBy(s)' = OwnedBy(s) BY <1>2 DEF OwnedBy, Ids
<1>5. /\ \A d \in Cores : /\ d # s => pc'[d] = pc[d]
                          /\ pc'[d] \in {pc[d], "loop", "events"}
      /\ \A u \in Senders : batch'[u] \subseteq batch[u] /\ (u # s => batch'[u] = batch[u])
  BY <1>2, CoreFacts, PromptFacts DEF Take, Goto, MultiInv, TypeInv
<1>6. /\ evid'[s] = [j \in Flows |-> Record(evid[s][j], e.id)]
      /\ \A u \in Senders : u # s => evid'[u] = evid[u]
  BY <1>2 DEF MultiInv, TypeInv
<1>7. e.id \in Nat \ {0} /\ e.id \in OwnedBy(s) /\ e.id \in Ids
  BY IdFacts DEF MultiInv, Owned, BatchOwned, OwnedBy
<1>8. ASSUME NEW j \in Flows
      PROVE  /\ evid[s][j] \in [Conns -> Nat]
             /\ \A k \in Conns : Record(evid[s][j], e.id)[k] \in {evid[s][j][k], e.id}
             /\ (\A k \in Conns : evid[s][j][k] # 0) => Record(evid[s][j], e.id) = evid[s][j]
  <2>1. evid[s][j] \in [Conns -> Nat] /\ Filled(evid[s][j])
    BY DEF MultiInv, TypeInv, Owned, EvidOwned
  <2> QED BY <1>7, <2>1, PromptFacts, RecordFacts
<1>9. CASE IsEarly(s)
  <2>1. OnlyFirst(s) /\ Bounded(s) /\ FirstFlow(s) BY <1>1, <1>9 DEF SparesOf
  <2>2. Index(e.id) < Connection
    <3>1. Index(e.id) \in Nat /\ Index(e.id) < Cardinality(OwnedBy(s))
          /\ Cardinality(OwnedBy(s)) \in Nat
      BY <1>7, IndexFacts, IdsFinite DEF OwnedBy, MultiInv
    <3>2. Cardinality(begun[s]) \in {0, 1} BY <1>9, <2>1, EarlyBegun DEF MultiInv
    <3>3. Cardinality(OwnedBy(s)) + Len(todo[s]) = Cardinality(begun[s]) * Connection
      BY <2>1 DEF OnlyFirst
    <3>4. Len(todo[s]) \in Nat BY LenProperties DEF MultiInv, TypeInv
    <3>5. Connection \in Nat \ {0} BY PromptFacts
    <3>6. Cardinality(begun[s]) * Connection <= Connection BY <3>2, <3>5
    <3> QED BY <3>1, <3>3, <3>4, <3>5, <3>6
  <2>3. Recorded(s)' \subseteq Recorded(s) \cup {e.id} BY <1>6, <1>8 DEF Recorded
  <2>4. \A i \in Ids : Index(i)' = Index(i) BY <1>3, IndexKept DEF MultiInv
  <2>5. FirstFlow(s)'
    <3> SUFFICES ASSUME NEW i \in Recorded(s)', i # 0 PROVE Index(i)' < Connection
      BY DEF FirstFlow
    <3>1. CASE i = e.id BY <1>7, <2>2, <2>4, <3>1
    <3>2. CASE i \in Recorded(s)
      <4>1. i \in Ids BY <3>2, RecordedIds
      <4> QED BY <2>1, <2>4, <3>2, <4>1 DEF FirstFlow
    <3> QED BY <2>3, <3>1, <3>2
  <2>6. Bounded(s)' BY <1>2, <1>4, <2>1 DEF Bounded
  <2>7. OnlyFirst(s)' BY <1>1, <1>2, <1>4, <1>5, <2>1 DEF OnlyFirst, ListenPorts, PortOf
  <2>8. IsEarly(s)' BY <1>2, <1>9 DEF IsEarly
  <2> QED BY <1>2, <1>3, <1>5, <1>6, <2>5, <2>6, <2>7, <2>8, SenderSpares DEF SparesOf
<1>10. CASE ~IsEarly(s)
  <2>1. 0 \notin Recorded(s) BY <1>1, <1>10 DEF SparesOf, FirstFull
  <2>2. \A j \in Flows : Record(evid[s][j], e.id) = evid[s][j]
    BY <1>8, <2>1 DEF Recorded
  <2>3. evid[s] \in [Flows -> [Conns -> Nat]] BY DEF MultiInv, TypeInv
  <2>4. evid'[s] = evid[s]
    <3>1. evid'[s] = [j \in Flows |-> evid[s][j]] BY <1>6, <2>2
    <3> QED BY <2>3, <3>1
  <2>5. SparesOf(s)' BY <1>1, <1>2, <1>3, <1>4, <1>10, <2>4, SparesKept
  <2> QED BY <1>2, <1>3, <1>5, <1>6, <2>5, SenderSpares
<1> QED BY <1>9, <1>10

(* A group that has all the streams of the first flow has no free entry. *)
LEMMA FullGroup ==
    ASSUME PromptAssumption, MultiInv, NEW s \in Senders,
           OwnedBy(s) \subseteq Recorded(s), Cardinality(OwnedBy(s)) = Connection
    PROVE  0 \notin Recorded(s)
<1> DEFINE g == evid[s][0]
           R == Recorded(s)
           m == Connection - 1
<1>1. 0 \in Flows /\ Connection \in Nat \ {0} /\ Conns = 0..m BY PromptFacts
<1>2. /\ g \in [Conns -> Nat]
      /\ \A j \in Flows : evid[s][j] = g
  BY <1>1 DEF MultiInv, TypeInv, Owned, EvidOwned
<1>3. R = {g[k] : k \in Conns} BY <1>1, <1>2 DEF Recorded
<1>4. IsFiniteSet(Conns) /\ Cardinality(Conns) = Connection
  <2>1. m \in Int /\ 0 \in Int /\ m >= 0 /\ Connection = m + 1 BY <1>1
  <2> HIDE DEF m
  <2>2. IsFiniteSet(0..m) /\ Cardinality(0..m) = IF 0 > m THEN 0 ELSE m - 0 + 1
    BY <2>1, FS_Interval
  <2> QED BY <1>1, <2>1, <2>2
<1>5. 0 \notin OwnedBy(s) BY IdFacts DEF MultiInv, OwnedBy
<1> HIDE DEF g, R
<1>6. g \in Surjection(Conns, R)
  <2>1. g \in [Conns -> R] BY <1>2, <1>3
  <2>2. \A t \in R : \E k \in Conns : g[k] = t BY <1>3
  <2> QED BY <2>1, <2>2 DEF Surjection
<1>7. IsFiniteSet(R) /\ Cardinality(R) <= Connection BY <1>4, <1>6, FS_Surjection
<1>8. ASSUME 0 \in R PROVE FALSE
  <2>1. OwnedBy(s) \in SUBSET R BY DEF R
  <2>2. Cardinality(OwnedBy(s)) < Cardinality(R) /\ Cardinality(R) \in Nat
    BY <1>5, <1>7, <1>8, <2>1, SmallerSet
  <2> QED BY <1>1, <1>7, <2>2
<1> QED BY <1>8 DEF R

(* The clock passes the start of the first flow when all its streams are   *)
(* recorded.                                                               *)
LEMMA TickSpares ==
    ASSUME PromptAssumption, MultiInv, MultiInv', SparesInv, NEW s \in Senders, Tick(s)
    PROVE  SparesInv'
<1>1. SparesOf(s) /\ elapsed[s] \in Nat BY DEF SparesInv, MultiInv, TypeInv
<1>2. /\ UNCHANGED <<pc, done, listening, todo, streams, batch, errors, begun, ended, evid>>
      /\ elapsed' = [elapsed EXCEPT ![s] = elapsed[s] + 1]
      /\ Settled(s)
  BY DEF Tick, PromptAssumption
<1>3. elapsed'[s] = elapsed[s] + 1 /\ \A u \in Senders : u # s => elapsed'[u] = elapsed[u]
  BY <1>2 DEF MultiInv, TypeInv
<1>4. SameStreams /\ Ids' = Ids BY <1>2, NoneChanges DEF MultiInv, Ids
<1>5. /\ OwnedBy(s)' = OwnedBy(s) /\ Recorded(s)' = Recorded(s)
      /\ \A i \in Ids : Index(i)' = Index(i)
  BY <1>2 DEF OwnedBy, Recorded, Ids, Index, Older
<1>6. /\ StartTs[0] \in Nat
      /\ begun[s] \subseteq Flows /\ ended[s] \subseteq Flows
      /\ \A j \in Flows : StartTs[j] \in Nat /\ EndTs[j] \in Nat
  BY PromptFacts DEF MultiInv, TypeInv
<1>7. Bounded(s)'
  <2>1. Bounded(s) BY <1>1 DEF SparesOf
  <2>2. \A j \in begun[s] : StartTs[j] <= elapsed'[s] BY <1>1, <1>3, <1>6, <2>1 DEF Bounded
  <2>3. \A j \in ended[s] : EndTs[j] <= elapsed'[s] BY <1>1, <1>3, <1>6, <2>1 DEF Bounded
  <2> QED BY <1>2, <1>5, <2>1, <2>2, <2>3 DEF Bounded
<1>8. FirstFlow(s)' BY <1>1, <1>5, RecordedIds DEF SparesOf, FirstFlow
<1>9. CASE elapsed[s] < StartTs[0]
  <2>1. IsEarly(s) /\ IsEarly(s)' BY <1>1, <1>3, <1>6, <1>9 DEF IsEarly
  <2>2. OnlyFirst(s)' BY <1>1, <1>2, <1>5, <2>1 DEF SparesOf, OnlyFirst, ListenPorts, PortOf
  <2> QED BY <1>2, <1>3, <1>4, <1>7, <1>8, <2>1, <2>2, SenderSpares DEF SparesOf
<1>10. CASE elapsed[s] >= StartTs[0]
  <2>1. ~IsEarly(s)' BY <1>1, <1>3, <1>6, <1>10 DEF IsEarly
  <2>2. FirstFull(s)
    <3>1. CASE ~IsEarly(s) BY <1>1, <3>1 DEF SparesOf
    <3>2. CASE IsEarly(s)
      <4>1. 0 \in begun[s] BY <1>2, <1>10, PromptFacts DEF Settled, ToStart
      <4>2. begun[s] \subseteq {0} BY <1>1, <3>2, EarlyBegun DEF SparesOf, MultiInv
      <4>3. Cardinality(begun[s]) = 1
        <5>1. begun[s] = {0} BY <4>1, <4>2
        <5> QED BY <5>1, FS_Singleton
      <4>4. OnlyFirst(s) BY <1>1, <3>2 DEF SparesOf
      <4>5. Cardinality(OwnedBy(s)) = Connection
        <5>1. Len(todo[s]) = 0 BY <1>2 DEF Settled
        <5>2. Cardinality(OwnedBy(s)) \in Nat BY IdsFinite DEF MultiInv, OwnedBy
        <5>3. Connection \in Nat BY PromptFacts
        <5> QED BY <4>3, <4>4, <5>1, <5>2, <5>3 DEF OnlyFirst
      <4>6. OwnedBy(s) \subseteq Open(s) BY <4>4 DEF OnlyFirst, OwnedBy, Open
      <4>7. OwnedBy(s) \subseteq Recorded(s) \/ 0 \notin Recorded(s)
        BY <1>2, <4>6 DEF Settled
      <4> QED BY <4>1, <4>5, <4>7, FullGroup DEF FirstFull
    <3> QED BY <3>1, <3>2
  <2>3. FirstFull(s)' BY <1>2, <1>5, <2>2 DEF FirstFull
  <2> QED BY <1>2, <1>3, <1>4, <1>7, <1>8, <2>1, <2>3, SenderSpares DEF SparesOf
<1> QED BY <1>1, <1>6, <1>9, <1>10

-----------------------------------------------------------------------------
(* The time table. *)
LEMMA DueFacts ==
    ASSUME PromptAssumption, TypeInv, NEW s \in Senders
    PROVE  /\ ToStart(s) \subseteq Flows /\ ToEnd(s) \subseteq Flows
           /\ \A j \in ToStart(s) : StartTs[j] <= elapsed[s] /\ j \notin begun[s]
           /\ \A j \in ToEnd(s) : EndTs[j] <= elapsed[s] /\ j \in begun[s]
           /\ Cardinality(begun[s] \cup ToStart(s)) * Connection
                 = Cardinality(begun[s]) * Connection + Len(ToConnect(s))
           /\ Len(ToConnect(s)) \in Nat
<1>1. begun[s] \subseteq Flows /\ elapsed[s] \in Nat BY DEF TypeInv
<1>2. \A j \in Flows : StartTs[j] \in Nat /\ EndTs[j] \in Nat BY PromptFacts
<1>3. ToStart(s) \subseteq Flows /\ ToEnd(s) \subseteq Flows BY <1>1 DEF ToStart, ToEnd
<1>4. /\ \A j \in ToStart(s) : StartTs[j] <= elapsed[s] /\ j \notin begun[s]
      /\ \A j \in ToEnd(s) : EndTs[j] <= elapsed[s] /\ j \in begun[s]
  BY <1>1, <1>2, <1>3 DEF ToStart, ToEnd
<1> DEFINE A == begun[s]
           B == ToStart(s)
           a == Cardinality(A)
           b == Cardinality(B)
<1>5. IsFiniteSet(A) /\ IsFiniteSet(B) /\ A \cap B = {} BY <1>1, <1>3, <1>4, PromptFacts
<1>6. Len(ToConnect(s)) = b * Connection /\ Connection \in Nat
  <2>1. ThreadsAssumption /\ MultiAssumption /\ Connection \in Nat BY PromptFacts
  <2>2. Len(ToConnect(s)) = Cardinality(ToStart(s)) * Connection BY <2>1, ConnectFacts
  <2> QED BY <2>1, <2>2
<1> HIDE DEF A, B
<1>7. Cardinality(A \cup B) = a + b /\ a \in Nat /\ b \in Nat
  <2>1. Cardinality(A \cup B) = Cardinality(A) + Cardinality(B) - Cardinality(A \cap B)
    BY <1>5, FS_Union
  <2>2. Cardinality(A \cap B) = 0 BY <1>5, FS_EmptySet
  <2>3. a \in Nat /\ b \in Nat BY <1>5, FS_CardinalityType
  <2> QED BY <2>1, <2>2, <2>3
<1> HIDE DEF a, b
<1>8. (a + b) * Connection = a * Connection + b * Connection /\ b * Connection \in Nat
  BY <1>6, <1>7
<1> QED BY <1>3, <1>4, <1>6, <1>7, <1>8 DEF A, B, a, b

LEMMA ScheduleSpares ==
    ASSUME PromptAssumption, MultiInv, MultiInv', SparesInv, NEW s \in Senders, Schedule(s)
    PROVE  SparesInv'
<1>1. /\ SparesOf(s) /\ s \in Cores /\ TypeInv
      /\ elapsed[s] \in Nat /\ begun[s] \subseteq Flows /\ ended[s] \subseteq Flows
  BY CoreFacts, PromptFacts DEF SparesInv, MultiInv, TypeInv
<1>2. /\ UNCHANGED <<done, errors, listening, batch, elapsed, evid, slot>>
      /\ pc[s] = "loop" /\ todo[s] = <<>>
      /\ todo' = [todo EXCEPT ![s] = ToConnect(s)]
      /\ begun' = [begun EXCEPT ![s] = begun[s] \cup ToStart(s)]
      /\ ended' = [ended EXCEPT ![s] = ended[s] \cup ToEnd(s)]
      /\ Goto(s, IF ended'[s] = Flows THEN "break" ELSE "epoll")
  BY DEF Schedule, At
<1>3. /\ todo'[s] = ToConnect(s)
      /\ begun'[s] = begun[s] \cup ToStart(s) /\ ended'[s] = ended[s] \cup ToEnd(s)
      /\ \A u \in Senders : u # s => todo'[u] = todo[u] /\ begun'[u] = begun[u]
                                     /\ ended'[u] = ended[u]
  BY <1>1, <1>2 DEF TypeInv
<1>4. /\ pc'[s] = IF ended'[s] = Flows THEN "break" ELSE "epoll"
      /\ \A d \in Cores : d # s => pc'[d] = pc[d]
  BY <1>1, <1>2 DEF TypeInv, Goto
<1>5. /\ SameStreams /\ Ids' = Ids
      /\ \A i \in Ids : streams'[i].snd = IF i \in Due(s) THEN "closed" ELSE streams[i].snd
  BY <1>1, ScheduleStreams
<1>6. OwnedBy(s)' = OwnedBy(s) BY <1>5 DEF SameStreams, OwnedBy
<1>7. \A i \in Due(s) : i \in Recorded(s) \ {0} /\ streams[i].core = s
  <2>1. 0 \notin Ids BY <1>1, IdFacts
  <2>2. ToEnd(s) \subseteq Flows BY <1>1, DueFacts
  <2>3. Due(s) \subseteq Recorded(s) \ {0} BY <2>1, <2>2 DEF Due, ToClose, Recorded
  <2> QED BY <2>3, RecordedIds DEF OwnedBy
<1>8. Bounded(s)'
  <2>1. Bounded(s) BY <1>1 DEF SparesOf
  <2>2. \A j \in begun'[s] : StartTs[j] <= elapsed'[s]
    BY <1>1, <1>2, <1>3, <2>1, DueFacts DEF Bounded
  <2>3. \A j \in ended'[s] : EndTs[j] <= elapsed'[s]
    BY <1>1, <1>2, <1>3, <2>1, DueFacts DEF Bounded
  <2>4. Cardinality(OwnedBy(s)) <= Cardinality(begun[s]) * Connection
        /\ Cardinality(OwnedBy(s)) \in Nat /\ Cardinality(begun[s]) * Connection \in Nat
    <3>1. Len(todo[s]) = 0 BY <1>2
    <3>2. Cardinality(OwnedBy(s)) \in Nat BY <1>1, IdsFinite DEF OwnedBy
    <3>3. Cardinality(begun[s]) \in Nat /\ Connection \in Nat BY <1>1, PromptFacts
    <3> QED BY <2>1, <3>1, <3>2, <3>3 DEF Bounded
  <2>5. Cardinality(OwnedBy(s)) + Len(todo'[s]) <= Cardinality(begun'[s]) * Connection
    <3>1. /\ Cardinality(begun'[s]) * Connection
                = Cardinality(begun[s]) * Connection + Len(todo'[s])
          /\ Len(todo'[s]) \in Nat
      BY <1>1, <1>3, DueFacts
    <3> QED BY <2>4, <3>1
  <2> QED BY <1>6, <2>2, <2>3, <2>5 DEF Bounded
<1>9. FirstFlow(s)'
  <2>1. Recorded(s)' = Recorded(s) BY <1>2 DEF Recorded
  <2>2. \A i \in Recorded(s) \ {0} : Index(i)' = Index(i)
    BY <1>5, IndexKept, RecordedIds DEF MultiInv
  <2> QED BY <1>1, <2>1, <2>2 DEF SparesOf, FirstFlow
<1>10. ASSUME IsEarly(s) PROVE OnlyFirst(s)'
  <2>1. OnlyFirst(s) /\ Bounded(s) BY <1>1, <1>10 DEF SparesOf
  <2>2. begun[s] \subseteq {0} /\ ended[s] = {} BY <1>1, <1>10, <2>1, EarlyBegun
  <2>3. ToStart(s) \subseteq {0} /\ ToEnd(s) = {}
    <3>1. \A j \in Flows : StartTs[j] \in Nat /\ EndTs[j] \in Nat /\ StartTs[j] < EndTs[j]
      BY PromptFacts
    <3>2. \A j \in Flows \ {0} : StartTs[0] < StartTs[j] BY DEF PromptAssumption
    <3>3. elapsed[s] <= StartTs[0] /\ 0 \in Flows BY <1>10, PromptFacts DEF IsEarly
    <3>4. ASSUME NEW j \in ToStart(s), j # 0 PROVE FALSE
      <4>1. j \in Flows /\ StartTs[j] <= elapsed[s] BY <1>1, DueFacts
      <4> QED BY <1>1, <3>1, <3>2, <3>3, <3>4, <4>1
    <3>5. ASSUME NEW j \in ToEnd(s) PROVE FALSE
      <4>1. j \in Flows /\ EndTs[j] <= elapsed[s] /\ j = 0 BY <1>1, <2>2, DueFacts
      <4> QED BY <1>1, <3>1, <3>3, <4>1
    <3> QED BY <3>4, <3>5
  <2>4. pc'[s] = "epoll"
    <3>1. ended'[s] = {} /\ Flows # {} BY <1>3, <2>2, <2>3, PromptFacts
    <3> QED BY <1>4, <3>1
  <2>5. todo'[s] \in Seq(ListenPorts(NPairs + s))
    <3>1. ToConnect(s) \in Seq(DuePorts(s)) BY ConnectFacts, PromptFacts
    <3>2. DuePorts(s) \subseteq ListenPorts(NPairs + s)
      BY <2>3, PortFacts, PromptFacts DEF DuePorts
    <3> QED BY <1>3, <3>1, <3>2, SeqMonotonic
  <2>6. Due(s) = {} BY <2>3 DEF Due, ToClose
  <2>7. \A i \in OwnedBy(s) : /\ streams'[i].snd \in {"syn", "open"}
                              /\ streams'[i].port \in listening[NPairs + s]
    BY <1>5, <2>1, <2>6 DEF OnlyFirst, OwnedBy, SameStreams
  <2>8. Cardinality(OwnedBy(s)) + Len(todo'[s]) = Cardinality(begun'[s]) * Connection
    <3>1. Cardinality(OwnedBy(s)) = Cardinality(begun[s]) * Connection
      <4>1. Len(todo[s]) = 0 BY <1>2
      <4>2. Cardinality(OwnedBy(s)) \in Nat BY <1>1, IdsFinite DEF OwnedBy
      <4> QED BY <2>1, <4>1, <4>2 DEF OnlyFirst
    <3> QED BY <1>1, <1>3, <3>1, DueFacts
  <2> QED BY <1>2, <1>6, <2>1, <2>4, <2>5, <2>7, <2>8 DEF OnlyFirst, ListenPorts, PortOf
<1>11. ASSUME ~IsEarly(s) PROVE FirstFull(s)'
  <2>1. FirstFull(s) BY <1>1, <1>11 DEF SparesOf
  <2> QED BY <1>2, <1>3, <2>1 DEF FirstFull, Recorded
<1>12. IsEarly(s)' <=> IsEarly(s) BY <1>2 DEF IsEarly
<1>13. SparesOf(s)' BY <1>8, <1>9, <1>10, <1>11, <1>12 DEF SparesOf
<1> QED BY <1>2, <1>3, <1>4, <1>5, <1>7, <1>13, SenderSpares

-----------------------------------------------------------------------------
(* There is room for the next stream of the first flow, however many the   *)
(* other senders have: each stream has a number of its own below the       *)
(* limit, made of its sender, the present one last, and its index.         *)
LEMMA RoomFacts ==
    ASSUME PromptAssumption, MultiInv, SparesInv, NEW s \in Senders, IsEarly(s),
           todo[s] # <<>>
    PROVE  Len(streams) < MaxStreams
<1> DEFINE K == NFlows * Connection
           rank(u) == IF u = s THEN NPairs - 1 ELSE IF u < s THEN u ELSE u - 1
           f == [i \in Ids |-> rank(streams[i].core) * K + Index(i)]
           m == (NPairs - 1) * K + Connection - 2
<1>1. /\ NPairs \in Nat \ {0} /\ NFlows \in Nat \ {0} /\ Connection \in Nat \ {0}
      /\ MaxStreams \in Nat /\ (NPairs - 1) * K + Connection <= MaxStreams
  BY DEF PromptAssumption, ThreadsAssumption, MultiAssumption
<1>2. K \in Nat \ {0} /\ Connection <= K
  <2>1. K \in Nat BY <1>1
  <2>2. 1 * Connection <= NFlows * Connection BY <1>1, TimesMonotone
  <2> QED BY <1>1, <2>1, <2>2
<1>3. TypeInv /\ \A u \in Senders : SparesOf(u) BY DEF MultiInv, SparesInv
<1>4. \A u \in Senders : u \in 0..(NPairs - 1) BY DEF Senders
<1>5. ASSUME NEW i \in Ids, streams[i].core # s PROVE Index(i) < K /\ Index(i) \in Nat
  <2> DEFINE u == streams[i].core
  <2>1. /\ u \in Senders /\ Index(i) \in Nat /\ Index(i) < Cardinality(OwnedBy(u))
    BY <1>3, IndexFacts
  <2> HIDE DEF u
  <2>2. Cardinality(OwnedBy(u)) \in Nat /\ Len(todo[u]) \in Nat
    BY <1>3, <2>1, IdsFinite, LenProperties DEF OwnedBy, TypeInv
  <2>3. Cardinality(OwnedBy(u)) + Len(todo[u]) <= Cardinality(begun[u]) * Connection
    BY <1>3, <2>1 DEF SparesOf, Bounded
  <2>4. Cardinality(begun[u]) \in 0..NFlows
    BY <1>3, <2>1, PromptFacts DEF TypeInv
  <2>5. Cardinality(begun[u]) * Connection <= K /\ Cardinality(begun[u]) * Connection \in Nat
    BY <1>1, <2>4, TimesMonotone
  <2> QED BY <1>2, <2>1, <2>2, <2>3, <2>5
<1>6. ASSUME NEW i \in Ids, streams[i].core = s
      PROVE  Index(i) < Connection - 1 /\ Index(i) \in Nat
  <2>1. Index(i) \in Nat /\ Index(i) < Cardinality(OwnedBy(s)) BY <1>3, <1>6, IndexFacts
  <2>2. Cardinality(OwnedBy(s)) \in Nat /\ Len(todo[s]) \in Nat \ {0}
    <3>1. todo[s] \in Seq(Int) BY <1>3 DEF TypeInv
    <3>2. Len(todo[s]) \in Nat \ {0} BY <3>1, LenProperties, EmptySeq
    <3> QED BY <1>3, <3>2, IdsFinite DEF OwnedBy
  <2>3. Cardinality(OwnedBy(s)) + Len(todo[s]) = Cardinality(begun[s]) * Connection
    BY <1>3 DEF SparesOf, OnlyFirst
  <2>4. Cardinality(begun[s]) \in {0, 1} BY <1>3, EarlyBegun DEF SparesOf
  <2>5. Cardinality(begun[s]) * Connection <= Connection BY <1>1, <2>4
  <2> QED BY <1>1, <2>1, <2>2, <2>3, <2>5
<1>7. ASSUME NEW i \in Ids
      PROVE  Index(i) \in 0..(K - 1) /\ streams[i].core \in Senders
  <2>1. streams[i].core \in Senders BY <1>3, IndexFacts
  <2>2. Index(i) \in Nat /\ Index(i) < K BY <1>1, <1>2, <1>5, <1>6
  <2> QED BY <1>2, <2>1, <2>2
<1>8. ASSUME NEW u \in Senders
      PROVE  rank(u) \in Nat /\ (u # s => rank(u) \in 0..(NPairs - 2))
  BY <1>1, <1>4
<1>9. ASSUME NEW u \in Senders, NEW v \in Senders, rank(u) = rank(v) PROVE u = v
  BY <1>1, <1>4, <1>9
<1> HIDE DEF K, rank
<1>10. m \in Int /\ m + 1 < MaxStreams /\ m + 1 >= 0
  <2>1. (NPairs - 1) * K \in Nat BY <1>1, <1>2
  <2> QED BY <1>1, <2>1
<1>11. ASSUME NEW i \in Ids PROVE f[i] \in 0..m
  <2>1. Index(i) \in Nat /\ rank(streams[i].core) \in Nat BY <1>7, <1>8
  <2>2. rank(streams[i].core) * K \in Nat BY <1>2, <2>1
  <2>3. (NPairs - 1) * K \in Nat BY <1>1, <1>2
  <2>4. CASE streams[i].core = s
    <3>1. rank(streams[i].core) = NPairs - 1 BY <2>4 DEF rank
    <3>2. Index(i) <= Connection - 2 BY <1>1, <1>6, <2>1, <2>4
    <3>3. (NPairs - 1) * K + Index(i) <= m BY <1>1, <2>1, <2>3, <3>2
    <3> QED BY <2>1, <2>2, <2>3, <3>1, <3>3
  <2>5. CASE streams[i].core # s
    <3>1. rank(streams[i].core) \in 0..((NPairs - 1) - 1) /\ Index(i) \in 0..(K - 1)
          /\ NPairs - 1 \in Nat
      BY <1>1, <1>7, <1>8, <2>5
    <3>2. rank(streams[i].core) * K + Index(i) \in 0..((NPairs - 1) * K - 1)
      BY <1>2, <3>1, DigitsBelow
    <3>3. (NPairs - 1) * K - 1 <= m BY <1>1, <2>3
    <3> QED BY <1>10, <2>3, <3>2, <3>3
  <2> QED BY <2>4, <2>5
<1>12. ASSUME NEW x \in Ids, NEW y \in Ids, f[x] = f[y] PROVE x = y
  <2> DEFINE p == rank(streams[x].core)
             q == rank(streams[y].core)
  <2>1. p \in Nat /\ q \in Nat /\ Index(x) \in 0..(K - 1) /\ Index(y) \in 0..(K - 1)
    BY <1>7, <1>8
  <2>2. p * K + Index(x) = q * K + Index(y) BY <1>12
  <2> HIDE DEF p, q
  <2>3. /\ (p * K + Index(x)) \div K = p /\ (p * K + Index(x)) % K = Index(x)
        /\ (q * K + Index(y)) \div K = q /\ (q * K + Index(y)) % K = Index(y)
    BY <1>2, <2>1, TwoDigits
  <2>4. p = q /\ Index(x) = Index(y) BY <2>2, <2>3
  <2>5. streams[x].core = streams[y].core BY <1>7, <1>9, <2>4 DEF p, q
  <2>6. x \in Nat /\ y \in Nat BY <1>3, IdFacts
  <2>7. ~(x < y) /\ ~(y < x) BY <1>3, <1>7, <2>4, <2>5, IndexFacts
  <2> QED BY <2>6, <2>7
<1> HIDE DEF m, f
<1>13. IsFiniteSet(0..m) /\ Cardinality(0..m) = m + 1
  <2>1. 0 \in Int OBVIOUS
  <2>2. IsFiniteSet(0..m) /\ Cardinality(0..m) = IF 0 > m THEN 0 ELSE m - 0 + 1
    BY <1>10, <2>1, FS_Interval
  <2> QED BY <1>10, <2>2
<1>14. IsFiniteSet(Ids) /\ Cardinality(Ids) = Len(streams) /\ Len(streams) \in Nat
  BY <1>3, IdsFinite, IdFacts
<1>15. f \in [Ids -> 0..m] BY <1>11 DEF f
<1>16. \A x, y \in Ids : x # y => f[x] # f[y] BY <1>12
<1>17. ~(Cardinality(0..m) < Cardinality(Ids))
  <2> DEFINE T == 0..m
  <2>1. IsFiniteSet(T) /\ f \in [Ids -> T] BY <1>13, <1>15
  <2> HIDE DEF T
  <2>2. ~(Cardinality(T) < Cardinality(Ids)) BY <1>14, <1>16, <2>1, FS_PigeonHole
  <2> QED BY <2>2 DEF T
<1> QED BY <1>1, <1>10, <1>13, <1>14, <1>17

LEMMA ConnectSpares ==
    ASSUME PromptAssumption, MultiInv, MultiInv', ShakeInv, SparesInv, NEW s \in Senders,
           CreateConnection(s), UNCHANGED own
    PROVE  SparesInv'
<1>1. SparesOf(s) /\ TypeInv /\ NPairs + s \in Receivers
  BY PromptFacts, PairFacts DEF SparesInv, MultiInv
<1>2. /\ UNCHANGED <<pc, done, errors, listening, batch>>
      /\ todo[s] # <<>> /\ todo' = [todo EXCEPT ![s] = Tail(todo[s])]
      /\ \A u \in Senders : u # s => todo'[u] = todo[u]
  BY <1>1 DEF CreateConnection, TypeInv
<1>3. todo[s] \in Seq(Int) /\ todo'[s] = Tail(todo[s]) BY <1>1, <1>2 DEF TypeInv
<1>4. Len(todo[s]) \in Nat \ {0} /\ Len(todo'[s]) = Len(todo[s]) - 1
  BY <1>2, <1>3, HeadTailProperties, LenProperties, EmptySeq
<1> DEFINE n == Len(streams) + 1
<1>5. /\ SameStreams /\ \A i \in Ids : streams'[i] = streams[i]
      /\ streams' = streams \/ /\ Ids' = Ids \cup {n}
                               /\ streams'[n] = [core |-> s, port |-> Head(todo[s]),
                                                 snd |-> "syn", rcv |-> "none"]
  BY <1>1, ConnectStreams
<1>6. n \notin Ids BY <1>1, IdFacts
<1>7. \A i \in Ids' : i \in Ids \/ streams'[i].core = s BY <1>5 DEF Ids
<1> HIDE DEF n
<1>8. OwnedBy(s)' = IF streams' = streams THEN OwnedBy(s) ELSE OwnedBy(s) \cup {n}
  BY <1>5 DEF OwnedBy, Ids
<1>9. /\ Cardinality(OwnedBy(s)) \in Nat
      /\ Cardinality(OwnedBy(s)') = IF streams' = streams THEN Cardinality(OwnedBy(s))
                                    ELSE Cardinality(OwnedBy(s)) + 1
  <2>1. IsFiniteSet(OwnedBy(s)) /\ Cardinality(OwnedBy(s)) \in Nat /\ n \notin OwnedBy(s)
    BY <1>1, <1>6, IdsFinite DEF OwnedBy
  <2>2. Cardinality(OwnedBy(s) \cup {n}) = Cardinality(OwnedBy(s)) + 1
    BY <2>1, FS_AddElement
  <2> QED BY <1>8, <2>1, <2>2
<1>10. Cardinality(begun[s]) * Connection \in Nat
  <2>1. Cardinality(begun[s]) \in Nat /\ Connection \in Nat
    BY <1>1, PromptFacts DEF TypeInv
  <2> QED BY <2>1
<1>11. Bounded(s)'
  <2>1. Bounded(s) BY <1>1 DEF SparesOf
  <2>2. Cardinality(OwnedBy(s)') + Len(todo'[s]) <= Cardinality(begun[s]) * Connection
    BY <1>4, <1>9, <1>10, <2>1 DEF Bounded
  <2> QED BY <2>1, <2>2 DEF Bounded, own
<1>12. FirstFlow(s)'
  <2>1. \A i \in Recorded(s) \ {0} : Index(i)' = Index(i)
    BY <1>5, IndexKept, RecordedIds DEF MultiInv
  <2> QED BY <1>1, <2>1 DEF SparesOf, FirstFlow, Recorded, own
<1>13. ASSUME IsEarly(s) PROVE OnlyFirst(s)'
  <2>1. OnlyFirst(s) BY <1>1, <1>13 DEF SparesOf
  <2>2. streams' # streams
    <3>1. Len(streams) < MaxStreams BY <1>2, <1>13, RoomFacts
    <3>2. ~Faults /\ Len(streams) \in Nat /\ MaxStreams \in Nat
      BY <1>1, IdFacts DEF PromptAssumption, ThreadsAssumption
    <3>3. Len(streams') = Len(streams) + 1
      BY <1>1, <3>1, <3>2, AppendProperties DEF CreateConnection, TypeInv
    <3> QED BY <3>2, <3>3
  <2>3. /\ Head(todo[s]) \in ListenPorts(NPairs + s)
        /\ todo'[s] \in Seq(ListenPorts(NPairs + s))
    BY <1>2, <1>3, <2>1, HeadTailProperties DEF OnlyFirst
  <2>4. listening[NPairs + s] = ListenPorts(NPairs + s)
    <3>1. PastWait(s) BY <1>2 DEF PastWait
    <3>2. ready[s] /\ Pair(NPairs + s) = s
      BY <3>1, PromptFacts, PairFacts DEF ShakeInv
    <3> QED BY <1>1, <3>2 DEF ShakeInv, ReceiverShake
  <2>5. \A i \in OwnedBy(s)' : /\ streams'[i].snd \in {"syn", "open"}
                               /\ streams'[i].port \in listening[NPairs + s]
    <3>1. /\ streams'[n].snd = "syn"
          /\ streams'[n].port \in listening[NPairs + s]
      BY <1>5, <2>2, <2>3, <2>4
    <3>2. \A i \in OwnedBy(s) : /\ streams'[i].snd \in {"syn", "open"}
                                /\ streams'[i].port \in listening[NPairs + s]
      BY <1>5, <2>1 DEF OnlyFirst, OwnedBy
    <3> QED BY <1>8, <2>2, <3>1, <3>2
  <2>6. Cardinality(OwnedBy(s)') + Len(todo'[s]) = Cardinality(begun[s]) * Connection
    BY <1>4, <1>9, <1>10, <2>1, <2>2 DEF OnlyFirst
  <2> QED BY <1>2, <2>1, <2>3, <2>5, <2>6 DEF OnlyFirst, ListenPorts, PortOf, own
<1>14. ASSUME ~IsEarly(s) PROVE FirstFull(s)'
  BY <1>1, <1>14 DEF SparesOf, FirstFull, Recorded, own
<1>15. IsEarly(s)' <=> IsEarly(s) BY DEF IsEarly, own
<1>16. SparesOf(s)' BY <1>11, <1>12, <1>13, <1>14, <1>15 DEF SparesOf
<1> QED BY <1>2, <1>5, <1>7, <1>16, SenderSpares DEF own

-----------------------------------------------------------------------------
LEMMA SparesStart == ASSUME PromptAssumption, Init PROVE SparesInv
<1>1. /\ streams = <<>> /\ done = [c \in Cores |-> FALSE] /\ errors = 0
      /\ pc = [c \in Cores |-> "none"] /\ batch = [c \in Cores |-> {}]
      /\ todo = [c \in Senders |-> <<>>]
      /\ elapsed = [s \in Senders |-> 0]
      /\ begun = [s \in Senders |-> {}] /\ ended = [s \in Senders |-> {}]
  BY DEF Init, ThreadsInit
<1>2. Calm BY <1>1, CoreFacts, PromptFacts DEF Calm
<1>3. ASSUME NEW s \in Senders PROVE SparesOf(s)
  <2>1. Ids = {} /\ OwnedBy(s) = {} BY <1>1 DEF Ids, OwnedBy
  <2>2. todo[s] = <<>> /\ begun[s] = {} /\ ended[s] = {} /\ elapsed[s] = 0
        /\ pc[s] = "none" /\ batch[s] = {}
    BY <1>1, CoreFacts, PromptFacts
  <2>3. IsEarly(s) BY <2>2, PromptFacts DEF IsEarly
  <2>4. Cardinality(OwnedBy(s)) = 0 /\ Cardinality(begun[s]) = 0 /\ Len(todo[s]) = 0
        /\ Connection \in Nat
    BY <2>1, <2>2, FS_EmptySet, PromptFacts
  <2>5. todo[s] \in Seq(ListenPorts(NPairs + s)) BY <2>2
  <2>6. OnlyFirst(s) BY <2>1, <2>2, <2>4, <2>5 DEF OnlyFirst
  <2>7. Bounded(s) BY <2>2, <2>4 DEF Bounded
  <2>8. Recorded(s) \subseteq {0} BY DEF Init, Recorded
  <2> QED BY <2>3, <2>6, <2>7, <2>8 DEF SparesOf, FirstFlow
<1> QED BY <1>2, <1>3 DEF SparesInv

PromptInv == MultiInv /\ ShakeInv /\ SparesInv

LEMMA SparesNext ==
    ASSUME PromptAssumption, PromptInv, MultiInv', [Next]_vars PROVE SparesInv'
<1>1. MultiInv /\ ShakeInv /\ SparesInv BY DEF PromptInv
<1>2. ASSUME UNCHANGED <<pc, done, listening, todo, streams, batch, errors,
                         elapsed, begun, ended, evid>>
      PROVE  SparesInv'
  <2>1. SameStreams /\ Ids' = Ids BY <1>1, <1>2, NoneChanges DEF MultiInv, Ids
  <2> QED BY <1>1, <1>2, <2>1, QuietSpares DEF SparesInv, Calm
<1>3. CASE UNCHANGED vars BY <1>2, <1>3 DEF vars, own
<1>4. CASE Abort \/ Sigint BY <1>4 DEF Abort, Sigint, PromptAssumption
<1>5. CASE MainReturn BY <1>2, <1>5 DEF MainReturn, own
<1>6. CASE Stack /\ UNCHANGED own BY <1>1, <1>6, StackSpares
<1>7. ~\E s \in Senders : SpuriousWakeup(s) BY DEF SpuriousWakeup, PromptAssumption
<1>8. ASSUME NEW s \in Senders, Tick(s) PROVE SparesInv' BY <1>1, <1>8, TickSpares
<1>9. ASSUME NEW s \in Senders, RunSendContext(s) PROVE SparesInv'
  <2>1. CASE Schedule(s) BY <1>1, <2>1, ScheduleSpares
  <2>2. CASE SendOut(s) BY <1>1, <2>2, OutSpares
  <2>3. CASE EpollWait(s) /\ UNCHANGED own
    BY <1>1, <2>3, WaitSpares, CoreFacts, PromptFacts
  <2>4. ASSUME NEW e \in batch[s], SendWrite(s, e) PROVE SparesInv'
    BY <1>1, <2>4, WriteSpares
  <2>5. ASSUME NEW e \in batch[s], SendError(s, e) PROVE SparesInv'
    BY <1>1, <2>5, ErrorSpares
  <2>6. ASSUME NEW e \in batch[s], Transfer(s, e), UNCHANGED own PROVE SparesInv'
    <3>1. UNCHANGED <<todo, done, errors, listening, streams>> /\ Take(s, e)
      BY <2>6 DEF Transfer
    <3>2. SameStreams /\ Ids' = Ids BY <1>1, <3>1, NoneChanges DEF MultiInv, Ids
    <3> QED BY <1>1, <2>6, <3>1, <3>2, EventSpares, CoreFacts, PromptFacts DEF own
  <2> QED BY <1>9, <2>1, <2>2, <2>3, <2>4, <2>5, <2>6 DEF RunSendContext
<1>10. ASSUME NEW c \in Cores, RunVnf(c) PROVE SparesInv'
  <2>1. CASE SetUp(c) /\ ~(c \in Senders /\ CreateConnection(c))
    BY <1>1, <2>1, SetUpSpares
  <2>2. CASE SetUp(c) /\ c \in Senders /\ CreateConnection(c)
    BY <1>1, <2>2, ConnectSpares DEF SetUp
  <2>3. CASE c \in Receivers /\ RunReceiver(c) BY <1>1, <2>3, ReceiverSpares
  <2> QED BY <1>9, <1>10, <2>1, <2>2, <2>3 DEF RunVnf
<1> QED BY <1>3, <1>4, <1>5, <1>6, <1>7, <1>8, <1>10 DEF Next, Environment

LEMMA PromptInvariant == ASSUME PromptAssumption PROVE Spec => []PromptInv
<1>1. Init => PromptInv
  BY MultiStart, ShakeStart, SparesStart, PromptFacts DEF PromptInv
<1>2. PromptInv /\ [Next]_vars => PromptInv'
  <2> SUFFICES ASSUME PromptInv, [Next]_vars PROVE PromptInv'
    OBVIOUS
  <2>1. MultiInv' BY MultiNext, PromptFacts DEF PromptInv
  <2>2. ShakeInv'
    BY ShakeNext, PromptFacts DEF PromptInv, MultiInv, PromptAssumption
  <2>3. SparesInv' BY <2>1, SparesNext
  <2> QED BY <2>1, <2>2, <2>3 DEF PromptInv
<1> QED BY <1>1, <1>2, PTL DEF Spec

(* Flows are ended by the time table only. *)
LEMMA OnlyScheduleEnds ==
    ASSUME TypeInv, NEW s \in Senders, [Next]_vars, ended'[s] # ended[s]
    PROVE  Schedule(s)
<1>1. ended' # ended OBVIOUS
<1>2. UNCHANGED ended \/ \E u \in Senders : Schedule(u)
  BY DEF Next, Environment, RunVnf, SetUp, RunSendContext, RunReceiver, RecvRead, SendOut,
         SendWrite, SendError, MainReturn, Tick, vars, own
<1>3. PICK u \in Senders : Schedule(u) BY <1>1, <1>2
<1>4. ended' = [ended EXCEPT ![u] = ended[u] \cup ToEnd(u)] BY <1>3 DEF Schedule
<1>5. u = s BY <1>4 DEF TypeInv
<1> QED BY <1>3, <1>5

(* If streams are set up and served in less time than lies between two     *)
(* starts, nothing fails, and the first flow is also the first to end, a   *)
(* flow that goes on keeps its streams when others end: the streams closed *)
(* are always those of the first one (fv_mtcp_fq_multi.c:272-276, 292-302).*)
THEOREM SparesTheorem ==
    ASSUME PromptAssumption
    PROVE  Spec => [][SparesOthers]_vars
<1>1. PromptInv /\ [Next]_vars => [SparesOthers]_vars
  <2> SUFFICES ASSUME PromptInv, [Next]_vars PROVE SparesOthers
    OBVIOUS
  <2>1. MultiInv /\ TypeInv /\ SparesInv BY DEF PromptInv, MultiInv
  <2> SUFFICES ASSUME NEW s \in Senders, NEW i \in Ids, streams[i].core = s,
                      streams[i].snd = "open", streams'[i].snd = "closed",
                      ended'[s] # ended[s]
               PROVE  FlowOf(i) \in ended'[s]
    BY DEF SparesOthers
  <2>2. Schedule(s) BY <2>1, OnlyScheduleEnds
  <2>3. ended'[s] = ended[s] \cup ToEnd(s) BY <2>1, <2>2 DEF Schedule, TypeInv
  <2>4. FlowOf(i) = 0
    <3>1. i \in Due(s) BY <2>1, <2>2, ScheduleStreams
    <3>2. ToEnd(s) \subseteq Flows /\ i # 0
      <4>1. ToEnd(s) \subseteq Flows BY <2>1, DueFacts
      <4>2. i # 0 BY <2>1, IdFacts
      <4> QED BY <4>1, <4>2
    <3>3. i \in Recorded(s) \ {0} BY <3>1, <3>2 DEF Due, ToClose, Recorded
    <3>4. Index(i) < Connection BY <2>1, <3>3 DEF SparesInv, SparesOf, FirstFlow
    <3>5. Index(i) \in Nat /\ Connection \in Nat \ {0} BY <2>1, IndexFacts, PromptFacts
    <3>6. Index(i) \div Connection = 0
      <4>1. Index(i) < 1 * Connection BY <3>4, <3>5
      <4>2. Index(i) \div Connection < 1 BY <3>5, <4>1, QuotientBelow
      <4>3. Index(i) \div Connection \in Nat BY <3>5, Quotient
      <4> QED BY <4>2, <4>3
    <3> QED BY <3>6 DEF FlowOf, Index, Older
  <2>5. 0 \in ended'[s]
    <3>1. PICK j \in ToEnd(s) : j \in Flows /\ EndTs[j] <= elapsed[s]
      BY <2>1, <2>3, DueFacts
    <3>2. EndTs[0] <= EndTs[j] BY <3>1, PromptFacts DEF PromptAssumption
    <3>3. /\ elapsed[s] \in Nat /\ StartTs[0] \in Nat /\ EndTs[0] \in Nat
          /\ EndTs[j] \in Nat /\ StartTs[0] < EndTs[0]
      BY <2>1, <3>1, PromptFacts DEF TypeInv
    <3>4. elapsed[s] >= EndTs[0] /\ ~IsEarly(s) BY <3>1, <3>2, <3>3 DEF IsEarly
    <3>5. 0 \in begun[s] BY <2>1, <3>4 DEF SparesInv, SparesOf, FirstFull
    <3> QED BY <2>3, <3>4, <3>5 DEF ToEnd
  <2> QED BY <2>4, <2>5
<1> QED BY <1>1, PromptInvariant, PTL DEF Spec
=============================================================================
