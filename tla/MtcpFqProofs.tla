----------------------------- MODULE MtcpFqProofs -----------------------------
(* The theorems of MtcpFq, for any number of pairs, flows and streams.     *)
EXTENDS MtcpFq, DivLemmas, SequenceTheorems

Stages == {"none", "new", "init", "listen", "ready", "signal", "test", "wait", "waiting",
           "loop", "epoll", "events", "break", "out", "gone"}
Stream == [core : Senders, port : Int, snd : {"syn", "open", "broken", "closed"},
           rcv : {"none", "queued", "accepted", "closed"}]
Event == [kind : {"out", "in", "err", "accept"}, id : Nat \ {0}]

(* What each variable may hold. *)
TypeInv ==
    /\ pc \in [Cores -> Stages]
    /\ todo \in [Senders -> Seq(Int)]
    /\ streams \in Seq(Stream)
    /\ batch \in [Cores -> SUBSET Event]
    /\ elapsed \in [Senders -> Nat]
    /\ begun \in [Senders -> SUBSET Flows] /\ ended \in [Senders -> SUBSET Flows]
    /\ evid \in [Senders -> [Flows -> Nat]]
    /\ slot \in [Receivers -> [Flows -> Nat]]

-----------------------------------------------------------------------------
(* The flows that are due have places 1 to their number, in their order.   *)
LEMMA DuePlaces ==
    ASSUME FqAssumption, NEW S \in SUBSET Flows, NEW n \in 1..Cardinality(S)
    PROVE  \E j \in S : Cardinality(Smaller(S, j)) = n - 1
BY PlaceOf DEF FqAssumption, Flows

LEMMA DueFinite ==
    ASSUME FqAssumption, NEW S \in SUBSET Flows
    PROVE  IsFiniteSet(S) /\ Cardinality(S) \in Nat /\ S \subseteq Nat
<1>1. NFlows \in Nat /\ Flows = 0..(NFlows - 1) BY DEF FqAssumption, Flows
<1>2. NFlows - 1 \in Int /\ 0 \in Int BY <1>1
<1>3. IsFiniteSet(Flows) BY <1>1, <1>2, FS_Interval
<1>4. IsFiniteSet(S) BY <1>3, FS_Subset
<1> QED BY <1>1, <1>4, FS_CardinalityType

(* The ports of the flows that are due. *)
LEMMA SeqFacts ==
    ASSUME FqAssumption, NEW s, NEW S \in SUBSET Flows
    PROVE  /\ SeqOfPorts(s, S) \in Seq({Port(s, j) : j \in S})
           /\ Len(SeqOfPorts(s, S)) = Cardinality(S) /\ Cardinality(S) \in Nat
<1>1. IsFiniteSet(S) /\ Cardinality(S) \in Nat BY DueFinite
<1> DEFINE place(n) == CHOOSE j \in S : Cardinality({k \in S : k < j}) = n - 1
           q == [n \in 1..Cardinality(S) |-> Port(s, place(n))]
<1>2. \A n \in 1..Cardinality(S) : place(n) \in S BY DuePlaces DEF Smaller
<1>3. q = SeqOfPorts(s, S) BY DEF SeqOfPorts
<1>4. q \in [1..Cardinality(S) -> {Port(s, j) : j \in S}]
  <2> HIDE DEF place
  <2> QED BY <1>2
<1> HIDE DEF q
<1>5. q \in Seq({Port(s, j) : j \in S}) BY <1>1, <1>4, SeqDef
<1>6. Len(q) = Cardinality(S)
  <2>1. DOMAIN q = 1..Len(q) /\ Len(q) \in Nat BY <1>5, LenProperties
  <2> QED BY <1>1, <1>4, <2>1
<1> QED BY <1>1, <1>3, <1>5, <1>6

-----------------------------------------------------------------------------
LEMMA CoreFacts ==
    ASSUME ThreadsAssumption
    PROVE  /\ Senders \subseteq Cores /\ Receivers \subseteq Cores
           /\ \A c \in Cores : c \in Senders \/ c \in Receivers
           /\ \A s \in Senders : s \in Nat /\ s \notin Receivers
           /\ \A r \in Receivers : r \in Nat /\ Pair(r) \in Senders /\ r \notin Senders
BY DEF ThreadsAssumption, Senders, Receivers, Cores, Pair

LEMMA IdFacts ==
    ASSUME TypeInv
    PROVE  /\ Ids = 1..Len(streams) /\ Len(streams) \in Nat
           /\ \A i \in Ids : streams[i] \in Stream
<1>1. streams \in Seq(Stream) BY DEF TypeInv
<1>2. Ids = 1..Len(streams) /\ Len(streams) \in Nat BY <1>1, LenProperties DEF Ids
<1>3. \A i \in Ids : streams[i] \in Stream BY <1>1, <1>2, ElementOfSeq
<1> QED BY <1>2, <1>3

(* What no step takes from a stream: its place, its sender and its port,   *)
(* and that it was closed.                                                 *)
SameStreams ==
    /\ Ids \subseteq Ids'
    /\ \A i \in Ids : /\ streams'[i].core = streams[i].core
                      /\ streams'[i].port = streams[i].port
                      /\ streams[i].snd = "closed" => streams'[i].snd = "closed"

(* One stream changes its state at one of its ends, or at both. *)
LEMMA OneChanges ==
    ASSUME TypeInv, NEW i \in Ids, NEW x \in Stream, streams' = [streams EXCEPT ![i] = x],
           x.core = streams[i].core, x.port = streams[i].port,
           streams[i].snd = "closed" => x.snd = "closed"
    PROVE  /\ streams' \in Seq(Stream) /\ SameStreams /\ Ids' = Ids
           /\ \A k \in Ids : streams'[k] = IF k = i THEN x ELSE streams[k]
<1>1. streams \in Seq(Stream) /\ Ids = 1..Len(streams) BY IdFacts DEF TypeInv
<1>2. streams' \in Seq(Stream) /\ Ids' = Ids BY <1>1, ExceptSeq DEF Ids
<1>3. \A k \in Ids : streams'[k] = IF k = i THEN x ELSE streams[k]
  BY <1>1, ExceptSeq
<1> QED BY <1>2, <1>3 DEF SameStreams

LEMMA NoneChanges == ASSUME TypeInv, UNCHANGED streams
                     PROVE  streams' \in Seq(Stream) /\ SameStreams
BY DEF TypeInv, SameStreams, Ids

(* What becomes of a stream that the sender closes. *)
LEMMA ClosedFacts ==
    ASSUME TypeInv, NEW i \in Ids
    PROVE  /\ Closed(i)[i] \in Stream /\ Closed(i) = [streams EXCEPT ![i] = Closed(i)[i]]
           /\ Closed(i)[i].core = streams[i].core /\ Closed(i)[i].port = streams[i].port
           /\ Closed(i)[i].snd = "closed"
<1> DEFINE r == IF streams[i].rcv = "queued" THEN "closed" ELSE streams[i].rcv
           y == [streams[i] EXCEPT !.snd = "closed", !.rcv = r]
<1>1. streams[i] \in Stream /\ Ids = DOMAIN streams /\ i \in DOMAIN streams
  BY IdFacts DEF Ids
<1>2. y \in Stream /\ y.core = streams[i].core /\ y.port = streams[i].port /\ y.snd = "closed"
  BY <1>1, ZenonT(40) DEF Stream
<1>3. Closed(i) = [streams EXCEPT ![i] = y] BY <1>1 DEF Closed, Stream
<1>4. Closed(i)[i] = y BY <1>1, <1>3
<1> HIDE DEF y
<1> QED BY <1>2, <1>3, <1>4

-----------------------------------------------------------------------------
(* What the steps do to the streams. *)
LEMMA StackStreams ==
    ASSUME TypeInv, Stack
    PROVE  /\ streams' \in Seq(Stream) /\ SameStreams /\ Ids' = Ids
           /\ \A k \in Ids : streams'[k].snd = "closed" => streams[k].snd = "closed"
<1>2. PICK i \in Ids : Answer(i) \/ Break(i) BY DEF Stack
<1>4. PICK x \in Stream :
         /\ streams' = [streams EXCEPT ![i] = x]
         /\ x.core = streams[i].core /\ x.port = streams[i].port
         /\ x.snd # "closed" /\ streams[i].snd # "closed"
  <2>1. streams[i] \in Stream BY IdFacts
  <2>2. CASE Answer(i)
    <3>1. CASE streams' = [streams EXCEPT ![i].snd = "open", ![i].rcv = "queued"]
      <4> DEFINE x == [streams[i] EXCEPT !.snd = "open", !.rcv = "queued"]
      <4>1. x \in Stream /\ x.core = streams[i].core /\ x.port = streams[i].port /\ x.snd = "open"
        BY <2>1 DEF Stream
      <4>2. streams' = [streams EXCEPT ![i] = x] BY <3>1, IdFacts DEF Ids
      <4>3. streams[i].snd = "syn" BY <2>2 DEF Answer
      <4> HIDE DEF x
      <4> QED BY <4>1, <4>2, <4>3
    <3>2. CASE streams' = [streams EXCEPT ![i].snd = "broken"]
      <4>1. streams' = [streams EXCEPT ![i] = [streams[i] EXCEPT !.snd = "broken"]]
        BY <3>2
      <4> QED BY <2>1, <2>2, <4>1, ZenonT(40) DEF Answer, Stream
    <3> QED BY <2>2, <3>1, <3>2 DEF Answer
  <2>3. CASE Break(i)
    <3>1. streams' = [streams EXCEPT ![i] = [streams[i] EXCEPT !.snd = "broken"]]
      BY <2>3 DEF Break
    <3> QED BY <2>1, <2>3, <3>1, ZenonT(40) DEF Break, Stream
  <2> QED BY <1>2, <2>2, <2>3
<1>5. /\ streams' \in Seq(Stream) /\ SameStreams /\ Ids' = Ids
      /\ \A k \in Ids : streams'[k] = IF k = i THEN x ELSE streams[k]
  BY <1>4, OneChanges
<1> QED BY <1>4, <1>5

LEMMA ReceiveStreams ==
    ASSUME TypeInv, NEW r \in Receivers, NEW e \in batch[r],
           RecvAccept(r, e) \/ RecvError(r, e)
    PROVE  /\ streams' \in Seq(Stream) /\ SameStreams /\ Ids' = Ids
           /\ \A k \in Ids : streams'[k].snd = streams[k].snd
<1> DEFINE Goal == /\ streams' \in Seq(Stream) /\ SameStreams /\ Ids' = Ids
                   /\ \A k \in Ids : streams'[k].snd = streams[k].snd
<1>1. CASE UNCHANGED streams BY <1>1, NoneChanges DEF Ids
<1>2. ASSUME NEW x, x \in {"none", "queued", "accepted", "closed"},
             streams' = [streams EXCEPT ![e.id].rcv = x]
      PROVE  Goal
  <2>1. streams \in Seq(Stream) /\ streams \in [1..Len(streams) -> Stream]
        /\ Ids = 1..Len(streams)
    BY LenProperties, IdFacts DEF TypeInv
  <2>2. CASE e.id \in Ids
    <3> DEFINE y == [streams[e.id] EXCEPT !.rcv = x]
    <3>1. streams[e.id] \in Stream BY <2>2, IdFacts
    <3>2. y \in Stream /\ y.core = streams[e.id].core /\ y.snd = streams[e.id].snd
          /\ y.port = streams[e.id].port
      BY <1>2, <3>1 DEF Stream
    <3>3. streams' = [streams EXCEPT ![e.id] = y] BY <1>2
    <3> HIDE DEF y
    <3>4. /\ streams' \in Seq(Stream) /\ SameStreams /\ Ids' = Ids
          /\ \A k \in Ids : streams'[k] = IF k = e.id THEN y ELSE streams[k]
      BY <2>2, <3>2, <3>3, OneChanges
    <3> QED BY <3>2, <3>4
  <2>3. CASE e.id \notin Ids
    <3>1. streams' = streams BY <1>2, <2>1, <2>3
    <3> QED BY <1>1, <3>1
  <2> QED BY <2>2, <2>3
<1>3. CASE streams' = [streams EXCEPT ![e.id].rcv = "closed"] BY <1>2, <1>3
<1>4. CASE streams' = [streams EXCEPT ![e.id].rcv = IF @ = "queued" THEN "accepted" ELSE @]
  <2>1. CASE e.id \in Ids /\ streams[e.id].rcv # "queued"
    <3>1. streams[e.id] \in Stream BY <2>1, IdFacts
    <3>2. streams[e.id].rcv \in {"none", "queued", "accepted", "closed"}
      BY <3>1 DEF Stream
    <3>3. streams' = [streams EXCEPT ![e.id].rcv = streams[e.id].rcv] BY <1>4, <2>1
    <3> QED BY <1>2, <3>2, <3>3
  <2>2. CASE e.id \in Ids /\ streams[e.id].rcv = "queued"
    <3>1. streams' = [streams EXCEPT ![e.id].rcv = "accepted"] BY <1>4, <2>2
    <3> QED BY <1>2, <3>1
  <2>3. CASE e.id \notin Ids
    <3>1. streams \in [1..Len(streams) -> Stream] /\ Ids = 1..Len(streams)
      BY IdFacts, LenProperties DEF TypeInv
    <3>2. streams' = streams BY <1>4, <2>3, <3>1
    <3> QED BY <1>1, <3>2
  <2> QED BY <2>1, <2>2, <2>3
<1> QED BY <1>1, <1>3, <1>4 DEF RecvAccept, RecvError

(* A stream is opened for the next port, or none is. *)
LEMMA ConnectStreams ==
    ASSUME TypeInv, NEW s \in Senders, CreateConnection(s)
    PROVE  /\ streams' \in Seq(Stream) /\ SameStreams
           /\ todo' \in [Senders -> Seq(Int)]
           /\ \A k \in Ids : streams'[k] = streams[k]
           /\ streams' = streams \/ /\ Ids' = Ids \cup {Len(streams) + 1}
                                    /\ streams'[Len(streams) + 1] =
                                          [core |-> s, port |-> Head(todo[s]),
                                           snd |-> "syn", rcv |-> "none"]
<1>1. todo[s] # <<>> /\ todo[s] \in Seq(Int) /\ todo' = [todo EXCEPT ![s] = Tail(todo[s])]
  BY DEF CreateConnection, TypeInv
<1>2. Head(todo[s]) \in Int /\ Tail(todo[s]) \in Seq(Int) BY <1>1, HeadTailProperties
<1>3. todo' \in [Senders -> Seq(Int)] BY <1>1, <1>2 DEF TypeInv
<1>4. CASE UNCHANGED streams BY <1>3, <1>4, NoneChanges
<1>5. CASE streams' = Append(streams, [core |-> s, port |-> Head(todo[s]),
                                       snd |-> "syn", rcv |-> "none"])
  <2> DEFINE x == [core |-> s, port |-> Head(todo[s]), snd |-> "syn", rcv |-> "none"]
  <2>1. x \in Stream BY <1>2 DEF Stream
  <2>2. streams' = Append(streams, x) BY <1>5
  <2> HIDE DEF x
  <2>3. /\ streams' \in Seq(Stream) /\ Len(streams') = Len(streams) + 1
        /\ \A i \in 1..Len(streams) : streams'[i] = streams[i]
        /\ streams'[Len(streams) + 1] = x
    BY <2>1, <2>2, AppendProperties DEF TypeInv
  <2>4. Ids = 1..Len(streams) /\ Len(streams) \in Nat /\ Ids' = 1..Len(streams')
    BY <2>3, IdFacts, LenProperties DEF Ids
  <2>5. Ids' = Ids \cup {Len(streams) + 1} BY <2>3, <2>4
  <2> QED BY <1>3, <2>3, <2>4, <2>5 DEF SameStreams, x
<1> QED BY <1>4, <1>5 DEF CreateConnection

(* Some streams are closed by their sender, all at once. *)
LEMMA SomeClosed ==
    ASSUME TypeInv, NEW S, NEW f, streams' = [i \in Ids |-> IF i \in S THEN f[i] ELSE streams[i]],
           \A i \in Ids : /\ f[i] \in Stream /\ f[i].core = streams[i].core
                          /\ f[i].port = streams[i].port /\ f[i].snd = "closed"
    PROVE  /\ streams' \in Seq(Stream) /\ SameStreams /\ Ids' = Ids
           /\ \A k \in Ids : streams'[k].snd = IF k \in S THEN "closed" ELSE streams[k].snd
<1>1. /\ Ids = 1..Len(streams) /\ Len(streams) \in Nat
      /\ \A i \in Ids : streams[i] \in Stream
  BY IdFacts
<1>2. \A i \in Ids :
         /\ streams'[i] \in Stream /\ streams'[i].core = streams[i].core
         /\ streams'[i].port = streams[i].port
         /\ streams'[i].snd = IF i \in S THEN "closed" ELSE streams[i].snd
  BY <1>1
<1>3. streams' \in [1..Len(streams) -> Stream] BY <1>1, <1>2
<1>4. streams' \in Seq(Stream) /\ Ids' = Ids BY <1>1, <1>3, SeqDef DEF Ids
<1> QED BY <1>2, <1>4 DEF SameStreams

Due(s) == {i \in Ids : \E j \in ToEnd(s) : evid[s][j] = i}

LEMMA ScheduleStreams ==
    ASSUME TypeInv, NEW s \in Senders, Schedule(s)
    PROVE  /\ streams' \in Seq(Stream) /\ SameStreams /\ Ids' = Ids
           /\ \A k \in Ids : streams'[k].snd = IF k \in Due(s) THEN "closed" ELSE streams[k].snd
<1> DEFINE f == [i \in Ids |-> Closed(i)[i]]
<1>1. streams' = [i \in Ids |-> IF i \in Due(s) THEN f[i] ELSE streams[i]]
  BY DEF Schedule, Due
<1>2. \A i \in Ids : f[i] \in Stream /\ f[i].core = streams[i].core
                     /\ f[i].port = streams[i].port /\ f[i].snd = "closed"
  BY ClosedFacts
<1> HIDE DEF f
<1> QED BY <1>1, <1>2, SomeClosed

(* The streams of a sender. *)
OwnedBy(s) == {i \in Ids : streams[i].core = s}

LEMMA LeaveStreams ==
    ASSUME TypeInv, NEW s \in Senders, Leave(s)
    PROVE  /\ streams' \in Seq(Stream) /\ SameStreams /\ Ids' = Ids
           /\ \A k \in Ids : streams'[k].snd = IF k \in OwnedBy(s) THEN "closed"
                                               ELSE streams[k].snd
<1> DEFINE f == [i \in Ids |-> [streams[i] EXCEPT !.snd = "closed"]]
<1>1. streams' = [i \in Ids |-> IF i \in OwnedBy(s) THEN f[i] ELSE streams[i]]
  BY DEF Leave, OwnedBy
<1>2. \A i \in Ids : f[i] \in Stream /\ f[i].core = streams[i].core
                     /\ f[i].port = streams[i].port /\ f[i].snd = "closed"
  BY IdFacts DEF Stream
<1> HIDE DEF f
<1> QED BY <1>1, <1>2, SomeClosed

LEMMA CloseOne ==
    ASSUME TypeInv, NEW i \in Ids, streams' = Closed(i)
    PROVE  /\ streams' \in Seq(Stream) /\ SameStreams /\ Ids' = Ids
           /\ \A k \in Ids : streams'[k].snd = IF k = i THEN "closed" ELSE streams[k].snd
<1> DEFINE x == Closed(i)[i]
<1>1. /\ x \in Stream /\ streams' = [streams EXCEPT ![i] = x]
      /\ x.core = streams[i].core /\ x.port = streams[i].port /\ x.snd = "closed"
  BY ClosedFacts
<1> HIDE DEF x
<1>2. /\ streams' \in Seq(Stream) /\ SameStreams /\ Ids' = Ids
      /\ \A k \in Ids : streams'[k] = IF k = i THEN x ELSE streams[k]
  BY <1>1, OneChanges
<1> QED BY <1>1, <1>2

-----------------------------------------------------------------------------
(* The tables.  They are filled from the front, and each stream is there   *)
(* only once.                                                              *)
Filled(t) ==
    \A j, k \in Flows : /\ t[j] = 0 /\ j < k => t[k] = 0
                        /\ t[j] = t[k] => j = k \/ t[j] = 0

LEMMA RecordFacts ==
    ASSUME FqAssumption, NEW t \in [Flows -> Nat], NEW id \in Nat \ {0}, Filled(t)
    PROVE  /\ Record(t, id) \in [Flows -> Nat] /\ Filled(Record(t, id))
           /\ \A j \in Flows : \/ Record(t, id)[j] = t[j]
                               \/ t[j] = 0 /\ Record(t, id)[j] = id
           /\ \A j \in Flows :
                 t[j] \in {0, id} /\ (\A k \in Flows : k < j => t[k] \notin {0, id})
                 => /\ Record(t, id)[j] = id
                    /\ \A k \in Flows : k # j => Record(t, id)[k] = t[k]
<1>1. Flows \subseteq Nat BY DEF FqAssumption, Flows
<1> DEFINE hit == {j \in Flows : t[j] \in {0, id}}
           first(j) == j \in hit /\ \A k \in hit : j <= k
           u == [j \in Flows |-> IF first(j) THEN id ELSE t[j]]
<1>2. u = Record(t, id) BY DEF Record
<1>3. \A j \in Flows : u[j] = IF first(j) THEN id ELSE t[j] OBVIOUS
<1>4. \A j, k \in Flows : first(j) /\ first(k) => j = k BY <1>1
<1>5. \A j, k \in Flows : first(j) /\ k < j => t[k] # 0 /\ t[k] # id BY <1>1
<1>6. \A j, k \in Flows : first(j) /\ j < k => t[k] # id
  BY <1>1 DEF Filled
<1>7. u \in [Flows -> Nat] OBVIOUS
<1>8. \A j \in Flows : u[j] = t[j] \/ (t[j] = 0 /\ u[j] = id) BY <1>3
<1>9. \A j \in Flows :
         t[j] \in {0, id} /\ (\A k \in Flows : k < j => t[k] \notin {0, id})
         => u[j] = id /\ \A k \in Flows : k # j => u[k] = t[k]
  <2> SUFFICES ASSUME NEW j \in Flows, t[j] \in {0, id},
                      \A k \in Flows : k < j => t[k] \notin {0, id}
               PROVE  u[j] = id /\ \A k \in Flows : k # j => u[k] = t[k]
    OBVIOUS
  <2>1. first(j) BY <1>1
  <2> HIDE DEF hit
  <2> QED BY <1>3, <1>4, <2>1
<1> HIDE DEF hit, u, first
<1>10. Filled(u)
  <2> SUFFICES ASSUME NEW j \in Flows, NEW k \in Flows
               PROVE  /\ u[j] = 0 /\ j < k => u[k] = 0
                      /\ u[j] = u[k] => j = k \/ u[j] = 0
    BY DEF Filled
  <2>1. /\ t[j] = 0 /\ j < k => t[k] = 0
        /\ t[j] = t[k] => j = k \/ t[j] = 0
    BY DEF Filled
  <2>2. j \in Nat /\ k \in Nat BY <1>1
  <2>3. CASE first(j) BY <1>3, <1>4, <1>5, <1>6, <2>1, <2>2, <2>3
  <2>4. CASE first(k) /\ ~first(j)
    <3>1. u[k] = id /\ u[j] = t[j] /\ j # k BY <1>3, <2>4
    <3>2. t[j] # id /\ (j < k => t[j] # 0) BY <1>5, <1>6, <2>2, <2>4, <3>1
    <3> QED BY <3>1, <3>2
  <2>5. CASE ~first(j) /\ ~first(k) BY <1>3, <2>1, <2>5
  <2> QED BY <2>3, <2>4, <2>5
<1> QED BY <1>2, <1>7, <1>8, <1>9, <1>10

-----------------------------------------------------------------------------
(* The invariant.  What a sender has left of its batch is about streams of *)
(* its own that it has not closed, one event per stream, and only while it *)
(* deals with it; what a receiver has left is about streams to its ports.  *)
(* The entries of the tables are such streams as well.                     *)
BatchOwned(s) ==
    /\ \A e \in batch[s] : /\ e.id \in Ids /\ streams[e.id].core = s
                           /\ streams[e.id].snd # "closed"
    /\ \A x, y \in batch[s] : x.id = y.id => x = y
    /\ batch[s] # {} => pc[s] = "events"
EvidOwned(s) ==
    /\ Filled(evid[s])
    /\ \A j \in Flows : evid[s][j] # 0 => evid[s][j] \in OwnedBy(s)

(* The streams to a receiver. *)
SentTo(r) == {i \in Ids : streams[i].port \in ListenPorts(r)}
RecvOwned(r) ==
    /\ listening[r] \subseteq ListenPorts(r)
    /\ \A e \in batch[r] : e.id \in SentTo(r)
SlotOwned(r) ==
    /\ Filled(slot[r])
    /\ \A j \in Flows : slot[r][j] # 0 => slot[r][j] \in SentTo(r)

(* Batches and tables are about streams of the thread that has them. *)
Owned ==
    /\ listening \in [Receivers -> SUBSET Int]
    /\ \A s \in Senders : BatchOwned(s) /\ EvidOwned(s)
    /\ \A r \in Receivers : RecvOwned(r) /\ SlotOwned(r)

FqInv == TypeInv /\ Owned

-----------------------------------------------------------------------------
LEMMA KeptOwn ==
    ASSUME SameStreams
    PROVE  /\ \A s \in Senders : OwnedBy(s) \subseteq OwnedBy(s)'
           /\ \A r \in Receivers : SentTo(r) \subseteq SentTo(r)'
<1>1. \A r : ListenPorts(r)' = ListenPorts(r) BY DEF ListenPorts, Port, Flows
<1> QED BY <1>1 DEF SameStreams, OwnedBy, SentTo

(* Steps that leave the tables alone and bring no new events. *)
LEMMA KeptStep ==
    ASSUME ThreadsAssumption, Owned, SameStreams, UNCHANGED <<evid, slot>>,
           listening' \in [Receivers -> SUBSET Int],
           \A r \in Receivers : listening'[r] \subseteq ListenPorts(r),
           \A c \in Cores : batch'[c] \subseteq batch[c],
           \A s \in Senders : /\ batch'[s] # {} => pc'[s] = "events"
                              /\ \A e \in batch'[s] : streams'[e.id].snd # "closed"
    PROVE  Owned'
<1>1. ASSUME NEW s \in Senders PROVE BatchOwned(s)' /\ EvidOwned(s)'
  <2>1. BatchOwned(s) /\ EvidOwned(s) /\ s \in Cores BY CoreFacts DEF Owned
  <2>2. \A e \in batch'[s] : e.id \in Ids' /\ streams'[e.id].core = s
    BY <2>1 DEF BatchOwned, SameStreams
  <2>3. BatchOwned(s)' BY <2>1, <2>2 DEF BatchOwned
  <2>4. OwnedBy(s) \subseteq OwnedBy(s)' BY KeptOwn
  <2>5. EvidOwned(s)'
    <3>1. evid'[s] = evid[s] OBVIOUS
    <3> QED BY <2>1, <2>4, <3>1 DEF EvidOwned, Filled
  <2> QED BY <2>3, <2>5
<1>2. ASSUME NEW r \in Receivers PROVE RecvOwned(r)' /\ SlotOwned(r)'
  <2>1. RecvOwned(r) /\ SlotOwned(r) /\ r \in Cores BY CoreFacts DEF Owned
  <2>2. SentTo(r) \subseteq SentTo(r)' BY KeptOwn
  <2>3. ListenPorts(r)' = ListenPorts(r) BY DEF ListenPorts, Port, Flows
  <2>4. RecvOwned(r)' BY <2>1, <2>2, <2>3 DEF RecvOwned
  <2>5. SlotOwned(r)'
    <3>1. slot'[r] = slot[r] OBVIOUS
    <3> QED BY <2>1, <2>2, <3>1 DEF SlotOwned, Filled
  <2> QED BY <2>4, <2>5
<1> QED BY <1>1, <1>2 DEF Owned

(* Of these, a thread goes on that is not at its events. *)
LEMMA QuietStep ==
    ASSUME ThreadsAssumption, FqInv, UNCHANGED <<todo, streams, batch, own>>,
           NEW c \in Cores, NEW step \in Stages, Goto(c, step), pc[c] # "events",
           listening' \in [Receivers -> SUBSET Int],
           \A r \in Receivers : listening'[r] \subseteq ListenPorts(r)
    PROVE  FqInv'
<1>1. TypeInv /\ Owned BY DEF FqInv
<1>2. TypeInv' BY <1>1 DEF TypeInv, Goto, own
<1>3. SameStreams BY <1>1, NoneChanges
<1>4. ASSUME NEW s \in Senders
      PROVE  /\ batch'[s] # {} => pc'[s] = "events"
             /\ \A e \in batch'[s] : streams'[e.id].snd # "closed"
  <2>1. BatchOwned(s) /\ s \in Cores BY <1>1, CoreFacts DEF Owned
  <2>2. pc[s] = "events" => pc'[s] = "events" BY <1>1, <2>1 DEF TypeInv, Goto
  <2> QED BY <2>1, <2>2 DEF BatchOwned
<1> QED BY <1>1, <1>2, <1>3, <1>4, KeptStep DEF FqInv, own

(* Or no thread goes on: the stack, the clock and main. *)
LEMMA IdleStep ==
    ASSUME ThreadsAssumption, FqInv, TypeInv', SameStreams,
           UNCHANGED <<pc, batch, evid, slot, listening>>,
           \A i \in Ids : streams'[i].snd = "closed" => streams[i].snd = "closed"
    PROVE  FqInv'
<1>1. TypeInv /\ Owned BY DEF FqInv
<1>2. \A s \in Senders : /\ batch'[s] # {} => pc'[s] = "events"
                         /\ \A e \in batch'[s] : streams'[e.id].snd # "closed"
  BY <1>1 DEF Owned, BatchOwned
<1>3. /\ listening' \in [Receivers -> SUBSET Int]
      /\ \A r \in Receivers : listening'[r] \subseteq ListenPorts(r)
  BY <1>1 DEF Owned, RecvOwned
<1> QED BY <1>1, <1>2, <1>3, KeptStep DEF FqInv

LEMMA ListenFacts ==
    ASSUME ThreadsAssumption, FqAssumption, NEW r \in Receivers
    PROVE  ListenPorts(r) \subseteq Int
<1>1. \A j \in Flows : j \in Nat BY DEF FqAssumption, Flows
<1>2. r \in Nat /\ NPairs \in Nat \ {0} /\ NFlows \in Nat
  BY CoreFacts DEF ThreadsAssumption, FqAssumption
<1>3. \A j \in Flows : Port(r, j) \in Int BY <1>1, <1>2 DEF Port, NORMAL
<1> QED BY <1>3 DEF ListenPorts

LEMMA SetUpStep ==
    ASSUME ThreadsAssumption, FqAssumption, FqInv, NEW c \in Cores,
           SetUp(c) \/ (c \in Senders /\ SpuriousWakeup(c) /\ UNCHANGED own)
    PROVE  FqInv'
<1>0. UNCHANGED own BY DEF SetUp
<1>1. TypeInv /\ Owned BY DEF FqInv
<1>2. /\ listening \in [Receivers -> SUBSET Int]
      /\ \A r \in Receivers : listening[r] \subseteq ListenPorts(r)
  BY <1>1 DEF Owned, RecvOwned
<1>3. CASE StartThread(c)
  <2>1. /\ Goto(c, "new") /\ pc[c] = "none" /\ "new" \in Stages
        /\ UNCHANGED <<todo, streams, batch, listening>>
    BY <1>3 DEF StartThread, Stages
  <2> QED BY <1>0, <1>2, <2>1, QuietStep
<1>4. CASE CreateContext(c) \/ RunContext(c)
  <2>1. PICK step \in Stages : Goto(c, step)
    BY <1>4 DEF CreateContext, RunContext, Stages
  <2>2. pc[c] # "events" /\ UNCHANGED <<todo, streams, batch, listening>>
    BY <1>4 DEF CreateContext, RunContext, At
  <2> QED BY <1>0, <1>2, <2>1, <2>2, QuietStep
<1>5. CASE c \in Senders /\ (TestReady(c) \/ CondWait(c) \/ SpuriousWakeup(c))
  <2>1. PICK step \in Stages : Goto(c, step)
    BY <1>5 DEF TestReady, CondWait, SpuriousWakeup, Stages
  <2>2. pc[c] # "events" /\ UNCHANGED <<todo, streams, batch, listening>>
    BY <1>5 DEF TestReady, CondWait, SpuriousWakeup, At
  <2> QED BY <1>0, <1>2, <2>1, <2>2, QuietStep
<1>6. CASE c \in Senders /\ CreateConnection(c)
  <2>1. /\ streams' \in Seq(Stream) /\ SameStreams /\ todo' \in [Senders -> Seq(Int)]
        /\ \A i \in Ids : streams'[i] = streams[i]
    BY <1>1, <1>6, ConnectStreams
  <2>2. UNCHANGED <<pc, batch, listening>> BY <1>6 DEF CreateConnection
  <2>3. TypeInv' BY <1>0, <1>1, <2>1, <2>2 DEF TypeInv, own
  <2> QED BY <1>0, <2>1, <2>2, <2>3, IdleStep DEF own
<1>7. CASE c \in Receivers /\ SetReady(c)
  <2>1. /\ Goto(c, "signal") /\ pc[c] = "ready" /\ "signal" \in Stages
        /\ UNCHANGED <<todo, streams, batch, listening>>
    BY <1>7 DEF SetReady, At, Stages
  <2> QED BY <1>0, <1>2, <2>1, QuietStep
<1>8. CASE c \in Receivers /\ ServicePortConfig(c)
  <2>1. PICK p \in ListenPorts(c) :
           /\ listening' = [listening EXCEPT ![c] = listening[c] \cup {p}]
           /\ Goto(c, IF listening'[c] = ListenPorts(c) THEN "ready" ELSE "listen")
    BY <1>8 DEF ServicePortConfig
  <2>2. PICK step \in Stages : Goto(c, step) BY <2>1 DEF Stages
  <2>3. pc[c] # "events" /\ UNCHANGED <<todo, streams, batch>>
    BY <1>8 DEF ServicePortConfig, At
  <2>4. /\ listening' \in [Receivers -> SUBSET Int]
        /\ \A r \in Receivers : listening'[r] \subseteq ListenPorts(r)
    BY <1>2, <1>8, <2>1, ListenFacts
  <2> QED BY <1>0, <2>2, <2>3, <2>4, QuietStep
<1>9. CASE c \in Receivers /\ CondSignal(c)
  <2>1. UNCHANGED <<todo, streams, batch, listening>> BY <1>9 DEF CondSignal
  <2>2. TypeInv' BY <1>0, <1>1, <1>9, <2>1, CoreFacts DEF TypeInv, CondSignal, Stages, own
  <2>3. SameStreams BY <1>1, <2>1, NoneChanges
  <2>4. ASSUME NEW s \in Senders
        PROVE  /\ batch'[s] # {} => pc'[s] = "events"
               /\ \A e \in batch'[s] : streams'[e.id].snd # "closed"
    <3>1. BatchOwned(s) /\ s \in Cores /\ s # c BY <1>1, <1>9, CoreFacts DEF Owned
    <3>2. pc[s] = "events" => pc'[s] = "events" BY <1>9, <3>1 DEF CondSignal
    <3> QED BY <2>1, <3>1, <3>2 DEF BatchOwned
  <2> QED BY <1>0, <1>1, <1>2, <2>1, <2>2, <2>3, <2>4, KeptStep DEF FqInv, own
<1> QED BY <1>3, <1>4, <1>5, <1>6, <1>7, <1>8, <1>9 DEF SetUp

-----------------------------------------------------------------------------
(* Steps that leave the streams alone: the tables keep what they stand for. *)
LEMMA SameTables ==
    ASSUME Owned, UNCHANGED <<streams, listening, evid, slot>>
    PROVE  /\ \A s \in Senders : EvidOwned(s)'
           /\ \A r \in Receivers : SlotOwned(r)' /\ listening'[r] \subseteq ListenPorts(r)'
           /\ listening' \in [Receivers -> SUBSET Int]
<1>1. \A s : OwnedBy(s)' = OwnedBy(s) BY DEF OwnedBy, Ids
<1>2. \A r : ListenPorts(r)' = ListenPorts(r) BY DEF ListenPorts, Port, Flows
<1>3. \A r : SentTo(r)' = SentTo(r) BY <1>2 DEF SentTo, Ids
<1>4. \A s \in Senders : EvidOwned(s)' BY <1>1 DEF Owned, EvidOwned, Filled
<1>5. \A r \in Receivers : SlotOwned(r)' BY <1>3 DEF Owned, SlotOwned, Filled
<1>6. \A r \in Receivers : listening'[r] \subseteq ListenPorts(r)'
  BY <1>2 DEF Owned, RecvOwned
<1> QED BY <1>4, <1>5, <1>6 DEF Owned

(* A thread gets some of the events there are. *)
LEMMA WaitStep ==
    ASSUME ThreadsAssumption, FqInv, NEW c \in Cores, EpollWait(c), UNCHANGED own
    PROVE  FqInv'
<1>1. TypeInv /\ Owned BY DEF FqInv
<1>2. /\ UNCHANGED <<streams, todo, listening, evid, slot>>
      /\ pc' = [pc EXCEPT ![c] = "events"] /\ pc[c] = "epoll"
  BY DEF EpollWait, Goto, At, own
<1>3. PICK b \in SUBSET Events(c) :
         /\ \A x, y \in b : x.id = y.id => x = y
         /\ batch' = [batch EXCEPT ![c] = b]
  BY DEF EpollWait
<1>4. Ids \subseteq Nat \ {0} BY <1>1, IdFacts
<1>5. Events(c) \subseteq Event
  BY <1>4 DEF Events, SenderEvents, ReceiverEvents, Event
<1>6. TypeInv' BY <1>1, <1>2, <1>3, <1>5 DEF TypeInv, Stages, own
<1>7. \A d \in Cores : /\ batch'[d] = IF d = c THEN b ELSE batch[d]
                       /\ pc'[d] = IF d = c THEN "events" ELSE pc[d]
  BY <1>1, <1>2, <1>3 DEF TypeInv
<1>8. ASSUME NEW s \in Senders PROVE BatchOwned(s)'
  <2>1. BatchOwned(s) /\ s \in Cores BY <1>1, CoreFacts DEF Owned
  <2>2. CASE s = c
    <3>1. \A e \in b : /\ e.id \in Ids /\ streams[e.id].core = s
                       /\ streams[e.id].snd # "closed"
      BY <1>3, <2>2 DEF Events, SenderEvents
    <3> QED BY <1>2, <1>3, <1>7, <2>1, <2>2, <3>1 DEF BatchOwned, Ids
  <2>3. CASE s # c BY <1>2, <1>7, <2>1, <2>3 DEF BatchOwned, Ids
  <2> QED BY <2>2, <2>3
<1>9. ASSUME NEW r \in Receivers PROVE \A e \in batch'[r] : e.id \in SentTo(r)'
  <2>1. RecvOwned(r) /\ r \in Cores /\ r \notin Senders BY <1>1, CoreFacts DEF Owned
  <2>2. SentTo(r)' = SentTo(r) BY <1>2 DEF SentTo, Ids, ListenPorts, Port, Flows
  <2>3. CASE r = c
    <3>1. \A e \in b : e.id \in Ids /\ streams[e.id].port \in listening[r]
      BY <1>3, <2>1, <2>3 DEF Events, ReceiverEvents
    <3> QED BY <1>7, <2>1, <2>2, <2>3, <3>1 DEF RecvOwned, SentTo
  <2>4. CASE r # c BY <1>7, <2>1, <2>2, <2>4 DEF RecvOwned
  <2> QED BY <2>3, <2>4
<1> QED BY <1>1, <1>2, <1>6, <1>8, <1>9, SameTables DEF FqInv, Owned, RecvOwned

(* An event is taken from the batch. *)
LEMMA TakeFacts ==
    ASSUME ThreadsAssumption, FqInv, NEW c \in Cores, NEW e \in batch[c], Take(c, e)
    PROVE  /\ pc' \in [Cores -> Stages] /\ batch' \in [Cores -> SUBSET Event]
           /\ e \in Event /\ pc[c] = "events"
           /\ \A d \in Cores : batch'[d] = IF d = c THEN batch[d] \ {e} ELSE batch[d]
           /\ \A s \in Senders : /\ batch'[s] \subseteq batch[s]
                                 /\ s = c => e \notin batch'[s]
                                 /\ batch'[s] # {} => pc'[s] = "events"
<1>1. pc \in [Cores -> Stages] /\ batch \in [Cores -> SUBSET Event] BY DEF FqInv, TypeInv
<1>2. /\ batch' = [batch EXCEPT ![c] = batch[c] \ {e}] /\ pc[c] = "events"
      /\ pc' = [pc EXCEPT ![c] = IF batch[c] = {e} THEN "loop" ELSE "events"]
  BY DEF Take, Goto, At
<1>3. pc' \in [Cores -> Stages] /\ batch' \in [Cores -> SUBSET Event]
  BY <1>1, <1>2 DEF Stages
<1>4. \A d \in Cores : batch'[d] = IF d = c THEN batch[d] \ {e} ELSE batch[d]
  BY <1>1, <1>2
<1>5. ASSUME NEW s \in Senders PROVE batch'[s] # {} => pc'[s] = "events"
  <2>1. batch[s] # {} => pc[s] = "events" BY DEF FqInv, Owned, BatchOwned
  <2>2. s \in Cores BY CoreFacts
  <2>3. CASE s = c BY <1>1, <1>2, <2>2, <2>3
  <2>4. CASE s # c BY <1>1, <1>2, <2>1, <2>2, <2>4
  <2> QED BY <2>3, <2>4
<1>6. \A s \in Senders : batch'[s] \subseteq batch[s] /\ (s = c => e \notin batch'[s])
  BY <1>4, CoreFacts
<1> QED BY <1>1, <1>2, <1>3, <1>4, <1>5, <1>6

(* Of these, the steps that change the streams at most and only so that no *)
(* sender has an event left of one that is closed.                         *)
LEMMA EventStep ==
    ASSUME ThreadsAssumption, FqInv, NEW c \in Cores, NEW e \in batch[c], Take(c, e),
           UNCHANGED <<todo, listening, own>>, streams' \in Seq(Stream), SameStreams,
           \A s \in Senders : \A x \in batch'[s] : streams'[x.id].snd # "closed"
    PROVE  FqInv'
<1>1. TypeInv /\ Owned BY DEF FqInv
<1>2. TypeInv' BY <1>1, TakeFacts DEF TypeInv, own
<1>3. \A d \in Cores : batch'[d] \subseteq batch[d] BY TakeFacts
<1>4. \A s \in Senders : batch'[s] # {} => pc'[s] = "events" BY TakeFacts
<1>5. /\ listening' \in [Receivers -> SUBSET Int]
      /\ \A r \in Receivers : listening'[r] \subseteq ListenPorts(r)
  BY <1>1 DEF Owned, RecvOwned
<1> QED BY <1>1, <1>2, <1>3, <1>4, <1>5, KeptStep DEF FqInv, own

LEMMA TransferStep ==
    ASSUME ThreadsAssumption, FqInv, NEW c \in Cores, NEW e \in batch[c],
           Transfer(c, e), UNCHANGED own
    PROVE  FqInv'
<1>1. UNCHANGED <<streams, todo, listening>> /\ Take(c, e) BY DEF Transfer
<1>2. streams' \in Seq(Stream) /\ SameStreams BY <1>1, NoneChanges DEF FqInv
<1>3. \A s \in Senders : \A x \in batch'[s] : streams'[x.id].snd # "closed"
  <2> SUFFICES ASSUME NEW s \in Senders, NEW x \in batch'[s]
               PROVE  streams'[x.id].snd # "closed"
    OBVIOUS
  <2>1. x \in batch[s] BY <1>1, TakeFacts
  <2>2. streams[x.id].snd # "closed" BY <2>1 DEF FqInv, Owned, BatchOwned
  <2> QED BY <1>1, <2>2
<1> QED BY <1>1, <1>2, <1>3, EventStep

LEMMA ReceiveStep ==
    ASSUME ThreadsAssumption, FqInv, NEW r \in Receivers, NEW e \in batch[r],
           RecvAccept(r, e) \/ RecvError(r, e), UNCHANGED own
    PROVE  FqInv'
<1>1. UNCHANGED <<todo, listening>> /\ Take(r, e) /\ r \in Cores
  BY CoreFacts DEF RecvAccept, RecvError
<1>2. /\ streams' \in Seq(Stream) /\ SameStreams
      /\ \A i \in Ids : streams'[i].snd = streams[i].snd
  BY ReceiveStreams DEF FqInv
<1>3. ASSUME NEW s \in Senders, NEW x \in batch'[s] PROVE streams'[x.id].snd # "closed"
  <2>1. x \in batch[s] BY <1>1, TakeFacts, CoreFacts
  <2>2. x.id \in Ids /\ streams[x.id].snd # "closed"
    BY <2>1 DEF FqInv, Owned, BatchOwned
  <2> QED BY <1>2, <2>2
<1> QED BY <1>1, <1>2, <1>3, EventStep

(* A broken stream is closed: it had only one event in the batch, and no   *)
(* other sender has one.                                                   *)
LEMMA ErrorStep ==
    ASSUME ThreadsAssumption, FqInv, NEW s \in Senders, NEW e \in batch[s], SendError(s, e)
    PROVE  FqInv'
<1>1. UNCHANGED <<todo, listening, own>> /\ Take(s, e) /\ s \in Cores
  BY CoreFacts DEF SendError
<1>2. e.id \in Ids /\ streams[e.id].core = s BY DEF FqInv, Owned, BatchOwned
<1>3. /\ streams' \in Seq(Stream) /\ SameStreams
      /\ \A i \in Ids : streams'[i].snd = IF i = e.id THEN "closed" ELSE streams[i].snd
  BY <1>2, CloseOne DEF FqInv, SendError
<1>4. ASSUME NEW u \in Senders, NEW x \in batch'[u] PROVE streams'[x.id].snd # "closed"
  <2>1. x \in batch[u] /\ (u = s => x # e) BY <1>1, TakeFacts
  <2>2. /\ x.id \in Ids /\ streams[x.id].core = u /\ streams[x.id].snd # "closed"
        /\ u = s /\ x.id = e.id => x = e
    BY <2>1 DEF FqInv, Owned, BatchOwned
  <2> QED BY <1>2, <1>3, <2>1, <2>2
<1> QED BY <1>1, <1>3, <1>4, EventStep

(* A sender records a stream of its own, *)
LEMMA WriteStep ==
    ASSUME ThreadsAssumption, FqAssumption, FqInv, NEW s \in Senders, NEW e \in batch[s],
           SendWrite(s, e)
    PROVE  FqInv'
<1>1. /\ UNCHANGED <<todo, streams, listening, elapsed, begun, ended, slot>>
      /\ Take(s, e) /\ s \in Cores
  BY CoreFacts DEF SendWrite
<1>2. TypeInv /\ Owned BY DEF FqInv
<1>3. e \in Event /\ e.id \in Nat \ {0} BY <1>1, TakeFacts DEF Event
<1>4. e.id \in OwnedBy(s) BY <1>2 DEF Owned, BatchOwned, OwnedBy
<1>5. evid[s] \in [Flows -> Nat] /\ EvidOwned(s) BY <1>2 DEF TypeInv, Owned
<1>6. /\ Record(evid[s], e.id) \in [Flows -> Nat] /\ Filled(Record(evid[s], e.id))
      /\ \A j \in Flows : \/ Record(evid[s], e.id)[j] = evid[s][j]
                          \/ Record(evid[s], e.id)[j] = e.id
  BY <1>3, <1>5, RecordFacts DEF EvidOwned
<1>7. evid' = [evid EXCEPT ![s] = Record(evid[s], e.id)] BY DEF SendWrite
<1>8. evid' \in [Senders -> [Flows -> Nat]]
      /\ \A u \in Senders : evid'[u] = IF u = s THEN Record(evid[s], e.id) ELSE evid[u]
  BY <1>2, <1>6, <1>7 DEF TypeInv
<1>9. TypeInv' BY <1>1, <1>2, <1>8, TakeFacts DEF TypeInv
<1>10. \A u : OwnedBy(u)' = OwnedBy(u) BY <1>1 DEF OwnedBy, Ids
<1>11. ASSUME NEW u \in Senders PROVE EvidOwned(u)'
  <2>1. CASE u = s
    <3>1. evid'[u] = Record(evid[s], e.id) BY <1>8, <2>1
    <3>2. \A j \in Flows : evid'[u][j] # 0 => evid'[u][j] \in OwnedBy(u)
      BY <1>4, <1>5, <1>6, <2>1, <3>1 DEF EvidOwned
    <3>3. Filled(evid'[u]) BY <1>6, <3>1
    <3> QED BY <1>10, <3>2, <3>3 DEF EvidOwned, Filled
  <2>2. CASE u # s
    <3>1. evid'[u] = evid[u] /\ EvidOwned(u) BY <1>2, <1>8, <2>2 DEF Owned
    <3> QED BY <1>10, <3>1 DEF EvidOwned, Filled
  <2> QED BY <2>1, <2>2
<1>12. ASSUME NEW u \in Senders PROVE BatchOwned(u)'
  <2>1. BatchOwned(u) BY <1>2 DEF Owned
  <2>2. batch'[u] \subseteq batch[u] /\ (batch'[u] # {} => pc'[u] = "events")
    BY <1>1, TakeFacts
  <2> QED BY <1>1, <2>1, <2>2 DEF BatchOwned, Ids
<1>13. ASSUME NEW r \in Receivers PROVE RecvOwned(r)' /\ SlotOwned(r)'
  <2>1. RecvOwned(r) /\ SlotOwned(r) /\ r \in Cores BY <1>2, CoreFacts DEF Owned
  <2>2. ListenPorts(r)' = ListenPorts(r) BY DEF ListenPorts, Port, Flows
  <2>3. SentTo(r)' = SentTo(r) BY <1>1, <2>2 DEF SentTo, Ids
  <2>4. batch'[r] \subseteq batch[r] BY <1>1, <2>1, TakeFacts
  <2>5. SlotOwned(r)' BY <1>1, <2>1, <2>3 DEF SlotOwned, Filled
  <2> QED BY <1>1, <2>1, <2>2, <2>3, <2>4, <2>5 DEF RecvOwned
<1> QED BY <1>1, <1>2, <1>9, <1>11, <1>12, <1>13 DEF FqInv, Owned

(* and a receiver one that is sent to it. *)
LEMMA ReadStep ==
    ASSUME ThreadsAssumption, FqAssumption, FqInv, NEW r \in Receivers, NEW e \in batch[r],
           RecvRead(r, e)
    PROVE  FqInv'
<1>1. /\ UNCHANGED <<todo, streams, listening, elapsed, begun, ended, evid>>
      /\ Take(r, e) /\ r \in Cores
  BY CoreFacts DEF RecvRead, Transfer
<1>2. TypeInv /\ Owned BY DEF FqInv
<1>3. e \in Event /\ e.id \in Nat \ {0} BY <1>1, TakeFacts DEF Event
<1>4. e.id \in SentTo(r) BY <1>2 DEF Owned, RecvOwned
<1>5. slot[r] \in [Flows -> Nat] /\ SlotOwned(r) BY <1>2 DEF TypeInv, Owned
<1>6. /\ Record(slot[r], e.id) \in [Flows -> Nat] /\ Filled(Record(slot[r], e.id))
      /\ \A j \in Flows : \/ Record(slot[r], e.id)[j] = slot[r][j]
                          \/ Record(slot[r], e.id)[j] = e.id
  BY <1>3, <1>5, RecordFacts DEF SlotOwned
<1>7. slot' = [slot EXCEPT ![r] = Record(slot[r], e.id)] BY DEF RecvRead
<1>8. slot' \in [Receivers -> [Flows -> Nat]]
      /\ \A q \in Receivers : slot'[q] = IF q = r THEN Record(slot[r], e.id) ELSE slot[q]
  BY <1>2, <1>6, <1>7 DEF TypeInv
<1>9. TypeInv' BY <1>1, <1>2, <1>8, TakeFacts DEF TypeInv
<1>10. \A q : ListenPorts(q)' = ListenPorts(q) BY DEF ListenPorts, Port, Flows
<1>11. \A q : SentTo(q)' = SentTo(q) BY <1>1, <1>10 DEF SentTo, Ids
<1>12. ASSUME NEW q \in Receivers PROVE SlotOwned(q)'
  <2>1. CASE q = r
    <3>1. slot'[q] = Record(slot[r], e.id) BY <1>8, <2>1
    <3>2. \A j \in Flows : slot'[q][j] # 0 => slot'[q][j] \in SentTo(q)
      BY <1>4, <1>5, <1>6, <2>1, <3>1 DEF SlotOwned
    <3>3. Filled(slot'[q]) BY <1>6, <3>1
    <3> QED BY <1>11, <3>2, <3>3 DEF SlotOwned, Filled
  <2>2. CASE q # r
    <3>1. slot'[q] = slot[q] /\ SlotOwned(q) BY <1>2, <1>8, <2>2 DEF Owned
    <3> QED BY <1>11, <3>1 DEF SlotOwned, Filled
  <2> QED BY <2>1, <2>2
<1>13. ASSUME NEW u \in Senders PROVE BatchOwned(u)'
  <2>1. BatchOwned(u) BY <1>2 DEF Owned
  <2>2. batch'[u] \subseteq batch[u] /\ (batch'[u] # {} => pc'[u] = "events")
    BY <1>1, TakeFacts
  <2> QED BY <1>1, <2>1, <2>2 DEF BatchOwned, Ids
<1>14. ASSUME NEW q \in Receivers PROVE RecvOwned(q)'
  <2>1. RecvOwned(q) /\ q \in Cores BY <1>2, CoreFacts DEF Owned
  <2>2. batch'[q] \subseteq batch[q] BY <1>1, <2>1, TakeFacts
  <2> QED BY <1>1, <1>10, <1>11, <2>1, <2>2 DEF RecvOwned
<1>15. ASSUME NEW u \in Senders PROVE EvidOwned(u)'
  <2>1. EvidOwned(u) /\ OwnedBy(u)' = OwnedBy(u) BY <1>1, <1>2 DEF Owned, OwnedBy, Ids
  <2> QED BY <1>1, <2>1 DEF EvidOwned, Filled
<1> QED BY <1>1, <1>2, <1>9, <1>12, <1>13, <1>14, <1>15 DEF FqInv, Owned

-----------------------------------------------------------------------------
(* A sender that is not at its events goes on, and closes streams of its   *)
(* own: by the time table, or when it leaves.                              *)
LEMMA ClosingStep ==
    ASSUME ThreadsAssumption, FqInv, TypeInv', NEW s \in Senders, pc[s] # "events",
           NEW step, Goto(s, step), UNCHANGED <<listening, batch, evid, slot>>,
           SameStreams,
           \A i \in Ids : streams[i].core # s => streams'[i].snd = streams[i].snd
    PROVE  FqInv'
<1>1. TypeInv /\ Owned BY DEF FqInv
<1>2. ASSUME NEW u \in Senders
      PROVE  /\ batch'[u] # {} => pc'[u] = "events"
             /\ \A e \in batch'[u] : streams'[e.id].snd # "closed"
  <2>1. BatchOwned(u) /\ u \in Cores BY <1>1, CoreFacts DEF Owned
  <2>2. CASE u = s
    <3>1. batch'[u] = {} BY <2>1, <2>2 DEF BatchOwned
    <3> QED BY <3>1
  <2>3. CASE u # s
    <3>1. pc'[u] = pc[u] BY <1>1, <2>1, <2>3 DEF TypeInv, Goto
    <3>2. ASSUME NEW e \in batch'[u] PROVE streams'[e.id].snd # "closed"
      <4>1. /\ e.id \in Ids /\ streams[e.id].core = u
            /\ streams[e.id].snd # "closed"
        BY <2>1 DEF BatchOwned
      <4> QED BY <2>3, <4>1
    <3> QED BY <2>1, <3>1, <3>2 DEF BatchOwned
  <2> QED BY <2>2, <2>3
<1>3. /\ listening' \in [Receivers -> SUBSET Int]
      /\ \A r \in Receivers : listening'[r] \subseteq ListenPorts(r)
  BY <1>1 DEF Owned, RecvOwned
<1> QED BY <1>1, <1>2, <1>3, KeptStep DEF FqInv

LEMMA PortInt ==
    ASSUME ThreadsAssumption, FqAssumption, NEW c \in Cores, NEW j \in Flows
    PROVE  Port(c, j) \in Int
<1>1. c \in Nat /\ NPairs \in Nat \ {0} BY CoreFacts DEF ThreadsAssumption
<1>2. j \in Nat /\ NFlows \in Nat BY DEF FqAssumption, Flows
<1> QED BY <1>1, <1>2 DEF Port, NORMAL

LEMMA ScheduleStep ==
    ASSUME ThreadsAssumption, FqAssumption, FqInv, NEW s \in Senders, Schedule(s)
    PROVE  FqInv'
<1>1. TypeInv /\ Owned /\ s \in Cores BY CoreFacts DEF FqInv
<1>2. /\ UNCHANGED <<listening, batch, elapsed, evid, slot>> /\ pc[s] # "events"
      /\ todo' = [todo EXCEPT ![s] = SeqOfPorts(s, ToStart(s))]
      /\ begun' = [begun EXCEPT ![s] = begun[s] \cup ToStart(s)]
      /\ ended' = [ended EXCEPT ![s] = ended[s] \cup ToEnd(s)]
  BY DEF Schedule, At
<1>3. PICK step \in {"break", "epoll"} : Goto(s, step) BY DEF Schedule
<1>4. begun[s] \subseteq Flows /\ ended[s] \subseteq Flows BY <1>1 DEF TypeInv
<1>5. ToStart(s) \subseteq Flows /\ ToEnd(s) \subseteq Flows
  BY <1>4 DEF ToStart, ToEnd
<1>6. SeqOfPorts(s, ToStart(s)) \in Seq(Int)
  <2>1. SeqOfPorts(s, ToStart(s)) \in Seq({Port(s, j) : j \in ToStart(s)})
    BY <1>5, SeqFacts
  <2>2. {Port(s, j) : j \in ToStart(s)} \subseteq Int BY <1>1, <1>5, PortInt
  <2> QED BY <2>1, <2>2, SeqMonotonic
<1>7. /\ streams' \in Seq(Stream) /\ SameStreams
      /\ \A i \in Ids : streams'[i].snd = IF i \in Due(s) THEN "closed" ELSE streams[i].snd
  BY <1>1, ScheduleStreams
<1>8. pc' \in [Cores -> Stages] BY <1>1, <1>3 DEF TypeInv, Goto, Stages
<1>9. TypeInv' BY <1>1, <1>2, <1>4, <1>5, <1>6, <1>7, <1>8 DEF TypeInv
<1>10. \A i \in Due(s) : streams[i].core = s
  <2> SUFFICES ASSUME NEW i \in Ids, NEW j \in ToEnd(s), evid[s][j] = i
               PROVE  streams[i].core = s
    BY DEF Due
  <2>1. i # 0 BY <1>1, IdFacts
  <2>2. i \in OwnedBy(s) BY <1>1, <1>5, <2>1 DEF Owned, EvidOwned
  <2> QED BY <2>2 DEF OwnedBy
<1> QED BY <1>1, <1>2, <1>3, <1>7, <1>9, <1>10, ClosingStep

LEMMA OutStep ==
    ASSUME ThreadsAssumption, FqInv, NEW s \in Senders, SendOut(s)
    PROVE  FqInv'
<1>1. TypeInv BY DEF FqInv
<1>2. /\ UNCHANGED <<listening, batch, todo, own>> /\ pc[s] # "events"
      /\ Leave(s) /\ Goto(s, "out")
  BY DEF SendOut, At, Leave
<1>3. /\ streams' \in Seq(Stream) /\ SameStreams
      /\ \A i \in Ids : streams'[i].snd = IF i \in OwnedBy(s) THEN "closed"
                                          ELSE streams[i].snd
  BY <1>1, <1>2, LeaveStreams
<1>4. TypeInv' BY <1>1, <1>2, <1>3 DEF TypeInv, Goto, Stages, own
<1> QED BY <1>2, <1>3, <1>4, ClosingStep DEF OwnedBy, own

-----------------------------------------------------------------------------
LEMMA FqStart == ASSUME ThreadsAssumption, FqAssumption, Init PROVE FqInv
<1>1. TypeInv BY CoreFacts DEF Init, ThreadsInit, TypeInv, Stages
<1>2. Ids = {} BY DEF Init, ThreadsInit, Ids
<1>3. Flows \subseteq Nat BY DEF FqAssumption, Flows
<1>4. \A s \in Senders : BatchOwned(s) /\ EvidOwned(s)
  BY <1>3, CoreFacts DEF Init, ThreadsInit, BatchOwned, EvidOwned, Filled
<1>5. \A r \in Receivers : RecvOwned(r) /\ SlotOwned(r)
  BY <1>3, CoreFacts DEF Init, ThreadsInit, RecvOwned, SlotOwned, Filled
<1>6. listening \in [Receivers -> SUBSET Int] BY DEF Init, ThreadsInit
<1> QED BY <1>1, <1>4, <1>5, <1>6 DEF FqInv, Owned

LEMMA FqNext ==
    ASSUME ThreadsAssumption, FqAssumption, FqInv, [Next]_vars PROVE FqInv'
<1>1. TypeInv BY DEF FqInv
<1>2. ASSUME UNCHANGED <<pc, batch, streams, todo, listening, begun, ended, evid, slot>>,
             elapsed' \in [Senders -> Nat]
      PROVE  FqInv'
  <2>1. TypeInv' BY <1>1, <1>2 DEF TypeInv
  <2> QED BY <1>1, <1>2, <2>1, NoneChanges, IdleStep
<1>3. CASE Abort /\ UNCHANGED own BY <1>1, <1>2, <1>3 DEF Abort, own, TypeInv
<1>4. CASE Sigint /\ UNCHANGED own BY <1>1, <1>2, <1>4 DEF Sigint, own, TypeInv
<1>5. CASE MainReturn BY <1>1, <1>2, <1>5 DEF MainReturn, own, TypeInv
<1>6. CASE UNCHANGED vars BY <1>1, <1>2, <1>6 DEF vars, own, TypeInv
<1>7. ASSUME NEW s \in Senders, Tick(s) PROVE FqInv'
  BY <1>1, <1>2, <1>7 DEF Tick, TypeInv
<1>8. CASE Stack /\ UNCHANGED own
  <2>1. /\ streams' \in Seq(Stream) /\ SameStreams
        /\ \A i \in Ids : streams'[i].snd = "closed" => streams[i].snd = "closed"
    BY <1>1, <1>8, StackStreams
  <2>2. UNCHANGED <<pc, batch, todo, listening, own>> BY <1>8 DEF Stack, Answer, Break
  <2>3. TypeInv' BY <1>1, <2>1, <2>2 DEF TypeInv, own
  <2> QED BY <2>1, <2>2, <2>3, IdleStep DEF own
<1>9. ASSUME NEW s \in Senders, SpuriousWakeup(s), UNCHANGED own PROVE FqInv'
  BY <1>9, SetUpStep, CoreFacts
<1>10. ASSUME NEW s \in Senders, RunSendContext(s) PROVE FqInv'
  <2>1. CASE Schedule(s) BY <2>1, ScheduleStep
  <2>2. CASE SendOut(s) BY <2>2, OutStep
  <2>3. CASE EpollWait(s) /\ UNCHANGED own BY <2>3, WaitStep, CoreFacts
  <2>4. ASSUME NEW e \in batch[s], SendWrite(s, e) PROVE FqInv' BY <2>4, WriteStep
  <2>5. ASSUME NEW e \in batch[s], SendError(s, e) PROVE FqInv' BY <2>5, ErrorStep
  <2>6. ASSUME NEW e \in batch[s], Transfer(s, e), UNCHANGED own PROVE FqInv'
    BY <2>6, TransferStep, CoreFacts
  <2> QED BY <1>10, <2>1, <2>2, <2>3, <2>4, <2>5, <2>6 DEF RunSendContext
<1>11. ASSUME NEW r \in Receivers, RunReceiver(r) PROVE FqInv'
  <2>1. CASE RecvLoop(r) /\ UNCHANGED own
    <3>1. PICK step \in {"out", "epoll"} : Goto(r, step) BY <2>1 DEF RecvLoop
    <3>2. /\ UNCHANGED <<todo, streams, batch, listening>> /\ pc[r] # "events"
          /\ r \in Cores /\ step \in Stages
      BY <2>1, <3>1, CoreFacts DEF RecvLoop, At, Stages
    <3>3. /\ listening \in [Receivers -> SUBSET Int]
          /\ \A q \in Receivers : listening[q] \subseteq ListenPorts(q)
      BY DEF FqInv, Owned, RecvOwned
    <3> QED BY <2>1, <3>1, <3>2, <3>3, QuietStep
  <2>2. CASE EpollWait(r) /\ UNCHANGED own BY <2>2, WaitStep, CoreFacts
  <2>3. ASSUME NEW e \in batch[r], RecvRead(r, e) PROVE FqInv' BY <2>3, ReadStep
  <2>4. ASSUME NEW e \in batch[r], RecvAccept(r, e) \/ RecvError(r, e), UNCHANGED own
        PROVE  FqInv'
    BY <2>4, ReceiveStep
  <2> QED BY <1>11, <2>1, <2>2, <2>3, <2>4 DEF RunReceiver
<1>12. ASSUME NEW c \in Cores, RunVnf(c) PROVE FqInv'
  BY <1>10, <1>11, <1>12, SetUpStep DEF RunVnf
<1> QED BY <1>3, <1>4, <1>5, <1>6, <1>7, <1>8, <1>9, <1>12 DEF Next, Environment

LEMMA FqInvariant == ASSUME ThreadsAssumption, FqAssumption PROVE Spec => []FqInv
BY FqStart, FqNext, PTL DEF Spec

(* However late the streams of fv_mtcp_fq.c are set up, whatever fails or  *)
(* breaks and in whatever order the threads run, no stream stands for two  *)
(* flows at either end: the loops over evid stop at the first entry that   *)
(* is free or stands for the stream (fv_mtcp_fq.c:283-291, 404-413).       *)
THEOREM OneEntryTheorem ==
    ASSUME ThreadsAssumption, FqAssumption
    PROVE  Spec => []OneEntryEach
<1>1. FqInv => OneEntryEach BY DEF FqInv, Owned, EvidOwned, SlotOwned, Filled, OneEntryEach
<1> QED BY <1>1, FqInvariant, PTL

(* A sender never deals with an event of a stream that it has closed,      *)
(* neither after an error of that stream nor after the end of its flow:    *)
(* the time table is looked at between two batches only                    *)
(* (fv_mtcp_fq.c:257-314).                                                 *)
THEOREM StaleEventTheorem ==
    ASSUME ThreadsAssumption, FqAssumption
    PROVE  Spec => []NoStaleEvent
<1>1. FqInv => NoStaleEvent BY DEF FqInv, Owned, BatchOwned, NoStaleEvent
<1> QED BY <1>1, FqInvariant, PTL

-----------------------------------------------------------------------------
(* The hand-shake of a pair, as in fv_mtcp.c but with a port per flow.     *)
PastWait(s) == pc[s] \in {"loop", "epoll", "events", "break"} \/ todo[s] # <<>>

ReceiverShake(r) ==
    /\ pc[r] \in {"ready", "signal"} \/ ready[Pair(r)] => listening[r] = ListenPorts(r)
    /\ pc[r] = "signal" => ready[Pair(r)]

SenderShake(s) ==
    /\ PastWait(s) => ready[s]
    /\ todo[s] \in Seq(ListenPorts(NPairs + s))

ShakeInv ==
    /\ ready \in [Senders -> BOOLEAN]
    /\ listening \in [Receivers -> SUBSET Int]
    /\ \A r \in Receivers : ReceiverShake(r)
    /\ \A s \in Senders : SenderShake(s)

LEMMA PairFacts ==
    ASSUME ThreadsAssumption
    PROVE  /\ NPairs \in Nat \ {0}
           /\ \A s \in Senders : Pair(s) = s /\ NPairs + s \in Receivers
                                 /\ Pair(NPairs + s) = s /\ s \in 0..(NPairs - 1)
           /\ \A r, q \in Receivers : Pair(r) = Pair(q) => r = q
           /\ \A r \in Receivers : r = NPairs + Pair(r) /\ Pair(r) \in Senders
<1>1. NPairs \in Nat /\ NPairs > 0 BY DEF ThreadsAssumption
<1>2. \A s \in 0..(NPairs - 1) : s % NPairs = s /\ (NPairs + s) % NPairs = s
  BY <1>1
<1>3. \A r \in NPairs..(2 * NPairs - 1) : r % NPairs = r - NPairs
  BY <1>1
<1>4. ASSUME NEW s \in Senders
      PROVE  Pair(s) = s /\ NPairs + s \in Receivers /\ Pair(NPairs + s) = s
             /\ s \in 0..(NPairs - 1)
  BY <1>1, <1>2 DEF Senders, Receivers, Pair
<1>5. ASSUME NEW r \in Receivers PROVE r = NPairs + Pair(r) /\ Pair(r) \in Senders
  BY <1>1, <1>3 DEF Senders, Receivers, Pair
<1> QED BY <1>1, <1>4, <1>5

(* The ports of a pair are its own, one for each flow. *)
LEMMA PortFacts ==
    ASSUME ThreadsAssumption, FqAssumption
    PROVE  /\ \A s \in Senders : \A j \in Flows :
                 /\ Port(s, j) \in Int /\ Port(NPairs + s, j) = Port(s, j)
                 /\ Port(s, j) - NORMAL \in 0..(NPairs * NFlows - 1)
           /\ \A s, u \in Senders : \A j, k \in Flows :
                 Port(s, j) = Port(u, k) => s = u /\ j = k
           /\ \A s \in Senders : ListenPorts(NPairs + s) = {Port(s, j) : j \in Flows}
           /\ \A r \in Receivers : \A j \in Flows : Port(r, j) = Port(Pair(r), j)
<1>1. NFlows \in Nat \ {0} /\ NPairs \in Nat \ {0} /\ Flows = 0..(NFlows - 1)
  BY PairFacts DEF FqAssumption, Flows
<1>2. ASSUME NEW c \in Cores, NEW j \in Flows
      PROVE  Port(c, j) = NORMAL + (Pair(c) * NFlows + j) /\ Pair(c) \in Nat
  <2>1. c \in Nat /\ c % NPairs \in Nat /\ j \in Nat BY <1>1, CoreFacts
  <2>2. (c % NPairs) * NFlows \in Nat BY <1>1, <2>1
  <2> QED BY <2>1, <2>2 DEF Port, Pair, NORMAL
<1>3. ASSUME NEW s \in Senders, NEW j \in Flows
      PROVE  /\ Port(s, j) = NORMAL + (s * NFlows + j) /\ Port(NPairs + s, j) = Port(s, j)
             /\ s * NFlows + j \in 0..(NPairs * NFlows - 1)
             /\ (s * NFlows + j) \div NFlows = s /\ (s * NFlows + j) % NFlows = j
  <2>1. s \in 0..(NPairs - 1) /\ s \in Nat /\ j \in 0..(NFlows - 1)
        /\ Pair(s) = s /\ Pair(NPairs + s) = s /\ s \in Cores /\ NPairs + s \in Cores
    BY <1>1, PairFacts, CoreFacts
  <2>2. Port(s, j) = NORMAL + (s * NFlows + j) /\ Port(NPairs + s, j) = Port(s, j)
    <3>1. Port(s, j) = NORMAL + (Pair(s) * NFlows + j) BY <1>2, <2>1
    <3>2. Port(NPairs + s, j) = NORMAL + (Pair(NPairs + s) * NFlows + j) BY <1>2, <2>1
    <3> QED BY <2>1, <3>1, <3>2
  <2>3. s * NFlows + j \in 0..(NPairs * NFlows - 1) BY <1>1, <2>1, DigitsBelow
  <2>4. (s * NFlows + j) \div NFlows = s /\ (s * NFlows + j) % NFlows = j
    BY <1>1, <2>1, TwoDigits
  <2> QED BY <2>2, <2>3, <2>4
<1>4. \A s \in Senders : \A j \in Flows :
         /\ Port(s, j) \in Int /\ Port(NPairs + s, j) = Port(s, j)
         /\ Port(s, j) - NORMAL \in 0..(NPairs * NFlows - 1)
         /\ Port(s, j) - NORMAL = s * NFlows + j
  BY <1>3 DEF NORMAL
<1>5. ASSUME NEW s \in Senders, NEW u \in Senders, NEW j \in Flows, NEW k \in Flows,
             Port(s, j) = Port(u, k)
      PROVE  s = u /\ j = k
  <2>1. s * NFlows + j = u * NFlows + k BY <1>4, <1>5
  <2> QED BY <1>3, <2>1
<1>6. \A r \in Receivers : \A j \in Flows : Port(r, j) = Port(Pair(r), j)
  BY <1>4, PairFacts
<1> QED BY <1>4, <1>5, <1>6 DEF ListenPorts

(* Steps that leave the flags and the ports alone, bring no receiver to    *)
(* its flag, no sender past its wait and no port of another pair.          *)
LEMMA ShakeKept ==
    ASSUME ShakeInv, UNCHANGED <<ready, listening>>,
           \A r \in Receivers : /\ pc'[r] = "ready" => pc[r] = "ready"
                                /\ pc'[r] = "signal" => pc[r] = "signal",
           \A s \in Senders : /\ PastWait(s)' => PastWait(s)
                              /\ todo'[s] \in Seq(ListenPorts(NPairs + s))
    PROVE  ShakeInv'
<1>1. \A r : ListenPorts(r)' = ListenPorts(r) BY DEF ListenPorts, Port, Flows
<1> QED BY <1>1 DEF ShakeInv, ReceiverShake, SenderShake

LEMMA ShakeGoto ==
    ASSUME ThreadsAssumption, TypeInv, ShakeInv, UNCHANGED <<ready, listening, todo>>,
           NEW c \in Cores, NEW step, Goto(c, step),
           step \notin {"ready", "signal"},
           c \in Senders /\ step \in {"loop", "epoll", "events", "break"} => PastWait(c)
    PROVE  ShakeInv'
<1>1. \A d \in Cores : pc'[d] = IF d = c THEN step ELSE pc[d] BY DEF TypeInv, Goto
<1>2. \A r \in Receivers : /\ pc'[r] = "ready" => pc[r] = "ready"
                           /\ pc'[r] = "signal" => pc[r] = "signal"
  BY <1>1, CoreFacts
<1>3. \A s \in Senders : PastWait(s)' => PastWait(s)
  BY <1>1, CoreFacts DEF PastWait
<1>4. \A s \in Senders : todo'[s] \in Seq(ListenPorts(NPairs + s))
  BY DEF ShakeInv, SenderShake
<1> QED BY <1>2, <1>3, <1>4, ShakeKept

(* The sender's side. *)
LEMMA ShakeTest ==
    ASSUME ThreadsAssumption, TypeInv, ShakeInv, NEW s \in Senders, TestReady(s)
    PROVE  ShakeInv'
<1>1. UNCHANGED <<ready, listening, todo>> BY DEF TestReady
<1>2. \A d \in Cores : pc'[d] = IF d = s THEN IF ready[Pair(s)] THEN "loop" ELSE "wait"
                                ELSE pc[d]
  BY DEF TestReady, TypeInv, Goto
<1>3. \A r \in Receivers : pc'[r] = pc[r] BY <1>2, CoreFacts
<1>4. ASSUME NEW u \in Senders, PastWait(u)' PROVE ready[u]
  <2>1. CASE PastWait(u) BY <2>1 DEF ShakeInv, SenderShake
  <2>2. CASE ~PastWait(u)
    <3>1. u = s /\ ready[Pair(s)] BY <1>1, <1>2, <1>4, <2>2, CoreFacts DEF PastWait
    <3> QED BY <3>1, PairFacts
  <2> QED BY <2>1, <2>2
<1>5. \A r : ListenPorts(r)' = ListenPorts(r) BY DEF ListenPorts, Port, Flows
<1> QED BY <1>1, <1>3, <1>4, <1>5 DEF ShakeInv, ReceiverShake, SenderShake

LEMMA ShakeSend ==
    ASSUME ThreadsAssumption, FqAssumption, TypeInv, ShakeInv, NEW s \in Senders,
           Schedule(s) \/ SendOut(s) \/ CreateConnection(s)
    PROVE  ShakeInv'
<1>1. UNCHANGED <<ready, listening>> /\ s \in Cores
  BY CoreFacts DEF Schedule, SendOut, CreateConnection
<1>2. PastWait(s)
  BY DEF Schedule, SendOut, CreateConnection, At, PastWait
<1>3. \A u \in Senders : u # s => todo'[u] = todo[u]
  BY DEF Schedule, SendOut, CreateConnection, TypeInv
<1>4. PICK step \in Stages \ {"ready", "signal"} : pc' = [pc EXCEPT ![s] = step] \/ pc' = pc
  <2>1. CASE Schedule(s)
    <3>1. PICK step \in {"break", "epoll"} : Goto(s, step) BY <2>1 DEF Schedule
    <3> QED BY <3>1 DEF Goto, Stages
  <2>2. CASE SendOut(s)
    <3>1. Goto(s, "out") BY <2>2 DEF SendOut, Leave
    <3> QED BY <3>1 DEF Goto, Stages
  <2>3. CASE CreateConnection(s)
    <3>1. "loop" \in Stages \ {"ready", "signal"} /\ pc' = pc
      BY <2>3 DEF CreateConnection, Stages
    <3> QED BY <3>1
  <2> QED BY <2>1, <2>2, <2>3
<1>5. \A d \in Cores : d # s => pc'[d] = pc[d] BY <1>4 DEF TypeInv
<1>6. \A r \in Receivers : pc'[r] = pc[r] BY <1>5, CoreFacts
<1>7. \A u \in Senders : PastWait(u)' => PastWait(u)
  BY <1>2, <1>3, <1>5, CoreFacts DEF PastWait
<1>8. \A u \in Senders : todo[u] \in Seq(ListenPorts(NPairs + u))
  BY DEF ShakeInv, SenderShake
<1>9. todo'[s] \in Seq(ListenPorts(NPairs + s))
  <2>1. CASE Schedule(s)
    <3>1. ToStart(s) \subseteq Flows BY DEF ToStart
    <3>2. todo'[s] = SeqOfPorts(s, ToStart(s)) BY <2>1 DEF Schedule, TypeInv
    <3>3. todo'[s] \in Seq({Port(s, j) : j \in ToStart(s)}) BY <3>1, <3>2, SeqFacts
    <3>4. {Port(s, j) : j \in ToStart(s)} \subseteq ListenPorts(NPairs + s)
      BY <3>1, PortFacts
    <3> QED BY <3>3, <3>4, SeqMonotonic
  <2>2. CASE SendOut(s) BY <1>8, <2>2 DEF SendOut
  <2>3. CASE CreateConnection(s)
    <3>1. todo[s] # <<>> /\ todo'[s] = Tail(todo[s]) BY <2>3 DEF CreateConnection, TypeInv
    <3> QED BY <1>8, <3>1, HeadTailProperties
  <2> QED BY <2>1, <2>2, <2>3
<1>10. \A u \in Senders : todo'[u] \in Seq(ListenPorts(NPairs + u))
  BY <1>3, <1>8, <1>9
<1> QED BY <1>1, <1>6, <1>7, <1>10, ShakeKept

(* The receiver's side. *)
LEMMA ShakeListen ==
    ASSUME ThreadsAssumption, FqAssumption, TypeInv, ShakeInv, NEW r \in Receivers,
           ServicePortConfig(r)
    PROVE  ShakeInv'
<1>1. UNCHANGED <<ready, todo>> /\ pc[r] = "listen" BY DEF ServicePortConfig, At
<1>2. PICK p \in ListenPorts(r) \ listening[r] :
         /\ listening' = [listening EXCEPT ![r] = listening[r] \cup {p}]
         /\ Goto(r, IF listening'[r] = ListenPorts(r) THEN "ready" ELSE "listen")
  BY DEF ServicePortConfig
<1>3. ListenPorts(r) \subseteq Int BY ListenFacts
<1>4. listening' \in [Receivers -> SUBSET Int] BY <1>2, <1>3 DEF ShakeInv
<1>5. \A q \in Receivers : listening'[q] = IF q = r THEN listening[r] \cup {p} ELSE listening[q]
  BY <1>2 DEF ShakeInv
<1>6. \A d \in Cores : d # r => pc'[d] = pc[d] BY <1>2 DEF TypeInv, Goto
<1>7. pc'[r] \in {"ready", "listen"} /\ (pc'[r] = "ready" => listening'[r] = ListenPorts(r))
  BY <1>2, CoreFacts DEF TypeInv, Goto
<1>8. ~ready[Pair(r)]
  <2>1. p \in ListenPorts(r) /\ p \notin listening[r] BY <1>2
  <2> QED BY <2>1 DEF ShakeInv, ReceiverShake
<1>9. \A q : ListenPorts(q)' = ListenPorts(q) BY DEF ListenPorts, Port, Flows
<1>10. \A q \in Receivers : ReceiverShake(q)'
  <2> SUFFICES ASSUME NEW q \in Receivers PROVE ReceiverShake(q)'
    OBVIOUS
  <2>1. CASE q = r BY <1>1, <1>7, <1>8, <1>9, <2>1 DEF ReceiverShake
  <2>2. CASE q # r
    <3>1. pc'[q] = pc[q] /\ listening'[q] = listening[q] BY <1>5, <1>6, <2>2, CoreFacts
    <3> QED BY <1>1, <1>9, <3>1 DEF ShakeInv, ReceiverShake
  <2> QED BY <2>1, <2>2
<1>11. \A s \in Senders : SenderShake(s)'
  BY <1>1, <1>6, <1>9, CoreFacts DEF ShakeInv, SenderShake, PastWait
<1> QED BY <1>1, <1>4, <1>10, <1>11 DEF ShakeInv

LEMMA ShakeReady ==
    ASSUME ThreadsAssumption, TypeInv, ShakeInv, NEW r \in Receivers, SetReady(r)
    PROVE  ShakeInv'
<1>1. UNCHANGED <<listening, todo>> /\ pc[r] = "ready" BY DEF SetReady, At
<1>2. ready' = [ready EXCEPT ![Pair(r)] = TRUE] /\ Goto(r, "signal") BY DEF SetReady
<1>3. ready' \in [Senders -> BOOLEAN] BY <1>2 DEF ShakeInv
<1>4. \A s \in Senders : ready'[s] <=> ready[s] \/ s = Pair(r) BY <1>2 DEF ShakeInv
<1>5. \A d \in Cores : pc'[d] = IF d = r THEN "signal" ELSE pc[d]
  BY <1>2 DEF TypeInv, Goto
<1>6. \A q : ListenPorts(q)' = ListenPorts(q) BY DEF ListenPorts, Port, Flows
<1>7. \A q \in Receivers : ReceiverShake(q)'
  <2> SUFFICES ASSUME NEW q \in Receivers PROVE ReceiverShake(q)'
    OBVIOUS
  <2>1. Pair(r) \in Senders /\ Pair(q) \in Senders /\ q \in Cores /\ r \in Cores
    BY CoreFacts
  <2>2. CASE q = r
    <3>1. listening[r] = ListenPorts(r) BY <1>1 DEF ShakeInv, ReceiverShake
    <3> QED BY <1>1, <1>4, <1>6, <2>1, <2>2, <3>1 DEF ReceiverShake
  <2>3. CASE q # r
    <3>1. pc'[q] = pc[q] /\ (ready'[Pair(q)] <=> ready[Pair(q)])
      BY <1>4, <1>5, <2>1, <2>3, PairFacts
    <3> QED BY <1>1, <1>6, <3>1 DEF ShakeInv, ReceiverShake
  <2> QED BY <2>2, <2>3
<1>8. \A s \in Senders : SenderShake(s)'
  BY <1>1, <1>4, <1>5, <1>6, CoreFacts DEF ShakeInv, SenderShake, PastWait
<1> QED BY <1>1, <1>3, <1>7, <1>8 DEF ShakeInv

LEMMA ShakeSignal ==
    ASSUME ThreadsAssumption, TypeInv, ShakeInv, NEW r \in Receivers, CondSignal(r)
    PROVE  ShakeInv'
<1>1. UNCHANGED <<ready, listening, todo>> /\ pc[r] = "signal" BY DEF CondSignal, At
<1>2. \A d \in Cores : pc'[d] # pc[d] => d = r \/ d = Pair(r) BY DEF CondSignal
<1>3. pc'[r] = "loop" BY CoreFacts DEF CondSignal
<1>4. ready[Pair(r)] BY <1>1 DEF ShakeInv, ReceiverShake
<1>5. \A q \in Receivers : pc'[q] = pc[q] \/ pc'[q] = "loop"
  BY <1>2, <1>3, CoreFacts
<1>6. \A s \in Senders : PastWait(s)' => ready[s]
  BY <1>1, <1>2, <1>4, CoreFacts DEF ShakeInv, SenderShake, PastWait
<1>7. \A q : ListenPorts(q)' = ListenPorts(q) BY DEF ListenPorts, Port, Flows
<1> QED BY <1>1, <1>5, <1>6, <1>7 DEF ShakeInv, ReceiverShake, SenderShake

-----------------------------------------------------------------------------
LEMMA ShakeStart ==
    ASSUME ThreadsAssumption, Init PROVE ShakeInv
<1>1. \A r \in Receivers : pc[r] = "none" /\ ~ready[Pair(r)]
  BY CoreFacts DEF Init, ThreadsInit
<1>2. \A s \in Senders : ~PastWait(s) /\ todo[s] = <<>>
  BY CoreFacts DEF Init, ThreadsInit, PastWait
<1>3. \A S : <<>> \in Seq(S) OBVIOUS
<1> QED BY <1>1, <1>2, <1>3 DEF Init, ThreadsInit, ShakeInv, ReceiverShake, SenderShake

LEMMA ShakeNext ==
    ASSUME ThreadsAssumption, FqAssumption, ~Spurious, TypeInv, ShakeInv, [Next]_vars
    PROVE  ShakeInv'
<1>1. ASSUME UNCHANGED <<pc, ready, listening, todo>> PROVE ShakeInv'
  <2>1. \A q : ListenPorts(q)' = ListenPorts(q) BY DEF ListenPorts, Port, Flows
  <2> QED BY <1>1, <2>1 DEF ShakeInv, ReceiverShake, SenderShake, PastWait
<1>2. CASE \/ UNCHANGED vars \/ Abort \/ Sigint \/ Stack \/ MainReturn
           \/ \E s \in Senders : Tick(s)
  BY <1>1, <1>2 DEF vars, Abort, Sigint, Stack, Answer, Break, MainReturn, Tick
<1>3. ASSUME NEW c \in Cores, StartThread(c) \/ CreateContext(c) PROVE ShakeInv'
  <2>1. PICK step \in {"new", "init", "gone"} : Goto(c, step)
    BY <1>3 DEF StartThread, CreateContext
  <2> QED BY <1>3, <2>1, ShakeGoto DEF StartThread, CreateContext
<1>4. ASSUME NEW c \in Cores, RunContext(c) PROVE ShakeInv'
  <2>1. PICK step \in {"test", "listen"} : Goto(c, step) BY <1>4 DEF RunContext
  <2> QED BY <1>4, <2>1, ShakeGoto DEF RunContext
<1>5. ASSUME NEW s \in Senders, CondWait(s) PROVE ShakeInv'
  BY <1>5, ShakeGoto, CoreFacts DEF CondWait
<1>6. ASSUME NEW c \in Cores, EpollWait(c) PROVE ShakeInv'
  <2>1. pc[c] = "epoll" BY <1>6 DEF EpollWait, At
  <2> QED BY <1>6, <2>1, ShakeGoto DEF EpollWait, PastWait
<1>7. ASSUME NEW c \in Cores, NEW e \in batch[c], Take(c, e),
             UNCHANGED <<ready, listening, todo>>
      PROVE  ShakeInv'
  <2>1. pc[c] = "events" BY <1>7 DEF Take, At
  <2>2. PICK step \in {"loop", "events"} : Goto(c, step) BY <1>7 DEF Take
  <2> QED BY <1>7, <2>1, <2>2, ShakeGoto DEF PastWait
<1>8. ASSUME NEW s \in Senders, RunSendContext(s) PROVE ShakeInv'
  <2>1. CASE Schedule(s) \/ SendOut(s) BY <2>1, ShakeSend
  <2>2. CASE EpollWait(s) BY <1>6, <2>2, CoreFacts
  <2>3. ASSUME NEW e \in batch[s], SendWrite(s, e) \/ SendError(s, e) \/ Transfer(s, e)
        PROVE  ShakeInv'
    <3>1. Take(s, e) /\ UNCHANGED <<ready, listening, todo>>
      BY <2>3 DEF Transfer, SendWrite, SendError
    <3> QED BY <1>7, <3>1, CoreFacts
  <2> QED BY <1>8, <2>1, <2>2, <2>3 DEF RunSendContext
<1>9. ASSUME NEW r \in Receivers, RunReceiver(r) PROVE ShakeInv'
  <2>1. CASE RecvLoop(r)
    <3>1. PICK step \in {"out", "epoll"} : Goto(r, step) BY <2>1 DEF RecvLoop
    <3> QED BY <2>1, <3>1, ShakeGoto, CoreFacts DEF RecvLoop
  <2>2. CASE EpollWait(r) BY <1>6, <2>2, CoreFacts
  <2>3. ASSUME NEW e \in batch[r], RecvRead(r, e) \/ RecvAccept(r, e) \/ RecvError(r, e)
        PROVE  ShakeInv'
    <3>1. Take(r, e) /\ UNCHANGED <<ready, listening, todo>>
      BY <2>3 DEF RecvRead, Transfer, RecvAccept, RecvError
    <3> QED BY <1>7, <3>1, CoreFacts
  <2> QED BY <1>9, <2>1, <2>2, <2>3 DEF RunReceiver
<1>10. ASSUME NEW c \in Cores, RunVnf(c) PROVE ShakeInv'
  <2>1. CASE StartThread(c) \/ CreateContext(c) \/ RunContext(c) BY <1>3, <1>4, <2>1
  <2>2. CASE c \in Senders /\ (TestReady(c) \/ CondWait(c))
    BY <1>5, <2>2, ShakeTest
  <2>3. CASE c \in Senders /\ CreateConnection(c) BY <2>3, ShakeSend
  <2>4. CASE c \in Receivers /\ (ServicePortConfig(c) \/ SetReady(c) \/ CondSignal(c))
    BY <2>4, ShakeListen, ShakeReady, ShakeSignal
  <2> QED BY <1>8, <1>9, <1>10, <2>1, <2>2, <2>3, <2>4 DEF RunVnf, SetUp
<1>11. \A s \in Senders : ~SpuriousWakeup(s) BY DEF SpuriousWakeup
<1> QED BY <1>2, <1>10, <1>11 DEF Next, Environment

(* Only CreateConnection makes the list of streams longer. *)
LEMMA OnlyConnectOpens ==
    ASSUME TypeInv, TypeInv', [Next]_vars, Len(streams') > Len(streams)
    PROVE  \E s \in Senders : CreateConnection(s)
<1>1. Ids = 1..Len(streams) /\ Len(streams) \in Nat /\ Ids' = 1..Len(streams')
      /\ Len(streams') \in Nat
  BY LenProperties DEF TypeInv, Ids
<1>2. Ids' # Ids
  <2>1. Len(streams') \in 1..Len(streams') /\ Len(streams') \notin 1..Len(streams)
    BY <1>1
  <2> QED BY <1>1, <2>1
<1>3. streams' # streams BY <1>2 DEF Ids
<1>4. ~Stack BY <1>2, StackStreams
<1>5. ~\E s \in Senders : Schedule(s) BY <1>2, ScheduleStreams
<1>6. ~\E s \in Senders : SendOut(s) BY <1>2, LeaveStreams DEF SendOut
<1>7. ~\E s \in Senders : \E e \in batch[s] : SendError(s, e)
  BY <1>2 DEF SendError, Closed, Ids
<1>8. ~\E r \in Receivers : \E e \in batch[r] : RecvAccept(r, e) \/ RecvError(r, e)
  BY <1>2, ReceiveStreams
<1>9. ~\E c \in Cores : \/ StartThread(c) \/ CreateContext(c) \/ RunContext(c)
                        \/ EpollWait(c) \/ \E e \in batch[c] : Transfer(c, e)
  BY <1>3 DEF StartThread, CreateContext, RunContext, EpollWait, Transfer
<1>10. ~\E s \in Senders : \/ TestReady(s) \/ CondWait(s) \/ SpuriousWakeup(s) \/ Tick(s)
                           \/ EpollWait(s) \/ \E e \in batch[s] : Transfer(s, e) \/ SendWrite(s, e)
  BY <1>3 DEF TestReady, CondWait, SpuriousWakeup, EpollWait, Transfer, SendWrite, Tick
<1>11. ~\E r \in Receivers : \/ ServicePortConfig(r) \/ SetReady(r) \/ CondSignal(r)
                             \/ RecvLoop(r) \/ EpollWait(r)
                             \/ \E e \in batch[r] : RecvRead(r, e)
  BY <1>3 DEF ServicePortConfig, SetReady, CondSignal, RecvLoop, EpollWait, Transfer, RecvRead
<1>12. ~(Abort \/ Sigint \/ MainReturn \/ UNCHANGED vars)
  BY <1>3 DEF Abort, Sigint, MainReturn, vars
<1>13. ~\E s \in Senders : RunSendContext(s)
  BY <1>5, <1>6, <1>7, <1>10 DEF RunSendContext
<1>14. ~\E r \in Receivers : RunReceiver(r)
  BY <1>8, <1>11 DEF RunReceiver
<1> QED
  BY <1>4, <1>9, <1>10, <1>11, <1>12, <1>13, <1>14 DEF Next, Environment, RunVnf, SetUp

(* What a sender connects to: its receiver is ready and listens there. *)
LEMMA ConnectReady ==
    ASSUME ThreadsAssumption, FqAssumption, ShakeInv, NEW s \in Senders, todo[s] # <<>>
    PROVE  /\ ready[s] /\ Head(todo[s]) \in listening[NPairs + s]
           /\ Head(todo[s]) \in ListenPorts(NPairs + s)
<1>1. ready[s] /\ todo[s] \in Seq(ListenPorts(NPairs + s))
  BY DEF ShakeInv, SenderShake, PastWait
<1>2. Head(todo[s]) \in ListenPorts(NPairs + s) BY <1>1, HeadTailProperties
<1>3. NPairs + s \in Receivers /\ Pair(NPairs + s) = s BY PairFacts
<1>4. listening[NPairs + s] = ListenPorts(NPairs + s)
  BY <1>1, <1>3 DEF ShakeInv, ReceiverShake
<1> QED BY <1>1, <1>2, <1>4

(* A stream is opened only to a port on which the receiver of its pair     *)
(* listens, once that receiver has set its flag (fv_mtcp_fq.c:247-250).    *)
OpensToReady ==
    Len(streams') > Len(streams) =>
       LET new == streams'[Len(streams')] IN
       ready[new.core] /\ new.port \in listening[NPairs + new.core]

(* The hand-shake of fv_mtcp_fq.c, for any number of pairs and flows, with *)
(* allocations that fail and streams that break: if no wait ends by        *)
(* itself, every stream a sender opens is to a port on which the receiver  *)
(* of its pair listens, and it has said so (fv_mtcp_fq.c:247-250, 368-369).*)
THEOREM ReadyTheorem ==
    ASSUME ThreadsAssumption, FqAssumption, ~Spurious
    PROVE  Spec => [][OpensToReady]_vars
<1>1. Init => ShakeInv BY ShakeStart
<1>2. FqInv /\ ShakeInv /\ [Next]_vars => ShakeInv' BY ShakeNext DEF FqInv
<1>3. FqInv /\ FqInv' /\ ShakeInv /\ [Next]_vars => OpensToReady
  <2> SUFFICES ASSUME FqInv, FqInv', ShakeInv, [Next]_vars, Len(streams') > Len(streams)
               PROVE  LET new == streams'[Len(streams')] IN
                      ready[new.core] /\ new.port \in listening[NPairs + new.core]
    BY DEF OpensToReady
  <2>1. TypeInv /\ TypeInv' BY DEF FqInv
  <2>2. PICK s \in Senders : CreateConnection(s) BY <2>1, OnlyConnectOpens
  <2> DEFINE x == [core |-> s, port |-> Head(todo[s]), snd |-> "syn", rcv |-> "none"]
  <2>3. streams' # streams
    <3>1. Len(streams) \in Nat BY <2>1, IdFacts
    <3> QED BY <3>1
  <2>4. streams' = Append(streams, x) /\ todo[s] # <<>>
    BY <2>2, <2>3 DEF CreateConnection
  <2>5. x \in Stream
    <3>1. todo[s] \in Seq(Int) BY <2>1 DEF TypeInv
    <3>2. Head(todo[s]) \in Int BY <2>4, <3>1, HeadTailProperties
    <3> QED BY <3>2 DEF Stream
  <2>6. x.core = s /\ x.port = Head(todo[s]) OBVIOUS
  <2> HIDE DEF x
  <2>7. streams'[Len(streams')] = x
    BY <2>1, <2>4, <2>5, AppendProperties DEF TypeInv
  <2> QED BY <2>4, <2>6, <2>7, ConnectReady
<1> QED BY <1>1, <1>2, <1>3, FqInvariant, PTL DEF Spec

-----------------------------------------------------------------------------
(* The time table, if the streams are set up in less time than lies        *)
(* between two starts.                                                     *)
PromptAssumption ==
    /\ ThreadsAssumption /\ FqAssumption
    /\ Prompt /\ ~Spurious /\ ~Faults /\ ~MaySigint /\ MaxErrors = 0
    /\ NPairs * NFlows <= MaxStreams
    /\ \A j, k \in Flows : j < k => StartTs[j] < StartTs[k]

(* Nothing fails or stops, and no stream breaks. *)
CalmStream(i) ==
    /\ streams[i].snd # "broken"
    /\ streams[i].port \in listening[NPairs + streams[i].core]
Calm ==
    /\ done = [c \in Cores |-> FALSE] /\ errors = 0
    /\ \A r \in Receivers : pc[r] # "out"
    /\ \A s \in Senders : \A e \in batch[s] : e.kind # "err"
    /\ \A i \in Ids : CalmStream(i)

(* A flow is begun when its time comes; a step of the clock later both     *)
(* ends know its stream.                                                   *)
Known(s, j) == j \in begun[s] /\ evid[s][j] # 0 /\ slot[NPairs + s][j] # 0
Timed(s) ==
    /\ \A j \in begun[s] : StartTs[j] <= elapsed[s]
    /\ \A j \in ended[s] : EndTs[j] <= elapsed[s]
    /\ pc[s] = "break" => ended[s] = Flows
    /\ \A j \in Flows : StartTs[j] < elapsed[s] => Known(s, j)

(* Every flow that is begun has one stream, or is about to get it; the     *)
(* stream is not closed before both ends know it.                          *)
HasStream(s, j) == \E i \in Ids : streams[i].port = Port(s, j)
Awaits(s, j) == todo[s] = <<Port(s, j)>>
StreamOfFlow(i) ==
    \E s \in Senders : \E j \in begun[s] :
       /\ streams[i].core = s /\ streams[i].port = Port(s, j)
       /\ streams[i].snd = "closed" => StartTs[j] < elapsed[s]
OneStream ==
    /\ \A i, k \in Ids : streams[i].port = streams[k].port => i = k
    /\ \A i \in Ids : StreamOfFlow(i)
    /\ \A s \in Senders : \A j \in begun[s] : HasStream(s, j) \/ Awaits(s, j)
    /\ \A s \in Senders : todo[s] = <<>> \/ \E j \in begun[s] : Awaits(s, j) /\ ~HasStream(s, j)

(* Entry j of a table is the stream of flow j. *)
EntryIs(t, c) == \A j \in Flows : t[j] # 0 => streams[t[j]].port = Port(c, j)
Entries ==
    /\ \A s \in Senders : EntryIs(evid[s], s)
    /\ \A r \in Receivers : EntryIs(slot[r], r)

TableInv == Calm /\ (\A s \in Senders : Timed(s)) /\ OneStream /\ Entries

LEMMA TimeFacts ==
    ASSUME PromptAssumption
    PROVE  /\ ThreadsAssumption /\ FqAssumption
           /\ \A j \in Flows : StartTs[j] \in Nat /\ EndTs[j] \in Nat /\ StartTs[j] < EndTs[j]
           /\ Flows \subseteq Nat
BY DEF PromptAssumption, FqAssumption, Flows

LEMMA OwnPort ==
    ASSUME PromptAssumption, NEW s \in Senders, NEW u \in Senders,
           NEW j \in Flows, NEW k \in Flows, Port(s, j) = Port(u, k)
    PROVE  s = u /\ j = k
BY TimeFacts, PortFacts

(* A stream has one flow, and only that flow has the stream. *)
LEMMA FlowOfStream ==
    ASSUME PromptAssumption, TypeInv, OneStream, NEW s \in Senders, NEW i \in Ids,
           streams[i].core = s \/ \E j \in Flows : streams[i].port = Port(s, j)
    PROVE  \E j \in begun[s] :
              /\ j \in Flows /\ streams[i].core = s /\ streams[i].port = Port(s, j)
              /\ streams[i].snd = "closed" => StartTs[j] < elapsed[s]
<1>1. StreamOfFlow(i) BY DEF OneStream
<1>2. PICK u \in Senders : \E j \in begun[u] :
         /\ streams[i].core = u /\ streams[i].port = Port(u, j)
         /\ streams[i].snd = "closed" => StartTs[j] < elapsed[u]
  BY <1>1 DEF StreamOfFlow
<1>3. PICK j \in begun[u] :
         /\ streams[i].core = u /\ streams[i].port = Port(u, j)
         /\ streams[i].snd = "closed" => StartTs[j] < elapsed[u]
  BY <1>2
<1>4. j \in Flows BY DEF TypeInv
<1>5. u = s BY <1>3, <1>4, TimeFacts, PortFacts
<1> QED BY <1>3, <1>4, <1>5

-----------------------------------------------------------------------------
(* Steps that keep the parts of the invariant. *)
LEMMA CalmKept ==
    ASSUME PromptAssumption, Calm, TypeInv, TypeInv', UNCHANGED <<done, errors>>, SameStreams,
           \A r \in Receivers : /\ listening[r] \subseteq listening'[r]
                                /\ pc'[r] = "out" => pc[r] = "out",
           \A s \in Senders : \A e \in batch'[s] : e \in batch[s] \/ e.kind # "err",
           \A i \in Ids' : /\ streams'[i].snd # "broken"
                           /\ i \notin Ids => CalmStream(i)'
    PROVE  Calm'
<1>1. ASSUME NEW i \in Ids' PROVE CalmStream(i)'
  <2>1. CASE i \in Ids
    <3>1. streams[i].core \in Senders BY <2>1, IdFacts DEF Stream
    <3>2. NPairs + streams[i].core \in Receivers BY <3>1, TimeFacts, PairFacts
    <3>3. CalmStream(i) BY <2>1 DEF Calm
    <3> QED BY <2>1, <3>2, <3>3 DEF CalmStream, SameStreams
  <2> QED BY <2>1
<1> QED BY <1>1 DEF Calm

LEMMA EntriesKept ==
    ASSUME FqInv, Entries, SameStreams, UNCHANGED <<evid, slot>>
    PROVE  Entries'
<1>1. ASSUME NEW s \in Senders PROVE EntryIs(evid[s], s)'
  <2>1. \A j \in Flows : evid[s][j] # 0 => evid[s][j] \in Ids
    BY DEF FqInv, Owned, EvidOwned, OwnedBy
  <2>2. EntryIs(evid[s], s) BY DEF Entries
  <2> QED BY <2>1, <2>2 DEF EntryIs, SameStreams
<1>2. ASSUME NEW r \in Receivers PROVE EntryIs(slot[r], r)'
  <2>1. \A j \in Flows : slot[r][j] # 0 => slot[r][j] \in Ids
    BY DEF FqInv, Owned, SlotOwned, SentTo
  <2>2. EntryIs(slot[r], r) BY DEF Entries
  <2> QED BY <2>1, <2>2 DEF EntryIs, SameStreams
<1> QED BY <1>1, <1>2 DEF Entries

(* The time of a flow that a stream is of is past its start. *)
Over(i) ==
    \E s \in Senders : \E j \in begun[s] :
       /\ streams[i].core = s /\ streams[i].port = Port(s, j)
       /\ StartTs[j] < elapsed[s]

LEMMA OneStreamKept ==
    ASSUME PromptAssumption, TypeInv, TypeInv', OneStream, SameStreams, Ids' = Ids,
           UNCHANGED <<todo, begun>>, \A s \in Senders : elapsed[s] <= elapsed'[s],
           \A i \in Ids : streams'[i].snd = "closed" => streams[i].snd = "closed" \/ Over(i)
    PROVE  OneStream'
<1>1. \A i, k \in Ids : streams'[i].port = streams'[k].port => i = k
  BY DEF OneStream, SameStreams
<1>2. ASSUME NEW i \in Ids PROVE StreamOfFlow(i)'
  <2>1. CASE Over(i)
    <3>0. PICK s \in Senders : \E j \in begun[s] :
             /\ streams[i].core = s /\ streams[i].port = Port(s, j)
             /\ StartTs[j] < elapsed[s]
      BY <2>1 DEF Over
    <3>1. PICK j \in begun[s] :
             /\ streams[i].core = s /\ streams[i].port = Port(s, j)
             /\ StartTs[j] < elapsed[s]
      BY <3>0
    <3>2. j \in Flows /\ StartTs[j] \in Nat /\ elapsed[s] \in Nat /\ elapsed'[s] \in Nat
      BY TimeFacts DEF TypeInv
    <3>3. StartTs[j] < elapsed'[s] BY <3>1, <3>2
    <3> QED BY <3>1, <3>3 DEF StreamOfFlow, SameStreams
  <2>2. CASE ~Over(i)
    <3>0. PICK s \in Senders : \E j \in begun[s] :
             /\ streams[i].core = s /\ streams[i].port = Port(s, j)
             /\ streams[i].snd = "closed" => StartTs[j] < elapsed[s]
      BY DEF OneStream, StreamOfFlow
    <3>1. PICK j \in begun[s] :
             /\ streams[i].core = s /\ streams[i].port = Port(s, j)
             /\ streams[i].snd = "closed" => StartTs[j] < elapsed[s]
      BY <3>0
    <3>2. streams'[i].snd # "closed" BY <2>2, <3>1 DEF Over
    <3> QED BY <3>1, <3>2 DEF StreamOfFlow, SameStreams
  <2> QED BY <2>1, <2>2
<1>3. \A s, j : HasStream(s, j)' <=> HasStream(s, j) BY DEF HasStream, SameStreams
<1>4. \A s, j : Awaits(s, j)' <=> Awaits(s, j) BY DEF Awaits
<1> QED BY <1>1, <1>2, <1>3, <1>4 DEF OneStream

LEMMA TimedKept ==
    ASSUME NEW s \in Senders, Timed(s), UNCHANGED <<elapsed, begun, ended>>,
           pc'[s] = "break" => pc[s] = "break",
           \A j \in Flows : Known(s, j) => Known(s, j)'
    PROVE  Timed(s)'
BY DEF Timed

(* The steps of the set-up, of the stack, and of those that take events    *)
(* but record nothing.                                                     *)
LEMMA TableKept ==
    ASSUME PromptAssumption, FqInv, FqInv', TableInv, Calm',
           UNCHANGED <<todo, elapsed, begun, ended, evid, slot>>, SameStreams, Ids' = Ids,
           \A i \in Ids : streams'[i].snd = "closed" => streams[i].snd = "closed",
           \A s \in Senders : pc'[s] = "break" => pc[s] = "break"
    PROVE  TableInv'
<1>1. Entries' BY EntriesKept DEF TableInv
<1>2. OneStream'
  <2>1. \A s \in Senders : elapsed[s] <= elapsed'[s] BY DEF FqInv, TypeInv
  <2> QED BY <2>1, OneStreamKept DEF TableInv, FqInv
<1>3. ASSUME NEW s \in Senders PROVE Timed(s)'
  BY TimedKept DEF TableInv, Known
<1> QED BY <1>1, <1>2, <1>3 DEF TableInv

LEMMA QuietTable ==
    ASSUME PromptAssumption, FqInv, FqInv', TableInv,
           UNCHANGED <<todo, streams, done, errors, own>>,
           \A r \in Receivers : /\ listening[r] \subseteq listening'[r]
                                /\ pc'[r] = "out" => pc[r] = "out",
           \A s \in Senders : /\ pc'[s] = "break" => pc[s] = "break"
                              /\ \A e \in batch'[s] : e \in batch[s] \/ e.kind # "err"
    PROVE  TableInv'
<1>1. SameStreams /\ Ids' = Ids BY NoneChanges DEF FqInv, Ids
<1>2. Calm /\ \A i \in Ids : streams[i].snd # "broken"
  BY DEF TableInv, Calm, CalmStream
<1>3. Calm' BY <1>1, <1>2, CalmKept DEF FqInv
<1> QED BY <1>1, <1>3, TableKept DEF own

(* Of these, a thread goes on. *)
LEMMA GotoTable ==
    ASSUME PromptAssumption, FqInv, FqInv', TableInv,
           UNCHANGED <<todo, streams, batch, listening, done, errors, own>>,
           NEW c \in Cores, NEW step \in Stages \ {"out", "break"}, Goto(c, step)
    PROVE  TableInv'
<1>1. \A d \in Cores : pc'[d] = IF d = c THEN step ELSE pc[d] BY DEF FqInv, TypeInv, Goto
<1>2. Senders \subseteq Cores /\ Receivers \subseteq Cores BY TimeFacts, CoreFacts
<1> QED BY <1>1, <1>2, QuietTable

LEMMA SetUpTable ==
    ASSUME PromptAssumption, FqInv, FqInv', TableInv, NEW c \in Cores, SetUp(c),
           ~(c \in Senders /\ CreateConnection(c))
    PROVE  TableInv'
<1>0. UNCHANGED own /\ Calm /\ TypeInv BY DEF SetUp, TableInv, FqInv
<1>1. CASE StartThread(c)
  <2>1. Goto(c, "new") /\ "new" \in Stages \ {"out", "break"}
        /\ UNCHANGED <<todo, streams, batch, listening, errors>>
        /\ done' = [done EXCEPT ![c] = FALSE]
    BY <1>1 DEF StartThread, Stages
  <2>2. done' = done BY <1>0, <2>1 DEF Calm
  <2> QED BY <1>0, <2>1, <2>2, GotoTable
<1>2. CASE CreateContext(c) \/ RunContext(c)
  <2>1. PICK step \in Stages \ {"out", "break"} : Goto(c, step)
    BY <1>2 DEF CreateContext, RunContext, Stages
  <2>2. UNCHANGED <<todo, streams, batch, listening, done, errors>>
    BY <1>2 DEF CreateContext, RunContext
  <2> QED BY <1>0, <2>1, <2>2, GotoTable
<1>3. CASE c \in Senders /\ (TestReady(c) \/ CondWait(c))
  <2>1. PICK step \in Stages \ {"out", "break"} : Goto(c, step)
    BY <1>3 DEF TestReady, CondWait, Stages
  <2>2. UNCHANGED <<todo, streams, batch, listening, done, errors>>
    BY <1>3 DEF TestReady, CondWait
  <2> QED BY <1>0, <2>1, <2>2, GotoTable
<1>4. CASE c \in Receivers /\ SetReady(c)
  <2>1. /\ Goto(c, "signal") /\ "signal" \in Stages \ {"out", "break"}
        /\ UNCHANGED <<todo, streams, batch, listening, done, errors>>
    BY <1>4 DEF SetReady, Stages
  <2> QED BY <1>0, <2>1, GotoTable
<1>5. CASE c \in Receivers /\ ServicePortConfig(c)
  <2>1. /\ UNCHANGED <<todo, streams, batch, done, errors>>
        /\ \E p : listening' = [listening EXCEPT ![c] = listening[c] \cup {p}]
    BY <1>5 DEF ServicePortConfig
  <2>2. PICK step \in {"ready", "listen"} : Goto(c, step) BY <1>5 DEF ServicePortConfig
  <2>3. \A d \in Cores : pc'[d] = IF d = c THEN step ELSE pc[d]
    BY <1>0, <2>2 DEF TypeInv, Goto
  <2>4. \A r \in Receivers : listening[r] \subseteq listening'[r]
    BY <2>1 DEF FqInv, Owned
  <2>5. Senders \subseteq Cores /\ Receivers \subseteq Cores BY TimeFacts, CoreFacts
  <2> QED BY <1>0, <2>1, <2>3, <2>4, <2>5, QuietTable
<1>6. CASE c \in Receivers /\ CondSignal(c)
  <2>1. UNCHANGED <<todo, streams, batch, listening, done, errors>> BY <1>6 DEF CondSignal
  <2>2. \A d \in Cores : pc'[d] = pc[d] \/ pc'[d] = "loop" BY <1>6 DEF CondSignal
  <2>3. Senders \subseteq Cores /\ Receivers \subseteq Cores BY TimeFacts, CoreFacts
  <2> QED BY <1>0, <2>1, <2>2, <2>3, QuietTable
<1> QED BY <1>1, <1>2, <1>3, <1>4, <1>5, <1>6 DEF SetUp

(* The stack answers: somebody listens, so the stream is open. *)
LEMMA StackTable ==
    ASSUME PromptAssumption, FqInv, FqInv', TableInv, Stack, UNCHANGED own
    PROVE  TableInv'
<1>0. TypeInv /\ Calm BY DEF FqInv, TableInv
<1>1. PICK i \in Ids : Answer(i) \/ Break(i) BY DEF Stack
<1>2. NPairs + streams[i].core \in Listener(streams[i].port)
  <2>1. streams[i].core \in Senders BY <1>0, IdFacts DEF Stream
  <2>2. NPairs + streams[i].core \in Receivers BY <2>1, TimeFacts, PairFacts
  <2> QED BY <1>0, <2>2 DEF Calm, CalmStream, Listener
<1>3. ~Break(i)
  <2>1. ~(errors < MaxErrors) BY <1>0 DEF Calm, PromptAssumption
  <2> QED BY <1>2, <2>1 DEF Break
<1>4. /\ UNCHANGED <<pc, done, listening, todo, batch, errors>>
      /\ streams' = [streams EXCEPT ![i].snd = "open", ![i].rcv = "queued"]
  BY <1>1, <1>2, <1>3 DEF Answer
<1>5. /\ SameStreams /\ Ids' = Ids
      /\ \A k \in Ids : streams'[k].snd = "closed" => streams[k].snd = "closed"
  BY <1>0, StackStreams
<1>6. \A k \in Ids : streams'[k].snd # "broken"
  <2>1. \A k \in Ids : streams[k] \in Stream /\ streams[k].snd # "broken"
    BY <1>0, IdFacts DEF Calm, CalmStream
  <2>2. \A k \in Ids : k # i => streams'[k] = streams[k] BY <1>4 DEF Ids
  <2>3. streams'[i].snd = "open"
    <3>1. streams'[i] = [streams[i] EXCEPT !.snd = "open", !.rcv = "queued"]
      BY <1>4 DEF Ids
    <3> QED BY <2>1, <3>1 DEF Stream
  <2> QED BY <2>1, <2>2, <2>3
<1>7. Calm' BY <1>0, <1>4, <1>5, <1>6, CalmKept DEF FqInv
<1> QED BY <1>4, <1>5, <1>7, TableKept DEF own

LEMMA WaitTable ==
    ASSUME PromptAssumption, FqInv, FqInv', TableInv, NEW c \in Cores, EpollWait(c),
           UNCHANGED own
    PROVE  TableInv'
<1>1. /\ UNCHANGED <<done, listening, todo, streams, errors>>
      /\ \A d \in Cores : pc'[d] = IF d = c THEN "events" ELSE pc[d]
  BY DEF EpollWait, Goto, FqInv, TypeInv
<1>2. PICK b \in SUBSET Events(c) : batch' = [batch EXCEPT ![c] = b] BY DEF EpollWait
<1>3. \A d \in Cores : batch'[d] = IF d = c THEN b ELSE batch[d]
  BY <1>2 DEF FqInv, TypeInv
<1>4. Senders \subseteq Cores /\ Receivers \subseteq Cores BY TimeFacts, CoreFacts
<1>5. c \in Senders => \A e \in b : e.kind # "err"
  BY <1>2 DEF Events, SenderEvents, TableInv, Calm, CalmStream
<1> QED BY <1>1, <1>3, <1>4, <1>5, QuietTable

-----------------------------------------------------------------------------
(* What the steps that take an event do to the batches and the threads. *)
LEMMA TakeTable ==
    ASSUME PromptAssumption, FqInv, TableInv, NEW c \in Cores, NEW e \in batch[c],
           Take(c, e)
    PROVE  /\ \A r \in Receivers : pc'[r] = "out" => pc[r] = "out"
           /\ \A s \in Senders : /\ pc'[s] = "break" => pc[s] = "break"
                                 /\ \A x \in batch'[s] : x \in batch[s]
<1>1. PICK step \in {"loop", "events"} : Goto(c, step) BY DEF Take
<1>2. \A d \in Cores : pc'[d] = IF d = c THEN step ELSE pc[d]
  BY <1>1 DEF Goto, FqInv, TypeInv
<1>3. Senders \subseteq Cores /\ Receivers \subseteq Cores BY TimeFacts, CoreFacts
<1>4. \A s \in Senders : batch'[s] \subseteq batch[s] BY TimeFacts, TakeFacts
<1> QED BY <1>2, <1>3, <1>4

LEMMA TransferTable ==
    ASSUME PromptAssumption, FqInv, FqInv', TableInv, NEW c \in Cores, NEW e \in batch[c],
           Transfer(c, e), UNCHANGED own
    PROVE  TableInv'
<1>1. UNCHANGED <<done, listening, todo, streams, errors>> /\ Take(c, e)
  BY DEF Transfer
<1> QED BY <1>1, TakeTable, QuietTable

LEMMA ReceiveTable ==
    ASSUME PromptAssumption, FqInv, FqInv', TableInv, NEW r \in Receivers,
           NEW e \in batch[r], RecvAccept(r, e) \/ RecvError(r, e), UNCHANGED own
    PROVE  TableInv'
<1>1. /\ UNCHANGED <<done, listening, todo, errors>> /\ Take(r, e) /\ r \in Cores
      /\ TypeInv /\ Calm
  BY TimeFacts, CoreFacts DEF RecvAccept, RecvError, FqInv, TableInv
<1>2. /\ SameStreams /\ Ids' = Ids
      /\ \A i \in Ids : streams'[i].snd = streams[i].snd
  BY <1>1, ReceiveStreams
<1>3. Calm'
  <2>1. \A i \in Ids : streams'[i].snd # "broken" BY <1>1, <1>2 DEF Calm, CalmStream
  <2> QED BY <1>1, <1>2, <2>1, TakeTable, CalmKept DEF FqInv
<1> QED BY <1>1, <1>2, <1>3, TakeTable, TableKept DEF own

-----------------------------------------------------------------------------
(* A table whose first j - 1 entries are the streams of these flows, and   *)
(* whose entry j is free or the stream of flow j, takes that stream at j.  *)
LEMMA RecordPlace ==
    ASSUME PromptAssumption, TypeInv, OneStream, NEW s \in Senders, NEW j \in Flows,
           NEW t \in [Flows -> Nat], Filled(t), EntryIs(t, s),
           \A k \in Flows : t[k] # 0 => t[k] \in Ids,
           \A k \in Flows : k < j => t[k] # 0,
           NEW i \in Ids, streams[i].port = Port(s, j)
    PROVE  /\ EntryIs(Record(t, i), s)
           /\ \A k \in Flows : t[k] # 0 => Record(t, i)[k] # 0
<1>1. Flows \subseteq Nat /\ i \in Nat \ {0} BY TimeFacts, IdFacts
<1>2. t[j] \in {0, i}
  <2> SUFFICES ASSUME t[j] # 0 PROVE t[j] = i OBVIOUS
  <2>1. t[j] \in Ids /\ streams[t[j]].port = Port(s, j) BY DEF EntryIs
  <2> QED BY <2>1 DEF OneStream
<1>3. ASSUME NEW k \in Flows, k < j PROVE t[k] \notin {0, i}
  <2>1. t[k] # 0 /\ streams[t[k]].port = Port(s, k) BY <1>3 DEF EntryIs
  <2>2. k # j BY <1>1, <1>3
  <2>3. Port(s, k) # Port(s, j) BY <2>2, TimeFacts, PortFacts
  <2> QED BY <2>1, <2>3
<1>4. /\ Record(t, i)[j] = i
      /\ \A k \in Flows : k # j => Record(t, i)[k] = t[k]
  BY <1>1, <1>2, <1>3, TimeFacts, RecordFacts
<1>5. EntryIs(Record(t, i), s) BY <1>4 DEF EntryIs
<1>6. \A k \in Flows : t[k] # 0 => Record(t, i)[k] # 0 BY <1>1, <1>4
<1> QED BY <1>5, <1>6

(* When a flow has begun, both ends know the streams of those before it. *)
LEMMA KnownBefore ==
    ASSUME PromptAssumption, TypeInv, NEW s \in Senders, Timed(s),
           NEW j \in begun[s], NEW k \in Flows, k < j
    PROVE  Known(s, k)
<1>1. j \in Flows /\ StartTs[j] \in Nat /\ StartTs[k] \in Nat /\ elapsed[s] \in Nat
  BY TimeFacts DEF TypeInv
<1>2. StartTs[k] < StartTs[j] BY <1>1 DEF PromptAssumption
<1>3. StartTs[j] <= elapsed[s] BY DEF Timed
<1>4. StartTs[k] < elapsed[s] BY <1>1, <1>2, <1>3
<1> QED BY <1>4 DEF Timed

LEMMA WriteTable ==
    ASSUME PromptAssumption, FqInv, FqInv', TableInv, NEW s \in Senders,
           NEW e \in batch[s], SendWrite(s, e)
    PROVE  TableInv'
<1>1. /\ UNCHANGED <<done, listening, todo, streams, errors, elapsed, begun, ended, slot>>
      /\ Take(s, e) /\ s \in Cores /\ TypeInv /\ TypeInv' /\ Calm /\ OneStream /\ Timed(s)
      /\ evid' = [evid EXCEPT ![s] = Record(evid[s], e.id)]
  BY TimeFacts, CoreFacts DEF SendWrite, FqInv, TableInv
<1>2. SameStreams /\ Ids' = Ids BY <1>1, NoneChanges DEF Ids
<1>3. Calm'
  <2>1. \A i \in Ids : streams'[i].snd # "broken" BY <1>1 DEF Calm, CalmStream
  <2> QED BY <1>1, <1>2, <2>1, TakeTable, CalmKept
<1>4. e.id \in Ids /\ streams[e.id].core = s BY DEF FqInv, Owned, BatchOwned
<1>5. PICK j \in begun[s] : j \in Flows /\ streams[e.id].port = Port(s, j)
  BY <1>1, <1>4, FlowOfStream
<1>6. /\ evid[s] \in [Flows -> Nat] /\ Filled(evid[s]) /\ EntryIs(evid[s], s)
      /\ \A k \in Flows : evid[s][k] # 0 => evid[s][k] \in Ids
  BY <1>1 DEF TypeInv, FqInv, Owned, EvidOwned, OwnedBy, TableInv, Entries
<1>7. \A k \in Flows : k < j => evid[s][k] # 0 BY <1>1, KnownBefore DEF Known
<1>8. /\ EntryIs(Record(evid[s], e.id), s)
      /\ \A k \in Flows : evid[s][k] # 0 => Record(evid[s], e.id)[k] # 0
  BY <1>1, <1>4, <1>5, <1>6, <1>7, RecordPlace
<1>9. \A u \in Senders : evid'[u] = IF u = s THEN Record(evid[s], e.id) ELSE evid[u]
  BY <1>1 DEF TypeInv
<1>10. Entries'
  <2>1. \A u \in Senders : EntryIs(evid'[u], u)
    BY <1>8, <1>9 DEF TableInv, Entries
  <2>2. \A r \in Receivers : EntryIs(slot[r], r) BY DEF TableInv, Entries
  <2> QED BY <1>1, <2>1, <2>2 DEF Entries, EntryIs
<1>11. ASSUME NEW u \in Senders PROVE Timed(u)'
  <2>1. pc'[u] = "break" => pc[u] = "break" BY <1>1, TakeTable
  <2>2. \A k \in Flows : Known(u, k) => Known(u, k)'
    BY <1>1, <1>8, <1>9 DEF Known
  <2> QED BY <1>1, <2>1, <2>2, TimedKept DEF TableInv
<1>12. OneStream'
  <2>1. \A u \in Senders : elapsed[u] <= elapsed'[u] BY <1>1 DEF TypeInv
  <2> QED BY <1>1, <1>2, <2>1, OneStreamKept
<1> QED BY <1>3, <1>10, <1>11, <1>12 DEF TableInv

LEMMA ReadTable ==
    ASSUME PromptAssumption, FqInv, FqInv', TableInv, NEW r \in Receivers,
           NEW e \in batch[r], RecvRead(r, e)
    PROVE  TableInv'
<1>1. /\ UNCHANGED <<done, listening, todo, streams, errors, elapsed, begun, ended, evid>>
      /\ Take(r, e) /\ r \in Cores /\ TypeInv /\ TypeInv' /\ Calm /\ OneStream
      /\ slot' = [slot EXCEPT ![r] = Record(slot[r], e.id)]
  BY TimeFacts, CoreFacts DEF RecvRead, Transfer, FqInv, TableInv
<1> DEFINE s == Pair(r)
<1>2. /\ s \in Senders /\ r = NPairs + s /\ \A j \in Flows : Port(r, j) = Port(s, j)
      /\ \A u \in Senders : NPairs + u = r => u = s
  <2>1. s \in Senders /\ r = NPairs + s BY TimeFacts, PairFacts
  <2>2. \A u \in Senders : u \in Nat /\ NPairs \in Nat
    BY TimeFacts, CoreFacts, PairFacts
  <2>3. \A u \in Senders : NPairs + u = r => u = s BY <2>1, <2>2
  <2> QED BY <2>1, <2>3, TimeFacts, PortFacts
<1>3. SameStreams /\ Ids' = Ids BY <1>1, NoneChanges DEF Ids
<1>4. Calm'
  <2>1. \A i \in Ids : streams'[i].snd # "broken" BY <1>1 DEF Calm, CalmStream
  <2> QED BY <1>1, <1>3, <2>1, TakeTable, CalmKept
<1>5. e.id \in Ids /\ \E j \in Flows : streams[e.id].port = Port(s, j)
  <2>1. e.id \in SentTo(r) BY DEF FqInv, Owned, RecvOwned
  <2> QED BY <1>2, <2>1 DEF SentTo, ListenPorts
<1>6. PICK j \in begun[s] : j \in Flows /\ streams[e.id].port = Port(s, j)
  <2> HIDE DEF s
  <2> QED BY <1>1, <1>2, <1>5, FlowOfStream
<1>7. /\ slot[r] \in [Flows -> Nat] /\ Filled(slot[r]) /\ EntryIs(slot[r], s)
      /\ \A k \in Flows : slot[r][k] # 0 => slot[r][k] \in Ids
  <2>1. EntryIs(slot[r], s) BY <1>2 DEF TableInv, Entries, EntryIs
  <2> QED BY <1>1, <2>1 DEF TypeInv, FqInv, Owned, SlotOwned, SentTo
<1>8. \A k \in Flows : k < j => slot[r][k] # 0
  <2>1. Timed(s) BY <1>2 DEF TableInv
  <2> HIDE DEF s
  <2> QED BY <1>1, <1>2, <2>1, KnownBefore DEF Known
<1>9. /\ EntryIs(Record(slot[r], e.id), s)
      /\ \A k \in Flows : slot[r][k] # 0 => Record(slot[r], e.id)[k] # 0
  <2> HIDE DEF s
  <2> QED BY <1>1, <1>2, <1>5, <1>6, <1>7, <1>8, RecordPlace
<1> HIDE DEF s
<1>10. \A q \in Receivers : slot'[q] = IF q = r THEN Record(slot[r], e.id) ELSE slot[q]
  BY <1>1 DEF TypeInv
<1>11. Entries'
  <2>1. \A q \in Receivers : EntryIs(slot'[q], q)
    <3>1. EntryIs(Record(slot[r], e.id), r) BY <1>2, <1>9 DEF EntryIs
    <3> QED BY <1>10, <3>1 DEF TableInv, Entries
  <2>2. \A u \in Senders : EntryIs(evid[u], u) BY DEF TableInv, Entries
  <2> QED BY <1>1, <2>1, <2>2 DEF Entries, EntryIs
<1>12. ASSUME NEW u \in Senders PROVE Timed(u)'
  <2>1. pc'[u] = "break" => pc[u] = "break" BY <1>1, TakeTable
  <2>2. NPairs + u \in Receivers BY TimeFacts, PairFacts
  <2>3. \A k \in Flows : Known(u, k) => Known(u, k)'
    BY <1>1, <1>9, <1>10, <2>2 DEF Known
  <2> QED BY <1>1, <2>1, <2>3, TimedKept DEF TableInv
<1>13. OneStream'
  <2>1. \A u \in Senders : elapsed[u] <= elapsed'[u] BY <1>1 DEF TypeInv
  <2> QED BY <1>1, <1>3, <2>1, OneStreamKept
<1> QED BY <1>4, <1>11, <1>12, <1>13 DEF TableInv

-----------------------------------------------------------------------------
(* When the clock moves, every flow whose time has come has begun, and its *)
(* stream is closed or settled: both ends know it.                         *)
LEMMA TickKnown ==
    ASSUME PromptAssumption, FqInv, TableInv, NEW s \in Senders, Settled(s),
           NEW j \in Flows, StartTs[j] <= elapsed[s]
    PROVE  Known(s, j)
<1>1. TypeInv /\ OneStream /\ Timed(s) /\ StartTs[j] \in Nat /\ elapsed[s] \in Nat
  BY TimeFacts DEF FqInv, TableInv, TypeInv
<1>2. j \in begun[s] BY <1>1 DEF Settled, ToStart
<1>3. HasStream(s, j)
  <2>1. todo[s] = <<>> BY DEF Settled
  <2>2. ~Awaits(s, j) BY <2>1 DEF Awaits
  <2> QED BY <1>1, <1>2, <2>2 DEF OneStream
<1>4. PICK i \in Ids : streams[i].port = Port(s, j) BY <1>3 DEF HasStream
<1>5. PICK k \in begun[s] :
         /\ k \in Flows /\ streams[i].core = s /\ streams[i].port = Port(s, k)
         /\ streams[i].snd = "closed" => StartTs[k] < elapsed[s]
  BY <1>1, <1>4, FlowOfStream
<1>6. k = j
  <2>1. Port(s, k) = Port(s, j) BY <1>4, <1>5
  <2> QED BY <1>5, <2>1, OwnPort
<1>7. CASE streams[i].snd = "closed" BY <1>1, <1>5, <1>6, <1>7 DEF Timed
<1>8. CASE streams[i].snd # "closed"
  <2>1. streams[i] \in Stream /\ streams[i].snd # "broken" /\ i # 0
    BY <1>1, IdFacts DEF TableInv, Calm, CalmStream
  <2>2. i \in Open(s) BY <1>5, <1>8, <2>1 DEF Open, Stream
  <2>3. /\ \E m \in Flows : evid[s][m] = i
        /\ \E r \in Receivers : \E m \in Flows : slot[r][m] = i
    BY <2>2 DEF Settled, Recorded
  <2>4. evid[s][j] = i
    <3>1. PICK m \in Flows : evid[s][m] = i BY <2>3
    <3>2. streams[i].port = Port(s, m) BY <2>1, <3>1 DEF TableInv, Entries, EntryIs
    <3>3. Port(s, m) = Port(s, j) BY <1>4, <3>2
    <3>4. m = j BY <3>3, OwnPort
    <3> QED BY <3>1, <3>4
  <2>5. slot[NPairs + s][j] = i
    <3>1. PICK r \in Receivers : \E m \in Flows : slot[r][m] = i BY <2>3
    <3>2. PICK m \in Flows : slot[r][m] = i BY <3>1
    <3>3. streams[i].port = Port(r, m) BY <2>1, <3>2 DEF TableInv, Entries, EntryIs
    <3>4. Pair(r) \in Senders /\ r = NPairs + Pair(r) /\ Port(r, m) = Port(Pair(r), m)
      BY TimeFacts, PairFacts, PortFacts
    <3>5. Port(Pair(r), m) = Port(s, j) BY <1>4, <3>3, <3>4
    <3>6. Pair(r) = s /\ m = j BY <3>4, <3>5, OwnPort
    <3> QED BY <3>2, <3>4, <3>6
  <2> QED BY <1>2, <2>1, <2>4, <2>5 DEF Known
<1> QED BY <1>7, <1>8

LEMMA TickTable ==
    ASSUME PromptAssumption, FqInv, FqInv', TableInv, NEW s \in Senders, Tick(s)
    PROVE  TableInv'
<1>1. /\ UNCHANGED <<pc, done, listening, todo, streams, batch, errors, begun, ended, evid, slot>>
      /\ Settled(s) /\ TypeInv /\ TypeInv' /\ Calm /\ OneStream
      /\ elapsed' = [elapsed EXCEPT ![s] = elapsed[s] + 1]
  BY DEF Tick, PromptAssumption, FqInv, TableInv
<1>2. SameStreams /\ Ids' = Ids BY <1>1, NoneChanges DEF Ids
<1>3. \A i \in Ids : streams[i].snd # "broken" BY <1>1 DEF Calm, CalmStream
<1>4. Calm' BY <1>1, <1>2, <1>3, CalmKept
<1>5. Entries' BY <1>1, <1>2, EntriesKept DEF TableInv
<1>6. \A u \in Senders : /\ elapsed[u] \in Nat /\ elapsed'[u] \in Nat
                         /\ elapsed'[u] = IF u = s THEN elapsed[s] + 1 ELSE elapsed[u]
  BY <1>1 DEF TypeInv
<1>7. OneStream'
  <2>1. \A u \in Senders : elapsed[u] <= elapsed'[u] BY <1>6
  <2> QED BY <1>1, <1>2, <2>1, OneStreamKept
<1>8. ASSUME NEW u \in Senders PROVE Timed(u)'
  <2>1. Timed(u) BY DEF TableInv
  <2>2. \A j \in Flows : Known(u, j)' <=> Known(u, j) BY <1>1 DEF Known
  <2>3. begun[u] \subseteq Flows /\ ended[u] \subseteq Flows BY <1>1 DEF TypeInv
  <2>4. \A j \in Flows : StartTs[j] \in Nat /\ EndTs[j] \in Nat BY TimeFacts
  <2>5. \A j \in begun'[u] : StartTs[j] <= elapsed'[u]
    BY <1>1, <1>6, <2>1, <2>3, <2>4 DEF Timed
  <2>6. \A j \in ended'[u] : EndTs[j] <= elapsed'[u]
    BY <1>1, <1>6, <2>1, <2>3, <2>4 DEF Timed
  <2>7. pc'[u] = "break" => ended'[u] = Flows BY <1>1, <2>1 DEF Timed
  <2>8. ASSUME NEW j \in Flows, StartTs[j] < elapsed'[u] PROVE Known(u, j)
    <3>1. CASE u = s
      <4>1. StartTs[j] <= elapsed[s] BY <1>6, <2>4, <2>8, <3>1
      <4> QED BY <1>1, <3>1, <4>1, TickKnown
    <3>2. CASE u # s BY <1>6, <2>1, <2>8, <3>2 DEF Timed
    <3> QED BY <3>1, <3>2
  <2> QED BY <2>2, <2>5, <2>6, <2>7, <2>8 DEF Timed
<1> QED BY <1>4, <1>5, <1>7, <1>8 DEF TableInv

-----------------------------------------------------------------------------
(* A sender leaves after the end of its last flow: all are known. *)
LEMMA OutTable ==
    ASSUME PromptAssumption, FqInv, FqInv', TableInv, NEW s \in Senders, SendOut(s)
    PROVE  TableInv'
<1>1. /\ UNCHANGED <<done, listening, todo, batch, errors, elapsed, begun, ended, evid, slot>>
      /\ TypeInv /\ TypeInv' /\ Calm /\ OneStream /\ Leave(s) /\ s \in Cores
  BY TimeFacts, CoreFacts DEF SendOut, FqInv, TableInv, own
<1>2. /\ SameStreams /\ Ids' = Ids
      /\ \A k \in Ids : streams'[k].snd = IF k \in OwnedBy(s) THEN "closed"
                                          ELSE streams[k].snd
  BY <1>1, LeaveStreams
<1>3. \A d \in Cores : pc'[d] = IF d = s THEN "out" ELSE pc[d]
  BY <1>1 DEF Leave, Goto, TypeInv
<1>4. Senders \subseteq Cores /\ Receivers \subseteq Cores /\ s \notin Receivers
  BY TimeFacts, CoreFacts
<1>5. Calm'
  <2>1. \A i \in Ids : streams'[i].snd # "broken" BY <1>1, <1>2 DEF Calm, CalmStream
  <2> QED BY <1>1, <1>2, <1>3, <1>4, <2>1, CalmKept
<1>6. Entries' BY <1>1, <1>2, EntriesKept DEF TableInv
<1>7. ASSUME NEW u \in Senders PROVE Timed(u)'
  <2>1. pc'[u] = "break" => pc[u] = "break" BY <1>3, <1>4
  <2>2. \A k \in Flows : Known(u, k) => Known(u, k)' BY <1>1 DEF Known
  <2> QED BY <1>1, <2>1, <2>2, TimedKept DEF TableInv
<1>8. \A j \in Flows : StartTs[j] < elapsed[s]
  <2>0. ~done[s] BY <1>1 DEF Calm
  <2>1. pc[s] = "break" BY <2>0 DEF SendOut, At
  <2>2. \A j \in Flows : EndTs[j] <= elapsed[s] BY <2>1 DEF TableInv, Timed
  <2>3. elapsed[s] \in Nat BY <1>1 DEF TypeInv
  <2> QED BY <2>2, <2>3, TimeFacts
<1>9. \A i \in OwnedBy(s) : Over(i)
  <2> SUFFICES ASSUME NEW i \in Ids, streams[i].core = s PROVE Over(i)
    BY DEF OwnedBy
  <2>1. PICK j \in begun[s] : j \in Flows /\ streams[i].port = Port(s, j)
    BY <1>1, FlowOfStream
  <2> QED BY <1>8, <2>1 DEF Over
<1>10. OneStream'
  <2>1. \A u \in Senders : elapsed[u] <= elapsed'[u] BY <1>1 DEF TypeInv
  <2> QED BY <1>1, <1>2, <1>9, <2>1, OneStreamKept
<1> QED BY <1>5, <1>6, <1>7, <1>10 DEF TableInv

-----------------------------------------------------------------------------
(* There is room for one stream per flow of every pair, so a connection is *)
(* not refused.                                                            *)
LEMMA RoomFacts ==
    ASSUME PromptAssumption, TypeInv, OneStream, NEW s \in Senders, NEW j \in Flows,
           ~HasStream(s, j)
    PROVE  Len(streams) < MaxStreams
<1> DEFINE m == NPairs * NFlows - 1
           T == (0..m) \ {Port(s, j) - NORMAL}
           f == [i \in Ids |-> streams[i].port - NORMAL]
<1>1. NPairs * NFlows \in Nat /\ MaxStreams \in Nat /\ NPairs * NFlows <= MaxStreams
  BY DEF PromptAssumption, ThreadsAssumption, FqAssumption
<1>2. Port(s, j) - NORMAL \in 0..m BY TimeFacts, PortFacts
<1>3. m \in Int /\ IsFiniteSet(0..m) /\ Cardinality(0..m) = m + 1
  <2>1. m \in Int /\ 0 \in Int /\ m >= 0 BY <1>1, <1>2
  <2> HIDE DEF m
  <2>2. IsFiniteSet(0..m) /\ Cardinality(0..m) = IF 0 > m THEN 0 ELSE m - 0 + 1
    BY <2>1, FS_Interval
  <2> QED BY <2>1, <2>2
<1>4. IsFiniteSet(T) /\ Cardinality(T) = m
  <2> HIDE DEF m
  <2>1. /\ IsFiniteSet((0..m) \ {Port(s, j) - NORMAL})
        /\ Cardinality((0..m) \ {Port(s, j) - NORMAL}) = Cardinality(0..m) - 1
    BY <1>2, <1>3, FS_RemoveElement
  <2> QED BY <1>3, <2>1
<1>5. Ids = 1..Len(streams) /\ Len(streams) \in Nat BY IdFacts
<1>6. IsFiniteSet(Ids) /\ Cardinality(Ids) = Len(streams)
  <2> DEFINE n == Len(streams)
  <2>1. n \in Int /\ 1 \in Int /\ n >= 0 BY <1>5
  <2> HIDE DEF n
  <2>2. IsFiniteSet(1..n) /\ Cardinality(1..n) = IF 1 > n THEN 0 ELSE n - 1 + 1
    BY <2>1, FS_Interval
  <2>3. Cardinality(1..n) = n BY <2>1, <2>2
  <2> QED BY <1>5, <2>2, <2>3 DEF n
<1>7. ASSUME NEW i \in Ids PROVE f[i] \in T /\ streams[i].port \in Int
  <2>1. streams[i].core \in Senders BY IdFacts DEF Stream
  <2>2. PICK k \in begun[streams[i].core] :
           k \in Flows /\ streams[i].port = Port(streams[i].core, k)
    BY <2>1, FlowOfStream
  <2>3. /\ streams[i].port \in Int /\ streams[i].port - NORMAL \in 0..m
        /\ Port(s, j) \in Int
    BY <2>1, <2>2, TimeFacts, PortFacts
  <2>4. streams[i].port # Port(s, j) BY DEF HasStream
  <2>5. streams[i].port - NORMAL # Port(s, j) - NORMAL BY <2>3, <2>4 DEF NORMAL
  <2> QED BY <2>3, <2>5
<1>8. f \in [Ids -> T] BY <1>7
<1>9. \A x, y \in Ids : x # y => f[x] # f[y]
  <2> SUFFICES ASSUME NEW x \in Ids, NEW y \in Ids, f[x] = f[y] PROVE x = y
    OBVIOUS
  <2>1. streams[x].port \in Int /\ streams[y].port \in Int BY <1>7
  <2>2. streams[x].port = streams[y].port BY <2>1 DEF NORMAL
  <2> QED BY <2>2 DEF OneStream
<1>10. ~(Cardinality(T) < Cardinality(Ids))
  <2> HIDE DEF T, f
  <2> QED BY <1>4, <1>6, <1>8, <1>9, FS_PigeonHole
<1> QED BY <1>1, <1>4, <1>5, <1>6, <1>10

LEMMA ConnectTable ==
    ASSUME PromptAssumption, FqInv, FqInv', ShakeInv, TableInv, NEW s \in Senders,
           CreateConnection(s), UNCHANGED own
    PROVE  TableInv'
<1>1. /\ UNCHANGED <<pc, done, listening, batch, errors>> /\ todo[s] # <<>>
      /\ todo' = [todo EXCEPT ![s] = Tail(todo[s])]
      /\ TypeInv /\ TypeInv' /\ Calm /\ OneStream
  BY DEF CreateConnection, FqInv, TableInv
<1>2. PICK j \in begun[s] : Awaits(s, j) /\ ~HasStream(s, j) BY <1>1 DEF OneStream
<1>3. j \in Flows BY <1>1 DEF TypeInv
<1> DEFINE p == Port(s, j)
           x == [core |-> s, port |-> p, snd |-> "syn", rcv |-> "none"]
<1>0. PICK n : n = Len(streams) + 1 OBVIOUS
<1>4. todo[s] = <<p>> /\ Head(todo[s]) = p /\ todo'[s] = <<>>
  <2>1. todo[s] = <<p>> BY <1>2 DEF Awaits
  <2> QED BY <1>1, <2>1 DEF TypeInv
<1>5. \A u \in Senders : u # s => todo'[u] = todo[u] BY <1>1 DEF TypeInv
<1>6. Len(streams) < MaxStreams BY <1>1, <1>2, <1>3, RoomFacts
<1>7. streams' = Append(streams, x)
  <2>1. Len(streams) \in Nat /\ MaxStreams \in Nat
    BY <1>1, IdFacts DEF PromptAssumption, ThreadsAssumption
  <2> QED BY <1>4, <1>6, <2>1 DEF CreateConnection, PromptAssumption
<1>8. x.core = s /\ x.port = p /\ x.snd = "syn" OBVIOUS
<1>9. /\ SameStreams /\ \A k \in Ids : streams'[k] = streams[k]
      /\ Ids' = Ids \cup {n} /\ streams'[n] = x /\ n \notin Ids
  <2>1. /\ SameStreams /\ \A k \in Ids : streams'[k] = streams[k]
        /\ streams' = streams \/ /\ Ids' = Ids \cup {n}
                                 /\ streams'[n] = [core |-> s, port |-> Head(todo[s]),
                                                   snd |-> "syn", rcv |-> "none"]
    BY <1>1, <1>0, ConnectStreams
  <2>2. Ids = 1..Len(streams) /\ Len(streams) \in Nat BY <1>1, IdFacts
  <2>3. n \notin Ids BY <1>0, <2>2
  <2>4. streams' # streams
    <3> HIDE DEF x
    <3>1. x \in Stream BY <1>3, TimeFacts, PortFacts DEF x, Stream
    <3>2. Len(streams') = Len(streams) + 1
      BY <1>1, <1>7, <3>1, AppendProperties DEF TypeInv
    <3> QED BY <2>2, <3>2
  <2> QED BY <1>4, <2>1, <2>3, <2>4
<1> HIDE DEF x, p
<1>10. streams'[n].core = s /\ streams'[n].port = p /\ streams'[n].snd = "syn"
  BY <1>8, <1>9
<1>11. Calm'
  <2>1. p \in listening[NPairs + s] BY <1>1, <1>4, TimeFacts, ConnectReady
  <2>2. CalmStream(n)' BY <1>1, <1>10, <2>1 DEF CalmStream
  <2>3. \A i \in Ids' : /\ streams'[i].snd # "broken"
                        /\ i \notin Ids => CalmStream(i)'
    BY <1>1, <1>9, <1>10, <2>2 DEF Calm, CalmStream
  <2> QED BY <1>1, <1>9, <2>3, CalmKept
<1>12. UNCHANGED own OBVIOUS
<1>13. Entries' BY <1>9, <1>12, EntriesKept DEF TableInv, own
<1>14. ASSUME NEW u \in Senders PROVE Timed(u)'
  BY <1>1, <1>12, TimedKept DEF TableInv, Known, own
<1>15. OneStream'
  <2>1. \A i \in Ids : streams[i].port # p BY <1>2 DEF HasStream, p
  <2>2. \A i, k \in Ids' : streams'[i].port = streams'[k].port => i = k
    BY <1>1, <1>9, <1>10, <2>1 DEF OneStream
  <2>3. ASSUME NEW i \in Ids' PROVE StreamOfFlow(i)'
    <3>1. CASE i \in Ids
      BY <1>1, <1>9, <1>12, <3>1 DEF OneStream, StreamOfFlow, own
    <3>2. CASE i = n
      <4>1. streams'[i].snd # "closed" BY <1>10, <3>2
      <4>2. j \in begun'[s] BY <1>12 DEF own
      <4> QED BY <1>10, <3>2, <4>1, <4>2 DEF StreamOfFlow, p
    <3> QED BY <1>9, <3>1, <3>2
  <2>4. ASSUME NEW u \in Senders, NEW k \in begun'[u]
        PROVE  HasStream(u, k)' \/ Awaits(u, k)'
    <3>1. k \in begun[u] /\ k \in Flows BY <1>1, <1>12 DEF own, TypeInv
    <3>2. CASE HasStream(u, k) BY <1>9, <3>2 DEF HasStream
    <3>3. CASE ~HasStream(u, k)
      <4>1. Awaits(u, k) BY <1>1, <3>1, <3>3 DEF OneStream
      <4>2. CASE u = s
        <5>1. Port(s, k) = p BY <1>4, <4>1, <4>2 DEF Awaits
        <5> QED BY <1>9, <1>10, <4>2, <5>1 DEF HasStream
      <4>3. CASE u # s BY <1>5, <4>1, <4>3 DEF Awaits
      <4> QED BY <4>2, <4>3
    <3> QED BY <3>2, <3>3
  <2>5. ASSUME NEW u \in Senders
        PROVE  todo'[u] = <<>> \/ \E k \in begun'[u] : Awaits(u, k)' /\ ~HasStream(u, k)'
    <3>1. CASE u = s BY <1>4, <3>1
    <3>2. CASE u # s
      <4> SUFFICES ASSUME todo[u] # <<>>
                   PROVE  \E k \in begun'[u] : Awaits(u, k)' /\ ~HasStream(u, k)'
        BY <1>5, <3>2
      <4>1. PICK k \in begun[u] : Awaits(u, k) /\ ~HasStream(u, k) BY <1>1 DEF OneStream
      <4>2. k \in Flows /\ begun'[u] = begun[u] BY <1>1, <1>12 DEF TypeInv, own
      <4>3. Port(u, k) # p BY <1>3, <3>2, <4>2, OwnPort DEF p
      <4>4. ~HasStream(u, k)' BY <1>9, <1>10, <4>1, <4>3 DEF HasStream
      <4>5. Awaits(u, k)' BY <1>5, <3>2, <4>1 DEF Awaits
      <4> QED BY <4>1, <4>2, <4>4, <4>5
    <3> QED BY <3>1, <3>2
  <2> QED BY <2>2, <2>3, <2>4, <2>5 DEF OneStream
<1> QED BY <1>11, <1>13, <1>14, <1>15 DEF TableInv

-----------------------------------------------------------------------------
(* At most one flow is due to start: the clock does not move on from the   *)
(* start of one before that flow has begun.                                *)
LEMMA OneDue ==
    ASSUME PromptAssumption, TypeInv, NEW s \in Senders, Timed(s)
    PROVE  ToStart(s) = {} \/ \E j \in Flows : ToStart(s) = {j} /\ StartTs[j] = elapsed[s]
<1>1. elapsed[s] \in Nat /\ \A j \in Flows : StartTs[j] \in Nat
  BY TimeFacts DEF TypeInv
<1>2. \A j \in ToStart(s) : j \in Flows /\ StartTs[j] = elapsed[s]
  BY <1>1 DEF ToStart, Timed, Known
<1>3. ASSUME NEW j \in ToStart(s), NEW k \in ToStart(s) PROVE j = k
  <2>1. j \in Nat /\ k \in Nat /\ j \in Flows /\ k \in Flows /\ StartTs[j] = StartTs[k]
    BY <1>2, TimeFacts
  <2>2. ~(j < k) /\ ~(k < j) BY <1>1, <2>1 DEF PromptAssumption
  <2> QED BY <2>1, <2>2
<1>4. CASE ToStart(s) # {}
  <2>1. PICK j : j \in ToStart(s) BY <1>4
  <2>2. ToStart(s) = {j} BY <1>3, <2>1
  <2> QED BY <1>2, <2>1, <2>2
<1> QED BY <1>4

LEMMA OnePort ==
    ASSUME FqAssumption, NEW s, NEW j \in Flows
    PROVE  SeqOfPorts(s, {j}) = <<Port(s, j)>> /\ SeqOfPorts(s, {}) = <<>>
<1> DEFINE S == {Port(s, j)}
<1>1. SeqOfPorts(s, {j}) \in Seq(S) /\ Len(SeqOfPorts(s, {j})) = 1
  <2>1. {j} \in SUBSET Flows /\ {Port(s, k) : k \in {j}} = S OBVIOUS
  <2>2. Cardinality({j}) = 1 BY FS_Singleton
  <2> QED BY <2>1, <2>2, SeqFacts
<1>2. SeqOfPorts(s, {j})[1] = Port(s, j) BY <1>1, ElementOfSeq
<1>3. <<Port(s, j)>> \in Seq(S) /\ Len(<<Port(s, j)>>) = 1
  OBVIOUS
<1>4. SeqOfPorts(s, {j}) = <<Port(s, j)>>
  <2> DEFINE q == SeqOfPorts(s, {j})
             t == <<Port(s, j)>>
  <2>1. Len(q) = 1 /\ Len(t) = 1 /\ q[1] = t[1] BY <1>1, <1>2
  <2>2. q \in Seq(S) /\ t \in Seq(S) BY <1>1
  <2> HIDE DEF q, t
  <2>3. \A i \in 1..Len(q) : q[i] = t[i] BY <2>1
  <2>4. q = t BY <2>1, <2>2, <2>3, SeqEqual
  <2> QED BY <2>4 DEF q, t
<1>5. SeqOfPorts(s, {}) = <<>>
  <2>1. SeqOfPorts(s, {}) \in Seq({Port(s, k) : k \in {}})
        /\ Len(SeqOfPorts(s, {})) = Cardinality({})
    BY SeqFacts
  <2>2. Len(SeqOfPorts(s, {})) = 0 BY <2>1, FS_EmptySet
  <2> QED BY <2>1, <2>2, EmptySeq
<1> QED BY <1>4, <1>5

(* The flows whose end has come are known, and their streams are not those *)
(* of other flows.                                                         *)
LEMMA EndFacts ==
    ASSUME PromptAssumption, FqInv, TableInv, NEW s \in Senders, NEW j \in ToEnd(s)
    PROVE  /\ j \in Flows /\ j \in begun[s] /\ StartTs[j] < elapsed[s] /\ evid[s][j] # 0
           /\ evid[s][j] \in Ids /\ streams[evid[s][j]].core = s
           /\ streams[evid[s][j]].port = Port(s, j)
<1>1. j \in begun[s] /\ EndTs[j] <= elapsed[s] /\ j \in Flows /\ elapsed[s] \in Nat
  BY DEF ToEnd, FqInv, TypeInv
<1>2. StartTs[j] < elapsed[s] BY <1>1, TimeFacts
<1>3. evid[s][j] # 0 BY <1>1, <1>2 DEF TableInv, Timed, Known
<1>4. evid[s][j] \in Ids /\ streams[evid[s][j]].core = s
  BY <1>1, <1>3 DEF FqInv, Owned, EvidOwned, OwnedBy
<1>5. streams[evid[s][j]].port = Port(s, j)
  BY <1>1, <1>3 DEF TableInv, Entries, EntryIs
<1> QED BY <1>1, <1>2, <1>3, <1>4, <1>5

LEMMA ScheduleTable ==
    ASSUME PromptAssumption, FqInv, FqInv', TableInv, NEW s \in Senders, Schedule(s)
    PROVE  TableInv'
<1>1. /\ UNCHANGED <<done, listening, batch, errors, elapsed, evid, slot>>
      /\ todo' = [todo EXCEPT ![s] = SeqOfPorts(s, ToStart(s))] /\ todo[s] = <<>>
      /\ begun' = [begun EXCEPT ![s] = begun[s] \cup ToStart(s)]
      /\ ended' = [ended EXCEPT ![s] = ended[s] \cup ToEnd(s)]
      /\ TypeInv /\ TypeInv' /\ Calm /\ OneStream /\ s \in Cores
  BY TimeFacts, CoreFacts DEF Schedule, At, FqInv, TableInv
<1>2. /\ SameStreams /\ Ids' = Ids
      /\ \A i \in Ids : streams'[i].snd = IF i \in Due(s) THEN "closed" ELSE streams[i].snd
  BY <1>1, ScheduleStreams
<1>3. PICK step \in {"break", "epoll"} :
         Goto(s, step) /\ (step = "break" => ended'[s] = Flows)
  BY DEF Schedule
<1>4. \A d \in Cores : pc'[d] = IF d = s THEN step ELSE pc[d]
  BY <1>1, <1>3 DEF Goto, TypeInv
<1>5. Senders \subseteq Cores /\ Receivers \subseteq Cores /\ s \notin Receivers
  BY TimeFacts, CoreFacts
<1>6. \A u \in Senders :
         /\ begun'[u] = IF u = s THEN begun[s] \cup ToStart(s) ELSE begun[u]
         /\ ended'[u] = IF u = s THEN ended[s] \cup ToEnd(s) ELSE ended[u]
         /\ todo'[u] = IF u = s THEN SeqOfPorts(s, ToStart(s)) ELSE todo[u]
  BY <1>1 DEF TypeInv
<1>7. Calm'
  <2>1. \A i \in Ids : streams'[i].snd # "broken" BY <1>1, <1>2 DEF Calm, CalmStream
  <2> QED BY <1>1, <1>2, <1>4, <1>5, <2>1, CalmKept
<1>8. Entries' BY <1>1, <1>2, EntriesKept DEF TableInv
<1>9. ASSUME NEW u \in Senders PROVE Timed(u)'
  <2>1. Timed(u) BY DEF TableInv
  <2>2. \A j \in Flows : Known(u, j) => Known(u, j)' BY <1>1, <1>6 DEF Known
  <2>3. \A j \in begun'[u] : StartTs[j] <= elapsed'[u]
    BY <1>1, <1>6, <2>1 DEF Timed, ToStart
  <2>4. \A j \in ended'[u] : EndTs[j] <= elapsed'[u]
    BY <1>1, <1>6, <2>1 DEF Timed, ToEnd
  <2>5. pc'[u] = "break" => ended'[u] = Flows
    BY <1>3, <1>4, <1>5, <1>6, <2>1 DEF Timed
  <2> QED BY <1>1, <2>1, <2>2, <2>3, <2>4, <2>5 DEF Timed
<1>10. ASSUME NEW i \in Ids PROVE StreamOfFlow(i)'
  <2>1. PICK u \in Senders : \E j \in begun[u] :
           /\ streams[i].core = u /\ streams[i].port = Port(u, j)
           /\ streams[i].snd = "closed" => StartTs[j] < elapsed[u]
    BY <1>1 DEF OneStream, StreamOfFlow
  <2>2. begun[u] \subseteq begun'[u] BY <1>6
  <2>3. CASE i \notin Due(s)
    BY <1>1, <1>2, <2>1, <2>2, <2>3 DEF StreamOfFlow, SameStreams
  <2>4. CASE i \in Due(s)
    <3>1. PICK j \in ToEnd(s) : evid[s][j] = i BY <2>4 DEF Due
    <3>2. /\ j \in begun[s] /\ StartTs[j] < elapsed[s]
          /\ streams[i].core = s /\ streams[i].port = Port(s, j)
      BY <3>1, EndFacts
    <3>3. j \in begun'[s] /\ StartTs[j] < elapsed'[s] BY <1>1, <1>6, <3>2
    <3> QED BY <1>2, <3>2, <3>3 DEF StreamOfFlow, SameStreams
  <2> QED BY <2>3, <2>4
<1>11. \A u, j : HasStream(u, j)' <=> HasStream(u, j) BY <1>2 DEF HasStream, SameStreams
<1>12. \A u \in Senders : u # s => begun'[u] = begun[u] /\ \A j : Awaits(u, j)' <=> Awaits(u, j)
  BY <1>6 DEF Awaits
<1>13. ASSUME NEW j \in begun[s] PROVE HasStream(s, j)
  <2>1. ~Awaits(s, j) BY <1>1 DEF Awaits
  <2> QED BY <1>1, <2>1 DEF OneStream
<1>14. ASSUME NEW j \in Flows, j \notin begun[s] PROVE ~HasStream(s, j)
  <2> SUFFICES ASSUME NEW i \in Ids, streams[i].port = Port(s, j) PROVE FALSE
    BY DEF HasStream
  <2>1. PICK k \in begun[s] : k \in Flows /\ streams[i].port = Port(s, k)
    BY <1>1, FlowOfStream
  <2>2. k \in Flows /\ j \in Flows /\ Port(s, k) = Port(s, j) BY <1>14, <2>1
  <2>3. k = j BY <2>2, OwnPort
  <2> QED BY <1>14, <2>1, <2>3
<1>15. /\ \A j \in begun'[s] : HasStream(s, j) \/ Awaits(s, j)'
       /\ todo'[s] = <<>> \/ \E j \in begun'[s] : Awaits(s, j)' /\ ~HasStream(s, j)
  <2>1. CASE ToStart(s) = {}
    <3>1. \E j : j \in Flows
      <4>1. 0 \in Flows BY TimeFacts DEF FqAssumption, Flows
      <4> QED BY <4>1
    <3>2. todo'[s] = <<>> BY <1>6, <2>1, <3>1, TimeFacts, OnePort
    <3> QED BY <1>6, <1>13, <2>1, <3>2
  <2>2. CASE \E j \in Flows : ToStart(s) = {j}
    <3>1. PICK j \in Flows : ToStart(s) = {j} BY <2>2
    <3>2. j \notin begun[s] BY <3>1 DEF ToStart
    <3>3. todo'[s] = <<Port(s, j)>> BY <1>6, <3>1, TimeFacts, OnePort
    <3>4. Awaits(s, j)' BY <3>3 DEF Awaits
    <3> QED BY <1>6, <1>13, <1>14, <3>1, <3>2, <3>4
  <2> QED BY <1>1, <2>1, <2>2, OneDue DEF TableInv
<1>16. OneStream'
  <2>1. \A i, k \in Ids' : streams'[i].port = streams'[k].port => i = k
    BY <1>1, <1>2 DEF OneStream, SameStreams
  <2>2. \A i \in Ids' : StreamOfFlow(i)' BY <1>2, <1>10
  <2>3. ASSUME NEW u \in Senders
        PROVE  /\ \A j \in begun'[u] : HasStream(u, j)' \/ Awaits(u, j)'
               /\ todo'[u] = <<>> \/ \E j \in begun'[u] : Awaits(u, j)' /\ ~HasStream(u, j)'
    <3>1. CASE u = s BY <1>11, <1>15, <3>1
    <3>2. CASE u # s BY <1>1, <1>6, <1>11, <1>12, <3>2 DEF OneStream
    <3> QED BY <3>1, <3>2
  <2> QED BY <2>1, <2>2, <2>3 DEF OneStream
<1> QED BY <1>7, <1>8, <1>9, <1>16 DEF TableInv

-----------------------------------------------------------------------------
LEMMA TableStart == ASSUME PromptAssumption, Init PROVE TableInv
<1>1. Ids = {} /\ done = [c \in Cores |-> FALSE] /\ errors = 0
  BY DEF Init, ThreadsInit, Ids
<1>2. Senders \subseteq Cores /\ Receivers \subseteq Cores BY TimeFacts, CoreFacts
<1>3. \A c \in Cores : pc[c] = "none" /\ batch[c] = {} BY DEF Init, ThreadsInit
<1>4. Calm BY <1>1, <1>2, <1>3 DEF Calm
<1>5. \A s \in Senders : Timed(s)
  BY <1>2, <1>3, TimeFacts DEF Init, Timed
<1>6. OneStream BY <1>1 DEF OneStream, Init, ThreadsInit
<1>7. Entries BY DEF Init, Entries, EntryIs
<1> QED BY <1>4, <1>5, <1>6, <1>7 DEF TableInv

LEMMA TableNext ==
    ASSUME PromptAssumption, FqInv, FqInv', ShakeInv, TableInv, [Next]_vars
    PROVE  TableInv'
<1>1. CASE MainReturn BY <1>1, QuietTable DEF MainReturn, own
<1>2. CASE UNCHANGED vars BY <1>2, QuietTable DEF vars, own
<1>3. ASSUME NEW s \in Senders, Tick(s) PROVE TableInv' BY <1>3, TickTable
<1>4. CASE Environment
  <2>1. ~Abort /\ ~Sigint /\ \A s \in Senders : ~SpuriousWakeup(s)
    BY DEF PromptAssumption, Abort, Sigint, SpuriousWakeup
  <2> QED BY <1>4, <2>1, StackTable DEF Environment
<1>5. ASSUME NEW s \in Senders, RunSendContext(s) PROVE TableInv'
  <2>0. s \in Cores BY TimeFacts, CoreFacts
  <2>1. CASE Schedule(s) BY <2>1, ScheduleTable
  <2>2. CASE SendOut(s) BY <2>2, OutTable
  <2>3. CASE EpollWait(s) /\ UNCHANGED own BY <2>0, <2>3, WaitTable
  <2>4. ASSUME NEW e \in batch[s], SendWrite(s, e) PROVE TableInv' BY <2>4, WriteTable
  <2>5. \A e \in batch[s] : ~SendError(s, e) BY DEF SendError, TableInv, Calm
  <2>6. ASSUME NEW e \in batch[s], Transfer(s, e), UNCHANGED own PROVE TableInv'
    BY <2>0, <2>6, TransferTable
  <2> QED BY <1>5, <2>1, <2>2, <2>3, <2>4, <2>5, <2>6 DEF RunSendContext
<1>6. ASSUME NEW r \in Receivers, RunReceiver(r) PROVE TableInv'
  <2>0. r \in Cores BY TimeFacts, CoreFacts
  <2>1. CASE RecvLoop(r) /\ UNCHANGED own
    <3>1. ~done[r] BY <2>0 DEF TableInv, Calm
    <3>2. /\ Goto(r, "epoll") /\ "epoll" \in Stages \ {"out", "break"}
          /\ UNCHANGED <<todo, streams, batch, listening, done, errors>>
      BY <2>1, <3>1 DEF RecvLoop, Stages
    <3> QED BY <2>0, <2>1, <3>2, GotoTable
  <2>2. CASE EpollWait(r) /\ UNCHANGED own BY <2>0, <2>2, WaitTable
  <2>3. ASSUME NEW e \in batch[r], RecvRead(r, e) PROVE TableInv' BY <2>3, ReadTable
  <2>4. ASSUME NEW e \in batch[r], RecvAccept(r, e) \/ RecvError(r, e), UNCHANGED own
        PROVE  TableInv'
    BY <2>4, ReceiveTable
  <2> QED BY <1>6, <2>1, <2>2, <2>3, <2>4 DEF RunReceiver
<1>7. ASSUME NEW c \in Cores, RunVnf(c) PROVE TableInv'
  <2>1. CASE SetUp(c) /\ c \in Senders /\ CreateConnection(c)
    BY <2>1, ConnectTable DEF SetUp
  <2>2. CASE SetUp(c) /\ ~(c \in Senders /\ CreateConnection(c)) BY <2>2, SetUpTable
  <2> QED BY <1>5, <1>6, <1>7, <2>1, <2>2 DEF RunVnf
<1> QED BY <1>1, <1>2, <1>3, <1>4, <1>7 DEF Next

(* The time tables of fv_mtcp_fq.c speak of flows, the two ends of streams *)
(* in the order in which they first heard of them.  For any number of      *)
(* pairs and flows and any times of start that differ, in whatever order   *)
(* the threads run: if nothing fails and the streams are set up in less    *)
(* time than lies between two starts, the end of a flow closes the stream  *)
(* of that flow, and the bytes that a receiver prints for a port are those *)
(* of the stream of that port (fv_mtcp_fq.c:260-277, 283-291, 403-424).    *)
THEOREM TimeTableTheorem ==
    ASSUME PromptAssumption
    PROVE  Spec => []SlotsMatchFlows /\ [][EndsItsOwn]_vars
<1>0. ThreadsAssumption /\ FqAssumption /\ ~Spurious BY DEF PromptAssumption
<1>1. Init => ShakeInv /\ TableInv BY <1>0, ShakeStart, TableStart
<1>2. FqInv /\ ShakeInv /\ [Next]_vars => ShakeInv' BY <1>0, ShakeNext DEF FqInv
<1>3. FqInv /\ FqInv' /\ ShakeInv /\ TableInv /\ [Next]_vars => TableInv'
  BY TableNext
<1>4. TableInv => SlotsMatchFlows BY DEF TableInv, Entries, EntryIs, SlotsMatchFlows
<1>5. FqInv /\ TableInv /\ [Next]_vars => [EndsItsOwn]_vars
  <2> SUFFICES ASSUME FqInv, TableInv, [Next]_vars,
                      NEW s \in Senders, NEW j \in ended'[s] \ ended[s]
               PROVE  /\ evid[s][j] # 0
                      /\ streams[evid[s][j]].port = Port(s, j)
                      /\ streams'[evid[s][j]].snd = "closed"
    BY DEF EndsItsOwn
  <2>1. Schedule(s) /\ j \in ToEnd(s)
    <3>1. ended' # ended OBVIOUS
    <3>2. PICK u \in Senders : Schedule(u)
      BY <3>1 DEF Next, RunVnf, RunSendContext, RunReceiver, SetUp, Environment, MainReturn,
                  Tick, own, vars, SendOut, SendWrite, SendError, RecvRead
    <3>3. ended' = [ended EXCEPT ![u] = ended[u] \cup ToEnd(u)] BY <3>2 DEF Schedule
    <3>4. u = s /\ j \in ToEnd(s) BY <3>3 DEF FqInv, TypeInv
    <3> QED BY <3>2, <3>4
  <2>2. /\ evid[s][j] # 0 /\ evid[s][j] \in Ids
        /\ streams[evid[s][j]].port = Port(s, j)
    BY <2>1, EndFacts
  <2>3. evid[s][j] \in Due(s) BY <2>1, <2>2 DEF Due
  <2>4. streams'[evid[s][j]].snd = "closed" BY <2>1, <2>2, <2>3, ScheduleStreams DEF FqInv
  <2> QED BY <2>2, <2>4
<1> QED BY <1>0, <1>1, <1>2, <1>3, <1>4, <1>5, FqInvariant, PTL DEF Spec
=============================================================================
