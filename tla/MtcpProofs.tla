------------------------------ MODULE MtcpProofs ------------------------------
(* The theorems of Mtcp, for any number of pairs, streams and faults.      *)
EXTENDS Mtcp, Integers, SequenceTheorems, FiniteSetTheorems, TLAPS

Stages == {"none", "new", "init", "listen", "ready", "signal", "test", "wait", "waiting",
           "loop", "epoll", "events", "out", "gone"}
Stream == [core : Senders, port : Int, snd : {"syn", "open", "broken", "closed"},
           rcv : {"none", "queued", "accepted", "closed"}]
Event == [kind : {"out", "in", "err", "accept"}, id : Nat]

TypeInv ==
    /\ pc \in [Cores -> Stages]
    /\ todo \in [Senders -> Seq(Int)]
    /\ streams \in Seq(Stream)
    /\ batch \in [Cores -> SUBSET Event]
    /\ opened \in [Senders -> 0..NumConnection]

(* What a sender has left of its batch is about streams of its own that it *)
(* has not closed, one event per stream, and only while it deals with it.  *)
BatchOwned(s) ==
    /\ \A e \in batch[s] : /\ e.id \in Ids /\ streams[e.id].core = s
                           /\ streams[e.id].snd # "closed"
    /\ \A x, y \in batch[s] : x.id = y.id => x = y
    /\ batch[s] # {} => pc[s] = "events"

(* The streams a sender has and those it is about to open are no more than *)
(* those it has counted.                                                   *)
Counted(s) == Cardinality(Live(s)) + Len(todo[s]) <= opened[s]

MtcpInv == TypeInv /\ \A s \in Senders : BatchOwned(s) /\ Counted(s)

-----------------------------------------------------------------------------
LEMMA CoreFacts ==
    ASSUME ThreadsAssumption
    PROVE  /\ Senders \subseteq Cores /\ Receivers \subseteq Cores
           /\ \A s \in Senders : s \in Nat /\ s \notin Receivers
           /\ \A r \in Receivers : r \in Nat /\ Pair(r) \in Senders
BY DEF ThreadsAssumption, Senders, Receivers, Cores, Pair

LEMMA IdFacts ==
    ASSUME TypeInv
    PROVE  /\ Ids = 1..Len(streams) /\ Len(streams) \in Nat
           /\ \A i \in Ids : streams[i] \in Stream
           /\ \A s : IsFiniteSet(Live(s)) /\ Cardinality(Live(s)) \in Nat
<1>1. streams \in Seq(Stream) BY DEF TypeInv
<1>2. Ids = 1..Len(streams) /\ Len(streams) \in Nat BY <1>1, LenProperties DEF Ids
<1>3. \A i \in Ids : streams[i] \in Stream BY <1>1, <1>2, ElementOfSeq
<1>4. IsFiniteSet(Ids) BY <1>2, FS_Interval
<1>5. ASSUME NEW s PROVE IsFiniteSet(Live(s)) /\ Cardinality(Live(s)) \in Nat
  <2>1. Live(s) \subseteq Ids BY DEF Live
  <2> QED BY <1>4, <2>1, FS_Subset, FS_CardinalityType
<1> QED BY <1>2, <1>3, <1>5

-----------------------------------------------------------------------------
(* Steps that neither open nor close a stream at its sender's end. *)
SameEnds ==
    /\ Ids' = Ids
    /\ \A i \in Ids : /\ streams'[i].core = streams[i].core
                      /\ streams'[i].snd = "closed" <=> streams[i].snd = "closed"

LEMMA KeptStep ==
    ASSUME MtcpInv, SameEnds, UNCHANGED <<todo, opened>>,
           \A s \in Senders : /\ batch'[s] \subseteq batch[s]
                              /\ batch'[s] # {} => pc'[s] = "events"
    PROVE  \A s \in Senders : BatchOwned(s)' /\ Counted(s)'
<1> SUFFICES ASSUME NEW s \in Senders PROVE BatchOwned(s)' /\ Counted(s)'
  OBVIOUS
<1>1. BatchOwned(s) /\ Counted(s) BY DEF MtcpInv
<1>2. Live(s)' = Live(s) BY DEF SameEnds, Live
<1>3. Counted(s)' BY <1>1, <1>2 DEF Counted
<1>4. BatchOwned(s)' BY <1>1 DEF BatchOwned, SameEnds
<1> QED BY <1>3, <1>4

(* Of these, the ones that take nothing from a batch either: the thread    *)
(* that steps is not at its events.                                        *)
LEMMA QuietStep ==
    ASSUME ThreadsAssumption, MtcpInv, UNCHANGED <<todo, opened, streams, batch>>,
           NEW c \in Cores, NEW step \in Stages, Goto(c, step), pc[c] # "events"
    PROVE  TypeInv' /\ \A s \in Senders : BatchOwned(s)' /\ Counted(s)'
<1>1. TypeInv BY DEF MtcpInv
<1>2. TypeInv' BY <1>1 DEF TypeInv, Goto
<1>3. SameEnds BY DEF SameEnds, Ids
<1>4. \A s \in Senders : batch[s] # {} => pc[s] = "events" BY DEF MtcpInv, BatchOwned
<1>5. \A s \in Senders : pc'[s] = "events" <=> pc[s] = "events" \/ (s = c /\ step = "events")
  BY <1>1, CoreFacts DEF TypeInv, Goto
<1>6. \A s \in Senders : batch'[s] # {} => pc'[s] = "events" BY <1>4, <1>5
<1> QED BY <1>2, <1>3, <1>6, KeptStep

LEMMA IdleStep ==
    ASSUME MtcpInv, UNCHANGED <<pc, todo, opened, streams, batch>>
    PROVE  TypeInv' /\ \A s \in Senders : BatchOwned(s)' /\ Counted(s)'
<1>1. TypeInv' BY DEF MtcpInv, TypeInv
<1>2. SameEnds BY DEF SameEnds, Ids
<1>3. \A s \in Senders : batch[s] # {} => pc[s] = "events" BY DEF MtcpInv, BatchOwned
<1> QED BY <1>1, <1>2, <1>3, KeptStep

LEMMA SignalStep ==
    ASSUME ThreadsAssumption, MtcpInv, NEW r \in Receivers, CondSignal(r), UNCHANGED opened
    PROVE  TypeInv' /\ \A s \in Senders : BatchOwned(s)' /\ Counted(s)'
<1>1. TypeInv BY DEF MtcpInv
<1>2. TypeInv' BY <1>1, CoreFacts DEF TypeInv, CondSignal, Stages
<1>3. SameEnds BY DEF SameEnds, Ids, CondSignal
<1>4. \A s \in Senders : batch[s] # {} => pc[s] = "events" BY DEF MtcpInv, BatchOwned
<1>5. \A s \in Senders : pc[s] = "events" => pc'[s] = "events"
  <2> SUFFICES ASSUME NEW s \in Senders, pc[s] = "events" PROVE pc'[s] = "events"
    OBVIOUS
  <2>1. s \in Cores /\ s # r BY CoreFacts
  <2> QED BY <2>1 DEF CondSignal
<1> QED BY <1>2, <1>3, <1>4, <1>5, KeptStep DEF CondSignal

(* The stack answers or breaks a stream. *)
LEMMA StackStep ==
    ASSUME MtcpInv, Stack, UNCHANGED opened
    PROVE  TypeInv' /\ \A s \in Senders : BatchOwned(s)' /\ Counted(s)'
<1>1. TypeInv BY DEF MtcpInv
<1>2. PICK i \in Ids : Answer(i) \/ Break(i) BY DEF Stack
<1>3. UNCHANGED <<todo, batch, pc>> BY <1>2 DEF Answer, Break
<1>4. PICK x \in Stream :
         /\ streams' = [streams EXCEPT ![i] = x]
         /\ x.core = streams[i].core /\ x.snd # "closed" /\ streams[i].snd # "closed"
  <2>1. streams[i] \in Stream BY <1>1, IdFacts
  <2>2. CASE Answer(i)
    <3>1. CASE streams' = [streams EXCEPT ![i].snd = "open", ![i].rcv = "queued"]
      <4> DEFINE x == [streams[i] EXCEPT !.snd = "open", !.rcv = "queued"]
      <4>1. x \in Stream /\ x.core = streams[i].core /\ x.snd = "open"
        BY <2>1 DEF Stream
      <4>2. streams' = [streams EXCEPT ![i] = x] BY <1>1, <3>1, IdFacts DEF Ids
      <4>3. streams[i].snd = "syn" BY <2>2 DEF Answer
      <4> HIDE DEF x
      <4> QED BY <4>1, <4>2, <4>3
    <3>2. CASE streams' = [streams EXCEPT ![i].snd = "broken"]
      <4>1. streams' = [streams EXCEPT ![i] = [streams[i] EXCEPT !.snd = "broken"]]
        BY <3>2
      <4> QED BY <2>1, <2>2, <4>1, ZenonT(40) DEF Answer, Stream
    <3> QED BY <2>2, <3>1, <3>2 DEF Answer
  <2>3. CASE Break(i)
    <3>1. streams' = [streams EXCEPT ![i] = [streams[i] EXCEPT !.snd = "broken"]]
      BY <2>3 DEF Break
    <3> QED BY <2>1, <2>3, <3>1, ZenonT(40) DEF Break, Stream
  <2> QED BY <1>2, <2>2, <2>3
<1>5. streams' \in Seq(Stream) /\ Ids' = Ids
  BY <1>1, <1>4, ExceptSeq DEF TypeInv, Ids
<1>6. SameEnds BY <1>1, <1>4, <1>5, IdFacts DEF SameEnds, Ids
<1>7. TypeInv' BY <1>1, <1>3, <1>5 DEF TypeInv
<1>8. \A s \in Senders : batch[s] # {} => pc[s] = "events" BY DEF MtcpInv, BatchOwned
<1> QED BY <1>3, <1>6, <1>7, <1>8, KeptStep

-----------------------------------------------------------------------------
(* A sender gets some of the events there are. *)
LEMMA WaitStep ==
    ASSUME ThreadsAssumption, MtcpInv, NEW c \in Cores, EpollWait(c), UNCHANGED opened
    PROVE  TypeInv' /\ \A s \in Senders : BatchOwned(s)' /\ Counted(s)'
<1>1. TypeInv BY DEF MtcpInv
<1>2. /\ UNCHANGED <<streams, todo>> /\ pc' = [pc EXCEPT ![c] = "events"] /\ pc[c] = "epoll"
  BY DEF EpollWait, Goto, At
<1>3. PICK b \in SUBSET Events(c) :
         /\ \A x, y \in b : x.id = y.id => x = y
         /\ batch' = [batch EXCEPT ![c] = b]
  BY DEF EpollWait
<1>4. Ids \subseteq Nat BY <1>1, IdFacts
<1>5. Events(c) \subseteq Event
  BY <1>4 DEF Events, SenderEvents, ReceiverEvents, Event
<1>6. TypeInv' BY <1>1, <1>2, <1>3, <1>5 DEF TypeInv, Stages
<1>7. ASSUME NEW s \in Senders PROVE BatchOwned(s)' /\ Counted(s)'
  <2>1. BatchOwned(s) /\ Counted(s) BY DEF MtcpInv
  <2>2. Counted(s)' BY <1>2, <2>1 DEF Counted, Live, Ids
  <2>3. s \in Cores BY CoreFacts
  <2>4. CASE s = c
    <3>1. batch'[s] = b /\ pc'[s] = "events" BY <1>1, <1>2, <1>3, <2>3, <2>4 DEF TypeInv
    <3>2. \A e \in b : /\ e.id \in Ids /\ streams[e.id].core = s
                       /\ streams[e.id].snd # "closed"
      BY <1>3, <2>4 DEF Events, SenderEvents
    <3> QED BY <1>2, <1>3, <2>2, <3>1, <3>2 DEF BatchOwned, Ids
  <2>5. CASE s # c
    <3>1. batch'[s] = batch[s] /\ pc'[s] = pc[s] BY <1>1, <1>2, <1>3, <2>3, <2>5 DEF TypeInv
    <3> QED BY <1>2, <2>1, <2>2, <3>1 DEF BatchOwned, Ids
  <2> QED BY <2>4, <2>5
<1> QED BY <1>6, <1>7

(* An event is taken from the batch. *)
LEMMA TakeFacts ==
    ASSUME ThreadsAssumption, MtcpInv, NEW c \in Cores, NEW e \in batch[c], Take(c, e)
    PROVE  /\ pc' \in [Cores -> Stages] /\ batch' \in [Cores -> SUBSET Event]
           /\ batch'[c] = batch[c] \ {e}
           /\ \A s \in Senders : /\ batch'[s] \subseteq batch[s]
                                 /\ batch'[s] # {} => pc'[s] = "events"
<1>1. pc \in [Cores -> Stages] /\ batch \in [Cores -> SUBSET Event] BY DEF MtcpInv, TypeInv
<1>2. /\ batch' = [batch EXCEPT ![c] = batch[c] \ {e}]
      /\ pc' = [pc EXCEPT ![c] = IF batch[c] = {e} THEN "loop" ELSE "events"]
  BY DEF Take, Goto
<1>3. pc' \in [Cores -> Stages] /\ batch' \in [Cores -> SUBSET Event]
  BY <1>1, <1>2 DEF Stages
<1>4. ASSUME NEW s \in Senders
      PROVE  batch'[s] \subseteq batch[s] /\ (batch'[s] # {} => pc'[s] = "events")
  <2>1. batch[s] # {} => pc[s] = "events" BY DEF MtcpInv, BatchOwned
  <2>2. s \in Cores BY CoreFacts
  <2>3. CASE s = c BY <1>1, <1>2, <2>2, <2>3
  <2>4. CASE s # c BY <1>1, <1>2, <2>1, <2>2, <2>4
  <2> QED BY <2>3, <2>4
<1> QED BY <1>1, <1>2, <1>3, <1>4

LEMMA TransferStep ==
    ASSUME ThreadsAssumption, MtcpInv, NEW c \in Cores, NEW e \in batch[c],
           Transfer(c, e), UNCHANGED opened
    PROVE  TypeInv' /\ \A s \in Senders : BatchOwned(s)' /\ Counted(s)'
<1>1. UNCHANGED <<streams, todo>> /\ Take(c, e) BY DEF Transfer
<1>2. TypeInv' BY <1>1, TakeFacts DEF MtcpInv, TypeInv
<1>3. SameEnds BY <1>1 DEF SameEnds, Ids
<1> QED BY <1>1, <1>2, <1>3, TakeFacts, KeptStep

(* A receiver accepts a stream, or closes its end of one. *)
LEMMA ReceiveStep ==
    ASSUME ThreadsAssumption, MtcpInv, NEW r \in Receivers, NEW e \in batch[r],
           RecvAccept(r, e) \/ RecvError(r, e), UNCHANGED opened
    PROVE  TypeInv' /\ \A s \in Senders : BatchOwned(s)' /\ Counted(s)'
<1>0. r \in Cores BY CoreFacts
<1>1. UNCHANGED todo /\ Take(r, e) BY DEF RecvAccept, RecvError
<1>2. TypeInv BY DEF MtcpInv
<1>3. streams' \in Seq(Stream) /\ SameEnds
  <2>1. CASE UNCHANGED streams BY <1>2, <2>1 DEF TypeInv, SameEnds, Ids
  <2>2. ASSUME NEW x, x \in {"none", "queued", "accepted", "closed"},
               streams' = [streams EXCEPT ![e.id].rcv = x]
        PROVE  streams' \in Seq(Stream) /\ SameEnds
    <3>1. streams \in Seq(Stream) /\ streams \in [1..Len(streams) -> Stream]
      BY <1>2, LenProperties DEF TypeInv
    <3>2. CASE e.id \in 1..Len(streams)
      <4> DEFINE y == [streams[e.id] EXCEPT !.rcv = x]
      <4>1. streams[e.id] \in Stream BY <3>1, <3>2, ElementOfSeq
      <4>2. y \in Stream /\ y.core = streams[e.id].core /\ y.snd = streams[e.id].snd
        BY <2>2, <4>1 DEF Stream
      <4>3. streams' = [streams EXCEPT ![e.id] = y] BY <2>2
      <4> HIDE DEF y
      <4>4. streams' \in Seq(Stream) BY <3>1, <3>2, <4>2, <4>3, ExceptSeq
      <4> QED BY <3>1, <4>2, <4>3, <4>4 DEF SameEnds, Ids
    <3>3. CASE e.id \notin 1..Len(streams)
      <4>1. streams' = streams BY <2>2, <3>1, <3>3
      <4> QED BY <3>1, <4>1 DEF SameEnds, Ids
    <3> QED BY <3>2, <3>3
  <2>3. CASE streams' = [streams EXCEPT ![e.id].rcv = "closed"] BY <2>2, <2>3
  <2>4. CASE streams' = [streams EXCEPT ![e.id].rcv = IF @ = "queued" THEN "accepted" ELSE @]
    <3>1. CASE e.id \in Ids /\ streams[e.id].rcv # "queued"
      <4>1. streams[e.id] \in Stream BY <1>2, <3>1, IdFacts
      <4>2. streams[e.id].rcv \in {"none", "queued", "accepted", "closed"}
        BY <4>1 DEF Stream
      <4>3. streams' = [streams EXCEPT ![e.id].rcv = streams[e.id].rcv] BY <2>4, <3>1
      <4> QED BY <2>2, <4>2, <4>3
    <3>2. CASE e.id \in Ids /\ streams[e.id].rcv = "queued"
      <4>1. streams' = [streams EXCEPT ![e.id].rcv = "accepted"] BY <2>4, <3>2
      <4> QED BY <2>2, <4>1
    <3>3. CASE e.id \notin Ids
      <4>1. streams \in [1..Len(streams) -> Stream] /\ Ids = 1..Len(streams)
        BY <1>2, IdFacts, LenProperties DEF TypeInv
      <4>2. streams' = streams BY <2>4, <3>3, <4>1
      <4> QED BY <2>1, <4>2
    <3> QED BY <3>1, <3>2, <3>3
  <2> QED BY <2>1, <2>3, <2>4 DEF RecvAccept, RecvError
<1>4. TypeInv' BY <1>0, <1>1, <1>2, <1>3, TakeFacts DEF TypeInv
<1> QED BY <1>0, <1>1, <1>3, <1>4, TakeFacts, KeptStep

-----------------------------------------------------------------------------
(* A stream is opened for the next port, or none is. *)
LEMMA ConnectStep ==
    ASSUME ThreadsAssumption, MtcpInv, NEW s \in Senders, CreateConnection(s),
           UNCHANGED opened
    PROVE  TypeInv' /\ \A u \in Senders : BatchOwned(u)' /\ Counted(u)'
<1>1. TypeInv BY DEF MtcpInv
<1>2. /\ UNCHANGED <<pc, batch>> /\ todo[s] # <<>> /\ todo[s] \in Seq(Int)
      /\ todo' = [todo EXCEPT ![s] = Tail(todo[s])]
  BY <1>1 DEF CreateConnection, TypeInv
<1>3. /\ Head(todo[s]) \in Int /\ Tail(todo[s]) \in Seq(Int)
      /\ Len(Tail(todo[s])) = Len(todo[s]) - 1 /\ Len(todo[s]) \in Nat
  BY <1>2, HeadTailProperties, LenProperties
<1>4. todo' \in [Senders -> Seq(Int)] BY <1>1, <1>2, <1>3 DEF TypeInv
<1>5. \A u \in Senders : /\ Len(todo[u]) \in Nat /\ opened[u] \in Int
                         /\ BatchOwned(u) /\ Counted(u)
                         /\ Cardinality(Live(u)) \in Nat /\ IsFiniteSet(Live(u))
  BY <1>1, IdFacts, LenProperties DEF TypeInv, MtcpInv, MtcpAssumption
<1>6. ASSUME NEW u \in Senders
      PROVE  u # s => Len(todo'[u]) = Len(todo[u])
  BY <1>1, <1>2 DEF TypeInv
<1>7. Len(todo'[s]) = Len(todo[s]) - 1 BY <1>1, <1>2, <1>3 DEF TypeInv
<1>8. CASE UNCHANGED streams
  <2>1. TypeInv' BY <1>1, <1>2, <1>4, <1>8 DEF TypeInv
  <2>2. \A u \in Senders : BatchOwned(u)' BY <1>2, <1>5, <1>8 DEF BatchOwned, Ids
  <2>3. \A u \in Senders : Live(u)' = Live(u) BY <1>8 DEF Live, Ids
  <2>4. \A u \in Senders : Counted(u)' BY <1>5, <1>6, <1>7, <2>3 DEF Counted
  <2> QED BY <2>1, <2>2, <2>4
<1>9. ASSUME NEW x \in Stream, x.core = s, x.snd = "syn", streams' = Append(streams, x)
      PROVE  TypeInv' /\ \A u \in Senders : BatchOwned(u)' /\ Counted(u)'
  <2> DEFINE n == Len(streams) + 1
  <2>1. /\ streams' \in Seq(Stream) /\ Len(streams') = Len(streams) + 1
        /\ \A i \in 1..Len(streams) : streams'[i] = streams[i]
        /\ streams'[Len(streams) + 1] = x
    BY <1>1, <1>9, AppendProperties DEF TypeInv
  <2>2. TypeInv' BY <1>1, <1>2, <1>4, <2>1 DEF TypeInv
  <2>3. Ids = 1..Len(streams) /\ Len(streams) \in Nat /\ Ids' = 1..Len(streams')
    BY <1>1, <2>1, IdFacts, LenProperties DEF Ids
  <2>4. Ids' = Ids \cup {n} /\ n \notin Ids BY <2>1, <2>3
  <2>5. \A i \in Ids : streams'[i] = streams[i] BY <2>1, <2>3
  <2>6. streams'[n].core = s /\ streams'[n].snd = "syn" BY <1>9, <2>1
  <2> HIDE DEF n
  <2>7. ASSUME NEW u \in Senders, u # s PROVE Live(u)' = Live(u)
    BY <2>4, <2>5, <2>6, <2>7 DEF Live
  <2>8. Live(s)' = Live(s) \cup {n} /\ n \notin Live(s) BY <2>4, <2>5, <2>6 DEF Live
  <2>9. Cardinality(Live(s)') = Cardinality(Live(s)) + 1
    BY <1>5, <2>8, FS_AddElement
  <2>10. ASSUME NEW u \in Senders PROVE BatchOwned(u)'
    <3>1. BatchOwned(u) /\ batch'[u] = batch[u] /\ pc'[u] = pc[u] BY <1>2, <1>5
    <3> QED BY <2>4, <2>5, <3>1 DEF BatchOwned
  <2>11. Counted(s)' BY <1>3, <1>5, <1>7, <2>9 DEF Counted
  <2>12. \A u \in Senders : u # s => Counted(u)' BY <1>5, <1>6, <2>7 DEF Counted
  <2> QED BY <2>2, <2>10, <2>11, <2>12
<1>10. CASE streams' = Append(streams, [core |-> s, port |-> Head(todo[s]),
                                        snd |-> "syn", rcv |-> "none"])
  <2> DEFINE x == [core |-> s, port |-> Head(todo[s]), snd |-> "syn", rcv |-> "none"]
  <2>1. x \in Stream /\ x.core = s /\ x.snd = "syn" BY <1>3 DEF Stream
  <2>2. streams' = Append(streams, x) BY <1>10
  <2> HIDE DEF x
  <2> QED BY <1>9, <2>1, <2>2
<1> QED BY <1>8, <1>10 DEF CreateConnection

-----------------------------------------------------------------------------
(* A sender that leaves closes its streams; its batch is empty. *)
LEMMA LeaveStep ==
    ASSUME ThreadsAssumption, MtcpInv, NEW s \in Senders, At(s, "loop"), Leave(s),
           UNCHANGED <<todo, batch, opened>>
    PROVE  TypeInv' /\ \A u \in Senders : BatchOwned(u)' /\ Counted(u)'
<1>1. TypeInv BY DEF MtcpInv
<1>2. pc[s] = "loop" /\ todo[s] = <<>> /\ s \in Cores BY CoreFacts DEF At
<1>3. pc' = [pc EXCEPT ![s] = "out"] BY DEF Leave, Goto
<1>4. /\ Ids = 1..Len(streams) /\ Len(streams) \in Nat
      /\ \A i \in Ids : streams[i] \in Stream
  BY <1>1, IdFacts
<1>5. streams' = [i \in Ids |-> IF streams[i].core = s
                                THEN [streams[i] EXCEPT !.snd = "closed"]
                                ELSE streams[i]]
  BY DEF Leave
<1>6. \A i \in Ids :
         /\ streams'[i] \in Stream /\ streams'[i].core = streams[i].core
         /\ streams'[i].snd = IF streams[i].core = s THEN "closed" ELSE streams[i].snd
  BY <1>4, <1>5 DEF Stream
<1>7. streams' \in [1..Len(streams) -> Stream] BY <1>4, <1>5, <1>6
<1>8. streams' \in Seq(Stream) /\ Ids' = Ids BY <1>4, <1>7, SeqDef DEF Ids
<1>9. TypeInv' BY <1>1, <1>2, <1>3, <1>8 DEF TypeInv, Stages
<1>10. ASSUME NEW u \in Senders PROVE BatchOwned(u)' /\ Counted(u)'
  <2>1. BatchOwned(u) /\ Counted(u) /\ u \in Cores BY CoreFacts DEF MtcpInv
  <2>2. CASE u = s
    <3>1. batch[s] = {} BY <1>2, <2>1, <2>2 DEF BatchOwned
    <3>2. Live(s)' = {} BY <1>6, <1>8 DEF Live
    <3>3. Cardinality(Live(s)') = 0 BY <3>2, FS_EmptySet
    <3>4. opened[s] \in Nat /\ Len(todo[s]) = 0
      <4>1. opened[s] \in 0..NumConnection BY <1>1 DEF TypeInv
      <4> QED BY <1>2, <4>1, EmptySeq
    <3> QED BY <2>2, <3>1, <3>3, <3>4 DEF BatchOwned, Counted
  <2>3. CASE u # s
    <3>1. Live(u)' = Live(u) BY <1>6, <1>8, <2>3 DEF Live
    <3>2. pc'[u] = pc[u] BY <1>1, <1>3, <2>1, <2>3 DEF TypeInv
    <3>3. BatchOwned(u)' BY <1>6, <1>8, <2>1, <2>3, <3>2 DEF BatchOwned
    <3> QED BY <2>1, <3>1, <3>3 DEF Counted
  <2> QED BY <2>2, <2>3
<1> QED BY <1>9, <1>10

(* The head of the loop: the streams that were never tried are next. *)
LEMMA LoopStep ==
    ASSUME ThreadsAssumption, MtcpAssumption, MtcpInv, NEW s \in Senders, SendLoop(s)
    PROVE  TypeInv' /\ \A u \in Senders : BatchOwned(u)' /\ Counted(u)'
<1>1. TypeInv /\ At(s, "loop") /\ UNCHANGED batch BY DEF MtcpInv, SendLoop
<1>2. CASE done[s]
  BY <1>1, <1>2, LeaveStep DEF SendLoop
<1>3. CASE ~done[s]
  <2> DEFINE n == NumConnection - opened[s]
             q == [i \in 1..n |-> FirstPort(s)]
  <2>1. /\ todo' = [todo EXCEPT ![s] = q] /\ opened' = [opened EXCEPT ![s] = NumConnection]
        /\ pc' = [pc EXCEPT ![s] = "epoll"] /\ UNCHANGED streams
    BY <1>3 DEF SendLoop, Goto
  <2>2. pc[s] = "loop" /\ todo[s] = <<>> /\ s \in Cores BY <1>1, CoreFacts DEF At
  <2>3. opened[s] \in 0..NumConnection /\ NumConnection \in Nat /\ n \in Nat
    BY <1>1 DEF TypeInv, MtcpAssumption
  <2>4. FirstPort(s) \in Int BY CoreFacts DEF FirstPort, NORMAL
  <2>5. q \in [1..n -> Int] BY <2>4
  <2>6. q \in Seq(Int) BY <2>3, <2>5, SeqDef
  <2>7. Len(q) = n
    <3>1. DOMAIN q = 1..n OBVIOUS
    <3>2. DOMAIN q = 1..Len(q) /\ Len(q) \in Nat BY <2>6, LenProperties
    <3> HIDE DEF q, n
    <3> QED BY <2>3, <3>1, <3>2
  <2> HIDE DEF q
  <2>8. TypeInv'
    <3>1. NumConnection \in 0..NumConnection BY <2>3
    <3>2. opened' \in [Senders -> 0..NumConnection] BY <1>1, <2>1, <3>1 DEF TypeInv
    <3>3. todo' \in [Senders -> Seq(Int)] BY <1>1, <2>1, <2>6 DEF TypeInv
    <3> QED BY <1>1, <2>1, <3>2, <3>3 DEF TypeInv, Stages
  <2>9. ASSUME NEW u \in Senders PROVE BatchOwned(u)' /\ Counted(u)'
    <3>1. BatchOwned(u) /\ Counted(u) /\ u \in Cores BY CoreFacts DEF MtcpInv
    <3>2. Live(u)' = Live(u) BY <2>1 DEF Live, Ids
    <3>3. CASE u = s
      <4>1. batch[s] = {} BY <2>2, <3>1, <3>3 DEF BatchOwned
      <4>2. Len(todo'[s]) = NumConnection - opened[s] /\ opened'[s] = NumConnection
        BY <1>1, <2>1, <2>7 DEF TypeInv
      <4>3. Cardinality(Live(s)) + Len(todo[s]) <= opened[s] /\ Len(todo[s]) = 0
        BY <2>2, <3>1, <3>3, EmptySeq DEF Counted
      <4>4. Cardinality(Live(s)) \in Nat BY <1>1, IdFacts
      <4>5. Cardinality(Live(s)) + Len(todo'[s]) <= opened'[s]
        <5> DEFINE l == Cardinality(Live(s))
        <5> HIDE DEF l
        <5>1. l \in Nat /\ l + 0 <= opened[s] BY <4>3, <4>4 DEF l
        <5>2. l + n <= NumConnection BY <2>3, <5>1
        <5> QED BY <4>2, <5>2 DEF l
      <4> QED BY <1>1, <3>2, <3>3, <4>1, <4>5 DEF BatchOwned, Counted
    <3>4. CASE u # s
      <4>1. pc'[u] = pc[u] /\ todo'[u] = todo[u] /\ opened'[u] = opened[u]
        BY <1>1, <2>1, <3>1, <3>4 DEF TypeInv
      <4> QED BY <1>1, <2>1, <3>1, <3>2, <4>1 DEF BatchOwned, Counted, Ids
    <3> QED BY <3>3, <3>4
  <2> QED BY <2>8, <2>9
<1> QED BY <1>2, <1>3

(* A broken stream is closed once, and its sender is about to open another *)
(* one in its place.                                                       *)
LEMMA ErrorStep ==
    ASSUME ThreadsAssumption, MtcpInv, NEW s \in Senders, NEW e \in batch[s],
           At(s, "events"), SendError(s, e)
    PROVE  TypeInv' /\ \A u \in Senders : BatchOwned(u)' /\ Counted(u)'
<1>0. s \in Cores BY CoreFacts
<1>1. TypeInv /\ Take(s, e) /\ UNCHANGED opened BY DEF MtcpInv, SendError
<1>2. /\ e.id \in Ids /\ streams[e.id].core = s /\ streams[e.id].snd # "closed"
      /\ \A x, y \in batch[s] : x.id = y.id => x = y
  BY DEF MtcpInv, BatchOwned
<1>3. /\ Ids = 1..Len(streams) /\ \A i \in Ids : streams[i] \in Stream
      /\ streams \in Seq(Stream)
  BY <1>1, IdFacts DEF TypeInv
<1>4. PICK x \in Stream : /\ streams' = [streams EXCEPT ![e.id] = x]
                          /\ x.core = streams[e.id].core /\ x.snd = "closed"
  <2> DEFINE r == IF streams[e.id].rcv = "queued" THEN "closed" ELSE streams[e.id].rcv
             y == [streams[e.id] EXCEPT !.snd = "closed", !.rcv = r]
  <2>1. y \in Stream /\ y.core = streams[e.id].core /\ y.snd = "closed"
    BY <1>2, <1>3, ZenonT(40) DEF Stream
  <2>2. streams' = [streams EXCEPT ![e.id].snd = "closed", ![e.id].rcv = r]
    BY <1>2, <1>3 DEF SendError, Closed, Stream
  <2>3. streams' = [streams EXCEPT ![e.id] = y] BY <1>2, <1>3, <2>2 DEF Ids
  <2> HIDE DEF y
  <2> QED BY <2>1, <2>3
<1>5. /\ streams' \in Seq(Stream) /\ Ids' = Ids
      /\ \A i \in Ids : streams'[i] = IF i = e.id THEN x ELSE streams[i]
  BY <1>2, <1>3, <1>4, ExceptSeq DEF Ids
<1>6. todo' = [todo EXCEPT ![s] = <<NextPort(s)>>] BY DEF SendError
<1>7. NextPort(s) \in Int
  <2>1. s \in Nat /\ NPairs \in Nat BY CoreFacts DEF ThreadsAssumption
  <2> QED BY <2>1 DEF NextPort, NORMAL
<1>8. <<NextPort(s)>> \in Seq(Int) /\ Len(<<NextPort(s)>>) = 1 BY <1>7
<1>9. TypeInv' BY <1>0, <1>1, <1>5, <1>6, <1>8, TakeFacts DEF TypeInv
<1>10. ASSUME NEW u \in Senders PROVE BatchOwned(u)' /\ Counted(u)'
  <2>1. /\ BatchOwned(u) /\ Counted(u) /\ batch'[u] \subseteq batch[u]
        /\ batch'[u] # {} => pc'[u] = "events"
    BY <1>0, <1>1, TakeFacts DEF MtcpInv
  <2>2. CASE u = s
    <3>1. batch'[s] = batch[s] \ {e} BY <1>0, <1>1, TakeFacts
    <3>2. \A f \in batch'[s] : f.id # e.id BY <1>2, <3>1
    <3>3. BatchOwned(s)' BY <1>5, <2>1, <2>2, <3>2 DEF BatchOwned
    <3>4. Live(s)' = Live(s) \ {e.id} /\ e.id \in Live(s)
      BY <1>2, <1>4, <1>5 DEF Live
    <3>5. IsFiniteSet(Live(s)) /\ Cardinality(Live(s)) \in Nat BY <1>1, IdFacts
    <3>6. Cardinality(Live(s)') = Cardinality(Live(s)) - 1
      BY <3>4, <3>5, FS_RemoveElement
    <3>7. todo[s] = <<>> BY DEF At
    <3>8. Cardinality(Live(s)) + 0 <= opened[s] BY <2>1, <2>2, <3>7, EmptySeq DEF Counted
    <3>9. Len(todo'[s]) = 1 BY <1>1, <1>6, <1>8 DEF TypeInv
    <3>10. Cardinality(Live(s)') + Len(todo'[s]) <= opened[s] BY <3>5, <3>6, <3>8, <3>9
    <3> QED BY <1>1, <2>2, <3>3, <3>10 DEF Counted
  <2>3. CASE u # s
    <3>1. \A f \in batch[u] : f.id # e.id BY <1>2, <2>1, <2>3 DEF BatchOwned
    <3>2. BatchOwned(u)' BY <1>5, <2>1, <3>1 DEF BatchOwned
    <3>3. Live(u)' = Live(u) BY <1>2, <1>4, <1>5, <2>3 DEF Live
    <3>4. todo'[u] = todo[u] BY <1>1, <1>6, <2>3 DEF TypeInv
    <3> QED BY <1>1, <2>1, <3>2, <3>3, <3>4 DEF Counted
  <2> QED BY <2>2, <2>3
<1> QED BY <1>9, <1>10

-----------------------------------------------------------------------------
LEMMA MtcpInit ==
    ASSUME ThreadsAssumption, MtcpAssumption, Init PROVE MtcpInv
<1>1. streams = <<>> /\ streams \in Seq(Stream) /\ Len(streams) = 0
  BY EmptySeq DEF Init, ThreadsInit
<1>2. TypeInv
  BY <1>1, EmptySeq DEF Init, ThreadsInit, TypeInv, Stages, MtcpAssumption
<1>3. ASSUME NEW s \in Senders PROVE BatchOwned(s) /\ Counted(s)
  <2>1. batch[s] = {} /\ todo[s] = <<>> /\ opened[s] = 0
    BY CoreFacts DEF Init, ThreadsInit
  <2>2. Ids = {} BY <1>1, <1>2, IdFacts
  <2>3. Live(s) = {} BY <2>2 DEF Live
  <2>4. Cardinality(Live(s)) = 0 BY <2>3, FS_EmptySet
  <2>5. Len(todo[s]) = 0 BY <2>1, EmptySeq
  <2> QED BY <2>1, <2>4, <2>5 DEF BatchOwned, Counted
<1> QED BY <1>2, <1>3 DEF MtcpInv

LEMMA MtcpNext ==
    ASSUME ThreadsAssumption, MtcpAssumption, MtcpInv, [Next]_vars PROVE MtcpInv'
<1> SUFFICES TypeInv' /\ \A s \in Senders : BatchOwned(s)' /\ Counted(s)'
  BY DEF MtcpInv
<1>1. CASE UNCHANGED vars BY <1>1, IdleStep DEF vars
<1>2. CASE (Abort \/ Sigint) /\ UNCHANGED opened
  BY <1>2, IdleStep DEF Abort, Sigint
<1>3. CASE MainSleep \/ MainReturn
  BY <1>3, IdleStep DEF MainSleep, MainReturn
<1>4. CASE Stack /\ UNCHANGED opened BY <1>4, StackStep
<1>5. ASSUME NEW c \in Cores, StartThread(c), UNCHANGED opened
      PROVE  TypeInv' /\ \A s \in Senders : BatchOwned(s)' /\ Counted(s)'
  <2>1. /\ Goto(c, "new") /\ "new" \in Stages /\ pc[c] # "events"
        /\ UNCHANGED <<todo, streams, batch>>
    BY <1>5 DEF StartThread, Stages
  <2> QED BY <1>5, <2>1, QuietStep
<1>6. ASSUME NEW c \in Cores, CreateContext(c) \/ RunContext(c), UNCHANGED opened
      PROVE  TypeInv' /\ \A s \in Senders : BatchOwned(s)' /\ Counted(s)'
  <2>1. PICK step \in Stages : Goto(c, step)
    BY <1>6 DEF CreateContext, RunContext, Stages
  <2>2. pc[c] # "events" /\ UNCHANGED <<todo, streams, batch>>
    BY <1>6 DEF CreateContext, RunContext, At
  <2> QED BY <1>6, <2>1, <2>2, QuietStep
<1>7. ASSUME NEW s \in Senders, TestReady(s) \/ CondWait(s) \/ SpuriousWakeup(s),
             UNCHANGED opened
      PROVE  TypeInv' /\ \A u \in Senders : BatchOwned(u)' /\ Counted(u)'
  <2>1. PICK step \in Stages : Goto(s, step)
    BY <1>7 DEF TestReady, CondWait, SpuriousWakeup, Stages
  <2>2. pc[s] # "events" /\ s \in Cores /\ UNCHANGED <<todo, streams, batch>>
    BY <1>7, CoreFacts DEF TestReady, CondWait, SpuriousWakeup, At
  <2> QED BY <1>7, <2>1, <2>2, QuietStep
<1>8. ASSUME NEW r \in Receivers, ServicePortConfig(r) \/ SetReady(r) \/ RecvLoop(r),
             UNCHANGED opened
      PROVE  TypeInv' /\ \A s \in Senders : BatchOwned(s)' /\ Counted(s)'
  <2>1. PICK step \in Stages : Goto(r, step)
    BY <1>8 DEF ServicePortConfig, SetReady, RecvLoop, Stages
  <2>2. pc[r] # "events" /\ r \in Cores /\ UNCHANGED <<todo, streams, batch>>
    BY <1>8, CoreFacts DEF ServicePortConfig, SetReady, RecvLoop, At
  <2> QED BY <1>8, <2>1, <2>2, QuietStep
<1>9. ASSUME NEW s \in Senders, RunSendContext(s)
      PROVE  TypeInv' /\ \A u \in Senders : BatchOwned(u)' /\ Counted(u)'
  <2>0. s \in Cores BY CoreFacts
  <2>1. CASE SendLoop(s) BY <2>1, LoopStep
  <2>2. CASE EpollWait(s) /\ UNCHANGED <<opened, stage>> BY <2>0, <2>2, WaitStep
  <2>3. ASSUME NEW e \in batch[s], Transfer(s, e), UNCHANGED opened
        PROVE  TypeInv' /\ \A u \in Senders : BatchOwned(u)' /\ Counted(u)'
    BY <2>0, <2>3, TransferStep
  <2>4. ASSUME NEW e \in batch[s], At(s, "events"), SendError(s, e)
        PROVE  TypeInv' /\ \A u \in Senders : BatchOwned(u)' /\ Counted(u)'
    BY <2>4, ErrorStep
  <2> QED BY <1>9, <2>1, <2>2, <2>3, <2>4 DEF RunSendContext
<1>10. ASSUME NEW r \in Receivers, RunRecvContext(r), UNCHANGED opened
       PROVE  TypeInv' /\ \A s \in Senders : BatchOwned(s)' /\ Counted(s)'
  <2>0. r \in Cores BY CoreFacts
  <2>1. CASE RecvLoop(r) BY <1>8, <1>10, <2>1
  <2>2. CASE EpollWait(r) BY <1>10, <2>0, <2>2, WaitStep
  <2>3. ASSUME NEW e \in batch[r], Transfer(r, e)
        PROVE  TypeInv' /\ \A s \in Senders : BatchOwned(s)' /\ Counted(s)'
    BY <1>10, <2>0, <2>3, TransferStep
  <2>4. ASSUME NEW e \in batch[r], RecvAccept(r, e) \/ RecvError(r, e)
        PROVE  TypeInv' /\ \A s \in Senders : BatchOwned(s)' /\ Counted(s)'
    BY <1>10, <2>4, ReceiveStep
  <2> QED BY <1>10, <2>1, <2>2, <2>3, <2>4 DEF RunRecvContext
<1>11. ASSUME NEW c \in Cores, RunVnf(c), UNCHANGED opened
       PROVE  TypeInv' /\ \A s \in Senders : BatchOwned(s)' /\ Counted(s)'
  <2>1. CASE CreateContext(c) \/ RunContext(c) BY <1>6, <1>11, <2>1
  <2>2. CASE c \in Senders /\ (TestReady(c) \/ CondWait(c)) BY <1>7, <1>11, <2>2
  <2>3. CASE c \in Senders /\ CreateConnection(c) BY <1>11, <2>3, ConnectStep
  <2>4. CASE c \in Receivers /\ (ServicePortConfig(c) \/ SetReady(c))
    BY <1>8, <1>11, <2>4
  <2>5. CASE c \in Receivers /\ CondSignal(c) BY <1>11, <2>5, SignalStep
  <2>6. CASE c \in Receivers /\ RunRecvContext(c) BY <1>10, <1>11, <2>6
  <2> QED BY <1>11, <2>1, <2>2, <2>3, <2>4, <2>5, <2>6 DEF RunVnf
<1> QED
  BY <1>1, <1>2, <1>3, <1>4, <1>5, <1>7, <1>9, <1>11 DEF Next, Main

LEMMA MtcpInvariant ==
    ASSUME ThreadsAssumption, MtcpAssumption PROVE Spec => []MtcpInv
<1>1. Init => MtcpInv BY MtcpInit
<1>2. MtcpInv /\ [Next]_vars => MtcpInv' BY MtcpNext
<1> QED BY <1>1, <1>2, PTL DEF Spec

(* However often streams break and are replaced, a sender never has more   *)
(* of them than it was asked for: of two pairs or of two thousand, with    *)
(* allocations that fail, threads that are interrupted and batches older   *)
(* than the streams they are about (fv_mtcp.c:256-260, 283-288).           *)
THEOREM StreamsTheorem ==
    ASSUME ThreadsAssumption, MtcpAssumption
    PROVE  Spec => [](StreamsBounded /\ \A s \in Senders : opened[s] <= NumConnection)
<1>1. MtcpInv => StreamsBounded BY DEF MtcpInv, StreamsBounded, Counted
<1>2. MtcpInv => \A s \in Senders : opened[s] <= NumConnection
  BY DEF MtcpInv, TypeInv, MtcpAssumption
<1> QED BY <1>1, <1>2, MtcpInvariant, PTL

(* A descriptor is never closed twice or used after it was closed, however *)
(* old the batch of events is that a sender works off                      *)
(* (fv_mtcp.c:262-292).                                                    *)
THEOREM NoStaleTheorem ==
    ASSUME ThreadsAssumption, MtcpAssumption PROVE Spec => []NoStaleEvent
<1>1. MtcpInv => NoStaleEvent BY DEF MtcpInv, BatchOwned, NoStaleEvent
<1> QED BY <1>1, MtcpInvariant, PTL

-----------------------------------------------------------------------------
(* The hand-shake of a pair.  A receiver that is about to set its flag, or *)
(* has set it, listens on its port, and one that signals has set it; a     *)
(* sender is past its wait, or about to open streams, only if its receiver *)
(* has set it.                                                             *)
PastWait(s) == pc[s] \in {"loop", "epoll", "events"} \/ todo[s] # <<>>

ReceiverShake(r) ==
    /\ pc[r] \in {"ready", "signal"} \/ ready[Pair(r)] => listening[r] = ListenPorts(r)
    /\ pc[r] = "signal" => ready[Pair(r)]

ShakeInv ==
    /\ ready \in [Senders -> BOOLEAN]
    /\ listening \in [Receivers -> SUBSET Int]
    /\ \A r \in Receivers : ReceiverShake(r)
    /\ \A s \in Senders : PastWait(s) => ready[s]

LEMMA PairFacts ==
    ASSUME ThreadsAssumption
    PROVE  /\ \A s \in Senders : Pair(s) = s /\ NPairs + s \in Receivers
                                 /\ Pair(NPairs + s) = s /\ s \in Int
           /\ \A r, q \in Receivers : Pair(r) = Pair(q) => r = q
           /\ \A r \in Receivers : r \in Int
           /\ NPairs \in Int
<1>1. NPairs \in Nat /\ NPairs > 0 BY DEF ThreadsAssumption
<1>2. \A s \in 0..(NPairs - 1) : s % NPairs = s /\ (NPairs + s) % NPairs = s
  BY <1>1
<1>3. \A r \in NPairs..(2 * NPairs - 1) : r % NPairs = r - NPairs
  BY <1>1
<1>4. ASSUME NEW s \in Senders
      PROVE  Pair(s) = s /\ NPairs + s \in Receivers /\ Pair(NPairs + s) = s /\ s \in Int
  BY <1>1, <1>2 DEF Senders, Receivers, Pair
<1>5. ASSUME NEW r \in Receivers, NEW q \in Receivers, Pair(r) = Pair(q) PROVE r = q
  <2>1. r - NPairs = q - NPairs BY <1>3, <1>5 DEF Receivers, Pair
  <2> QED BY <1>1, <2>1 DEF Receivers
<1> QED BY <1>1, <1>4, <1>5 DEF Receivers

(* Steps that leave the flags and the ports alone, bring no receiver to    *)
(* its flag and no sender past its wait.                                   *)
LEMMA ShakeKept ==
    ASSUME ShakeInv, UNCHANGED <<ready, listening>>,
           \A r \in Receivers : /\ pc'[r] = "ready" => pc[r] = "ready"
                                /\ pc'[r] = "signal" => pc[r] = "signal",
           \A s \in Senders : PastWait(s)' => PastWait(s)
    PROVE  ShakeInv'
BY DEF ShakeInv, ReceiverShake

LEMMA ShakeGoto ==
    ASSUME ThreadsAssumption, TypeInv, ShakeInv, UNCHANGED <<ready, listening, todo>>,
           NEW c \in Cores, NEW step, Goto(c, step),
           step \notin {"ready", "signal"},
           c \in Senders /\ step \in {"loop", "epoll", "events"} => PastWait(c)
    PROVE  ShakeInv'
<1>1. \A d \in Cores : pc'[d] = IF d = c THEN step ELSE pc[d] BY DEF TypeInv, Goto
<1>2. \A r \in Receivers : /\ pc'[r] = "ready" => pc[r] = "ready"
                           /\ pc'[r] = "signal" => pc[r] = "signal"
  BY <1>1, CoreFacts
<1>3. \A s \in Senders : PastWait(s)' => PastWait(s)
  BY <1>1, CoreFacts DEF PastWait
<1> QED BY <1>2, <1>3, ShakeKept

(* The sender's side. *)
LEMMA ShakeTest ==
    ASSUME ThreadsAssumption, TypeInv, ShakeInv, NEW s \in Senders, TestReady(s)
    PROVE  ShakeInv'
<1>1. UNCHANGED <<ready, listening, todo>> BY DEF TestReady
<1>2. \A d \in Cores : pc'[d] = IF d = s THEN IF ready[Pair(s)] THEN "loop" ELSE "wait"
                                ELSE pc[d]
  BY DEF TestReady, TypeInv, Goto
<1>3. \A r \in Receivers : pc'[r] = pc[r] BY <1>2, CoreFacts
<1>4. ASSUME NEW u \in Senders, PastWait(u)' PROVE ready[u]
  <2>1. CASE PastWait(u) BY <2>1 DEF ShakeInv
  <2>2. CASE ~PastWait(u)
    <3>1. u = s /\ ready[Pair(s)] BY <1>1, <1>2, <1>4, <2>2, CoreFacts DEF PastWait
    <3> QED BY <3>1, PairFacts
  <2> QED BY <2>1, <2>2
<1> QED BY <1>1, <1>3, <1>4 DEF ShakeInv, ReceiverShake

LEMMA ShakeSend ==
    ASSUME ThreadsAssumption, TypeInv, ShakeInv, NEW s \in Senders,
           SendLoop(s) \/ CreateConnection(s) \/ \E e \in batch[s] : SendError(s, e)
    PROVE  ShakeInv'
<1>1. UNCHANGED <<ready, listening>>
  BY DEF SendLoop, CreateConnection, SendError
<1>2. PastWait(s)
  BY DEF SendLoop, CreateConnection, SendError, Take, At, PastWait
<1>3. \A u \in Senders : u # s => todo'[u] = todo[u]
  BY DEF SendLoop, CreateConnection, SendError, TypeInv
<1>4. PICK step \in Stages \ {"ready", "signal"} : pc' = [pc EXCEPT ![s] = step] \/ pc' = pc
  BY DEF SendLoop, CreateConnection, SendError, Take, Leave, Goto, Stages
<1>5. \A d \in Cores : d # s => pc'[d] = pc[d] BY <1>4 DEF TypeInv
<1>6. \A r \in Receivers : pc'[r] = pc[r] BY <1>5, CoreFacts
<1>7. \A u \in Senders : PastWait(u)' => PastWait(u)
  BY <1>2, <1>3, <1>5, CoreFacts DEF PastWait
<1> QED BY <1>1, <1>6, <1>7, ShakeKept

(* The receiver's side. *)
LEMMA ShakeListen ==
    ASSUME ThreadsAssumption, TypeInv, ShakeInv, NEW r \in Receivers, ServicePortConfig(r)
    PROVE  ShakeInv'
<1>1. UNCHANGED <<ready, todo>> /\ pc[r] = "listen" BY DEF ServicePortConfig, At
<1>2. PICK p \in ListenPorts(r) \ listening[r] :
         /\ listening' = [listening EXCEPT ![r] = listening[r] \cup {p}]
         /\ Goto(r, IF listening'[r] = ListenPorts(r) THEN "ready" ELSE "listen")
  BY DEF ServicePortConfig
<1>3. ListenPorts(r) \subseteq Int BY PairFacts DEF ListenPorts, NORMAL
<1>4. listening' \in [Receivers -> SUBSET Int] BY <1>2, <1>3 DEF ShakeInv
<1>5. \A q \in Receivers : listening'[q] = IF q = r THEN listening[r] \cup {p} ELSE listening[q]
  BY <1>2 DEF ShakeInv
<1>6. \A d \in Cores : d # r => pc'[d] = pc[d] BY <1>2 DEF TypeInv, Goto
<1>7. pc'[r] \in {"ready", "listen"} /\ (pc'[r] = "ready" => listening'[r] = ListenPorts(r))
  BY <1>2, CoreFacts DEF TypeInv, Goto
<1>8. ~ready[Pair(r)]
  <2>1. p \in ListenPorts(r) /\ p \notin listening[r] BY <1>2
  <2> QED BY <2>1 DEF ShakeInv, ReceiverShake
<1>9. \A q \in Receivers : ReceiverShake(q)'
  <2> SUFFICES ASSUME NEW q \in Receivers PROVE ReceiverShake(q)'
    OBVIOUS
  <2>1. CASE q = r BY <1>1, <1>7, <1>8, <2>1 DEF ReceiverShake
  <2>2. CASE q # r
    <3>1. pc'[q] = pc[q] /\ listening'[q] = listening[q] BY <1>5, <1>6, <2>2, CoreFacts
    <3> QED BY <1>1, <3>1 DEF ShakeInv, ReceiverShake
  <2> QED BY <2>1, <2>2
<1>10. \A s \in Senders : PastWait(s)' => ready'[s]
  BY <1>1, <1>6, CoreFacts DEF ShakeInv, PastWait
<1> QED BY <1>1, <1>4, <1>9, <1>10 DEF ShakeInv

LEMMA ShakeReady ==
    ASSUME ThreadsAssumption, TypeInv, ShakeInv, NEW r \in Receivers, SetReady(r)
    PROVE  ShakeInv'
<1>1. UNCHANGED <<listening, todo>> /\ pc[r] = "ready" BY DEF SetReady, At
<1>2. ready' = [ready EXCEPT ![Pair(r)] = TRUE] /\ Goto(r, "signal") BY DEF SetReady
<1>3. ready' \in [Senders -> BOOLEAN] BY <1>2 DEF ShakeInv
<1>4. \A s \in Senders : ready'[s] <=> ready[s] \/ s = Pair(r) BY <1>2 DEF ShakeInv
<1>5. \A d \in Cores : pc'[d] = IF d = r THEN "signal" ELSE pc[d]
  BY <1>2 DEF TypeInv, Goto
<1>6. \A q \in Receivers : ReceiverShake(q)'
  <2> SUFFICES ASSUME NEW q \in Receivers PROVE ReceiverShake(q)'
    OBVIOUS
  <2>1. Pair(r) \in Senders /\ Pair(q) \in Senders /\ q \in Cores /\ r \in Cores
    BY CoreFacts
  <2>2. CASE q = r
    <3>1. listening[r] = ListenPorts(r) BY <1>1 DEF ShakeInv, ReceiverShake
    <3> QED BY <1>1, <1>4, <2>1, <2>2, <3>1 DEF ReceiverShake
  <2>3. CASE q # r
    <3>1. pc'[q] = pc[q] /\ (ready'[Pair(q)] <=> ready[Pair(q)])
      BY <1>4, <1>5, <2>1, <2>3, PairFacts
    <3> QED BY <1>1, <3>1 DEF ShakeInv, ReceiverShake
  <2> QED BY <2>2, <2>3
<1>7. \A s \in Senders : PastWait(s)' => ready'[s]
  BY <1>1, <1>4, <1>5, CoreFacts DEF ShakeInv, PastWait
<1> QED BY <1>1, <1>3, <1>6, <1>7 DEF ShakeInv

LEMMA ShakeSignal ==
    ASSUME ThreadsAssumption, TypeInv, ShakeInv, NEW r \in Receivers, CondSignal(r)
    PROVE  ShakeInv'
<1>1. UNCHANGED <<ready, listening, todo>> /\ pc[r] = "signal" BY DEF CondSignal, At
<1>2. \A d \in Cores : pc'[d] # pc[d] => d = r \/ d = Pair(r) BY DEF CondSignal
<1>3. pc'[r] = "loop" BY CoreFacts DEF CondSignal
<1>4. ready[Pair(r)] BY <1>1 DEF ShakeInv, ReceiverShake
<1>5. \A q \in Receivers : pc'[q] = pc[q] \/ pc'[q] = "loop"
  BY <1>2, <1>3, CoreFacts
<1>6. \A s \in Senders : PastWait(s)' => ready[s]
  BY <1>1, <1>2, <1>4, CoreFacts DEF ShakeInv, PastWait
<1> QED BY <1>1, <1>5, <1>6 DEF ShakeInv, ReceiverShake

-----------------------------------------------------------------------------
LEMMA ShakeStart ==
    ASSUME ThreadsAssumption, Init PROVE ShakeInv
<1>1. \A r \in Receivers : pc[r] = "none" /\ ~ready[Pair(r)]
  BY CoreFacts DEF Init, ThreadsInit
<1>2. \A s \in Senders : ~PastWait(s)
  BY CoreFacts DEF Init, ThreadsInit, PastWait
<1> QED BY <1>1, <1>2 DEF Init, ThreadsInit, ShakeInv, ReceiverShake

LEMMA ShakeNext ==
    ASSUME ThreadsAssumption, ~Spurious, TypeInv, ShakeInv, [Next]_vars PROVE ShakeInv'
<1>1. ASSUME UNCHANGED <<pc, ready, listening, todo>> PROVE ShakeInv'
  BY <1>1 DEF ShakeInv, ReceiverShake, PastWait
<1>2. CASE \/ UNCHANGED vars \/ Abort \/ Sigint \/ Stack \/ MainSleep \/ MainReturn
  BY <1>1, <1>2 DEF vars, Abort, Sigint, Stack, Answer, Break, MainSleep, MainReturn
<1>3. ASSUME NEW c \in Cores, StartThread(c) \/ CreateContext(c) PROVE ShakeInv'
  <2>1. PICK step \in {"new", "init", "gone"} : Goto(c, step)
    BY <1>3 DEF StartThread, CreateContext
  <2> QED BY <1>3, <2>1, ShakeGoto DEF StartThread, CreateContext
<1>4. ASSUME NEW c \in Cores, RunContext(c) PROVE ShakeInv'
  <2>1. PICK step \in {"test", "listen"} : Goto(c, step) BY <1>4 DEF RunContext
  <2> QED BY <1>4, <2>1, ShakeGoto DEF RunContext
<1>5. ASSUME NEW s \in Senders, CondWait(s) PROVE ShakeInv'
  BY <1>5, ShakeGoto, CoreFacts DEF CondWait
<1>6. ASSUME NEW c \in Cores, EpollWait(c) PROVE ShakeInv'
  <2>1. pc[c] = "epoll" BY <1>6 DEF EpollWait, At
  <2> QED BY <1>6, <2>1, ShakeGoto DEF EpollWait, PastWait
<1>7. ASSUME NEW c \in Cores, NEW e \in batch[c], Take(c, e),
             UNCHANGED <<ready, listening, todo>>
      PROVE  ShakeInv'
  <2>1. pc[c] = "events" BY <1>7 DEF Take, At
  <2>2. PICK step \in {"loop", "events"} : Goto(c, step) BY <1>7 DEF Take
  <2> QED BY <1>7, <2>1, <2>2, ShakeGoto DEF PastWait
<1>8. ASSUME NEW s \in Senders, RunSendContext(s) PROVE ShakeInv'
  <2>1. CASE SendLoop(s) BY <2>1, ShakeSend
  <2>2. CASE EpollWait(s) BY <1>6, <2>2, CoreFacts
  <2>3. ASSUME NEW e \in batch[s], Transfer(s, e) PROVE ShakeInv'
    BY <1>7, <2>3, CoreFacts DEF Transfer
  <2>4. ASSUME NEW e \in batch[s], SendError(s, e) PROVE ShakeInv'
    BY <2>4, ShakeSend
  <2> QED BY <1>8, <2>1, <2>2, <2>3, <2>4 DEF RunSendContext
<1>9. ASSUME NEW r \in Receivers, RunRecvContext(r) PROVE ShakeInv'
  <2>1. CASE RecvLoop(r)
    <3>1. PICK step \in {"out", "epoll"} : Goto(r, step) BY <2>1 DEF RecvLoop
    <3> QED BY <2>1, <3>1, ShakeGoto, CoreFacts DEF RecvLoop
  <2>2. CASE EpollWait(r) BY <1>6, <2>2, CoreFacts
  <2>3. ASSUME NEW e \in batch[r], Transfer(r, e) \/ RecvAccept(r, e) \/ RecvError(r, e)
        PROVE  ShakeInv'
    <3>1. Take(r, e) /\ UNCHANGED <<ready, listening, todo>>
      BY <2>3 DEF Transfer, RecvAccept, RecvError
    <3> QED BY <1>7, <3>1, CoreFacts
  <2> QED BY <1>9, <2>1, <2>2, <2>3 DEF RunRecvContext
<1>10. ASSUME NEW c \in Cores, RunVnf(c) PROVE ShakeInv'
  <2>1. CASE CreateContext(c) \/ RunContext(c) BY <1>3, <1>4, <2>1
  <2>2. CASE c \in Senders /\ (TestReady(c) \/ CondWait(c))
    BY <1>5, <2>2, ShakeTest
  <2>3. CASE c \in Senders /\ CreateConnection(c) BY <2>3, ShakeSend
  <2>4. CASE c \in Receivers /\ (ServicePortConfig(c) \/ SetReady(c) \/ CondSignal(c))
    BY <2>4, ShakeListen, ShakeReady, ShakeSignal
  <2>5. CASE c \in Receivers /\ RunRecvContext(c) BY <1>9, <2>5
  <2> QED BY <1>10, <2>1, <2>2, <2>3, <2>4, <2>5 DEF RunVnf
<1>11. \A s \in Senders : ~SpuriousWakeup(s) BY DEF SpuriousWakeup
<1> QED BY <1>2, <1>3, <1>8, <1>10, <1>11 DEF Next, Main

(* Only CreateConnection makes the list of streams longer, and the one it  *)
(* opens is its sender's.                                                  *)
LEMMA OnlyConnectOpens ==
    ASSUME TypeInv, TypeInv', [Next]_vars, Len(streams') > Len(streams)
    PROVE  \E s \in Senders : todo[s] # <<>> /\ streams'[Len(streams')].core = s
<1>1. /\ streams \in Seq(Stream) /\ DOMAIN streams = 1..Len(streams) /\ Len(streams) \in Nat
      /\ DOMAIN streams' = 1..Len(streams') /\ Len(streams') \in Nat
  BY LenProperties DEF TypeInv
<1>2. DOMAIN streams' # DOMAIN streams
  <2>1. Len(streams') \in 1..Len(streams') /\ Len(streams') \notin 1..Len(streams)
    BY <1>1
  <2> QED BY <1>1, <2>1
<1>3. streams' # streams BY <1>2
<1>4. ~Stack BY <1>2 DEF Stack, Answer, Break
<1>5. ~\E s \in Senders : SendLoop(s) BY <1>2, <1>3 DEF SendLoop, Leave, Ids
<1>6. ~\E s \in Senders : \E e \in batch[s] : SendError(s, e)
  BY <1>2 DEF SendError, Closed
<1>7. ~\E r \in Receivers : \E e \in batch[r] : RecvAccept(r, e) \/ RecvError(r, e)
  BY <1>2, <1>3 DEF RecvAccept, RecvError
<1>8. ~\E c \in Cores : \/ StartThread(c) \/ CreateContext(c) \/ RunContext(c)
                        \/ EpollWait(c) \/ \E e \in batch[c] : Transfer(c, e)
  BY <1>3 DEF StartThread, CreateContext, RunContext, EpollWait, Transfer
<1>9. ~\E s \in Senders : \/ TestReady(s) \/ CondWait(s) \/ SpuriousWakeup(s)
                          \/ EpollWait(s) \/ \E e \in batch[s] : Transfer(s, e)
  BY <1>3 DEF TestReady, CondWait, SpuriousWakeup, EpollWait, Transfer
<1>10. ~\E r \in Receivers : \/ ServicePortConfig(r) \/ SetReady(r) \/ CondSignal(r)
                             \/ RecvLoop(r) \/ EpollWait(r)
                             \/ \E e \in batch[r] : Transfer(r, e)
  BY <1>3 DEF ServicePortConfig, SetReady, CondSignal, RecvLoop, EpollWait, Transfer
<1>11. ~(Abort \/ Sigint \/ MainSleep \/ MainReturn \/ UNCHANGED vars)
  BY <1>3 DEF Abort, Sigint, MainSleep, MainReturn, vars
<1>12. ~\E s \in Senders : RunSendContext(s)
  BY <1>5, <1>6, <1>9 DEF RunSendContext
<1>13. ~\E r \in Receivers : RunRecvContext(r)
  BY <1>7, <1>10 DEF RunRecvContext
<1>14. PICK s \in Senders : CreateConnection(s)
  BY <1>4, <1>8, <1>9, <1>10, <1>11, <1>12, <1>13 DEF Next, Main, RunVnf
<1>15. streams' = Append(streams, [core |-> s, port |-> Head(todo[s]),
                                   snd |-> "syn", rcv |-> "none"])
  BY <1>3, <1>14 DEF CreateConnection
<1>16. streams'[Len(streams')].core = s BY <1>1, <1>15, AppendProperties
<1> QED BY <1>14, <1>16 DEF CreateConnection

LEMMA ShakeOpens ==
    ASSUME ThreadsAssumption, ShakeInv, NEW s \in Senders, PastWait(s)
    PROVE  ready[s] /\ FirstPort(s) \in listening[NPairs + s]
<1>1. ready[s] BY DEF ShakeInv
<1>2. NPairs + s \in Receivers /\ Pair(NPairs + s) = s BY PairFacts
<1>3. listening[NPairs + s] = ListenPorts(NPairs + s)
  BY <1>1, <1>2 DEF ShakeInv, ReceiverShake
<1>4. ListenPorts(NPairs + s) = {FirstPort(s)}
  BY PairFacts DEF ListenPorts, FirstPort, NORMAL
<1> QED BY <1>1, <1>3, <1>4

(* The hand-shake of fv_mtcp.c, for any number of pairs and any order of   *)
(* the threads, with allocations that fail, streams that break and threads *)
(* that are interrupted: if no wait ends by itself, a sender opens streams *)
(* only after its receiver listens and has said so, whether it saw the     *)
(* flag or was woken up (fv_mtcp.c:239-243, 341-342).                      *)
THEOREM HandShakeTheorem ==
    ASSUME ThreadsAssumption, MtcpAssumption, ~Spurious
    PROVE  Spec => [][OpensAfterReady]_vars
<1>1. Init => ShakeInv BY ShakeStart
<1>2. MtcpInv /\ ShakeInv /\ [Next]_vars => ShakeInv'
  BY ShakeNext DEF MtcpInv
<1>3. MtcpInv /\ MtcpInv' /\ ShakeInv /\ [Next]_vars => OpensAfterReady
  <2> SUFFICES ASSUME MtcpInv, MtcpInv', ShakeInv, [Next]_vars, Len(streams') > Len(streams)
               PROVE  LET s == streams'[Len(streams')].core IN
                      ready[s] /\ FirstPort(s) \in listening[NPairs + s]
    BY DEF OpensAfterReady
  <2>1. TypeInv /\ TypeInv' BY DEF MtcpInv
  <2>2. PICK s \in Senders : todo[s] # <<>> /\ streams'[Len(streams')].core = s
    BY <2>1, OnlyConnectOpens
  <2>3. PastWait(s) BY <2>2 DEF PastWait
  <2> QED BY <2>2, <2>3, ShakeOpens
<1> QED BY <1>1, <1>2, <1>3, MtcpInvariant, PTL DEF Spec
=============================================================================
