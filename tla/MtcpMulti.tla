------------------------------- MODULE MtcpMulti -------------------------------
(***************************************************************************)
(* fv_sched/code/fv_mtcp_fq_multi.c: every flow of a sender is several     *)
(* streams, each to a port of its own.  The sender numbers its streams in  *)
(* a table with a group of entries per flow; the receiver counts bytes per *)
(* stream, and takes new streams from its first ports only.                *)
(***************************************************************************)
EXTENDS Naturals, Sequences, FiniteSets

CONSTANTS
    NPairs, Spurious, Faults, MaySigint, MaxErrors, MaxStreams,
    NFlows,          \* flows of a sender; this and NPairs are PRT_PF
    Connection,      \* -p: streams of a flow
    MaxFnum,         \* MAX_FNUM: ports there are; port numbers wrap at it
    StartTs, EndTs,  \* start_ts and end_ts of each flow, in steps of the clock
    Prompt           \* TRUE if a step of the clock is long enough for the
                     \* streams in progress to be set up, served and closed

NORMAL == 5001
Flows == 0..(NFlows - 1)
Conns == 0..(Connection - 1)
PerPortNum == MaxFnum \div NPairs
PerFlowNum == PerPortNum \div NFlows

(* dport_normal and the destinations of CreateConnection: 16 bits. *)
PortOf(idx) == (NORMAL + idx) % MaxFnum
ListenPorts(r) == {PortOf((r - NPairs) * PerPortNum + i) : i \in 0..(PerPortNum - 1)}
AcceptPorts(r) ==
    {PortOf((r - NPairs) * PerPortNum + i) : i \in {n \in Flows : n < PerPortNum}}
Port(s, j, k) == PortOf(s * PerPortNum + j * PerPortNum + k)

VARIABLES
    alive, pc, done, ready, listening, todo, streams, batch, errors,
    elapsed,  \* the clock of each sender, from its start
    begun,    \* ifstart of each sender
    ended,    \* ifend of each sender
    evid,     \* evid of each sender: the stream it takes for the k-th one
              \* of flow j, or 0
    slot      \* evid of each receiver

INSTANCE MtcpThreads WITH Ports <- ListenPorts, Accepts <- AcceptPorts

(* The second line is an assertion of the code that is commented out.     *)
MultiAssumption ==
    /\ NFlows \in Nat \ {0} /\ Connection \in Nat \ {0} /\ MaxFnum \in Nat \ {0}
    /\ Connection <= PerFlowNum
    /\ StartTs \in [Flows -> Nat] /\ EndTs \in [Flows -> Nat]
    /\ \A j \in Flows : StartTs[j] < EndTs[j]
    /\ Prompt \in BOOLEAN

own == <<elapsed, begun, ended, evid, slot>>
vars == <<alive, pc, done, ready, listening, todo, streams, batch, errors, own>>

Init ==
    /\ ThreadsInit
    /\ elapsed = [s \in Senders |-> 0]
    /\ begun = [s \in Senders |-> {}] /\ ended = [s \in Senders |-> {}]
    /\ evid = [s \in Senders |-> [j \in Flows |-> [k \in Conns |-> 0]]]
    /\ slot = [r \in Receivers |-> [j \in Flows |-> 0]]

-----------------------------------------------------------------------------
(* The first entry of table t that is free or already stands for id.       *)
Record(t, id) ==
    LET hit == {n \in DOMAIN t : t[n] \in {0, id}} IN
    [n \in DOMAIN t |-> IF n \in hit /\ \A m \in hit : n <= m THEN id ELSE t[n]]

ToStart(s) == {j \in Flows \ begun[s] : elapsed[s] >= StartTs[j]}
ToEnd(s) == {j \in begun[s] \ ended[s] : elapsed[s] >= EndTs[j]}

(* Their ports, flow by flow, and the streams that are taken for theirs.   *)
ToConnect(s) ==
    LET before(j) == Cardinality({f \in ToStart(s) : f < j}) IN
    [n \in 1..(Cardinality(ToStart(s)) * Connection) |->
        LET j == CHOOSE f \in ToStart(s) : before(f) = (n - 1) \div Connection
        IN Port(s, j, (n - 1) % Connection)]
ToClose(s) == {evid[s][j][k] : j \in ToEnd(s), k \in Conns}

Recorded(s) == {evid[s][j][k] : j \in Flows, k \in Conns}
Open(s) == {i \in Ids : streams[i].core = s /\ streams[i].snd \in {"syn", "open"}}

(* What was begun before is over when the clock moves, if it is prompt. *)
Settled(s) ==
    /\ ToStart(s) = {} /\ ToEnd(s) = {} /\ todo[s] = <<>>
    /\ \A i \in Open(s) :
          /\ streams[i].snd = "open"
          /\ i \in Recorded(s) \/ 0 \notin Recorded(s)

Tick(s) ==
    /\ alive /\ pc[s] \in {"loop", "epoll", "events"}
    /\ \E j \in Flows : elapsed[s] < EndTs[j]
    /\ Prompt => Settled(s)
    /\ elapsed' = [elapsed EXCEPT ![s] = @ + 1]
    /\ UNCHANGED <<alive, pc, done, ready, listening, todo, streams, batch,
                   errors, begun, ended, evid, slot>>

-----------------------------------------------------------------------------
(* Fault: the end of the last flow is not the end of the loop. *)
ScheduleOn(s) ==
    /\ At(s, "loop") /\ ~done[s]
    /\ todo' = [todo EXCEPT ![s] = ToConnect(s)]
    /\ begun' = [begun EXCEPT ![s] = @ \cup ToStart(s)]
    /\ ended' = [ended EXCEPT ![s] = @ \cup ToEnd(s)]
    /\ streams' = [i \in Ids |-> IF i \in ToClose(s) THEN Closed(i)[i] ELSE streams[i]]
    /\ Goto(s, "epoll")
    /\ UNCHANGED <<alive, done, ready, listening, batch, errors, elapsed, evid, slot>>

(* The time table: flows that are due are started, all their streams, and  *)
(* ended, all that are recorded for them.  After the end of the last one   *)
(* the sender leaves.                                                      *)
Schedule(s) ==
    /\ At(s, "loop") /\ ~done[s]
    /\ todo' = [todo EXCEPT ![s] = ToConnect(s)]
    /\ begun' = [begun EXCEPT ![s] = @ \cup ToStart(s)]
    /\ ended' = [ended EXCEPT ![s] = @ \cup ToEnd(s)]
    /\ streams' = [i \in Ids |-> IF i \in ToClose(s) THEN Closed(i)[i] ELSE streams[i]]
    /\ Goto(s, IF ended'[s] = Flows THEN "break" ELSE "epoll")
    /\ UNCHANGED <<alive, done, ready, listening, batch, errors, elapsed, evid, slot>>

SendOut(s) ==
    /\ \/ At(s, "loop") /\ done[s]
       \/ At(s, "break")
    /\ Leave(s)
    /\ UNCHANGED <<alive, done, ready, listening, todo, batch, errors, own>>

(* Fault: a stream for which there is no free entry takes the last one. *)
SendWriteOverwrites(s, e) ==
    /\ e.kind = "out"
    /\ Take(s, e)
    /\ evid' = [evid EXCEPT ![s] =
                   [j \in Flows |-> IF {0, e.id} \cap Recorded(s) = {}
                                    THEN [evid[s][j] EXCEPT ![Connection - 1] = e.id]
                                    ELSE Record(evid[s][j], e.id)]]
    /\ UNCHANGED <<alive, done, ready, listening, todo, streams, errors,
                   elapsed, begun, ended, slot>>

(* A stream that may be written to is recorded, in every group (a break    *)
(* leaves the loop over one group only), and written to.                   *)
SendWrite(s, e) ==
    /\ e.kind = "out"
    /\ Take(s, e)
    /\ evid' = [evid EXCEPT ![s] = [j \in Flows |-> Record(evid[s][j], e.id)]]
    /\ UNCHANGED <<alive, done, ready, listening, todo, streams, errors,
                   elapsed, begun, ended, slot>>

(* A broken stream is closed; its entry stays. *)
SendError(s, e) ==
    /\ e.kind = "err"
    /\ Take(s, e)
    /\ streams' = Closed(e.id)
    /\ UNCHANGED <<alive, done, ready, listening, todo, errors, own>>

RunSendContext(s) ==
    \/ Schedule(s) \/ SendOut(s)
    \/ EpollWait(s) /\ UNCHANGED own
    \/ \E e \in batch[s] :
          \/ SendWrite(s, e) \/ SendError(s, e)
          \/ e.kind = "in" /\ Transfer(s, e) /\ UNCHANGED own

(* Bytes are counted for the first entry that is free or stands for the    *)
(* stream, and printed as those of flow j.                                 *)
RecvRead(r, e) ==
    /\ e.kind = "in"
    /\ Transfer(r, e)
    /\ slot' = [slot EXCEPT ![r] = Record(@, e.id)]
    /\ UNCHANGED <<elapsed, begun, ended, evid>>

RunReceiver(r) ==
    \/ (RecvLoop(r) \/ EpollWait(r)) /\ UNCHANGED own
    \/ \E e \in batch[r] : \/ RecvRead(r, e)
                           \/ (RecvAccept(r, e) \/ RecvError(r, e)) /\ UNCHANGED own

(* main joins the senders, and ends. *)
MainReturn ==
    /\ alive /\ AllStarted /\ \A s \in Senders : pc[s] \in {"out", "gone"}
    /\ alive' = FALSE
    /\ UNCHANGED <<pc, done, ready, listening, todo, streams, batch, errors, own>>

-----------------------------------------------------------------------------
SetUp(c) ==
    /\ \/ StartThread(c) \/ CreateContext(c) \/ RunContext(c)
       \/ c \in Senders /\ (TestReady(c) \/ CondWait(c) \/ CreateConnection(c))
       \/ c \in Receivers /\ (ServicePortConfig(c) \/ SetReady(c) \/ CondSignal(c))
    /\ UNCHANGED own

RunVnf(c) == SetUp(c) \/ (c \in Senders /\ RunSendContext(c))
                      \/ (c \in Receivers /\ RunReceiver(c))

Environment ==
    /\ Abort \/ Sigint \/ Stack \/ \E s \in Senders : SpuriousWakeup(s)
    /\ UNCHANGED own

Next ==
    \/ \E c \in Cores : RunVnf(c)
    \/ Environment \/ MainReturn
    \/ \E s \in Senders : Tick(s)

Spec == Init /\ [][Next]_vars

-----------------------------------------------------------------------------
(* The flow a stream was opened for, if none was refused. *)
FlowOf(i) ==
    LET s == streams[i].core IN
    Cardinality({n \in Ids : n < i /\ streams[n].core = s}) \div Connection

(* Only the first streams that were heard of are recorded, for every flow  *)
(* alike.  Still, if the streams are set up in less time than lies between *)
(* two starts, the end of a flow closes no stream of a flow that goes on   *)
(* (fv_mtcp_fq_multi.c:272-276, 292-302).                                  *)
SparesOthers ==
    \A s \in Senders : \A i \in Ids :
       /\ streams[i].core = s /\ streams[i].snd = "open"
       /\ streams'[i].snd = "closed" /\ ended'[s] # ended[s]
       => FlowOf(i) \in ended'[s]

(* An event that is still to be dealt with is about a stream the sender    *)
(* has not closed, although a stream may be closed by the ends of several  *)
(* flows and after an error (fv_mtcp_fq_multi.c:262-328).                  *)
NoStaleEvent ==
    \A s \in Senders : \A e \in batch[s] : streams[e.id].snd # "closed"
=============================================================================
