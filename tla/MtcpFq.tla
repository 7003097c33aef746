-------------------------------- MODULE MtcpFq --------------------------------
(***************************************************************************)
(* fv_sched/code/fv_mtcp_fq.c: every sender opens one stream per flow, to  *)
(* a port of its own, and starts and ends its flows by a time table.  Both *)
(* ends number the streams by the order in which they first hear of them.  *)
(***************************************************************************)
EXTENDS Naturals, Sequences, FiniteSets

CONSTANTS
    NPairs, Spurious, Faults, MaySigint, MaxErrors, MaxStreams,
    NFlows,          \* PRT_PF
    StartTs, EndTs,  \* start_ts and end_ts of each flow, in steps of the clock
    Prompt           \* TRUE if a step of the clock is long enough for the
                     \* streams in progress to be set up, served and closed

NORMAL == 5001
Flows == 0..(NFlows - 1)
Port(c, j) == NORMAL + (c % NPairs) * NFlows + j
ListenPorts(r) == {Port(r, j) : j \in Flows}

VARIABLES
    alive, pc, done, ready, listening, todo, streams, batch, errors,
    elapsed,  \* the clock of each sender, from its start
    begun,    \* ifstart of each sender
    ended,    \* ifend of each sender
    evid,     \* evid of each sender: the stream it takes for flow j, or 0
    slot      \* evid of each receiver

INSTANCE MtcpThreads WITH Ports <- ListenPorts, Accepts <- ListenPorts

FqAssumption ==
    /\ NFlows \in Nat \ {0}
    /\ StartTs \in [Flows -> Nat] /\ EndTs \in [Flows -> Nat]
    /\ \A j \in Flows : StartTs[j] < EndTs[j]
    /\ Prompt \in BOOLEAN

own == <<elapsed, begun, ended, evid, slot>>
vars == <<alive, pc, done, ready, listening, todo, streams, batch, errors, own>>

Init ==
    /\ ThreadsInit
    /\ elapsed = [s \in Senders |-> 0]
    /\ begun = [s \in Senders |-> {}] /\ ended = [s \in Senders |-> {}]
    /\ evid = [s \in Senders |-> [j \in Flows |-> 0]]
    /\ slot = [r \in Receivers |-> [j \in Flows |-> 0]]

-----------------------------------------------------------------------------
(* Fault: the last entry is tried first. *)
RecordLast(t, id) ==
    LET hit == {j \in Flows : t[j] \in {0, id}} IN
    [j \in Flows |-> IF j \in hit /\ \A k \in hit : j >= k THEN id ELSE t[j]]

(* The first entry of table t that is free or already stands for id.       *)
Record(t, id) ==
    LET hit == {j \in Flows : t[j] \in {0, id}} IN
    [j \in Flows |-> IF j \in hit /\ \A k \in hit : j <= k THEN id ELSE t[j]]

ToStart(s) == {j \in Flows \ begun[s] : elapsed[s] >= StartTs[j]}
ToEnd(s) == {j \in begun[s] \ ended[s] : elapsed[s] >= EndTs[j]}

Recorded(s) == {evid[s][j] : j \in Flows}
Open(s) == {i \in Ids : streams[i].core = s /\ streams[i].snd \in {"syn", "open"}}

(* What was begun before is over when the clock moves, if it is prompt. *)
Settled(s) ==
    /\ ToStart(s) = {} /\ ToEnd(s) = {} /\ todo[s] = <<>>
    /\ \A i \in Open(s) :
          /\ streams[i].snd = "open" /\ i \in Recorded(s)
          /\ \E r \in Receivers : \E j \in Flows : slot[r][j] = i

Tick(s) ==
    /\ alive /\ pc[s] \in {"loop", "epoll", "events"}
    /\ \E j \in Flows : elapsed[s] < EndTs[j]
    /\ Prompt => Settled(s)
    /\ elapsed' = [elapsed EXCEPT ![s] = @ + 1]
    /\ UNCHANGED <<alive, pc, done, ready, listening, todo, streams, batch,
                   errors, begun, ended, evid, slot>>

-----------------------------------------------------------------------------
SeqOfPorts(s, S) ==
    [n \in 1..Cardinality(S) |->
        Port(s, CHOOSE j \in S : Cardinality({k \in S : k < j}) = n - 1)]

(* Fault: the end of the last flow is not the end of the loop. *)
ScheduleOn(s) ==
    /\ At(s, "loop") /\ ~done[s]
    /\ todo' = [todo EXCEPT ![s] = SeqOfPorts(s, ToStart(s))]
    /\ begun' = [begun EXCEPT ![s] = @ \cup ToStart(s)]
    /\ ended' = [ended EXCEPT ![s] = @ \cup ToEnd(s)]
    /\ streams' = [i \in Ids |-> IF \E j \in ToEnd(s) : evid[s][j] = i
                                 THEN Closed(i)[i] ELSE streams[i]]
    /\ Goto(s, "epoll")
    /\ UNCHANGED <<alive, done, ready, listening, batch, errors, elapsed, evid, slot>>

(* The time table: flows that are due are started and ended.  After the    *)
(* end of the last one the sender leaves.                                  *)
Schedule(s) ==
    /\ At(s, "loop") /\ ~done[s]
    /\ todo' = [todo EXCEPT ![s] = SeqOfPorts(s, ToStart(s))]
    /\ begun' = [begun EXCEPT ![s] = @ \cup ToStart(s)]
    /\ ended' = [ended EXCEPT ![s] = @ \cup ToEnd(s)]
    /\ streams' = [i \in Ids |-> IF \E j \in ToEnd(s) : evid[s][j] = i
                                 THEN Closed(i)[i] ELSE streams[i]]
    /\ Goto(s, IF ended'[s] = Flows THEN "break" ELSE "epoll")
    /\ UNCHANGED <<alive, done, ready, listening, batch, errors, elapsed, evid, slot>>

SendOut(s) ==
    /\ \/ At(s, "loop") /\ done[s]
       \/ At(s, "break")
    /\ Leave(s)
    /\ UNCHANGED <<alive, done, ready, listening, todo, batch, errors, own>>

(* Fault: the stream is recorded without looking for it first. *)
SendWriteAppends(s, e) ==
    LET free == {j \in Flows : evid[s][j] = 0} IN
    /\ e.kind = "out"
    /\ Take(s, e)
    /\ evid' = [evid EXCEPT ![s] =
                   [j \in Flows |-> IF j \in free /\ \A k \in free : j <= k
                                    THEN e.id ELSE @[j]]]
    /\ UNCHANGED <<alive, done, ready, listening, todo, streams, errors,
                   elapsed, begun, ended, slot>>

(* A stream that may be written to is recorded, and written to. *)
SendWrite(s, e) ==
    /\ e.kind = "out"
    /\ Take(s, e)
    /\ evid' = [evid EXCEPT ![s] = Record(@, e.id)]
    /\ UNCHANGED <<alive, done, ready, listening, todo, streams, errors,
                   elapsed, begun, ended, slot>>

(* A broken stream is closed; its entry stays. *)
SendError(s, e) ==
    /\ e.kind = "err"
    /\ Take(s, e)
    /\ streams' = Closed(e.id)
    /\ UNCHANGED <<alive, done, ready, listening, todo, errors, own>>

RunSendContext(s) ==
    \/ Schedule(s) \/ SendOut(s)
    \/ EpollWait(s) /\ UNCHANGED own
    \/ \E e \in batch[s] :
          \/ SendWrite(s, e) \/ SendError(s, e)
          \/ e.kind = "in" /\ Transfer(s, e) /\ UNCHANGED own

(* Bytes are counted for the first entry that is free or stands for the    *)
(* stream, and printed as those of flow j.                                 *)
RecvRead(r, e) ==
    /\ e.kind = "in"
    /\ Transfer(r, e)
    /\ slot' = [slot EXCEPT ![r] = Record(@, e.id)]
    /\ UNCHANGED <<elapsed, begun, ended, evid>>

RunReceiver(r) ==
    \/ (RecvLoop(r) \/ EpollWait(r)) /\ UNCHANGED own
    \/ \E e \in batch[r] : \/ RecvRead(r, e)
                           \/ (RecvAccept(r, e) \/ RecvError(r, e)) /\ UNCHANGED own

(* main joins the senders, and ends. *)
MainReturn ==
    /\ alive /\ AllStarted /\ \A s \in Senders : pc[s] \in {"out", "gone"}
    /\ alive' = FALSE
    /\ UNCHANGED <<pc, done, ready, listening, todo, streams, batch, errors, own>>

-----------------------------------------------------------------------------
SetUp(c) ==
    /\ \/ StartThread(c) \/ CreateContext(c) \/ RunContext(c)
       \/ c \in Senders /\ (TestReady(c) \/ CondWait(c) \/ CreateConnection(c))
       \/ c \in Receivers /\ (ServicePortConfig(c) \/ SetReady(c) \/ CondSignal(c))
    /\ UNCHANGED own

RunVnf(c) == SetUp(c) \/ (c \in Senders /\ RunSendContext(c))
                      \/ (c \in Receivers /\ RunReceiver(c))

Environment ==
    /\ Abort \/ Sigint \/ Stack \/ \E s \in Senders : SpuriousWakeup(s)
    /\ UNCHANGED own

Next ==
    \/ \E c \in Cores : RunVnf(c)
    \/ Environment \/ MainReturn
    \/ \E s \in Senders : Tick(s)

Spec == Init /\ [][Next]_vars

-----------------------------------------------------------------------------

(* The time table speaks of flows, the loop of streams in the order in     *)
(* which they were first heard of.  If the streams are set up in less time *)
(* than lies between two starts, the two agree: the end of a flow closes   *)
(* the stream of that flow (fv_mtcp_fq.c:264-268, 283-291).                *)
EndsItsOwn ==
    \A s \in Senders : \A j \in ended'[s] \ ended[s] :
       /\ evid[s][j] # 0
       /\ streams[evid[s][j]].port = Port(s, j)
       /\ streams'[evid[s][j]].snd = "closed"

(* Under the same condition the bytes a receiver prints for port j are     *)
(* those of the stream of that port (fv_mtcp_fq.c:403-424).                *)
SlotsMatchFlows ==
    \A r \in Receivers : \A j \in Flows :
       slot[r][j] # 0 => streams[slot[r][j]].port = Port(r, j)

(* However late streams are set up and whatever breaks, no stream stands   *)
(* for two flows at either end: nothing is closed or counted twice         *)
(* (fv_mtcp_fq.c:283-291, 404-413).                                        *)
OneEntryEach ==
    \A t \in {evid[s] : s \in Senders} \cup {slot[r] : r \in Receivers} :
       \A j, k \in Flows : t[j] = t[k] => j = k \/ t[j] = 0

(* An event that is still to be dealt with is about a stream the sender    *)
(* has not closed, by the time table or after an error                     *)
(* (fv_mtcp_fq.c:257-314).                                                 *)
NoStaleEvent ==
    \A s \in Senders : \A e \in batch[s] : streams[e.id].snd # "closed"
=============================================================================
