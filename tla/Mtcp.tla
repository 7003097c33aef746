--------------------------------- MODULE Mtcp ---------------------------------
(* fv_sched/code/fv_mtcp.c: one port per pair, and a main thread that ends *)
(* some of the threads after some time.                                    *)
EXTENDS Naturals, Sequences, FiniteSets

CONSTANTS
    NPairs, Spurious, Faults, MaySigint, MaxErrors, MaxStreams,
    NumConnection,   \* -p: streams of a sender
    Stops            \* the cores main stops after each of its sleeps

NORMAL == 5001

(* dport_normal *)
ListenPorts(r) == {NORMAL + r - NPairs}

VARIABLES
    alive, pc, done, ready, listening, todo, streams, batch, errors,
    opened,  \* complete_conn of each sender
    stage    \* sleeps of the main thread that are over

INSTANCE MtcpThreads WITH Ports <- ListenPorts, Accepts <- ListenPorts

MtcpAssumption ==
    /\ NumConnection \in Nat
    /\ Stops \in Seq(SUBSET Cores)

vars == <<alive, pc, done, ready, listening, todo, streams, batch, errors,
          opened, stage>>

Init == ThreadsInit /\ opened = [s \in Senders |-> 0] /\ stage = 0

FirstPort(s) == NORMAL + s
NextPort(s) == NORMAL + s - NPairs

-----------------------------------------------------------------------------
(* Fault: the flag is not tested. *)
SendLoopForever(s) ==
    /\ At(s, "loop")
    /\ todo' = [todo EXCEPT ![s] =
                   [i \in 1..(NumConnection - opened[s]) |-> FirstPort(s)]]
    /\ opened' = [opened EXCEPT ![s] = NumConnection]
    /\ Goto(s, "epoll")
    /\ UNCHANGED <<streams, alive, done, ready, listening, batch, errors, stage>>

(* The head of the loop: the flag, and the streams that were never tried.  *)
SendLoop(s) ==
    /\ At(s, "loop")
    /\ IF done[s] THEN Leave(s) /\ UNCHANGED <<todo, opened>>
       ELSE /\ todo' = [todo EXCEPT ![s] =
                           [i \in 1..(NumConnection - opened[s]) |-> FirstPort(s)]]
            /\ opened' = [opened EXCEPT ![s] = NumConnection]
            /\ Goto(s, "epoll")
            /\ UNCHANGED streams
    /\ UNCHANGED <<alive, done, ready, listening, batch, errors, stage>>

(* Fault: the broken stream is not closed. *)
SendErrorOpen(s, e) ==
    /\ e.kind = "err"
    /\ Take(s, e)
    /\ todo' = [todo EXCEPT ![s] = <<NextPort(s)>>]
    /\ UNCHANGED <<alive, done, ready, listening, streams, errors, opened, stage>>

(* A broken stream is closed, and another one is opened in its place.      *)
SendError(s, e) ==
    /\ e.kind = "err"
    /\ Take(s, e)
    /\ streams' = Closed(e.id)
    /\ todo' = [todo EXCEPT ![s] = <<NextPort(s)>>]
    /\ UNCHANGED <<alive, done, ready, listening, errors, opened, stage>>

RunSendContext(s) ==
    \/ SendLoop(s)
    \/ EpollWait(s) /\ UNCHANGED <<opened, stage>>
    \/ \E e \in batch[s] : Transfer(s, e) /\ UNCHANGED <<opened, stage>>
    \/ \E e \in batch[s] : At(s, "events") /\ SendError(s, e)

(* main: a sleep is over, or the last one is and the process ends. *)
MainSleep ==
    /\ alive /\ AllStarted /\ stage < Len(Stops)
    /\ done' = [c \in Cores |-> done[c] \/ c \in Stops[stage + 1]]
    /\ stage' = stage + 1
    /\ UNCHANGED <<alive, pc, ready, listening, todo, streams, batch, errors, opened>>

MainReturn ==
    /\ alive /\ AllStarted /\ stage = Len(Stops)
    /\ alive' = FALSE
    /\ UNCHANGED <<pc, done, ready, listening, todo, streams, batch, errors,
                   opened, stage>>

-----------------------------------------------------------------------------
RunVnf(c) ==
    \/ CreateContext(c) \/ RunContext(c)
    \/ c \in Senders /\ (TestReady(c) \/ CondWait(c) \/ CreateConnection(c))
    \/ c \in Receivers /\ (ServicePortConfig(c) \/ SetReady(c) \/ CondSignal(c)
                           \/ RunRecvContext(c))

Main == \E c \in Cores : StartThread(c)

Next ==
    \/ /\ \/ Abort \/ Main \/ Sigint \/ Stack
          \/ \E c \in Cores : RunVnf(c)
          \/ \E s \in Senders : SpuriousWakeup(s)
       /\ UNCHANGED <<opened, stage>>
    \/ \E s \in Senders : RunSendContext(s)
    \/ MainSleep \/ MainReturn

Spec == Init /\ [][Next]_vars

ThreadStep(c) ==
    \/ (StartThread(c) \/ RunVnf(c)) /\ UNCHANGED <<opened, stage>>
    \/ c \in Senders /\ RunSendContext(c)

-----------------------------------------------------------------------------

Live(s) == {i \in Ids : streams[i].core = s /\ streams[i].snd # "closed"}

(* However often streams break and are replaced, a sender never has more   *)
(* of them than it counted in complete_conn, which is never more than it   *)
(* was asked for (fv_mtcp.c:256-260, 283-288).                             *)
StreamsBounded == \A s \in Senders : Cardinality(Live(s)) + Len(todo[s]) <= opened[s]

(* An event that is still to be dealt with is about a stream the thread    *)
(* has not closed: a descriptor is never closed twice or used after it was *)
(* closed, although a batch may be older than the state of its streams     *)
(* (fv_mtcp.c:262-292).                                                    *)
NoStaleEvent ==
    \A s \in Senders : \A e \in batch[s] : streams[e.id].snd # "closed"

(* "wait for receiver ready" (fv_mtcp.c:241): a step that opens a stream   *)
(* is one of a sender whose receiver is ready and listens on the port of   *)
(* the pair.  Only if no wait ends by itself.                              *)
OpensAfterReady ==
    Len(streams') > Len(streams) =>
        LET s == streams'[Len(streams')].core IN
        ready[s] /\ FirstPort(s) \in listening[NPairs + s]
=============================================================================
