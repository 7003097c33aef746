----------------------------- MODULE MtcpThreads -----------------------------
(***************************************************************************)
(* What the three programs fv_sched/code/fv_mtcp*.c have in common.        *)
(* Threads on cores 0 .. NPairs - 1 send and those on the next NPairs      *)
(* cores receive; sender c and receiver NPairs + c are a pair.  A sender   *)
(* waits for its receiver on a condition variable, opens streams and       *)
(* serves their events; a receiver accepts and reads.  Every thread polls  *)
(* its flag done, but only between two returns of mtcp_epoll_wait, which   *)
(* is called without a timeout.                                            *)
(*                                                                         *)
(* External: the stack.  It opens a stream, or reports an error, and       *)
(* raises events.  A stream is named by the order of its creation.         *)
(***************************************************************************)
EXTENDS Naturals, Sequences, FiniteSets

CONSTANTS
    NPairs,       \* PAIR_NUM
    Ports(_),     \* the ports a receiver is configured to listen on
    Accepts(_),   \* those of them whose events it takes for new streams
    Spurious,     \* TRUE if a wait may end without a signal
    Faults,       \* TRUE if an allocation or a call of the stack may fail
    MaySigint,    \* TRUE if the user may interrupt the program
    MaxErrors,    \* bound: streams that break
    MaxStreams    \* bound: streams that are opened

ThreadsAssumption ==
    /\ NPairs \in Nat \ {0}
    /\ {Spurious, Faults, MaySigint} \subseteq BOOLEAN
    /\ MaxErrors \in Nat /\ MaxStreams \in Nat

Senders == 0..(NPairs - 1)
Receivers == NPairs..(2 * NPairs - 1)
Cores == Senders \cup Receivers

VARIABLES
    alive,      \* the process runs
    pc,         \* what each thread does next
    done,       \* done[core]
    ready,      \* ready[pair]
    listening,  \* the ports on which each receiver listens
    todo,       \* ports a sender is about to connect to
    streams,    \* the streams that were opened: the sender's core and port; its
                \* end, "syn", "open", "broken" or "closed"; and the receiver's,
                \* "none", "queued", "accepted" or "closed"
    batch,      \* events a thread got from mtcp_epoll_wait: their kind, "out",
                \* "in", "err" or "accept", and the stream they are about
    errors      \* streams that broke so far

threads == <<alive, pc, done, ready, listening, todo, streams, batch, errors>>

(* sig_map *)
Pair(c) == c % NPairs

Ids == DOMAIN streams

ThreadsInit ==
    /\ alive = TRUE
    /\ pc = [c \in Cores |-> "none"]
    /\ done = [c \in Cores |-> FALSE]
    /\ ready = [p \in Senders |-> FALSE]
    /\ listening = [r \in Receivers |-> {}]
    /\ todo = [s \in Senders |-> <<>>]
    /\ streams = <<>>
    /\ batch = [c \in Cores |-> {}]
    /\ errors = 0

-----------------------------------------------------------------------------
At(c, step) == alive /\ pc[c] = step /\ (c \in Senders => todo[c] = <<>>)
Goto(c, step) == pc' = [pc EXCEPT ![c] = step]

(* exit(): an initialisation that fails ends the process. *)
Abort ==
    /\ alive /\ Faults
    /\ \E c \in Cores : \/ pc[c] \in {"init", "listen"}
                        \/ c \in Senders /\ todo[c] # <<>>
    /\ alive' = FALSE
    /\ UNCHANGED <<pc, done, ready, listening, todo, streams, batch, errors>>

(* main: done[i] = False and pthread_create, core by core. *)
StartThread(c) ==
    /\ alive /\ pc[c] = "none" /\ \A d \in 0..(c - 1) : pc[d] # "none"
    /\ done' = [done EXCEPT ![c] = FALSE]
    /\ Goto(c, "new")
    /\ UNCHANGED <<alive, ready, listening, todo, streams, batch, errors>>

AllStarted == \A c \in Cores : pc[c] # "none"

(* RunVnf: a thread without a context returns at once. *)
CreateContext(c) ==
    /\ At(c, "new")
    /\ \/ Goto(c, "init")
       \/ Faults /\ Goto(c, "gone")
    /\ UNCHANGED <<alive, done, ready, listening, todo, streams, batch, errors>>

RunContext(c) ==
    /\ At(c, "init")
    /\ Goto(c, IF c \in Senders THEN "test" ELSE "listen")
    /\ UNCHANGED <<alive, done, ready, listening, todo, streams, batch, errors>>

Sigint ==
    /\ alive /\ MaySigint /\ \E c \in Cores : ~done[c]
    /\ done' = [c \in Cores |-> TRUE]
    /\ UNCHANGED <<alive, pc, ready, listening, todo, streams, batch, errors>>

-----------------------------------------------------------------------------
(* The hand-shake.  The sender does not hold the mutex when it tests ready *)
(* and when it starts to wait, so the two are separate steps.              *)
TestReadyNever(s) ==    \* fault
    /\ At(s, "test")
    /\ Goto(s, "wait")
    /\ UNCHANGED <<alive, done, ready, listening, todo, streams, batch, errors>>

TestReady(s) ==
    /\ At(s, "test")
    /\ Goto(s, IF ready[Pair(s)] THEN "loop" ELSE "wait")
    /\ UNCHANGED <<alive, done, ready, listening, todo, streams, batch, errors>>

CondWait(s) ==
    /\ At(s, "wait")
    /\ Goto(s, "waiting")
    /\ UNCHANGED <<alive, done, ready, listening, todo, streams, batch, errors>>

(* The wait ends without a signal, and nothing is tested again. *)
SpuriousWakeup(s) ==
    /\ At(s, "waiting") /\ Spurious
    /\ Goto(s, "loop")
    /\ UNCHANGED <<alive, done, ready, listening, todo, streams, batch, errors>>

(* Fault: the receiver signals before it listens on all its ports. *)
ServicePortConfigLast(r) ==
    /\ At(r, "listen")
    /\ \E p \in Ports(r) :
          listening' = [listening EXCEPT ![r] = Ports(r) \ {p}]
    /\ Goto(r, "ready")
    /\ UNCHANGED <<alive, done, ready, todo, streams, batch, errors>>

ServicePortConfig(r) ==
    /\ At(r, "listen")
    /\ \E p \in Ports(r) \ listening[r] :
          /\ listening' = [listening EXCEPT ![r] = @ \cup {p}]
          /\ Goto(r, IF listening'[r] = Ports(r) THEN "ready" ELSE "listen")
    /\ UNCHANGED <<alive, done, ready, todo, streams, batch, errors>>

SetReady(r) ==
    /\ At(r, "ready")
    /\ ready' = [ready EXCEPT ![Pair(r)] = TRUE]
    /\ Goto(r, "signal")
    /\ UNCHANGED <<alive, done, listening, todo, streams, batch, errors>>

(* pthread_cond_signal reaches a sender that waits already. *)
CondSignal(r) ==
    /\ At(r, "signal")
    /\ pc' = [c \in Cores |->
                 CASE c = r -> "loop"
                   [] c = Pair(r) /\ pc[c] = "waiting" -> "loop"
                   [] OTHER -> pc[c]]
    /\ UNCHANGED <<alive, done, ready, listening, todo, streams, batch, errors>>

-----------------------------------------------------------------------------
(* CreateConnection for the next port of the list: without a socket, or    *)
(* when the connect is refused at once, it returns and opens no stream.    *)
CreateConnection(s) ==
    /\ alive /\ todo[s] # <<>>
    /\ \/ /\ Len(streams) < MaxStreams
          /\ streams' = Append(streams, [core |-> s, port |-> Head(todo[s]),
                                         snd |-> "syn", rcv |-> "none"])
       \/ /\ Faults \/ Len(streams) = MaxStreams
          /\ UNCHANGED streams
    /\ todo' = [todo EXCEPT ![s] = Tail(@)]
    /\ UNCHANGED <<alive, pc, done, ready, listening, batch, errors>>

Listener(p) == {r \in Receivers : p \in listening[r] /\ pc[r] # "out"}

(* The stack answers: with a stream that waits to be accepted if somebody  *)
(* listens, and with an error otherwise.                                   *)
Answer(i) ==
    /\ alive /\ streams[i].snd = "syn"
    /\ streams' = IF Listener(streams[i].port) # {}
                  THEN [streams EXCEPT ![i].snd = "open", ![i].rcv = "queued"]
                  ELSE [streams EXCEPT ![i].snd = "broken"]
    /\ UNCHANGED <<alive, pc, done, ready, listening, todo, batch, errors>>

(* A stream breaks by itself, or because its receiver is gone. *)
Break(i) ==
    /\ alive /\ streams[i].snd = "open"
    /\ \/ errors < MaxErrors /\ errors' = errors + 1
       \/ Listener(streams[i].port) = {} /\ UNCHANGED errors
    /\ streams' = [streams EXCEPT ![i].snd = "broken"]
    /\ UNCHANGED <<alive, pc, done, ready, listening, todo, batch>>

Stack == \E i \in Ids : Answer(i) \/ Break(i)

-----------------------------------------------------------------------------
SenderEvents(s) ==
    [kind : {"out", "in"}, id : {i \in Ids : streams[i].core = s /\ streams[i].snd = "open"}]
    \cup [kind : {"err"}, id : {i \in Ids : streams[i].core = s /\ streams[i].snd = "broken"}]

ReceiverEvents(r) ==
    LET own == {i \in Ids : streams[i].port \in listening[r]} IN
    [kind : {"accept"}, id : {i \in own : streams[i].rcv = "queued"
                                          /\ streams[i].port \in Accepts(r)}]
    \cup [kind : {"in"}, id : {i \in own : streams[i].rcv = "accepted"}]
    \cup [kind : {"err"}, id : {i \in own : streams[i].rcv = "accepted"
                                            /\ streams[i].snd # "open"}]

Events(c) == IF c \in Senders THEN SenderEvents(c) ELSE ReceiverEvents(c)

(* mtcp_epoll_wait returns some of the events there are, one per stream,   *)
(* and waits for ever if there is none.                                    *)
EpollWait(c) ==
    /\ At(c, "epoll")
    /\ \E b \in SUBSET Events(c) :
          /\ b # {} /\ \A x, y \in b : x.id = y.id => x = y
          /\ batch' = [batch EXCEPT ![c] = b]
    /\ Goto(c, "events")
    /\ UNCHANGED <<alive, done, ready, listening, todo, streams, errors>>

(* Fault: the loop over the events does not move on. *)
TakeAgain(c, e) ==
    /\ At(c, "events") /\ e \in batch[c]
    /\ UNCHANGED <<pc, batch>>

(* The event e of the batch is dealt with. *)
Take(c, e) ==
    /\ At(c, "events") /\ e \in batch[c]
    /\ batch' = [batch EXCEPT ![c] = @ \ {e}]
    /\ Goto(c, IF batch[c] = {e} THEN "loop" ELSE "events")

(* What can be written or read is written or read, and counted. *)
Transfer(c, e) ==
    /\ e.kind \in {"out", "in"}
    /\ Take(c, e)
    /\ UNCHANGED <<alive, done, ready, listening, todo, streams, errors>>

Closed(i) == [streams EXCEPT ![i].snd = "closed",
                             ![i].rcv = IF @ = "queued" THEN "closed" ELSE @]

(* mtcp_destroy_context: a sender that leaves ends its streams. *)
Leave(s) ==
    /\ Goto(s, "out")
    /\ streams' = [i \in Ids |-> IF streams[i].core = s
                                 THEN [streams[i] EXCEPT !.snd = "closed"]
                                 ELSE streams[i]]

-----------------------------------------------------------------------------
(* RunRecvContext *)
RecvLoop(r) ==
    /\ At(r, "loop")
    /\ Goto(r, IF done[r] THEN "out" ELSE "epoll")
    /\ UNCHANGED <<alive, done, ready, listening, todo, streams, batch, errors>>

RecvAccept(r, e) ==
    /\ e.kind = "accept"
    /\ Take(r, e)
    /\ \/ streams' = [streams EXCEPT ![e.id].rcv = IF @ = "queued" THEN "accepted" ELSE @]
       \/ Faults /\ UNCHANGED streams
    /\ UNCHANGED <<alive, done, ready, listening, todo, errors>>

RecvError(r, e) ==
    /\ e.kind = "err"
    /\ Take(r, e)
    /\ streams' = [streams EXCEPT ![e.id].rcv = "closed"]
    /\ UNCHANGED <<alive, done, ready, listening, todo, errors>>

RunRecvContext(r) ==
    \/ RecvLoop(r) \/ EpollWait(r)
    \/ \E e \in batch[r] : Transfer(r, e) \/ RecvAccept(r, e) \/ RecvError(r, e)
=============================================================================
