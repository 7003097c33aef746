-------------------------------- MODULE MCMtcp --------------------------------
(***************************************************************************)
(* The three mTCP programs on small instances.  One run takes them side by *)
(* side: "which" says which of them a behaviour is about, and under which  *)
(* faults, and the variables of the others stay as they are.               *)
(*                                                                         *)
(* The constants and the properties are those of Mtcp, with one pair and   *)
(* every fault, whose threads main stops after a sleep.                    *)
(***************************************************************************)
EXTENDS Mtcp, TLC

VARIABLES
    which,
    elapsed, begun, ended, evid, slot      \* fv_mtcp_fq.c, fv_mtcp_fq_multi.c

(* For Stops. *)
StopsBoth == <<{0, 1}>>

all == <<which, alive, pc, done, ready, listening, todo, streams, batch, errors,
         opened, stage, elapsed, begun, ended, evid, slot>>

-----------------------------------------------------------------------------
(* Two pairs that start with nothing in their way. *)
Start == INSTANCE Mtcp
            WITH NPairs <- 2, Spurious <- FALSE, Faults <- FALSE, MaySigint <- FALSE,
                 MaxErrors <- 0, MaxStreams <- 2, NumConnection <- 1, Stops <- <<>>

(* Time tables as in the code: the flows begin one after the other, and    *)
(* all have begun before the first one ends.                               *)
Starts2 == 0 :> 0 @@ 1 :> 1
Ends2 == 0 :> 2 @@ 1 :> 3
Together2 == 0 :> 2 @@ 1 :> 2
Starts3 == 0 :> 0 @@ 1 :> 1 @@ 2 :> 2
Ends3 == 0 :> 3 @@ 1 :> 3 @@ 2 :> 4

(* Prompt streams without faults; streams as slow as they please; and      *)
(* faults.                                                                 *)
FqFlows == INSTANCE MtcpFq
              WITH NPairs <- 1, Spurious <- FALSE, Faults <- FALSE, MaySigint <- FALSE,
                   MaxErrors <- 0, MaxStreams <- 3, NFlows <- 3, StartTs <- Starts3,
                   EndTs <- Ends3, Prompt <- TRUE
FqFinish == INSTANCE MtcpFq
               WITH NPairs <- 1, Spurious <- FALSE, Faults <- FALSE, MaySigint <- FALSE,
                    MaxErrors <- 0, MaxStreams <- 2, NFlows <- 2, StartTs <- Starts2,
                    EndTs <- Ends2, Prompt <- FALSE
FqErrors == INSTANCE MtcpFq
               WITH NPairs <- 1, Spurious <- FALSE, Faults <- FALSE, MaySigint <- FALSE,
                    MaxErrors <- 1, MaxStreams <- 2, NFlows <- 2, StartTs <- Starts2,
                    EndTs <- Together2, Prompt <- FALSE

(* The same for the other program. *)
MultiFlows == INSTANCE MtcpMulti
                 WITH NPairs <- 1, Spurious <- FALSE, Faults <- FALSE, MaySigint <- FALSE,
                      MaxErrors <- 0, MaxStreams <- 3, NFlows <- 2, Connection <- 2,
                      MaxFnum <- 4, StartTs <- Starts2, EndTs <- Ends2, Prompt <- TRUE
MultiFinish == INSTANCE MtcpMulti
                  WITH NPairs <- 1, Spurious <- FALSE, Faults <- FALSE, MaySigint <- FALSE,
                       MaxErrors <- 0, MaxStreams <- 2, NFlows <- 2, Connection <- 1,
                       MaxFnum <- 2, StartTs <- Starts2, EndTs <- Ends2, Prompt <- FALSE
MultiErrors == INSTANCE MtcpMulti
                  WITH NPairs <- 1, Spurious <- FALSE, Faults <- FALSE, MaySigint <- FALSE,
                       MaxErrors <- 1, MaxStreams <- 2, NFlows <- 2, Connection <- 1,
                       MaxFnum <- 2, StartTs <- Starts2, EndTs <- Together2, Prompt <- FALSE

ASSUME ProgramsAssumption ==
    /\ Start!MtcpAssumption /\ Start!ThreadsAssumption
    /\ MtcpAssumption /\ ThreadsAssumption
    /\ FqFlows!FqAssumption /\ FqFlows!ThreadsAssumption
    /\ FqFinish!FqAssumption /\ FqFinish!ThreadsAssumption
    /\ FqErrors!FqAssumption /\ FqErrors!ThreadsAssumption
    /\ MultiFlows!MultiAssumption /\ MultiFlows!ThreadsAssumption
    /\ MultiFinish!MultiAssumption /\ MultiFinish!ThreadsAssumption
    /\ MultiErrors!MultiAssumption /\ MultiErrors!ThreadsAssumption

-----------------------------------------------------------------------------
(* The other programs have no complete_conn: 4 is what they ask for. *)
NoMain == opened = [s \in Senders |-> 4] /\ stage = 0
NoTable ==
    /\ elapsed = "none" /\ begun = "none" /\ ended = "none"
    /\ evid = "none" /\ slot = "none"

MtcpInit ==
    \/ /\ \/ which = "start" /\ Start!Init
          \/ which = "streams" /\ Init
       /\ NoTable
    \/ /\ \/ which = "fq_flows" /\ FqFlows!Init
          \/ which = "fq_finish" /\ FqFinish!Init
          \/ which = "fq_errors" /\ FqErrors!Init
          \/ which = "multi_flows" /\ MultiFlows!Init
          \/ which = "multi_finish" /\ MultiFinish!Init
          \/ which = "multi_errors" /\ MultiErrors!Init
       /\ NoMain

MainOnly == UNCHANGED <<which, elapsed, begun, ended, evid, slot>>
TableOnly == UNCHANGED <<which, opened, stage>>

MtcpNext ==
    \/ which = "start" /\ Start!Next /\ MainOnly
    \/ which = "streams" /\ Next /\ MainOnly
    \/ which = "fq_flows" /\ FqFlows!Next /\ TableOnly
    \/ which = "fq_finish" /\ FqFinish!Next /\ TableOnly
    \/ which = "fq_errors" /\ FqErrors!Next /\ TableOnly
    \/ which = "multi_flows" /\ MultiFlows!Next /\ TableOnly
    \/ which = "multi_finish" /\ MultiFinish!Next /\ TableOnly
    \/ which = "multi_errors" /\ MultiErrors!Next /\ TableOnly

-----------------------------------------------------------------------------
(* The fairness of the programs that have something to bring to an end:    *)
(* every thread has a core of its own, the stack answers, the clocks of    *)
(* the senders go on, and the main threads of the programs with time       *)
(* tables return.  How long the one of fv_mtcp.c sleeps is not said.       *)
EndsItself == which \in {"start", "streams", "fq_finish", "multi_finish"}

CoreStep(c) ==
    /\ EndsItself /\ c \in DOMAIN pc
    /\ \/ which = "start" /\ Start!ThreadStep(c) /\ MainOnly
       \/ which = "streams" /\ ThreadStep(c) /\ MainOnly
       \/ which = "fq_finish" /\ FqFinish!RunVnf(c) /\ TableOnly
       \/ which = "multi_finish" /\ MultiFinish!RunVnf(c) /\ TableOnly

StackStep ==
    /\ EndsItself
    /\ \/ which = "start" /\ Start!Stack
       \/ which = "streams" /\ Stack
       \/ which = "fq_finish" /\ FqFinish!Stack
       \/ which = "multi_finish" /\ MultiFinish!Stack
    /\ UNCHANGED <<which, opened, stage, elapsed, begun, ended, evid, slot>>

TickStep ==
    \/ which = "fq_finish" /\ FqFinish!Tick(0) /\ TableOnly
    \/ which = "multi_finish" /\ MultiFinish!Tick(0) /\ TableOnly

MainStep ==
    \/ which = "fq_finish" /\ FqFinish!MainReturn /\ TableOnly
    \/ which = "multi_finish" /\ MultiFinish!MainReturn /\ TableOnly

MtcpSpec ==
    /\ MtcpInit /\ [][MtcpNext]_all
    /\ \A c \in 0..3 : WF_all(CoreStep(c))
    /\ WF_all(StackStep) /\ WF_all(TickStep) /\ WF_all(MainStep)

-----------------------------------------------------------------------------
(* StreamsBounded and NoStaleEvent are those of Mtcp; the second one holds *)
(* of the streams of the other programs too, after an error or at the end  *)
(* of a flow (fv_mtcp_fq.c:257-314, fv_mtcp_fq_multi.c:262-328).           *)

(* "wait for receiver ready" (fv_mtcp.c:241, fv_mtcp_fq.c:247,             *)
(* fv_mtcp_fq_multi.c:252): if no wait ends by itself, a sender opens a    *)
(* stream only to a port on which a receiver that is ready listens, in     *)
(* fv_mtcp.c the receiver of its pair.                                     *)
Opens ==
    /\ which \in {"start", "fq_flows", "fq_finish", "multi_flows", "multi_finish"}
    /\ Len(streams') > Len(streams)
ConnectsToReadyReceiver ==
    [][/\ Opens => \E r \in DOMAIN listening :
                      /\ ready[r % Cardinality(DOMAIN ready)]
                      /\ streams'[Len(streams')].port \in listening[r]
       /\ which = "start" => Start!OpensAfterReady]_all

(* A sender of fv_mtcp.c that has an open stream sees that it is to stop   *)
(* although it polls its flag only between two returns of mtcp_epoll_wait: *)
(* the stream keeps waking it up (fv_mtcp.c:254-294).                      *)
StopIsSeen ==
    which = "streams" /\ done[0] /\ pc[0] = "epoll" ~>
       \/ pc[0] = "out" \/ ~alive
       \/ \A i \in DOMAIN streams : streams[i].snd # "open"

-----------------------------------------------------------------------------
(* The time tables.  They speak of flows, the loop of streams in the order *)
(* in which they were first heard of.  If the streams are set up in less   *)
(* time than lies between two starts, the two agree: in fv_mtcp_fq.c the   *)
(* end of a flow closes the stream of that flow; in fv_mtcp_fq_multi.c,    *)
(* where only the first streams that were heard of are recorded, for every *)
(* flow alike, it closes no stream of a flow that goes on                  *)
(* (fv_mtcp_fq.c:264-268, 283-291, fv_mtcp_fq_multi.c:272-276, 292-302).   *)
FlowEndsItsOwn ==
    [][/\ which = "fq_flows" => FqFlows!EndsItsOwn
       /\ which = "multi_flows" => MultiFlows!SparesOthers]_all

(* The entries of evid stand for flows: under the same condition the bytes *)
(* a receiver prints for port j are those of the stream of that port, and  *)
(* however late streams are set up and whatever breaks, no stream stands   *)
(* for two flows at either end, so that nothing is closed or counted twice *)
(* (fv_mtcp_fq.c:283-291, 403-424).                                        *)
EntriesAreFlows ==
    /\ which = "fq_flows" => FqFlows!SlotsMatchFlows /\ FqFlows!OneEntryEach
    /\ which \in {"fq_finish", "fq_errors"} => FqErrors!OneEntryEach

(* A sender whose receiver was ready first starts, and one that has        *)
(* started leaves: although the schedule is looked at only between two     *)
(* returns of mtcp_epoll_wait, which waits for ever on streams that were   *)
(* closed, a sender with flows left always has a stream that wakes it up   *)
(* (fv_mtcp.c:239-243, fv_mtcp_fq.c:255-279, fv_mtcp_fq_multi.c:260-288).  *)
SendersFinish ==
    /\ which = "start" /\ alive /\ pc[0] = "test" /\ ready[0] ~>
          which # "start" \/ pc[0] = "loop" \/ ~alive
    /\ which \in {"fq_finish", "multi_finish"} /\ pc[0] = "loop" ~>
          pc[0] = "out" \/ ~alive
=============================================================================
