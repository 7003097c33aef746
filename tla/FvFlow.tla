-------------------------------- MODULE FvFlow --------------------------------
(***************************************************************************)
(* fv_flow.c: the main thread sets the ports up, starts a thread for each, *)
(* sleeps, and closes the ports one after the other, while the threads run *)
(* on until they read their entry of force_quit.  A signal sets the        *)
(* entries of that array, which has fewer of them than there are ports,    *)
(* and wakes the main thread.                                              *)
(*                                                                         *)
(* What the receivers count is in FvReceiver, and how a capture becomes a  *)
(* pool in Pcap: fv_flow.c has a copy of those functions.                  *)
(* External: the ports, the signal and the end of the process, which takes *)
(* all threads with it.                                                    *)
(***************************************************************************)
EXTENDS Naturals

CONSTANTS
    NPorts,     \* rte_eth_dev_count
    Vf, Pf,     \* -v and -p: ports that receive, and ports that send
    FlagLen,    \* the length of force_quit
    BurstSize,  \* BURST_SIZE
    MaxCheck    \* MAX_CHECK_TIME

ASSUME FlowAssumption ==
    /\ {NPorts, Vf, Pf, FlagLen, BurstSize, MaxCheck} \subseteq Nat \ {0}
    /\ Vf + Pf <= NPorts

VARIABLES
    main,       \* "init", "check", "launch", "sleep", "flag", "stop", "close",
                \* "exit", or "failed"
    at,         \* portid of main's loops
    polls,      \* count in check_all_ports_link_status
    printFlag,  \* its print_flag
    printed,    \* history: how often the status was printed
    signalled,  \* a signal arrived
    flag,       \* force_quit, and the bytes behind it
    port,       \* what state each port is in
    pc,         \* the thread of each port
    left        \* i of send_main_loop: packets of the burst that are to be sent

vars == <<main, at, polls, printFlag, printed, signalled, flag, port, pc, left>>

check == <<polls, printFlag, printed>>
threads == <<pc, left>>

Ports == 0..(NPorts - 1)
Receivers == 0..(Vf - 1)
Senders == Vf..(Vf + Pf - 1)

(* Thread p runs on core p + 1 (core2port).  Reading and writing behind    *)
(* the end of force_quit is undefined: the bytes there may hold anything.  *)
Init ==
    /\ main = "init" /\ at = 0
    /\ polls = 0 /\ printFlag = FALSE /\ printed = 0
    /\ signalled = FALSE
    /\ flag \in {f \in [Ports -> BOOLEAN] : \A p \in Ports : p < FlagLen => ~f[p]}
    /\ port = [p \in Ports |-> "down"]
    /\ pc = [p \in Receivers \cup Senders |-> "none"]
    /\ left = [p \in Senders |-> 0]

Running == main \notin {"exit", "failed"}

(* rte_exit, exit: any step of the set-up may fail, and so may the         *)
(* allocation of a packet, or the pool of a sender be missing.             *)
Fails ==
    /\ main \in {"init", "launch"} \/ \E p \in Senders : pc[p] = "fill"
    /\ Running
    /\ main' = "failed"
    /\ UNCHANGED <<at, check, signalled, flag, port, threads>>

-----------------------------------------------------------------------------
NicInit ==
    /\ main = "init"
    /\ port' = [port EXCEPT ![at] = "up"]
    /\ at' = (at + 1) % NPorts
    /\ main' = IF at + 1 = NPorts THEN "check" ELSE main
    /\ UNCHANGED <<check, signalled, flag, threads>>

(* Fault: the time is over one poll too late. *)
TimeOverLate(allUp) == allUp \/ polls = MaxCheck
TimeOver(allUp) == allUp \/ polls = MaxCheck - 1

(* check_all_ports_link_status: the status is printed in the pass after    *)
(* the one that found all links up or the time over.                       *)
Poll ==
    /\ main = "check"
    /\ IF printFlag \/ polls > MaxCheck
       THEN /\ printed' = IF polls > MaxCheck THEN printed ELSE printed + 1
            /\ main' = "launch"
            /\ UNCHANGED <<polls, printFlag>>
       ELSE /\ \E allUp \in BOOLEAN : printFlag' = TimeOver(allUp)
            /\ polls' = polls + 1
            /\ UNCHANGED <<printed, main>>
    /\ UNCHANGED <<at, signalled, flag, port, threads>>

Launch ==
    /\ main = "launch"
    /\ pc' = [p \in Receivers \cup Senders |-> "test"]
    /\ main' = "sleep"
    /\ UNCHANGED <<at, check, signalled, flag, port, left>>

(* sleep: the time is up, or a signal comes. *)
Wake ==
    /\ main = "sleep"
    /\ main' = "flag"
    /\ UNCHANGED <<at, check, signalled, flag, port, threads>>

(* Fault: the thread that is told is not that of the port. *)
SetFlagNext ==
    /\ main = "flag"
    /\ flag' = [flag EXCEPT ![(at + 1) % NPorts] = TRUE]
    /\ main' = "stop"
    /\ UNCHANGED <<at, check, signalled, port, threads>>

SetFlag ==
    /\ main = "flag"
    /\ flag' = [flag EXCEPT ![at] = TRUE]
    /\ main' = "stop"
    /\ UNCHANGED <<at, check, signalled, port, threads>>

Stop ==
    /\ main = "stop"
    /\ port' = [port EXCEPT ![at] = "stopped"]
    /\ main' = "close"
    /\ UNCHANGED <<at, check, signalled, flag, threads>>

(* Fault: only the ports that have a flag are closed. *)
LastFlag == FlagLen
LastPort == NPorts

Close ==
    /\ main = "close"
    /\ port' = [port EXCEPT ![at] = "closed"]
    /\ at' = at + 1
    /\ main' = IF at + 1 = LastPort THEN "exit" ELSE "flag"
    /\ UNCHANGED <<check, signalled, flag, threads>>

Main == NicInit \/ Poll \/ Launch \/ Wake \/ SetFlag \/ Stop \/ Close

(* signal_handler runs in the main thread, where Linux delivers a signal   *)
(* to a process, whatever that thread does.                               *)
Signal ==
    /\ Running /\ ~signalled
    /\ signalled' = TRUE
    /\ flag' = [p \in Ports |-> flag[p] \/ p < FlagLen]
    /\ main' = IF main = "sleep" THEN "flag" ELSE main
    /\ UNCHANGED <<at, check, port, threads>>

-----------------------------------------------------------------------------
Test(p) ==
    /\ Running /\ pc[p] = "test"
    /\ pc' = [pc EXCEPT ![p] = IF flag[p] THEN "gone"
                               ELSE IF p \in Receivers THEN "drain" ELSE "fill"]
    /\ UNCHANGED <<main, at, check, signalled, flag, port, left>>

(* A receiver goes on for as long as there are packets. *)
Drained(p) ==
    /\ Running /\ pc[p] = "drain"
    /\ pc' = [pc EXCEPT ![p] = "test"]
    /\ UNCHANGED <<main, at, check, signalled, flag, port, left>>

FillBurst(p) ==
    /\ Running /\ pc[p] = "fill"
    /\ left' = [left EXCEPT ![p] = BurstSize]
    /\ pc' = [pc EXCEPT ![p] = "send"]
    /\ UNCHANGED <<main, at, check, signalled, flag, port>>

(* The NIC takes some of the packets, none once it is stopped. *)
TxBurst(p) ==
    /\ Running /\ pc[p] = "send"
    /\ \E n \in 0..left[p] :
          /\ n = left[p] \/ port[p] = "up"
          /\ left' = [left EXCEPT ![p] = n]
          /\ pc' = [pc EXCEPT ![p] = IF n = 0 THEN "test" ELSE @]
    /\ UNCHANGED <<main, at, check, signalled, flag, port>>

Next ==
    \/ Main \/ Fails \/ Signal
    \/ \E p \in Receivers : Drained(p)
    \/ \E p \in Receivers \cup Senders : Test(p)
    \/ \E p \in Senders : FillBurst(p) \/ TxBurst(p)

(* The main thread is scheduled, and its sleep has an end. *)
Spec == Init /\ [][Next]_vars /\ WF_vars(Main)

-----------------------------------------------------------------------------
(* A port is not stopped before its thread is told to leave it             *)
(* (fv_flow.c:829-835), and one without a thread is closed all the same.   *)
ToldBeforeStop ==
    \A p \in Ports : port[p] \in {"stopped", "closed"} => flag[p]

(* The wait for the links ends with the status printed, once, whether they *)
(* came up or the time ran out (fv_flow.c:490-530).                        *)
StatusPrinted ==
    main \in {"launch", "sleep", "flag", "stop", "close"} => printed = 1

(* force_quit has five entries, and a signal sets those: the threads of    *)
(* the other ports are told by the main thread, which the signal woke, or  *)
(* the process ends by a failure (fv_flow.c:599-606, 829-830).             *)
SignalReachesAll ==
    signalled ~> (main = "failed" \/ \A p \in Ports : flag[p])
=============================================================================
