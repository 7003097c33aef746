------------------------------- MODULE MCFvFlow -------------------------------
(***************************************************************************)
(* fv_flow.c on small instances: the life of its threads, with the names   *)
(* of FvFlow, and beside it what a receiver counts.  "which" says which of *)
(* the two a behaviour is about; the other stays in its initial state.     *)
(***************************************************************************)
EXTENDS FvFlow, FvReceiver

VARIABLE which   \* "threads" or "receiver"

all == <<which, vars, recvVars>>

(* Packets of two flows, of one of them without a stamp, and of none. *)
Arriving ==
    {[flow |-> "f1", mark |-> Magic, lat |-> 2], [flow |-> "f1", mark |-> Magic, lat |-> 7],
     [flow |-> "f2", mark |-> 0, lat |-> 4], [flow |-> "other", mark |-> 0, lat |-> 9]}

FvInit == which \in {"threads", "receiver"} /\ Init /\ RecvInit

FvNext ==
    \/ which = "threads" /\ Next /\ UNCHANGED <<which, recvVars>>
    \/ which = "receiver" /\ RecvNext /\ UNCHANGED <<which, vars>>

(* The main thread is scheduled, and its sleep has an end. *)
FvSpec ==
    /\ FvInit /\ [][FvNext]_all
    /\ WF_all(which = "threads" /\ Main /\ UNCHANGED <<which, recvVars>>)
=============================================================================
