----------------------------- MODULE MCFlowValve -----------------------------
(* Instances of the data plane for TLC. *)
EXTENDS FlowValveSafety, Sequences, TLC

CONSTANTS t1, t2

Root(pbs) == [type |-> 0, numer |-> 0, denomi |-> 1, pidx |-> 0,
              cond0 |-> 0, cond1 |-> 0, pbs |-> pbs]
Weighted(numer, denomi, parent, pbs) ==
    [Root(pbs) EXCEPT !.type = 1, !.numer = numer, !.denomi = denomi, !.pidx = parent]

(* A flow labelled with the sequence of classes path, which may borrow     *)
(* from classes 0..(snum - 1) but those in denied.                         *)
Flow(path, snum, denied) ==
    [idxNum |-> Len(path), flowIdx |-> [i \in 0..(Len(path) - 1) |-> path[i + 1]],
     subNum |-> snum, flowSub |-> [i \in 0..(snum - 1) |-> IF i \in denied THEN 1 ELSE 0]]

Loaded == {[up |-> 0, low |-> 1]}
Until2 == [up |-> 0, low |-> 2]
Until3 == [up |-> 0, low |-> 3]

(* The threads run the same code. *)
Symmetry == Permutations(Threads)

-----------------------------------------------------------------------------
(* A root and a weighted child on one path: two threads meet at both.      *)
TreeConf == 0 :> Root(3) @@ 1 :> Weighted(1, 2, 0, 2)
TreePir == 0 :> 2 @@ 1 :> 0
TreeFlows == {Flow(<<0, 1>>, 0, {})}

-----------------------------------------------------------------------------
(* Two static classes: flow 0 borrows from class 1, nobody from class 0.   *)
PairConf == 0 :> Root(2) @@ 1 :> Root(3)
PairPir == 0 :> 1 @@ 1 :> 2
PairFlows == {Flow(<<0>>, 2, {0}), Flow(<<1>>, 2, {0, 1})}

-----------------------------------------------------------------------------
(* The lower word of the clock wraps, or the program is loaded so late     *)
(* that the upper word is already 2.                                       *)
LateStarts == {[up |-> 0, low |-> 7], [up |-> 2, low |-> 0]}
UntilLate == [up |-> 2, low |-> 1]
SoloConf == 0 :> Root(2) @@ 1 :> Weighted(1, 1, 0, 2)
SoloFlows == {Flow(<<0>>, 2, {0})}

-----------------------------------------------------------------------------
(* A root, a weighted class below it and, below that one, a class of high  *)
(* and a class of low priority, as fv_front.py computes their words for    *)
(* weights 1 and 2 and a condition of 3: cond1 = 3 * 2 / 3.                *)
Prioritised(type, numer, parent, pbs) ==
    [Weighted(numer, 3, parent, pbs) EXCEPT !.type = type, !.cond0 = 3, !.cond1 = 2]
PrioConf == 0 :> Root(2) @@ 1 :> Weighted(1, 1, 0, 2)
            @@ 2 :> Prioritised(3, 1, 1, 2) @@ 3 :> Prioritised(2, 2, 1, 2)
PrioPir == 0 :> 4 @@ 1 :> 0 @@ 2 :> 0 @@ 3 :> 0
PrioFlows == {Flow(<<0, 1, 2>>, 0, {}), Flow(<<0, 1, 3>>, 0, {})}

-----------------------------------------------------------------------------
(* A lender whose rate does not fit in the bits of the upper time.         *)
FastPir == 0 :> 1 @@ 1 :> 12

-----------------------------------------------------------------------------
(* The rules of the instances are such as fv_front.py writes. *)
ASSUME WrittenByFrontEnd == FrontEndWords
=============================================================================
