------------------------------ MODULE MCFrontEnd ------------------------------
(***************************************************************************)
(* The two writers of rules on small instances: fv_front.py on             *)
(* configurations of a root and up to three classes, in every shape of     *)
(* tree and in shapes that are no tree, with the names of FrontEnd, and    *)
(* beside it the rule sets of fv_cfg.py.  "which" says which of the two a  *)
(* behaviour is about; the other stays in its initial state.               *)
(***************************************************************************)
EXTENDS FrontEnd, TLC

VARIABLES
    which,   \* "classes" or "rules"
    i_map, at, rules

ofRules == <<i_map, at, rules>>
all == <<which, vars, ofRules>>

Static(g) == [type |-> "static", max |-> g, weight |-> 0, prio |-> 0, cond |-> 0]
Weight(w) == [Static(0) EXCEPT !.type = "rt_weight", !.weight = w]
Cond(prio, w, g) == [Weight(w) EXCEPT !.type = "rt_cond", !.prio = prio, !.cond = g]

(* As the line of nodes numbers them: the root first. *)
Shapes ==
    {0 :> <<1, 2, 3>>, 0 :> <<1, 2>> @@ 2 :> <<3>>, 0 :> <<1>> @@ 1 :> <<2, 3>>,
     0 :> <<3, 1>> @@ 1 :> <<2>>, 0 :> <<1>> @@ 1 :> <<2>> @@ 2 :> <<3>>,
     0 :> <<1, 2>> @@ 1 :> <<3>> @@ 2 :> <<3>>,
     0 :> <<1>> @@ 2 :> <<3>>, 0 :> <<1>> @@ 2 :> <<3>> @@ 3 :> <<2>>,
     0 :> <<1, 3>> @@ 1 :> <<2>> @@ 2 :> <<1>>, 1 :> <<2>> @@ 2 :> <<3>> @@ 3 :> <<1>>,
     1 :> <<2, 3>>, 3 :> <<0, 1, 2>>, 0 :> <<>>}
Kinds == {Static(2), Weight(1), Weight(2), Cond(3, 1, 1), Cond(2, 2, 1), Cond(2, 1, 1)}
Trees ==
    {[tree |-> s, node |-> 0 :> Static(3) @@ 1 :> a @@ 2 :> b @@ 3 :> c] :
        s \in Shapes, a, b, c \in Kinds}
FlatSets ==
    {[tree |-> [x \in {} |-> <<>>], node |-> 0 :> a @@ 1 :> b] : a, b \in Kinds}

(* Weights up to the width of the field, and sums beyond it. *)
Heavy ==
    {[tree |-> 0 :> <<1, 2>>, node |-> 0 :> Static(3) @@ 1 :> Weight(v) @@ 2 :> Weight(w)] :
        v, w \in 1..7}

SmallConfigs == Trees \cup FlatSets \cup Heavy

(* Rates below, at and above the condition of one unit of 6. *)
SmallRates == {0, 3, 5, 6, 7, 12, 18}

(* qos_flat(snum, blen): class i has the port 5001 + i. *)
FlatSet(n) == [k \in 1..n |-> <<k - 1, <<5000 + k>>>>]

(* Sets as of qos_flat2 whose classes are 0..(n - 1), in any order, with   *)
(* no port, one or two for each.                                           *)
Orders(n) == {f \in [1..n -> 0..(n - 1)] : \A j, k \in 1..n : f[j] = f[k] => j = k}
PortsOf(c, n) == [j \in 1..n |-> 5001 + c + 4 * (j - 1)]
MapSets(n) ==
    {[k \in 1..n |-> <<f[k], PortsOf(f[k], g[k])>>] : f \in Orders(n), g \in [1..n -> 0..2]}
DenseSets == {FlatSet(n) : n \in 1..6} \cup UNION {MapSets(n) : n \in 1..3}

Rules == INSTANCE RuleGen WITH Sets <- DenseSets, LabelBits <- 2, Layers <- 3

ASSUME RulesFit == Rules!RuleGenAssumption

(* The sets of rules one after the other, with the first configuration.    *)
OneConfig == CHOOSE c \in FlatSets : TRUE

AllInit ==
    \/ which = "classes" /\ Init /\ i_map = FlatSet(1) /\ at = <<1, 1>> /\ rules = <<>>
    \/ /\ which = "rules" /\ Rules!Init
       /\ cfg = OneConfig /\ phase = "flat" /\ que = <<>> /\ cur = Idle
       /\ known = {} /\ words = NoWords

AllNext ==
    \/ which = "classes" /\ Next /\ UNCHANGED <<which, ofRules>>
    \/ which = "rules" /\ Rules!Next /\ UNCHANGED <<which, vars>>

(* fv_front.py runs to its end. *)
AllSpec ==
    /\ AllInit /\ [][AllNext]_all
    /\ WF_all(which = "classes" /\ Next /\ UNCHANGED <<which, ofRules>>)

-----------------------------------------------------------------------------
(* Of a tree the walk of fv_front.py comes to an end and everything is     *)
(* written (fv_front.py:131-148).                                          *)
TreeIsWritten == which = "classes" => TreesAreWritten

(* A packet is metered in the class its port was given to, as long as the  *)
(* class has the digits of a label, and it may borrow from all the classes *)
(* of the set but its own, and from no other: "snum indicates sibling      *)
(* numbers", "sub indicated sibling where may borrow bandwidth"            *)
(* (fv_cfg.py:31-53, flowvalve.c:398-424).                                 *)
RulesMeanSet == Rules!PortsKeepClass /\ Rules!SiblingsLend
=============================================================================
