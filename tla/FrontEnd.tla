------------------------------- MODULE FrontEnd -------------------------------
(***************************************************************************)
(* fv_front.py: cfg2cmd walks the tree of classes by levels, and cfg_node  *)
(* turns each class into the words of struct fv_class that the data plane  *)
(* takes apart again.  The data plane's side is FVArith.                   *)
(*                                                                         *)
(* A configuration is [tree |-> a function from classes to the sequence of *)
(* their children, node |-> what is said of each class: type, max, weight, *)
(* prio, cond].  A class is the number of its place in the line of nodes.  *)
(* The widths of the fields are parameters: in the code 16 bits for the    *)
(* parent, and 7 for the weight and for the sum of weights.                *)
(***************************************************************************)
EXTENDS FVArith, SequencesExt, FiniteSetsExt

CONSTANTS
    Configs,    \* the configurations
    Rates,      \* rates a parent may have when the words are used
    PidxBits,   \* 16
    FieldBits,  \* 7
    WordBits,   \* bits of a word of struct info
    Unit        \* 0x9fe98: a rate of 1 Gbit/s in the data plane's units

ASSUME FrontEndAssumption ==
    {PidxBits, FieldBits, WordBits, Unit} \subseteq Nat \ {0}

VARIABLES
    cfg,     \* the configuration, fixed
    phase,   \* "walk" or "flat", then "write", then "done", or "raised"
    que,     \* que of cfg2cmd
    cur,     \* the class whose children are configured, and the next of them
    known,   \* classes whose "max" is a number
    words    \* what cmds holds: pir of fv_m and the three words of fv_c

vars == <<cfg, phase, que, cur, known, words>>

Nodes == DOMAIN cfg.node
Children(n) == cfg.tree[n]
HasTree(n) == n \in DOMAIN cfg.tree

Roots == Nodes \ UNION {ToSet(Children(n)) : n \in DOMAIN cfg.tree}

Idle == <<>>
NoWords == [x \in {} |-> 0]

Init ==
    /\ cfg \in Configs
    /\ \/ Cardinality(Roots) = 1 /\ phase = "walk" /\ que = SetToSeq(Roots)
       \/ Cardinality(Roots) # 1 /\ phase = "flat" /\ que = <<>>
    /\ cur = Idle
    /\ known = {} /\ words = NoWords

Raise ==
    /\ phase' = "raised"
    /\ UNCHANGED <<cfg, que, cur, known, words>>

-----------------------------------------------------------------------------
Denomi(p) == FoldSeq(LAMBDA d, s : s + cfg.node[d].weight, 0, Children(p))

(* The bits of the fields, each shifted to its place, united by "|". *)
BitsOf(x) == {b \in 0..(WordBits - 1) : (x \div 2^b) % 2 = 1}
Packed(prio, upper, lower, idx) ==
    MapThenSumSet(LAMBDA b : 2^b,
       UNION {BitsOf(prio * 2^(PidxBits + 2 * FieldBits)), BitsOf(upper * 2^(PidxBits + FieldBits)),
              BitsOf(lower * 2^PidxBits), BitsOf(idx)})

(* Fault: the weight and the sum change places. *)
ValSwapped(prio, weight, denomi, idx) == Packed(prio, denomi, weight, idx)
Val(prio, weight, denomi, idx) == Packed(prio, weight, denomi, idx)

(* Fault: the two conditions change places. *)
Cond1Swapped(nd, d) ==
    IF nd.prio = 3 THEN (Unit * nd.cond * nd.weight) \div d
    ELSE (Unit * nd.cond * (d - nd.weight)) \div d

(* What the low priority may take from cond on, and what the high one      *)
(* leaves to it.                                                           *)
Cond1(nd, d) ==
    IF nd.prio = 2 THEN (Unit * nd.cond * nd.weight) \div d
    ELSE (Unit * nd.cond * (d - nd.weight)) \div d

(* cfg_node raises at a class without a type it knows, without the parent  *)
(* it needs, or with a sibling without a weight (0 here); at a parent      *)
(* whose rate is text still, and at a "max" that is a number already.      *)
Possible(n, p) ==
    LET nd == cfg.node[n] IN
    \/ nd.type = "static" /\ n \notin known
    \/ /\ nd.type \in {"rt_weight", "rt_cond"}
       /\ p # Idle
       /\ nd.prio # 3 => p[1] \in known
       /\ \A d \in ToSet(Children(p[1])) : cfg.node[d].weight > 0
       /\ nd.type = "rt_cond" => nd.prio \in {2, 3}

WordsOf(n, p) ==
    LET nd == cfg.node[n] IN
    CASE nd.type = "static" -> [pir |-> Unit * nd.max, val |-> 0, cond0 |-> 0, cond1 |-> 0]
      [] nd.type = "rt_weight" ->
            [pir |-> 0, val |-> Val(1, nd.weight, Denomi(p[1]), p[1]), cond0 |-> 0, cond1 |-> 0]
      [] nd.type = "rt_cond" ->
            [pir |-> 0, val |-> Val(nd.prio, nd.weight, Denomi(p[1]), p[1]),
             cond0 |-> Unit * nd.cond, cond1 |-> Cond1(nd, Denomi(p[1]))]

CfgNode(n, p) ==
    /\ known' = known \cup {n}
    /\ words' = [m \in DOMAIN words \cup {n} |-> IF m = n THEN WordsOf(n, p) ELSE words[m]]

(* The next class of the queue; only the root is configured here. *)
Pop ==
    /\ phase = "walk" /\ cur = Idle /\ que # <<>>
    /\ LET n == Head(que) IN
       IF HasTree(n) /\ n \notin DOMAIN words
       THEN IF Possible(n, Idle)
            THEN /\ CfgNode(n, Idle)
                 /\ que' = Tail(que) /\ cur' = <<n, 1>>
                 /\ UNCHANGED <<cfg, phase>>
            ELSE Raise
       ELSE /\ que' = Tail(que)
            /\ cur' = IF HasTree(n) THEN <<n, 1>> ELSE Idle
            /\ UNCHANGED <<cfg, phase, known, words>>

(* Fault: the children are not put into the queue. *)
ChildForgotten ==
    /\ phase = "walk" /\ cur # Idle /\ cur[2] <= Len(Children(cur[1]))
    /\ LET d == Children(cur[1])[cur[2]] IN
       IF d \in Nodes /\ Possible(d, cur)
       THEN /\ CfgNode(d, cur)
            /\ que' = que /\ cur' = <<cur[1], cur[2] + 1>>
            /\ UNCHANGED <<cfg, phase>>
       ELSE Raise

(* The next child of the class taken from the queue. *)
Child ==
    /\ phase = "walk" /\ cur # Idle /\ cur[2] <= Len(Children(cur[1]))
    /\ LET d == Children(cur[1])[cur[2]] IN
       IF d \in Nodes /\ Possible(d, cur)
       THEN /\ CfgNode(d, cur)
            /\ que' = Append(que, d) /\ cur' = <<cur[1], cur[2] + 1>>
            /\ UNCHANGED <<cfg, phase>>
       ELSE Raise

EndOfChildren ==
    /\ phase = "walk" /\ cur # Idle /\ cur[2] > Len(Children(cur[1]))
    /\ cur' = Idle
    /\ UNCHANGED <<cfg, phase, que, known, words>>

(* Several roots, or none, and the set is taken for a flat one. *)
Flat ==
    /\ phase = "flat"
    /\ IF \A n \in Roots : Possible(n, Idle)
       THEN /\ words' = [n \in Roots |-> WordsOf(n, Idle)]
            /\ known' = Roots
            /\ phase' = "write"
            /\ UNCHANGED <<cfg, que, cur>>
       ELSE Raise

EndOfWalk ==
    /\ phase = "walk" /\ cur = Idle /\ que = <<>>
    /\ phase' = "write"
    /\ UNCHANGED <<cfg, que, cur, known, words>>

Write ==
    /\ phase = "write"
    /\ phase' = IF DOMAIN words = Nodes THEN "done" ELSE "raised"
    /\ UNCHANGED <<cfg, que, cur, known, words>>

Next == Pop \/ Child \/ EndOfChildren \/ Flat \/ EndOfWalk \/ Write

Spec == Init /\ [][Next]_vars /\ WF_vars(Next)

-----------------------------------------------------------------------------
(* What update_fv_class reads (flowvalve.c:68-113). *)
Read(w) ==
    [type |-> (w.val \div 2^(PidxBits + 2 * FieldBits)) % 4,
     numer |-> (w.val \div 2^(PidxBits + FieldBits)) % 2^FieldBits,
     denomi |-> (w.val \div 2^PidxBits) % 2^FieldBits,
     pidx |-> w.val % 2^PidxBits,
     cond0 |-> w.cond0, cond1 |-> w.cond1]

(* Where the tree names class n: below which class, at which place. *)
Named(n) == {<<p, i>> \in (DOMAIN cfg.tree) \X (1..Cardinality(Nodes)) :
                i <= Len(Children(p)) /\ Children(p)[i] = n}
Runtime(n) == cfg.node[n].type # "static"
InField(x) == x < 2^FieldBits

(* The data plane takes apart what the front end put together: of every    *)
(* class, the fields of struct info are its type, its weight, the sum of   *)
(* its siblings' weights and the class above it, as long as that sum has   *)
(* its 7 bits; nothing tests that it does, and a larger one runs into the  *)
(* field of the weight (fv_front.py:82, 105, flowvalve.h:44-47).           *)
WordsMeanConfig ==
    phase = "done" =>
       \A n \in Nodes :
          (Runtime(n) /\ \A link \in Named(n) : InField(Denomi(link[1]))) =>
          LET c == Read(words[n])
          IN \E link \in Named(n) :
                /\ c = [c EXCEPT !.numer = cfg.node[n].weight,
                                !.denomi = Denomi(link[1]), !.pidx = link[1]]
                /\ c.type = IF cfg.node[n].type = "rt_weight" THEN 1 ELSE cfg.node[n].prio

(* One class of high priority, and others of low: with the words of the    *)
(* front end, the data plane gives them together what their parent has, to *)
(* the rounding, and no subtraction wraps (fv_front.py:106-117,            *)
(* flowvalve.c:90-113).                                                    *)
Given(c, rate) == PriorityRate(c, [pir |-> rate])
PrioritiesShare ==
    phase = "done" =>
       \A p \in DOMAIN cfg.tree :
          LET family == ToSet(Children(p))
              high == {n \in family : cfg.node[n].prio = 3}
          IN (/\ \A n \in family : cfg.node[n].type = "rt_cond"
              /\ \A m, n \in family : cfg.node[m].cond = cfg.node[n].cond
              /\ \E n \in family : high = {n}
              /\ InField(Denomi(p)))
             => LET read == [n \in family |-> Read(words[n])]
                    n == Len(Children(p))
                IN \A rate \in Rates :
                      LET all == MapThenSumSet(LAMBDA d : Given(read[d], rate), family)
                      IN rate - n <= all /\ all <= rate + n

(* Of a tree the walk comes to an end and writes everything: the rate      *)
(* of a class is a number before one below it needs it, and no class is    *)
(* left out or configured twice (fv_front.py:131-148).  In a tree every    *)
(* class but the root is named once below another and no circle leads      *)
(* back; the classes that share a rate have a weight each.                 *)
IsTree ==
    /\ \E r \in Nodes : Roots = {r} /\ ~Runtime(r) /\ HasTree(r)
    /\ \A n \in Nodes \ Roots : Cardinality(Named(n)) = 1
    /\ \A S \in SUBSET Nodes \ {{}} : \E n \in S : \A link \in Named(n) : link[1] \notin S
    /\ \A p \in DOMAIN cfg.tree :
          (\E d \in ToSet(Children(p)) : Runtime(d)) =>
             \A d \in ToSet(Children(p)) : cfg.node[d].weight > 0
TreesAreWritten == IsTree => <>(phase = "done")
=============================================================================
