-------------------------------- MODULE RuleGen --------------------------------
(***************************************************************************)
(* fv_cfg.py: qos_flat and qos_flat2 write the rules of the table tbl_flow *)
(* one by one, and pif_plugin_fv_schedule reads the class and the lenders  *)
(* of a packet out of them (flowvalve.c:387-437).                          *)
(*                                                                         *)
(* A rule is [port, snum, sub, inum, idx]: the words the packet carries as *)
(* metadata.  The label is a class number of LabelBits bits (5 in the      *)
(* code) at the upper end of a word of Layers labels (8).                  *)
(***************************************************************************)
EXTENDS Integers, Sequences, FiniteSets

CONSTANTS
    Sets,        \* rule sets: sequences of <<class, ports>>, as of i_map
    LabelBits,   \* blen, 5
    Layers       \* LAYERNUM plus one, 8

RuleGenAssumption ==
    /\ {LabelBits, Layers} \subseteq Nat \ {0}
    /\ \A s \in Sets : \A k \in DOMAIN s : s[k][1] \in Nat

VARIABLES
    i_map,   \* the rule set
    at,      \* the entry of it, and the port of the entry, that come next
    rules    \* the rules written

vars == <<i_map, at, rules>>

Init ==
    /\ i_map \in Sets
    /\ at = <<1, 1>>
    /\ rules = <<>>

(* bin(i)[2:] is as long as the number is. *)
Digits(i) == CHOOSE d \in 1..(i + 1) : i < 2^d /\ (d = 1 \/ 2^(d - 1) <= i)

(* Fault: zeros are put in front of the digits only to the longest label.  *)
LabelPlain(i) == i * 2^(LabelBits * Layers - Digits(i))

(* zfill(blen), and zeros behind to the width of the word: a class of more *)
(* digits than a label has is cut to its upper ones.                       *)
Label(i) ==
    LET digits == IF Digits(i) < LabelBits THEN LabelBits ELSE Digits(i)
    IN i * 2^(LabelBits * Layers - digits)

(* Fault: the bit of every class below the own one is set as well. *)
SubBelow(i) == 2^(i + 1) - 1
Sub(i) == 2^i

Rule(class, port) ==
    [port |-> port, snum |-> Len(i_map), sub |-> Sub(class), inum |-> 1, idx |-> Label(class)]

(* The next rule, or the next entry when one has no more ports. *)
Write ==
    /\ at[1] <= Len(i_map)
    /\ LET entry == i_map[at[1]] IN
       IF at[2] <= Len(entry[2])
       THEN /\ rules' = Append(rules, Rule(entry[1], entry[2][at[2]]))
            /\ at' = <<at[1], at[2] + 1>>
       ELSE /\ at' = <<at[1] + 1, 1>>
            /\ UNCHANGED rules
    /\ UNCHANGED i_map

Next == Write

Spec == Init /\ [][Next]_vars

-----------------------------------------------------------------------------
(* The class of the first label, and the classes the second loop lets a    *)
(* packet borrow from.                                                     *)
ClassOf(r) == (r.idx \div 2^(LabelBits * (Layers - 1))) % 2^LabelBits
Lenders(r) == {i \in 0..(r.snum - 1) : (r.sub \div 2^i) % 2 = 0}

Classes == {i_map[k][1] : k \in DOMAIN i_map}
OwnClass(port) ==
    CHOOSE c \in Classes : \E k \in DOMAIN i_map :
       i_map[k][1] = c /\ \E j \in DOMAIN i_map[k][2] : i_map[k][2][j] = port

(* A packet is metered in the class its port was given to, as long as the  *)
(* class has the digits of a label (fv_cfg.py:31, 53, flowvalve.c:408).    *)
PortsKeepClass ==
    \A k \in DOMAIN rules :
       OwnClass(rules[k].port) < 2^LabelBits => ClassOf(rules[k]) = OwnClass(rules[k].port)

(* It may borrow from all the classes of the set but its own, and from no  *)
(* other class: "snum indicates sibling numbers", "sub indicated sibling   *)
(* where may borrow bandwidth" (flowvalve.c:398, 400).                     *)
SiblingsLend ==
    \A k \in DOMAIN rules : Lenders(rules[k]) = Classes \ {OwnClass(rules[k].port)}
=============================================================================
