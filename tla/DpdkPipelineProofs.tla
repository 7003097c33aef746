-------------------------- MODULE DpdkPipelineProofs --------------------------
(***************************************************************************)
(* Proofs about the threads of app_thread.c, for every number of flows and *)
(* classes and every size of a burst, ring and table.                      *)
(*                                                                         *)
(* What the threads do to a flow is brought down to six steps (FlowStep)   *)
(* on three sequences: Released(f), port[f] and Offered(f).  The rings,    *)
(* the table and the hands between them do not appear in these steps, and  *)
(* the invariants and the refinement are proved from them.                 *)
(***************************************************************************)
EXTENDS DpdkPipelineSafety, FiniteSetTheorems, SequenceTheorems, TLAPS

-----------------------------------------------------------------------------
(* Sequences that are cut in two, joined and read.                         *)
LEMMA ElementsOf ==
    ASSUME NEW s \in Seq(Nat)
    PROVE  /\ Elements(s) \subseteq Nat
           /\ DOMAIN s = 1..Len(s) /\ Len(s) \in Nat
           /\ \A x : x \in Elements(s) <=> \E i \in 1..Len(s) : x = s[i]
BY LenProperties, ElementOfSeq DEF Elements

LEMMA ElementsConcat ==
    ASSUME NEW s \in Seq(Nat), NEW t \in Seq(Nat)
    PROVE  Elements(s \o t) = Elements(s) \cup Elements(t)
<1>1. s \o t \in Seq(Nat) /\ Len(s) \in Nat /\ Len(t) \in Nat /\ Len(s \o t) = Len(s) + Len(t)
  BY ConcatProperties, LenProperties
<1>2. \A i \in 1..Len(s) : i \in 1..(Len(s) + Len(t)) /\ (s \o t)[i] = s[i]
  BY <1>1, ConcatProperties
<1>3. \A i \in 1..Len(t) : Len(s) + i \in 1..(Len(s) + Len(t)) /\ (s \o t)[Len(s) + i] = t[i]
  BY <1>1, ConcatProperties
<1>4. \A i \in 1..(Len(s) + Len(t)) :
         \/ i \in 1..Len(s) /\ (s \o t)[i] = s[i]
         \/ i - Len(s) \in 1..Len(t) /\ (s \o t)[i] = t[i - Len(s)]
  BY <1>1, ConcatProperties
<1>5. ASSUME NEW x
      PROVE  x \in Elements(s \o t) <=> x \in Elements(s) \/ x \in Elements(t)
  <2>1. x \in Elements(s) <=> \E i \in 1..Len(s) : x = s[i]
    BY ElementsOf
  <2>2. x \in Elements(t) <=> \E i \in 1..Len(t) : x = t[i]
    BY ElementsOf
  <2>3. x \in Elements(s \o t) <=> \E i \in 1..(Len(s) + Len(t)) : x = (s \o t)[i]
    BY <1>1, ElementsOf
  <2> QED BY <1>2, <1>3, <1>4, <2>1, <2>2, <2>3
<1> QED BY <1>5

LEMMA Cut ==
    ASSUME NEW s \in Seq(Nat), NEW n \in 0..Len(s)
    PROVE  /\ Front(s, n) \in Seq(Nat) /\ Len(Front(s, n)) = n
           /\ Rest(s, n) \in Seq(Nat) /\ Len(Rest(s, n)) = Len(s) - n
           /\ Front(s, n) \o Rest(s, n) = s
           /\ \A i \in 1..n : Front(s, n)[i] = s[i]
           /\ \A i \in 1..(Len(s) - n) : Rest(s, n)[i] = s[n + i]
<1>1. Len(s) \in Nat /\ n \in Nat /\ \A i \in 1..Len(s) : s[i] \in Nat
  BY LenProperties, ElementOfSeq
<1>2. /\ Front(s, n) \in Seq(Nat) /\ Len(Front(s, n)) = n
      /\ \A i \in 1..n : Front(s, n)[i] = s[i]
  <2>1. \A i \in 1..n : s[i] \in Nat
    BY <1>1
  <2> QED BY <1>1, <2>1, SubSeqProperties DEF Front
<1>3. /\ Rest(s, n) \in Seq(Nat) /\ Len(Rest(s, n)) = Len(s) - n
      /\ \A i \in 1..(Len(s) - n) : Rest(s, n)[i] = s[n + i]
  <2>1. \A i \in (n + 1)..Len(s) : s[i] \in Nat
    BY <1>1
  <2> QED BY <1>1, <2>1, SubSeqProperties DEF Rest
<1>4. Front(s, n) \o Rest(s, n) = s
  <2>1. /\ 1 \in 1..(Len(s) + 1) /\ n \in (1 - 1)..Len(s)
        /\ Len(s) \in n..Len(s)
    BY <1>1
  <2>2. SubSeq(s, 1, n) \o SubSeq(s, n + 1, Len(s)) = SubSeq(s, 1, Len(s))
    BY <2>1, ConcatAdjacentSubSeq
  <2> QED BY <2>2, SubSeqFull DEF Front, Rest
<1> QED BY <1>2, <1>3, <1>4

LEMMA HeadAndTail ==
    ASSUME NEW s \in Seq(Nat), s # <<>>
    PROVE  /\ Head(s) \in Nat /\ Tail(s) \in Seq(Nat)
           /\ <<Head(s)>> \in Seq(Nat) /\ <<Head(s)>> \o Tail(s) = s
           /\ Len(s) \in Nat \ {0} /\ Len(Tail(s)) = Len(s) - 1
           /\ Head(s) = s[1]
<1>1. Len(s) \in Nat \ {0} /\ 1 \in 1..Len(s)
  BY EmptySeq
<1>2. Head(s) = s[1] /\ Tail(s) = SubSeq(s, 2, Len(s)) /\ Head(s) \in Nat
      /\ Tail(s) \in Seq(Nat) /\ Len(Tail(s)) = Len(s) - 1
  BY HeadTailProperties, TailIsSubSeq
<1>3. SubSeq(s, 1, Len(s)) = <<s[1]>> \o SubSeq(s, 2, Len(s))
  BY <1>1, SubSeqRecursiveFirst
<1> QED BY <1>1, <1>2, <1>3, SubSeqFull

LEMMA Single ==
    ASSUME NEW x \in Nat
    PROVE  <<x>> \in Seq(Nat) /\ Len(<<x>>) = 1 /\ <<x>>[1] = x /\ Elements(<<x>>) = {x}
<1>1. <<x>> \in Seq(Nat) /\ Len(<<x>>) = 1 /\ <<x>>[1] = x
  OBVIOUS
<1>2. \A i \in 1..1 : <<x>>[i] = x
  BY <1>1
<1>3. \A y : y \in Elements(<<x>>) <=> \E i \in 1..1 : y = <<x>>[i]
  BY <1>1, ElementsOf
<1>4. 1 \in 1..1
  OBVIOUS
<1> QED BY <1>1, <1>2, <1>3, <1>4

LEMMA Join ==
    \A s, t \in Seq(Nat) :
       /\ s \o t \in Seq(Nat)
       /\ Len(s) \in Nat /\ Len(s \o t) = Len(s) + Len(t)
       /\ s \o <<>> = s /\ <<>> \o s = s
       /\ <<>> \in Seq(Nat)
BY ConcatProperties, ConcatEmptySeq, LenProperties, EmptySeq

LEMMA Regroup ==
    \A s, t, u \in Seq(Nat) : (s \o t) \o u = s \o (t \o u)
BY ConcatAssociative, SMTT(30)

-----------------------------------------------------------------------------
(* The invariant.  A hand is empty when its thread asks for the next       *)
(* burst, a table that is flushed or drained is not, and a table never     *)
(* holds more than a burst.                                                *)
Steps == {"read", "enqueue", "poll", "schedule", "release", "count", "push",
          "fill", "flush", "drain"}
Stats == [nb_rx : Nat, nb_drop : Nat]

TypeInv ==
    /\ pc \in [Threads -> Steps] /\ conf \in [Threads -> Flows]
    /\ read \in [Flows -> Nat] /\ counter \in [Flows -> Nat]
    /\ rxHand \in Seq(Nat) /\ wtHand \in Seq(Nat) /\ txHand \in Seq(Nat)
    /\ rxRing \in [Flows -> Seq(Nat)] /\ port \in [Flows -> Seq(Nat)]
    /\ txRing \in [Flows -> Seq(Nat)] /\ table \in [Flows -> Seq(Nat)]
    /\ sent \in [Flows -> Seq(Nat)]
    /\ rxStat \in [Flows -> Stats] /\ wtStat \in [Flows -> Stats]
    /\ dropped \in [Flows -> SUBSET Nat]

HandInv ==
    /\ pc["rx"] \in {"read", "enqueue"}
    /\ pc["rx"] = "read" => rxHand = <<>>
    /\ pc["wt"] \in {"poll", "drain"} => wtHand = <<>>
    /\ pc["tx"] \in {"poll", "drain"} => txHand = <<>>
    /\ IF Mixed
       THEN /\ pc["wt"] # "push" /\ pc["tx"] = "poll"
            /\ \A f \in Flows : txRing[f] = <<>>
       ELSE pc["wt"] \in {"poll", "schedule", "release", "push"}

TableInv ==
    /\ pc[Sender] \in {"flush", "drain"} => table[conf[Sender]] # <<>>
    /\ \A f \in Flows : Len(table[f]) <= TxBurst

WayInv == TypeInv /\ HandInv /\ TableInv

-----------------------------------------------------------------------------
(* The steps of a flow, whatever is between the scheduler and the two ends. *)
New(f) == [i \in 1..RxBurst |-> read[f] + i]

Arrives(f) ==
    /\ read[f] + RxBurst <= MaxPackets
    /\ read'[f] = read[f] + RxBurst
    /\ Offered(f)' = Offered(f) \o New(f)
    /\ rxStat'[f] = [rxStat[f] EXCEPT !.nb_rx = @ + RxBurst]
    /\ UNCHANGED <<dropped[f], wtStat[f], sent[f], port[f], Released(f)>>

Refused(f) ==
    \E left, lost \in Seq(Nat) :
       /\ Offered(f) = left \o lost /\ Offered(f)' = left
       /\ dropped'[f] = dropped[f] \cup Elements(lost)
       /\ rxStat'[f] = [rxStat[f] EXCEPT !.nb_drop = @ + Len(lost)]
       /\ UNCHANGED <<read[f], wtStat[f], sent[f], port[f], Released(f)>>

Scheduled(f) ==
    \E burst, rest \in Seq(Nat) : \E n \in 0..Len(burst) :
    \E c \in Choices(n, Len(burst)) :
       LET kept == Chosen(burst, n, c) IN
       /\ Offered(f) = burst \o rest /\ Offered(f)' = rest
       /\ port'[f] = port[f] \o kept
       /\ dropped'[f] = dropped[f] \cup (Elements(burst) \ Elements(kept))
       /\ wtStat'[f] = [nb_rx |-> wtStat[f].nb_rx + Len(burst),
                        nb_drop |-> wtStat[f].nb_drop + (Len(burst) - n)]
       /\ UNCHANGED <<read[f], rxStat[f], sent[f], Released(f)>>

Picked(f) ==
    \E i \in 1..Len(port[f]) :
       /\ \A j \in 1..(i - 1) : Class(port[f][j]) # Class(port[f][i])
       /\ Released(f)' = Released(f) \o <<port[f][i]>>
       /\ port'[f] = Front(port[f], i - 1) \o Rest(port[f], i)
       /\ UNCHANGED <<read[f], dropped[f], rxStat[f], wtStat[f], sent[f], Offered(f)>>

Leaves(f) ==
    \E x \in Nat, later \in Seq(Nat) :
       /\ Released(f) = (sent[f] \o <<x>>) \o later
       /\ sent'[f] = Append(sent[f], x)
       /\ UNCHANGED <<read[f], dropped[f], rxStat[f], wtStat[f], port[f],
                      Released(f), Offered(f)>>

Stays(f) ==
    UNCHANGED <<read[f], dropped[f], rxStat[f], wtStat[f], sent[f], port[f],
                Released(f), Offered(f)>>

FlowStep(f) ==
    Arrives(f) \/ Refused(f) \/ Scheduled(f) \/ Picked(f) \/ Leaves(f) \/ Stays(f)

-----------------------------------------------------------------------------
LEMMA Constants ==
    ASSUME PipelineAssumption
    PROVE  /\ NFlows \in Nat \ {0} /\ Classes \in Nat \ {0} /\ RxBurst \in Nat \ {0}
           /\ RingBurst \in Nat \ {0} /\ QosDequeue \in Nat \ {0}
           /\ TxBurst \in Nat \ {0} /\ DrainTsc \in Nat \ {0}
           /\ MaxPackets \in Nat /\ RingSlots \in Nat
           /\ Mixed \in BOOLEAN /\ Sender \in Threads /\ Sender \in {"wt", "tx"}
           /\ 0 \in Flows
           /\ \A f \in Flows : (f + 1) % NFlows \in Flows
<1>1. /\ NFlows \in Nat \ {0} /\ Classes \in Nat \ {0} /\ RxBurst \in Nat \ {0}
      /\ RingBurst \in Nat \ {0} /\ QosDequeue \in Nat \ {0}
      /\ TxBurst \in Nat \ {0} /\ DrainTsc \in Nat \ {0}
      /\ MaxPackets \in Nat /\ RingSlots \in Nat /\ Mixed \in BOOLEAN
  BY DEF PipelineAssumption
<1>2. Sender \in Threads /\ Sender \in {"wt", "tx"}
  BY DEF Sender, Threads
<1>3. 0 \in Flows /\ \A f \in Flows : (f + 1) % NFlows \in Flows
  BY <1>1 DEF Flows
<1> QED BY <1>1, <1>2, <1>3

LEMMA Typed ==
    ASSUME TypeInv, NEW f \in Flows
    PROVE  /\ sent[f] \in Seq(Nat) /\ table[f] \in Seq(Nat) /\ txRing[f] \in Seq(Nat)
           /\ port[f] \in Seq(Nat) /\ rxRing[f] \in Seq(Nat)
           /\ TxHand(f) \in Seq(Nat) /\ After(f) \in Seq(Nat)
           /\ Before(f) \in Seq(Nat) /\ RxHand(f) \in Seq(Nat)
           /\ Released(f) \in Seq(Nat) /\ Offered(f) \in Seq(Nat)
<1>1. /\ sent[f] \in Seq(Nat) /\ table[f] \in Seq(Nat) /\ txRing[f] \in Seq(Nat)
      /\ port[f] \in Seq(Nat) /\ rxRing[f] \in Seq(Nat)
  BY DEF TypeInv
<1>2. /\ TxHand(f) \in Seq(Nat) /\ After(f) \in Seq(Nat)
      /\ Before(f) \in Seq(Nat) /\ RxHand(f) \in Seq(Nat)
  BY Join DEF TypeInv, TxHand, After, Before, RxHand, WtHand
<1>3. Released(f) \in Seq(Nat)
  <2>1. sent[f] \o table[f] \in Seq(Nat)
    BY <1>1, Join
  <2>2. sent[f] \o table[f] \o TxHand(f) \in Seq(Nat)
    BY <2>1, <1>2, Join
  <2>3. sent[f] \o table[f] \o TxHand(f) \o txRing[f] \in Seq(Nat)
    BY <2>2, <1>1, Join
  <2> QED BY <2>3, <1>2, Join DEF Released
<1>4. Offered(f) \in Seq(Nat)
  <2>1. Before(f) \o rxRing[f] \in Seq(Nat)
    BY <1>1, <1>2, Join
  <2> QED BY <2>1, <1>2, Join DEF Offered
<1> QED BY <1>1, <1>2, <1>3, <1>4

LEMMA WayInit ==
    ASSUME PipelineAssumption, Init
    PROVE  WayInv
<1>1. <<>> \in Seq(Nat) /\ Len(<<>>) = 0
  BY EmptySeq
<1>2. TypeInv
  BY <1>1, Constants DEF Init, TypeInv, Steps, Stats, Threads, Empty, NoStat
<1>3. HandInv
  BY DEF Init, HandInv, Empty
<1>4. TableInv
  BY <1>1, Constants DEF Init, TableInv, Empty
<1> QED BY <1>2, <1>3, <1>4 DEF WayInv

LEMMA Goes ==
    ASSUME TypeInv, NEW t \in Threads, NEW step \in Steps, Goto(t, step)
    PROVE  /\ pc' \in [Threads -> Steps] /\ pc'[t] = step
           /\ \A u \in Threads \ {t} : pc'[u] = pc[u]
BY DEF TypeInv, Goto

LEMMA Turns ==
    ASSUME PipelineAssumption, TypeInv, NEW t \in Threads, NextConf(t)
    PROVE  /\ conf' \in [Threads -> Flows]
           /\ \A u \in Threads \ {t} : conf'[u] = conf[u]
<1>1. (conf[t] + 1) % NFlows \in Flows
  BY Constants DEF TypeInv
<1> QED BY <1>1 DEF TypeInv, NextConf

(* The counter and the turn of a thread after an empty poll. *)
LEMMA Counts ==
    ASSUME PipelineAssumption, TypeInv, NEW t \in Threads, NEW n \in Nat,
           CountAnd(t, conf[t], n)
    PROVE  /\ pc' \in [Threads -> Steps] /\ conf' \in [Threads -> Flows]
           /\ counter' \in [Flows -> Nat]
           /\ pc'[t] \in {"poll", "drain"}
           /\ \A u \in Threads \ {t} : pc'[u] = pc[u] /\ conf'[u] = conf[u]
           /\ pc'[t] = "drain" => conf'[t] = conf[t] /\ table[conf[t]] # <<>>
<1>1. conf[t] \in Flows /\ n + 1 \in Nat /\ 0 \in Nat
  BY DEF TypeInv
<1>2. counter' \in [Flows -> Nat]
  BY <1>1, Constants DEF CountAnd, TypeInv
<1>3. \/ NextConf(t) /\ Goto(t, "poll")
      \/ UNCHANGED conf /\ Goto(t, "drain") /\ table[conf[t]] # <<>>
  BY DEF CountAnd
<1>4. "poll" \in Steps /\ "drain" \in Steps
  BY DEF Steps
<1>5. CASE NextConf(t) /\ Goto(t, "poll")
  BY <1>2, <1>4, <1>5, Goes, Turns
<1>6. CASE UNCHANGED conf /\ Goto(t, "drain") /\ table[conf[t]] # <<>>
  BY <1>2, <1>4, <1>6, Goes DEF TypeInv
<1> QED BY <1>3, <1>5, <1>6

LEMMA Sums == \A a, b \in Nat : a + b \in Nat
OBVIOUS

LEMMA Adds ==
    \A s \in Stats, n \in Nat :
       /\ s.nb_rx \in Nat /\ s.nb_drop \in Nat
       /\ [s EXCEPT !.nb_rx = @ + n] \in Stats /\ [s EXCEPT !.nb_drop = @ + n] \in Stats
BY DEF Stats

LEMMA WayReceiver ==
    ASSUME PipelineAssumption, WayInv, Receiver
    PROVE  WayInv'
<1> DEFINE f == conf["rx"]
<1>1. TypeInv /\ HandInv /\ TableInv /\ "rx" \in Threads /\ Sender \in Threads \ {"rx"}
  BY Constants DEF WayInv, Threads
<1>2. f \in Flows /\ read[f] \in Nat /\ rxStat[f] \in Stats /\ dropped[f] \in SUBSET Nat
      /\ rxRing[f] \in Seq(Nat) /\ rxHand \in Seq(Nat) /\ Len(rxHand) \in Nat
      /\ <<>> \in Seq(Nat)
  BY <1>1, Join DEF TypeInv
<1>3. \A t \in Threads \ {"rx"} :
         pc'[t] = pc[t] /\ conf'[t] = conf[t] /\ UNCHANGED <<wtHand, txHand, txRing, table>>
  BY <1>1, Goes, Turns DEF Receiver, RxRead, RxEnqueue, RxDrop, Steps, TypeInv
<1>4. {"wt", "tx"} \subseteq Threads \ {"rx"}
  BY DEF Threads
<1>5. TableInv'
  BY <1>1, <1>3 DEF TableInv, Sender
<1>6. pc' \in [Threads -> Steps] /\ pc'["rx"] \in {"read", "enqueue"}
      /\ (pc'["rx"] = "read" => rxHand' = <<>>)
  BY <1>1, Goes DEF Receiver, RxRead, RxEnqueue, RxDrop, Steps, TypeInv
<1>7. HandInv'
  BY <1>1, <1>3, <1>4, <1>6 DEF HandInv
<1>8. CASE RxRead
  <2>1. \A i \in 1..RxBurst : read[f] + i \in Nat
    BY <1>2
  <2>2. [i \in 1..RxBurst |-> read[f] + i] \in Seq(Nat)
    BY <2>1, Constants, IsASeq
  <2>3. read[f] + RxBurst \in Nat
    BY <1>2, Constants, Sums
  <2>4. [rxStat[f] EXCEPT !.nb_rx = @ + RxBurst] \in Stats
    BY <1>2, Constants, Adds
  <2>5. rxStat' \in [Flows -> Stats]
    BY <1>1, <1>2, <1>8, <2>4 DEF RxRead, TypeInv
  <2>6. read' \in [Flows -> Nat]
    BY <1>1, <1>2, <1>8, <2>3 DEF RxRead, TypeInv
  <2>7. TypeInv'
    BY <1>1, <1>2, <1>6, <1>8, <2>2, <2>5, <2>6 DEF RxRead, TypeInv
  <2> QED BY <1>5, <1>7, <2>7 DEF WayInv
<1>9. CASE RxEnqueue
  <2>1. rxRing[f] \o rxHand \in Seq(Nat)
    BY <1>2, Join
  <2>2. rxRing' \in [Flows -> Seq(Nat)]
    BY <1>1, <1>2, <1>9, <2>1 DEF RxEnqueue, TypeInv
  <2>3. conf' \in [Threads -> Flows]
    BY <1>1, <1>9, Turns DEF RxEnqueue
  <2>4. TypeInv'
    BY <1>1, <1>2, <1>6, <1>9, <2>2, <2>3 DEF RxEnqueue, TypeInv
  <2> QED BY <1>5, <1>7, <2>4 DEF WayInv
<1>10. CASE RxDrop
  <2>1. dropped[f] \cup Elements(rxHand) \in SUBSET Nat
    BY <1>2, ElementsOf
  <2>2. [rxStat[f] EXCEPT !.nb_drop = @ + Len(rxHand)] \in Stats
    BY <1>2, Adds
  <2>3. dropped' \in [Flows -> SUBSET Nat] /\ rxStat' \in [Flows -> Stats]
    BY <1>1, <1>2, <1>10, <2>1, <2>2 DEF RxDrop, TypeInv
  <2>4. conf' \in [Threads -> Flows]
    BY <1>1, <1>10, Turns DEF RxDrop
  <2>5. TypeInv'
    BY <1>1, <1>2, <1>6, <1>10, <2>3, <2>4 DEF RxDrop, TypeInv
  <2> QED BY <1>5, <1>7, <2>5 DEF WayInv
<1> QED BY <1>8, <1>9, <1>10 DEF Receiver

(* What the scheduler keeps of a burst is a sequence of its packets. *)
LEMMA Keeps ==
    ASSUME NEW s \in Seq(Nat), NEW n \in 0..Len(s), NEW c \in Choices(n, Len(s))
    PROVE  /\ Chosen(s, n, c) \in Seq(Nat) /\ Len(Chosen(s, n, c)) = n
           /\ Elements(Chosen(s, n, c)) \subseteq Elements(s)
           /\ \A i \in 1..n : c[i] \in 1..Len(s) /\ Chosen(s, n, c)[i] = s[c[i]]
           /\ \A i, j \in 1..n : i < j => c[i] < c[j]
<1> DEFINE kept == Chosen(s, n, c)
<1>1. /\ \A i \in 1..n : c[i] \in 1..Len(s)
      /\ \A i, j \in 1..n : i < j => c[i] < c[j]
      /\ n \in Nat
  BY LenProperties DEF Choices
<1>2. \A i \in 1..n : s[c[i]] \in Nat
  BY <1>1, ElementOfSeq
<1>3. kept \in Seq(Nat)
  BY <1>1, <1>2, IsASeq DEF Chosen
<1>4. Len(kept) = n /\ \A i \in 1..n : kept[i] = s[c[i]]
  BY <1>1, <1>3 DEF Chosen
<1>5. ASSUME NEW x \in Elements(kept) PROVE x \in Elements(s)
  <2>1. PICK i \in 1..n : x = kept[i]
    BY <1>3, <1>4, ElementsOf
  <2> QED BY <1>1, <1>4, <2>1, ElementsOf
<1> QED BY <1>1, <1>3, <1>4, <1>5

LEMMA SmallerFits ==
    \A m, n \in Nat : Smaller(m, n) \in 0..m /\ Smaller(m, n) \in 0..n
BY DEF Smaller

LEMMA WayWorker ==
    ASSUME PipelineAssumption, WayInv, Worker
    PROVE  WayInv'
<1> DEFINE f == conf["wt"]
<1>1. TypeInv /\ HandInv /\ TableInv /\ "wt" \in Threads /\ "tx" \in Threads /\ "rx" \in Threads
  BY Constants DEF WayInv, Threads
<1>2. f \in Flows /\ rxRing[f] \in Seq(Nat) /\ port[f] \in Seq(Nat) /\ txRing[f] \in Seq(Nat)
      /\ wtHand \in Seq(Nat) /\ <<>> \in Seq(Nat) /\ dropped[f] \in SUBSET Nat
      /\ wtStat[f] \in Stats /\ Len(wtHand) \in Nat /\ Len(rxRing[f]) \in Nat
  BY <1>1, Join DEF TypeInv
<1>3. /\ pc' \in [Threads -> Steps]
      /\ pc'["wt"] \in {"schedule", "release", "count", "push", "poll"}
      /\ \A t \in Threads \ {"wt"} : pc'[t] = pc[t]
  BY <1>1, Goes DEF Worker, WtPoll, WtSchedule, WtPick, WtReleased, WtPush, Steps, TypeInv
<1>4. /\ conf' \in [Threads -> Flows]
      /\ \A t \in Threads \ {"wt"} : conf'[t] = conf[t]
  BY <1>1, Turns DEF Worker, WtPoll, WtSchedule, WtPick, WtReleased, WtPush, TypeInv
<1>5. UNCHANGED <<read, rxHand, txHand, table, counter, sent, rxStat>>
  BY DEF Worker, WtPoll, WtSchedule, WtPick, WtReleased, WtPush
<1>6. TableInv'
  BY <1>1, <1>3, <1>4, <1>5, Constants DEF TableInv, Sender
<1>7. ASSUME wtHand' \in Seq(Nat), txRing' \in [Flows -> Seq(Nat)],
             pc'["wt"] = "poll" => wtHand' = <<>>,
             Mixed => pc'["wt"] # "push" /\ txRing' = txRing,
             ~Mixed => pc'["wt"] # "count"
      PROVE  HandInv'
  BY <1>1, <1>3, <1>5, <1>7 DEF HandInv
<1>8. ASSUME wtHand' \in Seq(Nat), txRing' \in [Flows -> Seq(Nat)],
             rxRing' \in [Flows -> Seq(Nat)], port' \in [Flows -> Seq(Nat)],
             wtStat' \in [Flows -> Stats], dropped' \in [Flows -> SUBSET Nat]
      PROVE  TypeInv'
  BY <1>1, <1>3, <1>4, <1>5, <1>8 DEF TypeInv
<1>9. CASE WtPoll
  <2> DEFINE n == Smaller(Len(rxRing[f]), RingBurst)
  <2>1. n \in 0..Len(rxRing[f])
    BY <1>2, Constants, SmallerFits
  <2>2. Front(rxRing[f], n) \in Seq(Nat) /\ Rest(rxRing[f], n) \in Seq(Nat)
    BY <1>2, <2>1, Cut
  <2>3. rxRing' \in [Flows -> Seq(Nat)] /\ wtHand' \in Seq(Nat)
    BY <1>1, <1>2, <1>9, <2>2 DEF WtPoll, TypeInv
  <2>4. pc'["wt"] \in {"schedule", "release"}
    BY <1>1, <1>9, Goes DEF WtPoll, Steps
  <2>5. TypeInv' /\ HandInv'
    BY <1>1, <1>7, <1>8, <1>9, <2>3, <2>4 DEF WtPoll, TypeInv
  <2> QED BY <1>6, <2>5 DEF WayInv
<1>10. CASE WtSchedule
  <2>1. PICK n, c :
           LET kept == Chosen(wtHand, n, c) IN
           /\ n \in 0..Len(wtHand) /\ c \in Choices(n, Len(wtHand))
           /\ port' = [port EXCEPT ![f] = @ \o kept]
           /\ dropped' = [dropped EXCEPT ![f] = @ \cup (Elements(wtHand) \ Elements(kept))]
           /\ wtStat' = [wtStat EXCEPT ![f] =
                            [nb_rx |-> @.nb_rx + Len(wtHand),
                             nb_drop |-> @.nb_drop + (Len(wtHand) - n)]]
    BY <1>10 DEF WtSchedule
  <2> DEFINE kept == Chosen(wtHand, n, c)
  <2>2. kept \in Seq(Nat)
    BY <1>2, <2>1, Keeps
  <2>3. port[f] \o kept \in Seq(Nat)
    BY <1>2, <2>2, Join
  <2>4. dropped[f] \cup (Elements(wtHand) \ Elements(kept)) \in SUBSET Nat
    BY <1>2, ElementsOf
  <2>5. [nb_rx |-> wtStat[f].nb_rx + Len(wtHand),
         nb_drop |-> wtStat[f].nb_drop + (Len(wtHand) - n)] \in Stats
    <3>1. wtStat[f].nb_rx \in Nat /\ wtStat[f].nb_drop \in Nat
      BY <1>2, Adds
    <3>2. Len(wtHand) \in Nat /\ Len(wtHand) - n \in Nat
      BY <1>2, <2>1
    <3>3. /\ wtStat[f].nb_rx + Len(wtHand) \in Nat
          /\ wtStat[f].nb_drop + (Len(wtHand) - n) \in Nat
      BY <3>1, <3>2, Sums
    <3> QED BY <3>3 DEF Stats
  <2>6. port' \in [Flows -> Seq(Nat)]
    BY <1>1, <1>2, <2>1, <2>3 DEF TypeInv
  <2>7. dropped' \in [Flows -> SUBSET Nat]
    BY <1>1, <1>2, <2>1, <2>4 DEF TypeInv
  <2>8. wtStat' \in [Flows -> Stats]
    BY <1>1, <1>2, <2>1, <2>5 DEF TypeInv
  <2>9. pc'["wt"] = "release"
    BY <1>1, <1>10, Goes DEF WtSchedule, Steps
  <2>10. TypeInv' /\ HandInv'
    BY <1>1, <1>2, <1>7, <1>8, <1>10, <2>6, <2>7, <2>8, <2>9 DEF WtSchedule, TypeInv
  <2> QED BY <1>6, <2>10 DEF WayInv
<1>11. CASE WtPick
  <2>1. PICK i \in DOMAIN port[f] :
           /\ wtHand' = Append(wtHand, port[f][i])
           /\ port' = [port EXCEPT ![f] = Front(@, i - 1) \o Rest(@, i)]
    BY <1>11 DEF WtPick
  <2>2. i \in 1..Len(port[f]) /\ port[f][i] \in Nat /\ Len(port[f]) \in Nat
    BY <1>2, LenProperties, ElementOfSeq
  <2>3. i - 1 \in 0..Len(port[f]) /\ i \in 0..Len(port[f])
    BY <2>2
  <2>4. Front(port[f], i - 1) \in Seq(Nat) /\ Rest(port[f], i) \in Seq(Nat)
    BY <1>2, <2>3, Cut
  <2>5. Front(port[f], i - 1) \o Rest(port[f], i) \in Seq(Nat)
    BY <2>4, Join
  <2>6. port' \in [Flows -> Seq(Nat)]
    BY <1>1, <1>2, <2>1, <2>5 DEF TypeInv
  <2>7. wtHand' \in Seq(Nat)
    BY <1>2, <2>1, <2>2, AppendProperties
  <2>8. pc'["wt"] = "release"
    BY <1>11 DEF WtPick
  <2>9. TypeInv' /\ HandInv'
    BY <1>1, <1>7, <1>8, <1>11, <2>6, <2>7, <2>8 DEF WtPick, TypeInv
  <2> QED BY <1>6, <2>9 DEF WayInv
<1>12. CASE WtReleased
  <2>1. IF Mixed THEN pc'["wt"] = "count"
        ELSE pc'["wt"] = IF wtHand = <<>> THEN "poll" ELSE "push"
    BY <1>1, <1>12, Goes DEF WtReleased, Steps
  <2>2. TypeInv' /\ HandInv'
    BY <1>1, <1>7, <1>8, <1>12, <2>1 DEF WtReleased, TypeInv
  <2> QED BY <1>6, <2>2 DEF WayInv
<1>13. CASE WtPush
  <2>1. txRing[f] \o wtHand \in Seq(Nat)
    BY <1>2, Join
  <2>2. txRing' \in [Flows -> Seq(Nat)]
    BY <1>1, <1>2, <1>13, <2>1 DEF WtPush, TypeInv
  <2>3. pc'["wt"] = "poll" /\ ~Mixed
    BY <1>1, <1>13, Goes DEF WtPush, Steps, HandInv
  <2>4. TypeInv' /\ HandInv'
    BY <1>1, <1>2, <1>7, <1>8, <1>13, <2>2, <2>3 DEF WtPush, TypeInv
  <2> QED BY <1>6, <2>4 DEF WayInv
<1> QED BY <1>9, <1>10, <1>11, <1>12, <1>13 DEF Worker

LEMMA Sends ==
    ASSUME PipelineAssumption, WayInv
    PROVE  /\ TypeInv /\ HandInv /\ TableInv
           /\ Hand \in Seq(Nat) /\ Len(Hand) \in Nat
           /\ conf[Sender] \in Flows /\ Sender \in Threads
           /\ {"rx", "wt", "tx"} \subseteq Threads
           /\ table[conf[Sender]] \in Seq(Nat) /\ Len(table[conf[Sender]]) \in 0..TxBurst
           /\ TxBurst \in Nat \ {0} /\ <<>> \in Seq(Nat) /\ Len(<<>>) = 0
<1>1. TypeInv /\ HandInv /\ TableInv /\ Sender \in Threads /\ TxBurst \in Nat \ {0}
      /\ {"rx", "wt", "tx"} \subseteq Threads /\ <<>> \in Seq(Nat) /\ Len(<<>>) = 0
  BY Constants, EmptySeq DEF WayInv, Threads
<1>2. conf[Sender] \in Flows /\ Hand \in Seq(Nat)
  BY <1>1 DEF TypeInv, Hand
<1>3. table[conf[Sender]] \in Seq(Nat) /\ Len(table[conf[Sender]]) <= TxBurst
  BY <1>1, <1>2 DEF TypeInv, TableInv
<1> QED BY <1>1, <1>2, <1>3, Join

(* Emptied: the turn of the thread that polled or has sent its burst.      *)
LEMMA WayCounted ==
    ASSUME PipelineAssumption, WayInv, NEW t \in {"wt", "tx"}, NEW n \in Nat,
           CountAnd(t, conf[t], n), t = Sender,
           t = "wt" => wtHand = <<>>, t = "tx" => txHand = <<>>,
           UNCHANGED <<read, rxHand, rxRing, wtHand, port, txRing, txHand, table,
                       sent, rxStat, wtStat, dropped>>
    PROVE  WayInv'
<1>1. t \in Threads
  BY DEF Threads
<1>2. /\ pc' \in [Threads -> Steps] /\ conf' \in [Threads -> Flows]
      /\ counter' \in [Flows -> Nat]
      /\ pc'[t] \in {"poll", "drain"}
      /\ \A u \in Threads \ {t} : pc'[u] = pc[u] /\ conf'[u] = conf[u]
      /\ pc'[t] = "drain" => conf'[t] = conf[t] /\ table[conf[t]] # <<>>
  BY <1>1, Counts DEF WayInv
<1>3. TypeInv'
  BY <1>2 DEF WayInv, TypeInv
<1>4. TableInv'
  BY <1>2 DEF WayInv, TableInv, Sender
<1>5. HandInv'
  <2>1. "rx" \in Threads \ {t} /\ {"wt", "tx"} \subseteq Threads
    BY DEF Threads
  <2>2. CASE Mixed
    BY <1>2, <2>1, <2>2 DEF WayInv, HandInv, Sender
  <2>3. CASE ~Mixed
    BY <1>2, <2>1, <2>3 DEF WayInv, HandInv, Sender
  <2> QED BY <2>2, <2>3
<1> QED BY <1>3, <1>4, <1>5 DEF WayInv

LEMMA WayFill ==
    ASSUME PipelineAssumption, WayInv, Fill
    PROVE  WayInv'
<1> DEFINE f == conf[Sender]
           n == Smaller(Len(Hand), TxBurst - Len(table[f]))
<1>1. n \in 0..Len(Hand) /\ n \in 0..(TxBurst - Len(table[f])) /\ n \in Nat
  <2>1. Len(Hand) \in Nat /\ TxBurst - Len(table[f]) \in Nat
    BY Sends
  <2>2. n \in 0..Len(Hand) /\ n \in 0..(TxBurst - Len(table[f]))
    BY <2>1, SmallerFits
  <2> QED BY <2>1, <2>2
<1>2. Front(Hand, n) \in Seq(Nat) /\ Len(Front(Hand, n)) = n /\ Rest(Hand, n) \in Seq(Nat)
  BY <1>1, Sends, Cut
<1>3. table[f] \o Front(Hand, n) \in Seq(Nat)
      /\ Len(table[f] \o Front(Hand, n)) = Len(table[f]) + n
  <2>1. table[f] \in Seq(Nat)
    BY Sends
  <2> HIDE DEF n, f
  <2> QED BY <1>2, <2>1, Join
<1>4. table' = [table EXCEPT ![f] = @ \o Front(Hand, n)] /\ table' \in [Flows -> Seq(Nat)]
  BY <1>3, Sends DEF Fill, TypeInv
<1>5. /\ pc' \in [Threads -> Steps]
      /\ pc'[Sender] = IF Len(table[f]) + n = TxBurst THEN "flush" ELSE "fill"
      /\ \A u \in Threads \ {Sender} : pc'[u] = pc[u]
  BY Sends, Goes DEF Fill, Steps
<1>6. wtHand' \in Seq(Nat) /\ txHand' \in Seq(Nat) /\ (Mixed => UNCHANGED txHand)
      /\ (~Mixed => UNCHANGED wtHand)
  BY <1>2, Sends DEF Fill, SetHand, TypeInv
<1>7. TypeInv'
  BY <1>4, <1>5, <1>6, Sends DEF Fill, TypeInv
<1>8. TableInv'
  <2>0. table \in [Flows -> Seq(Nat)] /\ \A g \in Flows : Len(table[g]) <= TxBurst
    BY DEF WayInv, TypeInv, TableInv
  <2>1. \A g \in Flows : Len(table'[g]) <= TxBurst
    <3>1. Len(table[f] \o Front(Hand, n)) <= TxBurst
      <4>1. Len(table[f]) \in Nat /\ TxBurst \in Nat BY Sends
      <4> HIDE DEF n, f
      <4> QED BY <1>1, <1>3, <4>1
    <3>2. \A g \in Flows : table'[g] = IF g = f THEN table[f] \o Front(Hand, n) ELSE table[g]
      <4> HIDE DEF n, f
      <4> QED BY <1>4, <2>0
    <3> HIDE DEF n, f
    <3> QED BY <2>0, <3>1, <3>2
  <2>2. pc'[Sender] = "flush" => table'[f] # <<>>
    BY <1>1, <1>3, <1>4, <1>5, Sends DEF TypeInv
  <2>3. conf' = conf /\ pc'[Sender] # "drain"
    BY <1>5 DEF Fill
  <2> QED BY <2>1, <2>2, <2>3 DEF TableInv, Sender
<1>9. HandInv'
  <2>1. CASE Mixed
    BY <1>5, <1>6, <2>1, Sends DEF Fill, HandInv, Sender
  <2>2. CASE ~Mixed
    BY <1>5, <1>6, <2>2, Sends DEF Fill, HandInv, Sender
  <2> QED BY <2>1, <2>2
<1> QED BY <1>7, <1>8, <1>9 DEF WayInv

LEMMA WaySendOne ==
    ASSUME PipelineAssumption, WayInv, Flush \/ Drain
    PROVE  WayInv'
<1> DEFINE f == conf[Sender]
<1>1. table[f] # <<>>
  BY Sends DEF Flush, Drain, TableInv
<1>2. Tail(table[f]) \in Seq(Nat) /\ Len(Tail(table[f])) = Len(table[f]) - 1
      /\ Head(table[f]) \in Nat /\ Len(table[f]) \in Nat \ {0}
  BY <1>1, Sends, HeadAndTail
<1>3. Append(sent[f], Head(table[f])) \in Seq(Nat)
  BY <1>2, Sends, AppendProperties DEF TypeInv
<1>4. table' = [table EXCEPT ![f] = Tail(@)] /\ table' \in [Flows -> Seq(Nat)]
  <2>1. table' = [table EXCEPT ![f] = Tail(@)]
    BY DEF Flush, Drain, SendOne
  <2>2. table \in [Flows -> Seq(Nat)] /\ f \in Flows
    BY Sends DEF TypeInv
  <2> HIDE DEF f
  <2> QED BY <1>2, <2>1, <2>2
<1>5. sent' \in [Flows -> Seq(Nat)]
  <2>1. sent' = [sent EXCEPT ![f] = Append(@, Head(table[f]))]
    BY DEF Flush, Drain, SendOne
  <2>2. sent \in [Flows -> Seq(Nat)] /\ f \in Flows
    BY Sends DEF TypeInv
  <2> HIDE DEF f
  <2> QED BY <1>3, <2>1, <2>2
<1>6. UNCHANGED <<read, rxHand, rxRing, wtHand, port, txRing, txHand, counter,
                  rxStat, wtStat, dropped>>
  BY DEF Flush, Drain, SendOne
<1>7. /\ pc' \in [Threads -> Steps] /\ conf' \in [Threads -> Flows]
      /\ \A u \in Threads \ {Sender} : pc'[u] = pc[u]
      /\ \/ Flush /\ conf' = conf /\ pc'[Sender] = IF Last THEN "fill" ELSE "flush"
         \/ Drain /\ Last /\ pc'[Sender] = "poll"
         \/ Drain /\ ~Last /\ conf' = conf /\ pc'[Sender] = "drain"
  <2>1. CASE Flush
    BY <2>1, Sends, Goes DEF Flush, Steps, TypeInv
  <2>2. CASE Drain
    BY <2>2, Sends, Goes, Turns DEF Drain, Steps, TypeInv
  <2> QED BY <2>1, <2>2
<1>8. TypeInv'
  BY <1>4, <1>5, <1>6, <1>7, Sends DEF TypeInv
<1>9. TableInv'
  <2>1. \A g \in Flows : Len(table'[g]) <= TxBurst
    BY <1>2, <1>4, Sends DEF TableInv, TypeInv
  <2>2. ~Last => table'[f] # <<>>
    <3>1. table \in [Flows -> Seq(Nat)] /\ f \in Flows /\ Len(<<>>) = 0
      BY Sends DEF TypeInv
    <3>2. table'[f] = Tail(table[f])
      BY <1>4, <3>1
    <3>3. ~Last => Len(table[f]) # 1
      BY DEF Last
    <3>4. ~Last => Len(Tail(table[f])) # 0
      BY <1>2, <3>3
    <3>5. Tail(table[f]) = <<>> => Len(Tail(table[f])) = 0
      BY <3>1
    <3> QED BY <3>2, <3>4, <3>5
  <2>3. pc'[Sender] \in {"flush", "drain"} => ~Last /\ conf' = conf
    BY <1>7
  <2> QED BY <2>1, <2>2, <2>3 DEF TableInv, Sender
<1>10. HandInv'
  <2>1. CASE Mixed
    BY <1>6, <1>7, <2>1, Sends DEF Flush, Drain, HandInv, Sender
  <2>2. CASE ~Mixed
    BY <1>6, <1>7, <2>2, Sends DEF Flush, Drain, HandInv, Sender
  <2> QED BY <2>1, <2>2
<1> QED BY <1>8, <1>9, <1>10 DEF WayInv

LEMMA WayTransmitter ==
    ASSUME PipelineAssumption, WayInv, Transmitter
    PROVE  WayInv'
<1>1. CASE Mixed /\ MixedCount
  <2>1. Sender = "wt"
    BY <1>1 DEF Sender
  <2>2. CASE wtHand = <<>>
    <3>1. counter[conf["wt"]] \in Nat
      BY Sends DEF TypeInv
    <3>2. CountAnd("wt", conf["wt"], counter[conf["wt"]])
      BY <1>1, <2>2 DEF MixedCount
    <3>3. UNCHANGED <<read, rxHand, rxRing, wtHand, port, txRing, txHand, table,
                      sent, rxStat, wtStat, dropped>>
      BY <1>1 DEF MixedCount
    <3> QED BY <2>1, <2>2, <3>1, <3>2, <3>3, WayCounted
  <2>3. CASE wtHand # <<>>
    <3>1. Goto("wt", "fill") /\ UNCHANGED <<conf, counter>>
          /\ UNCHANGED <<read, rxHand, rxRing, wtHand, port, txRing, txHand, table,
                         sent, rxStat, wtStat, dropped>>
      BY <1>1, <2>3 DEF MixedCount
    <3>2. pc' \in [Threads -> Steps] /\ pc'["wt"] = "fill"
          /\ pc'["rx"] = pc["rx"] /\ pc'["tx"] = pc["tx"]
      BY <3>1, Sends, Goes DEF Steps, Threads
    <3>3. TypeInv' /\ TableInv'
      BY <2>1, <3>1, <3>2, Sends DEF TypeInv, TableInv, Sender
    <3>4. HandInv'
      BY <1>1, <3>1, <3>2, Sends DEF HandInv
    <3> QED BY <3>3, <3>4 DEF WayInv
  <2> QED BY <2>2, <2>3
<1>2. CASE ~Mixed /\ TxPoll
  <2> DEFINE f == conf["tx"]
  <2>1. f \in Flows /\ txRing[f] \in Seq(Nat) /\ Sender = "tx"
        /\ QosDequeue \in 0..Len(txRing[f])
    BY <1>2, Sends, Constants, Join DEF TxPoll, Sender, TypeInv
  <2>2. Front(txRing[f], QosDequeue) \in Seq(Nat) /\ Rest(txRing[f], QosDequeue) \in Seq(Nat)
    BY <2>1, Cut
  <2>3. txRing' \in [Flows -> Seq(Nat)] /\ txHand' \in Seq(Nat)
    BY <1>2, <2>1, <2>2, Sends DEF TxPoll, TypeInv
  <2>4. pc' \in [Threads -> Steps] /\ pc'["tx"] = "fill"
        /\ pc'["rx"] = pc["rx"] /\ pc'["wt"] = pc["wt"]
    BY <1>2, Sends, Goes DEF TxPoll, Steps, Threads
  <2>5. TypeInv' /\ TableInv'
    BY <1>2, <2>1, <2>3, <2>4, Sends DEF TxPoll, TypeInv, TableInv, Sender
  <2>6. HandInv'
    BY <1>2, <2>4, Sends DEF TxPoll, HandInv
  <2> QED BY <2>5, <2>6 DEF WayInv
<1>3. CASE ~Mixed /\ TxIdle
  <2>1. Sender = "tx" /\ txHand = <<>>
    BY <1>3, Sends DEF TxIdle, HandInv, Sender
  <2>2. counter[conf["tx"]] \in Nat
    BY Sends DEF TypeInv
  <2>3. CountAnd("tx", conf["tx"], counter[conf["tx"]])
        /\ UNCHANGED <<read, rxHand, rxRing, wtHand, port, txRing, txHand, table,
                       sent, rxStat, wtStat, dropped>>
    BY <1>3 DEF TxIdle
  <2> QED BY <2>1, <2>2, <2>3, WayCounted
<1>4. CASE Fill
  BY <1>4, WayFill
<1>5. CASE Filled
  <2>1. /\ Sender = "wt" => wtHand = <<>>
        /\ Sender = "tx" => txHand = <<>>
        /\ Sender \in {"wt", "tx"}
    BY <1>5 DEF Filled, Hand, Sender
  <2>2. CountAnd(Sender, conf[Sender], 0)
        /\ UNCHANGED <<read, rxHand, rxRing, wtHand, port, txRing, txHand, table,
                       sent, rxStat, wtStat, dropped>>
    BY <1>5 DEF Filled
  <2> QED BY <2>1, <2>2, WayCounted
<1>6. CASE Flush \/ Drain
  BY <1>6, WaySendOne
<1> QED BY <1>1, <1>2, <1>3, <1>4, <1>5, <1>6 DEF Transmitter, Output

LEMMA WayNext ==
    ASSUME PipelineAssumption, WayInv, [Next]_vars
    PROVE  WayInv'
<1>1. CASE Next
  BY <1>1, WayReceiver, WayWorker, WayTransmitter DEF Next
<1>2. CASE UNCHANGED vars
  BY <1>2 DEF vars, WayInv, TypeInv, HandInv, TableInv, Sender
<1> QED BY <1>1, <1>2

-----------------------------------------------------------------------------
(* What each thread does to a flow. *)
LEMMA EmptyIfNone ==
    \A s \in Seq(Nat) : Len(s) = 0 => s = <<>>
BY EmptySeq

LEMMA ReceiverSteps ==
    ASSUME PipelineAssumption, WayInv, Receiver, NEW f \in Flows
    PROVE  FlowStep(f)
<1>1. UNCHANGED <<Released(f), Before(f), port[f], sent[f], wtStat[f]>>
  <2>1. UNCHANGED <<wtHand, port, txRing, txHand, table, sent, wtStat>>
        /\ pc'["wt"] = pc["wt"] /\ conf'["wt"] = conf["wt"] /\ conf'["tx"] = conf["tx"]
    BY Sends, Goes, Turns
       DEF Receiver, RxRead, RxEnqueue, RxDrop, Threads, Steps
  <2> QED BY <2>1 DEF Released, After, Before, TxHand, WtHand
<1>2. Before(f) \in Seq(Nat) /\ rxRing[f] \in Seq(Nat) /\ RxHand(f) \in Seq(Nat)
      /\ Offered(f) \in Seq(Nat) /\ rxHand \in Seq(Nat)
  BY Sends, Typed DEF TypeInv
<1> DEFINE B == Before(f) \o rxRing[f]
<1>3. B \in Seq(Nat) /\ Offered(f) = B \o RxHand(f)
  BY <1>2, Join DEF Offered
<1>4. CASE conf["rx"] # f
  <2>1. UNCHANGED <<read[f], dropped[f], rxStat[f], rxRing[f]>>
    BY <1>4, Sends DEF Receiver, RxRead, RxEnqueue, RxDrop, TypeInv
  <2>2. RxHand(f) = <<>>
    BY <1>4 DEF RxHand
  <2>3. RxHand(f)' = <<>>
    BY <1>4 DEF RxHand, Receiver, RxRead, RxEnqueue, RxDrop
  <2>4. Stays(f)
    BY <1>1, <2>1, <2>2, <2>3 DEF Stays, Offered
  <2> QED BY <2>4 DEF FlowStep
<1>5. CASE conf["rx"] = f /\ RxRead
  <2>1. RxHand(f) = <<>> /\ RxHand(f)' = New(f)
    BY <1>5, Sends DEF RxHand, RxRead, HandInv, New
  <2>2. /\ read[f] + RxBurst <= MaxPackets
        /\ read'[f] = read[f] + RxBurst
        /\ rxStat'[f] = [rxStat[f] EXCEPT !.nb_rx = @ + RxBurst]
        /\ UNCHANGED <<dropped[f], rxRing[f]>>
    BY <1>5, Sends DEF RxRead, TypeInv
  <2>3. Offered(f) = B
    BY <1>3, <2>1, Join
  <2>4. Offered(f)' = B \o New(f)
    BY <1>1, <2>1, <2>2 DEF Offered
  <2>5. Arrives(f)
    BY <1>1, <2>2, <2>3, <2>4 DEF Arrives
  <2> QED BY <2>5 DEF FlowStep
<1>6. CASE conf["rx"] = f /\ RxEnqueue
  <2>1. RxHand(f) = rxHand /\ RxHand(f)' = <<>>
    BY <1>6 DEF RxHand, RxEnqueue
  <2>2. rxRing'[f] = rxRing[f] \o rxHand /\ UNCHANGED <<read[f], dropped[f], rxStat[f]>>
    BY <1>6, Sends DEF RxEnqueue, TypeInv
  <2>3. Offered(f)' = Before(f) \o (rxRing[f] \o rxHand)
    <3>1. Before(f) \o (rxRing[f] \o rxHand) \in Seq(Nat)
      BY <1>2, Join
    <3>2. Offered(f)' = (Before(f) \o (rxRing[f] \o rxHand)) \o <<>>
      BY <1>1, <2>1, <2>2 DEF Offered
    <3> QED BY <3>1, <3>2, Join
  <2>4. Offered(f) = Before(f) \o (rxRing[f] \o rxHand)
    BY <1>2, <1>3, <2>1, Regroup, ZenonT(40)
  <2>5. Stays(f)
    BY <1>1, <2>2, <2>3, <2>4 DEF Stays
  <2> QED BY <2>5 DEF FlowStep
<1>7. CASE conf["rx"] = f /\ RxDrop
  <2>1. RxHand(f) = rxHand /\ RxHand(f)' = <<>>
    BY <1>7 DEF RxHand, RxDrop
  <2>2. /\ UNCHANGED <<read[f], rxRing[f]>>
        /\ dropped'[f] = dropped[f] \cup Elements(rxHand)
        /\ rxStat'[f] = [rxStat[f] EXCEPT !.nb_drop = @ + Len(rxHand)]
    BY <1>7, Sends DEF RxDrop, TypeInv
  <2>3. Offered(f)' = B \o <<>>
    BY <1>1, <2>1, <2>2 DEF Offered
  <2>4. Offered(f)' = B /\ Offered(f) = B \o rxHand
    BY <1>3, <2>1, <2>3, Join
  <2>5. Refused(f)
    BY <1>1, <1>2, <1>3, <2>2, <2>4 DEF Refused
  <2> QED BY <2>5 DEF FlowStep
<1> QED BY <1>4, <1>5, <1>6, <1>7 DEF Receiver

(* What the scheduler released, without the hand it is put into. *)
Onward(f) == sent[f] \o table[f] \o TxHand(f) \o txRing[f]

LEMMA OnwardTyped ==
    ASSUME TypeInv, NEW f \in Flows
    PROVE  Onward(f) \in Seq(Nat) /\ Released(f) = Onward(f) \o After(f)
<1>1. sent[f] \o table[f] \in Seq(Nat)
  BY Typed, Join
<1>2. sent[f] \o table[f] \o TxHand(f) \in Seq(Nat)
  BY <1>1, Typed, Join
<1>3. sent[f] \o table[f] \o TxHand(f) \o txRing[f] \in Seq(Nat)
  BY <1>2, Typed, Join
<1> QED BY <1>3 DEF Onward, Released

LEMMA WorkerSteps ==
    ASSUME PipelineAssumption, WayInv, Worker, NEW f \in Flows
    PROVE  FlowStep(f)
<1>1. UNCHANGED <<read[f], rxStat[f], sent[f], table[f], TxHand(f), RxHand(f)>>
  <2>1. UNCHANGED <<read, rxStat, sent, table, txHand, rxHand>>
        /\ conf'["tx"] = conf["tx"] /\ conf'["rx"] = conf["rx"]
    BY Sends, Turns
       DEF Worker, WtPoll, WtSchedule, WtPick, WtReleased, WtPush, Threads
  <2> QED BY <2>1 DEF TxHand, RxHand
<1>2. /\ rxRing[f] \in Seq(Nat) /\ port[f] \in Seq(Nat) /\ RxHand(f) \in Seq(Nat)
      /\ txRing[f] \in Seq(Nat) /\ wtHand \in Seq(Nat) /\ <<>> \in Seq(Nat)
      /\ Onward(f) \in Seq(Nat) /\ Released(f) = Onward(f) \o After(f)
      /\ rxRing[f] \o RxHand(f) \in Seq(Nat)
  BY Sends, Typed, OnwardTyped, Join DEF TypeInv
<1>3. ASSUME UNCHANGED <<txRing[f], rxRing[f], After(f), Before(f), port[f],
                         wtStat[f], dropped[f]>>
      PROVE  FlowStep(f)
  BY <1>1, <1>3 DEF Released, Offered, Stays, FlowStep
<1>4. CASE conf["wt"] # f
  <2>1. UNCHANGED <<txRing[f], rxRing[f], port[f], wtStat[f], dropped[f]>>
    BY <1>4, Sends
       DEF Worker, WtPoll, WtSchedule, WtPick, WtReleased, WtPush, TypeInv
  <2>2. WtHand(f) = <<>>
    BY <1>4 DEF WtHand
  <2>3. WtHand(f)' = <<>>
    BY <1>4 DEF WtHand, Worker, WtPoll, WtSchedule, WtPick, WtReleased, WtPush
  <2> QED BY <1>3, <2>1, <2>2, <2>3 DEF After, Before
<1>5. CASE conf["wt"] = f /\ WtPoll
  <2> DEFINE n == Smaller(Len(rxRing[f]), RingBurst)
             h == Front(rxRing[f], n)
             r == Rest(rxRing[f], n)
  <2>1. n \in 0..Len(rxRing[f])
    BY <1>2, Constants, SmallerFits, Join
  <2>2. h \in Seq(Nat) /\ r \in Seq(Nat) /\ Len(h) = n /\ h \o r = rxRing[f]
    BY <1>2, <2>1, Cut
  <2>3. /\ wtHand' = h /\ rxRing'[f] = r /\ conf' = conf
        /\ pc'["wt"] = IF n > 0 THEN "schedule" ELSE "release"
        /\ UNCHANGED <<txRing[f], port[f], wtStat[f], dropped[f]>>
    BY <1>5, Sends, Goes DEF WtPoll, TypeInv, Steps
  <2>4. After(f) = <<>> /\ Before(f) = <<>>
    BY <1>5, Sends DEF After, Before, WtHand, WtPoll, HandInv
  <2>5. n = 0 => h = <<>>
    BY <2>2, EmptyIfNone
  <2>6. After(f)' = <<>> /\ Before(f)' = h
    BY <1>5, <2>3, <2>5, <2>1 DEF After, Before, WtHand
  <2>7. Offered(f) = rxRing[f] \o RxHand(f)
    BY <1>2, <2>4, Join DEF Offered
  <2>8. Offered(f)' = rxRing[f] \o RxHand(f)
    BY <1>1, <2>2, <2>3, <2>6 DEF Offered
  <2>9. Released(f)' = Released(f)
    BY <1>1, <2>3, <2>4, <2>6 DEF Released
  <2> QED BY <1>1, <2>3, <2>7, <2>8, <2>9 DEF Stays, FlowStep
<1>6. CASE conf["wt"] = f /\ WtSchedule
  <2>1. PICK n, c :
           /\ n \in 0..Len(wtHand) /\ c \in Choices(n, Len(wtHand))
           /\ port' = [port EXCEPT ![f] = @ \o Chosen(wtHand, n, c)]
           /\ dropped' = [dropped EXCEPT ![f] =
                             @ \cup (Elements(wtHand) \ Elements(Chosen(wtHand, n, c)))]
           /\ wtStat' = [wtStat EXCEPT ![f] =
                            [nb_rx |-> @.nb_rx + Len(wtHand),
                             nb_drop |-> @.nb_drop + (Len(wtHand) - n)]]
    BY <1>6 DEF WtSchedule
  <2>2. /\ port'[f] = port[f] \o Chosen(wtHand, n, c)
        /\ dropped'[f] = dropped[f] \cup (Elements(wtHand) \ Elements(Chosen(wtHand, n, c)))
        /\ wtStat'[f] = [nb_rx |-> wtStat[f].nb_rx + Len(wtHand),
                         nb_drop |-> wtStat[f].nb_drop + (Len(wtHand) - n)]
    BY <2>1, Sends DEF TypeInv
  <2>3. pc["wt"] = "schedule" /\ pc'["wt"] = "release" /\ wtHand' = <<>>
        /\ UNCHANGED <<conf, rxRing, txRing>>
    BY <1>6, Sends, Goes DEF WtSchedule, Steps
  <2>4. After(f) = <<>> /\ Before(f) = wtHand /\ After(f)' = <<>> /\ Before(f)' = <<>>
    BY <1>6, <2>3 DEF After, Before, WtHand
  <2>5. Offered(f) = wtHand \o (rxRing[f] \o RxHand(f))
    <3>1. wtHand \in Seq(Nat) /\ rxRing[f] \in Seq(Nat) /\ RxHand(f) \in Seq(Nat)
      BY <1>2
    <3>2. (wtHand \o rxRing[f]) \o RxHand(f) = wtHand \o (rxRing[f] \o RxHand(f))
      BY <3>1, Regroup
    <3> QED BY <2>4, <3>2 DEF Offered
  <2>6. Offered(f)' = rxRing[f] \o RxHand(f)
    BY <1>1, <1>2, <2>3, <2>4, Join DEF Offered
  <2>7. Released(f)' = Released(f)
    BY <1>1, <2>3, <2>4 DEF Released
  <2>8. Scheduled(f)
    BY <1>1, <1>2, <2>1, <2>2, <2>5, <2>6, <2>7 DEF Scheduled
  <2> QED BY <2>8 DEF FlowStep
<1>7. CASE conf["wt"] = f /\ WtPick
  <2>1. PICK i \in DOMAIN port[f] :
           /\ \A j \in 1..(i - 1) : Class(port[f][j]) # Class(port[f][i])
           /\ wtHand' = Append(wtHand, port[f][i])
           /\ port' = [port EXCEPT ![f] = Front(@, i - 1) \o Rest(@, i)]
    BY <1>7 DEF WtPick
  <2>2. i \in 1..Len(port[f]) /\ port[f][i] \in Nat
    <3>1. port[f] \in Seq(Nat) BY <1>2
    <3>2. i \in 1..Len(port[f]) BY <3>1, LenProperties
    <3> QED BY <3>1, <3>2, ElementOfSeq
  <2>3. wtHand' = wtHand \o <<port[f][i]>> /\ <<port[f][i]>> \in Seq(Nat)
    <3>1. wtHand \in Seq(Nat) BY <1>2
    <3>2. Append(wtHand, port[f][i]) = wtHand \o <<port[f][i]>>
      BY <2>2, <3>1, AppendIsConcat
    <3> QED BY <2>1, <2>2, <3>2, Single
  <2>4. port'[f] = Front(port[f], i - 1) \o Rest(port[f], i)
    BY <2>1, Sends DEF TypeInv
  <2>5. pc["wt"] = "release" /\ UNCHANGED <<pc, conf, rxRing, txRing, wtStat, dropped>>
    BY <1>7 DEF WtPick
  <2>6. After(f) = wtHand /\ After(f)' = wtHand' /\ Before(f) = <<>> /\ Before(f)' = <<>>
    BY <1>7, <2>5 DEF After, Before, WtHand
  <2>7. Released(f)' = Onward(f) \o (wtHand \o <<port[f][i]>>)
    BY <1>1, <2>3, <2>5, <2>6 DEF Released, Onward
  <2>8. (Onward(f) \o wtHand) \o <<port[f][i]>> = Onward(f) \o (wtHand \o <<port[f][i]>>)
    <3>1. Onward(f) \in Seq(Nat) /\ wtHand \in Seq(Nat) /\ <<port[f][i]>> \in Seq(Nat)
      BY <1>2, <2>3
    <3> QED BY <3>1, Regroup
  <2>9. Released(f)' = Released(f) \o <<port[f][i]>>
    BY <1>2, <2>6, <2>7, <2>8
  <2>10. UNCHANGED <<Offered(f), wtStat[f], dropped[f]>>
    BY <1>1, <2>5, <2>6 DEF Offered
  <2>11. Picked(f)
    BY <1>1, <2>1, <2>2, <2>4, <2>9, <2>10 DEF Picked
  <2> QED BY <2>11 DEF FlowStep
<1>8. CASE conf["wt"] = f /\ WtReleased
  <2>1. /\ pc["wt"] = "release" /\ pc'["wt"] \in {"count", "poll", "push"}
        /\ conf'["wt"] = f \/ wtHand = <<>>
        /\ UNCHANGED <<rxRing, wtHand, port, txRing, wtStat, dropped>>
    BY <1>8, Sends, Goes DEF WtReleased, Steps
  <2>2. After(f)' = After(f) /\ Before(f)' = Before(f)
    BY <1>8, <2>1 DEF After, Before, WtHand
  <2> QED BY <1>3, <2>1, <2>2
<1>9. CASE conf["wt"] = f /\ WtPush
  <2>1. /\ pc["wt"] = "push" /\ pc'["wt"] = "poll" /\ wtHand' = <<>>
        /\ txRing'[f] = txRing[f] \o wtHand
        /\ UNCHANGED <<rxRing, port, wtStat, dropped>>
    BY <1>9, Sends, Goes DEF WtPush, Steps, TypeInv
  <2>2. After(f) = wtHand /\ Before(f) = <<>> /\ After(f)' = <<>> /\ Before(f)' = <<>>
    BY <1>9, <2>1 DEF After, Before, WtHand
  <2> DEFINE X == sent[f] \o table[f] \o TxHand(f)
  <2>3. X \in Seq(Nat)
    <3>1. sent[f] \o table[f] \in Seq(Nat)
      BY Sends, Typed, Join
    <3> QED BY <3>1, Sends, Typed, Join
  <2>4. Released(f) = (X \o txRing[f]) \o wtHand
    BY <2>2 DEF Released
  <2>5. Released(f)' = (X \o (txRing[f] \o wtHand)) \o <<>>
    BY <1>1, <2>1, <2>2 DEF Released
  <2>6. (X \o txRing[f]) \o wtHand = X \o (txRing[f] \o wtHand)
        /\ X \o (txRing[f] \o wtHand) \in Seq(Nat)
    <3> HIDE DEF X
    <3>1. X \in Seq(Nat) /\ txRing[f] \in Seq(Nat) /\ wtHand \in Seq(Nat)
      BY <1>2, <2>3
    <3>2. (X \o txRing[f]) \o wtHand = X \o (txRing[f] \o wtHand)
      BY <3>1, Regroup
    <3> QED BY <3>1, <3>2, Join
  <2>7. Released(f)' = Released(f)
    BY <2>4, <2>5, <2>6, Join
  <2>8. Offered(f)' = Offered(f)
    BY <1>1, <2>1, <2>2 DEF Offered
  <2>9. Stays(f)
    BY <1>1, <2>1, <2>7, <2>8 DEF Stays
  <2> QED BY <2>9 DEF FlowStep
<1> QED BY <1>4, <1>5, <1>6, <1>7, <1>8, <1>9 DEF Worker

(* Concatenation as an operator the provers take as it is: they expand \o, *)
(* and then find no instance of a law with more than three sequences.      *)
Cat(s, t) == s \o t

LEMMA CatLaws ==
    /\ \A s, t \in Seq(Nat) : Cat(s, t) \in Seq(Nat)
    /\ \A s, t, u \in Seq(Nat) : Cat(Cat(s, t), u) = Cat(s, Cat(t, u))
<1>1. \A s, t \in Seq(Nat) : Cat(s, t) \in Seq(Nat)
  BY Join DEF Cat
<1>2. \A s, t, u \in Seq(Nat) : Cat(Cat(s, t), u) = Cat(s, Cat(t, u))
  BY Regroup DEF Cat
<1> QED BY <1>1, <1>2

(* A burst that is cut where the table is full is whole again when its     *)
(* front is behind the table and its rest in the hand.                     *)
LEMMA CutBurst ==
    ASSUME NEW s \in Seq(Nat), NEW t \in Seq(Nat), NEW a \in Seq(Nat), NEW b \in Seq(Nat)
    PROVE  Cat(Cat(s, Cat(t, a)), b) = Cat(Cat(s, t), Cat(a, b))
<1>1. Cat(Cat(s, t), a) = Cat(s, Cat(t, a))
  BY CatLaws
<1>2. Cat(s, t) \in Seq(Nat)
  BY CatLaws
<1>3. \A p, q, r \in Seq(Nat) : Cat(Cat(p, q), r) = Cat(p, Cat(q, r))
  BY CatLaws
<1>4. Cat(Cat(Cat(s, t), a), b) = Cat(Cat(s, t), Cat(a, b))
  BY <1>2, <1>3, Zenon
<1> QED BY <1>1, <1>4

LEMMA RegroupAll ==
    ASSUME NEW s \in Seq(Nat), NEW t \in Seq(Nat), NEW u \in Seq(Nat), NEW v \in Seq(Nat),
           NEW w \in Seq(Nat)
    PROVE  /\ Cat(Cat(Cat(t, u), v), w) \in Seq(Nat)
           /\ Cat(Cat(Cat(Cat(s, t), u), v), w) = Cat(s, Cat(Cat(Cat(t, u), v), w))
<1> DEFINE tu == Cat(t, u)
           tuv == Cat(tu, v)
<1>1. tu \in Seq(Nat)
  BY CatLaws
<1>2. \A p, q \in Seq(Nat) : Cat(Cat(s, p), q) = Cat(s, Cat(p, q))
  BY CatLaws
<1>3. Cat(Cat(s, t), u) = Cat(s, tu)
  BY CatLaws
<1> HIDE DEF tu
<1>4. tuv \in Seq(Nat)
  BY <1>1, CatLaws
<1>5. Cat(Cat(s, tu), v) = Cat(s, tuv)
  BY <1>1, <1>2
<1> HIDE DEF tuv
<1>6. Cat(tuv, w) \in Seq(Nat)
  BY <1>4, CatLaws
<1>7. Cat(Cat(s, tuv), w) = Cat(s, Cat(tuv, w))
  BY <1>2, <1>4
<1> QED BY <1>3, <1>5, <1>6, <1>7 DEF tu, tuv

(* The oldest packet goes from the table to the wire. *)
LEMMA SendHead ==
    ASSUME NEW s \in Seq(Nat), NEW t \in Seq(Nat), t # <<>>
    PROVE  /\ <<Head(t)>> \in Seq(Nat) /\ Tail(t) \in Seq(Nat) /\ Head(t) \in Nat
           /\ Append(s, Head(t)) = s \o <<Head(t)>>
           /\ s \o <<Head(t)>> \in Seq(Nat)
           /\ (s \o <<Head(t)>>) \o Tail(t) = s \o t
<1>1. /\ <<Head(t)>> \in Seq(Nat) /\ Tail(t) \in Seq(Nat) /\ Head(t) \in Nat
      /\ <<Head(t)>> \o Tail(t) = t
  BY HeadAndTail
<1>2. Append(s, Head(t)) = s \o <<Head(t)>>
  BY <1>1, AppendIsConcat
<1>3. s \o <<Head(t)>> \in Seq(Nat)
  BY <1>1, Join
<1>4. ASSUME NEW a \in Seq(Nat), NEW b \in Seq(Nat) PROVE (s \o a) \o b = s \o (a \o b)
  BY Regroup, ZenonT(40)
<1>5. (s \o <<Head(t)>>) \o Tail(t) = s \o (<<Head(t)>> \o Tail(t))
  BY <1>1, <1>4, Zenon
<1> QED BY <1>1, <1>2, <1>3, <1>5

LEMMA CountedSteps ==
    ASSUME PipelineAssumption, WayInv, NEW f \in Flows, NEW t \in {"wt", "tx"}, NEW n \in Nat,
           CountAnd(t, conf[t], n),
           t = "wt" => wtHand = <<>> /\ pc["wt"] # "schedule",
           t = "tx" => txHand = <<>>,
           UNCHANGED <<read, rxHand, rxRing, wtHand, port, txRing, txHand, table,
                       sent, rxStat, wtStat, dropped>>
    PROVE  FlowStep(f)
<1>1. /\ pc'[t] \in {"poll", "drain"} /\ {"wt", "tx"} \subseteq Threads
      /\ \A u \in Threads \ {t} : pc'[u] = pc[u] /\ conf'[u] = conf[u]
  <2>1. t \in Threads /\ {"wt", "tx"} \subseteq Threads
    BY DEF Threads
  <2> QED BY <2>1, Counts, Sends
<1>2. UNCHANGED <<TxHand(f), After(f), Before(f), RxHand(f)>>
  <2>1. CASE t = "wt"
    BY <1>1, <2>1 DEF TxHand, After, Before, RxHand, WtHand, Threads
  <2>2. CASE t = "tx"
    BY <1>1, <2>2 DEF TxHand, After, Before, RxHand, WtHand, Threads
  <2> QED BY <2>1, <2>2
<1> QED BY <1>2 DEF Released, Offered, Stays, FlowStep

LEMMA FillSteps ==
    ASSUME PipelineAssumption, WayInv, Fill, NEW f \in Flows
    PROVE  FlowStep(f)
<1>1. /\ UNCHANGED <<conf, read, rxHand, rxRing, port, txRing, sent, rxStat, wtStat, dropped>>
      /\ pc[Sender] = "fill" /\ pc'[Sender] \in {"flush", "fill"}
      /\ \A u \in Threads \ {Sender} : pc'[u] = pc[u]
      /\ {"rx", "wt", "tx"} \subseteq Threads
  BY Sends, Goes DEF Fill, Steps
<1>2. UNCHANGED Offered(f) /\ (Mixed => Before(f) = <<>>)
  BY <1>1 DEF Offered, Before, RxHand, Sender, WtHand, Fill, SetHand
<1>3. ASSUME UNCHANGED Released(f) PROVE FlowStep(f)
  BY <1>1, <1>2, <1>3 DEF Stays, FlowStep
<1>4. CASE conf[Sender] # f
  <2>1. table'[f] = table[f]
    BY <1>4, Sends DEF Fill, TypeInv
  <2>2. TxHand(f)' = TxHand(f) /\ After(f)' = After(f)
    BY <1>1, <1>4 DEF TxHand, After, WtHand, Sender, Fill, SetHand
  <2> QED BY <1>1, <1>3, <2>1, <2>2 DEF Released
<1>5. CASE conf[Sender] = f
  <2> DEFINE n == Smaller(Len(Hand), TxBurst - Len(table[f]))
             a == Front(Hand, n)
             b == Rest(Hand, n)
  <2>1. n \in 0..Len(Hand)
    <3>1. Len(Hand) \in Nat /\ TxBurst - Len(table[f]) \in Nat
      BY <1>5, Sends
    <3> QED BY <3>1, SmallerFits
  <2>2. a \in Seq(Nat) /\ b \in Seq(Nat) /\ a \o b = Hand
    BY <2>1, Sends, Cut
  <2>3. table' = [table EXCEPT ![f] = @ \o a] /\ SetHand(b)
    BY <1>5 DEF Fill
  <2>4. table'[f] = table[f] \o a
    BY <2>3, Sends DEF TypeInv
  <2>5. sent[f] \in Seq(Nat) /\ table[f] \in Seq(Nat)
    BY Sends DEF TypeInv
  <2> HIDE DEF n, a, b
  <2>6. (sent[f] \o (table[f] \o a)) \o b = (sent[f] \o table[f]) \o (a \o b)
    <3>1. sent[f] \in Seq(Nat) /\ table[f] \in Seq(Nat) /\ a \in Seq(Nat) /\ b \in Seq(Nat)
      BY <2>2, <2>5
    <3>2. Cat(Cat(sent[f], Cat(table[f], a)), b) = Cat(Cat(sent[f], table[f]), Cat(a, b))
      BY <3>1, CutBurst
    <3> QED BY ONLY <3>2 DEF Cat
  <2>7. CASE ~Mixed
    <3>1. TxHand(f) = Hand /\ TxHand(f)' = b /\ After(f)' = After(f)
      BY <1>1, <1>5, <2>3, <2>7 DEF TxHand, Hand, SetHand, After, WtHand, Sender
    <3> QED BY <1>1, <1>3, <2>2, <2>4, <2>6, <3>1 DEF Released
  <2>8. CASE Mixed
    <3>1. After(f) = Hand /\ After(f)' = b
      BY <1>1, <1>5, <2>3, <2>8 DEF Hand, SetHand, After, WtHand, Sender
    <3>2. TxHand(f) = <<>> /\ TxHand(f)' = <<>> /\ txRing[f] = <<>>
      BY <1>1, <2>3, <2>8, Sends DEF TxHand, SetHand, HandInv
    <3>3. sent[f] \o table[f] \in Seq(Nat) /\ sent[f] \o (table[f] \o a) \in Seq(Nat)
      BY <2>2, <2>5, Join
    <3>4. Released(f) = (sent[f] \o table[f]) \o Hand
      BY <3>1, <3>2, <3>3, Join DEF Released
    <3>5. Released(f)' = (((sent[f] \o (table[f] \o a)) \o <<>>) \o <<>>) \o b
      BY <1>1, <2>4, <3>1, <3>2 DEF Released
    <3>6. Released(f)' = (sent[f] \o (table[f] \o a)) \o b
      BY <3>3, <3>5, Join
    <3> QED BY <1>3, <2>2, <2>6, <3>4, <3>6
  <2> QED BY <2>7, <2>8
<1> QED BY <1>4, <1>5

LEMMA SendSteps ==
    ASSUME PipelineAssumption, WayInv, Flush \/ Drain, NEW f \in Flows
    PROVE  FlowStep(f)
<1>1. /\ UNCHANGED <<read, rxHand, rxRing, wtHand, port, txRing, txHand, rxStat,
                     wtStat, dropped>>
      /\ pc[Sender] \in {"flush", "drain"} /\ pc'[Sender] # "schedule"
      /\ \A u \in Threads \ {Sender} : pc'[u] = pc[u] /\ conf'[u] = conf[u]
      /\ {"rx", "wt", "tx"} \subseteq Threads
      /\ conf' = conf \/ pc[Sender] = "drain"
  <2>1. CASE Flush
    BY <2>1, Sends, Goes DEF Flush, SendOne, Steps, TypeInv
  <2>2. CASE Drain
    BY <2>2, Sends, Goes, Turns DEF Drain, SendOne, Steps, TypeInv
  <2> QED BY <2>1, <2>2
<1>2. UNCHANGED <<TxHand(f), After(f), Offered(f)>>
  <2>1. CASE Mixed
    BY <1>1, <2>1, Sends DEF TxHand, After, Offered, Before, RxHand, WtHand, Sender, HandInv
  <2>2. CASE ~Mixed
    BY <1>1, <2>2, Sends DEF TxHand, After, Offered, Before, RxHand, WtHand, Sender, HandInv
  <2> QED BY <2>1, <2>2
<1>3. CASE conf[Sender] # f
  <2>1. table'[f] = table[f] /\ sent'[f] = sent[f]
    BY <1>3, Sends DEF Flush, Drain, SendOne, TypeInv
  <2> QED BY <1>1, <1>2, <2>1 DEF Released, Stays, FlowStep
<1>4. CASE conf[Sender] = f
  <2> DEFINE x == Head(table[f])
             later == Tail(table[f])
  <2>1. table[f] # <<>>
    BY <1>1, <1>4, Sends DEF TableInv
  <2>2. table'[f] = Tail(table[f]) /\ sent'[f] = Append(sent[f], Head(table[f]))
    <3>1. /\ sent' = [sent EXCEPT ![f] = Append(@, Head(table[f]))]
          /\ table' = [table EXCEPT ![f] = Tail(@)]
      BY <1>4 DEF Flush, Drain, SendOne
    <3>2. table \in [Flows -> Seq(Nat)] /\ sent \in [Flows -> Seq(Nat)]
      BY Sends DEF TypeInv
    <3> QED BY <3>1, <3>2, Zenon
  <2>3. /\ sent[f] \in Seq(Nat) /\ table[f] \in Seq(Nat) /\ txRing[f] \in Seq(Nat)
        /\ TxHand(f) \in Seq(Nat) /\ After(f) \in Seq(Nat)
    BY Sends, Typed
  <2>4. /\ x \in Nat /\ later \in Seq(Nat)
        /\ sent'[f] = sent[f] \o <<x>> /\ sent[f] \o <<x>> \in Seq(Nat)
        /\ (sent[f] \o <<x>>) \o later = sent[f] \o table[f]
    BY <2>1, <2>2, <2>3, SendHead
  <2>5. Released(f)' = Released(f)
    BY <1>1, <1>2, <2>2, <2>4 DEF Released
  <2>6. PICK y \in Seq(Nat) : Released(f) = (sent[f] \o <<x>>) \o y
    <3> DEFINE S == sent[f] \o <<x>>
               Y == ((later \o TxHand(f)) \o txRing[f]) \o After(f)
    <3>1. Released(f) = (((S \o later) \o TxHand(f)) \o txRing[f]) \o After(f)
      BY <2>4 DEF Released
    <3>2. S \in Seq(Nat) /\ later \in Seq(Nat) /\ TxHand(f) \in Seq(Nat)
          /\ txRing[f] \in Seq(Nat) /\ After(f) \in Seq(Nat)
      BY <2>3, <2>4
    <3> HIDE DEF S, later
    <3>3. Y \in Seq(Nat)
          /\ (((S \o later) \o TxHand(f)) \o txRing[f]) \o After(f) = S \o Y
      <4>1. /\ Cat(Cat(Cat(later, TxHand(f)), txRing[f]), After(f)) \in Seq(Nat)
            /\ Cat(Cat(Cat(Cat(S, later), TxHand(f)), txRing[f]), After(f))
                  = Cat(S, Cat(Cat(Cat(later, TxHand(f)), txRing[f]), After(f)))
        BY <3>2, RegroupAll
      <4> QED BY ONLY <4>1 DEF Cat
    <3> QED BY <3>1, <3>3 DEF S
  <2>7. Leaves(f)
    BY <1>1, <1>2, <2>2, <2>4, <2>5, <2>6 DEF Leaves
  <2> QED BY <2>7 DEF FlowStep
<1> QED BY <1>3, <1>4

LEMMA TransmitterSteps ==
    ASSUME PipelineAssumption, WayInv, Transmitter, NEW f \in Flows
    PROVE  FlowStep(f)
<1>1. CASE Mixed /\ MixedCount
  <2>1. pc["wt"] = "count" /\ UNCHANGED <<read, rxHand, rxRing, wtHand, port, txRing,
                       txHand, table, sent, rxStat, wtStat, dropped>>
    BY <1>1 DEF MixedCount
  <2>2. CASE wtHand = <<>>
    <3>1. CountAnd("wt", conf["wt"], counter[conf["wt"]]) /\ counter[conf["wt"]] \in Nat
      BY <1>1, <2>2, Sends DEF MixedCount, TypeInv
    <3> QED BY <2>1, <2>2, <3>1, CountedSteps
  <2>3. CASE wtHand # <<>>
    <3>1. Goto("wt", "fill") /\ conf' = conf
      BY <1>1, <2>3 DEF MixedCount
    <3>2. pc'["wt"] = "fill"
      BY <3>1, Sends, Goes DEF Steps
    <3>3. UNCHANGED <<TxHand(f), After(f), Before(f), RxHand(f)>>
      BY <2>1, <3>1, <3>2 DEF TxHand, After, Before, RxHand, WtHand
    <3> QED BY <2>1, <3>3 DEF Released, Offered, Stays, FlowStep
  <2> QED BY <2>2, <2>3
<1>2. CASE ~Mixed /\ TxPoll
  <2>1. /\ UNCHANGED <<conf, read, rxHand, rxRing, wtHand, port, table, sent, rxStat,
                       wtStat, dropped>>
        /\ pc'["wt"] = pc["wt"] /\ txHand = <<>>
    BY <1>2, Sends, Goes DEF TxPoll, Threads, Steps, HandInv
  <2>2. UNCHANGED <<After(f), Before(f), RxHand(f), Offered(f)>>
    BY <2>1 DEF After, Before, RxHand, WtHand, Offered
  <2>3. CASE conf["tx"] # f
    <3>1. txRing'[f] = txRing[f] /\ TxHand(f)' = TxHand(f)
      BY <1>2, <2>1, <2>3, Sends DEF TxPoll, TxHand, TypeInv
    <3> QED BY <2>1, <2>2, <3>1 DEF Released, Stays, FlowStep
  <2>4. CASE conf["tx"] = f
    <3> DEFINE X == sent[f] \o table[f]
               a == Front(txRing[f], QosDequeue)
               b == Rest(txRing[f], QosDequeue)
    <3>1. txRing[f] \in Seq(Nat) /\ sent[f] \in Seq(Nat) /\ table[f] \in Seq(Nat)
          /\ Len(txRing[f]) \in Nat
      BY Sends, Join DEF TypeInv
    <3>2. QosDequeue \in 0..Len(txRing[f])
      BY <1>2, <2>4, <3>1, Constants DEF TxPoll
    <3>3. a \in Seq(Nat) /\ b \in Seq(Nat) /\ a \o b = txRing[f] /\ X \in Seq(Nat)
      BY <3>1, <3>2, Cut, Join
    <3>4. TxHand(f) = <<>> /\ TxHand(f)' = a /\ txRing'[f] = b
      BY <1>2, <2>1, <2>4, Sends DEF TxPoll, TxHand, TypeInv
    <3>5. Released(f) = ((X \o <<>>) \o txRing[f]) \o After(f)
      BY <3>4 DEF Released
    <3>6. Released(f)' = ((X \o a) \o b) \o After(f)
      BY <2>1, <2>2, <3>4 DEF Released
    <3> HIDE DEF X, a, b
    <3>7. (X \o a) \o b = X \o (a \o b) /\ X \o <<>> = X
      <4>1. X \in Seq(Nat) /\ a \in Seq(Nat) /\ b \in Seq(Nat)
        BY <3>3
      <4>2. (X \o a) \o b = X \o (a \o b)
        BY <4>1, Regroup
      <4> QED BY <4>1, <4>2, Join
    <3>8. Released(f)' = Released(f)
      BY <3>3, <3>5, <3>6, <3>7
    <3> QED BY <2>1, <2>2, <3>8 DEF Stays, FlowStep
  <2> QED BY <2>3, <2>4
<1>3. CASE ~Mixed /\ TxIdle
  <2>1. txHand = <<>> /\ counter[conf["tx"]] \in Nat
    BY <1>3, Sends DEF TxIdle, HandInv, TypeInv
  <2>2. CountAnd("tx", conf["tx"], counter[conf["tx"]])
        /\ UNCHANGED <<read, rxHand, rxRing, wtHand, port, txRing, txHand, table,
                       sent, rxStat, wtStat, dropped>>
    BY <1>3 DEF TxIdle
  <2> QED BY <2>1, <2>2, CountedSteps
<1>4. CASE Fill
  BY <1>4, FillSteps
<1>5. CASE Filled
  <2>1. /\ Sender = "wt" => wtHand = <<>> /\ pc["wt"] # "schedule"
        /\ Sender = "tx" => txHand = <<>>
        /\ Sender \in {"wt", "tx"}
    BY <1>5 DEF Filled, Hand, Sender
  <2>2. CountAnd(Sender, conf[Sender], 0)
        /\ UNCHANGED <<read, rxHand, rxRing, wtHand, port, txRing, txHand, table,
                       sent, rxStat, wtStat, dropped>>
    BY <1>5 DEF Filled
  <2> QED BY <2>1, <2>2, CountedSteps
<1>6. CASE Flush \/ Drain
  BY <1>6, SendSteps
<1> QED BY <1>1, <1>2, <1>3, <1>4, <1>5, <1>6 DEF Transmitter, Output

LEMMA FlowSteps ==
    ASSUME PipelineAssumption, WayInv, [Next]_vars, NEW f \in Flows
    PROVE  FlowStep(f)
<1>1. CASE Next
  BY <1>1, ReceiverSteps, WorkerSteps, TransmitterSteps DEF Next
<1>2. CASE UNCHANGED vars
  BY <1>2 DEF vars, FlowStep, Stays, Released, Offered, After, Before, TxHand,
              RxHand, WtHand
<1> QED BY <1>1, <1>2

-----------------------------------------------------------------------------
(* A sequence of different packets, in order within each class.            *)
Precedes(p, q) == p # q /\ (Class(p) = Class(q) => p < q)
InOrder(w) == \A i, j \in 1..Len(w) : i < j => Precedes(w[i], w[j])

LEMMA Index ==
    ASSUME NEW a \in Seq(Nat), NEW b \in Seq(Nat)
    PROVE  /\ a \o b \in Seq(Nat) /\ Len(a) \in Nat /\ Len(b) \in Nat
           /\ Len(a \o b) = Len(a) + Len(b)
           /\ \A i \in 1..Len(a) : i \in 1..Len(a \o b) /\ (a \o b)[i] = a[i] /\ a[i] \in Nat
           /\ \A i \in 1..Len(b) : Len(a) + i \in 1..Len(a \o b)
                                  /\ (a \o b)[Len(a) + i] = b[i] /\ b[i] \in Nat
           /\ \A i \in 1..Len(a \o b) : i \in 1..Len(a) \/ i - Len(a) \in 1..Len(b)
<1>1. a \o b \in Seq(Nat) /\ Len(a) \in Nat /\ Len(b) \in Nat /\ Len(a \o b) = Len(a) + Len(b)
  BY Join
<1>2. \A i \in 1..(Len(a) + Len(b)) :
         (a \o b)[i] = IF i <= Len(a) THEN a[i] ELSE b[i - Len(a)]
  BY ConcatProperties
<1>3. (\A i \in 1..Len(a) : a[i] \in Nat) /\ (\A i \in 1..Len(b) : b[i] \in Nat)
  BY ElementOfSeq
<1>4. \A i \in 1..Len(a) : i \in 1..Len(a \o b) /\ (a \o b)[i] = a[i]
  BY <1>1, <1>2
<1>5. \A i \in 1..Len(b) : Len(a) + i \in 1..Len(a \o b) /\ (a \o b)[Len(a) + i] = b[i]
  BY <1>1, <1>2
<1>6. \A i \in 1..Len(a \o b) : i \in 1..Len(a) \/ i - Len(a) \in 1..Len(b)
  BY <1>1
<1> QED BY <1>1, <1>3, <1>4, <1>5, <1>6

LEMMA OrderConcat ==
    ASSUME NEW a \in Seq(Nat), NEW b \in Seq(Nat)
    PROVE  InOrder(a \o b) <=>
              InOrder(a) /\ InOrder(b) /\ \A p \in Elements(a), q \in Elements(b) : Precedes(p, q)
<1> DEFINE w == a \o b
           la == Len(a)
           lb == Len(b)
<1>1. /\ la \in Nat /\ lb \in Nat /\ Len(w) = la + lb
      /\ \A i \in 1..la : i \in 1..Len(w) /\ w[i] = a[i]
      /\ \A i \in 1..lb : la + i \in 1..Len(w) /\ w[la + i] = b[i]
      /\ \A i \in 1..Len(w) : i \in 1..la \/ i - la \in 1..lb
  BY Index
<1>2. /\ \A p : p \in Elements(a) <=> \E i \in 1..la : p = a[i]
      /\ \A p : p \in Elements(b) <=> \E i \in 1..lb : p = b[i]
  BY ElementsOf
<1>3. /\ InOrder(a) <=> \A i, j \in 1..la : i < j => Precedes(a[i], a[j])
      /\ InOrder(b) <=> \A i, j \in 1..lb : i < j => Precedes(b[i], b[j])
      /\ InOrder(w) <=> \A i, j \in 1..Len(w) : i < j => Precedes(w[i], w[j])
  BY DEF InOrder
<1> DEFINE lw == Len(w)
<1> HIDE DEF w, la, lb, lw
<1>4. ASSUME InOrder(w)
      PROVE  InOrder(a) /\ InOrder(b) /\ \A p \in Elements(a), q \in Elements(b) : Precedes(p, q)
  <2>1. InOrder(a)
    BY <1>1, <1>3, <1>4
  <2>2. ASSUME NEW i \in 1..lb, NEW j \in 1..lb, i < j PROVE Precedes(b[i], b[j])
    <3>1. la + i < la + j /\ la + i \in 1..Len(w) /\ la + j \in 1..Len(w)
      BY <1>1, <2>2
    <3>2. Precedes(w[la + i], w[la + j])
      BY <1>3, <1>4, <3>1
    <3> QED BY <1>1, <3>2
  <2>3. ASSUME NEW p \in Elements(a), NEW q \in Elements(b) PROVE Precedes(p, q)
    <3>1. PICK i \in 1..la : p = a[i]
      BY <1>2
    <3>2. PICK j \in 1..lb : q = b[j]
      BY <1>2
    <3>3. i < la + j /\ i \in 1..Len(w) /\ la + j \in 1..Len(w)
      BY <1>1
    <3>4. Precedes(w[i], w[la + j])
      BY <1>3, <1>4, <3>3
    <3> QED BY <1>1, <3>1, <3>2, <3>4
  <2> QED BY <1>3, <2>1, <2>2, <2>3
<1>5. ASSUME InOrder(a), InOrder(b),
             \A p \in Elements(a), q \in Elements(b) : Precedes(p, q)
      PROVE  InOrder(w)
  <2> SUFFICES ASSUME NEW i \in 1..Len(w), NEW j \in 1..Len(w), i < j
               PROVE  Precedes(w[i], w[j])
    BY <1>3
  <2>1. CASE j \in 1..la
    <3>1. i \in 1..la
      BY <1>1, <2>1
    <3>2. Precedes(a[i], a[j])
      BY <1>3, <1>5, <2>1, <3>1
    <3> QED BY <1>1, <2>1, <3>1, <3>2
  <2>2. CASE j - la \in 1..lb
    <3>1. w[j] = b[j - la] /\ b[j - la] \in Elements(b)
      <4>1. la + (j - la) = j
        BY <1>1
      <4> QED BY <1>1, <1>2, <2>2, <4>1
    <3>2. CASE i \in 1..la
      BY <1>1, <1>2, <1>5, <3>1, <3>2
    <3>3. CASE i - la \in 1..lb
      <4>1. la + (i - la) = i /\ i - la < j - la
        BY <1>1
      <4>2. w[i] = b[i - la]
        BY <1>1, <3>3, <4>1
      <4>3. Precedes(b[i - la], b[j - la])
        BY <1>3, <1>5, <2>2, <3>3, <4>1
      <4> QED BY <3>1, <4>2, <4>3
    <3> QED BY <1>1, <3>2, <3>3
  <2> QED BY <1>1, <2>1, <2>2
<1> QED BY <1>4, <1>5 DEF w

(* What the scheduler keeps of a burst stays in order. *)
LEMMA OrderChosen ==
    ASSUME NEW s \in Seq(Nat), NEW n \in 0..Len(s), NEW c \in Choices(n, Len(s)), InOrder(s)
    PROVE  InOrder(Chosen(s, n, c))
<1> DEFINE k == Chosen(s, n, c)
<1>1. /\ Len(k) = n
      /\ \A i \in 1..n : c[i] \in 1..Len(s) /\ k[i] = s[c[i]]
      /\ \A i, j \in 1..n : i < j => c[i] < c[j]
  BY Keeps
<1> HIDE DEF k
<1>2. ASSUME NEW i \in 1..n, NEW j \in 1..n, i < j PROVE Precedes(k[i], k[j])
  BY <1>1, <1>2 DEF InOrder
<1> QED BY <1>1, <1>2 DEF InOrder, k

LEMMA OrderNew ==
    ASSUME NEW r \in Nat, NEW n \in Nat, NEW v, v = [i \in 1..n |-> r + i]
    PROVE  /\ v \in Seq(Nat) /\ Len(v) = n /\ InOrder(v)
           /\ Elements(v) = (r + 1)..(r + n)
<1>1. \A i \in 1..n : r + i \in Nat
  OBVIOUS
<1>2. v \in Seq(Nat)
  BY <1>1, IsASeq
<1>3. Len(v) = n /\ \A i \in 1..n : v[i] = r + i
  BY <1>2
<1>4. InOrder(v)
  BY <1>3 DEF InOrder, Precedes
<1>5. \A x : x \in Elements(v) <=> \E i \in 1..n : x = v[i]
  BY <1>2, <1>3, ElementsOf, ZenonT(40)
<1>6. ASSUME NEW x \in (r + 1)..(r + n) PROVE x \in Elements(v)
  <2>1. x - r \in 1..n /\ x = r + (x - r)
    OBVIOUS
  <2> QED BY <1>3, <1>5, <2>1
<1>7. ASSUME NEW x \in Elements(v) PROVE x \in (r + 1)..(r + n)
  BY <1>3, <1>5
<1> QED BY <1>2, <1>3, <1>4, <1>6, <1>7

(* The packet the scheduler picks, the oldest of its class, goes ahead of  *)
(* the others.                                                             *)
LEMMA OrderPicked ==
    ASSUME NEW s \in Seq(Nat), NEW i \in 1..Len(s), InOrder(s),
           \A j \in 1..(i - 1) : Class(s[j]) # Class(s[i])
    PROVE  LET others == Front(s, i - 1) \o Rest(s, i) IN
           /\ s[i] \in Nat /\ others \in Seq(Nat) /\ Len(others) = Len(s) - 1
           /\ InOrder(others) /\ \A p \in Elements(others) : Precedes(s[i], p)
           /\ Elements(s) = {s[i]} \cup Elements(others)
<1> DEFINE F == Front(s, i - 1)
           R == Rest(s, i)
<1>1. s[i] \in Nat /\ Len(s) \in Nat /\ i \in Nat \ {0} /\ i - 1 \in 0..Len(s) /\ i \in 0..Len(s)
  BY Join, ElementOfSeq
<1>2. /\ F \in Seq(Nat) /\ Len(F) = i - 1 /\ \A j \in 1..(i - 1) : F[j] = s[j]
      /\ R \in Seq(Nat) /\ Len(R) = Len(s) - i /\ \A j \in 1..(Len(s) - i) : R[j] = s[i + j]
  BY <1>1, Cut
<1> HIDE DEF F, R
<1>3. /\ \A p : p \in Elements(F) <=> \E j \in 1..(i - 1) : p = s[j]
      /\ \A p : p \in Elements(R) <=> \E j \in 1..(Len(s) - i) : p = s[i + j]
      /\ \A p : p \in Elements(s) <=> \E j \in 1..Len(s) : p = s[j]
  <2>1. \A p : p \in Elements(F) <=> \E j \in 1..(i - 1) : p = F[j]
    BY <1>2, ElementsOf
  <2>2. \A p : p \in Elements(R) <=> \E j \in 1..(Len(s) - i) : p = R[j]
    BY <1>2, ElementsOf
  <2>3. \A p : p \in Elements(s) <=> \E j \in 1..Len(s) : p = s[j]
    BY ElementsOf
  <2>4. \A p : p \in Elements(F) <=> \E j \in 1..(i - 1) : p = s[j]
    <3>1. \A j \in 1..(i - 1) : F[j] = s[j]
      BY <1>2
    <3> QED BY <2>1, <3>1, ZenonT(40)
  <2>5. \A p : p \in Elements(R) <=> \E j \in 1..(Len(s) - i) : p = s[i + j]
    <3>1. \A j \in 1..(Len(s) - i) : R[j] = s[i + j]
      BY <1>2
    <3> QED BY <2>2, <3>1, ZenonT(40)
  <2> QED BY <2>3, <2>4, <2>5
<1>4. /\ F \o R \in Seq(Nat) /\ Len(F \o R) = Len(s) - 1
      /\ Elements(F \o R) = Elements(F) \cup Elements(R)
  <2>1. F \in Seq(Nat) /\ R \in Seq(Nat)
    BY <1>2
  <2>2. F \o R \in Seq(Nat) /\ Len(F \o R) = Len(F) + Len(R)
    BY <2>1, Join
  <2>3. Elements(F \o R) = Elements(F) \cup Elements(R)
    BY <2>1, ElementsConcat
  <2>4. Len(F) + Len(R) = Len(s) - 1
    BY <1>1, <1>2
  <2> QED BY <2>2, <2>3, <2>4
<1>5. \A j, k \in 1..Len(s) : j < k => Precedes(s[j], s[k])
  BY DEF InOrder
<1>6. InOrder(F)
  <2> SUFFICES ASSUME NEW j \in 1..(i - 1), NEW k \in 1..(i - 1), j < k
               PROVE  Precedes(F[j], F[k])
    BY <1>2 DEF InOrder
  <2>1. j \in 1..Len(s) /\ k \in 1..Len(s)
    BY <1>1
  <2>2. Precedes(s[j], s[k])
    BY <1>5, <2>1
  <2> QED BY <1>2, <2>2
<1>7. InOrder(R)
  <2> SUFFICES ASSUME NEW j \in 1..(Len(s) - i), NEW k \in 1..(Len(s) - i), j < k
               PROVE  Precedes(R[j], R[k])
    BY <1>2 DEF InOrder
  <2>1. i + j \in 1..Len(s) /\ i + k \in 1..Len(s) /\ i + j < i + k
    BY <1>1
  <2> QED BY <1>2, <1>5, <2>1
<1>8. ASSUME NEW p \in Elements(F), NEW q \in Elements(R) PROVE Precedes(p, q)
  <2>1. PICK j \in 1..(i - 1) : p = s[j]
    BY <1>3
  <2>2. PICK k \in 1..(Len(s) - i) : q = s[i + k]
    BY <1>3
  <2>3. j \in 1..Len(s) /\ i + k \in 1..Len(s) /\ j < i + k
    BY <1>1
  <2> QED BY <1>5, <2>1, <2>2, <2>3
<1>9. ASSUME NEW p \in Elements(F) PROVE Precedes(s[i], p)
  <2>1. PICK j \in 1..(i - 1) : p = s[j]
    BY <1>3
  <2>2. j \in 1..Len(s) /\ j < i
    BY <1>1
  <2> QED BY <1>5, <2>1, <2>2 DEF Precedes
<1>10. ASSUME NEW q \in Elements(R) PROVE Precedes(s[i], q)
  <2>1. PICK k \in 1..(Len(s) - i) : q = s[i + k]
    BY <1>3
  <2>2. i + k \in 1..Len(s) /\ i < i + k
    BY <1>1
  <2> QED BY <1>5, <2>1, <2>2
<1>11. InOrder(F \o R)
  BY <1>2, <1>6, <1>7, <1>8, OrderConcat
<1>12. Elements(s) = {s[i]} \cup (Elements(F) \cup Elements(R))
  <2>1. ASSUME NEW j \in 1..Len(s) PROVE s[j] \in {s[i]} \cup (Elements(F) \cup Elements(R))
    <3>1. CASE j < i
      <4>1. j \in 1..(i - 1)
        BY <1>1, <3>1
      <4> QED BY <1>3, <4>1
    <3>2. CASE j > i
      <4>1. j - i \in 1..(Len(s) - i) /\ i + (j - i) = j
        BY <1>1, <3>2
      <4> QED BY <1>3, <4>1
    <3>3. CASE j = i
      BY <3>3
    <3> QED BY <1>1, <3>1, <3>2, <3>3
  <2>2. \A j \in 1..(i - 1) : j \in 1..Len(s)
    BY <1>1
  <2>3. \A j \in 1..(Len(s) - i) : i + j \in 1..Len(s)
    BY <1>1
  <2> QED BY <1>3, <2>1, <2>2, <2>3
<1> QED BY <1>1, <1>4, <1>9, <1>10, <1>11, <1>12 DEF F, R

(* Different packets are counted by the length of their sequence. *)
LEMMA CountElements ==
    ASSUME NEW s \in Seq(Nat), InOrder(s)
    PROVE  IsFiniteSet(Elements(s)) /\ Cardinality(Elements(s)) = Len(s)
<1>1. s \in [1..Len(s) -> Elements(s)] /\ Len(s) \in Nat
  BY LenProperties, ElementsOf
<1>2. \A i, j \in 1..Len(s) : s[i] = s[j] => i = j
  <2> SUFFICES ASSUME NEW i \in 1..Len(s), NEW j \in 1..Len(s), i # j PROVE s[i] # s[j]
    OBVIOUS
  <2>1. i < j \/ j < i
    BY <1>1
  <2> QED BY <2>1 DEF InOrder, Precedes
<1>3. \A x \in Elements(s) : \E i \in 1..Len(s) : s[i] = x
  BY ElementsOf
<1>4. s \in Bijection(1..Len(s), Elements(s))
  BY <1>1, <1>2, <1>3 DEF Bijection, Injection, Surjection, IsInjective
<1>5. ExistsBijection(1..Len(s), Elements(s))
  BY <1>4 DEF ExistsBijection
<1> QED BY <1>1, <1>5, FS_CountingElements, FS_NatBijection

-----------------------------------------------------------------------------
(* The packets of a flow: R was released, P is in the scheduler, O is on   *)
(* its way there, the packets D were freed, and r were read.               *)
Ahead(S, T) == \A p \in S, q \in T : Precedes(p, q)

Placed(R, P, O, D, r) ==
    /\ InOrder(R) /\ InOrder(P) /\ InOrder(O)
    /\ Ahead(Elements(R), Elements(P))
    /\ Ahead(Elements(R), Elements(O))
    /\ Ahead(Elements(P), Elements(O))
    /\ (Elements(R) \cup Elements(P) \cup Elements(O)) \cap D = {}
    /\ Elements(R) \cup Elements(P) \cup Elements(O) \cup D = 1..r

LEMMA OrderJoin ==
    ASSUME NEW a \in Seq(Nat), NEW b \in Seq(Nat)
    PROVE  /\ InOrder(a \o b) <=> InOrder(a) /\ InOrder(b) /\ Ahead(Elements(a), Elements(b))
           /\ Elements(a \o b) = Elements(a) \cup Elements(b)
           /\ a \o b \in Seq(Nat) /\ Len(a \o b) = Len(a) + Len(b)
<1>1. /\ Elements(a \o b) = Elements(a) \cup Elements(b)
      /\ a \o b \in Seq(Nat) /\ Len(a \o b) = Len(a) + Len(b)
  BY ElementsConcat, Join
<1>2. InOrder(a \o b) <=> InOrder(a) /\ InOrder(b) /\ Ahead(Elements(a), Elements(b))
  BY OrderConcat DEF Ahead
<1> QED BY <1>1, <1>2

LEMMA AheadLaws ==
    ASSUME NEW S, NEW T
    PROVE  /\ \A U, V : Ahead(S, T) /\ U \subseteq S /\ V \subseteq T => Ahead(U, V)
           /\ \A U : Ahead(S, T) /\ Ahead(U, T) => Ahead(S \cup U, T)
           /\ \A U : Ahead(S, T) /\ Ahead(S, U) => Ahead(S, T \cup U)
           /\ Ahead(S, T) => S \cap T = {}
BY DEF Ahead, Precedes

LEMMA ArrivalPlaced ==
    ASSUME NEW R \in Seq(Nat), NEW P \in Seq(Nat), NEW O \in Seq(Nat), NEW D,
           NEW r \in Nat, NEW n \in Nat, NEW v \in Seq(Nat), InOrder(v),
           Elements(v) = (r + 1)..(r + n), Placed(R, P, O, D, r)
    PROVE  Placed(R, P, O \o v, D, r + n)
<1> DEFINE new == (r + 1)..(r + n)
<1>1. InOrder(v) /\ Elements(v) = new
  OBVIOUS
<1>2. \A p \in 1..r, q \in new : Precedes(p, q)
  BY DEF Precedes
<1>3. Ahead(1..r, new)
  BY <1>2 DEF Ahead
<1>4. /\ Elements(R) \subseteq 1..r /\ Elements(P) \subseteq 1..r
      /\ Elements(O) \subseteq 1..r /\ D \subseteq 1..r
  BY DEF Placed
<1>5. /\ Ahead(Elements(R), new) /\ Ahead(Elements(P), new) /\ Ahead(Elements(O), new)
      /\ D \cap new = {}
  BY <1>3, <1>4, AheadLaws
<1>6. InOrder(O \o v) /\ Elements(O \o v) = Elements(O) \cup new
  <2>1. InOrder(O) /\ InOrder(v) /\ Ahead(Elements(O), Elements(v))
    BY <1>1, <1>5 DEF Placed
  <2>2. InOrder(O \o v) /\ Elements(O \o v) = Elements(O) \cup Elements(v)
    BY <2>1, OrderJoin
  <2> QED BY <1>1, <2>2
<1>7. Ahead(Elements(R), Elements(O \o v)) /\ Ahead(Elements(P), Elements(O \o v))
  <2>1. Ahead(Elements(R), Elements(O)) /\ Ahead(Elements(P), Elements(O))
    BY DEF Placed
  <2> QED BY <1>5, <1>6, <2>1 DEF Ahead
<1>8. (1..r) \cup new = 1..(r + n)
  OBVIOUS
<1>9. (Elements(R) \cup Elements(P) \cup Elements(O \o v)) \cap D = {}
  BY <1>5, <1>6 DEF Placed
<1> HIDE DEF new
<1>10. Elements(R) \cup Elements(P) \cup Elements(O \o v) \cup D = 1..(r + n)
  BY <1>6, <1>8 DEF Placed
<1> QED BY <1>6, <1>7, <1>9, <1>10 DEF Placed

LEMMA RefusalPlaced ==
    ASSUME NEW R \in Seq(Nat), NEW P \in Seq(Nat), NEW D, NEW r,
           NEW left \in Seq(Nat), NEW lost \in Seq(Nat),
           Placed(R, P, left \o lost, D, r)
    PROVE  Placed(R, P, left, D \cup Elements(lost), r)
<1>1. /\ InOrder(left) /\ Ahead(Elements(left), Elements(lost))
      /\ Elements(left \o lost) = Elements(left) \cup Elements(lost)
  BY OrderJoin DEF Placed
<1>2. Ahead(Elements(R), Elements(left)) /\ Ahead(Elements(R), Elements(lost))
      /\ Ahead(Elements(P), Elements(left)) /\ Ahead(Elements(P), Elements(lost))
  BY <1>1, AheadLaws DEF Placed
<1>3. /\ Elements(R) \cap Elements(lost) = {} /\ Elements(P) \cap Elements(lost) = {}
      /\ Elements(left) \cap Elements(lost) = {}
  BY <1>1, <1>2, AheadLaws
<1> QED BY <1>1, <1>2, <1>3 DEF Placed

LEMMA SchedulePlaced ==
    ASSUME NEW R \in Seq(Nat), NEW P \in Seq(Nat), NEW D, NEW r,
           NEW burst \in Seq(Nat), NEW rest \in Seq(Nat), NEW kept \in Seq(Nat),
           InOrder(burst) => InOrder(kept), Elements(kept) \subseteq Elements(burst),
           Placed(R, P, burst \o rest, D, r)
    PROVE  Placed(R, P \o kept, rest, D \cup (Elements(burst) \ Elements(kept)), r)
<1>1. /\ InOrder(kept) /\ InOrder(rest) /\ Ahead(Elements(burst), Elements(rest))
      /\ Elements(burst \o rest) = Elements(burst) \cup Elements(rest)
  BY OrderJoin DEF Placed
<1>2. /\ Ahead(Elements(R), Elements(burst)) /\ Ahead(Elements(R), Elements(rest))
      /\ Ahead(Elements(P), Elements(burst)) /\ Ahead(Elements(P), Elements(rest))
  BY <1>1, AheadLaws DEF Placed
<1>3. /\ Ahead(Elements(R), Elements(kept)) /\ Ahead(Elements(P), Elements(kept))
      /\ Ahead(Elements(kept), Elements(rest))
  BY <1>1, <1>2, AheadLaws
<1>4. InOrder(P \o kept) /\ Elements(P \o kept) = Elements(P) \cup Elements(kept)
  BY <1>1, <1>3, OrderJoin DEF Placed
<1>5. Ahead(Elements(R), Elements(P \o kept)) /\ Ahead(Elements(P \o kept), Elements(rest))
  BY <1>2, <1>3, <1>4, AheadLaws DEF Placed
<1>6. /\ Elements(R) \cap Elements(burst) = {} /\ Elements(P) \cap Elements(burst) = {}
      /\ Elements(burst) \cap Elements(rest) = {}
  BY <1>1, <1>2, AheadLaws
<1> QED BY <1>1, <1>2, <1>4, <1>5, <1>6 DEF Placed

LEMMA PickPlaced ==
    ASSUME NEW R \in Seq(Nat), NEW P \in Seq(Nat), NEW O \in Seq(Nat), NEW D, NEW r,
           NEW x \in Nat, NEW others \in Seq(Nat),
           InOrder(P) => InOrder(others) /\ Ahead({x}, Elements(others)),
           Elements(P) = {x} \cup Elements(others),
           Placed(R, P, O, D, r)
    PROVE  Placed(R \o <<x>>, others, O, D, r)
<1>1. InOrder(others) /\ Ahead({x}, Elements(others)) /\ <<x>> \in Seq(Nat)
      /\ Elements(<<x>>) = {x} /\ InOrder(<<x>>)
  <2>1. <<x>> \in Seq(Nat) /\ Len(<<x>>) = 1 /\ Elements(<<x>>) = {x}
    BY Single
  <2>2. InOrder(<<x>>)
    BY <2>1 DEF InOrder
  <2> QED BY <2>1, <2>2 DEF Placed
<1>2. /\ Ahead(Elements(R), {x}) /\ Ahead(Elements(R), Elements(others))
      /\ Ahead({x}, Elements(O)) /\ Ahead(Elements(others), Elements(O))
  BY AheadLaws DEF Placed
<1>3. InOrder(R) /\ Ahead(Elements(R), Elements(O))
  BY DEF Placed
<1>4. InOrder(R \o <<x>>) /\ Elements(R \o <<x>>) = Elements(R) \cup {x}
  <2>1. Ahead(Elements(R), Elements(<<x>>))
    BY <1>1, <1>2
  <2>2. InOrder(R \o <<x>>) /\ Elements(R \o <<x>>) = Elements(R) \cup Elements(<<x>>)
    BY <1>1, <1>3, <2>1, OrderJoin
  <2> QED BY <1>1, <2>2
<1>5. Ahead(Elements(R \o <<x>>), Elements(others)) /\ Ahead(Elements(R \o <<x>>), Elements(O))
  BY <1>1, <1>2, <1>3, <1>4 DEF Ahead
<1> QED BY <1>1, <1>2, <1>4, <1>5 DEF Placed

-----------------------------------------------------------------------------
(* The invariant of a flow, which its six steps preserve. *)
Balance(rx, wt, offered, accepted) ==
    /\ rx.nb_rx = rx.nb_drop + wt.nb_rx + offered
    /\ wt.nb_rx = wt.nb_drop + accepted

Counted(f) ==
    Balance(rxStat[f], wtStat[f], Len(Offered(f)), Len(Released(f)) + Len(port[f]))

FlowInv(f) ==
    Placed(Released(f), port[f], Offered(f), dropped[f], read[f]) /\ Counted(f)

PipeInv == WayInv /\ \A f \in Flows : FlowInv(f)

(* What is counted when n packets are read, when n of them are refused,    *)
(* and when the scheduler is given b and keeps n.                          *)
LEMMA Balances ==
    ASSUME NEW rx \in Stats, NEW wt \in Stats, NEW o \in Nat, NEW a \in Nat, NEW n \in Nat
    PROVE  /\ Balance(rx, wt, o, a) => Balance([rx EXCEPT !.nb_rx = @ + n], wt, o + n, a)
           /\ Balance(rx, wt, o + n, a) => Balance([rx EXCEPT !.nb_drop = @ + n], wt, o, a)
           /\ \A b \in Nat :
                 Balance(rx, wt, b + o, a) =>
                    Balance(rx, [nb_rx |-> wt.nb_rx + b, nb_drop |-> wt.nb_drop + (b - n)],
                            o, a + n)
BY DEF Balance, Stats

LEMMA FlowTyped ==
    ASSUME WayInv, NEW f \in Flows
    PROVE  /\ Released(f) \in Seq(Nat) /\ port[f] \in Seq(Nat) /\ Offered(f) \in Seq(Nat)
           /\ Len(Released(f)) \in Nat /\ Len(port[f]) \in Nat /\ Len(Offered(f)) \in Nat
           /\ read[f] \in Nat
           /\ rxStat[f] \in Stats /\ rxStat[f].nb_rx \in Nat /\ rxStat[f].nb_drop \in Nat
           /\ wtStat[f] \in Stats /\ wtStat[f].nb_rx \in Nat /\ wtStat[f].nb_drop \in Nat
<1>1. /\ TypeInv /\ read[f] \in Nat /\ rxStat[f] \in Stats /\ wtStat[f] \in Stats
  BY DEF WayInv, TypeInv
<1>2. Released(f) \in Seq(Nat) /\ port[f] \in Seq(Nat) /\ Offered(f) \in Seq(Nat)
  BY <1>1, Typed
<1>3. \A s \in Seq(Nat) : Len(s) \in Nat
  BY LenProperties
<1>4. \A s \in Stats : s.nb_rx \in Nat /\ s.nb_drop \in Nat
  BY DEF Stats
<1> QED BY <1>1, <1>2, <1>3, <1>4

FlowSeqs(f) == Released(f) \in Seq(Nat) /\ port[f] \in Seq(Nat)

LEMMA FlowTypedNext == ASSUME NEW f \in Flows PROVE WayInv' => FlowSeqs(f)'
<1>1. WayInv => FlowSeqs(f)
  BY FlowTyped DEF FlowSeqs
<1> QED BY <1>1, PTL

LEMMA FlowInvInit ==
    ASSUME PipelineAssumption, Init, NEW f \in Flows
    PROVE  FlowInv(f)
<1>1. <<>> \in Seq(Nat) /\ Len(<<>>) = 0 /\ Elements(<<>>) = {} /\ InOrder(<<>>)
      /\ <<>> \o <<>> = <<>>
  BY EmptySeq, Join DEF Elements, InOrder
<1>2. /\ sent[f] = <<>> /\ table[f] = <<>> /\ TxHand(f) = <<>> /\ txRing[f] = <<>>
      /\ After(f) = <<>> /\ Before(f) = <<>> /\ rxRing[f] = <<>> /\ RxHand(f) = <<>>
      /\ port[f] = <<>> /\ dropped[f] = {} /\ read[f] = 0
      /\ rxStat[f] = [nb_rx |-> 0, nb_drop |-> 0] /\ wtStat[f] = [nb_rx |-> 0, nb_drop |-> 0]
  BY DEF Init, Empty, NoStat, TxHand, After, Before, RxHand, WtHand
<1>3. Released(f) = <<>> /\ Offered(f) = <<>>
  BY <1>1, <1>2 DEF Released, Offered
<1>4. Counted(f)
  BY <1>1, <1>2, <1>3 DEF Counted, Balance
<1>5. 1..0 = {}
  OBVIOUS
<1>6. Placed(<<>>, <<>>, <<>>, {}, 0)
  BY <1>1, <1>5 DEF Placed, Ahead
<1> QED BY <1>2, <1>3, <1>4, <1>6 DEF FlowInv

LEMMA FlowInvStep ==
    ASSUME PipelineAssumption, WayInv, NEW f \in Flows, FlowInv(f), FlowStep(f)
    PROVE  FlowInv(f)'
<1> DEFINE R == Released(f)
           P == port[f]
           O == Offered(f)
           rx == rxStat[f]
           wt == wtStat[f]
<1>1. /\ R \in Seq(Nat) /\ P \in Seq(Nat) /\ O \in Seq(Nat)
      /\ Len(R) \in Nat /\ Len(P) \in Nat /\ Len(O) \in Nat /\ read[f] \in Nat
      /\ rx \in Stats /\ rx.nb_rx \in Nat /\ rx.nb_drop \in Nat
      /\ wt \in Stats /\ wt.nb_rx \in Nat /\ wt.nb_drop \in Nat
  BY FlowTyped
<1>2. Placed(R, P, O, dropped[f], read[f]) /\ Counted(f)
  BY DEF FlowInv
<1>0. Balance(rx, wt, Len(O), Len(R) + Len(P)) /\ Len(R) + Len(P) \in Nat
  BY <1>1, <1>2 DEF Counted
<1>3. CASE Arrives(f)
  <2>1. RxBurst \in Nat
    BY Constants
  <2>2. /\ New(f) \in Seq(Nat) /\ Len(New(f)) = RxBurst /\ InOrder(New(f))
        /\ Elements(New(f)) = (read[f] + 1)..(read[f] + RxBurst)
    BY <1>1, <2>1, OrderNew DEF New
  <2>3. Len(O \o New(f)) = Len(O) + RxBurst
    BY <1>1, <2>2, Join
  <2>4. Placed(R, P, O \o New(f), dropped[f], read[f] + RxBurst)
    BY <1>1, <1>2, <2>1, <2>2, ArrivalPlaced
  <2>5. /\ Len(Offered(f)') = Len(O) + RxBurst
        /\ rxStat'[f] = [rx EXCEPT !.nb_rx = @ + RxBurst] /\ wtStat'[f] = wt
        /\ Len(Released(f)') + Len(port'[f]) = Len(R) + Len(P)
    BY <1>3, <2>3 DEF Arrives
  <2>6. Balance([rx EXCEPT !.nb_rx = @ + RxBurst], wt, Len(O) + RxBurst, Len(R) + Len(P))
    BY <1>1, <1>0, <2>1, Balances
  <2>7. Counted(f)'
    BY <2>5, <2>6, Zenon DEF Counted
  <2> QED BY <1>3, <2>4, <2>7 DEF Arrives, FlowInv
<1>4. CASE Refused(f)
  <2>1. PICK left \in Seq(Nat), lost \in Seq(Nat) :
           /\ O = left \o lost /\ Offered(f)' = left
           /\ dropped'[f] = dropped[f] \cup Elements(lost)
           /\ rxStat'[f] = [rx EXCEPT !.nb_drop = @ + Len(lost)]
           /\ UNCHANGED <<read[f], wtStat[f], sent[f], port[f], Released(f)>>
    BY <1>4 DEF Refused
  <2>2. Len(O) = Len(left) + Len(lost) /\ Len(left) \in Nat /\ Len(lost) \in Nat
    BY <2>1, Join
  <2>3. Placed(R, P, left, dropped[f] \cup Elements(lost), read[f])
    BY <1>1, <1>2, <2>1, RefusalPlaced
  <2>4. Balance([rx EXCEPT !.nb_drop = @ + Len(lost)], wt, Len(left), Len(R) + Len(P))
    BY <1>1, <1>0, <2>2, Balances
  <2>5. /\ Len(Offered(f)') = Len(left) /\ Len(Released(f)') + Len(port'[f]) = Len(R) + Len(P)
        /\ rxStat'[f] = [rx EXCEPT !.nb_drop = @ + Len(lost)] /\ wtStat'[f] = wt
    BY <2>1
  <2>6. Counted(f)'
    BY <2>4, <2>5, Zenon DEF Counted
  <2> QED BY <2>1, <2>3, <2>6 DEF FlowInv
<1>5. CASE Scheduled(f)
  <2>1. PICK burst \in Seq(Nat), rest \in Seq(Nat) : \E n \in 0..Len(burst) :
        \E c \in Choices(n, Len(burst)) :
           LET kept == Chosen(burst, n, c) IN
           /\ O = burst \o rest /\ Offered(f)' = rest
           /\ port'[f] = P \o kept
           /\ dropped'[f] = dropped[f] \cup (Elements(burst) \ Elements(kept))
           /\ wtStat'[f] = [nb_rx |-> wt.nb_rx + Len(burst),
                            nb_drop |-> wt.nb_drop + (Len(burst) - n)]
           /\ UNCHANGED <<read[f], rxStat[f], sent[f], Released(f)>>
    BY <1>5 DEF Scheduled
  <2>2. PICK n \in 0..Len(burst) : \E c \in Choices(n, Len(burst)) :
           LET kept == Chosen(burst, n, c) IN
           /\ O = burst \o rest /\ Offered(f)' = rest
           /\ port'[f] = P \o kept
           /\ dropped'[f] = dropped[f] \cup (Elements(burst) \ Elements(kept))
           /\ wtStat'[f] = [nb_rx |-> wt.nb_rx + Len(burst),
                            nb_drop |-> wt.nb_drop + (Len(burst) - n)]
           /\ UNCHANGED <<read[f], rxStat[f], sent[f], Released(f)>>
    BY <2>1
  <2>3. PICK c \in Choices(n, Len(burst)) :
           LET kept == Chosen(burst, n, c) IN
           /\ O = burst \o rest /\ Offered(f)' = rest
           /\ port'[f] = P \o kept
           /\ dropped'[f] = dropped[f] \cup (Elements(burst) \ Elements(kept))
           /\ wtStat'[f] = [nb_rx |-> wt.nb_rx + Len(burst),
                            nb_drop |-> wt.nb_drop + (Len(burst) - n)]
           /\ UNCHANGED <<read[f], rxStat[f], sent[f], Released(f)>>
    BY <2>2
  <2> DEFINE kept == Chosen(burst, n, c)
  <2>4. /\ kept \in Seq(Nat) /\ Len(kept) = n /\ Elements(kept) \subseteq Elements(burst)
        /\ InOrder(burst) => InOrder(kept)
    BY Keeps, OrderChosen
  <2> HIDE DEF kept
  <2>5. Len(O) = Len(burst) + Len(rest) /\ Len(burst) \in Nat /\ Len(rest) \in Nat
        /\ n \in Nat
    BY <2>3, Join
  <2>6. Len(P \o kept) = Len(P) + n
    BY <1>1, <2>4, Join
  <2>7. Placed(R, P \o kept, rest, dropped[f] \cup (Elements(burst) \ Elements(kept)), read[f])
    BY <1>1, <1>2, <2>3, <2>4, SchedulePlaced
  <2>8. /\ Offered(f)' = rest /\ port'[f] = P \o kept
        /\ dropped'[f] = dropped[f] \cup (Elements(burst) \ Elements(kept))
        /\ wtStat'[f] = [nb_rx |-> wt.nb_rx + Len(burst),
                         nb_drop |-> wt.nb_drop + (Len(burst) - n)]
        /\ UNCHANGED <<read[f], rxStat[f], Released(f)>>
    BY <2>3 DEF kept
  <2>9. Balance(rx, [nb_rx |-> wt.nb_rx + Len(burst),
                     nb_drop |-> wt.nb_drop + (Len(burst) - n)],
                Len(rest), (Len(R) + Len(P)) + n)
    BY <1>1, <1>0, <2>5, Balances
  <2>10. /\ Len(Offered(f)') = Len(rest) /\ rxStat'[f] = rx
         /\ Len(Released(f)') + Len(port'[f]) = (Len(R) + Len(P)) + n
    <3>1. Len(Released(f)') = Len(R) /\ Len(port'[f]) = Len(P) + n
      BY <2>6, <2>8
    <3> QED BY <1>1, <2>5, <2>8, <3>1
  <2>11. Counted(f)'
    BY <2>8, <2>9, <2>10, Zenon DEF Counted
  <2> QED BY <2>7, <2>8, <2>11 DEF FlowInv
<1>6. CASE Picked(f)
  <2>1. PICK i \in 1..Len(P) :
           /\ \A j \in 1..(i - 1) : Class(P[j]) # Class(P[i])
           /\ Released(f)' = R \o <<P[i]>>
           /\ port'[f] = Front(P, i - 1) \o Rest(P, i)
           /\ UNCHANGED <<read[f], dropped[f], rxStat[f], wtStat[f], sent[f], Offered(f)>>
    BY <1>6 DEF Picked
  <2> DEFINE others == Front(P, i - 1) \o Rest(P, i)
             x == P[i]
  <2>2. InOrder(P)
    BY <1>2 DEF Placed
  <2>3. /\ x \in Nat /\ others \in Seq(Nat) /\ Len(others) = Len(P) - 1
        /\ InOrder(others) /\ Elements(P) = {x} \cup Elements(others)
        /\ \A q \in Elements(others) : Precedes(x, q)
    BY <1>1, <2>1, <2>2, OrderPicked
  <2> HIDE DEF others, x
  <2>4. Ahead({x}, Elements(others))
    BY <2>3 DEF Ahead
  <2>5. Placed(R \o <<x>>, others, O, dropped[f], read[f])
    BY <1>1, <1>2, <2>3, <2>4, PickPlaced
  <2>6. Len(R \o <<x>>) = Len(R) + 1
    BY <1>1, <2>3, Single, Join
  <2>7. Released(f)' = R \o <<x>> /\ port'[f] = others
        /\ UNCHANGED <<read[f], dropped[f], rxStat[f], wtStat[f], Offered(f)>>
    BY <2>1 DEF others, x
  <2>8. /\ Len(Offered(f)') = Len(O) /\ rxStat'[f] = rx /\ wtStat'[f] = wt
        /\ Len(Released(f)') + Len(port'[f]) = Len(R) + Len(P)
    <3>1. Len(Released(f)') = Len(R) + 1 /\ Len(port'[f]) = Len(P) - 1
      BY <2>3, <2>6, <2>7
    <3>2. (Len(R) + 1) + (Len(P) - 1) = Len(R) + Len(P)
      <4>1. \A k, l \in Nat : (k + 1) + (l - 1) = k + l
        OBVIOUS
      <4>2. Len(R) \in Nat /\ Len(P) \in Nat
        BY <1>1
      <4> QED BY <4>1, <4>2, Zenon
    <3>3. Len(Offered(f)') = Len(O) /\ rxStat'[f] = rx /\ wtStat'[f] = wt
      BY <2>7
    <3> QED BY <3>1, <3>2, <3>3
  <2>9. Counted(f)'
    BY <1>0, <2>8, Zenon DEF Counted
  <2> QED BY <2>5, <2>7, <2>9 DEF FlowInv
<1>7. CASE Leaves(f) \/ Stays(f)
  BY <1>2, <1>7 DEF Leaves, Stays, FlowInv, Counted
<1> QED BY <1>3, <1>4, <1>5, <1>6, <1>7 DEF FlowStep

LEMMA PipeInvInit == ASSUME PipelineAssumption, Init PROVE PipeInv
BY WayInit, FlowInvInit DEF PipeInv

LEMMA PipeInvNext == ASSUME PipelineAssumption, PipeInv, [Next]_vars PROVE PipeInv'
<1>1. WayInv'
  BY WayNext DEF PipeInv
<1>2. ASSUME NEW f \in Flows PROVE FlowInv(f)'
  BY FlowSteps, FlowInvStep DEF PipeInv
<1> QED BY <1>1, <1>2 DEF PipeInv

-----------------------------------------------------------------------------
LEMMA InvariantIsProperty == ASSUME PipelineAssumption, PipeInv PROVE EachOnceInOrder
<1> SUFFICES ASSUME NEW f \in Flows
             PROVE  LET all == Accepted(f) \o Offered(f) IN
                    /\ Elements(all) \cup dropped[f] = 1..read[f]
                    /\ Len(all) + Cardinality(dropped[f]) = read[f]
                    /\ \A i, j \in DOMAIN all :
                          i < j /\ Class(all[i]) = Class(all[j]) => all[i] < all[j]
                    /\ rxStat[f].nb_rx = rxStat[f].nb_drop + wtStat[f].nb_rx + Len(Offered(f))
                    /\ wtStat[f].nb_rx = wtStat[f].nb_drop + Len(Accepted(f))
  BY DEF EachOnceInOrder, OnePlaceEach, ClassOrder, CountersAddUp
<1> DEFINE all == Accepted(f) \o Offered(f)
<1>1. /\ Released(f) \in Seq(Nat) /\ port[f] \in Seq(Nat) /\ Offered(f) \in Seq(Nat)
      /\ Len(Released(f)) \in Nat /\ Len(port[f]) \in Nat /\ Len(Offered(f)) \in Nat
      /\ read[f] \in Nat /\ wtStat[f].nb_drop \in Nat
  BY FlowTyped DEF PipeInv
<1>2. Placed(Released(f), port[f], Offered(f), dropped[f], read[f]) /\ Counted(f)
  BY DEF PipeInv, FlowInv
<1>3. /\ Accepted(f) \in Seq(Nat) /\ Len(Accepted(f)) = Len(Released(f)) + Len(port[f])
      /\ Elements(Accepted(f)) = Elements(Released(f)) \cup Elements(port[f])
      /\ InOrder(Accepted(f))
  BY <1>1, <1>2, OrderJoin DEF Accepted, Placed
<1>4. Ahead(Elements(Accepted(f)), Elements(Offered(f)))
  BY <1>2, <1>3, AheadLaws DEF Placed
<1>5. /\ all \in Seq(Nat) /\ InOrder(all)
      /\ Elements(all) = Elements(Accepted(f)) \cup Elements(Offered(f))
  BY <1>1, <1>2, <1>3, <1>4, OrderJoin DEF Placed
<1> HIDE DEF all
<1>6. Elements(all) \cup dropped[f] = 1..read[f] /\ Elements(all) \cap dropped[f] = {}
  BY <1>2, <1>3, <1>5 DEF Placed
<1>7. Len(all) + Cardinality(dropped[f]) = read[f]
  <2>1. IsFiniteSet(1..read[f]) /\ Cardinality(1..read[f]) = read[f]
    <3>1. 1 \in Int /\ read[f] \in Int /\ (IF 1 > read[f] THEN 0 ELSE read[f] - 1 + 1) = read[f]
      BY <1>1
    <3>2. /\ IsFiniteSet(1..read[f])
          /\ Cardinality(1..read[f]) = IF 1 > read[f] THEN 0 ELSE read[f] - 1 + 1
      BY <3>1, FS_Interval
    <3> QED BY <3>1, <3>2
  <2>2. IsFiniteSet(dropped[f])
    <3>1. dropped[f] \subseteq 1..read[f]
      BY <1>6
    <3> QED BY <2>1, <3>1, FS_Subset
  <2>3. IsFiniteSet(Elements(all)) /\ Cardinality(Elements(all)) = Len(all) /\ Len(all) \in Nat
    BY <1>5, CountElements, LenProperties
  <2>4. Cardinality(Elements(all) \cap dropped[f]) = 0
    BY <1>6, FS_EmptySet
  <2>5. Cardinality(dropped[f]) \in Nat
    BY <2>2, FS_CardinalityType
  <2>6. Cardinality(Elements(all) \cup dropped[f])
           = Cardinality(Elements(all)) + Cardinality(dropped[f])
                - Cardinality(Elements(all) \cap dropped[f])
    BY <2>2, <2>3, FS_Union
  <2>7. Cardinality(Elements(all) \cup dropped[f]) = read[f]
    BY <1>6, <2>1
  <2> QED BY <1>1, <2>3, <2>4, <2>5, <2>6, <2>7
<1>8. ASSUME NEW i \in DOMAIN all, NEW j \in DOMAIN all, i < j, Class(all[i]) = Class(all[j])
      PROVE  all[i] < all[j]
  <2>1. i \in 1..Len(all) /\ j \in 1..Len(all)
    BY <1>5, LenProperties
  <2> QED BY <1>5, <1>8, <2>1 DEF InOrder, Precedes
<1>9. wtStat[f].nb_rx = wtStat[f].nb_drop + Len(Accepted(f))
  BY <1>1, <1>2, <1>3 DEF Counted, Balance
<1> QED BY <1>2, <1>6, <1>7, <1>8, <1>9 DEF all, Counted, Balance

(* Every packet that was read is in one place, freed or sent, the packets  *)
(* of a class stay in order, and the counters of the two threads add up,   *)
(* for any number of flows, classes and packets and any sizes              *)
(* (app_thread.c:182-412).                                                 *)
THEOREM EachOnceInOrderTheorem ==
    ASSUME PipelineAssumption PROVE Spec => []EachOnceInOrder
<1>1. Init => PipeInv
  BY PipeInvInit
<1>2. PipeInv /\ [Next]_vars => PipeInv'
  BY PipeInvNext
<1>3. PipeInv => EachOnceInOrder
  BY InvariantIsProperty
<1> QED BY <1>1, <1>2, <1>3, PTL DEF Spec

-----------------------------------------------------------------------------
(* A flow implements LossyFifo.                                            *)
LEMMA FifoInit == ASSUME PipelineAssumption, Init, NEW f \in Flows PROVE Fifo(f)!Init
<1>1. <<>> \in Seq(Nat) /\ Elements(<<>>) = {} /\ <<>> \o <<>> = <<>>
  BY EmptySeq, Join DEF Elements
<1>2. /\ sent[f] = <<>> /\ table[f] = <<>> /\ TxHand(f) = <<>> /\ txRing[f] = <<>>
      /\ After(f) = <<>> /\ Before(f) = <<>> /\ rxRing[f] = <<>> /\ RxHand(f) = <<>>
      /\ port[f] = <<>> /\ read[f] = 0
  BY DEF Init, Empty, TxHand, After, Before, RxHand, WtHand
<1>3. Accepted(f) = <<>> /\ Offered(f) = <<>>
  BY <1>1, <1>2 DEF Accepted, Released, Offered
<1> QED BY <1>1, <1>2, <1>3 DEF Fifo!Init

LEMMA SentReleased ==
    ASSUME TypeInv, NEW f \in Flows
    PROVE  sent[f] \in Seq(Nat) /\ Elements(sent[f]) \subseteq Elements(Released(f))
<1>1. /\ sent[f] \in Seq(Nat) /\ table[f] \in Seq(Nat) /\ txRing[f] \in Seq(Nat)
      /\ TxHand(f) \in Seq(Nat) /\ After(f) \in Seq(Nat)
  BY Typed
<1> DEFINE a == sent[f] \o table[f]
           b == a \o TxHand(f)
           c == b \o txRing[f]
<1>2. a \in Seq(Nat) /\ Elements(sent[f]) \subseteq Elements(a)
  BY <1>1, OrderJoin
<1> HIDE DEF a
<1>3. b \in Seq(Nat) /\ Elements(a) \subseteq Elements(b)
  BY <1>1, <1>2, OrderJoin
<1> HIDE DEF b
<1>4. c \in Seq(Nat) /\ Elements(b) \subseteq Elements(c)
  BY <1>1, <1>3, OrderJoin
<1> HIDE DEF c
<1>5. Elements(c) \subseteq Elements(c \o After(f))
  BY <1>1, <1>4, OrderJoin
<1>6. Released(f) = c \o After(f)
  BY DEF Released, a, b, c
<1> QED BY <1>1, <1>2, <1>3, <1>4, <1>5, <1>6

(* What the scheduler accepted and the NIC did not take yet. *)
Owed(f) == Elements(Accepted(f)) \ Elements(sent[f])

LEMMA FifoStep ==
    ASSUME PipelineAssumption, PipeInv, PipeInv', NEW f \in Flows, FlowStep(f)
    PROVE  [Fifo(f)!Next]_(Fifo(f)!fifo)
<1> DEFINE R == Released(f)
           P == port[f]
           O == Offered(f)
<1>1. /\ R \in Seq(Nat) /\ P \in Seq(Nat) /\ O \in Seq(Nat) /\ sent[f] \in Seq(Nat)
      /\ read[f] \in Nat /\ Elements(sent[f]) \subseteq Elements(R)
      /\ Released(f)' \in Seq(Nat) /\ port'[f] \in Seq(Nat)
  <2>1. WayInv /\ WayInv' /\ TypeInv
    BY DEF PipeInv, WayInv
  <2>2. Released(f)' \in Seq(Nat) /\ port'[f] \in Seq(Nat)
    BY <2>1, FlowTypedNext DEF FlowSeqs
  <2> QED BY <2>1, <2>2, FlowTyped, SentReleased
<1>2. Placed(R, P, O, dropped[f], read[f])
  BY DEF PipeInv, FlowInv
<1>3. /\ Owed(f) = (Elements(R) \cup Elements(P)) \ Elements(sent[f])
      /\ Owed(f)' = (Elements(Released(f)') \cup Elements(port'[f])) \ Elements(sent'[f])
  <2>1. Elements(R \o P) = Elements(R) \cup Elements(P)
    BY <1>1, ElementsConcat
  <2>2. Elements(Released(f)' \o port'[f]) = Elements(Released(f)') \cup Elements(port'[f])
    BY <1>1, ElementsConcat
  <2> QED BY <2>1, <2>2 DEF Owed, Accepted
<1>4. CASE Arrives(f)
  <2>1. RxBurst \in 1..MaxPackets
    BY <1>1, <1>4, Constants, SMTT(30) DEF Arrives
  <2>2. New(f) \in Seq(Nat) /\ Elements(New(f)) = (read[f] + 1)..(read[f] + RxBurst)
    <3>1. RxBurst \in Nat
      BY Constants
    <3> QED BY <1>1, <3>1, OrderNew DEF New
  <2>3. Elements(Offered(f)') = Elements(O) \cup (read[f] + 1)..(read[f] + RxBurst)
    <3>1. Elements(O \o New(f)) = Elements(O) \cup Elements(New(f))
      BY <1>1, <2>2, ElementsConcat
    <3>2. Offered(f)' = O \o New(f)
      BY <1>4 DEF Arrives
    <3> QED BY <2>2, <3>1, <3>2
  <2>4. Owed(f)' = Owed(f) /\ sent'[f] = sent[f] /\ read'[f] = read[f] + RxBurst
    BY <1>3, <1>4 DEF Arrives
  <2>5. Fifo(f)!Arrive(RxBurst)
    BY <2>3, <2>4 DEF Fifo!Arrive, Owed
  <2> QED BY <2>1, <2>5 DEF Fifo!Next
<1>5. CASE Refused(f)
  <2>1. PICK left \in Seq(Nat), lost \in Seq(Nat) :
           /\ O = left \o lost /\ Offered(f)' = left
           /\ UNCHANGED <<read[f], sent[f], port[f], Released(f)>>
    BY <1>5 DEF Refused
  <2>2. /\ Ahead(Elements(left), Elements(lost))
        /\ Elements(O) = Elements(left) \cup Elements(lost)
    BY <1>1, <1>2, <2>1, OrderJoin DEF Placed
  <2>3. Elements(left) \cap Elements(lost) = {}
    BY <2>2, AheadLaws
  <2>4. /\ Elements(lost) \subseteq Elements(O)
        /\ Elements(Offered(f)') = Elements(O) \ Elements(lost)
    BY <2>1, <2>2, <2>3
  <2>5. Owed(f)' = Owed(f) \cup {} /\ UNCHANGED <<read[f], sent[f]>>
    BY <1>3, <2>1
  <2>6. Fifo(f)!Decide(Elements(lost), {})
    BY <2>4, <2>5 DEF Fifo!Decide, Owed
  <2> QED BY <2>4, <2>6 DEF Fifo!Next
<1>6. CASE Scheduled(f)
  <2>1. PICK burst \in Seq(Nat), rest \in Seq(Nat) : \E n \in 0..Len(burst) :
        \E c \in Choices(n, Len(burst)) :
           LET kept == Chosen(burst, n, c) IN
           /\ O = burst \o rest /\ Offered(f)' = rest
           /\ port'[f] = P \o kept
           /\ UNCHANGED <<read[f], sent[f], Released(f)>>
    BY <1>6 DEF Scheduled
  <2>2. PICK n \in 0..Len(burst) : \E c \in Choices(n, Len(burst)) :
           LET kept == Chosen(burst, n, c) IN
           /\ O = burst \o rest /\ Offered(f)' = rest
           /\ port'[f] = P \o kept
           /\ UNCHANGED <<read[f], sent[f], Released(f)>>
    BY <2>1
  <2>3. PICK c \in Choices(n, Len(burst)) :
           LET kept == Chosen(burst, n, c) IN
           /\ O = burst \o rest /\ Offered(f)' = rest
           /\ port'[f] = P \o kept
           /\ UNCHANGED <<read[f], sent[f], Released(f)>>
    BY <2>2
  <2> DEFINE kept == Chosen(burst, n, c)
  <2>4. kept \in Seq(Nat) /\ Elements(kept) \subseteq Elements(burst)
    BY Keeps
  <2>5. /\ O = burst \o rest /\ Offered(f)' = rest /\ port'[f] = P \o kept
        /\ UNCHANGED <<read[f], sent[f], Released(f)>>
    BY <2>3
  <2> HIDE DEF kept
  <2>6. /\ Ahead(Elements(burst), Elements(rest))
        /\ Elements(O) = Elements(burst) \cup Elements(rest)
    BY <1>1, <1>2, <2>5, OrderJoin DEF Placed
  <2>7. /\ Elements(burst) \cap Elements(rest) = {}
        /\ Ahead(Elements(kept), Elements(rest))
    BY <2>4, <2>6, AheadLaws
  <2>8. Ahead(Elements(R), Elements(kept))
    BY <1>2, <2>4, <2>6, AheadLaws DEF Placed
  <2>9. Elements(R) \cap Elements(kept) = {}
    BY <2>8, AheadLaws
  <2>10. Elements(port'[f]) = Elements(P) \cup Elements(kept)
    BY <1>1, <2>4, <2>5, ElementsConcat
  <2>11. Owed(f)' = Owed(f) \cup Elements(kept)
    BY <1>1, <1>3, <2>5, <2>9, <2>10
  <2>12. /\ Elements(burst) \subseteq Elements(O)
         /\ Elements(O) \ Elements(burst) = Elements(rest)
         /\ Elements(Offered(f)') = Elements(O) \ Elements(burst)
    BY <2>5, <2>6, <2>7
  <2>13. \A p \in Elements(kept), q \in Elements(O) \ Elements(burst) :
            Class(p) = Class(q) => p < q
    BY <2>7, <2>12 DEF Ahead, Precedes
  <2>14. Fifo(f)!Decide(Elements(burst), Elements(kept))
    BY <2>4, <2>5, <2>11, <2>12, <2>13 DEF Fifo!Decide, Owed
  <2> QED BY <2>4, <2>12, <2>14 DEF Fifo!Next
<1>7. CASE Picked(f)
  <2>1. PICK i \in 1..Len(P) :
           /\ \A j \in 1..(i - 1) : Class(P[j]) # Class(P[i])
           /\ Released(f)' = R \o <<P[i]>>
           /\ port'[f] = Front(P, i - 1) \o Rest(P, i)
           /\ UNCHANGED <<read[f], sent[f], Offered(f)>>
    BY <1>7 DEF Picked
  <2>2. P[i] \in Nat /\ Elements(P) = {P[i]} \cup Elements(port'[f])
    <3>1. InOrder(P)
      BY <1>2 DEF Placed
    <3>2. /\ P[i] \in Nat
          /\ Elements(P) = {P[i]} \cup Elements(Front(P, i - 1) \o Rest(P, i))
      BY <1>1, <2>1, <3>1, OrderPicked
    <3> QED BY <2>1, <3>2
  <2>3. Elements(Released(f)') = Elements(R) \cup {P[i]}
    <3>1. <<P[i]>> \in Seq(Nat) /\ Elements(<<P[i]>>) = {P[i]}
      BY <2>2, Single
    <3>2. Elements(R \o <<P[i]>>) = Elements(R) \cup Elements(<<P[i]>>)
      BY <1>1, <3>1, ElementsConcat
    <3> QED BY <2>1, <3>1, <3>2
  <2>4. Owed(f)' = Owed(f)
    BY <1>3, <2>1, <2>2, <2>3
  <2> QED BY <2>1, <2>4 DEF Fifo!fifo, Owed
<1>8. CASE Leaves(f)
  <2>1. PICK x \in Nat, later \in Seq(Nat) :
           /\ R = (sent[f] \o <<x>>) \o later
           /\ sent'[f] = Append(sent[f], x)
           /\ UNCHANGED <<read[f], port[f], Released(f), Offered(f)>>
    BY <1>8 DEF Leaves
  <2>2. /\ <<x>> \in Seq(Nat) /\ Elements(<<x>>) = {x}
        /\ Append(sent[f], x) = sent[f] \o <<x>>
    BY <1>1, Single, AppendIsConcat
  <2>3. sent[f] \o <<x>> \in Seq(Nat) /\ Elements(sent[f] \o <<x>>) = Elements(sent[f]) \cup {x}
    <3>1. /\ sent[f] \o <<x>> \in Seq(Nat)
          /\ Elements(sent[f] \o <<x>>) = Elements(sent[f]) \cup Elements(<<x>>)
      BY <1>1, <2>2, OrderJoin
    <3> QED BY <2>2, <3>1
  <2>4. /\ Elements(R) = Elements(sent[f]) \cup {x} \cup Elements(later)
        /\ InOrder(sent[f] \o <<x>>) /\ Ahead(Elements(sent[f] \o <<x>>), Elements(later))
    <3> DEFINE S == sent[f] \o <<x>>
    <3>1. InOrder(R) /\ R = S \o later
      BY <1>2, <2>1 DEF Placed
    <3>2. S \in Seq(Nat) /\ Elements(S) = Elements(sent[f]) \cup {x}
      BY <2>3
    <3> HIDE DEF S
    <3>3. /\ InOrder(S) /\ Ahead(Elements(S), Elements(later))
          /\ Elements(R) = Elements(S) \cup Elements(later)
      BY <3>1, <3>2, OrderJoin, ZenonT(40)
    <3> QED BY <3>2, <3>3 DEF S
  <2>5. Ahead(Elements(sent[f]), {x}) /\ Ahead({x}, Elements(later))
    <3>1. Ahead(Elements(sent[f]), Elements(<<x>>))
      BY <1>1, <2>2, <2>4, OrderJoin
    <3> QED BY <2>2, <2>3, <2>4, <3>1, AheadLaws
  <2>6. x \notin Elements(sent[f])
    BY <2>5 DEF Ahead, Precedes
  <2>7. Ahead({x}, Elements(P))
    BY <1>2, <2>4, AheadLaws DEF Placed
  <2>8. x \in Owed(f) /\ Owed(f) \subseteq {x} \cup Elements(later) \cup Elements(P)
    BY <1>3, <2>4, <2>6
  <2>9. ASSUME NEW q \in Owed(f), Class(x) = Class(q) PROVE x <= q
    <3>1. CASE q = x
      BY <3>1
    <3>2. CASE q # x
      <4>1. Precedes(x, q)
        BY <2>5, <2>7, <2>8, <3>2 DEF Ahead
      <4>2. q \in Nat
        <5>1. Elements(R) \subseteq Nat /\ Elements(P) \subseteq Nat
          BY <1>1, ElementsOf
        <5> QED BY <1>3, <5>1
      <4> QED BY <2>9, <4>1, <4>2 DEF Precedes
    <3> QED BY <3>1, <3>2
  <2>10. Owed(f)' = Owed(f) \ {x}
    BY <1>3, <2>1, <2>2, <2>3
  <2>11. Fifo(f)!Send(x)
    BY <2>1, <2>8, <2>9, <2>10 DEF Fifo!Send, Owed
  <2> QED BY <2>8, <2>11 DEF Fifo!Next, Owed
<1>9. CASE Stays(f)
  BY <1>9 DEF Stays, Fifo!fifo, Accepted
<1> QED BY <1>4, <1>5, <1>6, <1>7, <1>8, <1>9 DEF FlowStep

(* Each flow of the pipeline implements a queue that may refuse a packet   *)
(* before the scheduler accepts it and sends every accepted one once, in   *)
(* the order of its class, whatever the threads and the other flows do     *)
(* (app_thread.c:182-412).                                                 *)
THEOREM FlowsAreFifosTheorem ==
    ASSUME PipelineAssumption PROVE Spec => FlowsAreFifos
<1>1. Init => PipeInv /\ \A f \in Flows : Fifo(f)!Init
  BY PipeInvInit, FifoInit
<1>2. PipeInv /\ [Next]_vars => PipeInv'
  BY PipeInvNext
<1>3. PipeInv /\ PipeInv' /\ [Next]_vars => \A f \in Flows : [Fifo(f)!Next]_(Fifo(f)!fifo)
  BY FlowSteps, FifoStep DEF PipeInv
<1>4. PipeInv /\ PipeInv' /\ [Next]_vars =>
         [\A f \in Flows : [Fifo(f)!Next]_(Fifo(f)!fifo)]_vars
  BY <1>3
<1> QED BY <1>1, <1>2, <1>4, PTL DEF Spec, FlowsAreFifos
=============================================================================
