--------------------------- MODULE FlowValveProofs ---------------------------
(* Theorems about the data plane, for any threads, classes, rules, word    *)
(* size and bounds; then about what one refresh computes; and, last, that  *)
(* the buckets implement those of TokenBuckets.                            *)
EXTENDS FlowValveSafety, FVRefresh, DivLemmas

-----------------------------------------------------------------------------
(* What the operators of FVArith return, for every word size.              *)
LEMMA WordFacts ==
    /\ Word \in Nat /\ LockBit \in Nat /\ UpperMod \in Nat
    /\ Word >= 2 /\ LockBit >= 1 /\ UpperMod >= 1 /\ UpperMod <= LockBit
    /\ LockBit < Word /\ Word = LockBit + LockBit
    /\ Interval \in Words /\ Expire \in Words
    /\ 0 \in Words /\ 1 \in Words
BY WordAssumption DEF Words

LEMMA ModWord == ASSUME NEW x \in Int PROVE x % Word \in Words
BY WordFacts DEF Words

LEMMA DivWord == ASSUME NEW x \in Words, NEW d \in Nat, d > 0
                 PROVE  x \div d \in Words /\ x \div d <= x
BY WordFacts DEF Words

(* A 32-bit sum wraps at most once. *)
LEMMA AddWraps ==
    ASSUME NEW x \in Words, NEW y \in Words
    PROVE  AddW(x, y) = IF x + y < Word THEN x + y ELSE x + y - Word
BY WordFacts DEF Words, AddW

LEMMA AddWord == ASSUME NEW x \in Words, NEW y \in Words PROVE AddW(x, y) \in Words
BY WordFacts, AddWraps DEF Words

LEMMA SubWord == ASSUME NEW x \in Words, NEW y \in Words PROVE SubW(x, y) \in Words
<1>1. x - y \in Int BY DEF Words
<1> QED BY <1>1, ModWord DEF SubW

LEMMA HalfSum ==
    ASSUME NEW x \in Words, NEW y \in Words
    PROVE  AddW(x, y) \div 2 \in Words /\ AddW(x, y) \div 2 < LockBit
<1>1. AddW(x, y) \in Words BY AddWord
<1> QED BY <1>1, WordFacts DEF Words

(* The exact product of a weight and a rate divided by the total weight is *)
(* at most the rate; so is that of a product that wrapped.                 *)
LEMMA ModLess == ASSUME NEW x \in Nat PROVE x % Word <= x /\ x % Word \in Words
BY WordFacts DEF Words

LEMMA ShareWord ==
    ASSUME NEW rate \in Words, NEW c, c.numer \in Nat, c.denomi \in Nat, c.denomi > 0
    PROVE  Share(rate, c) \in Words
<1>1. rate * c.numer \in Int BY DEF Words
<1>2. MulW(rate, c.numer) \in Words BY <1>1, ModWord DEF MulW
<1> QED BY <1>2, DivWord DEF Share

LEMMA ShareAtMost ==
    ASSUME NEW rate \in Words, NEW c, c.numer \in Nat, c.denomi \in Nat,
           c.denomi > 0, c.numer <= c.denomi
    PROVE  Share(rate, c) <= rate
<1> DEFINE n == c.numer  d == c.denomi  p == MulW(rate, n)
<1>1. rate \in Nat /\ n \in Nat /\ d \in Nat /\ d > 0 BY DEF Words
<1>2. rate * n \in Nat /\ rate * d \in Nat BY <1>1
<1>3. rate * n <= rate * d BY <1>1
<1>4. p <= rate * n /\ p \in Nat BY <1>2, ModLess DEF MulW, Words
<1>5. p <= rate * d BY <1>2, <1>3, <1>4
<1>6. p \div d <= rate
  <2> HIDE DEF n, d, p
  <2>1. p \div d \in Nat /\ (p \div d) * d <= p BY <1>1, <1>4
  <2>2. SUFFICES ASSUME p \div d >= rate + 1 PROVE FALSE BY <2>1, <1>1
  <2>3. (p \div d) * d >= (rate + 1) * d BY <2>1, <2>2, <1>1
  <2>4. (rate + 1) * d = rate * d + d BY <1>1
  <2> QED BY <2>1, <2>3, <2>4, <1>1, <1>2, <1>4, <1>5
<1> QED BY <1>6 DEF Share

-----------------------------------------------------------------------------
LEMMA MeasuredWord ==
    ASSUME NEW cnt \in Words, NEW cur \in Words, NEW d \in Words, d # 0
    PROVE  MeasuredRate(cnt, cur, d) \in Words
<1>1. cnt \div d \in Words BY DivWord DEF Words
<1> QED BY <1>1, HalfSum DEF MeasuredRate

LEMMA BorrowRateWord ==
    ASSUME NEW pir \in Words, NEW cur \in Words, NEW low \in Words,
           NEW t \in Words, NEW stored \in Words
    PROVE  /\ BorrowRate(pir, cur, low, t, stored) \in Words
           /\ ~Locked(BorrowRate(pir, cur, low, t, stored))
<1> DEFINE spare == SpareRate(pir, cur, low, t)
<1>1. spare \in Words BY WordFacts DEF SpareRate, Words
<1>2. AddW(spare, stored) \div 2 \in Words /\ AddW(spare, stored) \div 2 < LockBit
  BY <1>1, HalfSum
<1> QED BY <1>2, WordFacts DEF BorrowRate, Locked, Words

LEMMA ClassRateWord ==
    ASSUME NEW c, c.type \in 0..3, c.numer \in Nat, c.denomi \in Nat, c.denomi > 0,
           c.cond0 \in Words, c.cond1 \in Words,
           NEW md, md.pir \in Words, md.low \in Words,
           NEW mp, mp.pir \in Words, mp.cur \in Words, mp.low \in Words
    PROVE  ClassRate(c, md, mp) \in Words
<1>1. Share(mp.pir, c) \in Words BY ShareWord
<1>2. AtLeastOne(Share(mp.pir, c)) \in Words BY <1>1, WordFacts DEF AtLeastOne
<1>3. ASSUME mp.cur < mp.pir PROVE Share(mp.pir - mp.cur, c) \in Words
  <2>1. \A x, y \in Words : x < y => y - x \in Words BY WordFacts DEF Words
  <2>2. mp.pir - mp.cur \in Words BY <1>3, <2>1
  <2> QED BY <2>2, ShareWord
<1>4. WeightedRate(c, md, mp) \in Words BY <1>1, <1>3, WordFacts DEF WeightedRate
<1>5. SubW(mp.pir, c.cond1) \in Words BY SubWord
<1>6. PriorityRate(c, mp) \in Words BY <1>2, <1>5 DEF PriorityRate
<1> QED BY <1>4, <1>6 DEF ClassRate

(* A refill is the exact credit cut at the burst size. *)
LEMMA RefillExact ==
    ASSUME NEW bucket \in Words, NEW tdelta \in Words, NEW pir \in Words,
           NEW pbs \in Words, bucket <= pbs, tdelta * pir > 0
    PROVE  Refill(bucket, tdelta, pir, pbs) =
              IF bucket + tdelta * pir <= pbs THEN bucket + tdelta * pir ELSE pbs
<1> DEFINE P == tdelta * pir
<1>1. P \in Nat BY DEF Words
<1>2. CASE P >= Word
  <2>1. Mult32Oflow0(tdelta, pir) = 0 BY <1>2 DEF Mult32Oflow0
  <2>2. Refill(bucket, tdelta, pir, pbs) = pbs BY <2>1 DEF Refill
  <2>3. bucket + P > pbs BY <1>1, <1>2, WordFacts DEF Words
  <2> QED BY <1>1, <2>2, <2>3 DEF Words
<1>3. CASE P < Word
  <2>1. Mult32Oflow0(tdelta, pir) = P /\ P \in Words /\ P > 0
    BY <1>1, <1>3, WordFacts DEF Mult32Oflow0, Words
  <2>2. AddW(bucket, P) = IF bucket + P < Word THEN bucket + P ELSE bucket + P - Word
    BY <2>1, AddWraps
  <2>3. Refill(bucket, tdelta, pir, pbs) =
           IF AddW(bucket, P) < P \/ AddW(bucket, P) > pbs THEN pbs ELSE AddW(bucket, P)
    BY <2>1 DEF Refill
  <2> HIDE DEF P
  <2> QED BY <2>1, <2>2, <2>3, WordFacts DEF Words, P
<1> QED BY <1>1, <1>2, <1>3, WordFacts DEF Words

(* It never takes tokens away and never passes the burst size. *)
LEMMA RefillBounds ==
    ASSUME NEW bucket \in Words, NEW tdelta \in Words, NEW pir \in Words,
           NEW pbs \in Words, bucket <= pbs
    PROVE  Refill(bucket, tdelta, pir, pbs) \in bucket..pbs
<1>1. tdelta * pir \in Nat BY DEF Words
<1>2. CASE tdelta * pir = 0
  BY <1>2, WordFacts DEF Refill, Mult32Oflow0, Words
<1>3. CASE tdelta * pir > 0
  BY <1>1, <1>3, RefillExact DEF Words
<1> QED BY <1>1, <1>2, <1>3

(* The clamp alone, for a bucket that another thread may have overfilled.  *)
LEMMA RefillAtMost ==
    ASSUME NEW bucket \in Words, NEW tdelta \in Words, NEW pir \in Words,
           NEW pbs \in Words
    PROVE  /\ Refill(bucket, tdelta, pir, pbs) \in Words
           /\ Refill(bucket, tdelta, pir, pbs) <= pbs
<1> DEFINE P == Mult32Oflow0(tdelta, pir)
<1>1. P \in Words BY WordFacts DEF Words, Mult32Oflow0
<1>2. AddW(bucket, P) \in Words BY <1>1, AddWord
<1>3. Refill(bucket, tdelta, pir, pbs) =
         IF P = 0 \/ AddW(bucket, P) < P \/ AddW(bucket, P) > pbs
         THEN pbs ELSE AddW(bucket, P)
  BY DEF Refill
<1> HIDE DEF P
<1> QED BY <1>1, <1>2, <1>3 DEF Words

LEMMA TestSetWord ==
    ASSUME NEW high \in Words
    PROVE  /\ TestSet(high) \in Words /\ Locked(TestSet(high))
           /\ Locked(high) => TestSet(high) = high
BY WordFacts DEF TestSet, Locked, Words

LEMMA UpperWord ==
    ASSUME NEW high \in Words PROVE Upper(high) \in 0..(UpperMod - 1)
BY WordFacts DEF Upper, Words

(* The lock bit does not show in the upper time. *)
LEMMA UpperLocked ==
    ASSUME NEW high \in Words PROVE Upper(TestSet(high)) = Upper(high)
<1> DEFINE q == LockBit \div UpperMod
<1>1. q \in Nat /\ LockBit = q * UpperMod BY WordFacts, WordAssumption
<1>2. ASSUME NEW x \in Nat PROVE (x + q * UpperMod) % UpperMod = x % UpperMod
  <2> DEFINE d == x \div UpperMod
             r == x % UpperMod
             y == x + q * UpperMod
             e == y \div UpperMod
             f == y % UpperMod
  <2>1. d \in Nat /\ r \in 0..(UpperMod - 1) /\ x = d * UpperMod + r BY WordFacts
  <2>2. y \in Nat BY <1>1, WordFacts
  <2>3. e \in Nat /\ f \in 0..(UpperMod - 1) /\ y = e * UpperMod + f BY <2>2, WordFacts
  <2> HIDE DEF q, d, r, e, f
  <2>4. (e - d - q) * UpperMod = r - f BY <1>1, <2>1, <2>3, WordFacts
  <2>5. e - d - q \in Int BY <1>1, <2>1, <2>3
  <2>6. \A z \in Int : z * UpperMod < UpperMod /\ z * UpperMod > -UpperMod => z = 0
    BY WordFacts
  <2>7. e - d - q = 0 BY <2>1, <2>3, <2>4, <2>5, <2>6, WordFacts
  <2>8. r = f BY <2>1, <2>3, <2>4, <2>7, WordFacts
  <2> QED BY <2>8 DEF r, f
<1> HIDE DEF q
<1> QED BY <1>1, <1>2, WordFacts DEF Upper, TestSet, Words

LEMMA DebitWord ==
    ASSUME NEW bucket \in Words, NEW n \in Words
    PROVE  /\ Debit(bucket, n) \in Words /\ Debit(bucket, n) <= bucket
           /\ MeterColour(bucket, n) \in Colour
BY WordFacts DEF Debit, MeterColour, Words, Colour

LEMMA TDeltaWord ==
    ASSUME NEW x \in Words, NEW y \in Words PROVE TDelta(x, y) \in Words
BY WordFacts DEF TDelta, Words

-----------------------------------------------------------------------------
(* Shares of a rate, as products: a share of the rate p for the weight n   *)
(* of d is an x with x * d <= p * n.                                       *)
LEMMA ShareTimes ==
    ASSUME NEW rate \in Words, NEW c, c.numer \in Nat, c.denomi \in Nat, c.denomi > 0
    PROVE  Share(rate, c) \in Nat /\ Share(rate, c) * c.denomi <= rate * c.numer
<1> DEFINE p == MulW(rate, c.numer)
<1>1. rate * c.numer \in Nat BY DEF Words
<1>2. p \in Nat /\ p <= rate * c.numer BY <1>1, ModLess DEF MulW, Words
<1> HIDE DEF p
<1>3. p \div c.denomi \in Nat /\ (p \div c.denomi) * c.denomi <= p BY <1>2, Quotient
<1>4. (p \div c.denomi) * c.denomi \in Nat BY <1>3
<1>5. Share(rate, c) = p \div c.denomi BY DEF Share, p
<1> QED BY <1>1, <1>2, <1>3, <1>4, <1>5

(* Two shares of a rate that are not more than it together. *)
LEMMA SharesAddUp ==
    ASSUME NEW x \in Nat, NEW y \in Nat, NEW top \in Nat, NEW n \in Nat, NEW k \in Nat,
           NEW d \in Nat, d > 0, n + k <= d, x * d <= top * n, y * d <= top * k
    PROVE  x + y <= top
<1>1. (x + y) * d = x * d + y * d /\ top * (n + k) = top * n + top * k OBVIOUS
<1>2. top * (n + k) <= top * d /\ top * d \in Nat BY TimesMonotone
<1>3. (top + 1) * d = top * d + d OBVIOUS
<1>4. x * d \in Nat /\ y * d \in Nat /\ top * n \in Nat /\ top * k \in Nat OBVIOUS
<1>5. (x + y) * d < (top + 1) * d BY <1>1, <1>2, <1>3, <1>4
<1> QED BY <1>5, Cancel

(* A share that leaves something to others leaves at least one. *)
LEMMA ShareLeavesOne ==
    ASSUME NEW x \in Nat, NEW top \in Nat, NEW n \in Nat, NEW d \in Nat,
           top > 0, n < d, x * d <= top * n
    PROVE  x + 1 <= top
<1>1. n + 1 <= d OBVIOUS
<1>2. top * n + top = top * (n + 1) /\ top * (n + 1) <= top * d
  <2>1. top * (n + 1) <= top * d BY <1>1, TimesMonotone
  <2> QED BY <2>1
<1>3. x * d \in Nat /\ top * n \in Nat /\ top * d \in Nat OBVIOUS
<1>4. x * d < top * d BY <1>2, <1>3
<1>5. top - 1 \in Nat /\ (top - 1) + 1 = top OBVIOUS
<1>6. x * d < ((top - 1) + 1) * d BY <1>4, <1>5
<1>7. x <= top - 1 BY <1>5, <1>6, Cancel
<1> QED BY <1>7

(* Below the condition a class of low priority gets no more than its fixed *)
(* rate, and one of high priority not what the low one is left.            *)
LEMMA LowShare ==
    ASSUME NEW x \in Nat, NEW p \in Nat, NEW cond \in Nat, NEW n \in Nat, NEW d \in Nat,
           d > 0, p <= cond, x * d <= p * n
    PROVE  x <= (cond * n) \div d
<1> DEFINE q == (cond * n) \div d
<1>1. p * n <= cond * n /\ cond * n \in Nat /\ p * n \in Nat BY TimesMonotone
<1>2. q \in Nat /\ cond * n < (q + 1) * d BY <1>1, Quotient
<1> HIDE DEF q
<1>3. x * d \in Nat /\ (q + 1) * d \in Nat BY <1>2
<1>4. x * d < (q + 1) * d BY <1>1, <1>2, <1>3
<1>5. x <= q BY <1>2, <1>4, Cancel
<1> QED BY <1>5 DEF q

LEMMA HighShare ==
    ASSUME NEW x \in Nat, NEW p \in Nat, NEW cond \in Nat, NEW n \in Nat, NEW d \in Nat,
           d > 0, n <= d, p <= cond, x * d <= p * n
    PROVE  x + (cond * (d - n)) \div d <= cond
<1> DEFINE q == (cond * (d - n)) \div d
<1>1. p * n <= cond * n /\ cond * n \in Nat /\ p * n \in Nat BY TimesMonotone
<1>2. d - n \in Nat /\ n + (d - n) <= d OBVIOUS
<1>3. cond * (d - n) \in Nat BY <1>2
<1>4. q \in Nat /\ q * d <= cond * (d - n) BY <1>3, Quotient
<1> HIDE DEF q
<1>5. x * d \in Nat /\ x * d <= cond * n BY <1>1
<1>6. x + q <= cond BY <1>2, <1>4, <1>5, SharesAddUp
<1> QED BY <1>6 DEF q

-----------------------------------------------------------------------------
(* The initial values of the data plane are of their types.                *)
LEMMA Constants ==
    /\ Zero \in Time
    /\ NoMeter \in Meter /\ NoBorrow \in Borrow
    /\ NoJob \in Job /\ NoUpdate \in Update /\ NoReads \in Reads
<1>1. Zero \in Time BY WordFacts DEF Zero, Time
<1>2. NoMeter \in Meter /\ NoBorrow \in Borrow
  BY WordFacts DEF NoMeter, NoBorrow, Meter, Borrow
<1>3. NoJob \in Job BY FlowAssumption, WordFacts DEF NoJob, Job, Colour
<1> QED BY <1>1, <1>2, <1>3, WordFacts DEF NoUpdate, NoReads, Update, Reads

-----------------------------------------------------------------------------
(* Which loop of pif_plugin_fv_schedule each command belongs to.           *)
ClassOnly == {"idle", "class", "meter", "count"}
BorrowOnly == {"sibling", "b_testset", "b_meter"} \cup BorrowSteps
PhaseOK ==
    \A t \in Threads : /\ pc[t] \in ClassOnly => job[t].phase = "class"
                       /\ pc[t] \in BorrowOnly => job[t].phase = "borrow"

TypeInv == TypeOK /\ PhaseOK

LEMMA TypeInit == Init => TypeInv
<1> SUFFICES ASSUME Init PROVE TypeInv OBVIOUS
<1>1. m \in [Classes -> Meter]
  BY ConfigAssumption, WordFacts DEF Init, Meter
<1>2. b \in [Classes -> Borrow]
  BY ConfigAssumption, WordFacts DEF Init, Borrow
<1>3. TypeOK
  BY <1>1, <1>2, Constants, ConfigAssumption DEF Init, TypeOK, IndexOK, Steps, Colour
<1>4. PhaseOK BY DEF Init, PhaseOK, NoJob, ClassOnly, BorrowOnly, BorrowSteps
<1> QED BY <1>3, <1>4 DEF TypeInv

(* A thread moves to a command of the loop it is in.                       *)
LEMMA SameJob ==
    ASSUME TypeInv, NEW t \in Threads, NEW step \in Steps,
           Goto(t, step), UNCHANGED job,
           step \notin {"idle", "class", "sibling"} => Cls(t) \in Classes,
           step \in ClassOnly => job[t].phase = "class",
           step \in BorrowOnly => job[t].phase = "borrow"
    PROVE  /\ pc' \in [Threads -> Steps] /\ job' \in [Threads -> Job]
           /\ IndexOK' /\ PhaseOK'
<1>1. \A u \in Threads : Cls(u)' = Cls(u) BY DEF Cls
<1>2. pc \in [Threads -> Steps] /\ job \in [Threads -> Job] /\ IndexOK /\ PhaseOK
  BY DEF TypeInv, TypeOK
<1>3. \A u \in Threads : pc'[u] = IF u = t THEN step ELSE pc[u]
  BY <1>2 DEF Goto
<1>4. IndexOK' BY <1>1, <1>2, <1>3 DEF IndexOK
<1>5. PhaseOK' BY <1>2, <1>3 DEF PhaseOK
<1> QED BY <1>2, <1>4, <1>5 DEF Goto

(* A thread takes on a new job or the next index of one.                   *)
LEMMA NewJob ==
    ASSUME TypeInv, NEW t \in Threads, NEW step \in {"idle", "class", "sibling"},
           NEW j \in Job, Goto(t, step), job' = [job EXCEPT ![t] = j],
           step = "sibling" <=> j.phase = "borrow"
    PROVE  /\ pc' \in [Threads -> Steps] /\ job' \in [Threads -> Job]
           /\ IndexOK' /\ PhaseOK'
<1>2. pc \in [Threads -> Steps] /\ job \in [Threads -> Job] /\ IndexOK /\ PhaseOK
  BY DEF TypeInv, TypeOK
<1>3. \A u \in Threads : /\ pc'[u] = IF u = t THEN step ELSE pc[u]
                         /\ job'[u] = IF u = t THEN j ELSE job[u]
  BY <1>2 DEF Goto
<1>1. \A u \in Threads : u # t => Cls(u)' = Cls(u) BY <1>3 DEF Cls
<1>4. IndexOK' BY <1>1, <1>2, <1>3 DEF IndexOK
<1>5. j.phase \in {"class", "borrow"} BY DEF Job
<1>6. PhaseOK' BY <1>2, <1>3, <1>5 DEF PhaseOK, ClassOnly, BorrowOnly, BorrowSteps
<1> QED BY <1>2, <1>4, <1>6 DEF Goto, Steps

(* What a thread knows of its own locals. *)
LEMMA ThreadFacts ==
    ASSUME TypeInv, NEW t \in Threads
    PROVE  /\ pc[t] \in Steps /\ job[t] \in Job /\ up[t] \in Update /\ rd[t] \in Reads
           /\ pc[t] \notin {"idle", "class", "sibling"} => Cls(t) \in Classes
           /\ pc[t] \in ClassOnly => job[t].phase = "class"
           /\ pc[t] \in BorrowOnly => job[t].phase = "borrow"
           /\ job[t].phase \in {"class", "borrow"} /\ job[t].i \in Nat
           /\ job[t].tlen \in Words /\ job[t].flow \in Flows
BY DEF TypeInv, TypeOK, IndexOK, PhaseOK, Job

-----------------------------------------------------------------------------
(* What a refresh writes into a meter is a meter. *)
LEMMA UpdateMeter ==
    ASSUME TypeInv, NEW t \in Threads, UpdateWrite(t)
    PROVE  m' \in [Classes -> Meter]
<1>1. pc[t] = "u_write"
  BY DEF UpdateWrite, UpdateNoChange, UpdateReset, UpdateCredit
<1>2. /\ m \in [Classes -> Meter] /\ Cls(t) \in Classes
      /\ up[t].ctime \in Time /\ up[t].m \in Meter /\ up[t].p \in Meter
  BY <1>1, ThreadFacts DEF TypeInv, TypeOK, Update
<1>3. up[t].ctime.up \in Words /\ up[t].ctime.low \in Words
  BY <1>2, WordFacts DEF Time, Words
<1>4. Conf[Cls(t)].pbs \in Words BY <1>2, ConfigAssumption
<1>5. Rate(t) \in Words
  <2> DEFINE c == Conf[Cls(t)]
  <2>1. /\ c.type \in 0..3 /\ c.numer \in Nat /\ c.denomi \in Nat /\ c.denomi > 0
        /\ c.cond0 \in Words /\ c.cond1 \in Words
    BY <1>2, ConfigAssumption
  <2>2. /\ up[t].m.pir \in Words /\ up[t].m.low \in Words
        /\ up[t].p.pir \in Words /\ up[t].p.cur \in Words /\ up[t].p.low \in Words
    BY <1>2 DEF Meter
  <2>3. ClassRate(c, up[t].m, up[t].p) \in Words
    <3> HIDE DEF c
    <3> QED BY <2>1, <2>2, ClassRateWord
  <2> QED BY <2>3 DEF Rate
<1>6. CASE UpdateNoChange(t) BY <1>2, <1>3, <1>6 DEF UpdateNoChange, Meter
<1>7. CASE UpdateReset(t)
  <2>1. PICK cnt, cur \in Junk :
           m' = [m EXCEPT ![Cls(t)] =
                    [bucket |-> Conf[Cls(t)].pbs,
                     high |-> up[t].ctime.up, low |-> up[t].ctime.low,
                     cnt |-> cnt, cur |-> cur, pir |-> Rate(t)]]
    BY <1>7 DEF UpdateReset
  <2>2. cnt \in Words /\ cur \in Words BY ConfigAssumption
  <2> QED BY <1>2, <1>3, <1>4, <1>5, <2>1, <2>2 DEF Meter
<1>8. CASE UpdateCredit(t)
  <2> DEFINE md == up[t].m
             td == TDelta(up[t].ctime.low, md.low)
  <2>1. /\ md.low \in Words /\ md.bucket \in Words
        /\ md.cnt \in Words /\ md.cur \in Words
    BY <1>2 DEF Meter
  <2>2. td \in Words BY <1>3, <2>1, TDeltaWord
  <2>3. Refill(md.bucket, td, Rate(t), Conf[Cls(t)].pbs) \in Words
    BY <1>4, <1>5, <2>1, <2>2, RefillAtMost
  <2>4. PICK cnt \in (IF td = 0 THEN Junk ELSE {0}),
             cur \in (IF td = 0 THEN Junk ELSE {MeasuredRate(md.cnt, md.cur, td)}) :
          m' = [m EXCEPT ![Cls(t)] =
                   [bucket |-> Refill(md.bucket, td, Rate(t), Conf[Cls(t)].pbs),
                    high |-> up[t].ctime.up, low |-> up[t].ctime.low,
                    cnt |-> cnt, cur |-> cur, pir |-> Rate(t)]]
    BY <1>8 DEF UpdateCredit
  <2>5. td # 0 => MeasuredRate(md.cnt, md.cur, td) \in Words
    BY <2>1, <2>2, MeasuredWord
  <2>6. cnt \in Words /\ cur \in Words BY <2>4, <2>5, ConfigAssumption, WordFacts
  <2> HIDE DEF md, td
  <2> QED BY <1>2, <1>3, <1>5, <2>3, <2>4, <2>6 DEF Meter
<1> QED BY <1>6, <1>7, <1>8 DEF UpdateWrite

(* What an update of a borrow bucket writes is a borrow bucket. *)
LEMMA BorrowBucket ==
    ASSUME TypeInv, NEW t \in Threads, BorrowWrite(t)
    PROVE  b' \in [Classes -> Borrow]
<1> DEFINE br == rd[t].b
           pir == BorrowRate(rd[t].pir, rd[t].cur, rd[t].low, rd[t].ctime.low,
                             Upper(br.high))
           td == TDelta(rd[t].ctime.low, br.low)
<1>0. pc[t] = "b_write" BY DEF BorrowWrite
<1>1. /\ b \in [Classes -> Borrow] /\ Cls(t) \in Classes
      /\ rd[t].ctime.low \in Words /\ br \in Borrow
      /\ rd[t].pir \in Words /\ rd[t].cur \in Words /\ rd[t].low \in Words
  BY <1>0, ThreadFacts DEF TypeInv, TypeOK, Reads, Time
<1>2. br.bucket \in Words /\ br.high \in Words /\ br.low \in Words /\ br.pbs \in Words
  BY <1>1 DEF Borrow
<1>3. Upper(br.high) \in Words BY <1>2, UpperWord, WordFacts DEF Words
<1>4. pir \in Words BY <1>1, <1>3, BorrowRateWord
<1>5. td \in Words BY <1>1, <1>2, TDeltaWord
<1>6. Refill(br.bucket, td, pir, br.pbs) \in Words
  BY <1>2, <1>4, <1>5, RefillAtMost
<1>7. b' = IF rd[t].ctime.low = br.low
           THEN [b EXCEPT ![Cls(t)].high = pir]
           ELSE [b EXCEPT ![Cls(t)] =
                    [bucket |-> Refill(br.bucket, td, pir, br.pbs),
                     high |-> pir, low |-> rd[t].ctime.low, pbs |-> br.pbs]]
  BY DEF BorrowWrite
<1> HIDE DEF pir, td, br
<1> QED BY <1>1, <1>2, <1>4, <1>6, <1>7 DEF Borrow

-----------------------------------------------------------------------------
(* A step of a thread on its meter, its borrow bucket and its locals leads *)
(* to a well typed state if what it writes is well typed and it stays in   *)
(* its loop.                                                               *)
LEMMA TypeStep ==
    ASSUME TypeInv, now' \in Time, left' \in Nat,
           m' \in [Classes -> Meter], b' \in [Classes -> Borrow],
           s' \in [Classes -> Colour],
           up' \in [Threads -> Update], rd' \in [Threads -> Reads],
           pc' \in [Threads -> Steps], job' \in [Threads -> Job], IndexOK', PhaseOK'
    PROVE  TypeInv'
BY DEF TypeInv, TypeOK

LEMMA TypeNext == TypeInv /\ [Next]_vars => TypeInv'
<1> SUFFICES ASSUME TypeInv, [Next]_vars PROVE TypeInv'
  OBVIOUS
<1>0. /\ now \in Time /\ left \in Nat /\ m \in [Classes -> Meter]
      /\ b \in [Classes -> Borrow] /\ s \in [Classes -> Colour]
      /\ up \in [Threads -> Update] /\ rd \in [Threads -> Reads]
      /\ pc \in [Threads -> Steps] /\ job \in [Threads -> Job] /\ IndexOK /\ PhaseOK
  BY DEF TypeInv, TypeOK
<1>1. CASE Tick
  <2>1. /\ now.up \in 0..(UpperMod - 1) /\ now.low \in Words
        /\ now = [up |-> now.up, low |-> now.low]
        /\ MaxTime.up \in 0..(UpperMod - 1) /\ MaxTime.low \in Words
    BY <1>0, ConfigAssumption DEF Time
  <2>2. now' = IF now.low = Word - 1 THEN [up |-> now.up + 1, low |-> 0]
                                     ELSE [up |-> now.up, low |-> now.low + 1]
    BY <1>1, <2>1 DEF Tick
  <2>3. now.low = Word - 1 => now.up < MaxTime.up
    <3> SUFFICES ASSUME now.low = Word - 1, ~(now.up < MaxTime.up) PROVE FALSE
      BY <2>1
    <3>1. now.up = MaxTime.up /\ now.low < MaxTime.low
      BY <1>1 DEF Tick, Before
    <3> QED BY <2>1, <3>1, WordFacts DEF Words
  <2>4. now' \in Time BY <2>1, <2>2, <2>3, WordFacts DEF Time, Words
  <2>5. IndexOK' /\ PhaseOK' BY <1>0, <1>1 DEF Tick, IndexOK, PhaseOK, Cls
  <2> QED BY <1>0, <1>1, <2>4, <2>5, TypeStep DEF Tick
<1>2. ASSUME NEW t \in Threads, Receive(t) PROVE TypeInv'
  <2>1. PICK f \in Flows, n \in Lens, c \in Colour :
           job' = [job EXCEPT ![t] = [flow |-> f, tlen |-> n,
                                      phase |-> "class", i |-> 0, color |-> c]]
    BY <1>2 DEF Receive, Colour
  <2> DEFINE j == [flow |-> f, tlen |-> n, phase |-> "class", i |-> 0, color |-> c]
  <2>2. j \in Job /\ j.phase = "class" BY ConfigAssumption DEF Job
  <2>3. left' \in Nat BY <1>0, <1>2 DEF Receive
  <2> HIDE DEF j
  <2>4. /\ pc' \in [Threads -> Steps] /\ job' \in [Threads -> Job] /\ IndexOK' /\ PhaseOK'
    BY <1>2, <2>1, <2>2, NewJob DEF Receive, j
  <2> QED BY <1>0, <1>2, <2>3, <2>4, TypeStep DEF Receive
<1>3. ASSUME NEW t \in Threads, ClassTestSet(t) PROVE TypeInv'
  <2>1. pc[t] = "class" BY <1>3 DEF ClassTestSet
  <2>2. job[t].phase = "class" /\ job[t].i \in Nat /\ job[t].flow \in Flows
    BY <2>1, ThreadFacts DEF ClassOnly
  <2>3. Cls(t) \in Classes
    <3>1. /\ job[t].flow.idxNum \in Nat
          /\ \A i \in 0..(job[t].flow.idxNum - 1) : job[t].flow.flowIdx[i] \in Classes
      BY <2>2, FlowAssumption
    <3>2. job[t].i < job[t].flow.idxNum BY <1>3 DEF ClassTestSet
    <3>3. job[t].i \in 0..(job[t].flow.idxNum - 1) BY <2>2, <3>1, <3>2
    <3> QED BY <2>2, <3>1, <3>3 DEF Cls
  <2>4. m[Cls(t)].high \in Words BY <1>0, <2>3 DEF Meter
  <2>5. TestSet(m[Cls(t)].high) \in Words BY <2>4, TestSetWord
  <2>6. m' \in [Classes -> Meter] BY <1>0, <1>3, <2>3, <2>5 DEF ClassTestSet, Meter
  <2>7. PICK step \in {"meter", "u_tsc"} : Goto(t, step) BY <1>3 DEF ClassTestSet
  <2>8. /\ pc' \in [Threads -> Steps] /\ job' \in [Threads -> Job] /\ IndexOK' /\ PhaseOK'
    BY <1>3, <2>2, <2>3, <2>7, SameJob DEF ClassTestSet, ClassOnly, BorrowOnly, Steps, UpdateSteps, StatusSteps, BorrowSteps
  <2> QED BY <1>0, <1>3, <2>6, <2>8, TypeStep DEF ClassTestSet
<1>4. ASSUME NEW t \in Threads, ClassMeter(t) PROVE TypeInv'
  <2>1. pc[t] = "meter" BY <1>4 DEF ClassMeter
  <2>2. Cls(t) \in Classes /\ job[t].tlen \in Words /\ job[t].phase = "class"
    BY <2>1, ThreadFacts DEF ClassOnly
  <2>3. m[Cls(t)].bucket \in Words BY <1>0, <2>2 DEF Meter
  <2>4. /\ Debit(m[Cls(t)].bucket, job[t].tlen) \in Words
        /\ MeterColour(m[Cls(t)].bucket, job[t].tlen) \in Colour
    BY <2>2, <2>3, DebitWord
  <2>5. m' \in [Classes -> Meter] BY <1>0, <1>4, <2>2, <2>4 DEF ClassMeter, Meter
  <2>6. job' \in [Threads -> Job] BY <1>0, <1>4, <2>4 DEF ClassMeter, Job
  <2>7. \A u \in Threads : Cls(u)' = Cls(u) /\ job'[u].phase = job[u].phase
    BY <1>0, <1>4 DEF ClassMeter, Cls, Job
  <2>8. pc' \in [Threads -> Steps] BY <1>0, <1>4 DEF ClassMeter, Goto, Steps
  <2>9. IndexOK' BY <1>0, <1>4, <2>2, <2>7 DEF ClassMeter, Goto, IndexOK
  <2>10. PhaseOK'
    BY <1>0, <1>4, <2>2, <2>7 DEF ClassMeter, Goto, PhaseOK, ClassOnly, BorrowOnly, BorrowSteps
  <2> QED BY <1>0, <1>4, <2>5, <2>6, <2>8, <2>9, <2>10, TypeStep DEF ClassMeter
<1>5. ASSUME NEW t \in Threads, CountBytes(t) PROVE TypeInv'
  <2>1. pc[t] = "count" BY <1>5 DEF CountBytes
  <2>2. Cls(t) \in Classes /\ job[t].tlen \in Words /\ job[t].phase = "class"
    BY <2>1, ThreadFacts DEF ClassOnly
  <2>3. m[Cls(t)].cnt \in Words BY <1>0, <2>2 DEF Meter
  <2>4. AddW(m[Cls(t)].cnt, job[t].tlen) \in Words BY <2>2, <2>3, AddWord
  <2>5. m' \in [Classes -> Meter] BY <1>0, <1>5, <2>2, <2>4 DEF CountBytes, Meter
  <2>6. /\ pc' \in [Threads -> Steps] /\ job' \in [Threads -> Job] /\ IndexOK' /\ PhaseOK'
    BY <1>5, <2>2, SameJob DEF CountBytes, ClassOnly, BorrowOnly, Steps, UpdateSteps, StatusSteps, BorrowSteps
  <2> QED BY <1>0, <1>5, <2>5, <2>6, TypeStep DEF CountBytes
<1>6. ASSUME NEW t \in Threads, UpdateTsc(t) PROVE TypeInv'
  <2>1. Cls(t) \in Classes BY <1>6, ThreadFacts DEF UpdateTsc
  <2>2. up' \in [Threads -> Update] BY <1>0, <1>6 DEF UpdateTsc, Update
  <2>3. /\ pc' \in [Threads -> Steps] /\ job' \in [Threads -> Job] /\ IndexOK' /\ PhaseOK'
    BY <1>6, <2>1, SameJob DEF UpdateTsc, ClassOnly, BorrowOnly, Steps, UpdateSteps, StatusSteps, BorrowSteps
  <2> QED BY <1>0, <1>6, <2>2, <2>3, TypeStep DEF UpdateTsc
<1>7. ASSUME NEW t \in Threads, UpdateRead(t) PROVE TypeInv'
  <2>1. Cls(t) \in Classes BY <1>7, ThreadFacts DEF UpdateRead
  <2>2. up' \in [Threads -> Update] BY <1>0, <1>7, <2>1 DEF UpdateRead, Update
  <2>3. PICK step \in {"u_write", "u_parent"} : Goto(t, step) BY <1>7 DEF UpdateRead
  <2>4. /\ pc' \in [Threads -> Steps] /\ job' \in [Threads -> Job] /\ IndexOK' /\ PhaseOK'
    BY <1>7, <2>1, <2>3, SameJob DEF UpdateRead, ClassOnly, BorrowOnly, Steps, UpdateSteps, StatusSteps, BorrowSteps
  <2> QED BY <1>0, <1>7, <2>2, <2>4, TypeStep DEF UpdateRead
<1>8. ASSUME NEW t \in Threads, UpdateReadParent(t) PROVE TypeInv'
  <2>1. Cls(t) \in Classes BY <1>8, ThreadFacts DEF UpdateReadParent
  <2>2. Conf[Cls(t)].pidx \in Classes BY <2>1, ConfigAssumption
  <2>3. up' \in [Threads -> Update]
    BY <1>0, <1>8, <2>2 DEF UpdateReadParent, Update
  <2>4. /\ pc' \in [Threads -> Steps] /\ job' \in [Threads -> Job] /\ IndexOK' /\ PhaseOK'
    BY <1>8, <2>1, SameJob DEF UpdateReadParent, ClassOnly, BorrowOnly, Steps, UpdateSteps, StatusSteps, BorrowSteps
  <2> QED BY <1>0, <1>8, <2>3, <2>4, TypeStep DEF UpdateReadParent
<1>9. ASSUME NEW t \in Threads, UpdateWrite(t) PROVE TypeInv'
  <2>1. pc[t] = "u_write" /\ UpdateDone(t)
    BY <1>9 DEF UpdateWrite, UpdateNoChange, UpdateReset, UpdateCredit
  <2>2. Cls(t) \in Classes /\ job[t].phase \in {"class", "borrow"}
    BY <2>1, ThreadFacts
  <2>3. up' \in [Threads -> Update] BY <1>0, <2>1, Constants DEF UpdateDone
  <2>4. PICK step \in {"meter", "b_write"} :
           Goto(t, step) /\ (step = "meter" <=> job[t].phase = "class")
    BY <2>1 DEF UpdateDone
  <2>5. /\ pc' \in [Threads -> Steps] /\ job' \in [Threads -> Job] /\ IndexOK' /\ PhaseOK'
    BY <2>1, <2>2, <2>4, SameJob DEF UpdateDone, ClassOnly, BorrowOnly, Steps, UpdateSteps, StatusSteps, BorrowSteps
  <2> QED BY <1>0, <1>9, <2>1, <2>3, <2>5, UpdateMeter, TypeStep DEF UpdateDone
<1>10. ASSUME NEW t \in Threads, ReadTsc(t) \/ ReadPir(t) \/ ReadCur(t) \/ ReadLow(t)
       PROVE  TypeInv'
  <2>1. pc[t] \in {"s_tsc", "s_pir", "s_cur", "s_low", "b_tsc", "b_pir", "b_cur", "b_low"}
    BY <1>10 DEF ReadTsc, ReadPir, ReadCur, ReadLow
  <2>2. Cls(t) \in Classes BY <2>1, ThreadFacts
  <2>3. m[Cls(t)].pir \in Words /\ m[Cls(t)].cur \in Words /\ m[Cls(t)].low \in Words
    BY <1>0, <2>2 DEF Meter
  <2>4. rd' \in [Threads -> Reads]
    <3>1. CASE ReadTsc(t) BY <1>0, <3>1 DEF ReadTsc, Reads
    <3>2. CASE ReadPir(t) BY <1>0, <2>3, <3>2 DEF ReadPir, Reads
    <3>3. CASE ReadCur(t) BY <1>0, <2>3, <3>3 DEF ReadCur, Reads
    <3>4. CASE ReadLow(t) BY <1>0, <2>3, <3>4 DEF ReadLow, Reads
    <3> QED BY <1>10, <3>1, <3>2, <3>3, <3>4
  <2>5. ASSUME pc[t] \in {"s_tsc", "s_pir", "s_cur", "s_low"}
       PROVE  /\ pc' \in [Threads -> Steps] /\ job' \in [Threads -> Job]
              /\ IndexOK' /\ PhaseOK'
    <3>1. \E step \in {"s_pir", "s_cur", "s_low", "s_write"} : Goto(t, step)
      <4>1. CASE ReadTsc(t)
        <5>1. pc[t] = "s_tsc" BY <2>5, <4>1 DEF ReadTsc
        <5> QED BY <4>1, <5>1 DEF ReadTsc
      <4>2. CASE ReadPir(t)
        <5>1. pc[t] = "s_pir" BY <2>5, <4>2 DEF ReadPir
        <5> QED BY <4>2, <5>1 DEF ReadPir
      <4>3. CASE ReadCur(t)
        <5>1. pc[t] = "s_cur" BY <2>5, <4>3 DEF ReadCur
        <5> QED BY <4>3, <5>1 DEF ReadCur
      <4>4. CASE ReadLow(t)
        <5>1. pc[t] = "s_low" BY <2>5, <4>4 DEF ReadLow
        <5> QED BY <4>4, <5>1 DEF ReadLow
      <4> QED BY <1>10, <4>1, <4>2, <4>3, <4>4
    <3>2. UNCHANGED job BY <1>10 DEF ReadTsc, ReadPir, ReadCur, ReadLow
    <3> QED BY <2>2, <3>1, <3>2, SameJob DEF ClassOnly, BorrowOnly, Steps, UpdateSteps, StatusSteps, BorrowSteps
  <2>6. ASSUME pc[t] \in {"b_tsc", "b_pir", "b_cur", "b_low"}
       PROVE  /\ pc' \in [Threads -> Steps] /\ job' \in [Threads -> Job]
              /\ IndexOK' /\ PhaseOK'
    <3>1. \E step \in {"b_pir", "b_cur", "b_low", "b_read"} : Goto(t, step)
      <4>1. CASE ReadTsc(t)
        <5>1. pc[t] = "b_tsc" BY <2>6, <4>1 DEF ReadTsc
        <5> QED BY <4>1, <5>1 DEF ReadTsc
      <4>2. CASE ReadPir(t)
        <5>1. pc[t] = "b_pir" BY <2>6, <4>2 DEF ReadPir
        <5> QED BY <4>2, <5>1 DEF ReadPir
      <4>3. CASE ReadCur(t)
        <5>1. pc[t] = "b_cur" BY <2>6, <4>3 DEF ReadCur
        <5> QED BY <4>3, <5>1 DEF ReadCur
      <4>4. CASE ReadLow(t)
        <5>1. pc[t] = "b_low" BY <2>6, <4>4 DEF ReadLow
        <5> QED BY <4>4, <5>1 DEF ReadLow
      <4> QED BY <1>10, <4>1, <4>2, <4>3, <4>4
    <3>2. UNCHANGED job BY <1>10 DEF ReadTsc, ReadPir, ReadCur, ReadLow
    <3>3. pc[t] \in BorrowOnly BY <2>6 DEF BorrowOnly, BorrowSteps
    <3>4. job[t].phase = "borrow" BY <3>3, ThreadFacts
    <3> QED BY <2>2, <3>4, <3>1, <3>2, <3>3, SameJob DEF ClassOnly, BorrowOnly, Steps, UpdateSteps, StatusSteps, BorrowSteps
  <2>7. /\ pc' \in [Threads -> Steps] /\ job' \in [Threads -> Job] /\ IndexOK' /\ PhaseOK'
    BY <2>1, <2>5, <2>6
  <2>8. UNCHANGED <<now, m, b, s, left, up>>
    BY <1>10 DEF ReadTsc, ReadPir, ReadCur, ReadLow
  <2> QED BY <1>0, <2>4, <2>7, <2>8, TypeStep
<1>11. ASSUME NEW t \in Threads, StatusWrite(t) PROVE TypeInv'
  <2> DEFINE j == [job[t] EXCEPT !.i = @ + 1]
  <2>1. j \in Job /\ j.phase = job[t].phase /\ j.phase \in {"class", "borrow"}
    BY <1>0 DEF Job
  <2>2. job' = [job EXCEPT ![t] = j] BY <1>0, <1>11 DEF StatusWrite, Job
  <2>3. PICK step \in {"class", "sibling"} :
           Goto(t, step) /\ (step = "sibling" <=> j.phase = "borrow")
    BY <1>11, <2>1 DEF StatusWrite
  <2>4. s' \in [Classes -> Colour]
    BY <1>0, <1>11 DEF StatusWrite, StatusColour, Colour
  <2>5. rd' \in [Threads -> Reads] BY <1>0, <1>11, Constants DEF StatusWrite
  <2> HIDE DEF j
  <2>6. /\ pc' \in [Threads -> Steps] /\ job' \in [Threads -> Job] /\ IndexOK' /\ PhaseOK'
    BY <2>1, <2>2, <2>3, NewJob
  <2> QED BY <1>0, <1>11, <2>4, <2>5, <2>6, TypeStep DEF StatusWrite
<1>12. ASSUME NEW t \in Threads, Finish(t),
              UNCHANGED <<now, m, s, left, up, rd>>, b' \in [Classes -> Borrow]
       PROVE  TypeInv'
  <2>1. NoJob.phase = "class" BY DEF NoJob
  <2>2. /\ pc' \in [Threads -> Steps] /\ job' \in [Threads -> Job] /\ IndexOK' /\ PhaseOK'
    BY <1>12, <2>1, Constants, NewJob DEF Finish
  <2> QED BY <1>0, <1>12, <2>2, TypeStep
<1>13. ASSUME NEW t \in Threads, TryBorrow(t) PROVE TypeInv'
  <2> DEFINE j == [flow |-> job[t].flow, tlen |-> job[t].tlen,
                   phase |-> "borrow", i |-> 0, color |-> "Red"]
  <2>1. j \in Job /\ j.phase = "borrow" BY <1>0 DEF Job, Colour
  <2>2. job' = [job EXCEPT ![t] = j] /\ Goto(t, "sibling") BY <1>13 DEF TryBorrow
  <2> HIDE DEF j
  <2>3. /\ pc' \in [Threads -> Steps] /\ job' \in [Threads -> Job] /\ IndexOK' /\ PhaseOK'
    BY <2>1, <2>2, NewJob
  <2> QED BY <1>0, <1>13, <2>3, TypeStep DEF TryBorrow
<1>14. ASSUME NEW t \in Threads, SiblingDenied(t) PROVE TypeInv'
  <2> DEFINE j == [job[t] EXCEPT !.i = @ + 1]
  <2>1. pc[t] = "sibling" /\ job[t].phase = "borrow"
    BY <1>14, ThreadFacts DEF SiblingDenied, BorrowOnly
  <2>2. j \in Job /\ j.phase = "borrow" BY <1>0, <2>1 DEF Job
  <2>3. job' = [job EXCEPT ![t] = j] BY <1>0, <1>14 DEF SiblingDenied, Job
  <2>4. Goto(t, "sibling") BY <1>0, <1>14, <2>1 DEF SiblingDenied, Goto
  <2> HIDE DEF j
  <2>5. /\ pc' \in [Threads -> Steps] /\ job' \in [Threads -> Job] /\ IndexOK' /\ PhaseOK'
    BY <2>2, <2>3, <2>4, NewJob
  <2> QED BY <1>0, <1>14, <2>5, TypeStep DEF SiblingDenied
<1>15. ASSUME NEW t \in Threads, SiblingStatus(t) PROVE TypeInv'
  <2>1. pc[t] = "sibling" BY <1>15 DEF SiblingStatus
  <2>2. job[t].phase = "borrow" /\ job[t].i \in Nat /\ job[t].flow \in Flows
    BY <2>1, ThreadFacts DEF BorrowOnly
  <2>3. Cls(t) \in Classes
    <3>1. /\ job[t].flow.subNum \in Nat
          /\ \A i \in 0..(job[t].flow.subNum - 1) : i \in Classes
      BY <2>2, FlowAssumption
    <3>2. job[t].i < job[t].flow.subNum BY <1>15 DEF SiblingStatus
    <3>3. job[t].i \in 0..(job[t].flow.subNum - 1) BY <2>2, <3>1, <3>2
    <3> QED BY <2>2, <3>1, <3>3 DEF Cls
  <2>4. PICK step \in {"s_tsc", "b_testset"} : Goto(t, step) BY <1>15 DEF SiblingStatus
  <2>5. /\ pc' \in [Threads -> Steps] /\ job' \in [Threads -> Job] /\ IndexOK' /\ PhaseOK'
    BY <1>15, <2>2, <2>3, <2>4, SameJob DEF SiblingStatus, ClassOnly, BorrowOnly, Steps, UpdateSteps, StatusSteps, BorrowSteps
  <2> QED BY <1>0, <1>15, <2>5, TypeStep DEF SiblingStatus
<1>16. ASSUME NEW t \in Threads, BorrowTestSet(t) PROVE TypeInv'
  <2>1. pc[t] = "b_testset" BY <1>16 DEF BorrowTestSet
  <2>2. Cls(t) \in Classes /\ job[t].phase = "borrow" BY <2>1, ThreadFacts DEF BorrowOnly
  <2>3. b[Cls(t)].high \in Words BY <1>0, <2>2 DEF Borrow
  <2>4. TestSet(b[Cls(t)].high) \in Words BY <2>3, TestSetWord
  <2>5. b' \in [Classes -> Borrow] BY <1>0, <1>16, <2>2, <2>4 DEF BorrowTestSet, Borrow
  <2>6. PICK step \in {"b_meter", "b_tsc"} : Goto(t, step) BY <1>16 DEF BorrowTestSet
  <2>7. /\ pc' \in [Threads -> Steps] /\ job' \in [Threads -> Job] /\ IndexOK' /\ PhaseOK'
    BY <1>16, <2>2, <2>6, SameJob DEF BorrowTestSet, ClassOnly, BorrowOnly, Steps, UpdateSteps, StatusSteps, BorrowSteps
  <2> QED BY <1>0, <1>16, <2>5, <2>7, TypeStep DEF BorrowTestSet
<1>17. ASSUME NEW t \in Threads, BorrowRead(t) PROVE TypeInv'
  <2>1. pc[t] = "b_read" BY <1>17 DEF BorrowRead
  <2>2. Cls(t) \in Classes /\ job[t].phase = "borrow"
    BY <2>1, ThreadFacts DEF BorrowOnly, BorrowSteps
  <2>3. rd' \in [Threads -> Reads] BY <1>0, <1>17, <2>2 DEF BorrowRead, Reads
  <2>4. PICK step \in {"u_tsc", "b_write"} : Goto(t, step) BY <1>17 DEF BorrowRead
  <2>5. /\ pc' \in [Threads -> Steps] /\ job' \in [Threads -> Job] /\ IndexOK' /\ PhaseOK'
    BY <1>17, <2>2, <2>4, SameJob DEF BorrowRead, ClassOnly, BorrowOnly, Steps, UpdateSteps, StatusSteps, BorrowSteps
  <2> QED BY <1>0, <1>17, <2>3, <2>5, TypeStep DEF BorrowRead
<1>18. ASSUME NEW t \in Threads, BorrowWrite(t) PROVE TypeInv'
  <2>1. pc[t] = "b_write" BY <1>18 DEF BorrowWrite
  <2>2. Cls(t) \in Classes /\ job[t].phase = "borrow"
    BY <2>1, ThreadFacts DEF BorrowOnly, BorrowSteps
  <2>3. rd' \in [Threads -> Reads] BY <1>0, <1>18, Constants DEF BorrowWrite
  <2>4. Goto(t, "b_meter") /\ UNCHANGED <<now, m, s, left, job, up>> BY <1>18 DEF BorrowWrite
  <2>5. /\ pc' \in [Threads -> Steps] /\ job' \in [Threads -> Job] /\ IndexOK' /\ PhaseOK'
    BY <2>2, <2>4, SameJob DEF ClassOnly, BorrowOnly, Steps, UpdateSteps, StatusSteps, BorrowSteps
  <2> QED BY <1>0, <1>18, <2>3, <2>4, <2>5, BorrowBucket, TypeStep
<1>19. ASSUME NEW t \in Threads, BorrowForward(t) PROVE TypeInv'
  <2>1. pc[t] = "b_meter" BY <1>19 DEF BorrowForward
  <2>2. Cls(t) \in Classes /\ job[t].tlen \in Words BY <2>1, ThreadFacts
  <2>3. b[Cls(t)].bucket \in Words BY <1>0, <2>2 DEF Borrow
  <2>4. Debit(b[Cls(t)].bucket, job[t].tlen) \in Words BY <2>2, <2>3, DebitWord
  <2>5. b' \in [Classes -> Borrow] BY <1>0, <1>19, <2>2, <2>4 DEF BorrowForward, Borrow
  <2> QED BY <1>12, <1>19, <2>5 DEF BorrowForward
<1>20. ASSUME NEW t \in Threads, BorrowRefused(t) PROVE TypeInv'
  <2>1. pc[t] = "b_meter" BY <1>20 DEF BorrowRefused
  <2>2. Cls(t) \in Classes BY <2>1, ThreadFacts
  <2>3. /\ pc' \in [Threads -> Steps] /\ job' \in [Threads -> Job] /\ IndexOK' /\ PhaseOK'
    BY <1>20, <2>2, SameJob DEF BorrowRefused, ClassOnly, BorrowOnly, Steps, UpdateSteps, StatusSteps, BorrowSteps
  <2> QED BY <1>0, <1>20, <2>3, TypeStep DEF BorrowRefused
<1>21. ASSUME NEW t \in Threads, ForwardDirect(t) \/ DropPacket(t) PROVE TypeInv'
  BY <1>0, <1>12, <1>21 DEF ForwardDirect, DropPacket
<1>22. CASE UNCHANGED vars
  <2>1. IndexOK' /\ PhaseOK' BY <1>0, <1>22 DEF vars, IndexOK, PhaseOK, Cls
  <2> QED BY <1>0, <1>22, <2>1, TypeStep DEF vars
<1> QED
  BY <1>1, <1>2, <1>3, <1>4, <1>5, <1>6, <1>7, <1>8, <1>9, <1>10, <1>11, <1>13,
     <1>14, <1>15, <1>16, <1>17, <1>18, <1>19, <1>20, <1>21, <1>22
  DEF Next, Schedule

LEMMA TypeInvariant == Spec => []TypeInv
BY TypeInit, TypeNext, PTL DEF Spec

(* Every reachable state of the data plane is well typed: no operation on  *)
(* words leaves their range, and no thread indexes a class not in use.     *)
THEOREM TypeTheorem == Spec => []TypeOK
<1>1. TypeInv => TypeOK BY DEF TypeInv
<1> QED BY <1>1, TypeInvariant, PTL

-----------------------------------------------------------------------------
(* Proofs about the lock bits of the meters and of the borrow buckets.     *)

(* A step of one thread leaves the locals of the others alone. *)
LEMMA OtherThreads ==
    ASSUME TypeInv, NEW t \in Threads, Receive(t) \/ Schedule(t),
           NEW u \in Threads, u # t
    PROVE  pc'[u] = pc[u] /\ job'[u] = job[u] /\ Cls(u)' = Cls(u) /\ rd'[u] = rd[u]
<1>1. pc \in [Threads -> Steps] /\ job \in [Threads -> Job] /\ rd \in [Threads -> Reads]
  BY DEF TypeInv, TypeOK
<1>2. pc'[u] = pc[u]
  BY <1>1 DEF Receive, Schedule, ClassTestSet, ClassMeter, CountBytes, UpdateTsc,
     UpdateRead, UpdateReadParent, UpdateWrite, UpdateNoChange, UpdateReset,
     UpdateCredit, UpdateDone, ReadTsc, ReadPir, ReadCur, ReadLow, StatusWrite,
     ForwardDirect, TryBorrow, SiblingDenied, SiblingStatus, DropPacket,
     BorrowTestSet, BorrowRead, BorrowWrite, BorrowForward, BorrowRefused, Finish, Goto
<1>3. job'[u] = job[u]
  BY <1>1 DEF Receive, Schedule, ClassTestSet, ClassMeter, CountBytes, UpdateTsc,
     UpdateRead, UpdateReadParent, UpdateWrite, UpdateNoChange, UpdateReset,
     UpdateCredit, UpdateDone, ReadTsc, ReadPir, ReadCur, ReadLow, StatusWrite,
     ForwardDirect, TryBorrow, SiblingDenied, SiblingStatus, DropPacket,
     BorrowTestSet, BorrowRead, BorrowWrite, BorrowForward, BorrowRefused, Finish
<1>4. rd'[u] = rd[u]
  BY <1>1 DEF Receive, Schedule, ClassTestSet, ClassMeter, CountBytes, UpdateTsc,
     UpdateRead, UpdateReadParent, UpdateWrite, UpdateNoChange, UpdateReset,
     UpdateCredit, UpdateDone, ReadTsc, ReadPir, ReadCur, ReadLow, StatusWrite,
     ForwardDirect, TryBorrow, SiblingDenied, SiblingStatus, DropPacket,
     BorrowTestSet, BorrowRead, BorrowWrite, BorrowForward, BorrowRefused
<1> QED BY <1>2, <1>3, <1>4 DEF Cls

-----------------------------------------------------------------------------
(* A step of t that neither touches a lock bit of the kind nor starts or   *)
(* ends a refresh.                                                         *)
MeterQuiet(t) ==
    \A k \in Classes : /\ m'[k].high = m[k].high
                       /\ Refreshing(t, k)' <=> Refreshing(t, k)
BorrowQuiet(t) ==
    \A k \in Classes : /\ b'[k].high = b[k].high
                       /\ RefreshingBorrow(t, k)' <=> RefreshingBorrow(t, k)

LEMMA SamePlace ==
    ASSUME TypeInv, NEW t \in Threads, NEW step, Goto(t, step), UNCHANGED job
    PROVE  /\ pc'[t] = step /\ Cls(t)' = Cls(t) /\ job'[t].phase = job[t].phase
           /\ \A k \in Classes :
                 /\ (pc[t] \in UpdateSteps <=> step \in UpdateSteps)
                       => (Refreshing(t, k)' <=> Refreshing(t, k))
                 /\ (pc[t] \in BorrowSteps \cup UpdateSteps
                       <=> step \in BorrowSteps \cup UpdateSteps)
                       => (RefreshingBorrow(t, k)' <=> RefreshingBorrow(t, k))
                 /\ job[t].phase = "class"
                       => (RefreshingBorrow(t, k)' <=> RefreshingBorrow(t, k))
<1>1. pc'[t] = step BY DEF Goto, TypeInv, TypeOK
<1>2. Cls(t)' = Cls(t) BY DEF Cls
<1> QED BY <1>1, <1>2 DEF Refreshing, RefreshingBorrow

LEMMA MeterSteps ==
    ASSUME TypeInv, NEW t \in Threads, Receive(t) \/ Schedule(t)
    PROVE  MeterQuiet(t) \/ ClassTestSet(t) \/ UpdateWrite(t)
<1>1. /\ m \in [Classes -> Meter] /\ pc \in [Threads -> Steps]
      /\ job \in [Threads -> Job]
  BY DEF TypeInv, TypeOK
<1>2. CASE UpdateTsc(t) \/ UpdateRead(t) \/ UpdateReadParent(t)
  <2>1. UNCHANGED <<m, job>> BY <1>2 DEF UpdateTsc, UpdateRead, UpdateReadParent
  <2>2. PICK step \in UpdateSteps : Goto(t, step)
    BY <1>2 DEF UpdateTsc, UpdateRead, UpdateReadParent, UpdateSteps
  <2>3. pc[t] \in UpdateSteps
    BY <1>2 DEF UpdateTsc, UpdateRead, UpdateReadParent, UpdateSteps
  <2> QED BY <2>1, <2>2, <2>3, SamePlace DEF MeterQuiet
<1>3. CASE BorrowRead(t)
  <2>1. pc[t] = "b_read" /\ UNCHANGED <<m, job>> BY <1>3 DEF BorrowRead
  <2>2. job'[t].phase = "borrow" /\ job[t].phase = "borrow"
    BY <2>1, ThreadFacts DEF BorrowOnly, BorrowSteps
  <2> QED BY <2>1, <2>2 DEF MeterQuiet, Refreshing
<1>4. CASE ClassMeter(t)
  <2>1. pc[t] = "meter" /\ pc'[t] = "count" BY <1>1, <1>4 DEF ClassMeter, Goto
  <2>2. \A k \in Classes : m'[k].high = m[k].high BY <1>1, <1>4 DEF ClassMeter, Meter
  <2> QED BY <2>1, <2>2 DEF MeterQuiet, Refreshing, UpdateSteps
<1>5. CASE CountBytes(t)
  <2>1. pc[t] = "count" /\ pc'[t] = "s_tsc" BY <1>1, <1>5 DEF CountBytes, Goto
  <2>2. \A k \in Classes : m'[k].high = m[k].high BY <1>1, <1>5 DEF CountBytes, Meter
  <2> QED BY <2>1, <2>2 DEF MeterQuiet, Refreshing, UpdateSteps
<1>6. CASE \/ Receive(t) \/ StatusWrite(t) \/ ForwardDirect(t)
           \/ TryBorrow(t) \/ SiblingDenied(t) \/ SiblingStatus(t) \/ DropPacket(t)
           \/ BorrowTestSet(t) \/ BorrowWrite(t) \/ BorrowForward(t) \/ BorrowRefused(t)
  <2>1. UNCHANGED m
    BY <1>6 DEF Receive, StatusWrite, ForwardDirect, TryBorrow, SiblingDenied,
       SiblingStatus, DropPacket, BorrowTestSet, BorrowWrite, BorrowForward, BorrowRefused
  <2>2. pc[t] \notin UpdateSteps
    BY <1>6 DEF Receive, StatusWrite, ForwardDirect, TryBorrow, SiblingDenied,
       SiblingStatus, DropPacket, BorrowTestSet, BorrowWrite, BorrowForward,
       BorrowRefused, UpdateSteps
  <2>3. pc'[t] \notin UpdateSteps
    BY <1>1, <1>6 DEF Receive, StatusWrite, ForwardDirect, TryBorrow, SiblingDenied,
       SiblingStatus, DropPacket, BorrowTestSet, BorrowWrite, BorrowForward,
       BorrowRefused, Finish, Goto, UpdateSteps
  <2> QED BY <2>1, <2>2, <2>3 DEF MeterQuiet, Refreshing
<1>7. CASE ReadTsc(t) \/ ReadPir(t) \/ ReadCur(t) \/ ReadLow(t)
  <2>1. UNCHANGED m BY <1>7 DEF ReadTsc, ReadPir, ReadCur, ReadLow
  <2>2. pc[t] \notin UpdateSteps
    BY <1>7 DEF ReadTsc, ReadPir, ReadCur, ReadLow, UpdateSteps
  <2>3. pc'[t] \notin UpdateSteps
    BY <1>1, <1>7 DEF ReadTsc, ReadPir, ReadCur, ReadLow, Goto, UpdateSteps
  <2> QED BY <2>1, <2>2, <2>3 DEF MeterQuiet, Refreshing
<1> QED BY <1>2, <1>3, <1>4, <1>5, <1>6, <1>7 DEF Schedule

LEMMA BorrowQuietSteps ==
    ASSUME TypeInv, NEW t \in Threads, Receive(t) \/ Schedule(t)
    PROVE  BorrowQuiet(t) \/ BorrowTestSet(t) \/ BorrowWrite(t)
<1>1. /\ b \in [Classes -> Borrow] /\ pc \in [Threads -> Steps]
      /\ job \in [Threads -> Job]
  BY DEF TypeInv, TypeOK
<1>2. CASE UpdateTsc(t) \/ UpdateRead(t) \/ UpdateReadParent(t)
  <2>1. UNCHANGED <<b, job>> BY <1>2 DEF UpdateTsc, UpdateRead, UpdateReadParent
  <2>2. PICK step \in UpdateSteps : Goto(t, step)
    BY <1>2 DEF UpdateTsc, UpdateRead, UpdateReadParent, UpdateSteps
  <2>3. pc[t] \in UpdateSteps
    BY <1>2 DEF UpdateTsc, UpdateRead, UpdateReadParent, UpdateSteps
  <2> QED BY <2>1, <2>2, <2>3, SamePlace DEF BorrowQuiet
<1>3. CASE UpdateWrite(t)
  <2>1. pc[t] = "u_write" /\ UpdateDone(t)
    BY <1>3 DEF UpdateWrite, UpdateNoChange, UpdateReset, UpdateCredit
  <2>2. UNCHANGED <<b, job>> BY <2>1 DEF UpdateDone
  <2>3. CASE job[t].phase = "class"
    <3>1. Goto(t, "meter") BY <2>1, <2>3 DEF UpdateDone
    <3> QED BY <2>2, <2>3, <3>1, SamePlace DEF BorrowQuiet
  <2>4. CASE job[t].phase # "class"
    <3>1. Goto(t, "b_write") BY <2>1, <2>4 DEF UpdateDone
    <3> QED BY <2>1, <2>2, <3>1, SamePlace DEF BorrowQuiet, BorrowSteps, UpdateSteps
  <2> QED BY <2>3, <2>4
<1>4. CASE BorrowRead(t)
  <2>1. pc[t] = "b_read" /\ UNCHANGED <<b, job>> BY <1>4 DEF BorrowRead
  <2>2. PICK step \in {"u_tsc", "b_write"} : Goto(t, step) BY <1>4 DEF BorrowRead
  <2> QED BY <2>1, <2>2, SamePlace DEF BorrowQuiet, BorrowSteps, UpdateSteps
<1>5. CASE ClassTestSet(t)
  <2>1. pc[t] = "class" /\ UNCHANGED <<b, job>> BY <1>5 DEF ClassTestSet
  <2>2. job[t].phase = "class" BY <2>1, ThreadFacts DEF ClassOnly
  <2> QED BY <2>1, <2>2 DEF BorrowQuiet, RefreshingBorrow
<1>6. CASE BorrowForward(t)
  <2>1. pc[t] = "b_meter" /\ pc'[t] = "idle"
    BY <1>1, <1>6 DEF BorrowForward, Finish, Goto
  <2>2. \A k \in Classes : b'[k].high = b[k].high BY <1>1, <1>6 DEF BorrowForward, Borrow
  <2> QED BY <2>1, <2>2 DEF BorrowQuiet, RefreshingBorrow, BorrowSteps, UpdateSteps
<1>7. CASE \/ Receive(t) \/ ClassMeter(t) \/ CountBytes(t) \/ StatusWrite(t)
           \/ ForwardDirect(t) \/ TryBorrow(t) \/ SiblingDenied(t) \/ SiblingStatus(t)
           \/ DropPacket(t) \/ BorrowRefused(t)
  <2>1. UNCHANGED b
    BY <1>7 DEF Receive, ClassMeter, CountBytes, StatusWrite, ForwardDirect, TryBorrow,
       SiblingDenied, SiblingStatus, DropPacket, BorrowRefused
  <2>2. pc[t] \notin BorrowSteps \cup UpdateSteps
    BY <1>7 DEF Receive, ClassMeter, CountBytes, StatusWrite, ForwardDirect, TryBorrow,
       SiblingDenied, SiblingStatus, DropPacket, BorrowRefused, BorrowSteps, UpdateSteps
  <2>3. pc'[t] \notin BorrowSteps \cup UpdateSteps
    BY <1>1, <1>7 DEF Receive, ClassMeter, CountBytes, StatusWrite, ForwardDirect,
       TryBorrow, SiblingDenied, SiblingStatus, DropPacket, BorrowRefused,
       Finish, Goto, BorrowSteps, UpdateSteps
  <2> QED BY <2>1, <2>2, <2>3 DEF BorrowQuiet, RefreshingBorrow
<1>8. CASE ReadTsc(t) \/ ReadPir(t) \/ ReadCur(t) \/ ReadLow(t)
  <2>1. UNCHANGED <<b, job>> BY <1>8 DEF ReadTsc, ReadPir, ReadCur, ReadLow
  <2>2. pc'[t] \in BorrowSteps \cup UpdateSteps <=> pc[t] \in BorrowSteps \cup UpdateSteps
    <3>1. CASE ReadTsc(t)
      BY <1>1, <3>1 DEF ReadTsc, Goto, BorrowSteps, UpdateSteps
    <3>2. CASE ReadPir(t)
      BY <1>1, <3>2 DEF ReadPir, Goto, BorrowSteps, UpdateSteps
    <3>3. CASE ReadCur(t)
      BY <1>1, <3>3 DEF ReadCur, Goto, BorrowSteps, UpdateSteps
    <3>4. CASE ReadLow(t)
      BY <1>1, <3>4 DEF ReadLow, Goto, BorrowSteps, UpdateSteps
    <3> QED BY <1>8, <3>1, <3>2, <3>3, <3>4
  <2>3. Cls(t)' = Cls(t) BY <2>1 DEF Cls
  <2> QED BY <2>1, <2>2, <2>3 DEF BorrowQuiet, RefreshingBorrow
<1> QED BY <1>2, <1>3, <1>4, <1>5, <1>6, <1>7, <1>8 DEF Schedule

-----------------------------------------------------------------------------
(* What a step of t does to the lock bit of meter k: nothing, or t finds   *)
(* it or sets it, or t clears it at the end of a refresh.                  *)
LEMMA MeterLockSteps ==
    ASSUME TypeInv, NEW t \in Threads, Receive(t) \/ Schedule(t), NEW k \in Classes
    PROVE  \/ m'[k].high = m[k].high /\ (Refreshing(t, k)' <=> Refreshing(t, k))
           \/ /\ Locked(m'[k].high) /\ ~Refreshing(t, k)
              /\ Refreshing(t, k)' <=> ~Locked(m[k].high)
           \/ /\ ~Locked(m'[k].high) /\ ~Refreshing(t, k)'
              /\ Refreshing(t, k) \/ RefreshingBorrow(t, k)
<1>1. /\ m \in [Classes -> Meter] /\ pc \in [Threads -> Steps] /\ up \in [Threads -> Update]
  BY DEF TypeInv, TypeOK
<1>2. CASE ClassTestSet(t)
  <2>1. pc[t] = "class" /\ UNCHANGED job BY <1>2 DEF ClassTestSet
  <2>2. job[t].phase = "class" BY <2>1, ThreadFacts DEF ClassOnly
  <2>3. Cls(t) \in Classes
    <3>1. TypeInv' BY TypeNext DEF Next
    <3>2. PICK step \in {"meter", "u_tsc"} : Goto(t, step) BY <1>2 DEF ClassTestSet
    <3>3. pc'[t] = step /\ Cls(t)' = Cls(t) BY <2>1, <3>2, SamePlace
    <3> QED BY <3>1, <3>2, <3>3 DEF TypeInv, TypeOK, IndexOK
  <2>4. m[Cls(t)].high \in Words BY <1>1, <2>3 DEF Meter
  <2>5. m'[k].high = IF k = Cls(t) THEN TestSet(m[k].high) ELSE m[k].high
    BY <1>1, <1>2, <2>3 DEF ClassTestSet, Meter
  <2>6. k = Cls(t) => Locked(m'[k].high) BY <2>3, <2>4, <2>5, TestSetWord
  <2>7. Cls(t)' = Cls(t) BY <2>1 DEF Cls
  <2>8. pc'[t] = IF Locked(m[Cls(t)].high) THEN "meter" ELSE "u_tsc"
    BY <1>1, <1>2 DEF ClassTestSet, Goto
  <2> QED BY <2>1, <2>2, <2>3, <2>5, <2>6, <2>7, <2>8 DEF Refreshing, UpdateSteps
<1>3. CASE UpdateWrite(t)
  <2>1. pc[t] = "u_write" /\ UpdateDone(t)
    BY <1>3 DEF UpdateWrite, UpdateNoChange, UpdateReset, UpdateCredit
  <2>2. Cls(t) \in Classes /\ job[t].phase \in {"class", "borrow"} BY <2>1, ThreadFacts
  <2>3. up[t].ctime.up < LockBit BY <1>1, WordFacts DEF Update, Time
  <2>4. m'[k].high = IF k = Cls(t) THEN up[t].ctime.up ELSE m[k].high
    BY <1>1, <1>3, <2>2 DEF UpdateWrite, UpdateNoChange, UpdateReset, UpdateCredit, Meter
  <2>5. up[t].ctime.up \in Nat BY <1>1, WordFacts DEF Update, Time
  <2>6. k = Cls(t) => ~Locked(m'[k].high) BY <2>2, <2>3, <2>4, <2>5, WordFacts DEF Locked
  <2>7. UNCHANGED job /\ pc'[t] \in {"meter", "b_write"}
    BY <1>1, <2>1 DEF UpdateDone, Goto
  <2>8. ~Refreshing(t, k)' BY <2>7 DEF Refreshing, UpdateSteps
  <2>9. Refreshing(t, Cls(t)) \/ RefreshingBorrow(t, Cls(t))
    BY <2>1, <2>2 DEF Refreshing, RefreshingBorrow, UpdateSteps
  <2>10. k # Cls(t) => ~Refreshing(t, k) BY DEF Refreshing
  <2> QED BY <2>2, <2>4, <2>6, <2>8, <2>9, <2>10
<1> QED BY <1>2, <1>3, MeterSteps DEF MeterQuiet

(* The same for the lock bit of borrow bucket k. *)
LEMMA BorrowLockSteps ==
    ASSUME TypeInv, NEW t \in Threads, Receive(t) \/ Schedule(t), NEW k \in Classes
    PROVE  \/ b'[k].high = b[k].high /\ (RefreshingBorrow(t, k)' <=> RefreshingBorrow(t, k))
           \/ /\ Locked(b'[k].high) /\ ~RefreshingBorrow(t, k)
              /\ RefreshingBorrow(t, k)' <=> ~Locked(b[k].high)
           \/ /\ ~Locked(b'[k].high) /\ ~RefreshingBorrow(t, k)'
              /\ RefreshingBorrow(t, k)
<1>1. b \in [Classes -> Borrow] /\ pc \in [Threads -> Steps] BY DEF TypeInv, TypeOK
<1>2. CASE BorrowTestSet(t)
  <2>1. pc[t] = "b_testset" /\ UNCHANGED job BY <1>2 DEF BorrowTestSet
  <2>2. Cls(t) \in Classes /\ job[t].phase = "borrow" BY <2>1, ThreadFacts DEF BorrowOnly
  <2>3. b[Cls(t)].high \in Words BY <1>1, <2>2 DEF Borrow
  <2>4. b'[k].high = IF k = Cls(t) THEN TestSet(b[k].high) ELSE b[k].high
    BY <1>1, <1>2, <2>2 DEF BorrowTestSet, Borrow
  <2>5. k = Cls(t) => Locked(b'[k].high) BY <2>2, <2>3, <2>4, TestSetWord
  <2>6. Cls(t)' = Cls(t) BY <2>1 DEF Cls
  <2>7. pc'[t] = IF Locked(b[Cls(t)].high) THEN "b_meter" ELSE "b_tsc"
    BY <1>1, <1>2 DEF BorrowTestSet, Goto
  <2> QED BY <2>1, <2>2, <2>4, <2>5, <2>6, <2>7 DEF RefreshingBorrow, UpdateSteps, BorrowSteps
<1>3. CASE BorrowWrite(t)
  <2> DEFINE br == rd[t].b
             pir == BorrowRate(rd[t].pir, rd[t].cur, rd[t].low, rd[t].ctime.low,
                               Upper(br.high))
  <2>1. pc[t] = "b_write" /\ Goto(t, "b_meter") /\ UNCHANGED job BY <1>3 DEF BorrowWrite
  <2>2. Cls(t) \in Classes /\ job[t].phase = "borrow"
    BY <2>1, ThreadFacts DEF BorrowOnly, BorrowSteps
  <2>3. /\ rd[t].ctime.low \in Words /\ rd[t].pir \in Words
        /\ rd[t].cur \in Words /\ rd[t].low \in Words /\ br.high \in Words
    BY DEF TypeInv, TypeOK, Reads, Borrow, Time
  <2>4. Upper(br.high) \in Words BY <2>3, UpperWord, WordFacts DEF Words
  <2>5. ~Locked(pir) BY <2>3, <2>4, BorrowRateWord
  <2>6. b'[k].high = IF k = Cls(t) THEN pir ELSE b[k].high
    BY <1>1, <1>3, <2>2 DEF BorrowWrite, Borrow
  <2>7. pc'[t] = "b_meter" BY <1>1, <2>1 DEF Goto
  <2> HIDE DEF pir, br
  <2>8. k = Cls(t) => ~Locked(b'[k].high) BY <2>2, <2>5, <2>6
  <2>9. ~RefreshingBorrow(t, k)'
    BY <2>7 DEF RefreshingBorrow, BorrowSteps, UpdateSteps
  <2>10. RefreshingBorrow(t, k) <=> k = Cls(t)
    BY <2>1, <2>2 DEF RefreshingBorrow, BorrowSteps
  <2> QED BY <2>2, <2>6, <2>8, <2>9, <2>10
<1> QED BY <1>2, <1>3, BorrowQuietSteps DEF BorrowQuiet

(* Neither kind of refresh by another thread is touched. *)
LEMMA OtherRefreshes ==
    ASSUME TypeInv, NEW t \in Threads, Receive(t) \/ Schedule(t),
           NEW u \in Threads, u # t, NEW k \in Classes
    PROVE  /\ Refreshing(u, k)' <=> Refreshing(u, k)
           /\ RefreshingBorrow(u, k)' <=> RefreshingBorrow(u, k)
BY OtherThreads DEF Refreshing, RefreshingBorrow

LEMMA ClockSteps ==
    ASSUME Tick \/ UNCHANGED vars
    PROVE  /\ UNCHANGED <<m, b, s, left, pc, job, up, rd>>
           /\ \A t \in Threads, k \in Classes :
                 /\ Refreshing(t, k)' <=> Refreshing(t, k)
                 /\ RefreshingBorrow(t, k)' <=> RefreshingBorrow(t, k)
BY DEF Tick, vars, Refreshing, RefreshingBorrow, Cls

-----------------------------------------------------------------------------
LEMMA InitUnlocked ==
    ASSUME Init
    PROVE  /\ \A k \in Classes : ~Locked(m[k].high) /\ ~Locked(b[k].high)
           /\ \A t \in Threads, k \in Classes :
                 ~Refreshing(t, k) /\ ~RefreshingBorrow(t, k)
BY WordFacts DEF Init, Locked, Refreshing, RefreshingBorrow, UpdateSteps, BorrowSteps

LEMMA LockNext == TypeInv /\ LockHasOwner /\ [Next]_vars => LockHasOwner'
<1> SUFFICES ASSUME TypeInv, LockHasOwner, [Next]_vars PROVE LockHasOwner'
  OBVIOUS
<1>1. CASE Tick \/ UNCHANGED vars BY <1>1, ClockSteps DEF LockHasOwner
<1>2. ASSUME NEW t \in Threads, Receive(t) \/ Schedule(t) PROVE LockHasOwner'
  <2>1. ASSUME NEW k \in Classes, Locked(m'[k].high)
        PROVE  \E u \in Threads : Refreshing(u, k)'
    <3>1. CASE Locked(m[k].high)
      <4>1. PICK u \in Threads : Refreshing(u, k) BY <3>1 DEF LockHasOwner
      <4>2. CASE u # t BY <1>2, <4>1, <4>2, OtherRefreshes
      <4>3. CASE u = t
        <5>1. Refreshing(t, k)'
          BY <1>2, <2>1, <4>1, <4>3, MeterLockSteps
        <5> QED BY <5>1
      <4> QED BY <4>2, <4>3
    <3>2. CASE ~Locked(m[k].high)
      <4>1. Refreshing(t, k)' BY <1>2, <2>1, <3>2, MeterLockSteps
      <4> QED BY <4>1
    <3> QED BY <3>1, <3>2
  <2>2. ASSUME NEW k \in Classes, Locked(b'[k].high)
        PROVE  \E u \in Threads : RefreshingBorrow(u, k)'
    <3>1. CASE Locked(b[k].high)
      <4>1. PICK u \in Threads : RefreshingBorrow(u, k) BY <3>1 DEF LockHasOwner
      <4>2. CASE u # t BY <1>2, <4>1, <4>2, OtherRefreshes
      <4>3. CASE u = t
        <5>1. RefreshingBorrow(t, k)'
          BY <1>2, <2>2, <4>1, <4>3, BorrowLockSteps
        <5> QED BY <5>1
      <4> QED BY <4>2, <4>3
    <3>2. CASE ~Locked(b[k].high)
      <4>1. RefreshingBorrow(t, k)' BY <1>2, <2>2, <3>2, BorrowLockSteps
      <4> QED BY <4>1
    <3> QED BY <3>1, <3>2
  <2> QED BY <2>1, <2>2 DEF LockHasOwner
<1> QED BY <1>1, <1>2 DEF Next

(* No interleaving leaves a meter or a borrow bucket locked with nobody    *)
(* refreshing it: the lock bits that __fv_class_execute and                *)
(* fv_borrow_execute set are always cleared again.                         *)
THEOREM LockTheorem == Spec => []LockHasOwner
<1>1. Init => LockHasOwner BY InitUnlocked DEF LockHasOwner
<1> QED BY <1>1, LockNext, TypeInvariant, PTL DEF Spec

-----------------------------------------------------------------------------
(* A borrow bucket under refresh is locked, which keeps the others out. *)
BorrowLocked ==
    \A k \in Classes, t \in Threads : RefreshingBorrow(t, k) => Locked(b[k].high)
BorrowInv == BorrowLocked /\ BorrowMutex

LEMMA BorrowMutexNext == TypeInv /\ BorrowInv /\ [Next]_vars => BorrowInv'
<1> SUFFICES ASSUME TypeInv, BorrowInv, [Next]_vars PROVE BorrowInv'
  OBVIOUS
<1>1. CASE Tick \/ UNCHANGED vars
  BY <1>1, ClockSteps DEF BorrowInv, BorrowLocked, BorrowMutex
<1>2. ASSUME NEW t \in Threads, Receive(t) \/ Schedule(t) PROVE BorrowInv'
  <2>1. ASSUME NEW k \in Classes, NEW u \in Threads, RefreshingBorrow(u, k)'
        PROVE  Locked(b'[k].high)
    BY <1>2, <2>1, BorrowLockSteps, OtherRefreshes
    DEF BorrowInv, BorrowLocked, BorrowMutex
  <2>2. ASSUME NEW k \in Classes, NEW u \in Threads, NEW w \in Threads,
               RefreshingBorrow(u, k)', RefreshingBorrow(w, k)'
        PROVE  u = w
    BY <1>2, <2>2, BorrowLockSteps, OtherRefreshes
    DEF BorrowInv, BorrowLocked, BorrowMutex
  <2> QED BY <2>1, <2>2 DEF BorrowInv, BorrowLocked, BorrowMutex
<1> QED BY <1>1, <1>2 DEF Next

(* At most one thread is inside update_fv_borrow for a class, whatever the *)
(* nested updates do to the lock bit of the class's meter.                 *)
THEOREM BorrowMutexTheorem == Spec => []BorrowMutex
<1>1. Init => BorrowInv BY InitUnlocked DEF BorrowInv, BorrowLocked, BorrowMutex
<1>2. BorrowInv => BorrowMutex BY DEF BorrowInv
<1> QED BY <1>1, <1>2, BorrowMutexNext, TypeInvariant, PTL DEF Spec

-----------------------------------------------------------------------------
(* Where nobody borrows, a thread in the borrow loop finds no sibling, and *)
(* a meter under refresh is locked.                                        *)
OnlyClassLoop ==
    \A t \in Threads : job[t].phase = "borrow" => pc[t] = "sibling"
MeterLocked ==
    \A k \in Classes, t \in Threads : Refreshing(t, k) => Locked(m[k].high)
MeterInv == OnlyClassLoop /\ MeterLocked /\ MeterMutex

LEMMA OnlyClassNext ==
    ASSUME NoBorrowing, TypeInv, OnlyClassLoop, [Next]_vars PROVE OnlyClassLoop'
<1>0. pc \in [Threads -> Steps] /\ job \in [Threads -> Job] BY DEF TypeInv, TypeOK
<1>1. CASE Tick \/ UNCHANGED vars BY <1>1, ClockSteps DEF OnlyClassLoop
<1>2. ASSUME NEW t \in Threads, Receive(t) \/ Schedule(t) PROVE OnlyClassLoop'
  <2>1. \A u \in Threads : u # t => pc'[u] = pc[u] /\ job'[u] = job[u]
    BY <1>2, OtherThreads
  <2>2. TypeInv' BY <1>2, TypeNext DEF Next
  <2>3. job'[t].phase = "borrow" => pc'[t] = "sibling"
    <3>1. CASE pc[t] = "sibling"
      <4>1. job[t].flow.subNum = 0 /\ job[t].i \in Nat
        BY ThreadFacts DEF NoBorrowing
      <4>2. DropPacket(t)
        BY <1>2, <3>1, <4>1 DEF Receive, Schedule, ClassTestSet, ClassMeter, CountBytes,
           UpdateTsc, UpdateRead, UpdateReadParent, UpdateWrite, UpdateNoChange,
           UpdateReset, UpdateCredit, ReadTsc, ReadPir, ReadCur, ReadLow, StatusWrite,
           ForwardDirect, TryBorrow, SiblingDenied, SiblingStatus, BorrowTestSet,
           BorrowRead, BorrowWrite, BorrowForward, BorrowRefused
      <4> QED BY <1>0, <4>2 DEF DropPacket, Finish, NoJob
    <3>2. CASE pc[t] # "sibling"
      <4>1. job[t].phase # "borrow" BY <3>2 DEF OnlyClassLoop
      <4>2. CASE TryBorrow(t) BY <1>0, <4>2 DEF TryBorrow, Goto
      <4>3. CASE ~TryBorrow(t)
        <5>1. CASE \/ ClassTestSet(t) \/ CountBytes(t) \/ UpdateTsc(t) \/ UpdateRead(t)
                   \/ UpdateReadParent(t) \/ UpdateWrite(t)
                   \/ ReadTsc(t) \/ ReadPir(t) \/ ReadCur(t) \/ ReadLow(t)
                   \/ SiblingStatus(t) \/ BorrowTestSet(t) \/ BorrowRead(t)
                   \/ BorrowWrite(t) \/ BorrowRefused(t)
          <6>1. UNCHANGED job
            BY <5>1 DEF ClassTestSet, CountBytes, UpdateTsc, UpdateRead,
               UpdateReadParent, UpdateWrite, UpdateNoChange, UpdateReset, UpdateCredit,
               UpdateDone, ReadTsc, ReadPir, ReadCur, ReadLow, SiblingStatus,
               BorrowTestSet, BorrowRead, BorrowWrite, BorrowRefused
          <6> QED BY <4>1, <6>1
        <5>2. CASE ClassMeter(t) \/ StatusWrite(t) \/ SiblingDenied(t)
          <6>1. job'[t].phase = job[t].phase
            BY <1>0, <5>2 DEF ClassMeter, StatusWrite, SiblingDenied, Job
          <6> QED BY <4>1, <6>1
        <5>3. CASE Receive(t) \/ ForwardDirect(t) \/ DropPacket(t) \/ BorrowForward(t)
          <6>1. job'[t].phase = "class"
            BY <1>0, <5>3 DEF Receive, ForwardDirect, DropPacket, BorrowForward, Finish, NoJob
          <6> QED BY <6>1
        <5> QED BY <1>2, <4>3, <5>1, <5>2, <5>3 DEF Schedule
      <4> QED BY <4>2, <4>3
    <3> QED BY <3>1, <3>2
  <2> QED BY <2>1, <2>3 DEF OnlyClassLoop
<1> QED BY <1>1, <1>2 DEF Next

LEMMA MeterMutexNext ==
    ASSUME NoBorrowing PROVE TypeInv /\ MeterInv /\ [Next]_vars => MeterInv'
<1> SUFFICES ASSUME TypeInv, MeterInv, [Next]_vars PROVE MeterInv'
  OBVIOUS
<1>0. OnlyClassLoop' BY OnlyClassNext DEF MeterInv
<1>1. CASE Tick \/ UNCHANGED vars
  BY <1>0, <1>1, ClockSteps DEF MeterInv, MeterLocked, MeterMutex
<1>2. ASSUME NEW t \in Threads, Receive(t) \/ Schedule(t) PROVE MeterInv'
  <2>1. \A k \in Classes : ~RefreshingBorrow(t, k)
    BY DEF MeterInv, OnlyClassLoop, RefreshingBorrow, BorrowSteps, UpdateSteps
  <2>2. ASSUME NEW k \in Classes, NEW u \in Threads, Refreshing(u, k)'
        PROVE  Locked(m'[k].high)
    <3>1. CASE u = t
      BY <1>2, <2>1, <2>2, <3>1, MeterLockSteps
      DEF MeterInv, MeterLocked
    <3>2. CASE u # t
      <4>1. Refreshing(u, k) /\ Locked(m[k].high)
        BY <1>2, <2>2, <3>2, OtherRefreshes DEF MeterInv, MeterLocked
      <4>2. ~Refreshing(t, k) BY <3>2, <4>1 DEF MeterInv, MeterMutex
      <4> QED BY <1>2, <2>1, <4>1, <4>2, MeterLockSteps
    <3> QED BY <3>1, <3>2
  <2>3. ASSUME NEW k \in Classes, NEW u \in Threads,
               Refreshing(u, k)', Refreshing(t, k)', u # t
        PROVE  FALSE
    <3>1. Refreshing(u, k) /\ Locked(m[k].high)
      BY <1>2, <2>3, OtherRefreshes DEF MeterInv, MeterLocked
    <3>2. ~Refreshing(t, k) BY <2>3, <3>1 DEF MeterInv, MeterMutex
    <3> QED BY <1>2, <2>3, <3>1, <3>2, MeterLockSteps
  <2>4. ASSUME NEW k \in Classes, NEW u \in Threads, NEW w \in Threads,
               Refreshing(u, k)', Refreshing(w, k)', u # t, w # t
        PROVE  u = w
    BY <1>2, <2>4, OtherRefreshes DEF MeterInv, MeterMutex
  <2> QED BY <1>0, <2>2, <2>3, <2>4 DEF MeterInv, MeterLocked, MeterMutex
<1> QED BY <1>1, <1>2 DEF Next

(* At most one thread is inside update_fv_class for a class, if no flow    *)
(* may borrow; with borrowing the call at flowvalve.c:225 breaks it.       *)
THEOREM MeterMutexTheorem == NoBorrowing /\ Spec => []MeterMutex
<1> SUFFICES ASSUME NoBorrowing PROVE Spec => []MeterMutex OBVIOUS
<1>1. Init => MeterInv
  BY InitUnlocked DEF MeterInv, OnlyClassLoop, MeterLocked, MeterMutex, Init, NoJob
<1>2. MeterInv => MeterMutex BY DEF MeterInv
<1> QED BY <1>1, <1>2, MeterMutexNext, TypeInvariant, PTL DEF Spec

-----------------------------------------------------------------------------
(* Proofs about the tokens in the meters and in the borrow buckets.        *)

(* The burst size of a borrow bucket never changes, nor does the copy of   *)
(* it a thread holds while it refreshes the bucket.                        *)
PbsKept ==
    /\ \A k \in Classes : b[k].pbs = Conf[k].pbs
    /\ \A t \in Threads :
          \/ pc[t] = "b_write"
          \/ pc[t] \in UpdateSteps /\ job[t].phase = "borrow"
          => rd[t].b.pbs = Conf[Cls(t)].pbs

BoundInv == TypeInv /\ PbsKept /\ BucketBounded

(* A step takes tokens from a meter or refills it up to its burst size. *)
LEMMA MeterBucketSteps ==
    ASSUME TypeInv, NEW t \in Threads, Receive(t) \/ Schedule(t), NEW k \in Classes
    PROVE  m'[k].bucket <= m[k].bucket \/ m'[k].bucket <= Conf[k].pbs
<1>1. m \in [Classes -> Meter] /\ up \in [Threads -> Update] /\ m[k].bucket \in Words
  BY DEF TypeInv, TypeOK, Meter
<1>0. m[k].bucket <= m[k].bucket BY <1>1 DEF Words
<1>2. CASE ClassTestSet(t) BY <1>0, <1>1, <1>2 DEF ClassTestSet, Meter
<1>3. CASE ClassMeter(t)
  <2>1. pc[t] = "meter" BY <1>3 DEF ClassMeter
  <2>2. Cls(t) \in Classes /\ job[t].tlen \in Words BY <2>1, ThreadFacts
  <2>3. m[Cls(t)].bucket \in Words BY <1>1, <2>2 DEF Meter
  <2>4. Debit(m[Cls(t)].bucket, job[t].tlen) <= m[Cls(t)].bucket
    BY <2>2, <2>3, DebitWord
  <2> QED BY <1>0, <1>1, <1>3, <2>2, <2>4 DEF ClassMeter, Meter
<1>4. CASE CountBytes(t) BY <1>0, <1>1, <1>4 DEF CountBytes, Meter
<1>5. CASE UpdateNoChange(t) BY <1>0, <1>1, <1>5 DEF UpdateNoChange, Meter
<1>6. CASE UpdateReset(t)
  <2>1. Conf[k].pbs \in Words BY ConfigAssumption
  <2>2. m'[k].bucket = Conf[k].pbs \/ m'[k] = m[k]
    BY <1>1, <1>6 DEF UpdateReset, Meter
  <2> QED BY <1>0, <2>1, <2>2 DEF Words
<1>7. CASE UpdateCredit(t)
  <2> DEFINE td == TDelta(up[t].ctime.low, up[t].m.low)
             r == Refill(up[t].m.bucket, td, Rate(t), Conf[Cls(t)].pbs)
  <2>1. pc[t] = "u_write" BY <1>7 DEF UpdateCredit
  <2>2. Cls(t) \in Classes BY <2>1, ThreadFacts
  <2>3. up[t].m \in Meter /\ up[t].p \in Meter /\ up[t].ctime.low \in Words
    BY <1>1 DEF Update, Time
  <2>4. Rate(t) \in Words BY <2>2, <2>3, ConfigAssumption, ClassRateWord DEF Rate, Meter
  <2>5. td \in Words BY <2>3, TDeltaWord DEF Meter
  <2>6. r <= Conf[Cls(t)].pbs
    BY <2>2, <2>3, <2>4, <2>5, ConfigAssumption, RefillAtMost DEF Meter
  <2>7. (k = Cls(t) /\ m'[k].bucket = r) \/ m'[k] = m[k]
    BY <1>1, <1>7 DEF UpdateCredit, Meter
  <2> QED BY <1>0, <2>6, <2>7
<1>8. CASE UNCHANGED m BY <1>0, <1>8
<1> QED
  BY <1>2, <1>3, <1>4, <1>5, <1>6, <1>7, <1>8
  DEF Receive, Schedule, UpdateTsc, UpdateRead, UpdateReadParent, UpdateWrite, ReadTsc,
      ReadPir, ReadCur, ReadLow, StatusWrite, ForwardDirect, TryBorrow, SiblingDenied,
      SiblingStatus, DropPacket, BorrowTestSet, BorrowRead, BorrowWrite, BorrowForward,
      BorrowRefused

(* The same for the borrow buckets. *)
LEMMA BorrowBucketSteps ==
    ASSUME TypeInv, PbsKept, NEW t \in Threads, Receive(t) \/ Schedule(t), NEW k \in Classes
    PROVE  /\ b'[k].pbs = Conf[k].pbs
           /\ b'[k].bucket <= b[k].bucket \/ b'[k].bucket <= Conf[k].pbs
<1>1. /\ b \in [Classes -> Borrow] /\ rd \in [Threads -> Reads]
      /\ b[k].bucket \in Words /\ b[k].pbs = Conf[k].pbs
  BY DEF TypeInv, TypeOK, Borrow, PbsKept
<1>0. b[k].bucket <= b[k].bucket BY <1>1 DEF Words
<1>2. CASE BorrowTestSet(t) BY <1>0, <1>1, <1>2 DEF BorrowTestSet, Borrow
<1>3. CASE BorrowForward(t)
  <2>1. pc[t] = "b_meter" BY <1>3 DEF BorrowForward
  <2>2. Cls(t) \in Classes /\ job[t].tlen \in Words BY <2>1, ThreadFacts
  <2>3. b[Cls(t)].bucket \in Words BY <1>1, <2>2 DEF Borrow
  <2>4. Debit(b[Cls(t)].bucket, job[t].tlen) <= b[Cls(t)].bucket
    BY <2>2, <2>3, DebitWord
  <2> QED BY <1>0, <1>1, <1>3, <2>2, <2>4 DEF BorrowForward, Borrow
<1>4. CASE BorrowWrite(t)
  <2> DEFINE br == rd[t].b
             pir == BorrowRate(rd[t].pir, rd[t].cur, rd[t].low, rd[t].ctime.low,
                               Upper(br.high))
             td == TDelta(rd[t].ctime.low, br.low)
             r == Refill(br.bucket, td, pir, br.pbs)
  <2>1. pc[t] = "b_write" BY <1>4 DEF BorrowWrite
  <2>2. Cls(t) \in Classes /\ br.pbs = Conf[Cls(t)].pbs
    BY <2>1, ThreadFacts DEF PbsKept
  <2>3. /\ rd[t].ctime.low \in Words /\ rd[t].pir \in Words /\ rd[t].cur \in Words
        /\ rd[t].low \in Words /\ br \in Borrow
    BY <1>1 DEF Reads, Time
  <2>4. br.bucket \in Words /\ br.high \in Words /\ br.low \in Words /\ br.pbs \in Words
    BY <2>3 DEF Borrow
  <2>5. Upper(br.high) \in Words BY <2>4, UpperWord, WordFacts DEF Words
  <2>6. pir \in Words BY <2>3, <2>5, BorrowRateWord
  <2>7. td \in Words BY <2>3, <2>4, TDeltaWord
  <2>8. r <= br.pbs BY <2>4, <2>6, <2>7, RefillAtMost
  <2>9. b' = IF rd[t].ctime.low = br.low
             THEN [b EXCEPT ![Cls(t)].high = pir]
             ELSE [b EXCEPT ![Cls(t)] =
                      [bucket |-> r, high |-> pir, low |-> rd[t].ctime.low,
                       pbs |-> br.pbs]]
    BY <1>4 DEF BorrowWrite
  <2> HIDE DEF pir, br, r
  <2> QED BY <1>0, <1>1, <2>2, <2>8, <2>9 DEF Borrow
<1>5. CASE UNCHANGED b BY <1>0, <1>1, <1>5
<1> QED
  BY <1>2, <1>3, <1>4, <1>5
  DEF Receive, Schedule, ClassTestSet, ClassMeter, CountBytes, UpdateTsc, UpdateRead,
      UpdateReadParent, UpdateWrite, UpdateNoChange, UpdateReset, UpdateCredit, UpdateDone,
      ReadTsc, ReadPir, ReadCur, ReadLow, StatusWrite, ForwardDirect, TryBorrow,
      SiblingDenied, SiblingStatus, DropPacket, BorrowRead, BorrowRefused

LEMMA PbsCopySteps ==
    ASSUME TypeInv, PbsKept, NEW t \in Threads, Receive(t) \/ Schedule(t),
           \/ pc'[t] = "b_write"
           \/ pc'[t] \in UpdateSteps /\ job'[t].phase = "borrow"
    PROVE  rd'[t].b.pbs = Conf[Cls(t)'].pbs
<1>1. /\ b \in [Classes -> Borrow] /\ rd \in [Threads -> Reads]
      /\ pc \in [Threads -> Steps] /\ job \in [Threads -> Job]
  BY DEF TypeInv, TypeOK
<1>2. CASE BorrowRead(t)
  <2>1. pc[t] = "b_read" BY <1>2 DEF BorrowRead
  <2>2. Cls(t) \in Classes BY <2>1, ThreadFacts
  <2>3. Cls(t)' = Cls(t) BY <1>2 DEF BorrowRead, Cls
  <2>4. rd'[t].b = b[Cls(t)] BY <1>1, <1>2 DEF BorrowRead, Reads
  <2> QED BY <2>2, <2>3, <2>4 DEF PbsKept
<1>3. CASE UpdateTsc(t) \/ UpdateRead(t) \/ UpdateReadParent(t) \/ UpdateWrite(t)
  <2>1. UNCHANGED <<job, rd>>
    BY <1>3 DEF UpdateTsc, UpdateRead, UpdateReadParent, UpdateWrite, UpdateNoChange,
       UpdateReset, UpdateCredit, UpdateDone
  <2>2. pc[t] \in UpdateSteps
    BY <1>3 DEF UpdateTsc, UpdateRead, UpdateReadParent, UpdateWrite, UpdateNoChange,
       UpdateReset, UpdateCredit, UpdateSteps
  <2>3. job[t].phase = "borrow"
    <3>1. CASE pc'[t] = "b_write"
      <4>1. TypeInv' BY TypeNext DEF Next
      <4>2. job'[t].phase = "borrow"
        BY <4>1, <3>1 DEF TypeInv, PhaseOK, BorrowOnly, BorrowSteps
      <4> QED BY <2>1, <4>2
    <3>2. CASE pc'[t] # "b_write" BY <2>1, <3>2
    <3> QED BY <3>1, <3>2
  <2>4. Cls(t)' = Cls(t) BY <2>1 DEF Cls
  <2> QED BY <2>1, <2>2, <2>3, <2>4 DEF PbsKept
<1>4. CASE ClassTestSet(t)
  <2>1. pc[t] = "class" /\ pc'[t] \in {"meter", "u_tsc"} /\ UNCHANGED job
    BY <1>1, <1>4 DEF ClassTestSet, Goto
  <2>2. job[t].phase = "class" BY <2>1, ThreadFacts DEF ClassOnly
  <2> QED BY <2>1, <2>2
<1>5. CASE \/ Receive(t) \/ ClassMeter(t) \/ CountBytes(t) \/ StatusWrite(t)
           \/ ForwardDirect(t) \/ TryBorrow(t) \/ SiblingDenied(t) \/ SiblingStatus(t)
           \/ DropPacket(t) \/ BorrowTestSet(t) \/ BorrowWrite(t) \/ BorrowForward(t)
           \/ BorrowRefused(t)
  <2>1. pc'[t] # "b_write" /\ pc'[t] \notin UpdateSteps
    BY <1>1, <1>5 DEF Receive, ClassMeter, CountBytes, StatusWrite, ForwardDirect,
       TryBorrow, SiblingDenied, SiblingStatus, DropPacket, BorrowTestSet, BorrowWrite,
       BorrowForward, BorrowRefused, Finish, Goto, UpdateSteps
  <2> QED BY <2>1
<1>6. CASE ReadTsc(t) \/ ReadPir(t) \/ ReadCur(t) \/ ReadLow(t)
  <2>1. pc'[t] # "b_write" /\ pc'[t] \notin UpdateSteps
    BY <1>1, <1>6 DEF ReadTsc, ReadPir, ReadCur, ReadLow, Goto, UpdateSteps
  <2> QED BY <2>1
<1> QED BY <1>2, <1>3, <1>4, <1>5, <1>6 DEF Schedule

LEMMA BoundNext == BoundInv /\ [Next]_vars => BoundInv'
<1> SUFFICES ASSUME BoundInv, [Next]_vars PROVE BoundInv'
  OBVIOUS
<1>0. TypeInv /\ PbsKept /\ BucketBounded /\ TypeInv' BY TypeNext DEF BoundInv
<1>1. CASE Tick \/ UNCHANGED vars
  <2>1. UNCHANGED <<m, b, pc, job, rd>> /\ (\A t \in Threads : Cls(t)' = Cls(t))
    BY <1>1 DEF Tick, vars, Cls
  <2> QED BY <1>0, <2>1 DEF BoundInv, PbsKept, BucketBounded
<1>2. ASSUME NEW t \in Threads, Receive(t) \/ Schedule(t) PROVE BoundInv'
  <2>1. ASSUME NEW k \in Classes
        PROVE  /\ m'[k].bucket <= Conf[k].pbs /\ b'[k].bucket <= Conf[k].pbs
               /\ b'[k].pbs = Conf[k].pbs
    <3>1. /\ m[k].bucket \in Words /\ b[k].bucket \in Words
          /\ m'[k].bucket \in Words /\ b'[k].bucket \in Words /\ Conf[k].pbs \in Words
      BY <1>0, ConfigAssumption DEF TypeInv, TypeOK, Meter, Borrow
    <3>2. m[k].bucket <= Conf[k].pbs /\ b[k].bucket <= Conf[k].pbs
      BY <1>0 DEF BucketBounded
    <3>3. m'[k].bucket <= m[k].bucket \/ m'[k].bucket <= Conf[k].pbs
      BY <1>0, <1>2, MeterBucketSteps
    <3>4. /\ b'[k].pbs = Conf[k].pbs
          /\ b'[k].bucket <= b[k].bucket \/ b'[k].bucket <= Conf[k].pbs
      BY <1>0, <1>2, BorrowBucketSteps
    <3> QED BY <3>1, <3>2, <3>3, <3>4 DEF Words
  <2>2. ASSUME NEW u \in Threads,
               \/ pc'[u] = "b_write"
               \/ pc'[u] \in UpdateSteps /\ job'[u].phase = "borrow"
        PROVE  rd'[u].b.pbs = Conf[Cls(u)'].pbs
    <3>1. CASE u = t BY <1>0, <1>2, <2>2, <3>1, PbsCopySteps
    <3>2. CASE u # t
      <4>1. pc'[u] = pc[u] /\ job'[u] = job[u] /\ Cls(u)' = Cls(u) /\ rd'[u] = rd[u]
        BY <1>0, <1>2, <3>2, OtherThreads
      <4> QED BY <1>0, <2>2, <4>1 DEF PbsKept
    <3> QED BY <3>1, <3>2
  <2> QED BY <1>0, <2>1, <2>2 DEF BoundInv, PbsKept, BucketBounded
<1> QED BY <1>1, <1>2 DEF Next

LEMMA BoundInit == Init => BoundInv
<1> SUFFICES ASSUME Init PROVE BoundInv OBVIOUS
<1>1. PbsKept BY DEF Init, PbsKept, UpdateSteps
<1>2. BucketBounded BY ConfigAssumption DEF Init, BucketBounded, Words
<1> QED BY <1>1, <1>2, TypeInit DEF BoundInv

LEMMA BoundInvariant == Spec => []BoundInv
BY BoundInit, BoundNext, PTL DEF Spec

(* No bucket ever holds more tokens than the burst size of its class,      *)
(* whatever rates the classes are given and however refreshes and debits   *)
(* interleave.                                                             *)
THEOREM BucketTheorem == Spec => []BucketBounded
<1>1. BoundInv => BucketBounded BY DEF BoundInv
<1> QED BY <1>1, BoundInvariant, PTL

-----------------------------------------------------------------------------
(* Proofs about who may borrow.                                            *)

(* A thread at a borrow bucket, or updating its meter from there, works on *)
(* a class that its flow may borrow from.                                  *)
BorrowPlaces == {"b_testset", "b_meter"} \cup BorrowSteps \cup UpdateSteps
BorrowersMay ==
    \A t \in Threads :
       pc[t] \in BorrowPlaces /\ job[t].phase = "borrow" => Lendable(Cls(t))

DeniedInv == DeniedUntouched /\ BorrowersMay

(* A borrow bucket changes only in the hands of a thread that is there.    *)
LEMMA BucketTouched ==
    ASSUME TypeInv, NEW t \in Threads, Receive(t) \/ Schedule(t), NEW k \in Classes
    PROVE  \/ b'[k] = b[k]
           \/ pc[t] \in BorrowPlaces /\ job[t].phase = "borrow" /\ k = Cls(t)
<1>1. b \in [Classes -> Borrow]
  BY DEF TypeInv, TypeOK
<1>2. CASE BorrowTestSet(t) \/ BorrowWrite(t) \/ BorrowForward(t)
  <2>1. pc[t] \in {"b_testset", "b_write", "b_meter"}
    BY <1>2 DEF BorrowTestSet, BorrowWrite, BorrowForward
  <2>2. pc[t] \in BorrowPlaces /\ job[t].phase = "borrow"
    BY <2>1, ThreadFacts DEF BorrowPlaces, BorrowOnly, BorrowSteps
  <2>3. k # Cls(t) => b'[k] = b[k]
    BY <1>1, <1>2 DEF BorrowTestSet, BorrowWrite, BorrowForward
  <2> QED BY <2>2, <2>3
<1>3. CASE UNCHANGED b
  BY <1>3
<1> QED
  BY <1>2, <1>3
  DEF Receive, Schedule, ClassTestSet, ClassMeter, CountBytes, UpdateTsc, UpdateRead,
      UpdateReadParent, UpdateWrite, UpdateNoChange, UpdateReset, UpdateCredit, UpdateDone,
      ReadTsc, ReadPir, ReadCur, ReadLow, StatusWrite, ForwardDirect, TryBorrow,
      SiblingDenied, SiblingStatus, DropPacket, BorrowRead, BorrowRefused

(* A thread gets to a borrow bucket through the test of the bitmap only.   *)
LEMMA BorrowerComes ==
    ASSUME TypeInv, BorrowersMay, NEW t \in Threads, Receive(t) \/ Schedule(t),
           pc'[t] \in BorrowPlaces, job'[t].phase = "borrow"
    PROVE  Lendable(Cls(t))'
<1>1. pc \in [Threads -> Steps] /\ job \in [Threads -> Job]
  BY DEF TypeInv, TypeOK
<1>2. CASE SiblingStatus(t)
  <2>1. UNCHANGED job /\ job[t].i < job[t].flow.subNum /\ job[t].flow.flowSub[job[t].i] = 0
    BY <1>2 DEF SiblingStatus, MayBorrow
  <2>2. job[t].flow \in Flows /\ Cls(t)' = job[t].i
    BY <1>1, <2>1 DEF Cls, Job
  <2> QED BY <2>1, <2>2 DEF Lendable
<1>3. ASSUME UNCHANGED job, pc[t] \in BorrowPlaces
      PROVE  Lendable(Cls(t))'
  <2>1. Cls(t)' = Cls(t)
    BY <1>3 DEF Cls
  <2>2. Lendable(Cls(t))
    BY <1>3 DEF BorrowersMay
  <2> QED BY <2>1, <2>2 DEF Lendable
<1>4. CASE \/ UpdateTsc(t) \/ UpdateRead(t) \/ UpdateReadParent(t) \/ UpdateWrite(t)
           \/ BorrowTestSet(t) \/ BorrowRead(t) \/ BorrowWrite(t)
  BY <1>3, <1>4
  DEF UpdateTsc, UpdateRead, UpdateReadParent, UpdateWrite, UpdateNoChange, UpdateReset,
      UpdateCredit, UpdateDone, BorrowTestSet, BorrowRead, BorrowWrite, BorrowPlaces,
      UpdateSteps, BorrowSteps
<1>5. CASE ReadTsc(t) \/ ReadPir(t) \/ ReadCur(t) \/ ReadLow(t)
  <2>1. UNCHANGED job
    BY <1>5 DEF ReadTsc, ReadPir, ReadCur, ReadLow
  <2>2. pc[t] \in BorrowPlaces \/ pc'[t] \in StatusSteps
    BY <1>1, <1>5
    DEF ReadTsc, ReadPir, ReadCur, ReadLow, Goto, BorrowPlaces, BorrowSteps, StatusSteps
  <2>3. pc'[t] \notin StatusSteps
    BY DEF StatusSteps, BorrowPlaces, BorrowSteps, UpdateSteps
  <2> QED BY <1>3, <2>1, <2>2, <2>3
<1>6. CASE ClassTestSet(t)
  <2>1. pc[t] = "class" /\ UNCHANGED job
    BY <1>6 DEF ClassTestSet
  <2> QED BY <2>1, ThreadFacts DEF ClassOnly
<1>7. CASE \/ Receive(t) \/ ClassMeter(t) \/ CountBytes(t) \/ StatusWrite(t)
           \/ ForwardDirect(t) \/ TryBorrow(t) \/ SiblingDenied(t) \/ DropPacket(t)
           \/ BorrowForward(t) \/ BorrowRefused(t)
  <2>1. pc'[t] \in {"class", "count", "s_tsc", "sibling", "idle"}
    BY <1>1, <1>7 DEF Receive, ClassMeter, CountBytes, StatusWrite, ForwardDirect, TryBorrow,
       SiblingDenied, DropPacket, BorrowForward, BorrowRefused, Finish, Goto
  <2> QED BY <2>1 DEF BorrowPlaces, BorrowSteps, UpdateSteps
<1> QED BY <1>2, <1>4, <1>5, <1>6, <1>7 DEF Schedule

LEMMA DeniedNext == TypeInv /\ DeniedInv /\ [Next]_vars => DeniedInv'
<1> SUFFICES ASSUME TypeInv, DeniedInv, [Next]_vars PROVE DeniedInv'
  OBVIOUS
<1>1. CASE Tick \/ UNCHANGED vars
  <2>1. UNCHANGED <<b, pc, job>> /\ \A t \in Threads : Cls(t)' = Cls(t)
    BY <1>1 DEF Tick, vars, Cls
  <2> QED BY <2>1 DEF DeniedInv, DeniedUntouched, BorrowersMay, Lendable
<1>2. ASSUME NEW t \in Threads, Receive(t) \/ Schedule(t) PROVE DeniedInv'
  <2>1. ASSUME NEW k \in Classes, ~Lendable(k)
        PROVE  b'[k].bucket = Conf[k].pbs /\ b'[k].high = 0 /\ b'[k].low = 0
    <3>1. b'[k] = b[k]
      BY <1>2, <2>1, BucketTouched DEF DeniedInv, BorrowersMay
    <3> QED BY <2>1, <3>1 DEF DeniedInv, DeniedUntouched
  <2>2. ASSUME NEW u \in Threads, pc'[u] \in BorrowPlaces, job'[u].phase = "borrow"
        PROVE  Lendable(Cls(u))'
    <3>1. CASE u = t
      BY <1>2, <2>2, <3>1, BorrowerComes DEF DeniedInv
    <3>2. CASE u # t
      <4>1. pc'[u] = pc[u] /\ job'[u] = job[u] /\ Cls(u)' = Cls(u)
        BY <1>2, <3>2, OtherThreads
      <4>2. Lendable(Cls(u))
        BY <2>2, <4>1 DEF DeniedInv, BorrowersMay
      <4> QED BY <4>1, <4>2 DEF Lendable
    <3> QED BY <3>1, <3>2
  <2> QED BY <2>1, <2>2 DEF DeniedInv, DeniedUntouched, BorrowersMay, Lendable
<1> QED BY <1>1, <1>2 DEF Next

(* The borrow bucket of a class that no flow may borrow from stays as it   *)
(* was written: the sibling loop tests the bit of the class it then takes  *)
(* tokens from, for any flows and bitmaps (flowvalve.c:384-438).           *)
THEOREM DeniedTheorem == Spec => []DeniedUntouched
<1>1. Init => DeniedInv
  BY DEF Init, DeniedInv, DeniedUntouched, BorrowersMay, BorrowPlaces, BorrowSteps,
         UpdateSteps
<1>2. DeniedInv => DeniedUntouched
  BY DEF DeniedInv
<1> QED BY <1>1, <1>2, DeniedNext, TypeInvariant, PTL DEF Spec

-----------------------------------------------------------------------------
(* Proofs about the rates of classes that share one.                       *)

(* A rate that class k may be given below a static class with rate top.    *)
RateFits(k, top, x) ==
    LET c == Conf[k] IN
    IF c.type = 1 \/ top < c.cond0 THEN x <= 1 \/ x * c.denomi <= top * c.numer
    ELSE IF c.type = 2 THEN x <= c.cond1 ELSE x + c.cond1 <= top

(* A static class keeps its rate, and every class has a rate that fits     *)
(* below the static class above it; so have the rates a refresh has read.  *)
MeterFits(k) ==
    /\ Static(k) => m[k].pir = InitPir[k]
    /\ ~Static(k) => \A r \in Classes : Static(r) /\ Above(r, k)
                                           => RateFits(k, InitPir[r], m[k].pir)
CopyFits(t) ==
    LET k == Cls(t) IN
    /\ pc[t] = "u_parent" => ~Static(k)
    /\ pc[t] = "u_write" =>
          /\ Static(k) => up[t].m.pir = InitPir[k]
          /\ ~Static(k) => \A r \in Classes : Static(r) /\ Above(r, k)
                                                 => up[t].p.pir <= InitPir[r]
RatesInv == (\A k \in Classes : MeterFits(k)) /\ \A t \in Threads : CopyFits(t)

-----------------------------------------------------------------------------
(* Upwards from a class lies what is upwards from its parent. *)
LEMMA AboveParent ==
    ASSUME NEW r \in Classes, NEW k \in Classes, Static(r), ~Static(k), Above(r, k)
    PROVE  Above(r, Conf[k].pidx)
<1> SUFFICES ASSUME NEW S \in SUBSET Classes, Conf[k].pidx \in S, Upwards(S)
             PROVE  r \in S
  BY DEF Above
<1>1. Upwards(S \cup {k}) BY DEF Upwards
<1>2. r \in S \cup {k} BY <1>1 DEF Above
<1> QED BY <1>2

LEMMA AboveStatic ==
    ASSUME NEW r \in Classes, NEW k \in Classes, Static(k), Above(r, k) PROVE r = k
<1>1. Upwards({k}) BY DEF Upwards
<1> QED BY <1>1 DEF Above

LEMMA WordTypes ==
    ASSUME NEW k \in Classes
    PROVE  /\ Conf[k].type \in 0..3 /\ Conf[k].numer \in Nat /\ Conf[k].denomi \in Nat
           /\ Conf[k].denomi > 0 /\ Conf[k].pidx \in Classes
           /\ Conf[k].cond0 \in Words /\ Conf[k].cond1 \in Words
           /\ Conf[k].cond0 \in Nat /\ Conf[k].cond1 \in Nat
           /\ InitPir[k] \in Words /\ InitPir[k] \in Nat
BY ConfigAssumption DEF Words

(* From the condition on a class of high priority leaves its parent        *)
(* something besides the rate of the low one.                              *)
LEMMA HighLeaves ==
    ASSUME NEW k \in Classes, WordsFit(k), Conf[k].type = 3
    PROVE  Conf[k].cond1 + 1 <= Conf[k].cond0
<1> DEFINE c == Conf[k]
<1>1. /\ c.cond0 \in Nat /\ c.cond0 > 0 /\ c.denomi \in Nat /\ c.denomi > 0
      /\ c.numer \in 1..c.denomi
      /\ c.cond1 = (c.cond0 * (c.denomi - c.numer)) \div c.denomi
  BY WordTypes DEF WordsFit, Static
<1> HIDE DEF c
<1> DEFINE n == c.denomi - c.numer
<1>2. n \in Nat /\ n < c.denomi BY <1>1
<1> HIDE DEF n
<1>3. c.cond0 * n \in Nat BY <1>1, <1>2
<1>4. (c.cond0 * n) \div c.denomi \in Nat
      /\ ((c.cond0 * n) \div c.denomi) * c.denomi <= c.cond0 * n
  BY <1>1, <1>3, Quotient
<1>5. (c.cond0 * n) \div c.denomi + 1 <= c.cond0 BY <1>1, <1>2, <1>4, ShareLeavesOne
<1> QED BY <1>1, <1>5 DEF n, c

(* No class has more than the static class above it. *)
LEMMA FitsBelow ==
    ASSUME NEW k \in Classes, ~Static(k), WordsFit(k), NEW top \in Nat, top > 0,
           NEW x \in Nat, RateFits(k, top, x)
    PROVE  x <= top
<1> DEFINE c == Conf[k]
<1>1. /\ c.type \in 1..3 /\ c.numer \in 1..c.denomi /\ c.denomi \in Nat /\ c.denomi > 0
      /\ c.cond0 \in Nat /\ c.cond1 \in Nat
  BY WordTypes DEF WordsFit, Static
<1>2. CASE x * c.denomi <= top * c.numer
  <2>1. c.numer \in Nat /\ c.numer + 0 <= c.denomi BY <1>1
  <2>2. 0 * c.denomi <= top * 0 BY <1>1
  <2>3. x + 0 <= top BY <1>1, <1>2, <2>1, <2>2, SharesAddUp
  <2> QED BY <2>3
<1>3. CASE c.type = 2 /\ top >= c.cond0 /\ x <= c.cond1
  <2>1. c.cond1 = (c.cond0 * c.numer) \div c.denomi BY <1>3 DEF WordsFit
  <2>2. c.cond0 * c.numer \in Nat BY <1>1
  <2>3. c.cond1 * c.denomi <= c.cond0 * c.numer BY <1>1, <2>1, <2>2, Quotient
  <2>4. c.numer \in Nat /\ c.numer + 0 <= c.denomi BY <1>1
  <2>5. 0 * c.denomi <= c.cond0 * 0 BY <1>1
  <2>6. c.cond1 + 0 <= c.cond0 BY <1>1, <2>3, <2>4, <2>5, SharesAddUp
  <2> QED BY <1>1, <1>3, <2>6
<1>4. CASE x + c.cond1 <= top BY <1>1, <1>4
<1> QED BY <1>1, <1>2, <1>3, <1>4 DEF RateFits

(* What update_fv_class computes fits, if the parent has at most top. *)
LEMMA RateGiven ==
    ASSUME NEW k \in Classes, ~Static(k), WordsFit(k), NEW top \in Nat, top > 0,
           NEW md \in Meter, NEW mp \in Meter, mp.pir <= top
    PROVE  RateFits(k, top, ClassRate(Conf[k], md, mp))
<1> DEFINE c == Conf[k]
           p == mp.pir
           x == ClassRate(c, md, mp)
<1>1. /\ c.type \in 1..3 /\ c.numer \in 1..c.denomi /\ c.numer \in Nat
      /\ c.denomi \in Nat /\ c.denomi > 0
      /\ c.cond0 \in Nat /\ c.cond1 \in Nat /\ c.cond1 \in Words
  BY WordTypes DEF WordsFit, Static
<1>2. p \in Words /\ p \in Nat /\ mp.cur \in Words /\ p <= top BY DEF Meter, Words
<1>3. ASSUME NEW q \in Words, q <= p
      PROVE  Share(q, c) \in Nat /\ Share(q, c) * c.denomi <= top * c.numer
  <2>1. Share(q, c) \in Nat /\ Share(q, c) * c.denomi <= q * c.numer
    BY <1>1, ShareTimes
  <2>2. q \in Nat /\ q <= top BY <1>2, <1>3 DEF Words
  <2>3. q * c.numer \in Nat /\ top * c.numer \in Nat /\ q * c.numer <= top * c.numer
    BY <1>1, <2>2, TimesMonotone
  <2>4. Share(q, c) * c.denomi \in Nat BY <1>1, <2>1
  <2> QED BY <2>1, <2>3, <2>4
<1>4. CASE c.type = 1
  <2>1. x \in {1, Share(p, c)} \/ (mp.cur < p /\ x = Share(p - mp.cur, c))
    BY <1>4 DEF ClassRate, WeightedRate
  <2>2. mp.cur < p => p - mp.cur \in Words /\ p - mp.cur <= p
    <3>1. \A v, w \in Words : v < w => w - v \in Words /\ w - v <= w
      BY WordFacts DEF Words
    <3>2. p \in Words /\ mp.cur \in Words BY DEF Meter
    <3> HIDE DEF p
    <3> QED BY <3>1, <3>2
  <2>3. x = 1 \/ x * c.denomi <= top * c.numer BY <1>2, <1>3, <2>1, <2>2
  <2> HIDE DEF x
  <2>4. RateFits(k, top, x) BY <1>4, <2>3 DEF RateFits
  <2> QED BY <2>4 DEF x
<1>5. CASE c.type # 1 /\ p < c.cond0
  <2>1. x = AtLeastOne(Share(p, c))
    BY <1>1, <1>5 DEF ClassRate, PriorityRate
  <2>2. Share(p, c) \in Nat /\ Share(p, c) * c.denomi <= p * c.numer
    BY <1>1, <1>2, ShareTimes
  <2>3. Share(p, c) * c.denomi <= top * c.numer BY <1>2, <1>3
  <2>4. x \in Nat /\ (x = 1 \/ (x * c.denomi <= p * c.numer /\ x * c.denomi <= top * c.numer))
    BY <2>1, <2>2, <2>3 DEF AtLeastOne
  <2> HIDE DEF x
  <2>5. CASE top < c.cond0
    <3>1. RateFits(k, top, x) BY <2>4, <2>5 DEF RateFits
    <3> QED BY <3>1 DEF x
  <2>6. CASE top >= c.cond0 /\ c.type = 2
    <3>1. c.cond1 > 0 /\ c.cond1 = (c.cond0 * c.numer) \div c.denomi
      BY <2>6 DEF WordsFit
    <3>2. CASE x * c.denomi <= p * c.numer
      <4>1. p <= c.cond0 BY <1>1, <1>2, <1>5
      <4>2. x <= (c.cond0 * c.numer) \div c.denomi
        BY <1>1, <1>2, <2>4, <3>2, <4>1, LowShare
      <4> QED BY <3>1, <4>2, <2>6, <1>1 DEF RateFits, x
    <3>3. CASE x = 1
      <4>1. x <= c.cond1 BY <1>1, <3>1, <3>3
      <4> QED BY <4>1, <2>6, <1>1 DEF RateFits, x
    <3> QED BY <2>4, <3>2, <3>3
  <2>7. CASE top >= c.cond0 /\ c.type = 3
    <3>1. x + c.cond1 <= c.cond0
      <4>1. c.cond1 = (c.cond0 * (c.denomi - c.numer)) \div c.denomi
        BY <2>7 DEF WordsFit
      <4>2. CASE x * c.denomi <= p * c.numer
        <5>1. p <= c.cond0 /\ c.numer <= c.denomi BY <1>1, <1>2, <1>5
        <5>2. x + (c.cond0 * (c.denomi - c.numer)) \div c.denomi <= c.cond0
          BY <1>1, <1>2, <2>4, <4>2, <5>1, HighShare
        <5> QED BY <4>1, <5>2
      <4>3. CASE x = 1
        <5>1. c.cond1 + 1 <= c.cond0 BY <2>7, HighLeaves
        <5> QED BY <1>1, <4>3, <5>1
      <4> QED BY <2>4, <4>2, <4>3
    <3>2. x + c.cond1 <= top BY <1>1, <2>4, <2>7, <3>1
    <3> QED BY <1>1, <2>7, <3>2 DEF RateFits, x
  <2> QED BY <1>1, <1>5, <2>5, <2>6, <2>7
<1>6. CASE c.type = 2 /\ p >= c.cond0
  <2>1. x = c.cond1 BY <1>1, <1>2, <1>6 DEF ClassRate, PriorityRate
  <2>2. top >= c.cond0 BY <1>1, <1>2, <1>6
  <2> QED BY <1>1, <1>6, <2>1, <2>2 DEF RateFits
<1>7. CASE c.type = 3 /\ p >= c.cond0
  <2>1. x = SubW(p, c.cond1) BY <1>1, <1>2, <1>7 DEF ClassRate, PriorityRate
  <2>2. c.cond1 + 1 <= c.cond0 BY <1>7, HighLeaves
  <2>3. p - c.cond1 \in Words
    <3>1. \A v, w \in Words : v <= w => w - v \in Words BY WordFacts DEF Words
    <3>2. p \in Words /\ c.cond1 \in Words /\ c.cond1 <= p BY <1>1, <1>2, <1>7, <2>2
    <3> HIDE DEF p, c
    <3> QED BY <3>1, <3>2
  <2>4. SubW(p, c.cond1) = p - c.cond1 BY <2>3, WordFacts DEF SubW, Words
  <2>5. x + c.cond1 <= top /\ top >= c.cond0 BY <1>1, <1>2, <1>7, <2>1, <2>4
  <2> QED BY <1>1, <1>7, <2>5 DEF RateFits
<1> QED BY <1>1, <1>2, <1>4, <1>5, <1>6, <1>7

(* Two siblings whose rates fit have no more than top together. *)
LEMMA SiblingsFit ==
    ASSUME NEW j \in Classes, NEW k \in Classes, ~Static(j), ~Static(k),
           WordsFit(j), WordsFit(k), WordsAgree(Conf[j], Conf[k]),
           NEW top \in Nat, top > 0, NEW x \in Nat, NEW y \in Nat,
           RateFits(j, top, x), RateFits(k, top, y)
    PROVE  x + y <= top \/ (x <= 1 /\ y <= 1)
<1> DEFINE c == Conf[j]
           d == Conf[k]
<1>1. /\ c.type \in 1..3 /\ c.numer \in 1..c.denomi /\ c.numer \in Nat
      /\ c.denomi \in Nat /\ c.denomi > 0
      /\ c.cond0 \in Nat /\ c.cond1 \in Nat
  BY WordTypes DEF WordsFit, Static
<1>2. /\ d.type \in 1..3 /\ d.numer \in 1..d.denomi /\ d.numer \in Nat
      /\ d.cond0 \in Nat /\ d.cond1 \in Nat
  BY WordTypes DEF WordsFit, Static
<1>3. /\ c.denomi = d.denomi /\ c.numer + d.numer <= c.denomi
      /\ c.type = 1 <=> d.type = 1
      /\ c.type # 1 => c.cond0 = d.cond0
      /\ c.type # 1 /\ c.type = 3 => d.type = 2
  BY DEF WordsAgree
<1> DEFINE ofTop(z, e) == z * e.denomi <= top * e.numer
<1>4. ASSUME x <= 1 \/ ofTop(x, c), y <= 1 \/ ofTop(y, d)
      PROVE  x + y <= top \/ (x <= 1 /\ y <= 1)
  <2>1. CASE ofTop(x, c) /\ ofTop(y, d)
    BY <1>1, <1>2, <1>3, <2>1, SharesAddUp
  <2>2. CASE ofTop(x, c) /\ y <= 1
    <3>1. c.numer < c.denomi BY <1>1, <1>2, <1>3
    <3>2. x + 1 <= top BY <1>1, <2>2, <3>1, ShareLeavesOne
    <3> QED BY <2>2, <3>2
  <2>3. CASE ofTop(y, d) /\ x <= 1
    <3>1. d.numer < d.denomi /\ d.denomi \in Nat BY <1>1, <1>2, <1>3
    <3>2. y + 1 <= top BY <1>2, <2>3, <3>1, ShareLeavesOne
    <3> QED BY <2>3, <3>2
  <2> QED BY <1>4, <2>1, <2>2, <2>3
<1>5. CASE c.type = 1 \/ top < c.cond0
  <2>1. x <= 1 \/ ofTop(x, c) BY <1>5 DEF RateFits
  <2>2. d.type = 1 \/ top < d.cond0 BY <1>3, <1>5
  <2>3. y <= 1 \/ ofTop(y, d) BY <2>2 DEF RateFits
  <2> QED BY <1>4, <2>1, <2>3
<1>6. CASE c.type # 1 /\ top >= c.cond0
  <2>0. d.type # 1 /\ d.cond0 = c.cond0 /\ ~(top < c.cond0) BY <1>1, <1>3, <1>6
  <2>1. c.cond0 * c.numer \in Nat /\ c.cond0 * d.numer \in Nat BY <1>1, <1>2
  (* The fixed rate of a class of low priority is its share of the condition. *)
  <2>2. c.type = 2 => x <= c.cond1 /\ c.cond1 * c.denomi <= c.cond0 * c.numer
    <3>1. c.type = 2 => c.cond1 = (c.cond0 * c.numer) \div c.denomi BY DEF WordsFit
    <3>2. ((c.cond0 * c.numer) \div c.denomi) * c.denomi <= c.cond0 * c.numer
      BY <1>1, <2>1, Quotient
    <3>3. c.type = 2 => x <= c.cond1 BY <1>6, <2>0 DEF RateFits
    <3> QED BY <3>1, <3>2, <3>3
  <2>3. d.type = 2 => y <= d.cond1 /\ d.cond1 * c.denomi <= c.cond0 * d.numer
    <3>1. d.type = 2 => d.cond1 = (c.cond0 * d.numer) \div c.denomi
      BY <1>3, <2>0 DEF WordsFit
    <3>2. ((c.cond0 * d.numer) \div c.denomi) * c.denomi <= c.cond0 * d.numer
      BY <1>1, <2>1, Quotient
    <3>3. d.type = 2 => y <= d.cond1 BY <2>0 DEF RateFits
    <3> QED BY <3>1, <3>2, <3>3
  <2>4. CASE c.type = 2 /\ d.type = 2
    <3>1. c.cond1 + d.cond1 <= c.cond0
      BY <1>1, <1>2, <1>3, <2>2, <2>3, <2>4, SharesAddUp, ZenonT(40)
    <3> QED BY <1>1, <1>2, <1>6, <2>2, <2>3, <2>4, <3>1
  <2>5. CASE c.type = 2 /\ d.type = 3
    <3>1. y + d.cond1 <= top BY <2>0, <2>5 DEF RateFits
    <3>2. d.cond1 = (c.cond0 * (c.denomi - d.numer)) \div c.denomi
      BY <1>3, <2>0, <2>5 DEF WordsFit
    <3>3. c.denomi - d.numer \in Nat /\ c.numer <= c.denomi - d.numer BY <1>1, <1>2, <1>3
    <3>4. c.cond1 <= d.cond1
      <4> DEFINE rest == c.denomi - d.numer
      <4>1. c.cond0 * c.numer <= c.cond0 * rest /\ c.cond0 * rest \in Nat
        BY <1>1, <3>3, TimesMonotone
      <4>2. c.cond0 * rest < (d.cond1 + 1) * c.denomi
        BY <1>1, <3>2, <4>1, Quotient
      <4>3. c.cond1 * c.denomi \in Nat /\ (d.cond1 + 1) * c.denomi \in Nat BY <1>1, <1>2
      <4> HIDE DEF rest
      <4>4. c.cond1 * c.denomi < (d.cond1 + 1) * c.denomi
        BY <2>1, <2>2, <2>5, <4>1, <4>2, <4>3
      <4> QED BY <1>1, <1>2, <4>4, Cancel
    <3> QED BY <1>1, <1>2, <2>2, <2>5, <3>1, <3>4
  <2>6. CASE c.type = 3
    <3>0. d.type = 2 BY <1>3, <2>6
    <3>1. x + c.cond1 <= top BY <1>6, <2>0, <2>6 DEF RateFits
    <3>2. c.cond1 = (c.cond0 * (c.denomi - c.numer)) \div c.denomi
      BY <2>6 DEF WordsFit
    <3>3. c.denomi - c.numer \in Nat /\ d.numer <= c.denomi - c.numer BY <1>1, <1>2, <1>3
    <3>4. d.cond1 <= c.cond1
      <4> DEFINE rest == c.denomi - c.numer
      <4>1. c.cond0 * d.numer <= c.cond0 * rest /\ c.cond0 * rest \in Nat
        BY <1>1, <1>2, <3>3, TimesMonotone
      <4>2. c.cond0 * rest < (c.cond1 + 1) * c.denomi
        BY <1>1, <3>2, <4>1, Quotient
      <4>3. d.cond1 * c.denomi \in Nat /\ (c.cond1 + 1) * c.denomi \in Nat BY <1>1, <1>2
      <4> HIDE DEF rest
      <4>4. d.cond1 * c.denomi < (c.cond1 + 1) * c.denomi
        BY <2>1, <2>3, <3>0, <4>1, <4>2, <4>3
      <4> QED BY <1>1, <1>2, <4>4, Cancel
    <3> QED BY <1>1, <1>2, <2>3, <3>0, <3>1, <3>4
  <2> QED BY <1>1, <1>2, <1>6, <2>0, <2>4, <2>5, <2>6
<1> QED BY <1>1, <1>5, <1>6

(* A class has no more than the static class above it. *)
LEMMA RateBelow ==
    ASSUME FrontEndWords, TypeInv, RatesInv, NEW k \in Classes, NEW r \in Classes,
           Static(r), Above(r, k)
    PROVE  m[k].pir <= InitPir[r]
<1>1. m[k].pir \in Nat BY DEF TypeInv, TypeOK, Meter, Words
<1>2. InitPir[r] \in Nat /\ InitPir[r] > 0
  BY WordTypes DEF FrontEndWords, WordsFit
<1>3. CASE Static(k)
  <2>1. r = k BY <1>3, AboveStatic
  <2> QED BY <1>1, <1>3, <2>1 DEF RatesInv, MeterFits
<1>4. CASE ~Static(k)
  <2>1. RateFits(k, InitPir[r], m[k].pir) BY <1>4 DEF RatesInv, MeterFits
  <2>2. WordsFit(k) BY DEF FrontEndWords
  <2> QED BY <1>1, <1>2, <1>4, <2>1, <2>2, FitsBelow
<1> QED BY <1>3, <1>4

(* Only the write of a refresh changes a rate. *)
LEMMA RateSteps ==
    ASSUME TypeInv, NEW t \in Threads, Receive(t) \/ Schedule(t), NEW k \in Classes
    PROVE  \/ m'[k].pir = m[k].pir
           \/ pc[t] = "u_write" /\ k = Cls(t) /\ m'[k].pir = Rate(t)
<1>1. m \in [Classes -> Meter] BY DEF TypeInv, TypeOK
<1>2. CASE ClassTestSet(t) \/ ClassMeter(t) \/ CountBytes(t)
  BY <1>1, <1>2 DEF ClassTestSet, ClassMeter, CountBytes, Meter
<1>3. CASE UpdateWrite(t)
  <2>1. CASE UpdateNoChange(t) BY <1>1, <2>1 DEF UpdateNoChange, Meter
  <2>2. CASE UpdateReset(t)
    <3>1. PICK cnt, cur \in Junk :
             m' = [m EXCEPT ![Cls(t)] =
                      [bucket |-> Conf[Cls(t)].pbs,
                       high |-> up[t].ctime.up, low |-> up[t].ctime.low,
                       cnt |-> cnt, cur |-> cur, pir |-> Rate(t)]]
      BY <2>2 DEF UpdateReset
    <3>2. pc[t] = "u_write" BY <2>2 DEF UpdateReset
    <3> QED BY <1>1, <3>1, <3>2
  <2>3. CASE UpdateCredit(t)
    <3> DEFINE td == TDelta(up[t].ctime.low, up[t].m.low)
               tk == Refill(up[t].m.bucket, td, Rate(t), Conf[Cls(t)].pbs)
    <3>1. PICK cnt \in (IF td = 0 THEN Junk ELSE {0}),
               cur \in (IF td = 0 THEN Junk
                        ELSE {MeasuredRate(up[t].m.cnt, up[t].m.cur, td)}) :
             m' = [m EXCEPT ![Cls(t)] =
                      [bucket |-> tk,
                       high |-> up[t].ctime.up, low |-> up[t].ctime.low,
                       cnt |-> cnt, cur |-> cur, pir |-> Rate(t)]]
      BY <2>3 DEF UpdateCredit
    <3> HIDE DEF td, tk
    <3>2. pc[t] = "u_write" BY <2>3 DEF UpdateCredit
    <3> QED BY <1>1, <3>1, <3>2
  <2> QED BY <1>3, <2>1, <2>2, <2>3 DEF UpdateWrite
<1>4. CASE UNCHANGED m BY <1>4
<1> QED
  BY <1>2, <1>3, <1>4
  DEF Receive, Schedule, UpdateTsc, UpdateRead, UpdateReadParent, ReadTsc, ReadPir,
      ReadCur, ReadLow, StatusWrite, ForwardDirect, TryBorrow, SiblingDenied,
      SiblingStatus, DropPacket, BorrowTestSet, BorrowRead, BorrowWrite, BorrowForward,
      BorrowRefused

(* What a refresh computes from the rates it has read fits. *)
LEMMA RateWritten ==
    ASSUME FrontEndWords, TypeInv, RatesInv, NEW t \in Threads, pc[t] = "u_write"
    PROVE  LET k == Cls(t) IN
           /\ Static(k) => Rate(t) = InitPir[k]
           /\ ~Static(k) => \A r \in Classes : Static(r) /\ Above(r, k)
                                                 => RateFits(k, InitPir[r], Rate(t))
<1> DEFINE k == Cls(t)
<1>1. k \in Classes /\ up[t].m \in Meter /\ up[t].p \in Meter
  BY ThreadFacts DEF Update
<1>2. CopyFits(t) BY DEF RatesInv
<1>3. ASSUME Static(k) PROVE Rate(t) = InitPir[k]
  <2>1. up[t].m.pir = InitPir[k] BY <1>2, <1>3 DEF CopyFits
  <2> QED BY <1>3, <2>1 DEF Rate, ClassRate, Static
<1>4. ASSUME ~Static(k), NEW r \in Classes, Static(r), Above(r, k)
      PROVE  RateFits(k, InitPir[r], Rate(t))
  <2>1. up[t].p.pir <= InitPir[r] BY <1>2, <1>4 DEF CopyFits
  <2>2. InitPir[r] \in Nat /\ InitPir[r] > 0
    BY <1>4, WordTypes DEF FrontEndWords, WordsFit
  <2>3. WordsFit(k) BY <1>1 DEF FrontEndWords
  <2> HIDE DEF k
  <2>4. RateFits(k, InitPir[r], ClassRate(Conf[k], up[t].m, up[t].p))
    BY <1>1, <1>4, <2>1, <2>2, <2>3, RateGiven
  <2> QED BY <2>4 DEF Rate, k
<1> QED BY <1>3, <1>4

LEMMA MeterFitsNext ==
    ASSUME FrontEndWords, TypeInv, RatesInv, NEW t \in Threads, Receive(t) \/ Schedule(t),
           NEW k \in Classes
    PROVE  MeterFits(k)'
<1>1. MeterFits(k) BY DEF RatesInv
<1>2. CASE m'[k].pir = m[k].pir BY <1>1, <1>2 DEF MeterFits
<1>3. CASE pc[t] = "u_write" /\ k = Cls(t) /\ m'[k].pir = Rate(t)
  BY <1>3, RateWritten DEF MeterFits
<1> QED BY <1>2, <1>3, RateSteps

(* The copies of the others stay, and the step of t makes its own fit.     *)
LEMMA CopyFitsOther ==
    ASSUME TypeInv, NEW t \in Threads, Receive(t) \/ Schedule(t),
           NEW u \in Threads, u # t, CopyFits(u)
    PROVE  CopyFits(u)'
<1>1. pc'[u] = pc[u] /\ Cls(u)' = Cls(u) BY OtherThreads
<1>2. up'[u] = up[u]
  <2>1. up \in [Threads -> Update] BY DEF TypeInv, TypeOK
  <2>2. CASE UNCHANGED up BY <2>2
  <2>3. CASE UpdateTsc(t) \/ UpdateRead(t) \/ UpdateReadParent(t) \/ UpdateWrite(t)
    BY <2>1, <2>3 DEF UpdateTsc, UpdateRead, UpdateReadParent, UpdateWrite,
       UpdateNoChange, UpdateReset, UpdateCredit, UpdateDone
  <2> QED
    BY <2>2, <2>3
    DEF Receive, Schedule, ClassTestSet, ClassMeter, CountBytes, ReadTsc, ReadPir,
        ReadCur, ReadLow, StatusWrite, ForwardDirect, TryBorrow, SiblingDenied,
        SiblingStatus, DropPacket, BorrowTestSet, BorrowRead, BorrowWrite,
        BorrowForward, BorrowRefused
<1> QED BY <1>1, <1>2 DEF CopyFits

LEMMA CopyFitsOwn ==
    ASSUME FrontEndWords, TypeInv, RatesInv, NEW t \in Threads, Receive(t) \/ Schedule(t)
    PROVE  CopyFits(t)'
<1>0. /\ pc \in [Threads -> Steps] /\ up \in [Threads -> Update]
      /\ m \in [Classes -> Meter]
  BY DEF TypeInv, TypeOK
<1>1. CASE UpdateRead(t)
  <2>1. /\ Cls(t)' = Cls(t) /\ up'[t].m = m[Cls(t)] /\ Cls(t) \in Classes
        /\ pc'[t] = IF Static(Cls(t)) THEN "u_write" ELSE "u_parent"
    BY <1>0, <1>1, ThreadFacts DEF UpdateRead, Goto, Cls, Static, Update
  <2>2. MeterFits(Cls(t)) BY <2>1 DEF RatesInv
  <2> QED BY <2>1, <2>2 DEF CopyFits, MeterFits
<1>2. CASE UpdateReadParent(t)
  <2>1. /\ Cls(t)' = Cls(t) /\ Cls(t) \in Classes /\ pc'[t] = "u_write"
        /\ pc[t] = "u_parent" /\ up'[t].p = m[Conf[Cls(t)].pidx]
    BY <1>0, <1>2, ThreadFacts DEF UpdateReadParent, Goto, Cls, Update
  <2>2. ~Static(Cls(t)) BY <2>1 DEF RatesInv, CopyFits
  <2>3. ASSUME NEW r \in Classes, Static(r), Above(r, Cls(t))
        PROVE  up'[t].p.pir <= InitPir[r]
    <3>1. Above(r, Conf[Cls(t)].pidx) BY <2>1, <2>2, <2>3, AboveParent
    <3>2. Conf[Cls(t)].pidx \in Classes BY <2>1, WordTypes
    <3> QED BY <2>1, <2>3, <3>1, <3>2, RateBelow
  <2> QED BY <2>1, <2>2, <2>3 DEF CopyFits
<1>3. CASE pc'[t] \notin {"u_parent", "u_write"} BY <1>3 DEF CopyFits
<1>4. CASE ~UpdateRead(t) /\ ~UpdateReadParent(t)
  <2>1. pc'[t] \notin {"u_parent", "u_write"}
    BY <1>0, <1>4
    DEF Receive, Schedule, ClassTestSet, ClassMeter, CountBytes, UpdateTsc, UpdateWrite,
        UpdateNoChange, UpdateReset, UpdateCredit, UpdateDone, ReadTsc, ReadPir, ReadCur,
        ReadLow, StatusWrite, ForwardDirect, TryBorrow, SiblingDenied, SiblingStatus,
        DropPacket, BorrowTestSet, BorrowRead, BorrowWrite, BorrowForward, BorrowRefused,
        Finish, Goto
  <2> QED BY <1>3, <2>1
<1> QED BY <1>1, <1>2, <1>4

LEMMA RatesNext ==
    FrontEndWords /\ TypeInv /\ RatesInv /\ [Next]_vars => RatesInv'
<1> SUFFICES ASSUME FrontEndWords, TypeInv, RatesInv, [Next]_vars PROVE RatesInv'
  OBVIOUS
<1>1. CASE Tick \/ UNCHANGED vars
  <2>1. UNCHANGED <<m, pc, up>> /\ \A t \in Threads : Cls(t)' = Cls(t)
    BY <1>1 DEF Tick, vars, Cls
  <2> QED BY <2>1 DEF RatesInv, MeterFits, CopyFits
<1>2. ASSUME NEW t \in Threads, Receive(t) \/ Schedule(t) PROVE RatesInv'
  <2>1. \A k \in Classes : MeterFits(k)' BY <1>2, MeterFitsNext
  <2>2. ASSUME NEW u \in Threads PROVE CopyFits(u)'
    <3>1. CASE u = t BY <1>2, <3>1, CopyFitsOwn
    <3>2. CASE u # t
      <4>1. CopyFits(u) BY DEF RatesInv
      <4> QED BY <1>2, <3>2, <4>1, CopyFitsOther
    <3> QED BY <3>1, <3>2
  <2> QED BY <2>1, <2>2 DEF RatesInv
<1> QED BY <1>1, <1>2 DEF Next

LEMMA RatesInit == FrontEndWords /\ Init => RatesInv
<1> SUFFICES ASSUME FrontEndWords, Init PROVE RatesInv
  OBVIOUS
<1>1. ASSUME NEW k \in Classes, ~Static(k), NEW r \in Classes, Static(r), Above(r, k)
      PROVE  RateFits(k, InitPir[r], m[k].pir)
  <2>1. m[k].pir = 0 BY <1>1 DEF Init, FrontEndWords, WordsFit
  <2>2. /\ WordsFit(k) /\ InitPir[r] \in Nat
        /\ Conf[k].type \in 1..3 /\ Conf[k].cond0 \in Nat /\ Conf[k].cond1 \in Nat
    BY <1>1, WordTypes DEF FrontEndWords, Static
  <2>3. Conf[k].type = 3 => Conf[k].cond1 + 1 <= Conf[k].cond0 BY <2>2, HighLeaves
  <2> QED BY <2>1, <2>2, <2>3 DEF RateFits
<1>2. ASSUME NEW k \in Classes PROVE MeterFits(k)
  BY <1>1, <1>2 DEF MeterFits, Init
<1>3. \A t \in Threads : CopyFits(t) BY DEF Init, CopyFits
<1> QED BY <1>2, <1>3 DEF RatesInv

(* Whatever the tree of rules: two children of one class are never given   *)
(* more than the static class above them has, if their words are those     *)
(* fv_front.py writes (flowvalve.c:73-114, fv_front.py:76-123).            *)
THEOREM PrioritiesTheorem == FrontEndWords /\ Spec => []PrioritiesFit
<1> SUFFICES ASSUME FrontEndWords PROVE Spec => []PrioritiesFit OBVIOUS
<1>1. ASSUME TypeInv, RatesInv PROVE PrioritiesFit
  <2> SUFFICES ASSUME NEW r \in Classes, NEW j \in Classes, NEW k \in Classes,
                      Static(r), Siblings(j, k), Above(r, j)
               PROVE  \/ m[j].pir + m[k].pir <= m[r].pir
                      \/ m[j].pir <= 1 /\ m[k].pir <= 1
    BY DEF PrioritiesFit
  <2>1. ~Static(j) /\ ~Static(k) /\ Conf[j].pidx = Conf[k].pidx BY DEF Siblings
  <2>2. Above(r, Conf[k].pidx) BY <2>1, AboveParent
  <2>3. Above(r, k) BY <2>1, <2>2 DEF Above, Upwards
  <2>4. RateFits(j, InitPir[r], m[j].pir) /\ RateFits(k, InitPir[r], m[k].pir)
    BY <1>1, <2>1, <2>3 DEF RatesInv, MeterFits
  <2>5. m[r].pir = InitPir[r] BY <1>1 DEF RatesInv, MeterFits
  <2>6. /\ WordsFit(j) /\ WordsFit(k) /\ WordsAgree(Conf[j], Conf[k])
        /\ InitPir[r] \in Nat /\ InitPir[r] > 0
    BY <1>1, WordTypes DEF FrontEndWords, WordsFit
  <2>7. m[j].pir \in Nat /\ m[k].pir \in Nat
    BY <1>1 DEF TypeInv, TypeOK, Meter, Words
  <2> QED BY <2>1, <2>4, <2>5, <2>6, <2>7, SiblingsFit
<1>2. Init => RatesInv BY RatesInit
<1>3. TypeInv /\ RatesInv /\ [Next]_vars => RatesInv' BY RatesNext
<1>4. TypeInv /\ RatesInv => PrioritiesFit BY <1>1
<1> QED BY <1>2, <1>3, <1>4, TypeInvariant, PTL DEF Spec

-----------------------------------------------------------------------------
(* The operands of a refresh stay in their range, and what was computed    *)
(* was computed from them.                                                 *)
RefreshInv ==
    /\ in \in Operands /\ in.bucket <= in.pbs
    /\ \A r \in result :
          /\ r.bucket = Refill(in.bucket, in.ticks, in.pir, in.pbs)
          /\ r.borrow = BorrowRate(in.pir, in.pbs, in.bucket, in.ticks, in.bucket)
          /\ r.share = IF in.pbs = 0 THEN 0
                       ELSE Share(in.pir, [numer |-> in.bucket, denomi |-> in.pbs])
          /\ r.colour = StatusColour(in.pir, in.pbs, in.bucket, in.ticks)

LEMMA RefreshInvariant == RefreshSpec => []RefreshInv
<1>1. RefreshInit => RefreshInv BY DEF RefreshInit, RefreshInv
<1>2. RefreshInv /\ [Compute]_<<in, result>> => RefreshInv'
  BY DEF RefreshInv, Compute
<1> QED BY <1>1, <1>2, PTL DEF RefreshSpec

(* For every word size and every operand, the refill is the exact credit   *)
(* cut at the burst size (flowvalve.c:35-54, 155-167).                     *)
THEOREM RefillTheorem == RefreshSpec => []RefillIsExact
<1>1. RefreshInv => RefillIsExact
  <2> SUFFICES ASSUME RefreshInv, NEW r \in result, in.ticks * in.pir > 0
               PROVE  r.bucket = IF in.bucket + in.ticks * in.pir <= in.pbs
                                 THEN in.bucket + in.ticks * in.pir ELSE in.pbs
    BY DEF RefillIsExact
  <2>1. /\ in.bucket \in Words /\ in.ticks \in Words /\ in.pir \in Words
        /\ in.pbs \in Words /\ in.bucket <= in.pbs
    BY DEF RefreshInv, Operands
  <2>2. r.bucket = Refill(in.bucket, in.ticks, in.pir, in.pbs) BY DEF RefreshInv
  <2> QED BY <2>1, <2>2, RefillExact
<1> QED BY <1>1, RefreshInvariant, PTL

(* The rate a borrow update stores over the lock bit always clears it      *)
(* (flowvalve.c:220-236, 260).                                             *)
THEOREM BorrowRateTheorem == RefreshSpec => []BorrowRateUnlocks
<1>1. RefreshInv => BorrowRateUnlocks
  BY BorrowRateWord DEF RefreshInv, Operands, BorrowRateUnlocks
<1> QED BY <1>1, RefreshInvariant, PTL

(* No share of a rate exceeds it (flowvalve.c:78, 83, 94, 106).            *)
THEOREM ShareTheorem == RefreshSpec => []ShareFits
<1>1. RefreshInv => ShareFits
  <2> SUFFICES ASSUME RefreshInv, NEW r \in result PROVE r.share <= in.pir
    BY DEF ShareFits
  <2>1. in.pir \in Words /\ in.bucket \in Words /\ in.pbs \in Words /\ in.bucket <= in.pbs
    BY DEF RefreshInv, Operands
  <2>2. CASE in.pbs = 0
    BY <2>1, <2>2 DEF RefreshInv, Words
  <2>3. CASE in.pbs # 0
    <3> DEFINE c == [numer |-> in.bucket, denomi |-> in.pbs]
    <3>1. r.share = Share(in.pir, c) BY <2>3 DEF RefreshInv
    <3>2. c.numer \in Nat /\ c.denomi \in Nat /\ c.denomi > 0 /\ c.numer <= c.denomi
      BY <2>1, <2>3, WordFacts DEF Words
    <3> HIDE DEF c
    <3> QED BY <2>1, <3>1, <3>2, ShareAtMost
  <2> QED BY <2>2, <2>3
<1> QED BY <1>1, RefreshInvariant, PTL

(* A clock past the expiry of a meter did not wrap since its refresh. *)
LEMMA ExpiredStatus ==
    ASSUME NEW pir \in Words, NEW cur \in Words, NEW low \in Words, NEW t \in Words,
           t > low + Expire, pir > 0
    PROVE  StatusColour(pir, cur, low, t) = "Green"
<1>1. low + Expire < Word BY WordFacts DEF Words
<1>2. AddW(low, Expire) = low + Expire BY <1>1, WordFacts, AddWraps
<1>3. Expired(t, low) BY <1>2 DEF Expired
<1>4. pir \div 8 < pir BY WordFacts DEF Words
<1>5. pir \div 8 \in Words BY DivWord
<1>6. ~(pir - (pir \div 8) <= 0) BY <1>4, <1>5, WordFacts DEF Words
<1> QED BY <1>3, <1>6 DEF StatusColour

(* A class that was not refreshed in the last Expire ticks, and whose rate *)
(* is not 0, shows green (flowvalve.c:334-345).                            *)
THEOREM ExpiredTheorem == RefreshSpec => []ExpiredIsGreen
<1>1. RefreshInv => ExpiredIsGreen
  BY ExpiredStatus DEF RefreshInv, Operands, ExpiredIsGreen
<1> QED BY <1>1, RefreshInvariant, PTL

-----------------------------------------------------------------------------
(* The buckets of the data plane implement the token buckets of            *)
(* TokenBuckets, for any number of threads and classes: the meters if      *)
(* nobody borrows, the borrow buckets in the first turn of the clock.      *)
StampOf(k) == Stamp(m[k].high, m[k].low)

(* What a refreshing thread holds is no older than the meter: the time it  *)
(* read is between the meter's stamp and the present, and the meter it     *)
(* read has the same stamp and at least as many tokens as it has now.      *)
CopyInv ==
    /\ \A k \in Classes : ~Before(now, StampOf(k))
    /\ \A t \in Threads :
          /\ pc[t] \in {"u_read", "u_parent", "u_write"} =>
                ~Before(now, up[t].ctime) /\ ~Before(up[t].ctime, StampOf(Cls(t)))
          /\ pc[t] \in {"u_parent", "u_write"} =>
                /\ up[t].m.low = m[Cls(t)].low
                /\ Upper(up[t].m.high) = Upper(m[Cls(t)].high)
                /\ m[Cls(t)].bucket <= up[t].m.bucket
                /\ up[t].m.bucket <= Conf[Cls(t)].pbs

RefineInv == BoundInv /\ MeterInv /\ CopyInv

-----------------------------------------------------------------------------
(* The order of times. *)
LEMMA BeforeFacts ==
    ASSUME NEW x \in Time, NEW y \in Time
    PROVE  /\ ~Before(x, x)
           /\ Before(x, y) => ~Before(y, x)
           /\ ~Before(x, y) /\ ~Before(y, x) => x = y
           /\ x.up < y.up => Before(x, y)
<1>1. /\ x.up \in Int /\ x.low \in Int /\ x = [up |-> x.up, low |-> x.low]
      /\ y.up \in Int /\ y.low \in Int /\ y = [up |-> y.up, low |-> y.low]
  BY WordFacts DEF Time, Words
<1> QED BY <1>1 DEF Before

LEMMA BeforeTransitive ==
    ASSUME NEW x \in Time, NEW y \in Time, NEW z \in Time, Before(x, y), ~Before(x, z)
    PROVE  ~Before(y, z)
<1>1. /\ x.up \in Int /\ x.low \in Int /\ y.up \in Int /\ y.low \in Int
      /\ z.up \in Int /\ z.low \in Int
  BY WordFacts DEF Time, Words
<1> QED BY <1>1 DEF Before

LEMMA TickForward == ASSUME TypeInv, Tick PROVE now \in Time /\ now' \in Time /\ Before(now, now')
<1>1. now \in Time /\ now' \in Time
  <2>1. TypeInv' BY TypeNext DEF Next
  <2> QED BY <2>1 DEF TypeInv, TypeOK
<1>2. /\ now.up \in Int /\ now.low \in Int /\ now = [up |-> now.up, low |-> now.low]
  BY <1>1, WordFacts DEF Time, Words
<1>3. now' = IF now.low = Word - 1 THEN [up |-> now.up + 1, low |-> 0]
                                   ELSE [up |-> now.up, low |-> now.low + 1]
  BY <1>2 DEF Tick
<1> QED BY <1>1, <1>2, <1>3 DEF Before

LEMMA StampTime ==
    ASSUME TypeInv, NEW k \in Classes PROVE StampOf(k) \in Time
<1>1. m[k].high \in Words /\ m[k].low \in Words BY DEF TypeInv, TypeOK, Meter
<1> QED BY <1>1, UpperWord DEF StampOf, Stamp, Time

-----------------------------------------------------------------------------
(* Only the end of a refresh touches a stamp or gives tokens. *)
LEMMA MeterDataSteps ==
    ASSUME TypeInv, NEW t \in Threads, Receive(t) \/ Schedule(t), NEW k \in Classes
    PROVE  \/ UpdateWrite(t) /\ k = Cls(t)
           \/ /\ m'[k].low = m[k].low /\ Upper(m'[k].high) = Upper(m[k].high)
              /\ m'[k].bucket <= m[k].bucket
              /\ ClassMeter(t) \/ m'[k].bucket = m[k].bucket
<1>1. /\ m \in [Classes -> Meter] /\ up \in [Threads -> Update]
      /\ m[k].bucket \in Words /\ m[k].high \in Words
  BY DEF TypeInv, TypeOK, Meter
<1>0. m[k].bucket <= m[k].bucket BY <1>1 DEF Words
<1>2. CASE ClassTestSet(t)
  <2>1. Upper(TestSet(m[k].high)) = Upper(m[k].high) BY <1>1, UpperLocked
  <2>2. m'[k] = m[k] \/ m'[k] = [m[k] EXCEPT !.high = TestSet(m[k].high)]
    BY <1>1, <1>2 DEF ClassTestSet
  <2> QED BY <1>0, <1>1, <2>1, <2>2 DEF Meter
<1>3. CASE ClassMeter(t)
  <2>1. pc[t] = "meter" BY <1>3 DEF ClassMeter
  <2>2. Cls(t) \in Classes /\ job[t].tlen \in Words BY <2>1, ThreadFacts
  <2>3. m[Cls(t)].bucket \in Words BY <1>1, <2>2 DEF Meter
  <2>4. Debit(m[Cls(t)].bucket, job[t].tlen) <= m[Cls(t)].bucket
    BY <2>2, <2>3, DebitWord
  <2> QED BY <1>0, <1>1, <1>3, <2>2, <2>4 DEF ClassMeter, Meter
<1>4. CASE CountBytes(t) BY <1>0, <1>1, <1>4 DEF CountBytes, Meter
<1>5. CASE UpdateWrite(t)
  <2>1. k # Cls(t) => m'[k] = m[k]
    BY <1>1, <1>5 DEF UpdateWrite, UpdateNoChange, UpdateReset, UpdateCredit
  <2> QED BY <1>0, <1>5, <2>1
<1>6. CASE UNCHANGED m BY <1>0, <1>6
<1> QED
  BY <1>2, <1>3, <1>4, <1>5, <1>6
  DEF Receive, Schedule, UpdateTsc, UpdateRead, UpdateReadParent, ReadTsc,
      ReadPir, ReadCur, ReadLow, StatusWrite, ForwardDirect, TryBorrow, SiblingDenied,
      SiblingStatus, DropPacket, BorrowTestSet, BorrowRead, BorrowWrite, BorrowForward,
      BorrowRefused

(* A refresh leaves its meter alone or refills it: the stamp moves forward *)
(* to the time the refresh read, and no token is lost.                     *)
LEMMA UpdateRefills ==
    ASSUME RefineInv, NEW t \in Threads, UpdateWrite(t)
    PROVE  \/ StampOf(Cls(t))' = StampOf(Cls(t)) /\ m'[Cls(t)].bucket = m[Cls(t)].bucket
           \/ /\ StampOf(Cls(t))' = up[t].ctime /\ Before(StampOf(Cls(t)), up[t].ctime)
              /\ m'[Cls(t)].bucket \in m[Cls(t)].bucket..Conf[Cls(t)].pbs
<1> DEFINE k == Cls(t)
<1>0. TypeInv BY DEF RefineInv, BoundInv
<1>1. pc[t] = "u_write"
  BY DEF UpdateWrite, UpdateNoChange, UpdateReset, UpdateCredit
<1>2. /\ m \in [Classes -> Meter] /\ k \in Classes /\ up[t] \in Update
      /\ up[t].ctime \in Time /\ up[t].m \in Meter /\ up[t].p \in Meter
  BY <1>0, <1>1, ThreadFacts DEF TypeInv, TypeOK, Update
<1>3. /\ up[t].ctime.up \in 0..(UpperMod - 1) /\ up[t].ctime.low \in Words
      /\ up[t].ctime = [up |-> up[t].ctime.up, low |-> up[t].ctime.low]
  BY <1>2 DEF Time
<1>4. Upper(up[t].ctime.up) = up[t].ctime.up BY <1>3, WordFacts DEF Upper
<1>5. /\ up[t].m.low = m[k].low /\ Upper(up[t].m.high) = Upper(m[k].high)
      /\ m[k].bucket <= up[t].m.bucket /\ up[t].m.bucket <= Conf[k].pbs
      /\ ~Before(up[t].ctime, StampOf(k))
  BY <1>1 DEF RefineInv, CopyInv
<1>6. ReadStamp(t) = StampOf(k) BY <1>5 DEF ReadStamp, StampOf, Stamp
<1>7. StampOf(k) \in Time BY <1>0, <1>2, StampTime
<1>8. /\ m[k].bucket \in Words /\ up[t].m.bucket \in Words /\ up[t].m.low \in Words
      /\ Conf[k].pbs \in Words
  BY <1>2, ConfigAssumption DEF Meter
<1>9. UNCHANGED job
  BY DEF UpdateWrite, UpdateNoChange, UpdateReset, UpdateCredit, UpdateDone
<1>10. Cls(t)' = Cls(t) BY <1>9 DEF Cls
<1>11. CASE UpdateNoChange(t)
  <2>1. ~Before(StampOf(k), up[t].ctime) BY <1>6, <1>11 DEF UpdateNoChange
  <2>2. up[t].ctime = StampOf(k) BY <1>2, <1>5, <1>7, <2>1, BeforeFacts
  <2>3. /\ m'[k].high = up[t].ctime.up /\ m'[k].low = m[k].low
        /\ m'[k].bucket = m[k].bucket
    BY <1>2, <1>11 DEF UpdateNoChange, Meter
  <2>4. Stamp(m'[k].high, m'[k].low) = StampOf(k)
    BY <1>4, <2>2, <2>3 DEF StampOf, Stamp
  <2> QED BY <1>10, <2>3, <2>4 DEF StampOf
<1>12. CASE UpdateReset(t)
  <2>1. up[t].ctime.up - StampOf(k).up > 1 BY <1>6, <1>12 DEF UpdateReset
  <2>2. StampOf(k).up < up[t].ctime.up BY <1>3, <1>7, <2>1, WordFacts DEF Time
  <2>3. Before(StampOf(k), up[t].ctime) BY <1>2, <1>7, <2>2, BeforeFacts
  <2>4. /\ m'[k].high = up[t].ctime.up /\ m'[k].low = up[t].ctime.low
        /\ m'[k].bucket = Conf[k].pbs
    BY <1>2, <1>12 DEF UpdateReset, Meter
  <2>5. Stamp(m'[k].high, m'[k].low) = up[t].ctime BY <1>3, <1>4, <2>4 DEF Stamp
  <2>6. m'[k].bucket \in m[k].bucket..Conf[k].pbs BY <1>5, <1>8, <2>4 DEF Words
  <2> QED BY <1>10, <2>3, <2>5, <2>6 DEF StampOf
<1>13. CASE UpdateCredit(t)
  <2> DEFINE td == TDelta(up[t].ctime.low, up[t].m.low)
             r == Refill(up[t].m.bucket, td, Rate(t), Conf[Cls(t)].pbs)
  <2>1. Before(StampOf(k), up[t].ctime) BY <1>6, <1>13 DEF UpdateCredit
  <2>2. Rate(t) \in Words BY <1>2, ConfigAssumption, ClassRateWord, SMTT(30) DEF Rate, Meter
  <2>3. td \in Words BY <1>3, <1>8, TDeltaWord
  <2>4. r \in up[t].m.bucket..Conf[k].pbs BY <1>5, <1>8, <2>2, <2>3, RefillBounds
  <2>5. r \in m[k].bucket..Conf[k].pbs BY <1>5, <1>8, <2>4 DEF Words
  <2>6. /\ m'[k].high = up[t].ctime.up /\ m'[k].low = up[t].ctime.low
        /\ m'[k].bucket = r
    BY <1>2, <1>13 DEF UpdateCredit, Meter
  <2>7. Stamp(m'[k].high, m'[k].low) = up[t].ctime BY <1>3, <1>4, <2>6 DEF Stamp
  <2> QED BY <1>10, <2>1, <2>5, <2>6, <2>7 DEF StampOf
<1> QED BY <1>11, <1>12, <1>13 DEF UpdateWrite

-----------------------------------------------------------------------------
(* A refreshing thread holds the lock bit, alone. *)
LEMMA RefreshAlone ==
    ASSUME RefineInv, NEW t \in Threads, pc[t] \in UpdateSteps
    PROVE  /\ job[t].phase = "class" /\ Cls(t) \in Classes /\ Refreshing(t, Cls(t))
           /\ \A u \in Threads :
                 u # t /\ pc[u] \in UpdateSteps => Cls(u) # Cls(t)
<1>0. TypeInv /\ OnlyClassLoop /\ MeterMutex BY DEF RefineInv, BoundInv, MeterInv
<1>1. \A u \in Threads : pc[u] \in UpdateSteps => job[u].phase = "class" /\ Cls(u) \in Classes
  BY <1>0, ThreadFacts DEF OnlyClassLoop, UpdateSteps
<1>2. \A u \in Threads : pc[u] \in UpdateSteps => Refreshing(u, Cls(u))
  BY <1>1 DEF Refreshing
<1> QED BY <1>0, <1>1, <1>2 DEF MeterMutex

(* What thread t knows of the meter and of the present stays true in a     *)
(* step that leaves its locals alone and does not end a refresh of the     *)
(* same meter.                                                             *)
LEMMA CopyKept ==
    ASSUME RefineInv, NEW u \in Threads, pc[u] \in UpdateSteps,
           UNCHANGED now, pc'[u] = pc[u], up'[u] = up[u], Cls(u)' = Cls(u),
           m'[Cls(u)].low = m[Cls(u)].low, Upper(m'[Cls(u)].high) = Upper(m[Cls(u)].high),
           m'[Cls(u)].bucket <= m[Cls(u)].bucket, TypeInv'
    PROVE  /\ pc'[u] \in {"u_read", "u_parent", "u_write"} =>
                ~Before(now', up'[u].ctime) /\ ~Before(up'[u].ctime, StampOf(Cls(u))')
           /\ pc'[u] \in {"u_parent", "u_write"} =>
                /\ up'[u].m.low = m'[Cls(u)'].low
                /\ Upper(up'[u].m.high) = Upper(m'[Cls(u)'].high)
                /\ m'[Cls(u)'].bucket <= up'[u].m.bucket
                /\ up'[u].m.bucket <= Conf[Cls(u)'].pbs
<1>1. TypeInv /\ CopyInv BY DEF RefineInv, BoundInv
<1>2. Cls(u) \in Classes BY RefreshAlone
<1>3. m[Cls(u)].bucket \in Words /\ m'[Cls(u)].bucket \in Words /\ up[u].m.bucket \in Words
  BY <1>1, <1>2 DEF TypeInv, TypeOK, Meter, Update
<1>4. StampOf(Cls(u))' = StampOf(Cls(u)) BY DEF StampOf, Stamp
<1>5. m[Cls(u)].bucket <= up[u].m.bucket => m'[Cls(u)].bucket <= up[u].m.bucket
  BY <1>3 DEF Words
<1> QED BY <1>1, <1>4, <1>5 DEF CopyInv

(* What thread t knows after a step of its own. *)
LEMMA CopyOwn ==
    ASSUME RefineInv, NEW t \in Threads, Receive(t) \/ Schedule(t), TypeInv'
    PROVE  /\ pc'[t] \in {"u_read", "u_parent", "u_write"} =>
                ~Before(now', up'[t].ctime) /\ ~Before(up'[t].ctime, StampOf(Cls(t))')
           /\ pc'[t] \in {"u_parent", "u_write"} =>
                /\ up'[t].m.low = m'[Cls(t)'].low
                /\ Upper(up'[t].m.high) = Upper(m'[Cls(t)'].high)
                /\ m'[Cls(t)'].bucket <= up'[t].m.bucket
                /\ up'[t].m.bucket <= Conf[Cls(t)'].pbs
<1>0. TypeInv /\ CopyInv /\ BucketBounded /\ OnlyClassLoop
  BY DEF RefineInv, BoundInv, MeterInv
<1>1. /\ now \in Time /\ m \in [Classes -> Meter] /\ up \in [Threads -> Update]
      /\ pc \in [Threads -> Steps]
  BY <1>0 DEF TypeInv, TypeOK
<1>2. CASE UpdateTsc(t)
  <2>1. pc'[t] = "u_read" /\ up'[t].ctime = now /\ UNCHANGED <<now, m, job>>
    BY <1>1, <1>2 DEF UpdateTsc, Goto, Update
  <2>2. Cls(t) \in Classes BY <1>2, RefreshAlone DEF UpdateTsc, UpdateSteps
  <2>3. Cls(t)' = Cls(t) BY <2>1 DEF Cls
  <2>4. StampOf(Cls(t))' = StampOf(Cls(t)) BY <2>1, <2>3 DEF StampOf
  <2>5. ~Before(now, now) BY <1>1, BeforeFacts
  <2>6. ~Before(now, StampOf(Cls(t))) BY <1>0, <2>2 DEF CopyInv
  <2> QED BY <2>1, <2>4, <2>5, <2>6
<1>3. CASE UpdateRead(t)
  <2>1. /\ pc[t] = "u_read" /\ up'[t].ctime = up[t].ctime /\ up'[t].m = m[Cls(t)]
        /\ UNCHANGED <<now, m, job>>
    BY <1>1, <1>3 DEF UpdateRead, Update
  <2>2. Cls(t) \in Classes BY <2>1, RefreshAlone DEF UpdateSteps
  <2>3. Cls(t)' = Cls(t) BY <2>1 DEF Cls
  <2>4. StampOf(Cls(t))' = StampOf(Cls(t)) BY <2>1, <2>3 DEF StampOf
  <2>5. ~Before(now, up[t].ctime) /\ ~Before(up[t].ctime, StampOf(Cls(t)))
    BY <1>0, <2>1 DEF CopyInv
  <2>6. m[Cls(t)].bucket <= m[Cls(t)].bucket /\ m[Cls(t)].bucket <= Conf[Cls(t)].pbs
    BY <1>0, <1>1, <2>2 DEF BucketBounded, Meter, Words
  <2> QED BY <2>1, <2>3, <2>4, <2>5, <2>6
<1>4. CASE UpdateReadParent(t)
  <2>1. /\ pc[t] = "u_parent" /\ up'[t].ctime = up[t].ctime /\ up'[t].m = up[t].m
        /\ UNCHANGED <<now, m, job>>
    BY <1>1, <1>4 DEF UpdateReadParent, Update
  <2>2. Cls(t)' = Cls(t) BY <2>1 DEF Cls
  <2>3. StampOf(Cls(t))' = StampOf(Cls(t)) BY <2>1, <2>2 DEF StampOf
  <2> QED BY <1>0, <2>1, <2>2, <2>3 DEF CopyInv
<1>5. CASE UpdateWrite(t)
  <2>1. pc[t] = "u_write" /\ UpdateDone(t)
    BY <1>5 DEF UpdateWrite, UpdateNoChange, UpdateReset, UpdateCredit
  <2>2. pc'[t] \in {"meter", "b_write"} BY <1>1, <2>1 DEF UpdateDone, Goto
  <2> QED BY <2>2
<1>6. CASE ClassTestSet(t)
  <2>1. pc'[t] \in {"meter", "u_tsc"} BY <1>1, <1>6 DEF ClassTestSet, Goto
  <2> QED BY <2>1
<1>7. CASE BorrowRead(t)
  <2>1. pc[t] = "b_read" BY <1>7 DEF BorrowRead
  <2>2. job[t].phase = "borrow" BY <1>0, <2>1, ThreadFacts DEF BorrowOnly, BorrowSteps
  <2> QED BY <1>0, <2>1, <2>2 DEF OnlyClassLoop
<1>8. CASE \/ Receive(t) \/ ClassMeter(t) \/ CountBytes(t) \/ StatusWrite(t)
           \/ ForwardDirect(t) \/ TryBorrow(t) \/ SiblingDenied(t) \/ SiblingStatus(t)
           \/ DropPacket(t) \/ BorrowTestSet(t) \/ BorrowWrite(t) \/ BorrowForward(t)
           \/ BorrowRefused(t)
  <2>1. pc'[t] \notin UpdateSteps
    BY <1>1, <1>8 DEF Receive, ClassMeter, CountBytes, StatusWrite, ForwardDirect,
       TryBorrow, SiblingDenied, SiblingStatus, DropPacket, BorrowTestSet, BorrowWrite,
       BorrowForward, BorrowRefused, Finish, Goto, UpdateSteps
  <2> QED BY <2>1 DEF UpdateSteps
<1>9. CASE ReadTsc(t) \/ ReadPir(t) \/ ReadCur(t) \/ ReadLow(t)
  <2>1. pc'[t] \notin UpdateSteps
    BY <1>1, <1>9 DEF ReadTsc, ReadPir, ReadCur, ReadLow, Goto, UpdateSteps
  <2> QED BY <2>1 DEF UpdateSteps
<1> QED BY <1>2, <1>3, <1>4, <1>5, <1>6, <1>7, <1>8, <1>9 DEF Schedule

LEMMA OtherUp ==
    ASSUME TypeInv, NEW t \in Threads, Receive(t) \/ Schedule(t),
           NEW u \in Threads, u # t
    PROVE  up'[u] = up[u] /\ UNCHANGED now
BY DEF TypeInv, TypeOK, Receive, Schedule, ClassTestSet, ClassMeter, CountBytes, UpdateTsc,
   UpdateRead, UpdateReadParent, UpdateWrite, UpdateNoChange, UpdateReset, UpdateCredit,
   UpdateDone, ReadTsc, ReadPir, ReadCur, ReadLow, StatusWrite, ForwardDirect, TryBorrow,
   SiblingDenied, SiblingStatus, DropPacket, BorrowTestSet, BorrowRead, BorrowWrite,
   BorrowForward, BorrowRefused

LEMMA SameNow ==
    ASSUME NEW t \in Threads, Receive(t) \/ Schedule(t) PROVE UNCHANGED now
BY DEF Receive, Schedule, ClassTestSet, ClassMeter, CountBytes, UpdateTsc,
   UpdateRead, UpdateReadParent, UpdateWrite, UpdateNoChange, UpdateReset, UpdateCredit,
   UpdateDone, ReadTsc, ReadPir, ReadCur, ReadLow, StatusWrite, ForwardDirect, TryBorrow,
   SiblingDenied, SiblingStatus, DropPacket, BorrowTestSet, BorrowRead, BorrowWrite,
   BorrowForward, BorrowRefused

LEMMA CopyNext == RefineInv /\ TypeInv' /\ [Next]_vars => CopyInv'
<1> SUFFICES ASSUME RefineInv, TypeInv', [Next]_vars PROVE CopyInv'
  OBVIOUS
<1>0. TypeInv /\ CopyInv BY DEF RefineInv, BoundInv
<1>1. CASE Tick
  <2>1. now \in Time /\ now' \in Time /\ Before(now, now') BY <1>0, <1>1, TickForward
  <2>2. UNCHANGED <<m, pc, job, up>> BY <1>1 DEF Tick
  <2>3. \A t \in Threads : Cls(t)' = Cls(t) BY <2>2 DEF Cls
  <2>4. \A x \in Time : ~Before(now, x) => ~Before(now', x)
    <3>1. ASSUME NEW x \in Time, Before(now', x) PROVE Before(now, x)
      <4>1. /\ now.up \in Int /\ now.low \in Int /\ now'.up \in Int /\ now'.low \in Int
            /\ x.up \in Int /\ x.low \in Int
        BY <2>1, WordFacts DEF Time, Words
      <4> QED BY <2>1, <3>1, <4>1 DEF Before
    <3> QED BY <3>1
  <2>5. \A k \in Classes : StampOf(k) \in Time BY <1>0, StampTime
  <2>6. \A t \in Threads : up[t].ctime \in Time BY <1>0 DEF TypeInv, TypeOK, Update
  <2>7. \A k \in Classes : StampOf(k)' = StampOf(k) BY <2>2 DEF StampOf
  <2>8. \A t \in Threads : StampOf(Cls(t))' = StampOf(Cls(t)) BY <2>2, <2>3 DEF StampOf
  <2> QED BY <1>0, <2>2, <2>3, <2>4, <2>5, <2>6, <2>7, <2>8 DEF CopyInv
<1>2. CASE UNCHANGED vars
  <2>1. UNCHANGED <<now, m, pc, job, up>> BY <1>2 DEF vars
  <2>2. \A t \in Threads : Cls(t)' = Cls(t) BY <2>1 DEF Cls
  <2> QED BY <1>0, <2>1, <2>2 DEF CopyInv, StampOf
<1>3. ASSUME NEW t \in Threads, Receive(t) \/ Schedule(t) PROVE CopyInv'
  <2>1. UNCHANGED now BY <1>3, SameNow
  <2>2. ASSUME NEW k \in Classes PROVE ~Before(now', StampOf(k)')
    <3>1. CASE UpdateWrite(t) /\ k = Cls(t)
      <4>1. pc[t] = "u_write"
        BY <3>1 DEF UpdateWrite, UpdateNoChange, UpdateReset, UpdateCredit
      <4>2. Cls(t)' = Cls(t)
        BY <3>1 DEF UpdateWrite, UpdateNoChange, UpdateReset, UpdateCredit, UpdateDone, Cls
      <4>3. StampOf(k)' = StampOf(k) \/ StampOf(k)' = up[t].ctime
        BY <3>1, <4>2, UpdateRefills DEF StampOf
      <4> QED BY <1>0, <2>1, <4>1, <4>3 DEF CopyInv
    <3>2. CASE ~(UpdateWrite(t) /\ k = Cls(t))
      <4>1. StampOf(k)' = StampOf(k) BY <1>0, <1>3, <3>2, MeterDataSteps DEF StampOf, Stamp
      <4> QED BY <1>0, <2>1, <4>1 DEF CopyInv
    <3> QED BY <3>1, <3>2
  <2>3. ASSUME NEW u \in Threads
        PROVE  /\ pc'[u] \in {"u_read", "u_parent", "u_write"} =>
                    ~Before(now', up'[u].ctime) /\ ~Before(up'[u].ctime, StampOf(Cls(u))')
               /\ pc'[u] \in {"u_parent", "u_write"} =>
                    /\ up'[u].m.low = m'[Cls(u)'].low
                    /\ Upper(up'[u].m.high) = Upper(m'[Cls(u)'].high)
                    /\ m'[Cls(u)'].bucket <= up'[u].m.bucket
                    /\ up'[u].m.bucket <= Conf[Cls(u)'].pbs
    <3>1. CASE u = t BY <1>3, <3>1, CopyOwn
    <3>2. CASE u # t /\ pc[u] \in UpdateSteps
      <4>1. pc'[u] = pc[u] /\ Cls(u)' = Cls(u) /\ up'[u] = up[u]
        BY <1>0, <1>3, <3>2, OtherThreads, OtherUp
      <4>2. Cls(u) \in Classes BY <3>2, RefreshAlone
      <4>3. ~(UpdateWrite(t) /\ Cls(u) = Cls(t))
        <5>1. UpdateWrite(t) => pc[t] = "u_write"
          BY DEF UpdateWrite, UpdateNoChange, UpdateReset, UpdateCredit
        <5> QED BY <3>2, <5>1, RefreshAlone DEF UpdateSteps
      <4>4. /\ m'[Cls(u)].low = m[Cls(u)].low
            /\ Upper(m'[Cls(u)].high) = Upper(m[Cls(u)].high)
            /\ m'[Cls(u)].bucket <= m[Cls(u)].bucket
        BY <1>0, <1>3, <4>2, <4>3, MeterDataSteps
      <4> QED BY <2>1, <3>2, <4>1, <4>4, CopyKept
    <3>3. CASE u # t /\ pc[u] \notin UpdateSteps
      <4>1. pc'[u] = pc[u] BY <1>0, <1>3, <3>3, OtherThreads
      <4> QED BY <3>3, <4>1 DEF UpdateSteps
    <3> QED BY <3>1, <3>2, <3>3
  <2> QED BY <2>2, <2>3 DEF CopyInv
<1> QED BY <1>1, <1>2, <1>3 DEF Next

LEMMA RefineNext ==
    ASSUME NoBorrowing PROVE RefineInv /\ [Next]_vars => RefineInv'
<1> SUFFICES ASSUME RefineInv, [Next]_vars PROVE RefineInv' OBVIOUS
<1>1. BoundInv' BY BoundNext DEF RefineInv
<1>2. MeterInv' BY MeterMutexNext DEF RefineInv, BoundInv
<1>3. CopyInv' BY <1>1, CopyNext DEF BoundInv
<1> QED BY <1>1, <1>2, <1>3 DEF RefineInv

LEMMA RefineInit == Init => RefineInv
<1> SUFFICES ASSUME Init PROVE RefineInv OBVIOUS
<1>1. MeterInv
  BY InitUnlocked DEF MeterInv, OnlyClassLoop, MeterLocked, MeterMutex, Init, NoJob
<1>2. ASSUME NEW k \in Classes PROVE ~Before(now, StampOf(k))
  <2>1. StampOf(k) = [up |-> 0, low |-> 0]
    BY <1>2, WordFacts DEF Init, StampOf, Stamp, Upper
  <2>2. now \in Time BY ConfigAssumption DEF Init
  <2> QED BY <2>1, <2>2, WordFacts DEF Before, Time, Words
<1>3. CopyInv BY <1>2 DEF Init, CopyInv
<1> QED BY <1>1, <1>3, BoundInit DEF RefineInv

-----------------------------------------------------------------------------
(* Every step of the data plane is a step of the token buckets or leaves   *)
(* them alone: the end of a refresh is a Fill, a metering is a Take.       *)
AbstractVars == <<MeterTokens, MeterStamps, now>>

LEMMA InitRefines == Init => Abstract!TBInit
BY WordFacts DEF Init, Abstract!TBInit, MeterTokens, MeterStamps, Stamp, Upper

LEMMA StepRefines ==
    ASSUME RefineInv, [Next]_vars PROVE [Abstract!TBNext]_AbstractVars
<1>0. TypeInv BY DEF RefineInv, BoundInv
<1>1. CASE Tick
  <2>1. now' \in Time /\ Before(now, now') BY <1>0, <1>1, TickForward
  <2>2. UNCHANGED <<MeterTokens, MeterStamps>> BY <1>1 DEF Tick, MeterTokens, MeterStamps
  <2>3. Abstract!Pass BY <2>1, <2>2 DEF Abstract!Pass, Abstract!Time, Abstract!Before,
                         Abstract!Words, Time, Before, Words
  <2> QED BY <2>3 DEF Abstract!TBNext
<1>2. CASE UNCHANGED vars
  BY <1>2 DEF vars, AbstractVars, MeterTokens, MeterStamps
<1>3. ASSUME NEW t \in Threads, Receive(t) \/ Schedule(t)
      PROVE  [Abstract!TBNext]_AbstractVars
  <2>1. UNCHANGED now BY <1>3, SameNow
  <2>2. CASE UpdateWrite(t)
    <3> DEFINE c == Cls(t)
    <3>1. pc[t] = "u_write"
      BY <2>2 DEF UpdateWrite, UpdateNoChange, UpdateReset, UpdateCredit
    <3>2. c \in Classes BY <3>1, RefreshAlone DEF UpdateSteps
    <3>3. \A k \in Classes : k # c => m'[k] = m[k]
      BY <1>0, <2>2 DEF UpdateWrite, UpdateNoChange, UpdateReset, UpdateCredit, TypeInv, TypeOK
    <3>4. Cls(t)' = c
      BY <2>2 DEF UpdateWrite, UpdateNoChange, UpdateReset, UpdateCredit, UpdateDone, Cls
    <3>5. up[t].ctime \in Time /\ ~Before(now, up[t].ctime)
      BY <1>0, <3>1 DEF TypeInv, TypeOK, Update, RefineInv, CopyInv
    <3>6. CASE StampOf(Cls(t))' = StampOf(Cls(t)) /\ m'[Cls(t)].bucket = m[Cls(t)].bucket
      <4>1. Stamp(m'[c].high, m'[c].low) = Stamp(m[c].high, m[c].low)
        BY <3>4, <3>6 DEF StampOf
      <4> HIDE DEF c
      <4>2. UNCHANGED <<MeterTokens, MeterStamps>>
        BY <3>3, <3>6, <4>1 DEF MeterTokens, MeterStamps, c
      <4> QED BY <2>1, <4>2 DEF AbstractVars
    <3>7. CASE /\ StampOf(Cls(t))' = up[t].ctime /\ Before(StampOf(Cls(t)), up[t].ctime)
               /\ m'[Cls(t)].bucket \in m[Cls(t)].bucket..Conf[Cls(t)].pbs
      <4>1. Stamp(m'[c].high, m'[c].low) = up[t].ctime BY <3>4, <3>7 DEF StampOf
      <4>2. m'[c].bucket \in m[c].bucket..Conf[c].pbs BY <3>7
      <4>3. Before(MeterStamps[c], up[t].ctime) BY <3>2, <3>7 DEF MeterStamps, StampOf
      <4> HIDE DEF c
      <4>4. MeterStamps' = [MeterStamps EXCEPT ![c] = up[t].ctime]
        BY <3>2, <3>3, <4>1 DEF MeterStamps
      <4>5. MeterTokens' = [MeterTokens EXCEPT ![c] = m'[c].bucket]
        BY <3>2, <3>3 DEF MeterTokens
      <4>6. m'[c].bucket \in MeterTokens[c]..Conf[c].pbs
        BY <3>2, <4>2 DEF MeterTokens
      <4>7. Abstract!Fill(c)
        BY <2>1, <3>2, <3>5, <4>3, <4>4, <4>5, <4>6
        DEF Abstract!Fill, Abstract!Time, Abstract!Before, Abstract!Words, Time, Before, Words
      <4> QED BY <3>2, <4>7 DEF Abstract!TBNext
    <3> QED BY <2>2, <3>6, <3>7, UpdateRefills
  <2>3. CASE ClassMeter(t)
    <3> DEFINE c == Cls(t)
               n == m[c].bucket - m'[c].bucket
    <3>1. pc[t] = "meter" BY <2>3 DEF ClassMeter
    <3>2. c \in Classes /\ job[t].tlen \in Words BY <1>0, <3>1, ThreadFacts
    <3>3. m \in [Classes -> Meter] /\ m[c].bucket \in Words
      BY <1>0, <3>2 DEF TypeInv, TypeOK, Meter
    <3>4. /\ Debit(m[c].bucket, job[t].tlen) \in Words
          /\ Debit(m[c].bucket, job[t].tlen) <= m[c].bucket
      BY <3>2, <3>3, DebitWord
    <3>5. m' = [m EXCEPT ![c].bucket = Debit(m[c].bucket, job[t].tlen)]
      BY <2>3 DEF ClassMeter
    <3>6. m'[c].bucket = Debit(m[c].bucket, job[t].tlen) BY <3>2, <3>3, <3>5 DEF Meter
    <3>7. n \in 0..m[c].bucket BY <3>3, <3>4, <3>6 DEF Words
    <3>8. m'[c].bucket = m[c].bucket - n BY <3>3, <3>4, <3>6 DEF Words
    <3>9. \A k \in Classes : /\ m'[k].high = m[k].high /\ m'[k].low = m[k].low
                             /\ k # c => m'[k].bucket = m[k].bucket
      BY <3>2, <3>3, <3>5 DEF Meter
    <3> HIDE DEF c, n
    <3>10. UNCHANGED MeterStamps BY <3>9 DEF MeterStamps
    <3>11. MeterTokens' = [MeterTokens EXCEPT ![c] = MeterTokens[c] - n]
      BY <3>2, <3>8, <3>9 DEF MeterTokens
    <3>12. n \in 0..MeterTokens[c] BY <3>2, <3>7 DEF MeterTokens
    <3>13. Abstract!Take(c) BY <2>1, <3>10, <3>11, <3>12 DEF Abstract!Take
    <3> QED BY <3>2, <3>13 DEF Abstract!TBNext
  <2>4. CASE ~UpdateWrite(t) /\ ~ClassMeter(t)
    <3>1. \A k \in Classes : /\ m'[k].low = m[k].low /\ Upper(m'[k].high) = Upper(m[k].high)
                             /\ m'[k].bucket = m[k].bucket
      BY <1>0, <1>3, <2>4, MeterDataSteps
    <3>2. UNCHANGED <<MeterTokens, MeterStamps>>
      BY <3>1 DEF MeterTokens, MeterStamps, Stamp
    <3> QED BY <2>1, <3>2 DEF AbstractVars
  <2> QED BY <2>2, <2>3, <2>4
<1> QED BY <1>1, <1>2, <1>3 DEF Next

(* The meters are token buckets, for any threads, classes and word size:   *)
(* pif_plugin_fv_schedule and update_fv_class, with the lost debits and    *)
(* the lock-free metering of flowvalve.c, never pay for a tick twice,      *)
(* never destroy tokens and never exceed a burst, if no flow may borrow.   *)
THEOREM RefinementTheorem == NoBorrowing /\ Spec => MetersAreTokenBuckets
<1> SUFFICES ASSUME NoBorrowing PROVE Spec => MetersAreTokenBuckets OBVIOUS
<1>1. Spec => []RefineInv BY RefineInit, RefineNext, PTL DEF Spec
<1>2. RefineInv /\ [Next]_vars => [Abstract!TBNext]_AbstractVars BY StepRefines
<1> QED
  BY <1>1, <1>2, InitRefines, PTL
  DEF Spec, MetersAreTokenBuckets, Abstract!TBSpec, AbstractVars

-----------------------------------------------------------------------------
(* The borrow buckets implement token buckets too, for any flows, while    *)
(* the clock is in the first turn of its lower word.  What a thread that   *)
(* refreshes a borrow bucket holds is no older than the bucket: its time   *)
(* from ReadTsc on, its copy of the bucket from BorrowRead on.             *)
HoldsTime(t) ==
    \/ pc[t] \in BorrowSteps \ {"b_tsc"}
    \/ pc[t] \in UpdateSteps /\ job[t].phase = "borrow"
HoldsBucket(t) ==
    \/ pc[t] = "b_write"
    \/ pc[t] \in UpdateSteps /\ job[t].phase = "borrow"
TimeFits(t) ==
    b[Cls(t)].low <= rd[t].ctime.low /\ rd[t].ctime.low <= now.low
BucketFits(t) ==
    /\ rd[t].b.low = b[Cls(t)].low
    /\ b[Cls(t)].bucket <= rd[t].b.bucket /\ rd[t].b.bucket <= Conf[Cls(t)].pbs

BorrowCopyInv ==
    /\ now.up = 0
    /\ \A k \in Classes : b[k].low <= now.low
    /\ \A t \in Threads : /\ HoldsTime(t) => TimeFits(t)
                          /\ HoldsBucket(t) => BucketFits(t)

BorrowRefineInv == BoundInv /\ BorrowInv /\ BorrowCopyInv

LEMMA HoldersRefresh ==
    ASSUME TypeInv, NEW t \in Threads, HoldsTime(t) \/ HoldsBucket(t)
    PROVE  /\ Cls(t) \in Classes /\ job[t].phase = "borrow"
           /\ HoldsTime(t) /\ RefreshingBorrow(t, Cls(t))
BY ThreadFacts
DEF HoldsTime, HoldsBucket, RefreshingBorrow, BorrowSteps, BorrowOnly, UpdateSteps

(* Only the end of a refresh touches the time of a borrow bucket or gives  *)
(* it tokens.                                                              *)
LEMMA BorrowDataSteps ==
    ASSUME TypeInv, NEW t \in Threads, Receive(t) \/ Schedule(t), NEW k \in Classes
    PROVE  \/ BorrowWrite(t) /\ k = Cls(t)
           \/ /\ b'[k].low = b[k].low /\ b'[k].bucket <= b[k].bucket
              /\ BorrowForward(t) \/ b'[k].bucket = b[k].bucket
<1>1. b \in [Classes -> Borrow] /\ b[k].bucket \in Words
  BY DEF TypeInv, TypeOK, Borrow
<1>0. b[k].bucket <= b[k].bucket BY <1>1 DEF Words
<1>2. CASE BorrowTestSet(t) BY <1>0, <1>1, <1>2 DEF BorrowTestSet, Borrow
<1>3. CASE BorrowForward(t)
  <2>1. pc[t] = "b_meter" BY <1>3 DEF BorrowForward
  <2>2. Cls(t) \in Classes /\ job[t].tlen \in Words BY <2>1, ThreadFacts
  <2>3. b[Cls(t)].bucket \in Words BY <1>1, <2>2 DEF Borrow
  <2>4. Debit(b[Cls(t)].bucket, job[t].tlen) <= b[Cls(t)].bucket
    BY <2>2, <2>3, DebitWord
  <2> QED BY <1>0, <1>1, <1>3, <2>2, <2>4 DEF BorrowForward, Borrow
<1>4. CASE BorrowWrite(t)
  <2>1. k # Cls(t) => b'[k] = b[k] BY <1>1, <1>4 DEF BorrowWrite
  <2> QED BY <1>0, <1>4, <2>1
<1>5. CASE UNCHANGED b BY <1>0, <1>5
<1> QED
  BY <1>2, <1>3, <1>4, <1>5
  DEF Receive, Schedule, ClassTestSet, ClassMeter, CountBytes, UpdateTsc, UpdateRead,
      UpdateReadParent, UpdateWrite, UpdateNoChange, UpdateReset, UpdateCredit, UpdateDone,
      ReadTsc, ReadPir, ReadCur, ReadLow, StatusWrite, ForwardDirect, TryBorrow,
      SiblingDenied, SiblingStatus, DropPacket, BorrowRead, BorrowRefused

(* A refresh leaves its bucket alone or refills it: the time moves forward *)
(* to the time the refresh read, and no token is lost.                     *)
LEMMA BorrowRefills ==
    ASSUME BorrowRefineInv, NEW t \in Threads, BorrowWrite(t)
    PROVE  /\ Cls(t) \in Classes /\ HoldsTime(t) /\ HoldsBucket(t)
           /\ \/ b'[Cls(t)].low = b[Cls(t)].low /\ b'[Cls(t)].bucket = b[Cls(t)].bucket
              \/ /\ b'[Cls(t)].low = rd[t].ctime.low /\ b[Cls(t)].low < rd[t].ctime.low
                 /\ b'[Cls(t)].bucket \in b[Cls(t)].bucket..Conf[Cls(t)].pbs
<1> DEFINE k == Cls(t)
           br == rd[t].b
           pir == BorrowRate(rd[t].pir, rd[t].cur, rd[t].low, rd[t].ctime.low,
                             Upper(br.high))
           td == TDelta(rd[t].ctime.low, br.low)
           r == Refill(br.bucket, td, pir, br.pbs)
<1>0. TypeInv /\ PbsKept BY DEF BorrowRefineInv, BoundInv
<1>1. pc[t] = "b_write" BY DEF BorrowWrite
<1>2. HoldsTime(t) /\ HoldsBucket(t) BY <1>1 DEF HoldsTime, HoldsBucket, BorrowSteps
<1>3. k \in Classes /\ br.pbs = Conf[k].pbs BY <1>0, <1>1, ThreadFacts DEF PbsKept
<1>4. /\ rd[t].ctime.low \in Words /\ rd[t].pir \in Words /\ rd[t].cur \in Words
      /\ rd[t].low \in Words /\ br \in Borrow
  BY <1>0 DEF TypeInv, TypeOK, Reads, Time
<1>5. br.bucket \in Words /\ br.high \in Words /\ br.low \in Words /\ br.pbs \in Words
  BY <1>4 DEF Borrow
<1>6. b \in [Classes -> Borrow] /\ b[k].bucket \in Words /\ b[k].low \in Words
  BY <1>0, <1>3 DEF TypeInv, TypeOK, Borrow
<1>7. TimeFits(t) /\ BucketFits(t) BY <1>2 DEF BorrowRefineInv, BorrowCopyInv
<1>8. /\ b[k].low <= rd[t].ctime.low /\ br.low = b[k].low
      /\ b[k].bucket <= br.bucket /\ br.bucket <= br.pbs
  BY <1>3, <1>7 DEF TimeFits, BucketFits
<1>9. Upper(br.high) \in Words BY <1>5, UpperWord, WordFacts DEF Words
<1>10. pir \in Words BY <1>4, <1>9, BorrowRateWord
<1>11. td \in Words BY <1>4, <1>5, TDeltaWord
<1>12. r \in br.bucket..br.pbs BY <1>5, <1>8, <1>10, <1>11, RefillBounds
<1>13. r \in b[k].bucket..Conf[k].pbs BY <1>3, <1>5, <1>6, <1>8, <1>12 DEF Words
<1>14. b' = IF rd[t].ctime.low = br.low
            THEN [b EXCEPT ![k].high = pir]
            ELSE [b EXCEPT ![k] =
                     [bucket |-> r, high |-> pir, low |-> rd[t].ctime.low,
                      pbs |-> br.pbs]]
  BY DEF BorrowWrite
<1>15. CASE rd[t].ctime.low = br.low
  <2>1. b'[k].low = b[k].low /\ b'[k].bucket = b[k].bucket
    <3> HIDE DEF k, pir, r
    <3> QED BY <1>3, <1>6, <1>14, <1>15 DEF Borrow
  <2> QED BY <1>2, <1>3, <2>1
<1>16. CASE rd[t].ctime.low # br.low
  <2>1. b'[k].low = rd[t].ctime.low /\ b'[k].bucket = r
    <3> HIDE DEF k, pir, r
    <3> QED BY <1>3, <1>6, <1>14, <1>16
  <2>2. b[k].low < rd[t].ctime.low BY <1>4, <1>6, <1>8, <1>16 DEF Words
  <2> QED BY <1>2, <1>3, <1>13, <2>1, <2>2
<1> QED BY <1>15, <1>16

(* What thread t holds after a step of its own. *)
LEMMA BorrowCopyOwn ==
    ASSUME BorrowRefineInv, NEW t \in Threads, Receive(t) \/ Schedule(t), TypeInv'
    PROVE  /\ HoldsTime(t)' => TimeFits(t)'
           /\ HoldsBucket(t)' => BucketFits(t)'
<1>0. TypeInv /\ BorrowCopyInv /\ BucketBounded BY DEF BorrowRefineInv, BoundInv
<1>1. /\ now \in Time /\ b \in [Classes -> Borrow] /\ rd \in [Threads -> Reads]
      /\ pc \in [Threads -> Steps]
  BY <1>0 DEF TypeInv, TypeOK
<1>2. CASE ReadTsc(t)
  <2>1. CASE pc[t] = "b_tsc"
    <3>1. pc'[t] = "b_pir" /\ rd'[t].ctime = now /\ UNCHANGED <<now, b, job>>
      BY <1>1, <1>2, <2>1 DEF ReadTsc, Goto, Reads
    <3>2. Cls(t)' = Cls(t) /\ Cls(t) \in Classes
      BY <1>0, <2>1, <3>1, ThreadFacts DEF Cls
    <3>3. b[Cls(t)].low <= now.low /\ now.low <= now.low
      BY <1>0, <1>1, <3>2 DEF BorrowCopyInv, Time, Words
    <3>4. ~HoldsBucket(t)' BY <3>1 DEF HoldsBucket, UpdateSteps
    <3> QED BY <3>1, <3>2, <3>3, <3>4 DEF TimeFits
  <2>2. CASE pc[t] = "s_tsc"
    <3>1. pc'[t] = "s_pir" BY <1>1, <1>2, <2>2 DEF ReadTsc, Goto
    <3> QED BY <3>1 DEF HoldsTime, HoldsBucket, BorrowSteps, UpdateSteps
  <2> QED BY <1>2, <2>1, <2>2 DEF ReadTsc
<1>3. CASE ReadPir(t) \/ ReadCur(t) \/ ReadLow(t)
  <2>1. CASE pc[t] \in BorrowSteps
    <3>1. HoldsTime(t)
      BY <1>3, <2>1 DEF ReadPir, ReadCur, ReadLow, HoldsTime, BorrowSteps
    <3>2. rd'[t].ctime = rd[t].ctime /\ UNCHANGED <<now, b, job>>
      BY <1>1, <1>3 DEF ReadPir, ReadCur, ReadLow, Reads
    <3>3. pc'[t] \in {"b_cur", "b_low", "b_read"}
      BY <1>1, <1>3, <2>1 DEF ReadPir, ReadCur, ReadLow, Goto, BorrowSteps
    <3>4. Cls(t)' = Cls(t) BY <3>2 DEF Cls
    <3>5. ~HoldsBucket(t)' BY <3>3 DEF HoldsBucket, UpdateSteps
    <3> QED BY <1>0, <3>1, <3>2, <3>4, <3>5 DEF BorrowCopyInv, TimeFits
  <2>2. CASE pc[t] \notin BorrowSteps
    <3>1. pc'[t] \in StatusSteps
      BY <1>1, <1>3, <2>2 DEF ReadPir, ReadCur, ReadLow, Goto, BorrowSteps, StatusSteps
    <3> QED BY <3>1 DEF HoldsTime, HoldsBucket, BorrowSteps, UpdateSteps, StatusSteps
  <2> QED BY <2>1, <2>2
<1>4. CASE BorrowRead(t)
  <2>1. /\ pc[t] = "b_read" /\ rd'[t].ctime = rd[t].ctime /\ rd'[t].b = b[Cls(t)]
        /\ UNCHANGED <<now, b, job>>
    BY <1>1, <1>4 DEF BorrowRead, Reads
  <2>2. Cls(t)' = Cls(t) BY <2>1 DEF Cls
  <2>3. HoldsTime(t) BY <2>1 DEF HoldsTime, BorrowSteps
  <2>4. TimeFits(t)' BY <1>0, <2>1, <2>2, <2>3 DEF BorrowCopyInv, TimeFits
  <2>5. Cls(t) \in Classes BY <1>0, <2>3, HoldersRefresh
  <2>6. b[Cls(t)].bucket <= b[Cls(t)].bucket /\ b[Cls(t)].bucket <= Conf[Cls(t)].pbs
    BY <1>0, <1>1, <2>5 DEF BucketBounded, Borrow, Words
  <2>7. BucketFits(t)' BY <2>1, <2>2, <2>6 DEF BucketFits
  <2> QED BY <2>4, <2>7
<1>5. CASE UpdateTsc(t) \/ UpdateRead(t) \/ UpdateReadParent(t) \/ UpdateWrite(t)
  <2>1. UNCHANGED <<now, b, job, rd>>
    BY <1>5 DEF UpdateTsc, UpdateRead, UpdateReadParent, UpdateWrite, UpdateNoChange,
       UpdateReset, UpdateCredit, UpdateDone
  <2>2. pc[t] \in UpdateSteps
    BY <1>5 DEF UpdateTsc, UpdateRead, UpdateReadParent, UpdateWrite, UpdateNoChange,
       UpdateReset, UpdateCredit, UpdateSteps
  <2>3. CASE job[t].phase = "borrow"
    <3>1. HoldsTime(t) /\ HoldsBucket(t) BY <2>2, <2>3 DEF HoldsTime, HoldsBucket
    <3>2. Cls(t)' = Cls(t) BY <2>1 DEF Cls
    <3> QED BY <1>0, <2>1, <3>1, <3>2 DEF BorrowCopyInv, TimeFits, BucketFits
  <2>4. CASE job[t].phase # "borrow"
    <3>1. job'[t].phase # "borrow" BY <2>1, <2>4
    <3>2. pc'[t] \notin BorrowSteps
      BY <3>1 DEF TypeInv, PhaseOK, BorrowOnly
    <3> QED BY <3>1, <3>2 DEF HoldsTime, HoldsBucket, BorrowSteps
  <2> QED BY <2>3, <2>4
<1>6. CASE ClassTestSet(t)
  <2>1. pc[t] = "class" /\ pc'[t] \in {"meter", "u_tsc"} /\ UNCHANGED job
    BY <1>1, <1>6 DEF ClassTestSet, Goto
  <2>2. job'[t].phase = "class" BY <1>0, <2>1, ThreadFacts DEF ClassOnly
  <2> QED BY <2>1, <2>2 DEF HoldsTime, HoldsBucket, BorrowSteps
<1>7. CASE \/ Receive(t) \/ ClassMeter(t) \/ CountBytes(t) \/ StatusWrite(t)
           \/ ForwardDirect(t) \/ TryBorrow(t) \/ SiblingDenied(t) \/ SiblingStatus(t)
           \/ DropPacket(t) \/ BorrowTestSet(t) \/ BorrowWrite(t) \/ BorrowForward(t)
           \/ BorrowRefused(t)
  <2>1. pc'[t] \notin BorrowSteps \ {"b_tsc"} /\ pc'[t] \notin UpdateSteps
    BY <1>1, <1>7 DEF Receive, ClassMeter, CountBytes, StatusWrite, ForwardDirect,
       TryBorrow, SiblingDenied, SiblingStatus, DropPacket, BorrowTestSet, BorrowWrite,
       BorrowForward, BorrowRefused, Finish, Goto, BorrowSteps, UpdateSteps
  <2> QED BY <2>1 DEF HoldsTime, HoldsBucket, BorrowSteps
<1> QED BY <1>2, <1>3, <1>4, <1>5, <1>6, <1>7 DEF Schedule

(* In the first turn the clock only counts up. *)
LEMMA TickUp ==
    ASSUME OneTurn, TypeInv, now.up = 0, Tick
    PROVE  now'.up = 0 /\ now.low <= now'.low
<1>1. /\ now.up \in Int /\ now.low \in Words /\ now = [up |-> now.up, low |-> now.low]
      /\ MaxTime.low \in Words /\ MaxTime.up = 0
  BY ConfigAssumption DEF TypeInv, TypeOK, Time, OneTurn
<1>2. now.low < MaxTime.low BY <1>1 DEF Tick, Before
<1>3. now.low < Word - 1 BY <1>1, <1>2, WordFacts DEF Words
<1>4. now' = [up |-> now.up, low |-> now.low + 1] BY <1>1, <1>3, WordFacts DEF Tick, Words
<1> QED BY <1>1, <1>4, WordFacts DEF Words

LEMMA BorrowCopyNext ==
    ASSUME OneTurn, BorrowRefineInv, TypeInv', [Next]_vars PROVE BorrowCopyInv'
<1>0. TypeInv /\ BorrowInv /\ BorrowCopyInv BY DEF BorrowRefineInv, BoundInv
<1>1. CASE Tick
  <2>1. now'.up = 0 /\ now.low <= now'.low BY <1>0, <1>1, TickUp DEF BorrowCopyInv
  <2>2. UNCHANGED <<b, pc, job, rd>> BY <1>1 DEF Tick
  <2>3. \A t \in Threads : Cls(t)' = Cls(t) BY <2>2 DEF Cls
  <2>4. /\ now.low \in Int /\ now'.low \in Int
        /\ \A k \in Classes : b[k].low \in Int
        /\ \A t \in Threads : rd[t].ctime.low \in Int
    BY <1>0, WordFacts DEF TypeInv, TypeOK, Time, Words, Borrow, Reads
  <2>5. \A k \in Classes : b'[k].low <= now'.low
    BY <1>0, <2>1, <2>2, <2>4 DEF BorrowCopyInv
  <2>6. ASSUME NEW t \in Threads, HoldsTime(t)' PROVE TimeFits(t)'
    <3>1. HoldsTime(t) BY <2>2, <2>6 DEF HoldsTime
    <3>2. TimeFits(t) BY <1>0, <3>1 DEF BorrowCopyInv
    <3>3. rd[t].ctime.low <= now'.low BY <2>1, <2>4, <3>2 DEF TimeFits
    <3> QED BY <2>2, <2>3, <3>2, <3>3 DEF TimeFits
  <2>7. ASSUME NEW t \in Threads, HoldsBucket(t)' PROVE BucketFits(t)'
    BY <1>0, <2>2, <2>3, <2>7 DEF BorrowCopyInv, HoldsBucket, BucketFits
  <2> QED BY <2>1, <2>5, <2>6, <2>7 DEF BorrowCopyInv
<1>2. CASE UNCHANGED vars
  <2>1. UNCHANGED <<now, b, pc, job, rd>> BY <1>2 DEF vars
  <2>2. \A t \in Threads : Cls(t)' = Cls(t) BY <2>1 DEF Cls
  <2> QED
    BY <1>0, <2>1, <2>2 DEF BorrowCopyInv, HoldsTime, HoldsBucket, TimeFits, BucketFits
<1>3. ASSUME NEW t \in Threads, Receive(t) \/ Schedule(t) PROVE BorrowCopyInv'
  <2>1. UNCHANGED now BY <1>3, SameNow
  <2>2. ASSUME NEW k \in Classes PROVE b'[k].low <= now'.low
    <3>1. CASE BorrowWrite(t) /\ k = Cls(t)
      <4>1. HoldsTime(t) /\ (b'[k].low = b[k].low \/ b'[k].low = rd[t].ctime.low)
        BY <3>1, BorrowRefills
      <4>2. TimeFits(t) BY <1>0, <4>1 DEF BorrowCopyInv
      <4> QED BY <1>0, <2>1, <4>1, <4>2 DEF BorrowCopyInv, TimeFits
    <3>2. CASE ~(BorrowWrite(t) /\ k = Cls(t))
      BY <1>0, <1>3, <2>1, <3>2, BorrowDataSteps DEF BorrowCopyInv
    <3> QED BY <3>1, <3>2
  <2>3. ASSUME NEW u \in Threads
        PROVE (HoldsTime(u)' => TimeFits(u)') /\ (HoldsBucket(u)' => BucketFits(u)')
    <3>1. CASE u = t BY <1>3, <3>1, BorrowCopyOwn
    <3>2. CASE u # t /\ (HoldsTime(u) \/ HoldsBucket(u))
      <4>1. pc'[u] = pc[u] /\ job'[u] = job[u] /\ Cls(u)' = Cls(u) /\ rd'[u] = rd[u]
        BY <1>0, <1>3, <3>2, OtherThreads
      <4>2. Cls(u) \in Classes /\ RefreshingBorrow(u, Cls(u))
        BY <1>0, <3>2, HoldersRefresh
      <4>3. ~(BorrowWrite(t) /\ Cls(u) = Cls(t))
        <5>1. BorrowWrite(t) => RefreshingBorrow(t, Cls(t))
          BY <1>0, BorrowRefills, HoldersRefresh
        <5> QED BY <1>0, <3>2, <4>2, <5>1 DEF BorrowInv, BorrowMutex
      <4>4. b'[Cls(u)].low = b[Cls(u)].low /\ b'[Cls(u)].bucket <= b[Cls(u)].bucket
        BY <1>0, <1>3, <4>2, <4>3, BorrowDataSteps
      <4>5. HoldsTime(u)' => TimeFits(u)'
        BY <1>0, <2>1, <4>1, <4>4 DEF BorrowCopyInv, HoldsTime, TimeFits
      <4>6. /\ b[Cls(u)].bucket \in Int /\ b'[Cls(u)].bucket \in Int
            /\ rd[u].b.bucket \in Int
        BY <1>0, <4>2, WordFacts DEF TypeInv, TypeOK, Borrow, Reads, Words
      <4>7. ASSUME HoldsBucket(u)' PROVE BucketFits(u)'
        <5>1. BucketFits(u) BY <1>0, <4>1, <4>7 DEF BorrowCopyInv, HoldsBucket
        <5>2. b'[Cls(u)].bucket <= rd[u].b.bucket BY <4>4, <4>6, <5>1 DEF BucketFits
        <5> QED BY <4>1, <4>4, <5>1, <5>2 DEF BucketFits
      <4> QED BY <4>5, <4>7
    <3>3. CASE u # t /\ ~HoldsTime(u) /\ ~HoldsBucket(u)
      <4>1. pc'[u] = pc[u] /\ job'[u] = job[u] BY <1>0, <1>3, <3>3, OtherThreads
      <4> QED BY <3>3, <4>1 DEF HoldsTime, HoldsBucket
    <3> QED BY <3>1, <3>2, <3>3
  <2> QED BY <1>0, <2>1, <2>2, <2>3 DEF BorrowCopyInv
<1> QED BY <1>1, <1>2, <1>3 DEF Next

LEMMA BorrowRefineNext ==
    ASSUME OneTurn PROVE BorrowRefineInv /\ [Next]_vars => BorrowRefineInv'
<1> SUFFICES ASSUME BorrowRefineInv, [Next]_vars PROVE BorrowRefineInv' OBVIOUS
<1>1. BoundInv' BY BoundNext DEF BorrowRefineInv
<1>2. BorrowInv' BY BorrowMutexNext DEF BorrowRefineInv, BoundInv
<1>3. BorrowCopyInv' BY <1>1, BorrowCopyNext DEF BoundInv
<1> QED BY <1>1, <1>2, <1>3 DEF BorrowRefineInv

LEMMA BorrowRefineInit == OneTurn /\ Init => BorrowRefineInv
<1> SUFFICES ASSUME OneTurn, Init PROVE BorrowRefineInv OBVIOUS
<1>1. BorrowInv BY InitUnlocked DEF BorrowInv, BorrowLocked, BorrowMutex
<1>2. now.up = 0 /\ now.low \in Words BY ConfigAssumption DEF Init, OneTurn, Time
<1>3. BorrowCopyInv
  BY <1>2, WordFacts DEF Init, BorrowCopyInv, HoldsTime, HoldsBucket, BorrowSteps,
     UpdateSteps, Words
<1> QED BY <1>1, <1>3, BoundInit DEF BorrowRefineInv

-----------------------------------------------------------------------------
(* The end of a refresh of a borrow bucket is a Fill, a packet forwarded   *)
(* on borrowed tokens is a Take.                                           *)
BorrowVars == <<BorrowTokens, BorrowStamps, now>>

LEMMA BorrowInitRefines == Init => AbstractBorrow!TBInit
BY DEF Init, AbstractBorrow!TBInit, BorrowTokens, BorrowStamps

LEMMA BorrowStepRefines ==
    ASSUME BorrowRefineInv, [Next]_vars PROVE [AbstractBorrow!TBNext]_BorrowVars
<1>0. TypeInv /\ BorrowCopyInv BY DEF BorrowRefineInv, BoundInv
<1>1. CASE Tick
  <2>1. now' \in Time /\ Before(now, now') BY <1>0, <1>1, TickForward
  <2>2. UNCHANGED <<BorrowTokens, BorrowStamps>> BY <1>1 DEF Tick, BorrowTokens, BorrowStamps
  <2>3. AbstractBorrow!Pass
    BY <2>1, <2>2 DEF AbstractBorrow!Pass, AbstractBorrow!Time, AbstractBorrow!Before,
       AbstractBorrow!Words, Time, Before, Words
  <2> QED BY <2>3 DEF AbstractBorrow!TBNext
<1>2. CASE UNCHANGED vars
  BY <1>2 DEF vars, BorrowVars, BorrowTokens, BorrowStamps
<1>3. ASSUME NEW t \in Threads, Receive(t) \/ Schedule(t)
      PROVE  [AbstractBorrow!TBNext]_BorrowVars
  <2>1. UNCHANGED now BY <1>3, SameNow
  <2>2. CASE BorrowWrite(t)
    <3> DEFINE c == Cls(t)
               x == [up |-> 0, low |-> rd[t].ctime.low]
    <3>1. c \in Classes /\ TimeFits(t) BY <1>0, <2>2, BorrowRefills DEF BorrowCopyInv
    <3>2. \A k \in Classes : k # c => b'[k] = b[k]
      BY <1>0, <2>2 DEF BorrowWrite, TypeInv, TypeOK
    <3>3. CASE b'[Cls(t)].low = b[Cls(t)].low /\ b'[Cls(t)].bucket = b[Cls(t)].bucket
      <4>1. b'[c].low = b[c].low /\ b'[c].bucket = b[c].bucket BY <3>3
      <4> HIDE DEF c
      <4>2. UNCHANGED <<BorrowTokens, BorrowStamps>>
        BY <3>2, <4>1 DEF BorrowTokens, BorrowStamps
      <4> QED BY <2>1, <4>2 DEF BorrowVars
    <3>4. CASE /\ b'[Cls(t)].low = rd[t].ctime.low /\ b[Cls(t)].low < rd[t].ctime.low
               /\ b'[Cls(t)].bucket \in b[Cls(t)].bucket..Conf[Cls(t)].pbs
      <4>1. rd[t].ctime.low \in Words /\ now.low \in Words /\ now.up = 0
        BY <1>0 DEF TypeInv, TypeOK, Reads, Time, BorrowCopyInv
      <4>2. x \in Time /\ ~Before(now, x)
        BY <3>1, <4>1, WordFacts DEF TimeFits, Time, Before, Words
      <4>3. /\ b'[c].low = rd[t].ctime.low /\ b[c].low < rd[t].ctime.low
            /\ b'[c].bucket \in b[c].bucket..Conf[c].pbs
        BY <3>4
      <4> HIDE DEF c
      <4>4. BorrowStamps' = [BorrowStamps EXCEPT ![c] = x]
        BY <3>1, <3>2, <4>3 DEF BorrowStamps
      <4>5. BorrowTokens' = [BorrowTokens EXCEPT ![c] = b'[c].bucket]
        BY <3>1, <3>2 DEF BorrowTokens
      <4>6. b'[c].bucket \in BorrowTokens[c]..Conf[c].pbs BY <3>1, <4>3 DEF BorrowTokens
      <4>7. Before(BorrowStamps[c], x) BY <3>1, <4>3 DEF BorrowStamps, Before
      <4> HIDE DEF x
      <4>8. AbstractBorrow!Fill(c)
        BY <2>1, <3>1, <4>2, <4>4, <4>5, <4>6, <4>7
        DEF AbstractBorrow!Fill, AbstractBorrow!Time, AbstractBorrow!Before,
            AbstractBorrow!Words, Time, Before, Words
      <4> QED BY <3>1, <4>8 DEF AbstractBorrow!TBNext
    <3> QED BY <2>2, <3>3, <3>4, BorrowRefills
  <2>3. CASE BorrowForward(t)
    <3> DEFINE c == Cls(t)
               n == b[c].bucket - b'[c].bucket
    <3>1. pc[t] = "b_meter" BY <2>3 DEF BorrowForward
    <3>2. c \in Classes /\ job[t].tlen \in Words BY <1>0, <3>1, ThreadFacts
    <3>3. b \in [Classes -> Borrow] /\ b[c].bucket \in Words
      BY <1>0, <3>2 DEF TypeInv, TypeOK, Borrow
    <3>4. /\ Debit(b[c].bucket, job[t].tlen) \in Words
          /\ Debit(b[c].bucket, job[t].tlen) <= b[c].bucket
      BY <3>2, <3>3, DebitWord
    <3>5. b' = [b EXCEPT ![c].bucket = Debit(b[c].bucket, job[t].tlen)]
      BY <2>3 DEF BorrowForward
    <3>6. b'[c].bucket = Debit(b[c].bucket, job[t].tlen) BY <3>2, <3>3, <3>5 DEF Borrow
    <3>7. n \in 0..b[c].bucket BY <3>3, <3>4, <3>6 DEF Words
    <3>8. b'[c].bucket = b[c].bucket - n BY <3>3, <3>4, <3>6 DEF Words
    <3>9. \A k \in Classes : /\ b'[k].low = b[k].low
                             /\ k # c => b'[k].bucket = b[k].bucket
      BY <3>2, <3>3, <3>5 DEF Borrow
    <3> HIDE DEF c, n
    <3>10. UNCHANGED BorrowStamps BY <3>9 DEF BorrowStamps
    <3>11. BorrowTokens' = [BorrowTokens EXCEPT ![c] = BorrowTokens[c] - n]
      BY <3>2, <3>8, <3>9 DEF BorrowTokens
    <3>12. n \in 0..BorrowTokens[c] BY <3>2, <3>7 DEF BorrowTokens
    <3>13. AbstractBorrow!Take(c)
      BY <2>1, <3>10, <3>11, <3>12 DEF AbstractBorrow!Take
    <3> QED BY <3>2, <3>13 DEF AbstractBorrow!TBNext
  <2>4. CASE ~BorrowWrite(t) /\ ~BorrowForward(t)
    <3>1. \A k \in Classes : b'[k].low = b[k].low /\ b'[k].bucket = b[k].bucket
      BY <1>0, <1>3, <2>4, BorrowDataSteps
    <3>2. UNCHANGED <<BorrowTokens, BorrowStamps>>
      BY <3>1 DEF BorrowTokens, BorrowStamps
    <3> QED BY <2>1, <3>2 DEF BorrowVars
  <2> QED BY <2>2, <2>3, <2>4
<1> QED BY <1>1, <1>2, <1>3 DEF Next

(* The borrow buckets are token buckets for any flows, threads and         *)
(* classes, while the clock is in the first turn of its lower word:        *)
(* update_fv_borrow, which reads the clock, the rates and the bucket at    *)
(* five different times and may refresh the meter before it writes, never  *)
(* pays for a tick twice and never destroys tokens.                        *)
THEOREM BorrowRefinementTheorem == OneTurn /\ Spec => BorrowsAreTokenBuckets
<1> SUFFICES ASSUME OneTurn PROVE Spec => BorrowsAreTokenBuckets OBVIOUS
<1>1. Init => BorrowRefineInv BY BorrowRefineInit
<1>2. Spec => []BorrowRefineInv BY <1>1, BorrowRefineNext, PTL DEF Spec
<1>3. BorrowRefineInv /\ [Next]_vars => [AbstractBorrow!TBNext]_BorrowVars
  BY BorrowStepRefines
<1> QED
  BY <1>2, <1>3, BorrowInitRefines, PTL
  DEF Spec, BorrowsAreTokenBuckets, AbstractBorrow!TBSpec, BorrowVars
=============================================================================
