------------------------------- MODULE FVArith -------------------------------
(***************************************************************************)
(* The arithmetic of the FlowValve data plane (flowvalve/code/flowvalve.c) *)
(* on 32-bit unsigned words.  The word size is a parameter: the code has   *)
(* Word = 2^32, LockBit = 2^31 and UpperMod = 2^24, and TLC checks small   *)
(* values, at which every wrap-around is reached.                          *)
(***************************************************************************)
EXTENDS Integers

CONSTANTS
    Word,        \* number of values of a uint32_t
    LockBit,     \* weight of the "locked" bit of last_update_high
    UpperMod,    \* the mask 0xffffff plus one
    Interval,    \* flowvalve.h: interval, in ticks
    Expire       \* flowvalve.h: expire, in ticks

ASSUME WordAssumption ==
    /\ LockBit \in Nat \ {0}
    /\ Word = 2 * LockBit
    /\ UpperMod \in 1..LockBit /\ LockBit % UpperMod = 0
    /\ Interval \in 0..(Word - 1)
    /\ Expire \in 0..(Word - 1)

Words == 0..(Word - 1)
Colour == {"Green", "Red"}

(* 32-bit unsigned arithmetic. *)
AddW(x, y) == (x + y) % Word
SubW(x, y) == (x - y) % Word
MulW(x, y) == (x * y) % Word

-----------------------------------------------------------------------------
(* The word last_update_high: a lock bit over a 24-bit upper timestamp.    *)
Locked(high) == high >= LockBit
TestSetReads(high) == high                \* fault: the bit is read, not set
TestSetAdds(high) == (high + LockBit)     \* fault: added to a set bit as well
TestSet(high) == IF Locked(high) THEN high ELSE high + LockBit
Upper(high) == high % UpperMod

(* A time is the tick counter split as the code splits it; ticks are       *)
(* counted from the reading of me_tsc_read shifted right by 0x12.          *)
Time == [up : 0..(UpperMod - 1), low : Words]

Before(x, y) == x.up < y.up \/ (x.up = y.up /\ x.low < y.low)

(* The elapsed ticks the code computes from the two lower words alone.     *)
TDelta(now, prev) == IF now <= prev THEN prev - now ELSE now - prev

-----------------------------------------------------------------------------
(* fv_mult32_oflow0: the product, or 0 when its high word is not zero.     *)
Mult32Oflow0(v0, v1) == IF v0 * v1 >= Word THEN 0 ELSE v0 * v1

(* Faults: no clamp; no test for a sum that wraps; the tokens left are     *)
(* overwritten.                                                            *)
RefillNoClamp(bucket, tdelta, pir, pbs) ==
    LET Pdelta == Mult32Oflow0(tdelta, pir)
    IN  IF Pdelta = 0 THEN pbs ELSE AddW(bucket, Pdelta)
RefillMissesWrap(bucket, tdelta, pir, pbs) ==
    LET Pdelta == Mult32Oflow0(tdelta, pir)
        newP == AddW(bucket, Pdelta)
    IN  IF Pdelta = 0 \/ newP > pbs THEN pbs ELSE newP
RefillOverwrites(bucket, tdelta, pir, pbs) ==
    LET Pdelta == Mult32Oflow0(tdelta, pir)
    IN  IF Pdelta = 0 \/ Pdelta > pbs THEN pbs ELSE Pdelta

(* The refill of a bucket for tdelta ticks at rate pir: a product of 0 is  *)
(* taken for an overflow, and a sum that wraps or passes pbs is clamped.   *)
Refill(bucket, tdelta, pir, pbs) ==
    LET Pdelta == Mult32Oflow0(tdelta, pir)
        newP == AddW(bucket, Pdelta)
    IN  IF Pdelta = 0 \/ newP < Pdelta \/ newP > pbs THEN pbs ELSE newP

(* The measured rate: half the bytes per tick of the last period plus half *)
(* the previous measure.                                                   *)
MeasuredRate(cnt, cur, tdelta) == AddW(cnt \div tdelta, cur) \div 2

-----------------------------------------------------------------------------
(* Fault: the product is not divided. *)
ShareUndivided(rate, c) == MulW(rate, c.numer)

(* The share numer/denomi of a rate.                                       *)
Share(rate, c) == MulW(rate, c.numer) \div c.denomi
AtLeastOne(x) == IF x = 0 THEN 1 ELSE x

(* A weighted class takes its share of the parent's rate when the parent's *)
(* meter is older than its own by more than interval, and of what the      *)
(* parent leaves unused otherwise.                                         *)
WeightedRate(c, md, mp) ==
    IF md.low > AddW(mp.low, Interval) THEN Share(mp.pir, c)
    ELSE IF mp.cur < mp.pir THEN Share(mp.pir - mp.cur, c) ELSE 1

(* Fault: the high priority takes what it leaves to the low one as well.   *)
PriorityRateGreedy(c, mp) ==
    IF mp.pir < c.cond0 THEN AtLeastOne(Share(mp.pir, c))
    ELSE IF c.type = 2 THEN c.cond1 ELSE mp.pir

(* A class of low (2) or high (3) priority takes its share up to a rate of *)
(* cond0 of the parent, and from there a fixed rate or all but that.       *)
PriorityRate(c, mp) ==
    IF mp.pir < c.cond0 THEN AtLeastOne(Share(mp.pir, c))
    ELSE IF c.type = 2 THEN c.cond1 ELSE SubW(mp.pir, c.cond1)

(* The peak rate update_fv_class gives class c, whose meter read md and    *)
(* whose parent's meter read mp (mp is not used by a static class).        *)
ClassRate(c, md, mp) ==
    IF c.type = 0 THEN md.pir
    ELSE IF c.type = 1 THEN WeightedRate(c, md, mp) ELSE PriorityRate(c, mp)

(* Neither rate of a meter last refreshed at low is valid at time t.       *)
Expired(t, low) == t > AddW(low, Expire)

(* Fault: a rate measured long ago still counts. *)
StatusColourStale(pir, cur, low, t) ==
    IF pir - (pir \div 8) <= cur THEN "Red" ELSE "Green"

(* fv_status_execute: RED when the measured rate reaches 7/8 of the peak.  *)
StatusColour(pir, cur, low, t) ==
    IF pir - (pir \div 8) <= (IF Expired(t, low) THEN 0 ELSE cur)
    THEN "Red" ELSE "Green"

(* update_fv_borrow: the spare rate of the lender, averaged with the rate  *)
(* the borrow bucket stored last time.                                     *)
SpareRate(pir, cur, low, t) ==
    IF Expired(t, low) THEN pir ELSE IF cur >= pir THEN 1 ELSE pir - cur

(* Fault: the sum instead of the average. *)
BorrowRateSum(pir, cur, low, t, stored) ==
    AddW(SpareRate(pir, cur, low, t), stored)

BorrowRate(pir, cur, low, t, stored) ==
    AddW(SpareRate(pir, cur, low, t), stored) \div 2

(* mem[meter, ...] with rfc 0 and colour 0: one atomic command that takes  *)
(* n tokens from the bucket if it has them.                                *)
MeterColour(bucket, n) == IF n <= bucket THEN "Green" ELSE "Red"
Debit(bucket, n) == IF n <= bucket THEN bucket - n ELSE bucket
=============================================================================
