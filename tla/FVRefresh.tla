------------------------------ MODULE FVRefresh ------------------------------
(* The word arithmetic of FVArith against unbounded arithmetic, over every *)
(* input: one refresh of a meter or of a borrow bucket, taken by itself.   *)
EXTENDS FVArith

VARIABLES in,     \* the operands of one refresh
          result  \* what the code computes from them, in a set; empty before

Operands == [bucket : Words, pbs : Words, ticks : Words, pir : Words]

RefreshInit == in \in {x \in Operands : x.bucket <= x.pbs} /\ result = {}

(* The last operands also serve as a weight bucket out of pbs, and as the  *)
(* rates and times of a status and of a borrow update.                     *)
Compute ==
    /\ result = {}
    /\ result' = {[bucket |-> Refill(in.bucket, in.ticks, in.pir, in.pbs),
                   borrow |-> BorrowRate(in.pir, in.pbs, in.bucket, in.ticks, in.bucket),
                   share |-> IF in.pbs = 0 THEN 0
                             ELSE Share(in.pir, [numer |-> in.bucket, denomi |-> in.pbs]),
                   colour |-> StatusColour(in.pir, in.pbs, in.bucket, in.ticks)]}
    /\ UNCHANGED in

RefreshSpec == RefreshInit /\ [][Compute]_<<in, result>>

(* A refill for some ticks at some rate is the exact credit cut at the     *)
(* burst size: the overflow of the product and the wrap of the sum are     *)
(* both caught, whatever the operands (flowvalve.c:35-54, 155-167).        *)
RefillIsExact ==
    \A r \in result : in.ticks * in.pir > 0 =>
       r.bucket = LET exact == in.bucket + in.ticks * in.pir
                  IN  IF exact <= in.pbs THEN exact ELSE in.pbs

(* The rate stored over the lock bit of a borrow bucket always clears it,  *)
(* because it is an average, halved (flowvalve.c:220-236, 260).            *)
BorrowRateUnlocks == \A r \in result : ~Locked(r.borrow)

(* No share of a rate exceeds it, although the product by the weight may   *)
(* wrap (flowvalve.c:78, 83, 94, 106).                                     *)
ShareFits == \A r \in result : r.share <= in.pir

(* A class without traffic in the last Expire ticks is never red unless    *)
(* its rate is 0 (flowvalve.c:334-345).                                    *)
ExpiredIsGreen ==
    \A r \in result :
       in.ticks > in.bucket + Expire /\ in.pir > 0 => r.colour = "Green"
=============================================================================
