----------------------------- MODULE TokenBuckets -----------------------------
(***************************************************************************)
(* What the meters of fv_m promise, whatever the threads that share them   *)
(* do: tokens are taken from one bucket at a time and never more than      *)
(* there are; a refill moves its timestamp strictly forward and never past *)
(* the clock, so no tick is paid for twice; it takes no token away and     *)
(* never fills a bucket beyond the burst size of its class.                *)
(***************************************************************************)
EXTENDS FVArith

CONSTANTS Buckets,  \* the meters
          Burst,    \* Burst[k]: the burst size of meter k
          Loads     \* times at which the program may be loaded

VARIABLES bucket,   \* bucket[k]: its tokens
          stamp,    \* stamp[k]: the time of its last refill
          clock     \* the present

TBInit ==
    /\ bucket = [k \in Buckets |-> Burst[k]]
    /\ stamp = [k \in Buckets |-> [up |-> 0, low |-> 0]]
    /\ clock \in Loads

Take(k) ==
    /\ \E n \in 0..bucket[k] : bucket' = [bucket EXCEPT ![k] = @ - n]
    /\ UNCHANGED <<stamp, clock>>

Fill(k) ==
    /\ \E x \in Time : /\ Before(stamp[k], x) /\ ~Before(clock, x)
                       /\ stamp' = [stamp EXCEPT ![k] = x]
    /\ \E n \in bucket[k]..Burst[k] : bucket' = [bucket EXCEPT ![k] = n]
    /\ UNCHANGED clock

Pass ==
    /\ clock' \in Time /\ Before(clock, clock')
    /\ UNCHANGED <<bucket, stamp>>

TBNext == Pass \/ \E k \in Buckets : Take(k) \/ Fill(k)

TBSpec == TBInit /\ [][TBNext]_<<bucket, stamp, clock>>
=============================================================================
