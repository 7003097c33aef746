--------------------------- MODULE FlowValveSafety ---------------------------
(* What the data plane must satisfy; the spec itself is in FlowValve. *)
EXTENDS FlowValve

(* Thread t refreshes meter k as the winner of its lock bit. *)
Refreshing(t, k) ==
    pc[t] \in UpdateSteps /\ job[t].phase = "class" /\ Cls(t) = k

(* Thread t refreshes borrow bucket k, a nested update of the meter included. *)
RefreshingBorrow(t, k) ==
    /\ pc[t] \in BorrowSteps \cup UpdateSteps
    /\ job[t].phase = "borrow" /\ Cls(t) = k

-----------------------------------------------------------------------------
(* No bucket, of a meter or for borrowing, ever holds more than its burst  *)
(* size: neither the clamp nor a debit racing with a refill breaks it      *)
(* (flowvalve.c:155-167, 246-258).                                         *)
BucketBounded ==
    \A k \in Classes : /\ m[k].bucket <= Conf[k].pbs
                       /\ b[k].bucket <= Conf[k].pbs

(* A lock bit that is set has a thread that will clear it: no path through *)
(* update_fv_class or update_fv_borrow leaves a meter or a borrow bucket   *)
(* locked with nobody refreshing it, which would freeze it for ever, even  *)
(* when unlocked nested updates clear the bit of another thread.           *)
LockHasOwner ==
    \A k \in Classes :
       /\ Locked(m[k].high) => \E t \in Threads : Refreshing(t, k)
       /\ Locked(b[k].high) => \E t \in Threads : RefreshingBorrow(t, k)

(* At most one thread refreshes a borrow bucket (flowvalve.c:364-371).     *)
BorrowMutex ==
    \A k \in Classes, t, u \in Threads :
       RefreshingBorrow(t, k) /\ RefreshingBorrow(u, k) => t = u

(* At most one thread refreshes a meter, as long as nobody borrows: the    *)
(* nested call at flowvalve.c:225 is the one that does not take the lock.  *)
MeterMutex ==
    \A k \in Classes, t, u \in Threads :
       Refreshing(t, k) /\ Refreshing(u, k) => t = u

Static(k) == Conf[k].type = 0
Siblings(j, k) ==
    j # k /\ ~Static(j) /\ ~Static(k) /\ Conf[j].pidx = Conf[k].pidx

(* Class r is on the way from class k to the first static class above it.  *)
Upwards(S) == \A x \in S : Static(x) \/ Conf[x].pidx \in S
Above(r, k) == \A S \in SUBSET Classes : k \in S /\ Upwards(S) => r \in S

(* Two children of one class are never given more than the static class    *)
(* above them has, although each takes its share from its parent's meter   *)
(* at a time of its own and the parent's rate moves in between; a rate of  *)
(* 1 stands for none (flowvalve.c:73-114, fv_front.py:76-123).             *)
PrioritiesFit ==
    \A r, j, k \in Classes :
       Static(r) /\ Siblings(j, k) /\ Above(r, j) =>
          \/ m[j].pir + m[k].pir <= m[r].pir
          \/ m[j].pir <= 1 /\ m[k].pir <= 1

(* What fv_front.py writes of a class, and of two with the same parent.    *)
WordsFit(k) ==
    LET c == Conf[k] IN
    /\ Static(k) => InitPir[k] > 0
    /\ ~Static(k) => InitPir[k] = 0 /\ c.numer \in 1..c.denomi
    /\ c.type = 2 => c.cond1 > 0 /\ c.cond1 = (c.cond0 * c.numer) \div c.denomi
    /\ c.type = 3 => c.cond0 > 0 /\ c.cond1 = (c.cond0 * (c.denomi - c.numer)) \div c.denomi
WordsAgree(c, d) ==
    /\ c.denomi = d.denomi /\ c.numer + d.numer <= c.denomi
    /\ c.type = 1 <=> d.type = 1
    /\ c.type # 1 => /\ c.cond0 = d.cond0
                     /\ c.type = 3 => d.type = 2
FrontEndWords ==
    /\ \A k \in Classes : WordsFit(k)
    /\ \A j, k \in Classes : Siblings(j, k) => WordsAgree(Conf[j], Conf[k])

(* The tokens and the time of the last refill of every bucket.             *)
MeterTokens == [k \in Classes |-> m[k].bucket]
MeterStamps == [k \in Classes |-> Stamp(m[k].high, m[k].low)]
BorrowTokens == [k \in Classes |-> b[k].bucket]
BorrowStamps == [k \in Classes |-> [up |-> 0, low |-> b[k].low]]

NoBorrowing == \A f \in Flows : f.subNum = 0
OneTurn == MaxTime.up = 0 /\ \A x \in Start : x.up = 0

(* The meters are token buckets as long as nobody borrows: a refill is     *)
(* paid once per tick and never takes tokens away, although the refresh    *)
(* reads the clock, the meter and its parent at three different times      *)
(* while other threads keep debiting (flowvalve.c:56-176).                 *)
Abstract == INSTANCE TokenBuckets
                WITH Buckets <- Classes, Loads <- Start,
                     Burst <- [k \in Classes |-> Conf[k].pbs],
                     bucket <- MeterTokens, stamp <- MeterStamps, clock <- now
MetersAreTokenBuckets == Abstract!TBSpec

(* The borrow buckets are token buckets for any flows, while the clock     *)
(* stays within one turn of its lower word, which is all a borrow bucket   *)
(* keeps of the time (flowvalve.c:237-263).                                *)
AbstractBorrow == INSTANCE TokenBuckets
                      WITH Buckets <- Classes, Loads <- Start,
                           Burst <- [k \in Classes |-> Conf[k].pbs],
                           bucket <- BorrowTokens, stamp <- BorrowStamps, clock <- now
BorrowsAreTokenBuckets == AbstractBorrow!TBSpec

(* A class that no flow may borrow from keeps a full, unlocked borrow      *)
(* bucket for ever: the permission bitmap is read with the right polarity  *)
(* and bit order over the whole sibling loop (flowvalve.c:384-438).        *)
Lendable(k) == \E f \in Flows : k < f.subNum /\ f.flowSub[k] = 0
DeniedUntouched ==
    \A k \in Classes : ~Lendable(k) => /\ b[k].bucket = Conf[k].pbs
                                       /\ b[k].high = 0 /\ b[k].low = 0

(* Every packet gets its verdict. *)
VerdictReached == \A t \in Threads : pc[t] # "idle" ~> pc[t] = "idle"

-----------------------------------------------------------------------------
(* What comments of flowvalve.c say, and the code does not do.             *)

CreditDue(t) ==
    /\ pc[t] = "u_write"
    /\ Before(ReadStamp(t), up[t].ctime)
    /\ up[t].ctime.up - ReadStamp(t).up <= 1
CreditedTicks(t) == TDelta(up[t].ctime.low, up[t].m.low)

(* A credit of 0 means "mult overflowed" (flowvalve.c:159), the only case  *)
(* in which a whole burst is given at once.                                *)
ZeroMeansOverflow ==
    \A t \in Threads :
       CreditDue(t) /\ Mult32Oflow0(CreditedTicks(t), Rate(t)) = 0
          => CreditedTicks(t) * Rate(t) >= Word

(* "check if we wrapped" (flowvalve.c:148): the ticks credited are those   *)
(* that passed since the last refresh, also when the lower word wrapped.   *)
WrapHandled ==
    \A t \in Threads :
       CreditDue(t) =>
          CreditedTicks(t) = (up[t].ctime.up - ReadStamp(t).up) * Word
                             + up[t].ctime.low - ReadStamp(t).low

(* "reuse this field to store pir" (flowvalve.c:220): the rate read back   *)
(* from an unlocked borrow bucket is the rate that was stored there.       *)
StoredRateReadBack ==
    \A k \in Classes : ~Locked(b[k].high) => Upper(b[k].high) = b[k].high
=============================================================================
