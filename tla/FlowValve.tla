------------------------------ MODULE FlowValve ------------------------------
(***************************************************************************)
(* The data plane of flowvalve/code/flowvalve.c.  Micro-engine threads     *)
(* each run pif_plugin_fv_schedule on one packet after another and share   *)
(* the meters fv_m, the borrow buckets fv_b and the statuses fv_s.  Every  *)
(* mem_* command is atomic and nothing else is, so one command is one      *)
(* action; what a thread computes between two commands belongs to the      *)
(* action of the command that follows.                                     *)
(***************************************************************************)
EXTENDS FVArith

CONSTANTS
    Threads,     \* micro-engine threads
    Classes,     \* indices in use of fv_m, fv_b, fv_c and fv_s
    Conf,        \* Conf[k] is fv_c[k], with pidx its parent
    InitPir,     \* the rates the control plane writes into fv_m
    Flows,       \* the metadata act_flow can attach to a packet
    Lens,        \* values of ipv4.totalLen
    Junk,        \* what a transfer register nobody wrote may hold
    MaxPackets,  \* bound: packets that arrive
    Start,       \* bound: times at which the program may be loaded
    MaxTime      \* bound: the time at which the clock stops

ASSUME ConfigAssumption ==
    /\ Conf \in [Classes -> [type : 0..3, numer : 0..127, denomi : 1..127,
                             pidx : Classes, cond0 : Words, cond1 : Words,
                             pbs : Words]]
    /\ InitPir \in [Classes -> Words]
    /\ Lens \subseteq Words
    /\ Junk \subseteq Words
    /\ MaxPackets \in Nat
    /\ MaxTime \in Time
    /\ Start \subseteq Time

(* flowIdx holds one 5-bit label per level, the most significant first;    *)
(* flowSub[i] is bit i of the bitmap, 1 when borrowing from i is denied.   *)
ASSUME FlowAssumption ==
    /\ Flows # {}
    /\ \A f \in Flows :
          /\ f.idxNum \in Nat /\ f.subNum \in Nat
          /\ \A i \in 0..(f.idxNum - 1) : f.flowIdx[i] \in Classes
          /\ \A i \in 0..(f.subNum - 1) : i \in Classes

VARIABLES
    now,   \* the timestamp counter, in ticks
    m,     \* fv_m: the meters
    b,     \* fv_b: the borrow buckets
    s,     \* fv_s[k].status
    left,  \* packets still to arrive
    pc,    \* the command each thread executes next
    job,   \* the locals of pif_plugin_fv_schedule
    up,    \* the locals of update_fv_class
    rd     \* the locals of update_fv_borrow and fv_status_execute

vars == <<now, m, b, s, left, pc, job, up, rd>>

Meter == [bucket : Words, high : Words, low : Words,
          cnt : Words, cur : Words, pir : Words]
Borrow == [bucket : Words, high : Words, low : Words, pbs : Words]
Job == [flow : Flows, tlen : Words, phase : {"class", "borrow"}, i : Nat,
        color : Colour]
Update == [ctime : Time, m : Meter, p : Meter]
Reads == [ctime : Time, pir : Words, cur : Words, low : Words, b : Borrow]

UpdateSteps == {"u_tsc", "u_read", "u_parent", "u_write"}
StatusSteps == {"s_tsc", "s_pir", "s_cur", "s_low", "s_write"}
BorrowSteps == {"b_tsc", "b_pir", "b_cur", "b_low", "b_read", "b_write"}
Steps == {"idle", "class", "meter", "count", "sibling", "b_testset", "b_meter"}
         \cup UpdateSteps \cup StatusSteps \cup BorrowSteps

Zero == [up |-> 0, low |-> 0]
NoMeter == [bucket |-> 0, high |-> 0, low |-> 0, cnt |-> 0, cur |-> 0, pir |-> 0]
NoBorrow == [bucket |-> 0, high |-> 0, low |-> 0, pbs |-> 0]
NoJob == [flow |-> CHOOSE f \in Flows : TRUE, tlen |-> 0, phase |-> "class",
          i |-> 0, color |-> "Red"]
NoUpdate == [ctime |-> Zero, m |-> NoMeter, p |-> NoMeter]
NoReads == [ctime |-> Zero, pir |-> 0, cur |-> 0, low |-> 0, b |-> NoBorrow]

(* The state fv_front.py writes with nfp-rtsym; fv_s is zero, i.e. green.  *)
Init ==
    /\ now \in Start
    /\ m = [k \in Classes |-> [bucket |-> Conf[k].pbs, high |-> 0, low |-> 0,
                                cnt |-> 0, cur |-> 0, pir |-> InitPir[k]]]
    /\ b = [k \in Classes |-> [bucket |-> Conf[k].pbs, high |-> 0, low |-> 0,
                                pbs |-> Conf[k].pbs]]
    /\ s = [k \in Classes |-> "Green"]
    /\ left = MaxPackets
    /\ pc = [t \in Threads |-> "idle"]
    /\ job = [t \in Threads |-> NoJob]
    /\ up = [t \in Threads |-> NoUpdate]
    /\ rd = [t \in Threads |-> NoReads]

-----------------------------------------------------------------------------
Goto(t, step) == pc' = [pc EXCEPT ![t] = step]

(* The class whose meter and borrow bucket thread t is working on.         *)
Cls(t) == IF job[t].phase = "class" THEN job[t].flow.flowIdx[job[t].i]
                                    ELSE job[t].i

(* Time passes. *)
Tick ==
    /\ Before(now, MaxTime)
    /\ now' = IF now.low = Word - 1 THEN [up |-> now.up + 1, low |-> 0]
                                    ELSE [now EXCEPT !.low = @ + 1]
    /\ UNCHANGED <<m, b, s, left, pc, job, up, rd>>

(* A packet reaches an idle thread.  color is not initialised, which shows *)
(* only if the class loop assigns nothing to it.                           *)
Receive(t) ==
    /\ pc[t] = "idle" /\ left > 0
    /\ \E f \in Flows, n \in Lens :
          \E c \in (IF f.idxNum = 0 THEN Colour ELSE {"Red"}) :
             job' = [job EXCEPT ![t] = [flow |-> f, tlen |-> n,
                                        phase |-> "class", i |-> 0, color |-> c]]
    /\ left' = left - 1
    /\ Goto(t, "class")
    /\ UNCHANGED <<now, m, b, s, up, rd>>

-----------------------------------------------------------------------------
(* fv_class_execute: one thread wins the lock bit and refreshes the meter, *)
(* the others go straight to the metering.                                 *)
ClassTestSet(t) ==
    /\ pc[t] = "class" /\ job[t].i < job[t].flow.idxNum
    /\ m' = [m EXCEPT ![Cls(t)].high = TestSet(@)]
    /\ Goto(t, IF Locked(m[Cls(t)].high) THEN "meter" ELSE "u_tsc")
    /\ UNCHANGED <<now, b, s, left, job, up, rd>>

ClassMeter(t) ==
    /\ pc[t] = "meter"
    /\ job' = [job EXCEPT ![t].color = MeterColour(m[Cls(t)].bucket, job[t].tlen)]
    /\ m' = [m EXCEPT ![Cls(t)].bucket = Debit(@, job[t].tlen)]
    /\ Goto(t, "count")
    /\ UNCHANGED <<now, b, s, left, up, rd>>

(* mem_add32_imm on cnt_tk, whatever the colour. *)
CountBytes(t) ==
    /\ pc[t] = "count"
    /\ m' = [m EXCEPT ![Cls(t)].cnt = AddW(@, job[t].tlen)]
    /\ Goto(t, "s_tsc")
    /\ UNCHANGED <<now, b, s, left, job, up, rd>>

-----------------------------------------------------------------------------
(* update_fv_class, entered under the lock bit of the meter from the class *)
(* loop and without it from update_fv_borrow.                              *)
UpdateTsc(t) ==
    /\ pc[t] = "u_tsc"
    /\ up' = [up EXCEPT ![t].ctime = now]
    /\ Goto(t, "u_read")
    /\ UNCHANGED <<now, m, b, s, left, job, rd>>

UpdateRead(t) ==
    /\ pc[t] = "u_read"
    /\ up' = [up EXCEPT ![t].m = m[Cls(t)]]
    /\ Goto(t, IF Conf[Cls(t)].type = 0 THEN "u_write" ELSE "u_parent")
    /\ UNCHANGED <<now, m, b, s, left, job, rd>>

UpdateReadParent(t) ==
    /\ pc[t] = "u_parent"
    /\ up' = [up EXCEPT ![t].p = m[Conf[Cls(t)].pidx]]
    /\ Goto(t, "u_write")
    /\ UNCHANGED <<now, m, b, s, left, job, rd>>

Stamp(high, low) == [up |-> Upper(high), low |-> low]
ReadStamp(t) == Stamp(up[t].m.high, up[t].m.low)

Rate(t) == ClassRate(Conf[Cls(t)], up[t].m, up[t].p)

(* Fault: a nested update returns past the write of the borrow bucket.     *)
UpdateDoneNested(t) ==
    /\ up' = [up EXCEPT ![t] = NoUpdate]
    /\ Goto(t, IF job[t].phase = "class" THEN "meter" ELSE "b_meter")
    /\ UNCHANGED <<now, b, s, left, job, rd>>

UpdateDone(t) ==
    /\ up' = [up EXCEPT ![t] = NoUpdate]
    /\ Goto(t, IF job[t].phase = "class" THEN "meter" ELSE "b_write")
    /\ UNCHANGED <<now, b, s, left, job, rd>>

(* Fault: nothing to refresh, so nothing is written. *)
UpdateNoChangeSilent(t) ==
    /\ pc[t] = "u_write"
    /\ ~Before(ReadStamp(t), up[t].ctime)
    /\ UNCHANGED m
    /\ UpdateDone(t)

(* no_change: only last_update_high is written, with the lock bit clear.   *)
UpdateNoChange(t) ==
    /\ pc[t] = "u_write"
    /\ ~Before(ReadStamp(t), up[t].ctime)
    /\ m' = [m EXCEPT ![Cls(t)].high = up[t].ctime.up]
    /\ UpdateDone(t)

(* The upper word moved more than once: the bucket is filled.  cnt_tk and  *)
(* cur_pir of the write register were never assigned.                      *)
UpdateReset(t) ==
    /\ pc[t] = "u_write"
    /\ up[t].ctime.up - ReadStamp(t).up > 1
    /\ \E cnt, cur \in Junk :
          m' = [m EXCEPT ![Cls(t)] =
                   [bucket |-> Conf[Cls(t)].pbs,
                    high |-> up[t].ctime.up, low |-> up[t].ctime.low,
                    cnt |-> cnt, cur |-> cur, pir |-> Rate(t)]]
    /\ UpdateDone(t)

(* Tokens for the elapsed ticks.  cnt_tk and cur_pir are assigned only if  *)
(* the lower words differ.                                                 *)
UpdateCredit(t) ==
    LET md == up[t].m
        tdelta == TDelta(up[t].ctime.low, md.low)
    IN
    /\ pc[t] = "u_write"
    /\ Before(ReadStamp(t), up[t].ctime)
    /\ up[t].ctime.up - ReadStamp(t).up <= 1
    /\ \E cnt \in (IF tdelta = 0 THEN Junk ELSE {0}),
          cur \in (IF tdelta = 0 THEN Junk
                   ELSE {MeasuredRate(md.cnt, md.cur, tdelta)}) :
          m' = [m EXCEPT ![Cls(t)] =
                   [bucket |-> Refill(md.bucket, tdelta, Rate(t), Conf[Cls(t)].pbs),
                    high |-> up[t].ctime.up, low |-> up[t].ctime.low,
                    cnt |-> cnt, cur |-> cur, pir |-> Rate(t)]]
    /\ UpdateDone(t)

UpdateWrite(t) == UpdateNoChange(t) \/ UpdateReset(t) \/ UpdateCredit(t)

-----------------------------------------------------------------------------
(* fv_status_execute, and the reads update_fv_borrow does in the same way: *)
(* the clock first, then the two rates and the timestamp, one at a time.   *)
ReadTsc(t) ==
    /\ pc[t] \in {"s_tsc", "b_tsc"}
    /\ rd' = [rd EXCEPT ![t].ctime = now]
    /\ Goto(t, IF pc[t] = "s_tsc" THEN "s_pir" ELSE "b_pir")
    /\ UNCHANGED <<now, m, b, s, left, job, up>>

ReadPir(t) ==
    /\ pc[t] \in {"s_pir", "b_pir"}
    /\ rd' = [rd EXCEPT ![t].pir = m[Cls(t)].pir]
    /\ Goto(t, IF pc[t] = "s_pir" THEN "s_cur" ELSE "b_cur")
    /\ UNCHANGED <<now, m, b, s, left, job, up>>

ReadCur(t) ==
    /\ pc[t] \in {"s_cur", "b_cur"}
    /\ rd' = [rd EXCEPT ![t].cur = m[Cls(t)].cur]
    /\ Goto(t, IF pc[t] = "s_cur" THEN "s_low" ELSE "b_low")
    /\ UNCHANGED <<now, m, b, s, left, job, up>>

ReadLow(t) ==
    /\ pc[t] \in {"s_low", "b_low"}
    /\ rd' = [rd EXCEPT ![t].low = m[Cls(t)].low]
    /\ Goto(t, IF pc[t] = "s_low" THEN "s_write" ELSE "b_read")
    /\ UNCHANGED <<now, m, b, s, left, job, up>>

(* The status is written and the loop that called goes on to its next i.   *)
StatusWrite(t) ==
    /\ pc[t] = "s_write"
    /\ s' = [s EXCEPT ![Cls(t)] = StatusColour(rd[t].pir, rd[t].cur, rd[t].low,
                                               rd[t].ctime.low)]
    /\ rd' = [rd EXCEPT ![t] = NoReads]
    /\ job' = [job EXCEPT ![t].i = @ + 1]
    /\ Goto(t, IF job[t].phase = "class" THEN "class" ELSE "sibling")
    /\ UNCHANGED <<now, m, b, left, up>>

-----------------------------------------------------------------------------
(* The packet leaves: forwarded or dropped, the thread is idle again.      *)
Finish(t) ==
    /\ job' = [job EXCEPT ![t] = NoJob]
    /\ Goto(t, "idle")

(* The class loop is over and the last class it metered, the leaf, has     *)
(* tokens for the packet.                                                  *)
ForwardDirect(t) ==
    /\ pc[t] = "class" /\ job[t].i >= job[t].flow.idxNum
    /\ job[t].color # "Red"
    /\ Finish(t)
    /\ UNCHANGED <<now, m, b, s, left, up, rd>>

(* It has not: try the siblings, from index 0. *)
TryBorrow(t) ==
    /\ pc[t] = "class" /\ job[t].i >= job[t].flow.idxNum
    /\ job[t].color = "Red"
    /\ job' = [job EXCEPT ![t] = [flow |-> job[t].flow, tlen |-> job[t].tlen,
                                  phase |-> "borrow", i |-> 0, color |-> "Red"]]
    /\ Goto(t, "sibling")
    /\ UNCHANGED <<now, m, b, s, left, up, rd>>

MayBorrowInverted(t) == job[t].flow.flowSub[job[t].i] = 1    \* fault
MayBorrow(t) == job[t].flow.flowSub[job[t].i] = 0

(* Fault: the loop tries the same sibling again. *)
SiblingDeniedAgain(t) ==
    /\ pc[t] = "sibling" /\ job[t].i < job[t].flow.subNum
    /\ ~MayBorrow(t)
    /\ UNCHANGED <<now, m, b, s, left, pc, job, up, rd>>

SiblingDenied(t) ==
    /\ pc[t] = "sibling" /\ job[t].i < job[t].flow.subNum
    /\ ~MayBorrow(t)
    /\ job' = [job EXCEPT ![t].i = @ + 1]
    /\ UNCHANGED <<now, m, b, s, left, pc, up, rd>>

(* A sibling whose status is red is passed over, after a status update.    *)
SiblingStatus(t) ==
    /\ pc[t] = "sibling" /\ job[t].i < job[t].flow.subNum
    /\ MayBorrow(t)
    /\ Goto(t, IF s[Cls(t)] = "Red" THEN "s_tsc" ELSE "b_testset")
    /\ UNCHANGED <<now, m, b, s, left, job, up, rd>>

DropPacket(t) ==
    /\ pc[t] = "sibling" /\ job[t].i >= job[t].flow.subNum
    /\ Finish(t)
    /\ UNCHANGED <<now, m, b, s, left, up, rd>>

-----------------------------------------------------------------------------
(* fv_borrow_execute: the lock bit of the borrow bucket. *)
BorrowTestSet(t) ==
    /\ pc[t] = "b_testset"
    /\ b' = [b EXCEPT ![Cls(t)].high = TestSet(@)]
    /\ Goto(t, IF Locked(b[Cls(t)].high) THEN "b_meter" ELSE "b_tsc")
    /\ UNCHANGED <<now, m, s, left, job, up, rd>>

(* update_fv_borrow reads its bucket last.  When the rates of the meter    *)
(* are out of date it calls update_fv_class, without the meter's lock bit. *)
BorrowRead(t) ==
    /\ pc[t] = "b_read"
    /\ rd' = [rd EXCEPT ![t].b = b[Cls(t)]]
    /\ Goto(t, IF Expired(rd[t].ctime.low, rd[t].low) THEN "u_tsc" ELSE "b_write")
    /\ UNCHANGED <<now, m, b, s, left, job, up>>

(* The rate is stored in the word of the lock bit and the upper time; the  *)
(* bucket is refilled only if the lower word of the time moved.            *)
BorrowWrite(t) ==
    LET br == rd[t].b
        pir == BorrowRate(rd[t].pir, rd[t].cur, rd[t].low, rd[t].ctime.low,
                          Upper(br.high))
        tdelta == TDelta(rd[t].ctime.low, br.low)
    IN
    /\ pc[t] = "b_write"
    /\ b' = IF rd[t].ctime.low = br.low
            THEN [b EXCEPT ![Cls(t)].high = pir]
            ELSE [b EXCEPT ![Cls(t)] =
                     [bucket |-> Refill(br.bucket, tdelta, pir, br.pbs),
                      high |-> pir, low |-> rd[t].ctime.low, pbs |-> br.pbs]]
    /\ rd' = [rd EXCEPT ![t] = NoReads]
    /\ Goto(t, "b_meter")
    /\ UNCHANGED <<now, m, s, left, job, up>>

BorrowForward(t) ==
    /\ pc[t] = "b_meter"
    /\ MeterColour(b[Cls(t)].bucket, job[t].tlen) # "Red"
    /\ b' = [b EXCEPT ![Cls(t)].bucket = Debit(@, job[t].tlen)]
    /\ Finish(t)
    /\ UNCHANGED <<now, m, s, left, up, rd>>

BorrowRefused(t) ==
    /\ pc[t] = "b_meter"
    /\ MeterColour(b[Cls(t)].bucket, job[t].tlen) = "Red"
    /\ Goto(t, "s_tsc")
    /\ UNCHANGED <<now, m, b, s, left, job, up, rd>>

-----------------------------------------------------------------------------
Schedule(t) ==
    \/ ClassTestSet(t) \/ ClassMeter(t) \/ CountBytes(t)
    \/ UpdateTsc(t) \/ UpdateRead(t) \/ UpdateReadParent(t) \/ UpdateWrite(t)
    \/ ReadTsc(t) \/ ReadPir(t) \/ ReadCur(t) \/ ReadLow(t) \/ StatusWrite(t)
    \/ ForwardDirect(t) \/ TryBorrow(t)
    \/ SiblingDenied(t) \/ SiblingStatus(t) \/ DropPacket(t)
    \/ BorrowTestSet(t) \/ BorrowRead(t) \/ BorrowWrite(t)
    \/ BorrowForward(t) \/ BorrowRefused(t)

Next == Tick \/ \E t \in Threads : Receive(t) \/ Schedule(t)

Spec == Init /\ [][Next]_vars

(* A micro-engine runs its threads in turn and no command waits for        *)
(* another thread, so a thread with a packet keeps executing it.           *)
FairSpec == Spec /\ \A t \in Threads : WF_vars(Schedule(t))

-----------------------------------------------------------------------------
(* A thread at a command that names a class names one in use. *)
IndexOK == \A t \in Threads :
              pc[t] \notin {"idle", "class", "sibling"} => Cls(t) \in Classes

(* Every state is well typed: no operation on words leaves their range and *)
(* no thread indexes a class that is not in use.                           *)
TypeOK ==
    /\ now \in Time
    /\ m \in [Classes -> Meter]
    /\ b \in [Classes -> Borrow]
    /\ s \in [Classes -> Colour]
    /\ left \in Nat
    /\ pc \in [Threads -> Steps]
    /\ job \in [Threads -> Job]
    /\ up \in [Threads -> Update]
    /\ rd \in [Threads -> Reads]
    /\ IndexOK
=============================================================================
