------------------------------ MODULE QueueStats ------------------------------
(***************************************************************************)
(* dpdk_sched/cmdline.c and stats.c: the prompt on the master core, which  *)
(* prints averages of queue lengths while the other cores fill and empty   *)
(* the queues.                                                             *)
(*                                                                         *)
(* External: the command line library, which finds the command for a line; *)
(* the scheduler, which returns any length when a queue is read.           *)
(***************************************************************************)
EXTENDS Naturals, Sequences, FiniteSets

CONSTANTS
    TxPorts,       \* tx_port of each flow in qos_conf
    SubportsPerPort, PipesPerSubport,
    TcsPerPipe,    \* RTE_SCHED_TRAFFIC_CLASSES_PER_PIPE
    QueuesPerTc,   \* RTE_SCHED_QUEUES_PER_TRAFFIC_CLASS
    Word,          \* values of uint32_t
    MaxLen,        \* bound: the longest queue
    Times,         \* bound: the numbers of passes the user asks for
    MaxArg         \* bound: the largest index the user types

ASSUME StatsAssumption ==
    /\ TxPorts \in Seq(Nat) /\ TxPorts # <<>>
    /\ \A f, g \in DOMAIN TxPorts : TxPorts[f] = TxPorts[g] => f = g
    /\ {SubportsPerPort, PipesPerSubport, TcsPerPipe, QueuesPerTc, Word}
          \subseteq Nat \ {0}
    /\ MaxLen \in Nat /\ MaxArg \in Nat /\ Times \subseteq Nat

QueuesPerPipe == TcsPerPipe * QueuesPerTc
QueueIds == 0..(SubportsPerPort * PipesPerSubport * QueuesPerPipe - 1)

VARIABLES
    at,        \* "prompt", "read" (in a pass), "average", "quit" or "crash"
    line,      \* the last line typed
    outcome,   \* "done", "unavailable" or "bad" (no such command)
    ntimes,    \* qavg_ntimes
    job,       \* the call in progress
    count,     \* passes done
    visited,   \* queues read in this pass
    part,      \* part_average
    average,
    seen       \* the lengths that were read

statsVars == <<at, line, outcome, ntimes, job, count, visited, part, average, seen>>

-----------------------------------------------------------------------------
(* stats.c.  A call is refused if it names what does not exist; otherwise  *)
(* it reads the queues ids of a flow in this order, once per pass.         *)
Flow(port) == {f \in DOMAIN TxPorts : TxPorts[f] = port}

(* Fault: the bound itself is let through. *)
BelowOrAt(n, bound) == n <= bound

Below(n, bound) == n < bound

(* Fault: the subports before this one are counted as pipes. *)
BaseSum(subport, pipe) == QueuesPerPipe * (subport + pipe)

Base(subport, pipe) == QueuesPerPipe * (subport * PipesPerSubport + pipe)

Call(ok, port, ids, divisor, averages) ==
    [ok |-> ok /\ Flow(port) # {}, flow |-> Flow(port), ids |-> ids,
     divisor |-> divisor, averages |-> averages]

qavg_q(port, subport, pipe, tc, q) ==
    Call(/\ Below(subport, SubportsPerPort) /\ Below(pipe, PipesPerSubport)
         /\ Below(tc, TcsPerPipe) /\ Below(q, QueuesPerTc),
         port, <<Base(subport, pipe) + tc * QueuesPerTc + q>>, 1, TRUE)

qavg_tcpipe(port, subport, pipe, tc) ==
    Call(/\ Below(subport, SubportsPerPort) /\ Below(pipe, PipesPerSubport)
         /\ Below(tc, TcsPerPipe),
         port,
         [i \in 1..QueuesPerTc |-> Base(subport, pipe) + tc * QueuesPerTc + i - 1],
         QueuesPerTc, TRUE)

qavg_pipe(port, subport, pipe) ==
    Call(Below(subport, SubportsPerPort) /\ Below(pipe, PipesPerSubport),
         port, [i \in 1..QueuesPerPipe |-> Base(subport, pipe) + i - 1],
         QueuesPerPipe, TRUE)

(* Fault: the sum over all the pipes is divided by the queues of one.      *)
qavg_tcsubport_one_pipe(port, subport, tc) ==
    Call(Below(subport, SubportsPerPort) /\ Below(tc, TcsPerPipe),
         port,
         [n \in 1..(PipesPerSubport * QueuesPerTc) |->
             Base(subport, (n - 1) \div QueuesPerTc)
                + tc * QueuesPerTc + ((n - 1) % QueuesPerTc)],
         QueuesPerTc, TRUE)

qavg_tcsubport(port, subport, tc) ==
    Call(Below(subport, SubportsPerPort) /\ Below(tc, TcsPerPipe),
         port,
         [n \in 1..(PipesPerSubport * QueuesPerTc) |->
             Base(subport, (n - 1) \div QueuesPerTc)
                + tc * QueuesPerTc + ((n - 1) % QueuesPerTc)],
         PipesPerSubport * QueuesPerTc, TRUE)

qavg_subport(port, subport) ==
    Call(Below(subport, SubportsPerPort),
         port,
         [n \in 1..(PipesPerSubport * QueuesPerPipe) |->
             Base(subport, (n - 1) \div QueuesPerPipe) + ((n - 1) % QueuesPerPipe)],
         PipesPerSubport * QueuesPerPipe, TRUE)

(* The counters of a subport are read by one call of the scheduler. *)
subport_stat(port, subport) ==
    Call(Below(subport, SubportsPerPort), port, <<>>, 1, FALSE)

pipe_stat(port, subport, pipe) ==
    Call(Below(subport, SubportsPerPort) /\ Below(pipe, PipesPerSubport),
         port,
         [n \in 1..QueuesPerPipe |->
             Base(subport, pipe)
                + ((n - 1) \div QueuesPerTc) * QueuesPerTc + ((n - 1) % QueuesPerTc)],
         1, FALSE)

-----------------------------------------------------------------------------
(* cmdline.c.  A command is known by its words; the numbers that stand     *)
(* between them are its arguments.                                         *)
cmd_help == {<<"help">>}
cmd_quit == {<<"quit">>}

cmd_setqavg == {<<"qavg", "period">>, <<"qavg", "n">>}
cmd_appstats == {<<"stats", "app">>}
cmd_subportstats == {<<"stats", "port", "subport">>}
cmd_pipestats == {<<"stats", "port", "subport", "pipe">>}
cmd_avg_q == {<<"qavg", "port", "subport", "pipe", "tc", "q">>}
cmd_avg_tcpipe == {<<"qavg", "port", "subport", "pipe", "tc">>}
cmd_avg_pipe == {<<"qavg", "port", "subport", "pipe">>}
cmd_avg_tcsubport == {<<"qavg", "port", "subport", "tc">>}
cmd_avg_subport == {<<"qavg", "port", "subport">>}

Known == UNION {cmd_help, cmd_quit, cmd_setqavg, cmd_appstats, cmd_subportstats,
                cmd_pipestats, cmd_avg_q, cmd_avg_tcpipe, cmd_avg_pipe,
                cmd_avg_tcsubport, cmd_avg_subport}

Handler(l) ==
    LET n == l.nums IN
    CASE l.words \in cmd_subportstats -> subport_stat(n[1], n[2])
      [] l.words \in cmd_pipestats -> pipe_stat(n[1], n[2], n[3])
      [] l.words \in cmd_avg_q -> qavg_q(n[1], n[2], n[3], n[4], n[5])
      [] l.words \in cmd_avg_tcpipe -> qavg_tcpipe(n[1], n[2], n[3], n[4])
      [] l.words \in cmd_avg_pipe -> qavg_pipe(n[1], n[2], n[3])
      [] l.words \in cmd_avg_tcsubport -> qavg_tcsubport(n[1], n[2], n[3])
      [] l.words \in cmd_avg_subport -> qavg_subport(n[1], n[2])

(* The lines the help text lists. *)
HelpLines ==
    {<<"quit">>, <<"stats", "app">>, <<"stats", "port", "subport">>,
     <<"stats", "port", "subport", "pipe">>, <<"qavg", "port", "subport">>,
     <<"qavg", "port", "subport", "tc">>, <<"qavg", "port", "subport", "pipe">>,
     <<"qavg", "port", "subport", "pipe", "tc">>,
     <<"qavg", "port", "subport", "pipe", "tc", "q">>,
     <<"qavg", "n">>, <<"qavg", "period">>}

Junk == {<<"qavg">>, <<"stats", "port">>, <<"stats", "port", "subport", "tc">>}

Numbers(words) ==
    IF words[1] \in {"help", "quit"} \/ words = <<"stats", "app">> THEN {<<>>}
    ELSE IF words \in {<<"qavg", "n">>, <<"qavg", "period">>} THEN {<<t>> : t \in Times}
    ELSE [1..(Len(words) - 1) -> 0..MaxArg]

Lines == UNION {[words : {w}, nums : Numbers(w)] : w \in HelpLines \cup Junk \cup {<<"help">>}}

-----------------------------------------------------------------------------
NoJob == [ok |-> FALSE, flow |-> {}, ids |-> <<>>, divisor |-> 1, averages |-> FALSE]

StatsInit ==
    /\ at = "prompt" /\ outcome = "done"
    /\ line = [words |-> <<"help">>, nums |-> <<>>]
    /\ ntimes \in Times \ {0}
    /\ job = NoJob /\ count = 0 /\ visited = {}
    /\ part = 0 /\ average = 0 /\ seen = {}

Answered(a, o) ==
    /\ at' = a /\ outcome' = o
    /\ job' = NoJob /\ count' = 0 /\ visited' = {}
    /\ part' = 0 /\ average' = 0 /\ seen' = {}

Quit(l) == l.words \in cmd_quit /\ Answered("quit", "done") /\ UNCHANGED ntimes

SetQavg(l) ==
    /\ l.words \in cmd_setqavg
    /\ ntimes' = IF l.words[2] = "n" THEN l.nums[1] ELSE ntimes
    /\ Answered("prompt", "done")

PrintOnly(l) ==
    /\ l.words \in cmd_help \cup cmd_appstats
    /\ Answered("prompt", "done")
    /\ UNCHANGED ntimes

Unknown(l) ==
    /\ l.words \notin Known
    /\ Answered("prompt", "bad")
    /\ UNCHANGED ntimes

Reads(l) == l.words \in Known \ UNION {cmd_help, cmd_quit, cmd_setqavg, cmd_appstats}

Refuse(l) ==
    /\ Reads(l) /\ ~Handler(l).ok
    /\ Answered("prompt", "unavailable")
    /\ UNCHANGED ntimes

(* With qavg_ntimes = 0 there is no pass, and the division stops the       *)
(* program.                                                                *)
Measure(l) ==
    /\ Reads(l) /\ Handler(l).ok
    /\ job' = Handler(l)
    /\ at' = IF job'.averages /\ ntimes = 0 THEN "crash" ELSE "read"
    /\ outcome' = "done"
    /\ count' = 0 /\ visited' = {} /\ part' = 0 /\ average' = 0 /\ seen' = {}
    /\ UNCHANGED ntimes

TypeLine(l) ==
    /\ at = "prompt"
    /\ line' = l
    /\ Quit(l) \/ SetQavg(l) \/ PrintOnly(l) \/ Unknown(l) \/ Refuse(l) \/ Measure(l)

(* rte_sched_queue_read_stats of the next queue of the pass. *)
ReadQueue ==
    /\ at = "read" /\ Cardinality(visited) < Len(job.ids)
    /\ \E qlen \in 0..MaxLen :
          /\ part' = (part + qlen) % Word
          /\ seen' = seen \cup {qlen}
    /\ visited' = visited \cup {job.ids[Cardinality(visited) + 1]}
    /\ UNCHANGED <<at, line, outcome, ntimes, job, count, average>>

(* Fault: one variable counts the queues and the passes, and starts again. *)
EndPassAgain ==
    /\ at = "read" /\ job.averages /\ Cardinality(visited) = Len(job.ids)
    /\ average' = (average + part \div job.divisor) % Word
    /\ part' = 0 /\ visited' = {}
    /\ UNCHANGED <<at, line, outcome, ntimes, job, count, seen>>

EndPass ==
    /\ at = "read" /\ job.averages /\ Cardinality(visited) = Len(job.ids)
    /\ average' = (average + part \div job.divisor) % Word
    /\ count' = count + 1
    /\ at' = IF count' = ntimes THEN "average" ELSE "read"
    /\ part' = 0 /\ visited' = {}
    /\ UNCHANGED <<line, outcome, ntimes, job, seen>>

EndStat ==
    /\ at = "read" /\ ~job.averages /\ Cardinality(visited) = Len(job.ids)
    /\ Answered("prompt", "done")
    /\ UNCHANGED <<line, ntimes>>

(* The average over the passes is printed. *)
Printed == average \div ntimes

Print_average ==
    /\ at = "average"
    /\ Answered("prompt", "done")
    /\ UNCHANGED <<line, ntimes>>

Work == ReadQueue \/ EndPass \/ EndStat \/ Print_average

StatsNext == Work \/ \E l \in Lines : TypeLine(l)

StatsSpec == StatsInit /\ [][StatsNext]_statsVars

-----------------------------------------------------------------------------
(* What a line names, read off its words: the number after each of them.   *)
Named(l, word) == {l.nums[i] : i \in {n \in DOMAIN l.nums : l.words[n + 1] = word}}

(* A queue's number, taken apart again. *)
Of(id) ==
    [subport |-> id \div (PipesPerSubport * QueuesPerPipe),
     pipe |-> (id \div QueuesPerPipe) % PipesPerSubport,
     tc |-> (id \div QueuesPerTc) % TcsPerPipe,
     q |-> id % QueuesPerTc]

Scope(l) ==
    {id \in QueueIds :
        \A w \in {"subport", "pipe", "tc", "q"} :
           Named(l, w) = {} \/ Of(id)[w] \in Named(l, w)}

(* A pass reads the queues the line names, all of them and no other, once  *)
(* each, of the flow that sends to that port (stats.c:58-66, 95-107,       *)
(* 134-146, 177-188, 219-230, 293-308).                                    *)
ScopeIsRead ==
    at = "read" =>
       /\ visited \subseteq Scope(line)
       /\ Len(job.ids) # 0 => {job.ids[i] : i \in DOMAIN job.ids} = Scope(line)
                              /\ Len(job.ids) = Cardinality(Scope(line))
       /\ \A f \in job.flow : TxPorts[f] \in Named(line, "port")

(* The average that is printed lies between the shortest and the longest   *)
(* length that was read, although each pass and their sum are rounded, if  *)
(* the sums fit the word (stats.c:99-111, 175-192, 217-234).               *)
AverageWithin ==
    at = "average" /\ ntimes * MaxLen * Cardinality(QueueIds) < Word =>
       (\E n \in seen : n <= Printed) /\ (\E n \in seen : Printed <= n)

(* A line is refused only if it names something that does not exist        *)
(* (stats.c:52, 89, 129, 168, 210, 251, 288), and no line that names such  *)
(* a thing is measured.                                                    *)
RefusedIffAbsent ==
    LET absent == \/ Named(line, "port") \cap {TxPorts[f] : f \in DOMAIN TxPorts} = {}
                  \/ Scope(line) = {}
    IN /\ outcome = "unavailable" => absent
       /\ at \in {"read", "average", "crash"} => ~absent

(* The prompt (cmdline.c, stats.c).  A line is refused only if it names    *)
(* something that does not exist; a pass reads the queues the line names,  *)
(* all of them and no other, once each; and the average lies between the   *)
(* shortest and the longest length read, although each pass and their sum  *)
(* are rounded (stats.c:52-66, 84-111, 124-150, 163-192, 205-234,          *)
(* 247-308).                                                               *)
AnswerIsScope == RefusedIffAbsent /\ ScopeIsRead /\ AverageWithin

(* A command comes to an end and the prompt returns (stats.c:63-73).  The  *)
(* division by the number of passes stops the program before the first     *)
(* pass or not at all.                                                     *)
PromptReturns == at = "read" ~> at = "prompt"
=============================================================================
