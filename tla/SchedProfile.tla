----------------------------- MODULE SchedProfile -----------------------------
(***************************************************************************)
(* The profile file of dpdk_sched (--cfg): cfg_file.c reads it into the    *)
(* global parameters, init.c configures one scheduler per flow from them.  *)
(*                                                                         *)
(* A file is abstracted to a record                                        *)
(*   port      what [port] gives: "subports", "pipes" and "qsize", a key   *)
(*             that is absent has the value <<>>                           *)
(*   subports  a function from the subports that have a section to the     *)
(*             sequence of their entries "pipe begin-end = profile"        *)
(*   profiles  a function from the numbers of the sections "pipe profile"  *)
(*             to the weights they give (of one class, the rates alike)    *)
(* Every other key is a number that replaces a default, or leaves it.      *)
(*                                                                         *)
(* External: librte_cfgfile, and librte_sched, which refuses parameters.   *)
(***************************************************************************)
EXTENDS Integers, Sequences, FiniteSets

CONSTANTS
    ProfileFiles,  \* the profile files that may be given
    MaxSubports,   \* MAX_SCHED_SUBPORTS
    MaxPipes,      \* MAX_SCHED_PIPES
    NClasses,      \* RTE_SCHED_TRAFFIC_CLASSES_PER_PIPE, and queues per class
    DefaultPipes,  \* n_pipes_per_subport without a file
    NbPfc          \* nb_pfc

(* The numbers of a list are read into unsigned fields.  No file asks for  *)
(* more subports or pipes than the arrays of main.h have room for: beyond  *)
(* them the behaviour is undefined.                                        *)
ASSUME ProfileAssumption ==
    /\ {MaxSubports, MaxPipes, NClasses, DefaultPipes, NbPfc} \subseteq Nat \ {0}
    /\ DefaultPipes <= MaxPipes
    /\ \A f \in ProfileFiles :
          /\ f.port.subports \in {<<>>} \cup {<<n>> : n \in 0..MaxSubports}
          /\ f.port.pipes \in {<<>>} \cup {<<n>> : n \in 0..MaxPipes}
          /\ f.port.qsize \in Seq(Nat)
          /\ \A s \in DOMAIN f.subports :
                f.subports[s] \in Seq([first : Nat, last : Nat, profile : Nat])
          /\ DOMAIN f.profiles \subseteq Nat /\ IsFiniteSet(DOMAIN f.profiles)
          /\ \A k \in DOMAIN f.profiles : f.profiles[k] \in Seq(Nat)

VARIABLES
    stage,     \* "port", "subport", "pipe", "flows", "ready", or "exit"
    file,      \* the file, fixed
    params,    \* port_params: "subports", "pipes", "qsize", "profiles"
    entry,     \* <<subport, entry>>: the next entry to read
    profileOf, \* app_pipe_to_profile
    weights,   \* pipe_profiles, the part that port_params counts
    sched      \* per flow configured so far, the profile of each of its pipes

profileVars == <<stage, file, params, entry, profileOf, weights, sched>>

Subports == 0..(MaxSubports - 1)
Pipes == 0..(MaxPipes - 1)
NoProfile == -1

Defaults == [subports |-> 1, pipes |-> DefaultPipes,
             qsize |-> [j \in 1..NClasses |-> 64], profiles |-> 0]

ProfileInit ==
    /\ file \in ProfileFiles
    /\ stage = "port" /\ params = Defaults
    /\ entry = <<0, 1>>
    /\ profileOf = [s \in Subports |-> [p \in Pipes |-> 0]]
    /\ weights = <<>>
    /\ sched = <<>>

-----------------------------------------------------------------------------
(* Fault: the numbers that a list lacks keep their old values. *)
ListReadKept(list, old) ==
    [j \in 1..NClasses |-> IF j <= Len(list) THEN list[j] ELSE old[j]]

(* strtol never leaves next at NULL: past the end of the list it reads 0. *)
ListRead(list, old) ==
    [j \in 1..NClasses |-> IF j <= Len(list) THEN list[j] ELSE 0]

Value(given, old) == IF given = <<>> THEN old ELSE given[1]

CfgLoadPort ==
    /\ stage = "port"
    /\ params' = [params EXCEPT
                  !.subports = Value(file.port.subports, @),
                  !.pipes = Value(file.port.pipes, @),
                  !.qsize = IF file.port.qsize = <<>> THEN @ ELSE ListRead(file.port.qsize, @)]
    /\ profileOf' = [s \in Subports |-> [p \in Pipes |-> NoProfile]]
    /\ stage' = "subport"
    /\ UNCHANGED <<file, entry, weights, sched>>

Sub == entry[1]
Entries == IF Sub \in DOMAIN file.subports THEN file.subports[Sub] ELSE <<>>
Entry == Entries[entry[2]]
AnyProfile(e) == TRUE          \* fault: sections are not looked up
HasProfile(e) == e.profile \in DOMAIN file.profiles
RangeValid(e) == e.last < MaxPipes /\ e.first <= e.last

(* Fault: the first entry for a pipe stays. *)
MapPipesFirst(of, e) ==
    [p \in Pipes |-> IF p \in e.first..e.last /\ of[p] = NoProfile THEN e.profile ELSE of[p]]

MapPipes(of, e) == [p \in Pipes |-> IF p \in e.first..e.last THEN e.profile ELSE of[p]]

ReadEntry ==
    /\ stage = "subport" /\ Sub < MaxSubports /\ entry[2] <= Len(Entries)
    /\ RangeValid(Entry) /\ HasProfile(Entry)
    /\ profileOf' = [profileOf EXCEPT ![Sub] = MapPipes(@, Entry)]
    /\ entry' = <<Sub, entry[2] + 1>>
    /\ UNCHANGED <<stage, file, params, weights, sched>>

NextSubport ==
    /\ stage = "subport" /\ Sub < MaxSubports /\ entry[2] > Len(Entries)
    /\ entry' = <<Sub + 1, 1>>
    /\ UNCHANGED <<stage, file, params, profileOf, weights, sched>>

(* The section of the profile is looked up after the range.  The result of *)
(* cfg_load_subport is not used: a range that is refused ends the reading  *)
(* of this section and of those after it, and the program goes on.         *)
BadEntry ==
    /\ stage = "subport" /\ Sub < MaxSubports /\ entry[2] <= Len(Entries)
    /\ ~(RangeValid(Entry) /\ HasProfile(Entry))
    /\ stage' = IF RangeValid(Entry) THEN "exit" ELSE "pipe"
    /\ UNCHANGED <<file, params, entry, profileOf, weights, sched>>

EndOfSubports ==
    /\ stage = "subport" /\ Sub = MaxSubports
    /\ stage' = "pipe"
    /\ UNCHANGED <<file, params, entry, profileOf, weights, sched>>

(* pipe_profiles is initialised for the first profile only. *)
BuiltIn(k) == [j \in 1..NClasses |-> IF k = 0 THEN 1 ELSE 0]

(* The sections are counted, and read by the numbers from 0. *)
NSections == Cardinality(DOMAIN file.profiles)

CfgLoadPipe ==
    /\ stage = "pipe"
    /\ params' = [params EXCEPT !.profiles = NSections]
    /\ weights' = [k \in 1..NSections |->
                      IF k - 1 \notin DOMAIN file.profiles THEN BuiltIn(k - 1)
                      ELSE ListRead(file.profiles[k - 1], BuiltIn(k - 1))]
    /\ stage' = "flows"
    /\ UNCHANGED <<file, entry, profileOf, sched>>

-----------------------------------------------------------------------------
(* app_init_sched_port.  librte_sched refuses a queue size or a weight of  *)
(* 0, a subport without parameters, and a profile it does not know.        *)
SchedTakes ==
    /\ \A j \in 1..NClasses : params.qsize[j] > 0
    /\ params.profiles > 0
    /\ \A k \in 1..params.profiles : \A j \in 1..NClasses : weights[k][j] > 0
    /\ \A s \in 0..(params.subports - 1) :
          /\ s = 0 \/ s \in DOMAIN file.subports
          /\ \A p \in 0..(params.pipes - 1) :
                profileOf[s][p] # NoProfile => profileOf[s][p] < params.profiles

InitSchedPort ==
    /\ stage = "flows" /\ Len(sched) < NbPfc
    /\ IF SchedTakes
       THEN /\ sched' = Append(sched, [s \in 0..(params.subports - 1) |->
                                          [p \in 0..(params.pipes - 1) |-> profileOf[s][p]]])
            /\ UNCHANGED stage
       ELSE stage' = "exit" /\ UNCHANGED sched
    /\ UNCHANGED <<file, params, entry, profileOf, weights>>

Ready ==
    /\ stage = "flows" /\ Len(sched) = NbPfc
    /\ stage' = "ready"
    /\ UNCHANGED <<file, params, entry, profileOf, weights, sched>>

ProfileNext ==
    \/ CfgLoadPort \/ ReadEntry \/ NextSubport \/ BadEntry \/ EndOfSubports
    \/ CfgLoadPipe \/ InitSchedPort \/ Ready

ProfileSpec == ProfileInit /\ [][ProfileNext]_profileVars

-----------------------------------------------------------------------------
EntriesOf(s) == IF s \in DOMAIN file.subports THEN file.subports[s] ELSE <<>>
Covers(s, p) == {i \in DOMAIN EntriesOf(s) : EntriesOf(s)[i].first <= p /\ p <= EntriesOf(s)[i].last}
Valid == \A s \in DOMAIN file.subports :
            \A i \in DOMAIN file.subports[s] : RangeValid(file.subports[s][i])

(* Where ranges overlap, a pipe has the profile of the last line that      *)
(* names it; one that no line names has none (cfg_file.c:306-338).         *)
LastEntryWins ==
    stage = "ready" /\ Valid =>
       \A f \in DOMAIN sched : \A s \in DOMAIN sched[f] : \A p \in DOMAIN sched[f][s] :
          IF Covers(s, p) = {} THEN sched[f][s][p] = NoProfile
          ELSE \E i \in Covers(s, p) :
                  /\ \A k \in Covers(s, p) : k <= i
                  /\ sched[f][s][p] = EntriesOf(s)[i].profile

(* No scheduler that came up gives a pipe a profile that the file does not *)
(* describe, whatever numbers the sections have (cfg_file.c:168-172, 333,  *)
(* init.c:292-293).                                                        *)
ProfilesDescribed ==
    stage = "ready" =>
       \A f \in DOMAIN sched : \A s \in DOMAIN sched[f] : \A p \in DOMAIN sched[f][s] :
          sched[f][s][p] # NoProfile =>
             /\ sched[f][s][p] \in DOMAIN file.profiles
             /\ \A j \in 1..NClasses : weights[sched[f][s][p] + 1][j] =
                                      file.profiles[sched[f][s][p]][j]

(* A list with too few numbers is not completed from the defaults: if the  *)
(* program comes up, the queue sizes are the file's or the built-in ones   *)
(* (cfg_file.c:70-81).                                                     *)
ListsWhole ==
    stage = "ready" =>
       \/ params.qsize = Defaults.qsize /\ file.port.qsize = <<>>
       \/ /\ Len(file.port.qsize) >= NClasses
          /\ \A j \in 1..NClasses : params.qsize[j] = file.port.qsize[j]

(* The profile file (cfg_file.c, init.c).  A pipe has the profile of the   *)
(* last line that names it, and if the program comes up the file describes *)
(* that profile; a list with too few numbers is not completed from the     *)
(* defaults (cfg_file.c:70-81, 168-172, 306-338, init.c:292-293).          *)
ProfilesAsWritten == LastEntryWins /\ ProfilesDescribed /\ ListsWhole
=============================================================================
