--------------------------------- MODULE Pcap ---------------------------------
(***************************************************************************)
(* pcap.c: a capture becomes a pool of packets.  pcap_parse counts the     *)
(* records, and creates a pool with at least that many buffers;            *)
(* pcap_mbuf_ctor is called once for every buffer, and copies the next     *)
(* record into it, from the start again after the last.                    *)
(*                                                                         *)
(* A record is [incl |-> the length its header says, there |-> the number  *)
(* of bytes that follow]: only the last of a file that was cut off has     *)
(* less of them.  What a buffer holds is the number of the record the      *)
(* bytes are from, or Stale for what was on the stack.                     *)
(*                                                                         *)
(* External: the file, and rte_mempool_create, which calls the constructor *)
(* for one buffer after the other.                                         *)
(***************************************************************************)
EXTENDS Naturals, Sequences

CONSTANTS
    Captures,   \* the captures: sequences of records
    MinPkt,     \* MIN_PKT_SIZE
    MaxPkt,     \* MAX_PKT_SIZE
    BufSize,    \* MBUF_SIZE
    MinMbufs    \* MAX_MBUFS_PER_PORT, which is the smallest pool

ASSUME PcapAssumption ==
    /\ MinPkt \in Nat \ {0} /\ MaxPkt \in Nat /\ BufSize \in Nat /\ MinMbufs \in Nat \ {0}
    /\ MinPkt <= MaxPkt /\ MaxPkt <= BufSize
    /\ MinMbufs <= 2^30
    /\ \A f \in Captures : f \in Seq([incl : Nat, there : Nat]) /\ Len(f) <= 2^30

VARIABLES
    capture,  \* the capture, fixed
    progress, \* "open", "count", "create", "build", "ready", or "none"
    next,     \* the record the file pointer is at
    buffer,   \* the record the local buffer holds
    eltCount, \* elt_count of pcap_parse
    size,     \* pkt_sizes
    elements, \* the buffers the pool is created with
    buffers   \* the buffers that are built: where from, what bytes, what length

pcapVars == <<capture, progress, next, buffer, eltCount, size, elements, buffers>>

Stale == 0

PcapInit ==
    /\ capture \in Captures
    /\ progress = "open" /\ next = 1 /\ buffer = Stale
    /\ eltCount = 0 /\ size = 0 /\ elements = 0 /\ buffers = <<>>

-----------------------------------------------------------------------------
(* The file may be missing, too short or without the magic number; a file  *)
(* that is big-endian is converted.  Without a file there is no pool.      *)
Open ==
    /\ progress = "open"
    /\ progress' \in {"count", "none"}
    /\ UNCHANGED <<capture, next, buffer, eltCount, size, elements, buffers>>

AtEnd == next > Len(capture)
Record == capture[next]

(* What _pcap_read returns: a record that is too large is passed over, and *)
(* its length is the result.                                               *)
Result ==
    IF AtEnd THEN 0 ELSE IF Record.incl > BufSize THEN Record.incl ELSE Record.there

(* What it leaves in the buffer. *)
Bytes == IF Record.incl > BufSize THEN buffer ELSE next

Clamp(len) == IF len < MinPkt THEN MinPkt ELSE IF len > MaxPkt THEN MaxPkt ELSE len

CountedAll == ~AtEnd         \* fault: an empty record is counted
Counted == Result > 0

Count ==
    /\ progress = "count" /\ Counted
    /\ buffer' = Bytes
    /\ next' = next + 1
    /\ eltCount' = eltCount + 1 /\ size' = size + Clamp(Record.incl)
    /\ UNCHANGED <<capture, progress, elements, buffers>>

(* The first read that returns 0 ends the count: the end of the file, or a *)
(* record without bytes, whatever follows it.                              *)
EndOfCount ==
    /\ progress = "count" /\ ~Counted
    /\ progress' = IF eltCount > 0 THEN "create" ELSE "none"
    /\ UNCHANGED <<capture, next, buffer, eltCount, size, elements, buffers>>

-----------------------------------------------------------------------------
(* rte_align32pow2, as far as the words of the code have room for a pool.  *)
PowersOfTwo == {2^i : i \in 0..30}
AlignPow2(n) == CHOOSE p \in PowersOfTwo : p >= n /\ \A q \in PowersOfTwo : q >= n => p <= q

(* Fault: the pool is never larger than the smallest. *)
PoolSizeFew == AlignPow2(IF eltCount < MinMbufs THEN eltCount ELSE MinMbufs)
PoolSize == AlignPow2(IF eltCount < MinMbufs THEN MinMbufs ELSE eltCount)

RewindPast == 2              \* fault: the first record is taken for the header
Rewind == 1

(* The local buffer of the constructor is another one. *)
Create ==
    /\ progress = "create"
    /\ progress' = "build"
    /\ elements' = PoolSize
    /\ next' = Rewind /\ buffer' = Stale
    /\ UNCHANGED <<capture, eltCount, size, buffers>>

Ctor ==
    /\ progress = "build" /\ Len(buffers) < elements /\ Result > 0
    /\ buffer' = Bytes
    /\ next' = next + 1
    /\ buffers' = Append(buffers, [from |-> next, bytes |-> Bytes, len |-> Clamp(Record.incl)])
    /\ UNCHANGED <<capture, progress, eltCount, size, elements>>

(* The loop of the constructor. *)
CtorRewind ==
    /\ progress = "build" /\ Len(buffers) < elements /\ Result = 0
    /\ next' = Rewind
    /\ UNCHANGED <<capture, progress, buffer, eltCount, size, elements, buffers>>

Built ==
    /\ progress = "build" /\ Len(buffers) = elements
    /\ progress' = "ready"
    /\ UNCHANGED <<capture, next, buffer, eltCount, size, elements, buffers>>

PcapNext == Open \/ Count \/ EndOfCount \/ Create \/ Ctor \/ CtorRewind \/ Built

(* One thread runs from the first read to the pool. *)
PcapSpec == PcapInit /\ [][PcapNext]_pcapVars /\ WF_pcapVars(PcapNext)

-----------------------------------------------------------------------------
FitsBuffer(r) == r.incl <= BufSize
Usable(i) == capture[i].there > 0 \/ ~FitsBuffer(capture[i])

(* The constructor's passes agree with the count of pcap_parse: buffer     *)
(* after buffer takes the records in the order of the capture, from the    *)
(* first again after the last that was counted, and none in between is     *)
(* left out (pcap.c:177-183, 221-233).                                     *)
PoolCycles ==
    \A i \in DOMAIN buffers : buffers[i].from = ((i - 1) % eltCount) + 1

(* Every record that was counted is in the pool, however many there are,   *)
(* with its own bytes unless it is larger than the buffer, and the ones    *)
(* counted are all before the first without bytes (pcap.c:134-143, 243).   *)
EveryRecordUsed ==
    progress = "ready" =>
       \A k \in DOMAIN capture :
          (\A i \in 1..k : Usable(i)) =>
             \E j \in DOMAIN buffers :
                /\ buffers[j].from = k
                /\ FitsBuffer(capture[k]) => buffers[j].bytes = k

(* The capture (pcap.c).  Every record that was counted is in the pool, in *)
(* the order of the capture, and again from the first one after the last;  *)
(* with its own bytes unless it is larger than the buffer                  *)
(* (pcap.c:134-143, 177-183, 221-243).                                     *)
PoolIsCapture == PoolCycles /\ EveryRecordUsed

(* The constructor's loop ends: a pass over a file that was counted        *)
(* yields at least one packet (pcap.c:174-203).                            *)
PoolIsBuilt == progress = "build" ~> progress = "ready"
=============================================================================
