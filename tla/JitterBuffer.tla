---------------------------- MODULE JitterBuffer ----------------------------
(***************************************************************************)
(* The jitter buffer of the rtp crate (session/jitter_buffer.rs) and the   *)
(* extension of wrapping counters it is fed with (rtp/src/lib.rs), as      *)
(* operators on a buffer                                                   *)
(*   [queue, last, dropped, lost]                                          *)
(* whose queue holds one entry per extended sequence number, oldest first, *)
(* vacant or with a packet and its extended timestamp.                     *)
(***************************************************************************)
EXTENDS Integers, Sequences, SequencesExt

CONSTANTS
    MaxEntries,   \* JitterBuffer.max_entries
    None          \* a vacant entry's packet, a buffer that returned nothing

ASSUME EntriesAssumption == MaxEntries \in Nat \ {0} /\ None \notin Nat

AbsDiff(a, b) == IF a < b THEN b - a ELSE a - b

(* wrapping_counter_to_u64_counter: the counter `got` that wraps at max is *)
(* placed next to the extended value it follows.                           *)
GuessExtended(reference, got, max) ==
    LET mul == IF reference \div max = 0 THEN 0 ELSE reference \div max - 1
        low == mul * max + got
        high == (mul + 1) * max + got IN
    IF AbsDiff(low, reference) < AbsDiff(high, reference) THEN low ELSE high

Entry(seq, ts, packet) == [seq |-> seq, ts |-> ts, packet |-> packet]
Vacant(seq) == Entry(seq, 0, None)

EmptyBuffer == [queue |-> <<>>, last |-> None, dropped |-> 0, lost |-> 0]

(* The end of push: one entry goes when there are too many.                *)
Trimmed(jb) ==
    IF Len(jb.queue) > MaxEntries
    THEN [jb EXCEPT !.queue = Tail(@), !.dropped = @ + 1]
    ELSE jb

(* A packet no newer than the newest entry takes its vacant place, if that *)
(* is still queued, or is a duplicate.                                     *)
Placed(jb, entry) ==
    LET i == SelectInSeq(jb.queue, LAMBDA e : e.seq = entry.seq) IN
    IF i = 0 THEN jb
    ELSE IF jb.queue[i].packet = None THEN [jb EXCEPT !.queue[i] = entry]
    ELSE [jb EXCEPT !.dropped = @ + 1]
(* Mutant: nothing is left for what is missing.                           *)
ExtendedWithoutGap(jb, entry) == [jb EXCEPT !.queue = Append(@, entry)]

(* A newer one leaves vacant entries for what is missing before it.        *)
Extended(jb, entry) ==
    LET back == Last(jb.queue).seq IN
    [jb EXCEPT !.queue = @ \o [i \in 1 .. entry.seq - back - 1 |-> Vacant(back + i)]
                           \o <<entry>>]

(* JitterBuffer::push.                                                     *)
Push(jb, entry) ==
    CASE jb.last # None /\ jb.last >= entry.seq -> [jb EXCEPT !.dropped = @ + 1]
      [] OTHER ->
         IF jb.queue = <<>> THEN [jb EXCEPT !.queue = <<entry>>]
         ELSE IF Last(jb.queue).seq < entry.seq THEN Trimmed(Extended(jb, entry))
         ELSE IF Last(jb.queue).seq > entry.seq
                   /\ \E e \in ToSet(jb.queue) : e.seq = entry.seq
         THEN Placed(jb, entry)
         ELSE Trimmed(Placed(jb, entry))

(* Mutant: a vacant front hides the packets behind it.                     *)
DueFront(jb, maxTs) ==
    IF jb.queue # <<>> /\ Head(jb.queue).packet # None /\ Head(jb.queue).ts <= maxTs
    THEN 1 ELSE 0

(* JitterBuffer::pop: the first packet that is due, if any, ...            *)
DueIndex(jb, maxTs) ==
    SelectInSeq(jb.queue, LAMBDA e : e.packet # None /\ e.ts <= maxTs)

(* ... and what is left when it is taken: the entries before it are lost,  *)
(* and asserted to be vacant.                                              *)
Popped(jb, i) ==
    [jb EXCEPT !.queue = SubSeq(@, i + 1, Len(@)), !.lost = @ + i - 1,
               !.last = jb.queue[i].seq]

PopAsserts(jb, i) == \A k \in 1 .. i - 1 : jb.queue[k].packet = None

(* JitterBuffer::timestamp_of_earliest_packet, as an index.                *)
EarliestIndex(jb) == SelectInSeq(jb.queue, LAMBDA e : e.packet # None)
=============================================================================
