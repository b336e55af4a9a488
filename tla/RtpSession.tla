----------------------------- MODULE RtpSession -----------------------------
(***************************************************************************)
(* RtpSession (rtp/src/session/mod.rs) receiving one remote source: a      *)
(* sender whose sequence numbers and timestamps wrap, a network that       *)
(* loses, duplicates and reorders, recv_rtp, pop_rtp and the RTCP report,  *)
(* which may be called at any time.  Time runs in units of the RTP clock.  *)
(***************************************************************************)
EXTENDS JitterBuffer, FiniteSets

CONSTANTS
    MaxSeq,     \* u16::MAX
    MaxTs,      \* u32::MAX
    FirstSeq,   \* the sender's first sequence number
    FirstTs,    \* the sender's first timestamp
    JbLength,   \* jitter_buffer_length, in clock units
    MaxPackets, \* bound on the packets sent
    SendUntil,  \* bound on the sender's time
    MaxDup      \* bound on duplicated packets

ASSUME RtpAssumption ==
    /\ MaxSeq \in Nat \ {0} /\ MaxTs \in Nat \ {0}
    /\ FirstSeq \in 0 .. MaxSeq /\ FirstTs \in 0 .. MaxTs
    /\ {JbLength, MaxPackets, SendUntil, MaxDup} \subseteq Nat
    /\ None \notin [at : Nat, ts : Nat, seq : Nat]

VARIABLES
    now,        \* the receiver's clock
    sent,       \* sending time of each packet sent, in the order of sending
    net,        \* packets under way
    dups,
    jb,         \* ReceiverState.jitter_buffer
    received,   \* ReceiverState.last_rtp_received: instant, timestamp, number
    total_lost, \* ReceiverState.total_lost
    delivered,  \* packets returned by pop_rtp
    panicked    \* an assertion of pop failed

vars == <<now, sent, net, dups, jb, received, total_lost, delivered, panicked>>

EndOfTime == SendUntil + JbLength + 1

Init ==
    /\ now = 0
    /\ sent = <<>> /\ net = {} /\ dups = 0
    /\ jb = EmptyBuffer /\ received = None /\ total_lost = 0
    /\ delivered = <<>> /\ panicked = FALSE

-----------------------------------------------------------------------------
(* What the n-th packet carries.                                           *)
WireSeq(n) == (FirstSeq + n - 1) % (MaxSeq + 1)
WireTs(n) == (FirstTs + sent[n]) % (MaxTs + 1)

(* The sender takes the timestamp of the moment; packets of one frame      *)
(* share it.                                                               *)
Send ==
    /\ Len(sent) < MaxPackets /\ now < SendUntil
    /\ sent' = Append(sent, now)
    /\ net' = net \cup {Len(sent')}
    /\ UNCHANGED <<now, dups, jb, received, total_lost, delivered, panicked>>

Lose(n) ==
    /\ net' = net \ {n}
    /\ UNCHANGED <<now, sent, dups, jb, received, total_lost, delivered, panicked>>

(* Nothing arrives after the sender's time is over.                        *)
Arrives(n) ==
    /\ n \in net /\ now <= SendUntil
    /\ \/ net' = net \ {n} /\ UNCHANGED dups
       \/ dups < MaxDup /\ dups' = dups + 1 /\ UNCHANGED net

(* RtpSession::recv_rtp for the first packet of a source ...               *)
RecvFirst(n) ==
    /\ received = None
    /\ Arrives(n)
    /\ received' = [at |-> now, ts |-> WireTs(n), seq |-> WireSeq(n)]
    /\ jb' = Push(jb, Entry(WireSeq(n), WireTs(n), n))
    /\ UNCHANGED <<now, sent, total_lost, delivered, panicked>>
(* Mutant: what is older than the newest is pushed as well.                *)
RecvFurtherAny(n) ==
    LET ts == GuessExtended(received.ts, WireTs(n), MaxTs)
        seq == GuessExtended(received.seq, WireSeq(n), MaxSeq) IN
    /\ received # None
    /\ Arrives(n)
    /\ received' = [at |-> now, ts |-> ts, seq |-> seq]
    /\ jb' = Push(jb, Entry(seq, ts, n))
    /\ UNCHANGED <<now, sent, total_lost, delivered, panicked>>

(* ... and for a further one, which is ignored unless its timestamp is the *)
(* newest so far.                                                          *)
RecvFurther(n) ==
    LET ts == GuessExtended(received.ts, WireTs(n), MaxTs)
        seq == GuessExtended(received.seq, WireSeq(n), MaxSeq) IN
    /\ received # None
    /\ Arrives(n)
    /\ IF ts > received.ts
       THEN /\ received' = [at |-> now, ts |-> ts, seq |-> seq]
            /\ jb' = Push(jb, Entry(seq, ts, n))
       ELSE UNCHANGED <<received, jb>>
    /\ UNCHANGED <<now, sent, total_lost, delivered, panicked>>
(* Mutant: the buffer's length is taken from the packet's own time.        *)
MaxTimestampLate == received.ts - JbLength

(* map_instant_to_rtp_timestamp of now - jitter_buffer_length; a negative  *)
(* result becomes a huge u64.                                              *)
MaxTimestamp == received.ts + (now - JbLength - received.at)
Due == IF received = None THEN 0
       ELSE DueIndex(jb, IF MaxTimestamp < 0 THEN 2 * MaxTs * MaxPackets ELSE MaxTimestamp)

(* RtpSession::pop_rtp with a packet that is due.                          *)
Pop ==
    /\ Due # 0
    /\ jb' = Popped(jb, Due)
    /\ delivered' = Append(delivered, jb.queue[Due].packet)
    /\ panicked' = (panicked \/ ~PopAsserts(jb, Due))
    /\ UNCHANGED <<now, sent, net, dups, received, total_lost>>

(* RtpSession::pop_rtp_after: how long until the earliest packet is due.   *)
PopAfter ==
    LET delta == received.ts - jb.queue[EarliestIndex(jb)].ts
        left == received.at - delta + JbLength - now IN
    IF left < 0 THEN 0 ELSE left

(* RtpSession::generate_rtcp_report, its state.                            *)
Report ==
    /\ jb.lost > 0
    /\ total_lost' = total_lost + jb.lost
    /\ jb' = [jb EXCEPT !.lost = 0]
    /\ UNCHANGED <<now, sent, net, dups, received, delivered, panicked>>

Tick ==
    /\ now < EndOfTime
    /\ now' = now + 1
    /\ UNCHANGED <<sent, net, dups, jb, received, total_lost, delivered, panicked>>

Next ==
    \/ Send \/ Pop \/ Report \/ Tick
    \/ \E n \in net : Lose(n) \/ RecvFirst(n) \/ RecvFurther(n)

(* The user polls the session when it says so, and time passes.            *)
Spec == Init /\ [][Next]_vars /\ WF_vars(Pop) /\ WF_vars(Tick)

-----------------------------------------------------------------------------
Queued == {e.packet : e \in ToSet(jb.queue)} \ {None}

(* Packets come out in the order in which they were sent, none of them     *)
(* twice, whatever the network did and although their numbers wrap.        *)
DeliveredInOrder ==
    \A i, j \in 1 .. Len(delivered) : i < j => delivered[i] < delivered[j]

(* pop's assertion holds: what it skips are vacant entries; and the queue  *)
(* has exactly one entry for each number from its first to its last.       *)
QueueSound ==
    /\ ~panicked
    /\ \A i \in 1 .. Len(jb.queue) - 1 : jb.queue[i + 1].seq = jb.queue[i].seq + 1

(* The report counts no packet as lost that was returned: those counted    *)
(* are missing before the last one returned.                               *)
LostIsMissing ==
    delivered # <<>> =>
        total_lost + jb.lost <= Cardinality((1 .. Last(delivered)) \ ToSet(delivered))

(* The buffer's books are right: its queue and its loss counter.           *)
BufferSound == QueueSound /\ LostIsMissing

(* pop_rtp_after and pop_rtp agree: when the time the one gave has passed, *)
(* the other returns a packet.                                             *)
WaitSuffices == Queued # {} /\ PopAfter = 0 => Due # 0

(* What was received leaves the buffer: it is returned or falls out.       *)
EventuallyOut == \A n \in 1 .. MaxPackets : (n \in Queued) ~> (n \notin Queued)

=============================================================================
