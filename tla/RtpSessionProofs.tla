-------------------------- MODULE RtpSessionProofs --------------------------
(***************************************************************************)
(* Proofs about a receiving RTP session: for any losses, duplicates and    *)
(* delays, packets come out in order, the buffer's books are right and     *)
(* pop_rtp_after is never too short.                                       *)
(***************************************************************************)
EXTENDS RtpSession, SequenceTheorems, FiniteSetTheorems, WellFoundedInduction, TLAPS

(* The numbers on the wire can be told apart: half of them is in use, and  *)
(* timestamps do not wrap (sequence numbers may).                          *)
NumbersFit ==
    /\ 2 * MaxPackets <= MaxSeq + 2 /\ 2 * SendUntil <= MaxTs
    /\ FirstTs + SendUntil <= MaxTs + 1

(* The n-th packet's number and timestamp, without wrapping; and extended  *)
(* as the code does, which gives the number after a wrap for a second time.*)
Number(n) == FirstSeq + n - 1
Ext(n) == IF Number(n) <= MaxSeq THEN Number(n) ELSE Number(n) - 1
Stamp(n) == FirstTs + sent[n]

SentInv ==
    /\ now \in Nat /\ sent \in Seq(Nat) /\ Len(sent) <= MaxPackets /\ net \subseteq 1 .. Len(sent)
    /\ \A i \in 1 .. Len(sent) : sent[i] < SendUntil /\ sent[i] <= now
    /\ \A i, j \in 1 .. Len(sent) : i <= j => sent[i] <= sent[j]

Entries == [seq : Nat, ts : Nat, packet : Nat \cup {None}]

(* The queue when the newest packet accepted is a.  All numbers are short  *)
(* of the extended ones by c, which is MaxSeq if the first packet to       *)
(* arrive came after the wrap.                                             *)
QueueInv(q, c, a) ==
    /\ q \in Seq(Entries)
    /\ \A i \in 1 .. Len(q) : q[i].seq = q[1].seq + (i - 1)
    /\ \A i \in 1 .. Len(q) : q[i].packet # None =>
          /\ q[i].packet \in 1 .. a
          /\ q[i].seq + c = Ext(q[i].packet) /\ q[i].ts = Stamp(q[i].packet)
    /\ q # <<>> => q[Len(q)].packet # None /\ (c = 0 => q[1].seq >= FirstSeq)

Buffers == [queue : Seq(Entries), last : Nat \cup {None}, dropped : Nat, lost : Nat]
BufferInv(b, c, a) ==
    /\ b \in Buffers /\ QueueInv(b.queue, c, a)
    /\ b.last # None /\ b.queue # <<>> => b.queue[1].seq > b.last

(* What was returned, and what the report will count as lost.              *)
DeliveredInv(c, a) ==
    /\ delivered \in Seq(1 .. a) /\ DeliveredInOrder
    /\ delivered = <<>> => jb.last = None /\ total_lost + jb.lost = 0
    /\ delivered # <<>> =>
          /\ jb.last \in Nat /\ jb.last + c = Ext(Last(delivered))
          /\ total_lost + jb.lost + Len(delivered) <= Last(delivered)

(* What has come in, of which a is the newest.                             *)
ReceivedInv(c, a) ==
    /\ received \in [at : Nat, ts : Nat, seq : Nat]
    /\ received.ts = Stamp(a) /\ received.seq + c = Ext(a)
    /\ c # 0 => Number(a) > MaxSeq
    /\ BufferInv(jb, c, a) /\ DeliveredInv(c, a)

RtpInv ==
    /\ SentInv /\ jb \in Buffers /\ total_lost \in Nat /\ ~panicked
    /\ received = None => jb = EmptyBuffer /\ delivered = <<>> /\ total_lost = 0
    /\ received # None => \E c \in {0, MaxSeq}, a \in 1 .. Len(sent) : ReceivedInv(c, a)

-----------------------------------------------------------------------------
(* Numbers.                                                                *)
LEMMA Constants ==
    /\ MaxSeq \in Nat /\ MaxSeq > 0 /\ MaxTs \in Nat /\ MaxTs > 0
    /\ FirstSeq \in Nat /\ FirstSeq <= MaxSeq /\ FirstTs \in Nat
    /\ JbLength \in Nat /\ MaxPackets \in Nat /\ SendUntil \in Nat
    /\ MaxEntries \in Nat /\ MaxEntries > 0 /\ None \notin Nat
  BY RtpAssumption, EntriesAssumption

(* Every set of natural numbers that is not empty has a least element.     *)
LEMMA Least == ASSUME NEW S \in SUBSET Nat, S # {} PROVE \E n \in S : \A m \in S : n <= m
<1>1. PICK R : R = OpToRel(<, Nat)
  OBVIOUS
<1>2. IsWellFoundedOn(R, Nat)
  BY <1>1, NatLessThanWellFounded
<1>3. PICK n \in S : \A m \in S : ~(<<m, n>> \in R)
  BY <1>2, WFMin
<1>4. R = {ss \in Nat \X Nat : ss[1] < ss[2]}
  BY <1>1 DEF OpToRel
<1>5. ASSUME NEW m \in S PROVE n <= m
  <2>1. m \in Nat /\ n \in Nat /\ <<m, n>> \notin R
    BY <1>3
  <2>2. ~(m < n)
    BY <1>4, <2>1
  <2> QED BY <2>1, <2>2
<1> QED BY <1>5

LEMMA MinIsLeast == ASSUME NEW S \in SUBSET Nat, S # {} PROVE Min(S) \in S /\ \A m \in S : Min(S) <= m
  BY Least DEF Min

LEMMA Remainder ==
    ASSUME NEW x \in Nat, NEW m \in Nat, m > 0, x < 2 * m
    PROVE  x % m = IF x < m THEN x ELSE x - m
<1>1. x = m * (x \div m) + (x % m) /\ x \div m \in Nat /\ x % m \in 0 .. m - 1
  OBVIOUS
<1>2. CASE x \div m = 0
  BY <1>1, <1>2
<1>3. CASE x \div m = 1
  BY <1>1, <1>3
<1>4. CASE x \div m >= 2
  <2>1. \A q \in Nat : q >= 2 => m * q >= 2 * m
    OBVIOUS
  <2> QED
    BY <1>1, <1>4, <2>1
<1> QED
  BY <1>1, <1>2, <1>3, <1>4

(* Short of two rounds the guess is the number itself or one round more.   *)
LEMMA GuessOne ==
    ASSUME NEW r \in Nat, NEW g \in Nat, NEW m \in Nat, m > 0, r < 2 * m
    PROVE  GuessExtended(r, g, m) = IF AbsDiff(g, r) < AbsDiff(m + g, r) THEN g ELSE m + g
<1>1. r \div m \in {0, 1}
  <2>1. r = m * (r \div m) + (r % m) /\ r \div m \in Nat /\ r % m \in 0 .. m - 1
    OBVIOUS
  <2>2. \A q \in Nat : q >= 2 => m * q >= 2 * m
    OBVIOUS
  <2>3. ~(r \div m >= 2)
    BY <2>1, <2>2
  <2> QED
    BY <2>1, <2>3
<1>2. (IF r \div m = 0 THEN 0 ELSE r \div m - 1) = 0
  BY <1>1
<1>3. 0 * m + g = g /\ (0 + 1) * m + g = m + g
  OBVIOUS
<1> QED
  BY <1>2, <1>3 DEF GuessExtended

LEMMA ExtFacts ==
    /\ \A n \in Nat \ {0} : Ext(n) \in Nat /\ Ext(n) >= FirstSeq /\ Ext(n) < FirstSeq + n
    /\ \A n, m \in Nat \ {0} : n <= m => Ext(n) <= Ext(m) /\ Ext(m) - Ext(n) <= m - n
    /\ \A n, m \in Nat \ {0} : Ext(n) < Ext(m) => n < m
  BY Constants DEF Ext, Number

(* What arrives is what was sent, up to the wrap.                          *)
LEMMA OnTheWire ==
    ASSUME NumbersFit, SentInv, NEW n \in 1 .. Len(sent)
    PROVE  /\ n \in Nat \ {0} /\ n <= MaxPackets
           /\ Stamp(n) \in Nat /\ Stamp(n) <= MaxTs /\ WireTs(n) = Stamp(n)
           /\ WireSeq(n) \in Nat /\ Number(n) \in Nat /\ Number(n) < 2 * MaxSeq
           /\ WireSeq(n) = IF Number(n) <= MaxSeq THEN Number(n) ELSE Number(n) - MaxSeq - 1
<1>1. Len(sent) \in Nat /\ sent[n] \in Nat /\ sent[n] < SendUntil /\ Len(sent) <= MaxPackets
  BY DEF SentInv
<1>2. n \in Nat \ {0} /\ n <= MaxPackets
  BY <1>1, Constants
<1>3. Stamp(n) \in Nat /\ Stamp(n) <= MaxTs /\ Stamp(n) < MaxTs + 1 
      /\ Stamp(n) < 2 * (MaxTs + 1) /\ MaxTs + 1 > 0 /\ MaxTs + 1 \in Nat
  <2>1. FirstTs + SendUntil <= MaxTs + 1
    BY DEF NumbersFit
  <2> QED
    BY <1>1, <2>1, Constants DEF Stamp
<1>4. WireTs(n) = Stamp(n)
  <2>1. WireTs(n) = Stamp(n) % (MaxTs + 1)
    BY DEF WireTs, Stamp
  <2>2. Stamp(n) % (MaxTs + 1) = IF Stamp(n) < MaxTs + 1 THEN Stamp(n) ELSE Stamp(n) - (MaxTs + 1)
    BY <1>3, Remainder
  <2> QED
    BY <1>3, <2>1, <2>2
<1>5. Number(n) \in Nat /\ Number(n) < 2 * MaxSeq /\ Number(n) < 2 * (MaxSeq + 1)
  <2>1. 2 * MaxPackets <= MaxSeq + 2
    BY DEF NumbersFit
  <2> QED
    BY <1>2, <2>1, Constants DEF Number
<1>6. Number(n) % (MaxSeq + 1) = IF Number(n) < MaxSeq + 1 THEN Number(n) ELSE Number(n) - (MaxSeq + 1)
  <2>1. MaxSeq + 1 \in Nat /\ MaxSeq + 1 > 0
    BY Constants
  <2> QED
    BY <1>5, <2>1, Remainder
<1>7. WireSeq(n) = Number(n) % (MaxSeq + 1)
  BY DEF WireSeq, Number
<1>8. /\ WireSeq(n) \in Nat
      /\ WireSeq(n) = IF Number(n) <= MaxSeq THEN Number(n) ELSE Number(n) - MaxSeq - 1
  BY <1>5, <1>6, <1>7, Constants
<1> QED
  BY <1>2, <1>3, <1>4, <1>5, <1>8

(* A timestamp is taken for a newer one only if it is.                     *)
LEMMA GuessTimestamp ==
    ASSUME NumbersFit, SentInv, NEW a \in 1 .. Len(sent), NEW n \in 1 .. Len(sent),
           GuessExtended(Stamp(a), WireTs(n), MaxTs) > Stamp(a)
    PROVE  a < n /\ GuessExtended(Stamp(a), WireTs(n), MaxTs) = Stamp(n)
<1>1. /\ Stamp(a) \in Nat /\ Stamp(n) \in Nat /\ WireTs(n) = Stamp(n)
      /\ Stamp(a) <= MaxTs /\ Stamp(n) <= MaxTs /\ n \in Nat /\ a \in Nat
  BY OnTheWire
<1>2. GuessExtended(Stamp(a), Stamp(n), MaxTs)
         = IF AbsDiff(Stamp(n), Stamp(a)) < AbsDiff(MaxTs + Stamp(n), Stamp(a)) THEN Stamp(n) ELSE MaxTs + Stamp(n)
  <2>1. Stamp(a) < 2 * MaxTs
    BY <1>1, Constants
  <2> QED
    BY <1>1, <2>1, GuessOne, Constants
<1>3. 2 * SendUntil <= MaxTs /\ sent[a] \in Nat /\ sent[n] \in Nat /\ sent[a] < SendUntil /\ sent[n] < SendUntil
  BY DEF SentInv, NumbersFit
<1>4. Stamp(a) < Stamp(n) + SendUntil
  BY <1>3, Constants DEF Stamp
<1>5. \A x, y, m, u \in Nat : 2 * u <= m /\ m > 0 /\ x < y + u =>
         /\ AbsDiff(y, x) < AbsDiff(m + y, x)
  BY DEF AbsDiff
<1>6. AbsDiff(Stamp(n), Stamp(a)) < AbsDiff(MaxTs + Stamp(n), Stamp(a))
  BY <1>1, <1>3, <1>4, <1>5, Constants
<1>7. GuessExtended(Stamp(a), WireTs(n), MaxTs) = Stamp(n) /\ Stamp(n) > Stamp(a)
  BY <1>1, <1>2, <1>6
<1>8. sent[a] < sent[n]
  BY <1>3, <1>7, Constants DEF Stamp
<1>9. a < n
  <2>1. n <= a => sent[n] <= sent[a]
    BY DEF SentInv
  <2> QED
    BY <1>1, <1>3, <1>8, <2>1
<1> QED
  BY <1>7, <1>9

(* A later packet's number is extended as that of the one before.          *)
LEMMA GuessSequence ==
    ASSUME NumbersFit, SentInv, NEW a \in 1 .. Len(sent), NEW n \in 1 .. Len(sent), a < n,
           NEW c \in {0, MaxSeq}, c # 0 => Number(a) > MaxSeq, NEW r \in Nat, r + c = Ext(a)
    PROVE  /\ GuessExtended(r, WireSeq(n), MaxSeq) \in Nat
           /\ GuessExtended(r, WireSeq(n), MaxSeq) + c = Ext(n)
           /\ c # 0 => Number(n) > MaxSeq
<1>1. /\ a \in Nat \ {0} /\ n \in Nat \ {0} /\ n <= MaxPackets /\ WireSeq(n) \in Nat
      /\ Number(a) \in Nat /\ Number(n) \in Nat /\ Number(a) < 2 * MaxSeq
      /\ WireSeq(n) = IF Number(n) <= MaxSeq THEN Number(n) ELSE Number(n) - MaxSeq - 1
  BY OnTheWire
<1>2. 2 * MaxPackets <= MaxSeq + 2
  BY DEF NumbersFit
<1>3. Number(a) < Number(n) /\ Number(n) < Number(a) + MaxPackets
  BY <1>1, Constants DEF Number
<1>4. r < 2 * MaxSeq
  BY <1>1, Constants DEF Ext
<1>5. GuessExtended(r, WireSeq(n), MaxSeq)
         = IF AbsDiff(WireSeq(n), r) < AbsDiff(MaxSeq + WireSeq(n), r) THEN WireSeq(n) ELSE MaxSeq + WireSeq(n)
  BY <1>1, <1>4, GuessOne, Constants
<1>6. c \in Nat /\ (c = 0 \/ (c = MaxSeq /\ Number(a) > MaxSeq))
  BY Constants
<1>7. r + c = IF Number(a) <= MaxSeq THEN Number(a) ELSE Number(a) - 1
  BY DEF Ext
<1>8. (IF AbsDiff(WireSeq(n), r) < AbsDiff(MaxSeq + WireSeq(n), r) THEN WireSeq(n) ELSE MaxSeq + WireSeq(n)) + c
         = IF Number(n) <= MaxSeq THEN Number(n) ELSE Number(n) - 1
  <2>1. PICK x \in Nat, y \in Nat, w \in Nat : x = Number(a) /\ y = Number(n) /\ w = WireSeq(n)
    BY <1>1
  <2>2. /\ MaxSeq > 0 /\ 2 * MaxPackets <= MaxSeq + 2 /\ x < y /\ y < x + MaxPackets
        /\ c = 0 \/ (c = MaxSeq /\ x > MaxSeq)
        /\ w = IF y <= MaxSeq THEN y ELSE y - MaxSeq - 1
        /\ r + c = IF x <= MaxSeq THEN x ELSE x - 1
    BY <1>1, <1>2, <1>3, <1>6, <1>7, <2>1, Constants
  <2>3. (IF AbsDiff(w, r) < AbsDiff(MaxSeq + w, r) THEN w ELSE MaxSeq + w) + c
           = IF y <= MaxSeq THEN y ELSE y - 1
    <3> HIDE DEF NumbersFit
    <3>1. CASE c = 0 /\ y <= MaxSeq
      BY <2>2, <3>1, Constants DEF AbsDiff
    <3>2. CASE c = 0 /\ y > MaxSeq
      BY <2>2, <3>2, Constants DEF AbsDiff
    <3>3. CASE c = MaxSeq /\ x > MaxSeq
      BY <2>2, <3>3, Constants DEF AbsDiff
    <3> QED
      BY <2>2, <3>1, <3>2, <3>3, Constants
  <2> QED
    BY <2>1, <2>3
<1>9. GuessExtended(r, WireSeq(n), MaxSeq) + c = Ext(n)
  BY <1>5, <1>8 DEF Ext
<1>10. GuessExtended(r, WireSeq(n), MaxSeq) \in Nat
  BY <1>1, <1>5, Constants
<1>11. c # 0 => Number(n) > MaxSeq
  BY <1>1, <1>3, Constants
<1> QED
  BY <1>9, <1>10, <1>11

-----------------------------------------------------------------------------
(* The queue.                                                              *)
LEMMA EntryFacts ==
    ASSUME NEW q \in Seq(Entries), NEW i \in 1 .. Len(q)
    PROVE  q[i] \in Entries /\ q[i].seq \in Nat /\ q[i].ts \in Nat /\ i \in Nat /\ i > 0
<1>1. q[i] \in Entries
  BY ElementOfSeq
<1> QED
  BY <1>1 DEF Entries

LEMMA NewerQueue ==
    ASSUME NEW q, NEW c, NEW a \in Nat, NEW b \in Nat, a <= b, QueueInv(q, c, a)
    PROVE  QueueInv(q, c, b)
  BY DEF QueueInv

(* p is what is left of q when the first k entries go.                     *)
Shorter(p, q, k) ==
    /\ p \in Seq(Entries) /\ k \in Nat /\ Len(p) = Len(q) - k
    /\ \A i \in 1 .. Len(p) : p[i] = q[i + k]

LEMMA Shortened ==
    ASSUME NEW q, NEW c, NEW a, QueueInv(q, c, a), NEW p, NEW k, Shorter(p, q, k)
    PROVE  QueueInv(p, c, a) /\ (p # <<>> => q # <<>> /\ p[1].seq = q[1].seq + k)
<1>0. p \in Seq(Entries) /\ k \in Nat /\ Len(p) = Len(q) - k /\ \A i \in 1 .. Len(p) : p[i] = q[i + k]
  BY DEF Shorter
<1>1. q \in Seq(Entries) /\ Len(q) \in Nat /\ Len(p) \in Nat /\ (p # <<>> => Len(p) > 0)
  BY EmptySeq, LenProperties DEF QueueInv
<1>2. \A i \in 1 .. Len(p) : i + k \in 1 .. Len(q)
  BY <1>0, <1>1
<1>3. \A i \in 1 .. Len(q) : q[i].seq = q[1].seq + (i - 1)
  BY DEF QueueInv
<1>4. ASSUME NEW i \in 1 .. Len(p) PROVE p[i].seq = p[1].seq + (i - 1)
  <2>1. p[i] = q[i + k] /\ p[1] = q[1 + k] /\ i + k \in 1 .. Len(q) /\ 1 + k \in 1 .. Len(q) /\ 1 \in 1 .. Len(q)
    <3>1. 1 \in 1 .. Len(p) /\ 1 + k \in 1 .. Len(q) /\ 1 \in 1 .. Len(q)
      BY <1>1, <1>2
    <3> QED
      BY <1>0, <1>2, <3>1
  <2>2. q[1].seq \in Nat /\ i \in Nat
    BY <1>1, <2>1, EntryFacts
  <2>3. q[i + k].seq = q[1].seq + (i + k - 1) /\ q[1 + k].seq = q[1].seq + (1 + k - 1)
    BY <1>0, <1>3, <2>1
  <2> QED
    <3>1. PICK f \in Nat : f = q[1].seq
      BY <2>2
    <3>2. p[i].seq = f + (i + k - 1) /\ p[1].seq = f + (1 + k - 1)
      BY <2>1, <2>3, <3>1
    <3>3. f + (i + k - 1) = f + (1 + k - 1) + (i - 1)
      BY <1>0, <2>2
    <3> QED
      BY <3>2, <3>3
<1>5. ASSUME NEW i \in 1 .. Len(p), p[i].packet # None
      PROVE  /\ p[i].packet \in 1 .. a
             /\ p[i].seq + c = Ext(p[i].packet) /\ p[i].ts = Stamp(p[i].packet)
  <2>1. p[i] = q[i + k] /\ i + k \in 1 .. Len(q)
    BY <1>0, <1>2
  <2> QED
    BY <1>5, <2>1 DEF QueueInv
<1>6. ASSUME p # <<>> PROVE p[1].seq = q[1].seq + k /\ q[1].seq \in Nat /\ q # <<>>
  <2>1. 1 \in 1 .. Len(p) /\ 1 + k \in 1 .. Len(q) /\ 1 \in 1 .. Len(q) /\ q # <<>> /\ p[1] = q[1 + k]
    BY <1>0, <1>1, <1>2, <1>6
  <2>2. q[1].seq \in Nat /\ q[1 + k].seq = q[1].seq + (1 + k - 1)
    BY <1>0, <1>1, <1>3, <2>1, EntryFacts
  <2> QED
    BY <1>0, <2>1, <2>2
<1>7. ASSUME p # <<>> PROVE p[Len(p)].packet # None /\ (c = 0 => p[1].seq >= FirstSeq)
  <2>1. p[Len(p)] = q[Len(q)]
    <3>1. Len(p) \in 1 .. Len(p) /\ Len(p) + k = Len(q)
      BY <1>0, <1>1, <1>7
    <3> QED
      BY <1>0, <3>1
  <2>2. q # <<>> /\ q[Len(q)].packet # None /\ (c = 0 => q[1].seq >= FirstSeq)
    BY <1>6, <1>7 DEF QueueInv
  <2> QED
    BY <1>0, <1>6, <1>7, <2>1, <2>2, Constants
<1> QED
  BY <1>0, <1>4, <1>5, <1>6, <1>7 DEF QueueInv

(* The packets a push may be given: newer than any before.                 *)
Newer(s, c, a, n) ==
    /\ s \in Nat /\ c \in Nat /\ a \in Nat /\ n \in Nat \ {0} /\ a <= n
    /\ s + c = Ext(n) /\ Stamp(n) \in Nat

LEMMA OneEntry ==
    ASSUME NEW s, NEW c, NEW a, NEW n, Newer(s, c, a, n)
    PROVE  Entry(s, Stamp(n), n) \in Entries /\ QueueInv(<<Entry(s, Stamp(n), n)>>, c, n)
<1> DEFINE e == Entry(s, Stamp(n), n)
           q == <<e>>
<1>1. s \in Nat /\ n \in Nat \ {0} /\ s + c = Ext(n) /\ Stamp(n) \in Nat /\ Ext(n) >= FirstSeq /\ n # None
  BY ExtFacts, Constants DEF Newer
<1>2. e \in Entries /\ e.seq = s /\ e.ts = Stamp(n) /\ e.packet = n
  BY <1>1 DEF Entries, Entry
<1>3. q \in Seq(Entries) /\ Len(q) = 1 /\ q[1] = e
  BY <1>2
<1>4. \A i \in 1 .. Len(q) : i = 1
  BY <1>3
<1> HIDE DEF e, q
<1>5. \A i \in 1 .. Len(q) : q[i].seq = q[1].seq + (i - 1)
  BY <1>1, <1>2, <1>3, <1>4
<1>6. n \in 1 .. n
  BY <1>1
<1>7. c = 0 => s >= FirstSeq
  BY <1>1
<1>8. QueueInv(q, c, n)
  BY <1>1, <1>2, <1>3, <1>4, <1>5, <1>6, <1>7 DEF QueueInv
<1> QED
  BY <1>2, <1>8 DEF e, q

(* The queue q grown by g vacant entries, from the number b on, and e.      *)
Grown(p, q, l, b, g, e) ==
    /\ l \in Nat /\ l = Len(q) /\ l > 0 /\ b \in Nat /\ q[l].seq = b /\ g \in Nat
    /\ p \in Seq(Entries) /\ Len(p) = l + g + 1
    /\ \A i \in 1 .. l : p[i] = q[i]
    /\ \A i \in l + 1 .. l + g : p[i] = Vacant(b + (i - l))
    /\ p[l + g + 1] = e

LEMMA Concatenated ==
    ASSUME NEW q \in Seq(Entries), q # <<>>, NEW b, b = q[Len(q)].seq, NEW g \in Nat, NEW e \in Entries
    PROVE  Grown((q \o [i \in 1 .. g |-> Vacant(b + i)]) \o <<e>>, q, Len(q), b, g, e)
<1>1. PICK l \in Nat : l = Len(q) /\ l > 0 /\ l \in 1 .. l
  <2>1. Len(q) \in Nat /\ Len(q) > 0
    BY EmptySeq, LenProperties
  <2> QED
    BY <2>1
<1>2. b \in Nat
  BY <1>1, EntryFacts
<1>3. PICK v : v = [i \in 1 .. g |-> Vacant(b + i)]
  OBVIOUS
<1>4. v \in Seq(Entries) /\ Len(v) = g /\ \A i \in 1 .. g : v[i] = Vacant(b + i)
  <2>1. \A i \in 1 .. g : Vacant(b + i) \in Entries
    BY <1>2 DEF Vacant, Entry, Entries
  <2> QED
    BY <1>3, <2>1
<1>5. PICK w : w = q \o v
  OBVIOUS
<1>6. /\ w \in Seq(Entries) /\ Len(w) = l + g
      /\ \A i \in 1 .. l + g : w[i] = IF i <= l THEN q[i] ELSE v[i - l]
  BY <1>1, <1>4, <1>5, ConcatProperties
<1>7. PICK p : p = (q \o [i \in 1 .. g |-> Vacant(b + i)]) \o <<e>>
  OBVIOUS
<1>8. p = Append(w, e)
  <2>1. p = w \o <<e>>
    BY <1>3, <1>5, <1>7
  <2> QED
    BY <1>6, <2>1
<1>9. p \in Seq(Entries) /\ Len(p) = Len(w) + 1 /\ (\A i \in 1 .. Len(w) : p[i] = w[i]) /\ p[Len(w) + 1] = e
  BY <1>6, <1>8, AppendProperties
<1>10. ASSUME NEW i \in 1 .. l PROVE p[i] = q[i]
  <2>1. i \in 1 .. Len(w) /\ i <= l /\ i \in 1 .. l + g
    BY <1>6
  <2> QED
    BY <1>6, <1>9, <2>1
<1>11. ASSUME NEW i \in l + 1 .. l + g PROVE p[i] = Vacant(b + (i - l))
  <2>1. i \in 1 .. Len(w) /\ ~(i <= l) /\ i \in 1 .. l + g /\ i - l \in 1 .. g
    BY <1>6
  <2>2. p[i] = v[i - l]
    BY <1>6, <1>9, <2>1
  <2> QED
    BY <1>4, <2>1, <2>2
<1>12. Grown(p, q, l, b, g, e)
  BY <1>1, <1>2, <1>6, <1>9, <1>10, <1>11 DEF Grown
<1> QED
  BY <1>1, <1>7, <1>12

(* A newer number behind the others, vacant entries between.               *)
LEMMA Lengthened ==
    ASSUME NEW s, NEW c, NEW a, NEW n, Newer(s, c, a, n),
           NEW q, QueueInv(q, c, a), NEW p, NEW l, NEW b, NEW g,
           Grown(p, q, l, b, g, Entry(s, Stamp(n), n)), s = b + g + 1
    PROVE  QueueInv(p, c, n) /\ p # <<>> /\ p[1] = q[1] /\ Len(p) > 1
<1>0. /\ l \in Nat /\ l = Len(q) /\ l > 0 /\ b \in Nat /\ q[l].seq = b /\ g \in Nat
      /\ p \in Seq(Entries) /\ Len(p) = l + g + 1
      /\ \A i \in 1 .. l : p[i] = q[i]
      /\ \A i \in l + 1 .. l + g : p[i] = Vacant(b + (i - l))
      /\ p[l + g + 1] = Entry(s, Stamp(n), n)
  BY DEF Grown
<1>1. /\ s \in Nat /\ c \in Nat /\ a \in Nat /\ n \in Nat \ {0} /\ a <= n /\ n # None /\ n \in 1 .. n
      /\ s + c = Ext(n) /\ Stamp(n) \in Nat
  BY Constants DEF Newer
<1>2. PICK f \in Nat : f = q[1].seq /\ b = f + (l - 1) /\ p[1] = q[1]
  <2>1. 1 \in 1 .. l /\ l \in 1 .. l
    BY <1>0
  <2>2. q[1].seq \in Nat /\ q[l].seq = q[1].seq + (l - 1)
    BY <1>0, <2>1, EntryFacts DEF QueueInv
  <2> QED
    BY <1>0, <2>1, <2>2
<1>3. p[l + g + 1].seq = s /\ p[l + g + 1].ts = Stamp(n) /\ p[l + g + 1].packet = n
  BY <1>0 DEF Entry
<1>4. ASSUME NEW i \in l + 1 .. l + g PROVE p[i].seq = b + (i - l) /\ p[i].packet = None
  <2>1. p[i] = Vacant(b + (i - l))
    BY <1>0
  <2>2. Vacant(b + (i - l)).seq = b + (i - l) /\ Vacant(b + (i - l)).packet = None
    BY DEF Vacant, Entry
  <2> QED
    BY <2>1, <2>2
<1>5. \A i \in 1 .. Len(p) : i \in 1 .. l \/ i \in l + 1 .. l + g \/ i = l + g + 1
  BY <1>0
<1>6. ASSUME NEW i \in 1 .. Len(p) PROVE p[i].seq = p[1].seq + (i - 1)
  <2>1. CASE i \in 1 .. l
    BY <1>0, <1>2, <2>1 DEF QueueInv
  <2>2. CASE i \in l + 1 .. l + g
    <3>1. p[i].seq = b + (i - l)
      BY <1>4, <2>2
    <3>2. b + (i - l) = f + (i - 1)
      <4>1. i \in Int /\ b = f + (l - 1)
        BY <1>2
      <4>2. \A x, y, z \in Int : (x + (y - 1)) + (z - y) = x + (z - 1)
        BY <1>0
      <4> QED
        BY <1>0, <4>1, <4>2
    <3> QED
      BY <1>2, <3>1, <3>2
  <2>3. CASE i = l + g + 1
    <3>1. p[i].seq = b + g + 1
      BY <1>3, <2>3
    <3>2. b + g + 1 = f + (i - 1)
      BY <1>0, <1>2, <2>3
    <3> QED
      BY <1>2, <3>1, <3>2
  <2> QED
    BY <1>5, <2>1, <2>2, <2>3
<1>7. ASSUME NEW i \in 1 .. Len(p), p[i].packet # None
      PROVE  /\ p[i].packet \in 1 .. n
             /\ p[i].seq + c = Ext(p[i].packet) /\ p[i].ts = Stamp(p[i].packet)
  <2>1. CASE i \in 1 .. l
    <3>1. p[i] = q[i] /\ q[i].packet # None /\ i \in 1 .. Len(q)
      BY <1>0, <1>7, <2>1
    <3>2. q[i].packet \in 1 .. a /\ q[i].seq + c = Ext(q[i].packet) /\ q[i].ts = Stamp(q[i].packet)
      BY <3>1 DEF QueueInv
    <3>3. q[i].packet \in 1 .. n
      BY <1>1, <3>2
    <3> QED
      BY <3>1, <3>2, <3>3
  <2>2. CASE i \in l + 1 .. l + g
    BY <1>4, <1>7, <2>2
  <2>3. CASE i = l + g + 1
    BY <1>1, <1>3, <2>3
  <2> QED
    BY <1>5, <2>1, <2>2, <2>3
<1>8. q # <<>> /\ p # <<>> /\ Len(p) > 1
  BY <1>0
<1>9. p[Len(p)].packet # None /\ (c = 0 => p[1].seq >= FirstSeq)
  BY <1>0, <1>1, <1>2, <1>3, <1>8 DEF QueueInv
<1> QED
  BY <1>0, <1>2, <1>6, <1>7, <1>8, <1>9 DEF QueueInv

-----------------------------------------------------------------------------
(* The buffer.                                                             *)
LEMMA BufferFields ==
    ASSUME NEW b \in Buffers
    PROVE  /\ b.queue \in Seq(Entries) /\ b.dropped \in Nat /\ b.lost \in Nat
           /\ b.last \in Nat \cup {None}
           /\ [b EXCEPT !.dropped = @ + 1] \in Buffers
           /\ [b EXCEPT !.dropped = @ + 1].queue = b.queue
           /\ [b EXCEPT !.dropped = @ + 1].last = b.last
           /\ [b EXCEPT !.dropped = @ + 1].lost = b.lost
  BY DEF Buffers

LEMMA TrimKeeps ==
    ASSUME NEW b, NEW c, NEW a, BufferInv(b, c, a)
    PROVE  BufferInv(Trimmed(b), c, a) /\ Trimmed(b).last = b.last /\ Trimmed(b).lost = b.lost
<1>1. /\ b \in Buffers /\ QueueInv(b.queue, c, a) /\ b.queue \in Seq(Entries) /\ b.last \in Nat \cup {None}
      /\ Len(b.queue) \in Nat
  BY BufferFields, LenProperties DEF BufferInv
<1>2. CASE Len(b.queue) > MaxEntries
  <2> DEFINE p == Tail(b.queue)
  <2>1. b.queue # <<>> /\ Len(b.queue) > 1
    BY <1>1, <1>2, Constants
  <2>2. p \in Seq(Entries) /\ Len(p) = Len(b.queue) - 1 /\ \A i \in 1 .. Len(p) : p[i] = b.queue[i + 1]
    BY <1>1, <2>1, HeadTailProperties
  <2> HIDE DEF p
  <2>3. QueueInv(p, c, a) /\ (p # <<>> => p[1].seq = b.queue[1].seq + 1)
    <3>1. Shorter(p, b.queue, 1)
      BY <2>2 DEF Shorter
    <3> QED
      BY <1>1, <3>1, Shortened
  <2>4. Trimmed(b) = [b EXCEPT !.queue = p, !.dropped = b.dropped + 1]
    BY <1>2 DEF Trimmed, p
  <2>5. /\ Trimmed(b) \in Buffers /\ Trimmed(b).queue = p /\ Trimmed(b).last = b.last
        /\ Trimmed(b).lost = b.lost
    <3>1. b.dropped \in Nat /\ b.dropped + 1 \in Nat
      BY <1>1 DEF Buffers
    <3> QED
      BY <1>1, <2>2, <2>4, <3>1 DEF Buffers
  <2>6. b.queue[1].seq \in Nat
    BY <1>1, <2>1, EntryFacts
  <2>7. ASSUME b.last # None, p # <<>> PROVE p[1].seq > b.last
    <3>1. b.queue[1].seq > b.last /\ b.last \in Nat
      BY <1>1, <2>1, <2>7 DEF BufferInv
    <3> QED
      BY <2>3, <2>6, <2>7, <3>1
  <2> QED
    BY <2>3, <2>5, <2>7 DEF BufferInv
<1>3. CASE ~(Len(b.queue) > MaxEntries)
  BY <1>3 DEF Trimmed
<1> QED
  BY <1>2, <1>3

(* A second entry for the newest number is a duplicate.                    *)
LEMMA PlacedLast ==
    ASSUME NEW b, NEW c, NEW a, BufferInv(b, c, a), b.queue # <<>>,
           NEW e, b.queue[Len(b.queue)].seq = e.seq
    PROVE  Placed(b, e) = [b EXCEPT !.dropped = @ + 1]
<1> DEFINE I == {i \in 1 .. Len(b.queue) : b.queue[i].seq = e.seq}
<1>1. b.queue \in Seq(Entries) /\ Len(b.queue) \in Nat /\ Len(b.queue) > 0
  <2>1. b.queue \in Seq(Entries)
    BY DEF BufferInv, QueueInv
  <2> QED
    BY <2>1, EmptySeq, LenProperties
<1>2. PICK l \in Nat, q \in Seq(Entries) : l = Len(b.queue) /\ q = b.queue /\ l > 0 /\ l \in 1 .. l /\ 1 \in 1 .. l
  BY <1>1
<1>3. q[1].seq \in Nat /\ (\A i \in 1 .. l : q[i].seq = q[1].seq + (i - 1)) /\ q[l].packet # None
  BY <1>2, EntryFacts DEF BufferInv, QueueInv
<1>4. ASSUME NEW i \in I PROVE i = l
  <2>1. i \in 1 .. l /\ q[i].seq = q[l].seq
    BY <1>2
  <2>2. q[1].seq + (i - 1) = q[1].seq + (l - 1)
    BY <1>2, <1>3, <2>1
  <2>3. PICK f \in Nat : f = q[1].seq
    BY <1>3
  <2> QED
    BY <2>1, <2>2, <2>3
<1>5. l \in I
  BY <1>2
<1>6. I \in SUBSET Nat /\ I # {}
  BY <1>1, <1>5
<1>7. Min(I) = l
  <2> HIDE DEF I
  <2> QED
    BY <1>4, <1>6, MinIsLeast
<1>8. SelectInSeq(b.queue, LAMBDA x : x.seq = e.seq) = l
  BY <1>6, <1>7 DEF SelectInSeq
<1> HIDE DEF I
<1> QED
  BY <1>2, <1>3, <1>8 DEF Placed

LEMMA PushKeeps ==
    ASSUME NEW b, NEW c, NEW a, BufferInv(b, c, a), NEW s, NEW n, Newer(s, c, a, n),
           NEW r, r = Push(b, Entry(s, Stamp(n), n))
    PROVE  BufferInv(r, c, n) /\ r.last = b.last /\ r.lost = b.lost
<1>1. PICK e : e = Entry(s, Stamp(n), n)
  OBVIOUS
<1>2. e \in Entries /\ e.seq = s /\ QueueInv(<<e>>, c, n)
  BY <1>1, OneEntry DEF Entry
<1>3. PICK q \in Seq(Entries) : q = b.queue
  BY DEF BufferInv, QueueInv
<1>4. /\ a \in Nat /\ n \in Nat \ {0} /\ a <= n /\ s \in Nat /\ c \in Nat /\ s + c = Ext(n) /\ Stamp(n) \in Nat
      /\ b \in Buffers /\ QueueInv(q, c, a) /\ Len(q) \in Nat
  BY <1>3, LenProperties DEF Newer, BufferInv
<1>5. QueueInv(q, c, n)
  BY <1>4, NewerQueue
<1>6. b.last # None => b.last \in Nat
  BY <1>4, BufferFields
<1>7. BufferInv(b, c, n)
  BY <1>3, <1>5 DEF BufferInv
<1>8. CASE b.last # None /\ b.last >= s
  <2>1. r = [b EXCEPT !.dropped = @ + 1]
    BY <1>1, <1>2, <1>8 DEF Push
  <2> QED
    BY <1>3, <1>4, <1>7, <2>1, BufferFields DEF BufferInv
<1>9. CASE ~(b.last # None /\ b.last >= s) /\ q = <<>>
  <2>1. r = [b EXCEPT !.queue = <<e>>]
    BY <1>1, <1>2, <1>3, <1>9 DEF Push
  <2>2. <<e>> \in Seq(Entries) /\ <<e>>[1] = e
    BY <1>2
  <2>3. PICK p \in Seq(Entries) : p = <<e>>
    BY <2>2
  <2>4. r \in Buffers /\ r.queue = p /\ r.last = b.last /\ r.lost = b.lost
    BY <1>4, <2>1, <2>3 DEF Buffers
  <2>5. b.last # None => p[1].seq > b.last
    BY <1>2, <1>4, <1>6, <1>9, <2>2, <2>3
  <2> QED
    BY <1>2, <2>3, <2>4, <2>5 DEF BufferInv
<1>10. ASSUME ~(b.last # None /\ b.last >= s), q # <<>>
       PROVE  BufferInv(r, c, n) /\ r.last = b.last /\ r.lost = b.lost
  <2>1. PICK l \in Nat : l = Len(q) /\ l > 0 /\ l \in 1 .. l
    BY <1>3, <1>4, <1>10, EmptySeq
  <2>2. PICK k \in Nat : k = q[l].seq
    BY <2>1, EntryFacts
  <2>3. Last(b.queue).seq = k
    BY <1>3, <2>1, <2>2 DEF Last
  <2>4. CASE k < s
    <3>1. r = Trimmed(Extended(b, e))
      BY <1>1, <1>2, <1>3, <1>10, <2>3, <2>4 DEF Push
    <3>2. PICK g \in Nat : g = s - k - 1 /\ s = k + g + 1
      <4>1. s - k - 1 \in Nat /\ s = k + (s - k - 1) + 1
        BY <1>4, <2>4
      <4> QED
        BY <4>1
    <3>3. PICK p : p = (q \o [i \in 1 .. g |-> Vacant(k + i)]) \o <<e>>
      OBVIOUS
    <3>4. Extended(b, e) = [b EXCEPT !.queue = p]
      BY <1>2, <1>3, <2>3, <3>2, <3>3 DEF Extended
    <3>5. Grown(p, q, Len(q), k, g, e)
      BY <1>2, <1>10, <2>1, <2>2, <3>3, Concatenated
    <3>6. p \in Seq(Entries)
      BY <3>5 DEF Grown
    <3>7. QueueInv(p, c, n) /\ p # <<>> /\ p[1] = q[1]
      BY <1>1, <1>4, <3>2, <3>5, Lengthened
    <3>8. PICK x : x = Extended(b, e)
      OBVIOUS
    <3>9. x \in Buffers /\ x.queue = p /\ x.last = b.last /\ x.lost = b.lost
      BY <1>4, <3>4, <3>6, <3>8 DEF Buffers
    <3>10. BufferInv(x, c, n)
      BY <1>3, <1>10, <3>7, <3>9 DEF BufferInv
    <3> QED
      BY <3>1, <3>8, <3>9, <3>10, TrimKeeps
  <2>5. CASE ~(k < s)
    <3>1. k = s
      <4>1. PICK m : m = q[l].packet /\ m \in 1 .. a /\ k + c = Ext(m)
        BY <1>4, <1>10, <2>1, <2>2 DEF QueueInv
      <4>2. m \in Nat \ {0} /\ m <= n
        BY <1>4, <4>1
      <4>3. Ext(m) <= Ext(n) /\ Ext(m) \in Nat /\ Ext(n) \in Nat
        BY <1>4, <4>2, ExtFacts
      <4> QED
        BY <1>4, <2>5, <4>1, <4>3
    <3>2. r = Trimmed(Placed(b, e))
      BY <1>1, <1>2, <1>3, <1>10, <2>3, <3>1 DEF Push
    <3>3. Placed(b, e) = [b EXCEPT !.dropped = @ + 1]
      BY <1>2, <1>3, <1>10, <2>1, <2>2, <3>1, PlacedLast
    <3>4. PICK x : x = Placed(b, e)
      OBVIOUS
    <3>5. x \in Buffers /\ x.queue = b.queue /\ x.last = b.last /\ x.lost = b.lost
      BY <1>4, <3>3, <3>4, BufferFields
    <3>6. BufferInv(x, c, n)
      BY <1>7, <3>5 DEF BufferInv
    <3> QED
      BY <3>2, <3>4, <3>5, <3>6, TrimKeeps
  <2> QED
    BY <2>4, <2>5
<1> QED
  BY <1>8, <1>9, <1>10

(* The first packet that is due is the first one queued: what pop skips is *)
(* vacant.                                                                 *)
LEMMA DueFacts ==
    ASSUME SentInv, NEW b, NEW c \in Nat, NEW a \in 1 .. Len(sent), BufferInv(b, c, a), NEW m \in Int,
           NEW i, i = DueIndex(b, m), i # 0
    PROVE  i \in 1 .. Len(b.queue) /\ b.queue[i].packet # None /\ PopAsserts(b, i)
<1>1. PICK q \in Seq(Entries) : q = b.queue /\ QueueInv(q, c, a)
  BY DEF BufferInv, QueueInv
<1> DEFINE I == {j \in 1 .. Len(q) : q[j].packet # None /\ q[j].ts <= m}
<1>2. I \in SUBSET Nat
  BY <1>1
<1>3. i = IF I # {} THEN Min(I) ELSE 0
  BY <1>1 DEF DueIndex, SelectInSeq
<1>4. i \in I /\ \A j \in I : i <= j
  <2> HIDE DEF I
  <2> QED
    BY <1>2, <1>3, MinIsLeast
<1>5. /\ i \in 1 .. Len(q) /\ q[i].packet # None /\ q[i].ts <= m /\ q[1].seq \in Nat /\ i \in Nat
      /\ q[i].seq = q[1].seq + (i - 1) /\ q[i].ts \in Nat
  <2>1. i \in 1 .. Len(q) /\ 1 \in 1 .. Len(q)
    BY <1>1, <1>4
  <2> QED
    BY <1>1, <1>4, <2>1, EntryFacts DEF QueueInv
<1>6. ASSUME NEW k \in 1 .. i - 1, q[k].packet # None PROVE FALSE
  <2>1. k \in 1 .. Len(q) /\ k < i /\ k \in Nat
    BY <1>1, <1>5
  <2>2. q[k].ts \in Nat /\ q[k].seq = q[1].seq + (k - 1)
    BY <1>1, <2>1, EntryFacts DEF QueueInv
  <2>3. PICK x, y : x = q[k].packet /\ y = q[i].packet
    OBVIOUS
  <2>4. /\ x \in 1 .. a /\ q[k].seq + c = Ext(x) /\ q[k].ts = Stamp(x)
        /\ y \in 1 .. a /\ q[i].seq + c = Ext(y) /\ q[i].ts = Stamp(y)
    BY <1>1, <1>5, <1>6, <2>1, <2>3 DEF QueueInv
  <2>5. Ext(x) < Ext(y)
    <3>1. PICK f \in Nat : f = q[1].seq
      BY <1>5
    <3>2. Ext(x) = f + (k - 1) + c /\ Ext(y) = f + (i - 1) + c
      BY <1>5, <2>2, <2>4, <3>1
    <3> QED
      BY <1>5, <2>1, <3>2
  <2>6. x \in Nat \ {0} /\ y \in Nat \ {0} /\ x \in 1 .. Len(sent) /\ y \in 1 .. Len(sent) /\ Len(sent) \in Nat
    BY <2>4 DEF SentInv
  <2>7. x < y
    BY <2>5, <2>6, ExtFacts
  <2>8. sent[x] <= sent[y] /\ sent[x] \in Nat /\ sent[y] \in Nat
    BY <2>6, <2>7 DEF SentInv
  <2>9. Stamp(x) <= Stamp(y)
    BY <2>8, Constants DEF Stamp
  <2>10. q[k].ts <= m
    BY <1>5, <2>2, <2>4, <2>9
  <2>11. k \in I
    BY <1>6, <2>1, <2>10
  <2> QED
    BY <1>4, <1>5, <2>1, <2>11
<1> QED
  BY <1>1, <1>5, <1>6 DEF PopAsserts

(* What a pop leaves.                                                      *)
LEMMA PopKeeps ==
    ASSUME NEW b, NEW c \in Nat, NEW a, BufferInv(b, c, a), NEW i \in 1 .. Len(b.queue),
           b.queue[i].packet # None, NEW r, r = Popped(b, i)
    PROVE  /\ BufferInv(r, c, a) /\ r.last = b.queue[i].seq /\ r.last \in Nat
           /\ r.lost \in Nat /\ r.lost = b.lost + i - 1
<1>1. PICK q \in Seq(Entries) : q = b.queue /\ QueueInv(q, c, a) /\ b \in Buffers
  BY DEF BufferInv, QueueInv
<1>2. Len(q) \in Nat /\ i \in Nat /\ i > 0 /\ i <= Len(q) /\ i \in 1 .. Len(q) /\ 1 \in 1 .. Len(q)
  BY <1>1, LenProperties
<1>3. q[i].seq \in Nat /\ q[1].seq \in Nat /\ q[i].seq = q[1].seq + (i - 1)
  BY <1>1, <1>2, EntryFacts DEF QueueInv
<1>4. PICK p : p = SubSeq(q, i + 1, Len(q))
  OBVIOUS
<1>5. p \in Seq(Entries) /\ Len(p) = Len(q) - i /\ \A j \in 1 .. Len(p) : p[j] = q[j + i]
  <2>1. i + 1 \in 1 .. Len(q) + 1 /\ Len(q) \in i .. Len(q)
    BY <1>2
  <2>2. /\ p \in Seq(Entries)
        /\ Len(p) = IF i + 1 <= Len(q) THEN Len(q) - (i + 1) + 1 ELSE 0
        /\ \A j \in 1 .. Len(q) - (i + 1) + 1 : p[j] = q[i + 1 + j - 1]
    BY <1>1, <1>2, <1>4, <2>1, SubSeqProperties
  <2>3. Len(p) = Len(q) - i
    BY <1>2, <2>2
  <2>4. ASSUME NEW j \in 1 .. Len(p) PROVE p[j] = q[j + i]
    <3>1. j \in 1 .. Len(q) - (i + 1) + 1 /\ i + 1 + j - 1 = j + i
      BY <1>2, <2>3
    <3> QED
      BY <2>2, <3>1
  <2> QED
    BY <2>2, <2>3, <2>4
<1>6. QueueInv(p, c, a) /\ (p # <<>> => p[1].seq = q[1].seq + i)
  <2>1. Shorter(p, q, i)
    BY <1>2, <1>5 DEF Shorter
  <2> QED
    BY <1>1, <2>1, Shortened
<1>7. p # <<>> => p[1].seq > q[i].seq
  BY <1>2, <1>3, <1>6
<1>8. b.lost \in Nat /\ b.lost + i - 1 \in Nat
  <2>1. b.lost \in Nat
    BY <1>1, BufferFields
  <2> QED
    BY <1>2, <2>1
<1>9. r = [b EXCEPT !.queue = p, !.lost = b.lost + i - 1, !.last = q[i].seq]
  BY <1>1, <1>4 DEF Popped
<1>10. r \in Buffers /\ r.queue = p /\ r.last = q[i].seq /\ r.lost = b.lost + i - 1
  BY <1>1, <1>3, <1>5, <1>8, <1>9 DEF Buffers
<1> QED
  BY <1>1, <1>3, <1>6, <1>7, <1>8, <1>10 DEF BufferInv

-----------------------------------------------------------------------------
(* The steps.                                                              *)
LEMMA RtpInit == Init => RtpInv
<1> SUFFICES ASSUME Init PROVE RtpInv
  OBVIOUS
<1>1. /\ now = 0 /\ sent = <<>> /\ net = {} /\ jb = EmptyBuffer /\ received = None
      /\ total_lost = 0 /\ delivered = <<>> /\ ~panicked
  BY DEF Init
<1>2. SentInv
  BY <1>1, Constants DEF SentInv
<1>3. jb \in Buffers
  BY <1>1 DEF EmptyBuffer, Buffers
<1> QED
  BY <1>1, <1>2, <1>3 DEF RtpInv

LEMMA LengthOfSent == ASSUME SentInv PROVE Len(sent) \in Nat /\ Len(sent) <= MaxPackets
  BY LenProperties DEF SentInv

(* What no step but Send touches.                                          *)
LEMMA SentKept ==
    ASSUME SentInv, UNCHANGED <<now, sent>>, net' \subseteq net PROVE SentInv'
  BY DEF SentInv

LEMMA ReceivedKept ==
    ASSUME NEW c, NEW a, ReceivedInv(c, a), UNCHANGED <<sent, jb, received, total_lost, delivered>>
    PROVE  ReceivedInv(c, a)'
<1>1. Stamp(a)' = Stamp(a) /\ (\A x : Stamp(x)' = Stamp(x))
  BY DEF Stamp
<1>2. QueueInv(jb.queue, c, a)' = QueueInv(jb.queue, c, a)
  BY <1>1 DEF QueueInv
<1>3. BufferInv(jb, c, a)'
  BY <1>2 DEF ReceivedInv, BufferInv
<1>4. DeliveredInv(c, a)'
  BY DEF ReceivedInv, DeliveredInv, DeliveredInOrder
<1> QED
  BY <1>1, <1>3, <1>4 DEF ReceivedInv

(* Losing a packet, the passing of time, and nothing at all.               *)
LEMMA QuietStep ==
    ASSUME RtpInv, UNCHANGED <<sent, jb, received, total_lost, delivered, panicked>>, SentInv'
    PROVE  RtpInv'
<1>1. jb' \in Buffers /\ total_lost' \in Nat /\ ~panicked'
  BY DEF RtpInv
<1>2. (received = None => jb = EmptyBuffer /\ delivered = <<>> /\ total_lost = 0)'
  BY DEF RtpInv
<1>3. ASSUME received' # None PROVE \E c \in {0, MaxSeq}, a \in 1 .. Len(sent') : ReceivedInv(c, a)'
  <2>1. PICK c \in {0, MaxSeq}, a \in 1 .. Len(sent) : ReceivedInv(c, a)
    BY <1>3 DEF RtpInv
  <2>2. ReceivedInv(c, a)'
    BY <2>1, ReceivedKept
  <2> QED
    BY <2>2
<1> QED
  BY <1>1, <1>2, <1>3 DEF RtpInv

LEMMA TickStep == ASSUME RtpInv, Tick PROVE RtpInv'
<1>1. SentInv'
  <2>1. now' = now + 1 /\ UNCHANGED <<sent, net>> /\ SentInv
    BY DEF RtpInv, Tick
  <2> QED
    BY <2>1, Constants DEF SentInv
<1> QED
  BY <1>1, QuietStep DEF Tick

LEMMA LoseStep == ASSUME RtpInv, NEW n \in net, Lose(n) PROVE RtpInv'
<1>1. SentInv'
  BY SentKept DEF RtpInv, Lose
<1> QED
  BY <1>1, QuietStep DEF Lose

LEMMA IdleStep == ASSUME RtpInv, UNCHANGED vars PROVE RtpInv'
<1>1. SentInv'
  BY SentKept DEF RtpInv, vars
<1> QED
  BY <1>1, QuietStep DEF vars

LEMMA ReportStep == ASSUME RtpInv, Report PROVE RtpInv'
<1>1. /\ total_lost' = total_lost + jb.lost /\ jb' = [jb EXCEPT !.lost = 0]
      /\ UNCHANGED <<now, sent, net, received, delivered, panicked>> /\ jb.lost > 0
  BY DEF Report
<1>2. SentInv'
  BY <1>1, SentKept DEF RtpInv
<1>3. /\ jb \in Buffers /\ jb.lost \in Nat /\ total_lost \in Nat /\ ~panicked
  BY BufferFields DEF RtpInv
<1>4. jb' \in Buffers /\ jb'.queue = jb.queue /\ jb'.last = jb.last /\ jb'.lost = 0
  BY <1>1, <1>3 DEF Buffers
<1>5. total_lost' + jb'.lost = total_lost + jb.lost /\ total_lost' \in Nat
  BY <1>1, <1>3, <1>4
<1>6. received' # None
  BY <1>1, <1>3 DEF RtpInv, EmptyBuffer
<1>7. PICK c \in {0, MaxSeq}, a \in 1 .. Len(sent) : ReceivedInv(c, a)
  BY <1>1, <1>6 DEF RtpInv
<1>8. ReceivedInv(c, a)'
  <2>1. \A x : Stamp(x)' = Stamp(x)
    BY <1>1 DEF Stamp
  <2>2. BufferInv(jb, c, a) /\ DeliveredInv(c, a)
    BY <1>7 DEF ReceivedInv
  <2>3. QueueInv(jb.queue, c, a)'
    BY <1>4, <2>1, <2>2 DEF BufferInv, QueueInv
  <2>4. BufferInv(jb, c, a)'
    BY <1>4, <2>2, <2>3 DEF BufferInv
  <2>5. DeliveredInv(c, a)'
    BY <1>1, <1>4, <1>5, <2>2 DEF DeliveredInv, DeliveredInOrder
  <2> QED
    BY <1>1, <1>7, <2>1, <2>4, <2>5 DEF ReceivedInv
<1> QED
  BY <1>1, <1>2, <1>3, <1>4, <1>5, <1>6, <1>7, <1>8 DEF RtpInv

LEMMA SendStep == ASSUME RtpInv, Send PROVE RtpInv'
<1>1. /\ Len(sent) < MaxPackets /\ now < SendUntil /\ sent' = Append(sent, now) /\ net' = net \cup {Len(sent')}
      /\ UNCHANGED <<now, jb, received, total_lost, delivered, panicked>>
  BY DEF Send
<1>2. /\ now \in Nat /\ sent \in Seq(Nat) /\ Len(sent) <= MaxPackets /\ net \subseteq 1 .. Len(sent) /\ Len(sent) \in Nat
      /\ \A i \in 1 .. Len(sent) : sent[i] < SendUntil /\ sent[i] <= now
      /\ \A i, j \in 1 .. Len(sent) : i <= j => sent[i] <= sent[j]
  BY LenProperties DEF RtpInv, SentInv
<1>3. /\ sent' \in Seq(Nat) /\ Len(sent') = Len(sent) + 1 /\ sent'[Len(sent) + 1] = now
      /\ \A i \in 1 .. Len(sent) : sent'[i] = sent[i]
  BY <1>1, <1>2, AppendProperties
<1>4. \A i \in 1 .. Len(sent') : i \in 1 .. Len(sent) \/ i = Len(sent) + 1
  BY <1>2, <1>3
<1>5. \A i \in 1 .. Len(sent) : i \in Nat /\ i < Len(sent) + 1 /\ sent[i] \in Nat
  BY <1>2, ElementOfSeq
<1>6. SentInv'
  <2>1. Len(sent') <= MaxPackets /\ net' \subseteq 1 .. Len(sent')
    <3>1. Len(sent') <= MaxPackets /\ Len(sent') \in 1 .. Len(sent')
      BY <1>1, <1>2, <1>3, Constants
    <3>2. 1 .. Len(sent) \subseteq 1 .. Len(sent')
      BY <1>2, <1>3
    <3> QED
      BY <1>1, <1>2, <3>1, <3>2
  <2>2. \A i \in 1 .. Len(sent') : sent'[i] < SendUntil /\ sent'[i] <= now
    BY <1>1, <1>2, <1>3, <1>4
  <2>3. ASSUME NEW i \in 1 .. Len(sent'), NEW j \in 1 .. Len(sent'), i <= j PROVE sent'[i] <= sent'[j]
    <3>1. CASE j \in 1 .. Len(sent)
      <4>1. i \in 1 .. Len(sent)
        BY <1>2, <1>4, <2>3, <3>1
      <4> QED
        BY <1>2, <1>3, <2>3, <3>1, <4>1
    <3>2. CASE j = Len(sent) + 1
      BY <1>3, <2>2, <3>2
    <3> QED
      BY <1>4, <3>1, <3>2
  <2> QED
    BY <1>1, <1>2, <1>3, <2>1, <2>2, <2>3 DEF SentInv
<1>7. ASSUME received' # None PROVE \E c \in {0, MaxSeq}, a \in 1 .. Len(sent') : ReceivedInv(c, a)'
  <2>1. PICK c \in {0, MaxSeq}, a \in 1 .. Len(sent) : ReceivedInv(c, a)
    BY <1>1, <1>7 DEF RtpInv
  <2>2. \A x \in 1 .. Len(sent) : Stamp(x)' = Stamp(x)
    BY <1>3 DEF Stamp
  <2>3. \A x \in 1 .. a : x \in 1 .. Len(sent)
    BY <1>2
  <2>4. BufferInv(jb, c, a) /\ QueueInv(jb.queue, c, a)
    BY <2>1 DEF ReceivedInv, BufferInv
  <2>5. QueueInv(jb.queue, c, a)'
    BY <1>1, <2>2, <2>3, <2>4 DEF QueueInv
  <2>6. BufferInv(jb, c, a)'
    BY <1>1, <2>4, <2>5 DEF BufferInv
  <2>7. DeliveredInv(c, a)'
    BY <1>1, <2>1 DEF ReceivedInv, DeliveredInv, DeliveredInOrder
  <2>8. ReceivedInv(c, a)'
    BY <1>1, <2>1, <2>2, <2>6, <2>7 DEF ReceivedInv
  <2>9. a \in 1 .. Len(sent')
    BY <1>2, <1>3
  <2> QED
    BY <2>8, <2>9
<1> QED
  BY <1>1, <1>6, <1>7 DEF RtpInv

(* A packet enters the buffer.                                             *)
LEMMA Received ==
    ASSUME SentInv, NEW n \in 1 .. Len(sent), NEW c \in {0, MaxSeq}, NEW a, BufferInv(jb, c, a), DeliveredInv(c, a),
           NEW s, Newer(s, c, a, n), c # 0 => Number(n) > MaxSeq, now \in Nat,
           received' = [at |-> now, ts |-> Stamp(n), seq |-> s],
           jb' = Push(jb, Entry(s, Stamp(n), n)), UNCHANGED <<sent, total_lost, delivered>>
    PROVE  ReceivedInv(c, n)' /\ jb' \in Buffers
<1>1. BufferInv(jb', c, n) /\ jb'.last = jb.last /\ jb'.lost = jb.lost
  BY PushKeeps
<1>2. \A x : Stamp(x)' = Stamp(x)
  BY DEF Stamp
<1>3. jb' \in Buffers
  BY <1>1 DEF BufferInv
<1>4. BufferInv(jb, c, n)'
  BY <1>1, <1>2 DEF BufferInv, QueueInv
<1>5. /\ s \in Nat /\ a \in Nat /\ n \in Nat /\ a <= n /\ s + c = Ext(n) /\ Stamp(n) \in Nat
  BY DEF Newer
<1>6. delivered \in Seq(1 .. n)
  <2>1. 1 .. a \subseteq 1 .. n
    BY <1>5
  <2>2. delivered \in Seq(1 .. a)
    BY DEF DeliveredInv
  <2> QED
    BY <2>1, <2>2, SeqMonotonic
<1>7. DeliveredInv(c, n)'
  BY <1>1, <1>6 DEF DeliveredInv, DeliveredInOrder
<1>8. /\ received' \in [at : Nat, ts : Nat, seq : Nat] /\ received'.ts = Stamp(n) /\ received'.seq = s
  BY <1>5
<1> QED
  BY <1>2, <1>3, <1>4, <1>5, <1>7, <1>8 DEF ReceivedInv

LEMMA ReceivedIsNone ==
    ASSUME NEW x \in Nat, NEW y \in Nat, NEW z \in Nat PROVE [at |-> x, ts |-> y, seq |-> z] # None
<1>1. [at |-> x, ts |-> y, seq |-> z] \in [at : Nat, ts : Nat, seq : Nat]
  OBVIOUS
<1> QED
  BY <1>1, RtpAssumption

LEMMA RecvFirstStep == ASSUME NumbersFit, RtpInv, NEW n \in net, RecvFirst(n) PROVE RtpInv'
<1>1. /\ received = None /\ net' \subseteq net /\ UNCHANGED <<now, sent, total_lost, delivered, panicked>>
      /\ received' = [at |-> now, ts |-> WireTs(n), seq |-> WireSeq(n)]
      /\ jb' = Push(jb, Entry(WireSeq(n), WireTs(n), n))
  BY DEF RecvFirst, Arrives
<1>2. /\ SentInv /\ n \in 1 .. Len(sent) /\ now \in Nat /\ total_lost \in Nat /\ ~panicked
      /\ jb = EmptyBuffer /\ delivered = <<>> /\ total_lost = 0
  BY <1>1 DEF RtpInv, SentInv
<1>3. /\ n \in Nat \ {0} /\ Stamp(n) \in Nat /\ WireTs(n) = Stamp(n) /\ WireSeq(n) \in Nat /\ Number(n) \in Nat
      /\ WireSeq(n) = IF Number(n) <= MaxSeq THEN Number(n) ELSE Number(n) - MaxSeq - 1
  BY <1>2, OnTheWire
<1>4. PICK c \in {0, MaxSeq} : c = IF Number(n) <= MaxSeq THEN 0 ELSE MaxSeq
  OBVIOUS
<1>5. c \in Nat /\ WireSeq(n) + c = Ext(n) /\ (c # 0 => Number(n) > MaxSeq)
  BY <1>3, <1>4, Constants DEF Ext
<1>6. Newer(WireSeq(n), c, 0, n)
  BY <1>3, <1>5 DEF Newer
<1>7. BufferInv(jb, c, 0) /\ DeliveredInv(c, 0)
  <2>1. jb \in Buffers /\ jb.queue = <<>> /\ jb.last = None /\ jb.lost = 0
    BY <1>2 DEF EmptyBuffer, Buffers
  <2>2. QueueInv(<<>>, c, 0)
    BY DEF QueueInv
  <2>3. DeliveredInv(c, 0)
    BY <1>2, <2>1 DEF DeliveredInv, DeliveredInOrder
  <2> QED
    BY <2>1, <2>2, <2>3 DEF BufferInv
<1>8. ReceivedInv(c, n)' /\ jb' \in Buffers
  BY <1>1, <1>2, <1>3, <1>5, <1>6, <1>7, Received
<1>9. received' # None
  BY <1>1, <1>2, <1>3, ReceivedIsNone
<1>10. SentInv'
  BY <1>1, <1>2, SentKept
<1> QED
  BY <1>1, <1>2, <1>8, <1>9, <1>10 DEF RtpInv

LEMMA RecvFurtherStep == ASSUME NumbersFit, RtpInv, NEW n \in net, RecvFurther(n) PROVE RtpInv'
<1>1. PICK ts, s : ts = GuessExtended(received.ts, WireTs(n), MaxTs) /\ s = GuessExtended(received.seq, WireSeq(n), MaxSeq)
  OBVIOUS
<1>2. /\ received # None /\ net' \subseteq net /\ UNCHANGED <<now, sent, total_lost, delivered, panicked>>
      /\ IF ts > received.ts
         THEN /\ received' = [at |-> now, ts |-> ts, seq |-> s]
              /\ jb' = Push(jb, Entry(s, ts, n))
         ELSE UNCHANGED <<received, jb>>
  BY <1>1 DEF RecvFurther, Arrives
<1>3. SentInv /\ n \in 1 .. Len(sent) /\ now \in Nat /\ total_lost \in Nat /\ ~panicked
  BY DEF RtpInv, SentInv
<1>4. SentInv'
  BY <1>2, <1>3, SentKept
<1>5. CASE ~(ts > received.ts)
  BY <1>2, <1>4, <1>5, QuietStep
<1>6. CASE ts > received.ts
  <2>1. PICK c \in {0, MaxSeq}, a \in 1 .. Len(sent) : ReceivedInv(c, a)
    BY <1>2 DEF RtpInv
  <2>2. /\ received.ts = Stamp(a) /\ received.seq \in Nat /\ received.seq + c = Ext(a)
        /\ c # 0 => Number(a) > MaxSeq
        /\ BufferInv(jb, c, a) /\ DeliveredInv(c, a)
    BY <2>1 DEF ReceivedInv
  <2>3. a < n /\ ts = Stamp(n)
    BY <1>1, <1>3, <1>6, <2>2, GuessTimestamp
  <2>4. s \in Nat /\ s + c = Ext(n) /\ (c # 0 => Number(n) > MaxSeq)
    BY <1>1, <1>3, <2>2, <2>3, GuessSequence
  <2>5. n \in Nat \ {0} /\ Stamp(n) \in Nat /\ a \in Nat
    BY <1>3, OnTheWire
  <2>6. Newer(s, c, a, n)
    BY <2>3, <2>4, <2>5, Constants DEF Newer
  <2>7. ReceivedInv(c, n)' /\ jb' \in Buffers
    BY <1>2, <1>3, <1>6, <2>2, <2>3, <2>4, <2>6, Received
  <2>8. received' # None
    BY <1>2, <1>3, <1>6, <2>3, <2>4, <2>5, ReceivedIsNone
  <2> QED
    BY <1>2, <1>3, <1>4, <2>7, <2>8 DEF RtpInv
<1> QED
  BY <1>5, <1>6

(* The moment up to which packets are due is a number.                     *)
LEMMA DueIsIndex ==
    ASSUME RtpInv, received # None
    PROVE  /\ MaxTimestamp \in Int
           /\ \E m \in Int : Due = DueIndex(jb, m) /\ (MaxTimestamp >= 0 => m = MaxTimestamp)
<1>1. PICK c \in {0, MaxSeq}, a \in 1 .. Len(sent) : ReceivedInv(c, a)
  BY DEF RtpInv
<1>2. received.ts \in Nat /\ received.at \in Nat /\ now \in Nat
  BY <1>1 DEF ReceivedInv, RtpInv, SentInv
<1>3. MaxTimestamp \in Int
  BY <1>2, Constants DEF MaxTimestamp
<1>4. 2 * MaxTs * MaxPackets \in Int
  BY Constants
<1>5. PICK m : m = IF MaxTimestamp < 0 THEN 2 * MaxTs * MaxPackets ELSE MaxTimestamp
  OBVIOUS
<1>6. m \in Int /\ (MaxTimestamp >= 0 => m = MaxTimestamp)
  BY <1>3, <1>4, <1>5
<1>7. Due = DueIndex(jb, m)
  BY <1>5 DEF Due
<1> QED
  BY <1>3, <1>6, <1>7

LEMMA PopStep == ASSUME RtpInv, Pop PROVE RtpInv'
<1>1. PICK i : i = Due
  OBVIOUS
<1>2. /\ i # 0 /\ jb' = Popped(jb, i) /\ delivered' = Append(delivered, jb.queue[i].packet)
      /\ panicked' = (panicked \/ ~PopAsserts(jb, i))
      /\ UNCHANGED <<now, sent, net, received, total_lost>>
  BY <1>1 DEF Pop
<1>3. received # None /\ SentInv /\ ~panicked /\ total_lost \in Nat
  BY <1>1, <1>2 DEF Due, RtpInv
<1>4. PICK c \in {0, MaxSeq}, a \in 1 .. Len(sent) : ReceivedInv(c, a)
  BY <1>3 DEF RtpInv
<1>5. c \in Nat /\ a \in Nat /\ BufferInv(jb, c, a) /\ DeliveredInv(c, a)
  BY <1>4, Constants DEF ReceivedInv
<1>6. PICK m \in Int : i = DueIndex(jb, m)
  BY <1>1, <1>3, DueIsIndex
<1>7. i \in 1 .. Len(jb.queue) /\ jb.queue[i].packet # None /\ PopAsserts(jb, i)
  BY <1>2, <1>3, <1>5, <1>6, DueFacts
<1>8. /\ BufferInv(jb', c, a) /\ jb'.last = jb.queue[i].seq /\ jb'.last \in Nat
      /\ jb'.lost \in Nat /\ jb'.lost = jb.lost + i - 1
  BY <1>2, <1>5, <1>7, PopKeeps
<1>9. PICK q \in Seq(Entries) : q = jb.queue /\ QueueInv(q, c, a) /\ q # <<>>
  <2>1. jb.queue \in Seq(Entries) /\ QueueInv(jb.queue, c, a)
    BY <1>5 DEF BufferInv, QueueInv
  <2>2. jb.queue # <<>>
    BY <1>7, <2>1
  <2> QED
    BY <2>1, <2>2
<1>p. PICK p : p = q[i].packet
  OBVIOUS
<1>10. /\ p \in 1 .. a /\ q[i].seq + c = Ext(p) /\ q[1].seq \in Nat /\ q[i].seq = q[1].seq + (i - 1)
       /\ i \in Nat /\ i > 0 /\ (c = 0 => q[1].seq >= FirstSeq) /\ p \in Nat \ {0}
  <2>1. i \in 1 .. Len(q) /\ 1 \in 1 .. Len(q) /\ Len(q) \in Nat
    BY <1>7, <1>9, LenProperties
  <2> QED
    BY <1>5, <1>7, <1>9, <1>p, <2>1, EntryFacts DEF QueueInv
<1>11. jb.lost \in Nat
  BY <1>5, BufferFields DEF BufferInv
<1>12. PICK d \in Seq(1 .. a) : d = delivered
  BY <1>5 DEF DeliveredInv
<1>13. Len(d) \in Nat /\ \A j \in 1 .. Len(d) : d[j] \in 1 .. a /\ d[j] \in Nat \ {0}
  BY <1>5, ElementOfSeq, LenProperties
<1>14. /\ delivered' \in Seq(1 .. a) /\ Len(delivered') = Len(d) + 1 /\ delivered'[Len(d) + 1] = p
       /\ \A j \in 1 .. Len(d) : delivered'[j] = d[j]
  BY <1>2, <1>9, <1>p, <1>10, <1>12, AppendProperties
<1>15. delivered' # <<>> /\ Last(delivered') = p
  BY <1>13, <1>14 DEF Last
<1>16. ASSUME d # <<>>
       PROVE  /\ \A j \in 1 .. Len(d) : d[j] < p
              /\ total_lost + jb'.lost + Len(delivered') <= p
  <2>1. PICK l : l = d[Len(d)]
    OBVIOUS
  <2>2. Len(d) > 0 /\ Len(d) \in 1 .. Len(d) /\ l \in Nat \ {0}
    BY <1>13, <1>16, <2>1, EmptySeq
  <2>3. jb.last \in Nat /\ jb.last + c = Ext(l) /\ total_lost + jb.lost + Len(d) <= l
    BY <1>5, <1>12, <1>16, <2>1 DEF DeliveredInv, Last
  <2>4. q[1].seq > jb.last
    <3>1. jb.last # None
      BY <2>3, Constants
    <3> QED
      BY <1>5, <1>9, <3>1 DEF BufferInv
  <2>5. Ext(l) \in Nat /\ Ext(p) \in Nat /\ Ext(p) >= Ext(l) + i
    <3>1. PICK f \in Nat, g \in Nat : f = q[1].seq /\ g = jb.last /\ f > g /\ g + c = Ext(l) /\ f + (i - 1) + c = Ext(p)
      BY <1>10, <2>3, <2>4
    <3>2. \A x, y, z, w \in Nat : x > y => x + (z - 1) + w >= y + w + z
      OBVIOUS
    <3>3. Ext(p) >= g + c + i
      BY <1>5, <1>10, <3>1, <3>2
    <3>4. Ext(l) \in Nat /\ Ext(p) \in Nat
      BY <1>10, <2>2, ExtFacts
    <3> QED
      BY <3>1, <3>3, <3>4
  <2>6. l < p
    BY <1>10, <2>2, <2>5, ExtFacts
  <2>7. Ext(p) - Ext(l) <= p - l
    <3>1. l <= p
      BY <1>10, <2>2, <2>6
    <3> QED
      BY <1>10, <2>2, <3>1, ExtFacts
  <2>8. ASSUME NEW j \in 1 .. Len(d) PROVE d[j] < p
    <3>1. j < Len(d) => d[j] < l
      BY <1>5, <1>12, <2>1, <2>2 DEF DeliveredInv, DeliveredInOrder
    <3>2. j = Len(d) \/ j < Len(d)
      BY <1>13
    <3> QED
      BY <1>10, <1>13, <2>1, <2>2, <2>6, <3>1, <3>2
  <2>9. total_lost + jb'.lost + Len(delivered') <= p
    <3>1. PICK x \in Nat, y \in Nat, z \in Nat : x = total_lost /\ y = jb.lost /\ z = Len(d)
      BY <1>3, <1>11, <1>13
    <3>2. total_lost + jb'.lost + Len(delivered') = x + (y + i - 1) + (z + 1)
      BY <1>8, <1>14, <3>1
    <3>3. x + y + z <= l /\ i <= p - l
      <4>1. i <= Ext(p) - Ext(l)
        BY <1>10, <2>5
      <4>2. Ext(p) - Ext(l) \in Int /\ p - l \in Int
        BY <1>10, <2>2, <2>5
      <4> QED
        BY <1>10, <2>3, <2>7, <3>1, <4>1, <4>2
    <3> QED
      BY <1>10, <2>2, <3>2, <3>3
  <2> QED
    BY <2>8, <2>9
<1>17. ASSUME d = <<>> PROVE total_lost + jb'.lost + Len(delivered') <= p
  <2>1. total_lost + jb.lost = 0 /\ Len(d) = 0
    BY <1>5, <1>12, <1>17 DEF DeliveredInv
  <2>2. Ext(p) < FirstSeq + p /\ Ext(p) \in Nat
    BY <1>10, ExtFacts
  <2>3. i <= p
    <3>1. PICK f \in Nat : f = q[1].seq /\ f + (i - 1) + c = Ext(p) /\ (c = 0 => f >= FirstSeq)
      BY <1>10
    <3>2. CASE c = 0
      BY <1>10, <2>2, <3>1, <3>2, Constants
    <3>3. CASE c = MaxSeq
      BY <1>10, <2>2, <3>1, <3>3, Constants
    <3> QED
      BY <3>2, <3>3
  <2> QED
    BY <1>3, <1>8, <1>10, <1>11, <1>14, <2>1, <2>3
<1>18. DeliveredInOrder'
  <2>1. ASSUME NEW x \in 1 .. Len(delivered'), NEW y \in 1 .. Len(delivered'), x < y
        PROVE  delivered'[x] < delivered'[y]
    <3>1. x \in 1 .. Len(d) /\ (y \in 1 .. Len(d) \/ y = Len(d) + 1)
      <4>1. x \in 1 .. Len(d) + 1 /\ y \in 1 .. Len(d) + 1
        BY <1>14
      <4> QED
        BY <1>13, <2>1, <4>1
    <3>2. CASE y \in 1 .. Len(d)
      BY <1>5, <1>12, <1>14, <2>1, <3>1, <3>2 DEF DeliveredInv, DeliveredInOrder
    <3>3. CASE y = Len(d) + 1
      <4>1. d # <<>>
        BY <1>13, <3>1
      <4> QED
        BY <1>14, <1>16, <3>1, <3>3, <4>1
    <3> QED
      BY <3>1, <3>2, <3>3
  <2> QED
    BY <2>1 DEF DeliveredInOrder
<1>19. \A x : Stamp(x)' = Stamp(x)
  BY <1>2 DEF Stamp
<1>20. BufferInv(jb, c, a)' /\ jb' \in Buffers
  BY <1>8, <1>19 DEF BufferInv, QueueInv
<1>21. DeliveredInv(c, a)'
  BY <1>2, <1>8, <1>9, <1>p, <1>10, <1>14, <1>15, <1>16, <1>17, <1>18 DEF DeliveredInv
<1>22. ReceivedInv(c, a)'
  BY <1>2, <1>4, <1>19, <1>20, <1>21 DEF ReceivedInv
<1>23. SentInv'
  BY <1>2, <1>3, SentKept
<1> QED
  BY <1>2, <1>3, <1>4, <1>7, <1>20, <1>22, <1>23 DEF RtpInv

LEMMA RtpStep == ASSUME NumbersFit, RtpInv, [Next]_vars PROVE RtpInv'
  BY SendStep, PopStep, ReportStep, TickStep, LoseStep, RecvFirstStep, RecvFurtherStep, IdleStep DEF Next

(* RtpInv, the inductive invariant, holds in every reachable state: the    *)
(* session knows every packet by its own place in the stream.              *)
THEOREM RtpInvariant == ASSUME NumbersFit PROVE Spec => []RtpInv
<1>1. Init => RtpInv
  BY RtpInit
<1>2. RtpInv /\ [Next]_vars => RtpInv'
  BY RtpStep
<1> QED
  BY <1>1, <1>2, PTL DEF Spec

-----------------------------------------------------------------------------
(* What a receiver may rely on.                                            *)

(* DeliveredInOrder for any number of packets: pop_rtp returns packets in  *)
(* the order of sending and none twice, whatever was lost, duplicated or   *)
(* overtaken, although sequence numbers wrap.                              *)
THEOREM PacketsInOrder == ASSUME NumbersFit PROVE Spec => []DeliveredInOrder
<1>1. RtpInv => DeliveredInOrder
  <2>1. ASSUME RtpInv, received = None PROVE DeliveredInOrder
    BY <2>1 DEF RtpInv, DeliveredInOrder
  <2>2. ASSUME RtpInv, received # None PROVE DeliveredInOrder
    BY <2>2 DEF RtpInv, ReceivedInv, DeliveredInv
  <2> QED
    BY <2>1, <2>2
<1> QED
  BY <1>1, RtpInvariant, PTL

(* As many of the first n packets are missing as were not returned.        *)
LEMMA Missing ==
    ASSUME NEW a \in Nat, NEW d \in Seq(1 .. a), NEW n \in Nat, n > 0
    PROVE  /\ Cardinality((1 .. n) \ ToSet(d)) \in Nat
           /\ n <= Cardinality((1 .. n) \ ToSet(d)) + Len(d)
<1>1. PICK T, N : T = ToSet(d) /\ N = 1 .. n
  OBVIOUS
<1>2. Len(d) \in Nat /\ d \in [1 .. Len(d) -> 1 .. a]
  BY LenProperties
<1>3. T = {d[i] : i \in 1 .. Len(d)}
  BY <1>1, <1>2 DEF ToSet
<1>4. d \in Surjection(1 .. Len(d), T)
  BY <1>2, <1>3 DEF Surjection
<1>5. IsFiniteSet(1 .. Len(d)) /\ Cardinality(1 .. Len(d)) = Len(d)
  <2>1. 1 \in Int /\ Len(d) \in Int
    BY <1>2
  <2>2. IsFiniteSet(1 .. Len(d)) /\ Cardinality(1 .. Len(d)) = IF 1 > Len(d) THEN 0 ELSE Len(d) - 1 + 1
    BY <2>1, FS_Interval
  <2> QED
    BY <1>2, <2>2
<1>6. IsFiniteSet(T) /\ Cardinality(T) <= Len(d)
  BY <1>4, <1>5, FS_Surjection
<1>7. IsFiniteSet(N) /\ Cardinality(N) = n
  <2>1. 1 \in Int /\ n \in Int
    OBVIOUS
  <2>2. IsFiniteSet(1 .. n) /\ Cardinality(1 .. n) = IF 1 > n THEN 0 ELSE n - 1 + 1
    BY <2>1, FS_Interval
  <2> QED
    BY <1>1, <2>2
<1>8. N \cap T \in SUBSET T /\ IsFiniteSet(N \cap T) /\ Cardinality(N \cap T) <= Cardinality(T)
  <2>1. N \cap T \in SUBSET T
    OBVIOUS
  <2> QED
    BY <1>6, <2>1, FS_Subset
<1>9. IsFiniteSet(N \ T) /\ Cardinality(N \ T) = Cardinality(N) - Cardinality(N \cap T)
  BY <1>7, FS_Difference
<1>10. Cardinality(N \ T) \in Nat /\ Cardinality(T) \in Nat /\ Cardinality(N \cap T) \in Nat
  BY <1>6, <1>8, <1>9, FS_CardinalityType
<1> QED
  BY <1>1, <1>2, <1>6, <1>7, <1>8, <1>9, <1>10

(* BufferSound for any number of packets: pop's assertion never fails, the *)
(* queue has one entry per number, and the losses generate_rtcp_report     *)
(* counts are packets really missing before the last one returned.         *)
THEOREM BufferIsSound == ASSUME NumbersFit PROVE Spec => []BufferSound
<1>1. RtpInv => BufferSound
  <2> SUFFICES ASSUME RtpInv PROVE BufferSound
    OBVIOUS
  <2>1. CASE received = None
    <3>1. jb = EmptyBuffer /\ delivered = <<>> /\ ~panicked
      BY <2>1 DEF RtpInv
    <3>2. jb.queue = <<>>
      BY <3>1 DEF EmptyBuffer
    <3> QED
      BY <3>1, <3>2 DEF BufferSound, QueueSound, LostIsMissing
  <2>2. CASE received # None
    <3>1. PICK c \in {0, MaxSeq}, a \in 1 .. Len(sent) : ReceivedInv(c, a)
      BY <2>2 DEF RtpInv
    <3>2. /\ BufferInv(jb, c, a) /\ DeliveredInv(c, a) /\ ~panicked /\ total_lost \in Nat /\ a \in Nat
          /\ jb \in Buffers
      BY <3>1 DEF RtpInv, ReceivedInv
    <3>3. QueueSound
      <4>1. PICK q \in Seq(Entries) : q = jb.queue /\ QueueInv(q, c, a)
        BY <3>2 DEF BufferInv, QueueInv
      <4>2. ASSUME NEW i \in 1 .. Len(q) - 1 PROVE q[i + 1].seq = q[i].seq + 1
        <5>1. i \in 1 .. Len(q) /\ i + 1 \in 1 .. Len(q) /\ 1 \in 1 .. Len(q) /\ i \in Nat
          BY <4>1, LenProperties
        <5>2. PICK f \in Nat : f = q[1].seq
          BY <5>1, EntryFacts
        <5>3. q[i + 1].seq = f + (i + 1 - 1) /\ q[i].seq = f + (i - 1)
          <6>1. \A j \in 1 .. Len(q) : q[j].seq = q[1].seq + (j - 1)
            BY <4>1 DEF QueueInv
          <6> QED
            BY <5>1, <5>2, <6>1
        <5> QED
          BY <5>1, <5>3
      <4> QED
        BY <3>2, <4>1, <4>2 DEF QueueSound
    <3>4. LostIsMissing
      <4> SUFFICES ASSUME delivered # <<>>
                   PROVE  total_lost + jb.lost <= Cardinality((1 .. Last(delivered)) \ ToSet(delivered))
        BY DEF LostIsMissing
      <4>1. PICK d \in Seq(1 .. a) : d = delivered
        BY <3>2 DEF DeliveredInv
      <4>2. Len(d) \in Nat /\ Len(d) \in 1 .. Len(d)
        BY <4>1, EmptySeq, LenProperties
      <4>3. PICK n \in Nat : n = Last(delivered) /\ n > 0 /\ total_lost + jb.lost + Len(d) <= n
        <5>1. Last(delivered) \in 1 .. a
          BY <4>1, <4>2, ElementOfSeq DEF Last
        <5> QED
          BY <3>2, <4>1, <5>1 DEF DeliveredInv
      <4>4. jb.lost \in Nat
        BY <3>2, BufferFields
      <4>5. PICK k \in Nat : k = Cardinality((1 .. n) \ ToSet(d)) /\ n <= k + Len(d)
        BY <3>2, <4>3, Missing
      <4> QED
        BY <3>2, <4>1, <4>2, <4>3, <4>4, <4>5
    <3> QED
      BY <3>3, <3>4 DEF BufferSound
  <2> QED
    BY <2>1, <2>2
<1> QED
  BY <1>1, RtpInvariant, PTL

(* WaitSuffices for any number of packets: once the time pop_rtp_after     *)
(* gave is over, pop_rtp returns a packet.                                 *)
THEOREM WaitIsEnough == ASSUME NumbersFit PROVE Spec => []WaitSuffices
<1>1. RtpInv => WaitSuffices
  <2> SUFFICES ASSUME RtpInv, Queued # {}, PopAfter = 0, Due = 0 PROVE FALSE
    BY DEF WaitSuffices
  <2>1. jb.queue # <<>>
    BY DEF Queued, ToSet
  <2>2. received # None
    BY <2>1 DEF RtpInv, EmptyBuffer
  <2>3. PICK c \in {0, MaxSeq}, a \in 1 .. Len(sent) : ReceivedInv(c, a)
    BY <2>2 DEF RtpInv
  <2>4. received.ts \in Nat /\ received.at \in Nat /\ now \in Nat /\ BufferInv(jb, c, a)
    BY <2>3 DEF ReceivedInv, RtpInv, SentInv
  <2>5. PICK q \in Seq(Entries) : q = jb.queue
    BY <2>4 DEF BufferInv, QueueInv
  <2> DEFINE E == {j \in 1 .. Len(q) : q[j].packet # None}
  <2>6. E \in SUBSET Nat /\ E # {}
    <3>1. PICK x \in ToSet(q) : x.packet # None
      BY <2>5 DEF Queued
    <3>2. PICK j \in 1 .. Len(q) : x = q[j]
      BY <2>5, <3>1 DEF ToSet
    <3> QED
      BY <2>5, <3>1, <3>2
  <2>7. PICK e : e = EarliestIndex(jb) /\ e \in E
    <3>1. EarliestIndex(jb) = IF E # {} THEN Min(E) ELSE 0
      BY <2>5 DEF EarliestIndex, SelectInSeq
    <3> HIDE DEF E
    <3> QED
      BY <2>6, <3>1, MinIsLeast
  <2>8. e \in 1 .. Len(q) /\ q[e].packet # None /\ q[e].ts \in Nat
    BY <2>5, <2>7, EntryFacts
  <2>9. q[e].ts <= MaxTimestamp /\ MaxTimestamp \in Int /\ MaxTimestamp >= 0
    <3>1. PICK t \in Nat : t = q[e].ts
      BY <2>8
    <3>2. received.at - (received.ts - t) + JbLength - now <= 0
      <4>1. PopAfter = IF received.at - (received.ts - t) + JbLength - now < 0 THEN 0
                       ELSE received.at - (received.ts - t) + JbLength - now
        BY <2>5, <2>7, <3>1 DEF PopAfter
      <4> QED
        BY <2>4, <4>1, Constants
    <3> QED
      <4>1. \A x, y, z, u, v \in Int : x - (y - z) + u - v <= 0 => z <= y + (v - u - x)
        OBVIOUS
      <4>2. t <= MaxTimestamp /\ MaxTimestamp \in Int
        BY <2>4, <3>2, <4>1, Constants DEF MaxTimestamp
      <4> QED
        BY <3>1, <4>2
  <2>10. PICK m \in Int : Due = DueIndex(jb, m) /\ m = MaxTimestamp
    BY <2>2, <2>9, DueIsIndex
  <2> DEFINE I == {j \in 1 .. Len(q) : q[j].packet # None /\ q[j].ts <= m}
  <2>11. Due = IF I # {} THEN Min(I) ELSE 0
    BY <2>5, <2>10 DEF DueIndex, SelectInSeq
  <2>12. I \in SUBSET Nat /\ I # {} /\ 0 \notin I
    BY <2>5, <2>8, <2>9, <2>10
  <2> HIDE DEF I
  <2> QED
    BY <2>11, <2>12, MinIsLeast
<1> QED
  BY <1>1, RtpInvariant, PTL
=============================================================================
