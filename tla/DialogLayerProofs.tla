------------------------- MODULE DialogLayerProofs -------------------------
(***************************************************************************)
(* Proofs about the order of the requests of a dialog, for any number of   *)
(* requests, any starting CSeq and either kind of dialog entry.            *)
(***************************************************************************)
EXTENDS DialogLayer, TLAPS, SequenceTheorems, FiniteSetTheorems

(* Every request that exists, wherever it is.                              *)
Everywhere == ToSet(arriving) \cup backlog \cup Accepted
Ack(c) == [method |-> "ACK", cseq |-> c]
Invite(c) == [method |-> "INVITE", cseq |-> c]

(* The calling dialog gives no number to two requests, and none of those   *)
(* its ACKs used up.                                                       *)
NumberInv ==
    /\ \A r \in Everywhere : r.method # "ACK" => r.cseq < local_cseq /\ r.cseq \notin skipped
    /\ \A n \in skipped : n < local_cseq
    /\ \A r, s \in Everywhere :
          r.method # "ACK" /\ s.method # "ACK" /\ r.cseq = s.cseq => r = s

(* An INVITE is acknowledged once it has been handled, and once only.  The *)
(* INVITE that made the dialog was handled before.                         *)
Unnumbered == C0 \in skipped \/ (local_cseq = C0 /\ unacked = {C0})
AckInv ==
    /\ \A c \in unacked : Ack(c) \notin Everywhere
    /\ \A c \in C0 .. MaxCSeq : c \in unacked \/ Ack(c) \in Everywhere =>
          Invite(c) \in ToSet(handled) \/ (c = C0 /\ Unnumbered)

(* A request is in one place.                                              *)
PlaceInv ==
    /\ IsInjective(arriving)
    /\ ToSet(arriving) \cap (backlog \cup Accepted) = {}
    /\ backlog \cap Accepted = {}
    /\ \A t \in tasks : t = [requests |-> <<Head(t.requests)>>, usage |-> t.usage]
    /\ \A t, u \in tasks : Head(t.requests) = Head(u.requests) => t = u
    /\ \A t \in tasks : Head(t.requests) \notin ToSet(handled)
    /\ IsInjective(handled)

(* What has been let through is below the expected number, ACKs always     *)
(* are, and what is kept is not.                                           *)
ExpectInv ==
    /\ base = None <=> next_peer_cseq = None
    /\ \A r \in Underway \cup ToSet(handled) : next_peer_cseq # None /\ r.cseq < next_peer_cseq
    /\ C0 \in skipped \/ unacked # {} => next_peer_cseq > C0
    /\ \A r \in Everywhere : r.method = "ACK" => r.cseq < next_peer_cseq
    /\ \A b \in backlog : next_peer_cseq # None /\ b.cseq >= next_peer_cseq

DialogInv == TypeOK /\ NumberInv /\ AckInv /\ PlaceInv /\ ExpectInv /\ NoGap

-----------------------------------------------------------------------------
(* Facts about the helpers on sequences.                                   *)
LEMMA AppendSet ==
    ASSUME NEW S, NEW s \in Seq(S), NEW x \in S
    PROVE  /\ ToSet(Append(s, x)) = ToSet(s) \cup {x}
           /\ IsInjective(s) /\ x \notin ToSet(s) => IsInjective(Append(s, x))
<1> DEFINE n == Len(s)  t == Append(s, x)
<1>1. /\ t \in Seq(S) /\ n \in Nat /\ Len(t) = n + 1 /\ t[n + 1] = x
      /\ \A i \in 1 .. n : t[i] = s[i]
  OBVIOUS
<1>2. DOMAIN s = 1 .. n /\ DOMAIN t = 1 .. n + 1
  BY <1>1
<1> HIDE DEF n, t
<1>3. ToSet(t) = ToSet(s) \cup {x}
  BY <1>1, <1>2 DEF ToSet
<1>4. IsInjective(s) /\ x \notin ToSet(s) => IsInjective(t)
  BY <1>1, <1>2 DEF ToSet, IsInjective
<1> QED BY <1>3, <1>4 DEF t

LEMMA RemoveSet ==
    ASSUME NEW S, NEW s \in Seq(S), NEW i \in 1 .. Len(s), IsInjective(s)
    PROVE  /\ RemoveAt(s, i) \in Seq(S) /\ s[i] \in S /\ s[i] \in ToSet(s)
           /\ ToSet(RemoveAt(s, i)) = ToSet(s) \ {s[i]}
           /\ IsInjective(RemoveAt(s, i))
<1> DEFINE n == Len(s)  a == SubSeq(s, 1, i - 1)  b == SubSeq(s, i + 1, n)  t == RemoveAt(s, i)
<1>1. n \in Nat /\ DOMAIN s = 1 .. n /\ i \in 1 .. n /\ \A j \in 1 .. n : s[j] \in S
  OBVIOUS
<1>2. /\ a \in Seq(S) /\ Len(a) = i - 1
      /\ \A j \in 1 .. i - 1 : a[j] = s[j]
  BY <1>1
<1>3. /\ b \in Seq(S) /\ Len(b) = n - i
      /\ \A j \in 1 .. n - i : b[j] = s[i + j]
  <2>1. /\ b \in Seq(S) /\ Len(b) = IF i + 1 <= n THEN n - (i + 1) + 1 ELSE 0
        /\ \A j \in 1 .. n - (i + 1) + 1 : b[j] = s[(i + 1) + j - 1]
    <3>1. \A j \in i + 1 .. n : s[j] \in S
      BY <1>1
    <3> HIDE DEF n
    <3> QED BY <1>1, <3>1, SubSeqProperties
  <2>2. n - (i + 1) + 1 = n - i /\ \A j \in 1 .. n - i : (i + 1) + j - 1 = i + j
    BY <1>1
  <2> HIDE DEF b, n
  <2>3. Len(b) = n - i
    <3>1. CASE i + 1 <= n
      BY <2>1, <2>2, <3>1
    <3>2. CASE ~(i + 1 <= n)
      <4>1. n - i = 0
        BY <1>1, <3>2
      <4> QED BY <2>1, <3>2, <4>1
    <3> QED BY <3>1, <3>2
  <2> QED BY <2>1, <2>2, <2>3
<1>4. /\ t \in Seq(S) /\ Len(t) = n - 1
      /\ \A j \in 1 .. n - 1 : t[j] = IF j < i THEN s[j] ELSE s[j + 1]
  <2>1. t = a \o b
    BY DEF RemoveAt
  <2> HIDE DEF a, b, t
  <2>2. t \in Seq(S) /\ Len(t) = n - 1
    <3>1. t \in Seq(S) /\ Len(t) = Len(a) + Len(b)
      BY <1>2, <1>3, <2>1, ConcatProperties
    <3> QED BY <1>1, <1>2, <1>3, <3>1
  <2>3. ASSUME NEW j \in 1 .. n - 1, j < i PROVE t[j] = s[j]
    BY <1>1, <1>2, <1>3, <2>1, <2>3
  <2>4. ASSUME NEW j \in 1 .. n - 1, ~(j < i) PROVE t[j] = s[j + 1]
    <3>1. j - (i - 1) \in 1 .. n - i /\ t[j] = b[j - (i - 1)]
      BY <1>1, <1>2, <1>3, <2>1, <2>4
    <3>2. i + (j - (i - 1)) = j + 1
      BY <1>1
    <3> QED BY <1>3, <3>1, <3>2
  <2> QED BY <2>2, <2>3, <2>4
<1>5. DOMAIN t = 1 .. n - 1
  BY <1>1, <1>4
<1> HIDE DEF n, a, b, t
<1>6. ToSet(t) = ToSet(s) \ {s[i]}
  <2>1. ASSUME NEW j \in 1 .. n - 1 PROVE t[j] \in ToSet(s) \ {s[i]}
    <3>1. PICK k \in 1 .. n : k # i /\ t[j] = s[k]
      <4>1. j < i => j \in 1 .. n /\ j # i
        BY <1>1
      <4>2. ~(j < i) => j + 1 \in 1 .. n /\ j + 1 # i
        BY <1>1
      <4> QED BY <1>4, <4>1, <4>2
    <3> QED BY <1>1, <3>1 DEF ToSet, IsInjective
  <2>2. ASSUME NEW k \in 1 .. n, k # i PROVE \E j \in 1 .. n - 1 : t[j] = s[k]
    <3>1. CASE k < i
      <4>1. k \in 1 .. n - 1 /\ t[k] = s[k]
        BY <1>1, <1>4, <3>1
      <4> QED BY <4>1
    <3>2. CASE k > i
      <4>1. k - 1 \in 1 .. n - 1 /\ ~(k - 1 < i) /\ (k - 1) + 1 = k
        BY <1>1, <3>2
      <4> QED BY <1>4, <4>1
    <3> QED BY <1>1, <2>2, <3>1, <3>2
  <2>3. ToSet(t) \subseteq ToSet(s) \ {s[i]}
    BY <1>5, <2>1 DEF ToSet
  <2>4. ToSet(s) \ {s[i]} \subseteq ToSet(t)
    BY <1>1, <1>5, <2>2 DEF ToSet
  <2> QED BY <2>3, <2>4
<1>7. IsInjective(t)
  <2> SUFFICES ASSUME NEW j \in 1 .. n - 1, NEW k \in 1 .. n - 1, t[j] = t[k]
               PROVE  j = k
    BY <1>5 DEF IsInjective
  <2> DEFINE m(l) == IF l < i THEN l ELSE l + 1
  <2>1. m(j) \in 1 .. n /\ m(k) \in 1 .. n /\ s[m(j)] = s[m(k)]
    BY <1>1, <1>4
  <2>2. m(j) = m(k)
    BY <1>1, <2>1 DEF IsInjective
  <2> QED BY <1>1, <2>2
<1>8. s[i] \in ToSet(s)
  BY <1>1 DEF ToSet
<1> QED BY <1>1, <1>4, <1>6, <1>7, <1>8 DEF t

(* Without the request's own number in the backlog nothing is drained.     *)
LEMMA NothingDrained ==
    ASSUME NEW r \in Request, \A b \in backlog : b.cseq # r.cseq
    PROVE  Drained(r) = <<>>
<1>1. Run(r.cseq) = {}
  <2> SUFFICES ASSUME NEW c \in Run(r.cseq) PROVE FALSE
    OBVIOUS
  <2>1. r.cseq \in r.cseq .. c
    BY CSeqAssumption DEF Run, Request
  <2> QED BY <2>1 DEF Run
<1>2. 1 .. Cardinality(Run(r.cseq)) = {}
  BY <1>1, FS_EmptySet
<1> QED BY <1>2 DEF Drained

(* A task made for one request, and what distributing it leaves.           *)
LEMMA OneRequest ==
    ASSUME NEW r \in Request, NEW u
    PROVE  LET t == [requests |-> <<r>>, usage |-> u] IN
           /\ t.requests = <<r>> /\ t.usage = u /\ t.requests \in Seq(Request)
           /\ Head(t.requests) = r /\ Tail(t.requests) = <<>> /\ ToSet(t.requests) = {r}
<1>1. <<r>> \in Seq(Request) /\ Head(<<r>>) = r /\ Tail(<<r>>) = <<>> /\ DOMAIN <<r>> = {1}
  OBVIOUS
<1> QED BY <1>1 DEF ToSet

(* What is underway is the one request of each task.                       *)
LEMMA UnderwayHeads ==
    ASSUME TypeOK, PlaceInv
    PROVE  /\ Underway = {Head(t.requests) : t \in tasks}
           /\ Everywhere \subseteq Request /\ Underway \subseteq Request
           /\ ToSet(handled) \subseteq Request /\ ToSet(arriving) \subseteq Request
<1>1. ASSUME NEW t \in tasks
      PROVE  Head(t.requests) \in Request /\ ToSet(t.requests) = {Head(t.requests)}
  <2> DEFINE r == Head(t.requests)
  <2>1. t.requests \in Seq(Request) /\ t.requests = <<r>>
    BY DEF TypeOK, PlaceInv
  <2>2. DOMAIN t.requests = {1} /\ t.requests[1] = r /\ r \in Request
    BY <2>1
  <2> QED BY <2>2 DEF ToSet
<1>2. Underway = {Head(t.requests) : t \in tasks}
  BY <1>1 DEF Underway
<1>3. \A q \in Seq(Request) : ToSet(q) \subseteq Request
  BY DEF ToSet
<1> QED BY <1>1, <1>2, <1>3 DEF TypeOK, Everywhere, Accepted

-----------------------------------------------------------------------------
LEMMA InitDialog == Init => DialogInv
<1> SUFFICES ASSUME Init PROVE DialogInv
  OBVIOUS
<1> USE CSeqAssumption DEF Init, ServerEntry, ClientEntry, None
<1>1. /\ ToSet(arriving) = {} /\ ToSet(handled) = {}
      /\ IsInjective(arriving) /\ IsInjective(handled)
  BY DEF ToSet, IsInjective
<1>2. Underway = {} /\ Accepted = {} /\ Everywhere = {}
  BY <1>1 DEF Underway, Accepted, Everywhere
<1>3. TypeOK
  BY DEF TypeOK
<1>4. NumberInv /\ AckInv /\ PlaceInv
  BY <1>1, <1>2 DEF NumberInv, AckInv, PlaceInv, Unnumbered
<1>5. ExpectInv /\ NoGap
  BY <1>1, <1>2 DEF ExpectInv, NoGap
<1> QED BY <1>3, <1>4, <1>5 DEF DialogInv

(* A request of the calling dialog has a number of its own.                *)
LEMMA SendRequestInv ==
    ASSUME DialogInv, NEW m \in {"INVITE", "OTHER"}, SendRequest(m)
    PROVE  DialogInv'
<1> DEFINE new == [method |-> m, cseq |-> local_cseq]
<1> USE CSeqAssumption
<1>1. TypeOK /\ NumberInv /\ AckInv /\ PlaceInv /\ ExpectInv /\ NoGap
  BY DEF DialogInv
<1>2. /\ new \in Request /\ new.method = m /\ new.cseq = local_cseq
      /\ \A c : Ack(c) # new
  BY <1>1 DEF SendRequest, CreateRequest, TypeOK, Request, Ack
<1>3. /\ arriving' = Append(arriving, new) /\ local_cseq' = local_cseq + 1 /\ unacked = {}
      /\ UNCHANGED <<ordered, skipped, unacked, next_peer_cseq, base, backlog, listed, usage,
                     tasks, handled, refused>>
  BY DEF SendRequest, CreateRequest, entryVars
<1>4. /\ arriving \in Seq(Request) /\ local_cseq \in C0 .. MaxCSeq /\ local_cseq < MaxCSeq
  BY <1>1 DEF TypeOK, SendRequest, CreateRequest
<1>5. new \notin Everywhere
  BY <1>1, <1>2, <1>4 DEF NumberInv
<1>6. /\ ToSet(arriving') = ToSet(arriving) \cup {new}
      /\ IsInjective(arriving')
  BY <1>1, <1>2, <1>3, <1>4, <1>5, AppendSet DEF PlaceInv, Everywhere
<1>7. /\ Underway' = Underway /\ ToSet(handled') = ToSet(handled) /\ Accepted' = Accepted
      /\ Everywhere' = Everywhere \cup {new}
  BY <1>3, <1>6 DEF Underway, Accepted, Everywhere
<1>8. TypeOK'
  <2>1. arriving' \in Seq(Request) /\ local_cseq' \in C0 .. MaxCSeq
    BY <1>2, <1>3, <1>4
  <2>2. next_peer_cseq' \in {None, C0 + 1} \cup (C0 .. local_cseq')
    BY <1>1, <1>3, <1>4 DEF TypeOK
  <2> QED BY <1>1, <1>3, <2>1, <2>2 DEF TypeOK
<1>9. NumberInv'
  <2>1. \A r \in Everywhere : r \in Request
    BY <1>1, UnderwayHeads
  <2>2. \A n \in skipped : n < local_cseq'
    BY <1>1, <1>3, <1>4 DEF NumberInv, TypeOK
  <2>3. \A r \in Everywhere' : r.method # "ACK" => r.cseq < local_cseq' /\ r.cseq \notin skipped'
    BY <1>1, <1>2, <1>3, <1>4, <1>7, <2>1 DEF NumberInv, Request, TypeOK
  <2>4. \A r, s \in Everywhere' :
          r.method # "ACK" /\ s.method # "ACK" /\ r.cseq = s.cseq => r = s
    <3>1. \A r \in Everywhere : r.method # "ACK" => r.cseq # local_cseq
      BY <1>1, <1>4, <2>1 DEF NumberInv, Request
    <3> QED BY <1>1, <1>2, <1>7, <3>1 DEF NumberInv
  <2> QED BY <1>3, <2>2, <2>3, <2>4 DEF NumberInv
<1>10. AckInv'
  <2>1. \A c \in C0 .. MaxCSeq : Ack(c) \in Everywhere' => Ack(c) \in Everywhere
    BY <1>2, <1>7
  <2>2. unacked' = {} /\ (Unnumbered => Unnumbered')
    BY <1>3 DEF Unnumbered
  <2> QED BY <1>1, <1>3, <1>7, <2>1, <2>2 DEF AckInv
<1>11. PlaceInv'
  BY <1>1, <1>3, <1>5, <1>6, <1>7 DEF PlaceInv, Everywhere
<1>12. ExpectInv'
  BY <1>1, <1>2, <1>3, <1>7 DEF ExpectInv
<1>13. NoGap'
  BY <1>1, <1>3, <1>7 DEF NoGap
<1> QED BY <1>8, <1>9, <1>10, <1>11, <1>12, <1>13 DEF DialogInv

(* create_ack uses up a number, and acknowledges an INVITE that has been   *)
(* handled and not acknowledged before.                                    *)
LEMMA SendAckInv ==
    ASSUME DialogInv, NEW a \in unacked, SendAck(a)
    PROVE  DialogInv'
<1> USE CSeqAssumption
<1>1. TypeOK /\ NumberInv /\ AckInv /\ PlaceInv /\ ExpectInv /\ NoGap
  BY DEF DialogInv
<1>2. /\ Ack(a) \in Request /\ Ack(a).method = "ACK" /\ Ack(a).cseq = a /\ a \in C0 .. MaxCSeq
      /\ \A c : Ack(c) = Ack(a) => c = a
  BY <1>1 DEF TypeOK, Request, Ack
<1>3. /\ arriving' = Append(arriving, Ack(a)) /\ local_cseq' = local_cseq + 1
      /\ skipped' = skipped \cup {local_cseq} /\ unacked' = unacked \ {a}
      /\ UNCHANGED <<ordered, next_peer_cseq, base, backlog, listed, usage, tasks, handled,
                     refused>>
  BY DEF SendAck, entryVars, Ack
<1>4. arriving \in Seq(Request) /\ local_cseq \in C0 .. MaxCSeq /\ local_cseq < MaxCSeq
  BY <1>1 DEF TypeOK, SendAck
<1>5. Ack(a) \notin Everywhere
  BY <1>1 DEF AckInv
<1>6. ToSet(arriving') = ToSet(arriving) \cup {Ack(a)} /\ IsInjective(arriving')
  BY <1>1, <1>2, <1>3, <1>4, <1>5, AppendSet DEF PlaceInv, Everywhere
<1>7. /\ Underway' = Underway /\ ToSet(handled') = ToSet(handled) /\ Accepted' = Accepted
      /\ Everywhere' = Everywhere \cup {Ack(a)}
  BY <1>3, <1>6 DEF Underway, Accepted, Everywhere
<1>8. TypeOK'
  <2>1. arriving' \in Seq(Request) /\ local_cseq' \in C0 .. MaxCSeq
    BY <1>2, <1>3, <1>4
  <2>2. next_peer_cseq' \in {None, C0 + 1} \cup (C0 .. local_cseq')
    BY <1>1, <1>3, <1>4 DEF TypeOK
  <2> QED BY <1>1, <1>3, <1>4, <2>1, <2>2 DEF TypeOK
<1>9. NumberInv'
  <2>1. \A r \in Everywhere : r \in Request
    BY <1>1, UnderwayHeads
  <2>2. \A n \in skipped' : n < local_cseq'
    BY <1>1, <1>3, <1>4 DEF NumberInv, TypeOK
  <2>3. \A r \in Everywhere' : r.method # "ACK" => r.cseq < local_cseq' /\ r.cseq \notin skipped'
    BY <1>1, <1>2, <1>3, <1>4, <1>7, <2>1 DEF NumberInv, Request
  <2> QED BY <1>1, <1>2, <1>7, <2>2, <2>3 DEF NumberInv
<1>10. AckInv'
  <2>1. Unnumbered => Unnumbered'
    BY <1>3 DEF Unnumbered
  <2>2. \A c \in unacked' : Ack(c) \notin Everywhere'
    BY <1>1, <1>2, <1>3, <1>7 DEF AckInv
  <2>3. ASSUME NEW c \in C0 .. MaxCSeq, c \in unacked' \/ Ack(c) \in Everywhere'
        PROVE  Invite(c) \in ToSet(handled)' \/ (c = C0 /\ Unnumbered')
    <3>1. c \in unacked \/ Ack(c) \in Everywhere
      BY <1>2, <1>3, <1>7, <2>3
    <3> QED BY <1>1, <1>7, <2>1, <3>1 DEF AckInv
  <2> QED BY <2>2, <2>3 DEF AckInv
<1>11. PlaceInv'
  BY <1>1, <1>3, <1>5, <1>6, <1>7 DEF PlaceInv, Everywhere
<1>12. ExpectInv'
  <2>1. next_peer_cseq > C0 /\ a < next_peer_cseq
    <3>1. next_peer_cseq > C0
      BY <1>1 DEF ExpectInv
    <3>2. Invite(a) \in ToSet(handled) => Invite(a).cseq = a /\ a < next_peer_cseq
      BY <1>1 DEF ExpectInv, Invite
    <3> QED BY <1>1, <1>2, <3>1, <3>2 DEF AckInv
  <2> QED BY <1>1, <1>2, <1>3, <1>7, <2>1 DEF ExpectInv
<1>13. NoGap'
  BY <1>1, <1>3, <1>7 DEF NoGap
<1> QED BY <1>8, <1>9, <1>10, <1>11, <1>12, <1>13 DEF DialogInv

-----------------------------------------------------------------------------
(* A request that has arrived is nowhere else, and an ACK never asks for   *)
(* the expected number.                                                    *)
LEMMA Received ==
    ASSUME DialogInv, NEW i \in 1 .. Len(arriving), arriving' = RemoveAt(arriving, i)
    PROVE  /\ arriving[i] \in Request /\ arriving[i] \in ToSet(arriving)
           /\ arriving[i] \in Everywhere /\ arriving[i] \notin backlog \cup Accepted
           /\ arriving' \in Seq(Request) /\ IsInjective(arriving')
           /\ ToSet(arriving') = ToSet(arriving) \ {arriving[i]}
           /\ arriving[i].cseq >= Expected(arriving[i]) => arriving[i].method # "ACK"
           /\ arriving[i].cseq >= Expected(arriving[i]) =>
                  \A b \in backlog : b.cseq # arriving[i].cseq
<1> DEFINE r == arriving[i]
<1> USE CSeqAssumption
<1>1. TypeOK /\ NumberInv /\ PlaceInv /\ ExpectInv
  BY DEF DialogInv
<1>2. /\ r \in Request /\ r \in ToSet(arriving) /\ arriving' \in Seq(Request)
      /\ IsInjective(arriving') /\ ToSet(arriving') = ToSet(arriving) \ {r}
  BY <1>1, RemoveSet DEF TypeOK, PlaceInv
<1>3. r \in Everywhere /\ r \notin backlog \cup Accepted
  BY <1>1, <1>2 DEF Everywhere, PlaceInv
<1> HIDE DEF r
<1>4. next_peer_cseq \in Nat /\ r.cseq \in Nat
  BY <1>1, <1>2 DEF TypeOK, Request, None
<1>5. r.cseq >= Expected(r) => r.method # "ACK"
  BY <1>1, <1>3, <1>4 DEF ExpectInv, Expected, None
<1>6. ASSUME r.cseq >= Expected(r), NEW b \in backlog, b.cseq = r.cseq PROVE FALSE
  <2>1. b \in Everywhere /\ b \in Request
    BY <1>1 DEF Everywhere, TypeOK
  <2>2. b.method # "ACK"
    BY <1>1, <1>4, <2>1 DEF ExpectInv, Request
  <2>3. b = r
    BY <1>1, <1>3, <1>5, <1>6, <2>1, <2>2 DEF NumberInv
  <2> QED BY <1>3, <2>3
<1> QED BY <1>2, <1>3, <1>5, <1>6 DEF r

(* A request that has arrived becomes the request of a new task.           *)
LEMMA Spawned ==
    ASSUME DialogInv, NEW i \in 1 .. Len(arriving), arriving' = RemoveAt(arriving, i),
           tasks' = tasks \cup {Task(<<arriving[i]>>)}, backlog' = backlog,
           handled' = handled, refused' = refused
    PROVE  /\ Underway' = Underway \cup {arriving[i]}
           /\ Accepted' = Accepted \cup {arriving[i]}
           /\ Everywhere' = Everywhere /\ ToSet(handled') = ToSet(handled)
           /\ PlaceInv'
           /\ \A t \in tasks' : t.requests \in Seq(Request) /\ t.usage \in BOOLEAN
<1> DEFINE r == arriving[i]  new == Task(<<r>>)
<1>1. TypeOK /\ PlaceInv
  BY DEF DialogInv
<1>2. /\ r \in Request /\ r \in ToSet(arriving) /\ r \notin backlog \cup Accepted
      /\ IsInjective(arriving') /\ ToSet(arriving') = ToSet(arriving) \ {r}
  BY Received
<1> HIDE DEF r
<1>3. /\ new.requests = <<r>> /\ new.usage = usage /\ new.requests \in Seq(Request)
      /\ Head(new.requests) = r /\ ToSet(new.requests) = {r}
      /\ new = [requests |-> <<Head(new.requests)>>, usage |-> new.usage]
  BY <1>2, OneRequest DEF Task
<1>4. tasks' = tasks \cup {new}
  BY DEF r
<1> HIDE DEF new
<1>5. Underway' = Underway \cup {r}
  BY <1>3, <1>4 DEF Underway
<1>6. ToSet(handled') = ToSet(handled)
  OBVIOUS
<1>7. Accepted' = Accepted \cup {r} /\ Everywhere' = Everywhere
  BY <1>2, <1>5, <1>6 DEF Accepted, Everywhere
<1>8. PlaceInv'
  <2>1. \A t \in tasks : Head(t.requests) # r
    BY <1>1, <1>2, UnderwayHeads DEF Accepted
  <2>2. r \notin ToSet(handled)
    BY <1>2 DEF Accepted
  <2>3. IsInjective(handled')
    BY <1>1 DEF PlaceInv
  <2> QED BY <1>1, <1>2, <1>3, <1>4, <1>6, <1>7, <2>1, <2>2, <2>3 DEF PlaceInv
<1>9. \A t \in tasks' : t.requests \in Seq(Request) /\ t.usage \in BOOLEAN
  BY <1>1, <1>3, <1>4 DEF TypeOK
<1> QED BY <1>5, <1>6, <1>7, <1>8, <1>9 DEF r

LEMMA ReceiveLessInv ==
    ASSUME DialogInv, NEW i \in 1 .. Len(arriving), ReceiveLess(i)
    PROVE  DialogInv'
<1> DEFINE r == arriving[i]
<1> USE CSeqAssumption
<1>1. TypeOK /\ NumberInv /\ AckInv /\ PlaceInv /\ ExpectInv /\ NoGap
  BY DEF DialogInv
<1>2. /\ arriving' = RemoveAt(arriving, i) /\ tasks' = tasks \cup {Task(<<arriving[i]>>)}
      /\ UNCHANGED <<ordered, local_cseq, skipped, unacked, next_peer_cseq, base, backlog,
                     listed, usage, handled, refused>>
  BY DEF ReceiveLess, peerVars, entryVars
<1>3. /\ Underway' = Underway \cup {r} /\ Accepted' = Accepted \cup {r}
      /\ Everywhere' = Everywhere /\ ToSet(handled') = ToSet(handled) /\ PlaceInv'
      /\ \A t \in tasks' : t.requests \in Seq(Request) /\ t.usage \in BOOLEAN
  BY <1>2, Spawned
<1>4. r \in Request /\ arriving' \in Seq(Request)
  BY <1>2, Received
<1>5. next_peer_cseq # None /\ r.cseq < next_peer_cseq
  BY <1>1, <1>4 DEF ReceiveLess, Expected, Request
<1> HIDE DEF r
<1>6. TypeOK'
  BY <1>1, <1>2, <1>3, <1>4 DEF TypeOK
<1>7. NumberInv' /\ AckInv'
  BY <1>1, <1>2, <1>3 DEF NumberInv, AckInv, Unnumbered
<1>8. ExpectInv'
  BY <1>1, <1>2, <1>3, <1>5 DEF ExpectInv
<1>9. NoGap'
  BY <1>1, <1>2, <1>3 DEF NoGap
<1> QED BY <1>3, <1>6, <1>7, <1>8, <1>9 DEF DialogInv

(* The request with the expected number drains nothing: its own number is  *)
(* where the search in the backlog begins, and is never there.             *)
LEMMA EqualDrainsNothing ==
    ASSUME DialogInv, NEW i \in 1 .. Len(arriving), ReceiveEqual(i)
    PROVE  /\ Drained(arriving[i]) = <<>>
           /\ tasks' = tasks \cup {Task(<<arriving[i]>>)} /\ backlog' = backlog
           /\ next_peer_cseq' = arriving[i].cseq + 1
<1> DEFINE r == arriving[i]
<1>1. r \in Request /\ r.cseq \in Nat
  BY Received, CSeqAssumption DEF ReceiveEqual, Request
<1>2. Drained(r) = <<>>
  BY <1>1, Received, NothingDrained DEF ReceiveEqual
<1>3. <<r>> \o <<>> = <<r>> /\ ToSet(<<>>) = {} /\ Last(<<r>>) = r
  BY <1>1 DEF ToSet, Last
<1> QED BY <1>2, <1>3 DEF ReceiveEqual

LEMMA ReceiveEqualInv ==
    ASSUME DialogInv, NEW i \in 1 .. Len(arriving), ReceiveEqual(i)
    PROVE  DialogInv'
<1> DEFINE r == arriving[i]
<1> USE CSeqAssumption
<1>1. TypeOK /\ NumberInv /\ AckInv /\ PlaceInv /\ ExpectInv /\ NoGap
  BY DEF DialogInv
<1>2. /\ arriving' = RemoveAt(arriving, i) /\ tasks' = tasks \cup {Task(<<arriving[i]>>)}
      /\ next_peer_cseq' = r.cseq + 1
      /\ base' = IF base = None THEN r.cseq ELSE base
      /\ UNCHANGED <<ordered, local_cseq, skipped, unacked, backlog, listed, usage, handled,
                     refused>>
  BY EqualDrainsNothing DEF ReceiveEqual, peerVars
<1>3. /\ Underway' = Underway \cup {r} /\ Accepted' = Accepted \cup {r}
      /\ Everywhere' = Everywhere /\ ToSet(handled') = ToSet(handled) /\ PlaceInv'
      /\ \A t \in tasks' : t.requests \in Seq(Request) /\ t.usage \in BOOLEAN
  BY <1>2, Spawned
<1>4. r.cseq = Expected(r)
  BY DEF ReceiveEqual
<1>5. /\ r \in Request /\ arriving' \in Seq(Request) /\ r \in Everywhere
      /\ r.cseq \in C0 .. MaxCSeq
  BY <1>2, Received DEF Request
<1>6. r.method # "ACK" /\ \A b \in backlog : b.cseq # r.cseq
  BY <1>2, <1>4, <1>5, Received
<1>7. next_peer_cseq = None \/ next_peer_cseq = r.cseq
  BY <1>4 DEF Expected
<1>8. r.cseq < local_cseq /\ next_peer_cseq <= r.cseq
  BY <1>1, <1>5, <1>6, <1>7 DEF NumberInv, None
<1> HIDE DEF r
<1>9. TypeOK'
  <2>1. next_peer_cseq' \in C0 .. local_cseq' /\ base' \in {None} \cup (C0 .. MaxCSeq)
    BY <1>1, <1>2, <1>5, <1>8 DEF TypeOK
  <2> QED BY <1>1, <1>2, <1>3, <1>5, <2>1 DEF TypeOK
<1>10. NumberInv' /\ AckInv'
  BY <1>1, <1>2, <1>3 DEF NumberInv, AckInv, Unnumbered
<1>11. ExpectInv'
  <2>1. \A q \in Everywhere \cup Underway \cup ToSet(handled) : q \in Request /\ q.cseq \in Nat
    BY <1>1, UnderwayHeads DEF Request
  <2>2. \A q \in Everywhere \cup Underway \cup ToSet(handled) :
           q.cseq < next_peer_cseq => q.cseq < r.cseq + 1
    BY <1>5, <1>7, <1>8, <2>1 DEF None
  <2>3. next_peer_cseq' # None /\ (base' # None)
    BY <1>1, <1>2, <1>5 DEF None
  <2>4. \A b \in backlog : b \in Everywhere /\ b.cseq >= r.cseq + 1
    BY <1>1, <1>5, <1>6, <1>7, <2>1 DEF ExpectInv, Everywhere
  <2>5. C0 < r.cseq + 1
    BY <1>5
  <2> QED BY <1>1, <1>2, <1>3, <1>5, <2>1, <2>2, <2>3, <2>4, <2>5 DEF ExpectInv
<1>12. NoGap'
  <2> SUFFICES ASSUME NEW n \in base' .. r.cseq
               PROVE  \E q \in Accepted' : q.cseq = n /\ q.method # "ACK"
    BY <1>2, <1>5 DEF NoGap
  <2>1. CASE n = r.cseq
    BY <1>3, <1>6, <2>1
  <2>2. CASE n # r.cseq
    <3>1. base # None /\ next_peer_cseq # None
      BY <1>1, <1>2, <1>5, <2>2 DEF ExpectInv
    <3>2. n \in base .. next_peer_cseq - 1
      BY <1>1, <1>2, <1>5, <1>7, <2>2, <3>1 DEF TypeOK
    <3> QED BY <1>1, <1>3, <3>2 DEF NoGap
  <2> QED BY <2>1, <2>2
<1> QED BY <1>3, <1>9, <1>10, <1>11, <1>12 DEF DialogInv

LEMMA ReceiveGreaterInv ==
    ASSUME DialogInv, NEW i \in 1 .. Len(arriving), ReceiveGreater(i)
    PROVE  DialogInv' /\ backlog' = backlog \cup {arriving[i]}
<1> DEFINE r == arriving[i]
<1> USE CSeqAssumption
<1>1. TypeOK /\ NumberInv /\ AckInv /\ PlaceInv /\ ExpectInv /\ NoGap
  BY DEF DialogInv
<1>2. /\ arriving' = RemoveAt(arriving, i)
      /\ backlog' = {b \in backlog : b.cseq # r.cseq} \cup {r}
      /\ UNCHANGED <<ordered, local_cseq, skipped, unacked, next_peer_cseq, base, listed, usage,
                     tasks, handled, refused>>
  BY DEF ReceiveGreater, peerVars
<1>3. r.cseq > Expected(r)
  BY DEF ReceiveGreater
<1>4. /\ r \in Request /\ arriving' \in Seq(Request) /\ r \in ToSet(arriving)
      /\ r \notin backlog \cup Accepted /\ r.cseq \in C0 .. MaxCSeq
      /\ IsInjective(arriving') /\ ToSet(arriving') = ToSet(arriving) \ {r}
  BY <1>2, Received DEF Request
<1>5. next_peer_cseq # None /\ next_peer_cseq \in Nat /\ r.cseq > next_peer_cseq
  BY <1>1, <1>3, <1>4 DEF Expected, TypeOK
<1>6. \A b \in backlog : b.cseq # r.cseq
  <2>1. r.cseq >= Expected(r)
    BY <1>3, <1>4, <1>5 DEF Expected
  <2> QED BY <1>2, <2>1, Received
<1>7. backlog' = backlog \cup {r}
  BY <1>2, <1>6
<1> HIDE DEF r
<1>8. /\ Underway' = Underway /\ ToSet(handled') = ToSet(handled) /\ Accepted' = Accepted
      /\ Everywhere' = Everywhere
  BY <1>2, <1>4, <1>7 DEF Underway, Accepted, Everywhere
<1>9. TypeOK'
  BY <1>1, <1>2, <1>4, <1>7 DEF TypeOK
<1>10. NumberInv' /\ AckInv'
  BY <1>1, <1>2, <1>8 DEF NumberInv, AckInv, Unnumbered
<1>11. PlaceInv'
  BY <1>1, <1>2, <1>4, <1>7, <1>8 DEF PlaceInv
<1>12. ExpectInv'
  BY <1>1, <1>2, <1>4, <1>5, <1>7, <1>8 DEF ExpectInv
<1>13. NoGap'
  BY <1>1, <1>2, <1>8 DEF NoGap
<1> QED BY <1>7, <1>9, <1>10, <1>11, <1>12, <1>13 DEF DialogInv, r

LEMMA ReceiveUnlistedInv ==
    ASSUME DialogInv, NEW i \in 1 .. Len(arriving), ReceiveUnlisted(i)
    PROVE  DialogInv'
<1> DEFINE r == arriving[i]
<1>1. TypeOK /\ NumberInv /\ AckInv /\ PlaceInv /\ ExpectInv /\ NoGap
  BY DEF DialogInv
<1>2. /\ arriving' = RemoveAt(arriving, i) /\ refused' = refused \cup {r}
      /\ UNCHANGED <<ordered, local_cseq, skipped, unacked, next_peer_cseq, base, backlog,
                     listed, usage, tasks, handled>>
  BY DEF ReceiveUnlisted, peerVars, entryVars
<1>3. /\ r \in Request /\ arriving' \in Seq(Request) /\ r \in ToSet(arriving)
      /\ r \notin backlog \cup Accepted
      /\ IsInjective(arriving') /\ ToSet(arriving') = ToSet(arriving) \ {r}
  BY <1>2, Received
<1> HIDE DEF r
<1>4. /\ Underway' = Underway /\ ToSet(handled') = ToSet(handled)
      /\ Accepted' = Accepted \cup {r} /\ Everywhere' = Everywhere
  BY <1>2, <1>3 DEF Underway, Accepted, Everywhere
<1>5. TypeOK'
  BY <1>1, <1>2, <1>3 DEF TypeOK
<1>6. NumberInv' /\ AckInv'
  BY <1>1, <1>2, <1>4 DEF NumberInv, AckInv, Unnumbered
<1>7. PlaceInv'
  BY <1>1, <1>2, <1>3, <1>4 DEF PlaceInv
<1>8. ExpectInv' /\ NoGap'
  BY <1>1, <1>2, <1>4 DEF ExpectInv, NoGap
<1> QED BY <1>5, <1>6, <1>7, <1>8 DEF DialogInv

(* The one request of a task leaves it for a usage, or is refused.         *)
LEMMA DistributeInv ==
    ASSUME DialogInv, NEW t \in tasks, Distribute(t)
    PROVE  DialogInv'
<1> DEFINE r == Head(t.requests)
<1> USE CSeqAssumption
<1>1. TypeOK /\ NumberInv /\ AckInv /\ PlaceInv /\ ExpectInv /\ NoGap
  BY DEF DialogInv
<1>2. r \in Underway /\ r \in Request /\ r \in Everywhere /\ r \notin ToSet(handled)
  BY <1>1, UnderwayHeads DEF PlaceInv, Everywhere, Accepted
<1>3. tasks' = tasks \ {t}
  <2>1. t = [requests |-> <<r>>, usage |-> t.usage]
    BY <1>1 DEF PlaceInv
  <2>2. [t EXCEPT !.requests = Tail(@)].requests = Tail(t.requests)
    BY <2>1
  <2>3. Tail(t.requests) = <<>>
    <3>1. t.requests = <<r>>
      BY <2>1
    <3> HIDE DEF r
    <3> QED BY <3>1
  <2> QED BY <2>2, <2>3 DEF Distribute
<1>4. /\ \/ /\ handled' = Append(handled, r) /\ refused' = refused
            /\ unacked' = IF r.method = "INVITE" THEN unacked \cup {r.cseq} ELSE unacked
         \/ handled' = handled /\ refused' = refused \cup {r} /\ unacked' = unacked
      /\ UNCHANGED <<ordered, local_cseq, skipped, arriving, next_peer_cseq, base, backlog,
                     listed, usage>>
  BY DEF Distribute, entryVars
<1>5. \A u \in tasks' : u \in tasks /\ Head(u.requests) # r
  BY <1>1, <1>3 DEF PlaceInv
<1>6. Underway' = Underway \ {r}
  <2>1. Underway = {Head(u.requests) : u \in tasks}
    BY <1>1, UnderwayHeads
  <2>2. \A u \in tasks : ToSet(u.requests) = {Head(u.requests)}
    <3> SUFFICES ASSUME NEW u \in tasks PROVE ToSet(u.requests) = {Head(u.requests)}
      OBVIOUS
    <3>1. u = [requests |-> <<Head(u.requests)>>, usage |-> u.usage]
      BY <1>1 DEF PlaceInv
    <3>2. Head(u.requests) \in Request
      BY <1>1, <2>1, UnderwayHeads
    <3> QED BY <3>1, <3>2, OneRequest
  <2>3. Underway' = {Head(u.requests) : u \in tasks'}
    BY <1>5, <2>2 DEF Underway
  <2> QED BY <1>3, <1>5, <2>1, <2>3
<1> HIDE DEF r
<1>7. /\ handled' \in Seq(Request) /\ IsInjective(handled')
      /\ ToSet(handled') = ToSet(handled) \/ ToSet(handled') = ToSet(handled) \cup {r}
      /\ handled' # handled => ToSet(handled') = ToSet(handled) \cup {r}
      /\ handled' = Append(handled, r) => ToSet(handled') = ToSet(handled) \cup {r}
  <2>1. handled \in Seq(Request) /\ IsInjective(handled)
    BY <1>1 DEF TypeOK, PlaceInv
  <2>2. /\ Append(handled, r) \in Seq(Request) /\ IsInjective(Append(handled, r))
        /\ ToSet(Append(handled, r)) = ToSet(handled) \cup {r}
    BY <1>2, <2>1, AppendSet
  <2> QED BY <1>4, <2>1, <2>2
<1>8. Accepted' = Accepted /\ Everywhere' = Everywhere
  <2>1. ToSet(handled') \cup refused' = ToSet(handled) \cup refused \cup {r}
    BY <1>4, <1>7
  <2>2. r \in Accepted
    BY <1>2 DEF Accepted
  <2>3. Accepted' = Accepted
    BY <1>6, <2>1, <2>2 DEF Accepted
  <2> QED BY <1>4, <2>3 DEF Everywhere
<1>9. TypeOK'
  BY <1>1, <1>2, <1>4, <1>5, <1>7 DEF TypeOK, Request
<1>10. NumberInv'
  BY <1>1, <1>4, <1>8 DEF NumberInv
<1>11. AckInv'
  <2>1. ToSet(handled) \subseteq ToSet(handled')
    BY <1>7
  <2>2. CASE unacked' = unacked
    BY <1>1, <1>4, <1>8, <2>1, <2>2 DEF AckInv, Unnumbered
  <2>3. CASE r.method = "INVITE" /\ unacked' = unacked \cup {r.cseq} /\ r \in ToSet(handled')
    <3>1. r = Invite(r.cseq)
      BY <1>2, <2>3 DEF Request, Invite
    <3>2. r.cseq < local_cseq /\ r.cseq \notin skipped /\ r.cseq \in C0 .. MaxCSeq
      BY <1>1, <1>2, <2>3 DEF NumberInv, Request
    <3>3. local_cseq # C0 /\ (Unnumbered => C0 \in skipped /\ Unnumbered')
      BY <1>1, <1>4, <3>2 DEF Unnumbered, TypeOK
    <3>4. Ack(r.cseq) \notin Everywhere
      BY <1>1, <1>2, <3>1, <3>2, <3>3 DEF AckInv
    <3> QED BY <1>1, <1>4, <1>8, <2>1, <2>3, <3>1, <3>3, <3>4 DEF AckInv
  <2> QED BY <1>4, <1>7, <2>2, <2>3
<1>12. PlaceInv'
  BY <1>1, <1>4, <1>5, <1>7, <1>8 DEF PlaceInv
<1>13. ExpectInv'
  <2>1. r.cseq < next_peer_cseq /\ next_peer_cseq # None /\ next_peer_cseq > C0
    BY <1>1, <1>2 DEF ExpectInv, Request, TypeOK
  <2> QED BY <1>1, <1>4, <1>6, <1>7, <1>8, <2>1 DEF ExpectInv
<1>14. NoGap'
  BY <1>1, <1>4, <1>8 DEF NoGap
<1> QED BY <1>9, <1>10, <1>11, <1>12, <1>13, <1>14 DEF DialogInv

(* The end of the session takes requests away, if anything.                *)
LEMMA DropInv ==
    ASSUME DialogInv, DropUsage \/ DropDialog \/ UNCHANGED vars
    PROVE  DialogInv'
<1>1. TypeOK /\ NumberInv /\ AckInv /\ PlaceInv /\ ExpectInv /\ NoGap
  BY DEF DialogInv
<1>2. /\ UNCHANGED <<ordered, local_cseq, skipped, unacked, arriving, next_peer_cseq, base,
                     tasks, handled, refused>>
      /\ backlog' \subseteq backlog /\ listed' \in BOOLEAN /\ usage' \in BOOLEAN
  BY <1>1 DEF DropUsage, DropDialog, vars, peerVars, entryVars, TypeOK
<1>3. /\ Underway' = Underway /\ ToSet(handled') = ToSet(handled) /\ Accepted' = Accepted
      /\ ToSet(arriving') = ToSet(arriving) /\ Everywhere' \subseteq Everywhere
  BY <1>2 DEF Underway, Accepted, Everywhere
<1>4. TypeOK'
  BY <1>1, <1>2 DEF TypeOK
<1>5. NumberInv' /\ AckInv'
  BY <1>1, <1>2, <1>3 DEF NumberInv, AckInv, Unnumbered
<1>6. PlaceInv'
  BY <1>1, <1>2, <1>3 DEF PlaceInv
<1>7. ExpectInv' /\ NoGap'
  BY <1>1, <1>2, <1>3 DEF ExpectInv, NoGap
<1> QED BY <1>4, <1>5, <1>6, <1>7 DEF DialogInv

LEMMA NextDialog == DialogInv /\ [Next]_vars => DialogInv'
<1> SUFFICES ASSUME DialogInv, [Next]_vars PROVE DialogInv'
  OBVIOUS
<1>1. CASE Peer
  BY <1>1, SendRequestInv, SendAckInv DEF Peer
<1>2. CASE Layer
  BY <1>2, ReceiveLessInv, ReceiveEqualInv, ReceiveGreaterInv, ReceiveUnlistedInv, DistributeInv
  DEF Layer
<1>3. CASE DropUsage \/ DropDialog \/ UNCHANGED vars
  BY <1>3, DropInv
<1> QED BY <1>1, <1>2, <1>3 DEF Next

-----------------------------------------------------------------------------
(* Every request of a dialog has a number of its own and is in one place,  *)
(* and the layer's expectation separates what it has let through from what *)
(* it keeps.                                                               *)
THEOREM DialogInvariant == Spec => []DialogInv
<1> QED BY InitDialog, NextDialog, PTL DEF Spec

(* However the requests of a dialog overtake each other, none is skipped   *)
(* and none is let through twice, whatever their number.                   *)
THEOREM RequestsInSequence == Spec => []InSequence
<1>1. DialogInv => InSequence
  <2> SUFFICES ASSUME DialogInv PROVE InSequence
    OBVIOUS
  <2>1. TypeOK /\ PlaceInv /\ NoGap
    BY DEF DialogInv
  <2>2. ToSet(handled) \cap Underway = {}
    BY <2>1, UnderwayHeads DEF PlaceInv
  <2> QED BY <2>1, <2>2 DEF InSequence, AcceptedOnce, PlaceInv
<1> QED BY <1>1, DialogInvariant, PTL

(* A request that DialogLayer::receive has put into the backlog is never   *)
(* taken out of it: the search begins at the number of the request just    *)
(* received, and only the end of the dialog frees what is kept.            *)
BacklogStays == [][backlog \subseteq backlog' \/ ~listed']_vars

THEOREM BacklogIsNeverDrained == Spec => BacklogStays
<1>1. DialogInv /\ [Next]_vars => [backlog \subseteq backlog' \/ ~listed']_vars
  <2> SUFFICES ASSUME DialogInv, Next PROVE backlog \subseteq backlog' \/ ~listed'
    OBVIOUS
  <2>1. CASE Peer
    BY <2>1 DEF Peer, SendRequest, CreateRequest, SendAck, entryVars
  <2>2. ASSUME NEW i \in 1 .. Len(arriving),
               ReceiveLess(i) \/ ReceiveEqual(i) \/ ReceiveGreater(i) \/ ReceiveUnlisted(i)
        PROVE  backlog \subseteq backlog'
    BY <2>2, EqualDrainsNothing, ReceiveGreaterInv DEF ReceiveLess, ReceiveUnlisted, entryVars
  <2>3. ASSUME NEW t \in tasks, Distribute(t) PROVE backlog' = backlog
    BY <2>3 DEF Distribute, entryVars
  <2>4. CASE DropUsage \/ DropDialog
    BY <2>4 DEF DropUsage, DropDialog
  <2> QED BY <2>1, <2>2, <2>3, <2>4 DEF Next, Layer
<1> QED BY <1>1, DialogInvariant, PTL DEF Spec, BacklogStays
=============================================================================
