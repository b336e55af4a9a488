----------------------- MODULE StreamTransportProofs -----------------------
(***************************************************************************)
(* Proofs about a managed connection and the decoder on it: the connection *)
(* with its decoder is a managed connection, and, for any messages whose   *)
(* Content-Length ends the head and any way the stream is cut, the decoder *)
(* yields what was sent.                                                   *)
(***************************************************************************)
EXTENDS StreamTransport, SequenceTheorems, FiniteSetTheorems, WellFoundedInduction, TLAPS

-----------------------------------------------------------------------------
(* A connection, for any number of handles, any frames and any idle time.  *)

(* The parts depend on each other: set_used finds the entry because no     *)
(* entry is missing while the task runs, and a handle taken from an unused *)
(* entry is noticed because its notifier is the only one.                  *)
TransportInv == TypeOK /\ NotifierKept /\ EntryWhileRunning

(* An empty stream, and one with a single keep-alive, are within bounds.   *)
LEMMA ShortFrames ==
    /\ <<>> \in Seq(Items) /\ Len(<<>>) <= MaxFrames
    /\ <<"keepalive">> \in Seq(Items) /\ Len(<<"keepalive">>) <= MaxFrames
<1>1. MaxFrames \in Nat /\ 1 <= MaxFrames
  BY TransportAssumption
<1>2. "keepalive" \in Items
  BY DEF Items
<1> QED BY <1>1, <1>2

LEMMA InitTransport == Init => TransportInv
<1> SUFFICES ASSUME Init PROVE TransportInv
  OBVIOUS
<1>1. refs \in 0 .. MaxRefs /\ idle \in 0 .. Idle
  BY TransportAssumption DEF Init, Created, Accepted
<1>2. TypeOK
  BY <1>1, ShortFrames DEF Init, Created, Accepted, TypeOK
<1>3. NotifierKept /\ EntryWhileRunning
  BY DEF Init, Created, Accepted, NotifierKept, EntryWhileRunning, Running
<1> QED BY <1>2, <1>3 DEF TransportInv

(* try_get keeps the books, whether or not its handle outlives the call.   *)
LEMMA TryGetInv ==
    ASSUME TransportInv, NEW kept \in {0, 1}, refs + kept <= MaxRefs,
           TryGet(kept), item' \in Items \cup {NoItem},
           UNCHANGED <<outgoing, task, idle, frames, open>>
    PROVE  TransportInv'
<1>1. TypeOK'
  <2>1. refs' \in 0 .. MaxRefs
    BY TransportAssumption DEF TransportInv, TypeOK, TryGet
  <2>2. offered' \in BOOLEAN /\ entry' \in {"Used", "Unused", "None"}
    BY DEF TryGet
  <2> QED BY <2>1, <2>2 DEF TransportInv, TypeOK
<1>2. NotifierKept'
  BY DEF TransportInv, TypeOK, NotifierKept, EntryWhileRunning, Running, TryGet, Gettable
<1>3. EntryWhileRunning'
  BY DEF TransportInv, EntryWhileRunning, Running, TryGet, Gettable
<1> QED BY <1>1, <1>2, <1>3 DEF TransportInv

(* However the task ends, its entry ends with it.                          *)
LEMMA EndInv ==
    ASSUME TransportInv, NEW how \in {"Returned", "Panicked"}, End(how)
    PROVE  TransportInv'
<1>1. TypeOK'
  BY ShortFrames DEF TransportInv, TypeOK, End
<1>2. NotifierKept' /\ EntryWhileRunning'
  BY DEF NotifierKept, EntryWhileRunning, Running, End
<1> QED BY <1>1, <1>2 DEF TransportInv

LEMMA NextTransport == TransportInv /\ [Next]_vars => TransportInv'
<1> SUFFICES ASSUME TransportInv, [Next]_vars
             PROVE  TransportInv'
  OBVIOUS
<1> USE TransportAssumption
<1>1. CASE SelectItem
  BY <1>1 DEF SelectItem, TransportInv, TypeOK, NotifierKept, EntryWhileRunning, Running
<1>2. CASE SelectDropped
  <2>1. idle' \in 0 .. Idle
    BY <1>2 DEF SelectDropped
  <2>2. TypeOK'
    BY <1>2, <2>1 DEF SelectDropped, TransportInv, TypeOK
  <2>3. NotifierKept' /\ EntryWhileRunning'
    BY <1>2 DEF SelectDropped, TransportInv, TypeOK, NotifierKept, EntryWhileRunning, Running
  <2> QED BY <2>2, <2>3 DEF TransportInv
<1>3. CASE SelectNotifier
  BY <1>3 DEF SelectNotifier, TransportInv, TypeOK, NotifierKept, EntryWhileRunning, Running
<1>4. CASE SelectTimeout
  BY <1>4, EndInv DEF SelectTimeout
<1>5. CASE UseForMessage
  BY <1>5, TryGetInv DEF UseForMessage, TransportInv, TypeOK
<1>6. CASE UseForKeepAlive
  BY <1>6, TryGetInv DEF UseForKeepAlive, TransportInv, TypeOK
<1>7. CASE UseForClosed
  BY <1>7, EndInv DEF UseForClosed
<1>8. CASE SetUsedFails
  BY <1>8, EndInv DEF SetUsedFails
<1>9. CASE FindIdling
  BY <1>9, TryGetInv DEF FindIdling, TransportInv, TypeOK
<1>10. CASE Clone
  BY <1>10 DEF Clone, TransportInv, TypeOK, NotifierKept, EntryWhileRunning, Running
<1>11. CASE DropHandle
  BY <1>11 DEF DropHandle, TransportInv, TypeOK, NotifierKept, EntryWhileRunning, Running
<1>12. CASE \E i \in Items : Arrive(i)
  BY <1>12 DEF Arrive, TransportInv, TypeOK, NotifierKept, EntryWhileRunning, Running
<1>13. CASE Tick
  <2>1. idle' \in 0 .. Idle
    BY <1>13 DEF Tick, Ready, TransportInv, TypeOK
  <2>2. TypeOK'
    BY <1>13, <2>1, ShortFrames DEF Tick, TransportInv, TypeOK
  <2>3. NotifierKept' /\ EntryWhileRunning'
    BY <1>13 DEF Tick, TransportInv, NotifierKept, EntryWhileRunning, Running
  <2> QED BY <2>2, <2>3 DEF TransportInv
<1>14. CASE UNCHANGED vars
  BY <1>14 DEF vars, TransportInv, TypeOK, NotifierKept, EntryWhileRunning, Running
<1> QED
  BY <1>1, <1>2, <1>3, <1>4, <1>5, <1>6, <1>7, <1>8, <1>9, <1>10, <1>11, <1>12, <1>13, <1>14
  DEF Next, Task, Stack, Peer

(* The books of a connection are right in every state.                     *)
THEOREM TransportInvariant == Spec => []TransportInv
<1>1. Init => TransportInv
  BY InitTransport
<1>2. TransportInv /\ [Next]_vars => TransportInv'
  BY NextTransport
<1> QED BY <1>1, <1>2, PTL DEF Spec

(* The end of the last handle of a connection is always noticed by its     *)
(* receive_task: the DropNotifier is never lost and never doubled.         *)
THEOREM NotifierIsKept == Spec => []NotifierKept
<1>1. TransportInv => NotifierKept
  BY DEF TransportInv
<1> QED BY <1>1, TransportInvariant, PTL

(* The entry of a connection is in the map exactly while receive_task      *)
(* runs, so that neither set_used nor set_unused misses it.                *)
THEOREM EntryIsThere == Spec => []EntryWhileRunning
<1>1. TransportInv => EntryWhileRunning
  BY DEF TransportInv
<1> QED BY <1>1, TransportInvariant, PTL

-----------------------------------------------------------------------------
(* The connection with its decoder.                                        *)

(* The messages decode can frame: of several lines, the one before the     *)
(* body has its length.                                                    *)
LengthIsLast ==
    \A l \in Layouts :
        /\ l.head \in Seq({"line", "len", "bad"}) /\ l.head # <<>> /\ l.body \in Nat
        /\ l.body > 0 => l.head[Len(l.head)] = "len"

Unit == [kind : {"line", "len", "bad", "body", "crlf"}, msg : Nat, len : Nat, last : BOOLEAN]

(* What has been sent and not been yielded, and where in it the next       *)
(* message would have to be.                                               *)
Pending == src \o wire
Due == Len(got) + 1

(* A message is a head of h lines, each of which knows the length of the   *)
(* body, and the body.                                                     *)
Shape(m, n, h) ==
    /\ m \in Seq(Unit) /\ h \in 1 .. Len(m)
    /\ \A j \in 1 .. Len(m) : m[j].msg = n /\ m[j].kind # "crlf" /\ (m[j].last <=> j = h)
    /\ \A j \in 1 .. h : m[j].len = Len(m) - h
    /\ \A j \in h + 1 .. Len(m) : m[j].kind # "len"
    /\ Len(m) > h => m[h].kind = "len"

(* The messages of s from the d-th on are in P, the n-th from at[n] on, in *)
(* their order, and what is not of a message is a keep-alive.              *)
Parses(at, d, s, P) ==
    /\ at \in [d .. Len(s) -> 1 .. Len(P)]
    /\ \A n \in d .. Len(s) : at[n] + Len(s[n]) - 1 <= Len(P)
    /\ \A m, n \in d .. Len(s) : m < n => at[m] + Len(s[m]) <= at[n]
    /\ \A n \in d .. Len(s) : \A j \in 1 .. Len(s[n]) : P[at[n] + j - 1] = s[n][j]
    /\ \A p \in 1 .. Len(P) :
          P[p] = Crlf \/ \E n \in d .. Len(s) : p \in at[n] .. at[n] + Len(s[n]) - 1

(* The d-th message is not complete in the first k units.                  *)
Beyond(at, d, s, k) == d <= Len(s) => at[d] + Len(s[d]) - 1 > k

StreamTypes ==
    /\ sent \in Seq(Seq(Unit)) /\ got \in Seq(Seq(Unit))
    /\ wire \in Seq(Unit) /\ src \in Seq(Unit)
    /\ progress \in Nat

(* What is yielded was sent.                                               *)
Yielded ==
    /\ Len(got) <= Len(sent) /\ \A i \in 1 .. Len(got) : got[i] = sent[i]
    /\ \A n \in 1 .. Len(sent) : \E h \in 1 .. Len(sent[n]) : Shape(sent[n], n, h)

(* The lines head_progress skips begin a message and do not end its head.  *)
Progressing ==
    /\ progress <= Len(src)
    /\ progress > 0 => src[1].kind # "crlf" /\ \A p \in 1 .. progress : ~src[p].last

DecoderInv ==
    /\ StreamTypes /\ Yielded
    /\ open => /\ Progressing
               /\ \E at \in [Due .. Len(sent) -> 1 .. Len(Pending)] :
                     /\ Parses(at, Due, sent, Pending)
                     /\ ~readable => Beyond(at, Due, sent, Len(src))

-----------------------------------------------------------------------------
(* The connection of StreamTransport is one of ManagedTransport: what the  *)
(* decoder yields arrives, and its other steps are none of the connection. *)
Managed == Init /\ [][Next]_vars

LEMMA StreamStep == [StreamNext]_all => [Next]_vars
<1> SUFFICES ASSUME [StreamNext]_all PROVE [Next]_vars
  OBVIOUS
<1>1. CASE (Task \/ Stack) /\ UNCHANGED stream
  BY <1>1 DEF Next
<1>2. CASE Pass
  BY <1>2 DEF Pass, Next
<1>3. CASE Remote
  BY <1>3 DEF Remote, Send, SendKeepAlive
<1>4. CASE Framed
  <2>1. CASE ReadEnd \/ DecodeKeepAlive \/ DecodeTooLarge \/ DecodeMessage
    <3>1. Arrive("closed") \/ Arrive("keepalive") \/ Arrive("message")
      BY <2>1 DEF ReadEnd, DecodeKeepAlive, DecodeTooLarge, DecodeMessage
    <3> QED BY <3>1 DEF Next, Peer, Items
  <2>2. CASE DecodeIncomplete \/ \E n \in 1 .. Len(wire) : Read(n)
    BY <2>2 DEF DecodeIncomplete, Read
  <2> QED BY <1>4, <2>1, <2>2 DEF Framed
<1>5. CASE UNCHANGED all
  BY <1>5 DEF all
<1> QED BY <1>1, <1>2, <1>3, <1>4, <1>5 DEF StreamNext

(* The initial states and every step of the detailed specification are     *)
(* those of the abstract one.                                              *)
THEOREM StreamIsManaged == StreamSpec => Managed
<1>1. StreamInit => Init
  BY DEF StreamInit
<1> QED BY <1>1, StreamStep, PTL DEF StreamSpec, Managed

(* Hence its books are right, whatever the decoder makes of the stream.    *)
THEOREM StreamInvariant == StreamSpec => []TransportInv
<1>1. Managed => []TransportInv
  BY InitTransport, NextTransport, PTL DEF Managed
<1> QED BY <1>1, StreamIsManaged, PTL

(* On a decoded connection too the end of the last handle is noticed, ...  *)
THEOREM StreamNotifierIsKept == StreamSpec => []NotifierKept
<1>1. TransportInv => NotifierKept
  BY DEF TransportInv
<1> QED BY <1>1, StreamInvariant, PTL

(* ... and its entry lives as long as its task, also when decode fails.    *)
THEOREM StreamEntryIsThere == StreamSpec => []EntryWhileRunning
<1>1. TransportInv => EntryWhileRunning
  BY DEF TransportInv
<1> QED BY <1>1, StreamInvariant, PTL

-----------------------------------------------------------------------------
(* The two parts of a sequence cut after n.                                *)
LEMMA Cut ==
    ASSUME NEW S, NEW s \in Seq(S), NEW n \in 0 .. Len(s)
    PROVE  /\ SubSeq(s, 1, n) \in Seq(S) /\ Len(SubSeq(s, 1, n)) = n
           /\ \A i \in 1 .. n : SubSeq(s, 1, n)[i] = s[i]
           /\ SubSeq(s, n + 1, Len(s)) \in Seq(S)
           /\ Len(SubSeq(s, n + 1, Len(s))) = Len(s) - n
           /\ \A i \in 1 .. Len(s) - n : SubSeq(s, n + 1, Len(s))[i] = s[n + i]
<1> DEFINE k == Len(s)
<1>1. k \in Nat /\ n \in 0 .. k /\ \A i \in 1 .. k : s[i] \in S
  OBVIOUS
<1> HIDE DEF k
<1>2. /\ SubSeq(s, 1, n) \in Seq(S) /\ Len(SubSeq(s, 1, n)) = n
      /\ \A i \in 1 .. n : SubSeq(s, 1, n)[i] = s[i]
  <2>1. \A i \in 1 .. n : s[i] \in S
    BY <1>1
  <2>2. /\ SubSeq(s, 1, n) \in Seq(S) /\ Len(SubSeq(s, 1, n)) = IF 1 <= n THEN n - 1 + 1 ELSE 0
        /\ \A i \in 1 .. n - 1 + 1 : SubSeq(s, 1, n)[i] = s[1 + i - 1]
    BY <1>1, <2>1, SubSeqProperties
  <2>3. n - 1 + 1 = n /\ (~(1 <= n) => n = 0) /\ \A i \in 1 .. n : 1 + i - 1 = i
    BY <1>1
  <2> QED BY <2>2, <2>3
<1>3. /\ SubSeq(s, n + 1, k) \in Seq(S) /\ Len(SubSeq(s, n + 1, k)) = k - n
      /\ \A i \in 1 .. k - n : SubSeq(s, n + 1, k)[i] = s[n + i]
  <2>1. \A i \in n + 1 .. k : s[i] \in S
    BY <1>1
  <2>2. /\ SubSeq(s, n + 1, k) \in Seq(S)
        /\ Len(SubSeq(s, n + 1, k)) = IF n + 1 <= k THEN k - (n + 1) + 1 ELSE 0
        /\ \A i \in 1 .. k - (n + 1) + 1 : SubSeq(s, n + 1, k)[i] = s[(n + 1) + i - 1]
    BY <1>1, <2>1, SubSeqProperties
  <2>3. /\ k - (n + 1) + 1 = k - n /\ (~(n + 1 <= k) => k - n = 0)
        /\ \A i \in 1 .. k - n : (n + 1) + i - 1 = n + i
    BY <1>1
  <2> QED BY <2>2, <2>3
<1> QED BY <1>2, <1>3 DEF k

(* Cut and joined again, behind another.                                   *)
LEMMA Rejoin ==
    ASSUME NEW S, NEW s \in Seq(S), NEW t \in Seq(S), NEW n \in 0 .. Len(t)
    PROVE  (s \o SubSeq(t, 1, n)) \o SubSeq(t, n + 1, Len(t)) = s \o t
<1> DEFINE a == SubSeq(t, 1, n)  b == SubSeq(t, n + 1, Len(t))
<1>1. /\ a \in Seq(S) /\ Len(a) = n /\ \A i \in 1 .. n : a[i] = t[i]
      /\ b \in Seq(S) /\ Len(b) = Len(t) - n /\ \A i \in 1 .. Len(t) - n : b[i] = t[n + i]
  BY Cut
<1> HIDE DEF a, b
<1>2. /\ s \o a \in Seq(S) /\ Len(s \o a) = Len(s) + n
      /\ \A i \in 1 .. Len(s) + n : (s \o a)[i] = IF i <= Len(s) THEN s[i] ELSE a[i - Len(s)]
  BY <1>1, ConcatProperties
<1>3. /\ s \o t \in Seq(S) /\ Len(s \o t) = Len(s) + Len(t)
      /\ \A i \in 1 .. Len(s) + Len(t) : (s \o t)[i] = IF i <= Len(s) THEN s[i] ELSE t[i - Len(s)]
  BY ConcatProperties
<1> DEFINE c == s \o a  d == s \o t
<1> HIDE DEF c, d
<1>0. c \in Seq(S)
  BY <1>2 DEF c
<1>4. /\ c \o b \in Seq(S) /\ Len(c \o b) = Len(c) + Len(b)
      /\ \A i \in 1 .. Len(c) + Len(b) : (c \o b)[i] = IF i <= Len(c) THEN c[i] ELSE b[i - Len(c)]
  BY <1>0, <1>1, ConcatProperties
<1>5. Len(c) = Len(s) + n /\ Len(d) = Len(s) + Len(t) /\ Len(c \o b) = Len(d)
      /\ Len(s) \in Nat /\ Len(t) \in Nat /\ d \in Seq(S)
  BY <1>1, <1>2, <1>3, <1>4 DEF c, d
<1>6. ASSUME NEW i \in 1 .. Len(d) PROVE (c \o b)[i] = d[i]
  <2>1. CASE i <= Len(s)
    BY <1>2, <1>3, <1>4, <1>5, <2>1 DEF c, d
  <2>2. CASE ~(i <= Len(s)) /\ i <= Len(c)
    <3>1. i - Len(s) \in 1 .. n
      BY <1>5, <2>2
    <3> QED BY <1>1, <1>2, <1>3, <1>4, <1>5, <2>2, <3>1 DEF c, d
  <2>3. CASE ~(i <= Len(c))
    <3>1. i - Len(c) \in 1 .. Len(t) - n /\ n + (i - Len(c)) = i - Len(s) /\ ~(i <= Len(s))
      BY <1>5, <2>3
    <3>2. (c \o b)[i] = t[i - Len(s)]
      BY <1>1, <1>4, <1>5, <2>3, <3>1
    <3> QED BY <1>3, <1>5, <3>1, <3>2 DEF d
  <2> QED BY <2>1, <2>2, <2>3
<1>7. c \o b = d
  BY <1>4, <1>5, <1>6, SeqEqual
<1> QED BY <1>7 DEF a, b, c, d

(* A set of numbers has a least one, and a bounded one a greatest.         *)
LEMMA Least ==
    ASSUME NEW T, T \subseteq Nat, T # {}
    PROVE  \E x \in T : \A y \in T : x <= y
<1>1. PICK x \in T : \A y \in T : ~(<<y, x>> \in OpToRel(<, Nat))
  BY NatLessThanWellFounded, WFMin
<1>2. \A y \in T : ~(y < x)
  BY <1>1 DEF OpToRel
<1> QED BY <1>2

LEMMA Greatest ==
    ASSUME NEW k \in Nat, NEW T, T \subseteq 0 .. k, T # {}
    PROVE  \E x \in T : \A y \in T : y <= x
<1> DEFINE U == {k - y : y \in T}
<1>1. U \subseteq Nat /\ U # {}
  <2>1. \A y \in T : k - y \in Nat
    OBVIOUS
  <2>2. PICK y \in T : TRUE
    OBVIOUS
  <2> QED BY <2>1, <2>2
<1>2. PICK u \in U : \A v \in U : u <= v
  BY <1>1, Least
<1>3. PICK x \in T : u = k - x
  OBVIOUS
<1>4. ASSUME NEW y \in T PROVE y <= x
  <2>1. k - x <= k - y
    BY <1>2, <1>3
  <2> QED BY <2>1
<1> QED BY <1>4

-----------------------------------------------------------------------------
(* What the peer sends has the shape of a message.                         *)
LEMMA UnitsShape ==
    ASSUME LengthIsLast, NEW l \in Layouts, NEW n \in Nat
    PROVE  /\ Shape(Units(n, l), n, Len(l.head)) /\ Units(n, l) \in Seq(Unit)
           /\ Len(l.head) \in 1 .. Len(Units(n, l))
<1> DEFINE h == Len(l.head)  b == l.body
           head == [i \in DOMAIN l.head |-> Line(l.head[i], n, b, i = h)]
           body == [i \in 1 .. b |-> Line("body", n, 0, FALSE)]
           m == Units(n, l)
<1>1. /\ h \in Nat \ {0} /\ b \in Nat /\ DOMAIN l.head = 1 .. h
      /\ \A i \in 1 .. h : l.head[i] \in {"line", "len", "bad"}
      /\ b > 0 => l.head[h] = "len"
  BY DEF LengthIsLast
<1> HIDE DEF h, b
<1>2. head \in [1 .. h -> Unit] /\ body \in [1 .. b -> Unit]
  BY <1>1 DEF Line, Unit
<1>3. \A i \in 1 .. h : /\ head[i].kind = l.head[i] /\ head[i].msg = n /\ head[i].len = b
                        /\ head[i].last <=> i = h
  BY <1>1 DEF Line
<1>4. \A i \in 1 .. b : body[i].kind = "body" /\ body[i].msg = n /\ ~body[i].last
  BY <1>1 DEF Line
<1>5. m = head \o body
  BY DEF Units, h, b
<1> HIDE DEF head, body, m
<1>6. head \in Seq(Unit) /\ Len(head) = h /\ body \in Seq(Unit) /\ Len(body) = b
  BY <1>1, <1>2
<1>7. /\ m \in Seq(Unit) /\ Len(m) = h + b
      /\ \A i \in 1 .. h + b : m[i] = IF i <= h THEN head[i] ELSE body[i - h]
  <2>1. /\ m \in Seq(Unit) /\ Len(m) = Len(head) + Len(body)
        /\ \A i \in 1 .. Len(head) + Len(body) :
              m[i] = IF i <= Len(head) THEN head[i] ELSE body[i - Len(head)]
    BY <1>5, <1>6, ConcatProperties
  <2> QED BY <1>6, <2>1
<1>8. \A i \in 1 .. h : /\ m[i].kind = l.head[i] /\ m[i].msg = n /\ m[i].len = b
                        /\ m[i].last <=> i = h
  <2>1. \A i \in 1 .. h : m[i] = head[i]
    BY <1>1, <1>7
  <2> QED BY <1>3, <2>1
<1>9. \A i \in h + 1 .. h + b : m[i].kind = "body" /\ m[i].msg = n /\ ~m[i].last
  <2> SUFFICES ASSUME NEW i \in h + 1 .. h + b
               PROVE  m[i].kind = "body" /\ m[i].msg = n /\ ~m[i].last
    OBVIOUS
  <2>1. i \in 1 .. h + b /\ ~(i <= h) /\ i - h \in 1 .. b
    BY <1>1
  <2>2. m[i] = body[i - h]
    BY <1>7, <2>1
  <2> QED BY <1>4, <2>1, <2>2
<1>10. Shape(m, n, h)
  <2>1. ASSUME NEW j \in 1 .. Len(m)
        PROVE  m[j].msg = n /\ m[j].kind # "crlf" /\ (m[j].last <=> j = h)
    <3>1. CASE j \in 1 .. h
      BY <1>1, <1>8, <3>1
    <3>2. CASE j \in h + 1 .. h + b
      BY <1>1, <1>9, <3>2
    <3> QED BY <1>1, <1>7, <3>1, <3>2
  <2>2. \A j \in 1 .. h : m[j].len = Len(m) - h
    BY <1>1, <1>7, <1>8
  <2>3. \A j \in h + 1 .. Len(m) : m[j].kind # "len"
    BY <1>7, <1>9
  <2>4. Len(m) > h => m[h].kind = "len"
    BY <1>1, <1>7, <1>8
  <2> QED BY <1>1, <1>7, <2>1, <2>2, <2>3, <2>4 DEF Shape
<1> QED BY <1>1, <1>7, <1>10 DEF h, m

(* What is pending: what has been read and what has not.                   *)
LEMMA PendingIs ==
    ASSUME StreamTypes
    PROVE  /\ Pending \in Seq(Unit) /\ Len(Pending) = Len(src) + Len(wire)
           /\ Len(src) \in Nat /\ Len(wire) \in Nat
           /\ \A p \in 1 .. Len(src) : Pending[p] = src[p] /\ p \in 1 .. Len(Pending)
<1>1. /\ Pending \in Seq(Unit) /\ Len(Pending) = Len(src) + Len(wire)
      /\ \A i \in 1 .. Len(src) + Len(wire) :
            Pending[i] = IF i <= Len(src) THEN src[i] ELSE wire[i - Len(src)]
  BY ConcatProperties DEF StreamTypes, Pending
<1>2. Len(src) \in Nat /\ Len(wire) \in Nat
  BY DEF StreamTypes
<1> HIDE DEF Pending
<1> QED BY <1>1, <1>2

(* A first unit that is no line break begins the message that is due.      *)
LEMMA DueBegins ==
    ASSUME StreamTypes, Yielded, src # <<>>, src[1].kind # "crlf",
           NEW at, Parses(at, Due, sent, Pending)
    PROVE  /\ Due \in 1 .. Len(sent) /\ at[Due] = 1
           /\ \E h \in 1 .. Len(sent[Due]) : Shape(sent[Due], Due, h)
           /\ \A p \in 1 .. Len(src) : p <= Len(sent[Due]) => src[p] = sent[Due][p]
           /\ Len(sent[Due]) <= Len(Pending)
<1>1. Len(sent) \in Nat /\ Len(got) \in Nat /\ \A n \in 1 .. Len(sent) : Len(sent[n]) \in Nat
  BY DEF StreamTypes
<1>2. 1 \in 1 .. Len(src)
  BY DEF StreamTypes
<1>3. Pending[1] # Crlf
  BY <1>2, PendingIs DEF Crlf, Line
<1>4. PICK n \in Due .. Len(sent) : 1 \in at[n] .. at[n] + Len(sent[n]) - 1
  BY <1>2, <1>3, PendingIs DEF Parses
<1>5. Due \in 1 .. Len(sent) /\ Due \in Due .. Len(sent)
  BY <1>1, <1>4 DEF Due
<1>6. PICK h \in 1 .. Len(sent[Due]) : Shape(sent[Due], Due, h)
  BY <1>5 DEF Yielded
<1>7. \A i \in Due .. Len(sent) : at[i] \in Nat \ {0}
  BY PendingIs DEF Parses
<1>8. at[n] = 1
  BY <1>4, <1>7
<1>9. n = Due
  <2> SUFFICES ASSUME n # Due PROVE FALSE
    OBVIOUS
  <2>1. Due < n /\ Due \in Nat
    BY <1>1, <1>4, <1>5 DEF Due
  <2>2. at[Due] + Len(sent[Due]) <= at[n]
    BY <1>4, <1>5, <2>1 DEF Parses
  <2> QED BY <1>1, <1>5, <1>6, <1>7, <1>8, <2>2
<1>10. ASSUME NEW p \in 1 .. Len(src), p <= Len(sent[Due]) PROVE src[p] = sent[Due][p]
  <2>1. p \in 1 .. Len(sent[Due]) /\ at[Due] + p - 1 = p
    BY <1>1, <1>5, <1>8, <1>9, <1>10
  <2>2. Pending[at[Due] + p - 1] = sent[Due][p]
    BY <1>5, <2>1 DEF Parses
  <2> QED BY <2>1, <2>2, PendingIs
<1>11. Len(sent[Due]) <= Len(Pending)
  <2>1. at[Due] + Len(sent[Due]) - 1 <= Len(Pending)
    BY <1>5 DEF Parses
  <2> QED BY <1>1, <1>5, <1>8, <1>9, <2>1, PendingIs
<1> QED BY <1>5, <1>6, <1>8, <1>9, <1>10, <1>11

(* decode strips the line breaks before the first other unit, if any.      *)
LEMMA LeadingIs ==
    ASSUME src \in Seq(Unit)
    PROVE  /\ Leading \in 0 .. Len(src)
           /\ \A p \in 1 .. Leading : src[p].kind = "crlf"
           /\ Leading < Len(src) => src[Leading + 1].kind # "crlf"
<1> DEFINE end == Line("end", 0, 0, FALSE)  e == src \o <<end>>  k == Len(src)
           I == {i \in 1 .. Len(e) : e[i].kind # "crlf"}
<1>1. k \in Nat /\ end.kind = "end"
  BY DEF Line
<1>2. Leading = (IF I # {} THEN Min(I) ELSE 0) - 1
  BY DEF Leading, SelectInSeq
<1> HIDE DEF end
<1>3. /\ Len(e) = k + 1 /\ e[k + 1] = end
      /\ \A i \in 1 .. k : e[i] = src[i]
  <2> DEFINE S == Unit \cup {end}
  <2>1. src \in Seq(S) /\ <<end>> \in Seq(S) /\ Len(<<end>>) = 1 /\ <<end>>[1] = end
    OBVIOUS
  <2> HIDE DEF S
  <2>2. /\ Len(e) = Len(src) + Len(<<end>>)
        /\ \A i \in 1 .. Len(src) + Len(<<end>>) :
              e[i] = IF i <= Len(src) THEN src[i] ELSE <<end>>[i - Len(src)]
    BY <2>1, ConcatProperties
  <2> QED BY <1>1, <2>1, <2>2
<1> HIDE DEF e, k
<1>4. I \subseteq Nat /\ I # {} /\ k + 1 \in I
  BY <1>1, <1>3
<1>5. PICK x \in I : \A y \in I : x <= y
  BY <1>4, Least
<1>6. Min(I) \in I /\ \A y \in I : Min(I) <= y
  BY <1>5 DEF Min
<1> DEFINE m == Min(I)
<1>7. m \in 1 .. k + 1 /\ e[m].kind # "crlf" /\ \A i \in 1 .. k : e[i].kind # "crlf" => m <= i
  BY <1>1, <1>3, <1>6
<1>8. Leading = m - 1
  BY <1>2, <1>4
<1> HIDE DEF m, I
<1> QED BY <1>1, <1>3, <1>7, <1>8 DEF k

(* In front of the message that is due, decode finds the end of its head   *)
(* when that is there, and with it the length of its body.                 *)
LEMMA DueIsFound ==
    ASSUME StreamTypes, Yielded, Progressing, src # <<>>, Leading = 0,
           NEW at, Parses(at, Due, sent, Pending),
           NEW h \in 1 .. Len(sent[Due]), Shape(sent[Due], Due, h)
    PROVE  /\ progress < h
           /\ HeadEnds = {} <=> Len(src) < h
           /\ Len(src) >= h => HeadEnd = h /\ ContentLen = Len(sent[Due]) - h
<1> DEFINE m == sent[Due]  k == Len(src)
<1>1. k \in Nat \ {0} /\ progress \in 0 .. k
  BY DEF StreamTypes, Progressing
<1>2. src[1].kind # "crlf"
  <2>1. 0 < Len(src)
    BY <1>1
  <2> QED BY <2>1, LeadingIs DEF StreamTypes
<1>3. \A p \in 1 .. k : p <= Len(m) => src[p] = m[p]
  BY <1>2, DueBegins
<1>4. /\ Len(m) \in Nat /\ h \in 1 .. Len(m)
      /\ \A j \in 1 .. Len(m) : m[j].last <=> j = h
      /\ \A j \in 1 .. h : m[j].len = Len(m) - h
      /\ Len(m) > h => m[h].kind = "len"
  BY DEF Shape
<1> HIDE DEF m
<1>5. \A p \in 1 .. k : p <= h => src[p] = m[p] /\ (src[p].last <=> p = h)
  BY <1>1, <1>3, <1>4
<1>6. progress < h
  <2> SUFFICES ASSUME h <= progress PROVE FALSE
    BY <1>1, <1>4
  <2>1. h \in 1 .. k /\ h \in 1 .. progress /\ progress > 0
    BY <1>1, <1>4
  <2> QED BY <1>4, <1>5, <2>1 DEF Progressing
<1>7. CASE k < h
  <2>1. HeadEnds = {}
    BY <1>1, <1>4, <1>5, <1>7 DEF HeadEnds
  <2> QED BY <1>4, <1>6, <1>7, <2>1
<1>8. CASE k >= h
  <2>1. h \in HeadEnds /\ \A j \in HeadEnds : h <= j
    <3>1. h \in progress + 1 .. k /\ h \in 1 .. k
      BY <1>1, <1>4, <1>6, <1>8
    <3>2. h \in HeadEnds
      BY <1>4, <1>5, <3>1 DEF HeadEnds
    <3>3. ASSUME NEW j \in HeadEnds, ~(h <= j) PROVE FALSE
      <4>1. j \in 1 .. k /\ src[j].last /\ j <= h /\ j # h
        BY <1>1, <1>4, <3>3 DEF HeadEnds
      <4> QED BY <1>5, <4>1
    <3> QED BY <3>2, <3>3
  <2>2. HeadEnds \subseteq Nat
    BY <1>1 DEF HeadEnds
  <2>3. HeadEnd = h
    <3>1. HeadEnd \in HeadEnds /\ \A j \in HeadEnds : HeadEnd <= j
      BY <2>1 DEF HeadEnd
    <3> QED BY <1>4, <2>1, <2>2, <3>1
  <2>4. Looked = progress + 1 .. h
    BY <2>1, <2>3 DEF Looked
  <2>5. \A i \in Lengths : i \in progress + 1 .. h /\ src[i].kind = "len" /\ src[i].len = Len(m) - h
    <3> SUFFICES ASSUME NEW i \in Lengths
                 PROVE  i \in progress + 1 .. h /\ src[i].kind = "len"
                        /\ src[i].len = Len(m) - h
      OBVIOUS
    <3>1. i \in progress + 1 .. h /\ src[i].kind = "len"
      BY <2>4 DEF Lengths
    <3>2. i \in 1 .. k /\ i \in 1 .. h
      BY <1>1, <1>4, <1>8, <3>1
    <3> QED BY <1>4, <1>5, <3>1, <3>2
  <2>6. ContentLen = Len(m) - h
    <3>1. CASE Lengths = {}
      <4>1. h \in Looked /\ h \in 1 .. k
        BY <1>1, <1>4, <1>6, <1>8, <2>4
      <4>2. m[h].kind # "len"
        BY <1>4, <1>5, <3>1, <4>1 DEF Lengths
      <4>3. Len(m) - h = 0
        BY <1>4, <4>2
      <4> QED BY <3>1, <4>3 DEF ContentLen
    <3>2. CASE Lengths # {}
      <4>1. Lengths \subseteq 0 .. h
        BY <1>1, <1>4, <2>5
      <4>2. PICK x \in Lengths : \A y \in Lengths : y <= x
        <5>1. h \in Nat
          BY <1>4
        <5> QED BY <3>2, <4>1, <5>1, Greatest
      <4> DEFINE c == CHOOSE i \in Lengths : \A j \in Lengths : j <= i
      <4>3. c \in Lengths
        BY <4>2
      <4>4. ContentLen = src[c].len
        BY <3>2 DEF ContentLen
      <4> HIDE DEF c
      <4> QED BY <2>5, <4>3, <4>4
    <3> QED BY <3>1, <3>2
  <2> QED BY <1>1, <1>4, <1>6, <1>8, <2>1, <2>3, <2>6 DEF m
<1> QED BY <1>1, <1>4, <1>7, <1>8

-----------------------------------------------------------------------------
(* What the peer sends comes behind what is pending: keep-alives, ...      *)
LEMMA GrowsByKeepAlive ==
    ASSUME NEW d \in Nat \ {0}, NEW s \in Seq(Seq(Unit)), NEW P \in Seq(Unit), NEW at,
           Parses(at, d, s, P), NEW u \in Seq(Unit), \A j \in 1 .. Len(u) : u[j] = Crlf
    PROVE  Parses(at, d, s, P \o u)
<1> DEFINE Q == P \o u  k == Len(P)  c == Len(u)
<1>1. /\ Len(Q) = k + c /\ k \in Nat /\ c \in Nat
      /\ \A i \in 1 .. k + c : Q[i] = IF i <= k THEN P[i] ELSE u[i - k]
  BY ConcatProperties
<1> HIDE DEF Q, k, c
<1>a. \A x \in 1 .. k, y \in Nat : x + y - 1 <= k =>
            x + y - 1 <= k + c /\ \A j \in 1 .. y : x + j - 1 \in 1 .. k
  BY <1>1
<1>2. \A i \in 1 .. k : Q[i] = P[i] /\ i \in 1 .. k + c
  BY <1>1
<1>3. at \in [d .. Len(s) -> 1 .. k] /\ 1 .. k \subseteq 1 .. k + c
  BY <1>1 DEF Parses, k
<1>4. \A n \in d .. Len(s) : /\ at[n] \in 1 .. k /\ Len(s[n]) \in Nat
                             /\ at[n] + Len(s[n]) - 1 <= k
  <2>1. \A n \in d .. Len(s) : n \in 1 .. Len(s)
    OBVIOUS
  <2> QED BY <1>3, <2>1 DEF Parses, k
<1>5. \A m, n \in d .. Len(s) : m < n => at[m] + Len(s[m]) <= at[n]
  BY DEF Parses
<1>6. ASSUME NEW n \in d .. Len(s), NEW j \in 1 .. Len(s[n])
      PROVE  Q[at[n] + j - 1] = s[n][j]
  <2>1. at[n] + j - 1 \in 1 .. k
    BY <1>a, <1>4
  <2>2. P[at[n] + j - 1] = s[n][j]
    BY DEF Parses
  <2> QED BY <1>2, <2>1, <2>2
<1>7. ASSUME NEW p \in 1 .. k + c
      PROVE  Q[p] = Crlf \/ \E n \in d .. Len(s) : p \in at[n] .. at[n] + Len(s[n]) - 1
  <2>1. CASE p \in 1 .. k
    BY <1>2, <2>1 DEF Parses, k
  <2>2. CASE ~(p <= k)
    <3>1. p - k \in 1 .. c
      BY <1>1, <2>2
    <3> QED BY <1>1, <2>2, <3>1 DEF c
  <2> QED BY <1>1, <2>1, <2>2
<1>8. \A n \in d .. Len(s) : at[n] + Len(s[n]) - 1 <= k + c
  BY <1>a, <1>4
<1> QED BY <1>1, <1>3, <1>5, <1>6, <1>7, <1>8 DEF Parses, Q

(* ... or a message.                                                       *)
LEMMA GrowsByMessage ==
    ASSUME NEW s \in Seq(Seq(Unit)), NEW d \in 1 .. Len(s) + 1, NEW P \in Seq(Unit), NEW at,
           Parses(at, d, s, P), NEW u \in Seq(Unit), u # <<>>
    PROVE  \E f : /\ Parses(f, d, Append(s, u), P \o u)
                 /\ f[Len(s) + 1] = Len(P) + 1 /\ \A n \in d .. Len(s) : f[n] = at[n]
<1> DEFINE Q == P \o u  k == Len(P)  c == Len(u)  l == Len(s)  e == l + 1  t == Append(s, u)
<1>1. /\ Len(Q) = k + c /\ k \in Nat /\ c \in Nat \ {0}
      /\ \A i \in 1 .. k + c : Q[i] = IF i <= k THEN P[i] ELSE u[i - k]
  BY ConcatProperties
<1>2. /\ l \in Nat /\ d \in 1 .. e /\ e = l + 1
      /\ t \in Seq(Seq(Unit)) /\ Len(t) = e /\ t[e] = u
      /\ \A i \in 1 .. l : t[i] = s[i] /\ Len(s[i]) \in Nat
  OBVIOUS
<1>3. /\ at \in [d .. l -> 1 .. k]
      /\ \A n \in d .. l : at[n] + Len(s[n]) - 1 <= k
      /\ \A m, n \in d .. l : m < n => at[m] + Len(s[m]) <= at[n]
      /\ \A n \in d .. l : \A j \in 1 .. Len(s[n]) : P[at[n] + j - 1] = s[n][j]
      /\ \A p \in 1 .. k : P[p] = Crlf \/ \E n \in d .. l : p \in at[n] .. at[n] + Len(s[n]) - 1
  BY DEF Parses
<1>0. Len(u) = c
  OBVIOUS
<1> HIDE DEF Q, k, c, l, e, t
<1>a. \A x \in 1 .. k, y \in Nat : x + y - 1 <= k =>
            /\ x + y - 1 <= k + c /\ x + y <= k + 1
            /\ \A j \in 1 .. y : x + j - 1 \in 1 .. k
  BY <1>1
<1>4. \A i \in 1 .. k : Q[i] = P[i] /\ i \in 1 .. k + c
  BY <1>1
<1>5. \A n \in d .. l : n \in 1 .. l /\ n \in d .. e /\ n # e
  BY <1>2
<1>6. \A n \in d .. e : n = e \/ n \in d .. l
  BY <1>2
<1>7. PICK f : f = [n \in d .. e |-> IF n = e THEN k + 1 ELSE at[n]]
  OBVIOUS
<1>8. f[e] = k + 1 /\ e \in d .. e /\ \A n \in d .. l : f[n] = at[n]
  BY <1>2, <1>5, <1>7
<1>9. f \in [d .. e -> 1 .. k + c]
  <2>1. k + 1 \in 1 .. k + c
    BY <1>1
  <2>2. \A n \in d .. l : at[n] \in 1 .. k + c
    BY <1>3, <1>4
  <2> QED BY <1>6, <1>7, <2>1, <2>2
<1>10. \A n \in d .. l : /\ at[n] \in 1 .. k /\ Len(t[n]) = Len(s[n]) /\ Len(s[n]) \in Nat
                         /\ t[n] = s[n]
  BY <1>2, <1>3, <1>5
<1>11. \A n \in d .. e : f[n] + Len(t[n]) - 1 <= k + c
  <2>1. f[e] + Len(t[e]) - 1 <= k + c
    BY <1>0, <1>1, <1>2, <1>8
  <2>2. \A n \in d .. l : f[n] + Len(t[n]) - 1 <= k + c
    <3> SUFFICES ASSUME NEW n \in d .. l PROVE f[n] + Len(t[n]) - 1 <= k + c
      OBVIOUS
    <3>1. f[n] = at[n] /\ Len(t[n]) = Len(s[n]) /\ at[n] + Len(s[n]) - 1 <= k
      BY <1>3, <1>8, <1>10
    <3> QED BY <1>a, <1>10, <3>1
  <2> QED BY <1>6, <2>1, <2>2
<1>12. ASSUME NEW m \in d .. e, NEW n \in d .. e, m < n PROVE f[m] + Len(t[m]) <= f[n]
  <2>1. m \in d .. l
    BY <1>2, <1>12
  <2>2. f[m] + Len(t[m]) = at[m] + Len(s[m])
    BY <1>8, <1>10, <2>1
  <2>3. CASE n = e
    <3>1. at[m] + Len(s[m]) - 1 <= k /\ at[m] \in 1 .. k /\ Len(s[m]) \in Nat
      BY <1>3, <1>10, <2>1
    <3>2. at[m] + Len(s[m]) <= k + 1
      BY <1>a, <3>1
    <3> QED BY <1>8, <2>2, <2>3, <3>2
  <2>4. CASE n \in d .. l
    BY <1>3, <1>8, <1>12, <2>1, <2>2, <2>4
  <2> QED BY <1>6, <2>3, <2>4
<1>13. ASSUME NEW n \in d .. e, NEW j \in 1 .. Len(t[n]) PROVE Q[f[n] + j - 1] = t[n][j]
  <2>1. CASE n = e
    <3>0. j \in 1 .. c /\ f[n] = k + 1
      BY <1>0, <1>2, <1>8, <2>1
    <3>1. f[n] + j - 1 = k + j /\ j \in 1 .. c
      BY <1>1, <3>0
    <3>2. k + j \in 1 .. k + c /\ ~(k + j <= k) /\ (k + j) - k = j
      BY <1>1, <3>1
    <3>3. Q[k + j] = u[j]
      BY <1>1, <3>2
    <3> QED BY <1>2, <2>1, <3>1, <3>3
  <2>2. CASE n \in d .. l
    <3>1. j \in 1 .. Len(s[n]) /\ t[n] = s[n] /\ f[n] = at[n]
      BY <1>8, <1>10, <2>2
    <3>2. at[n] + j - 1 \in 1 .. k
      BY <1>a, <1>3, <1>10, <2>2, <3>1
    <3> QED BY <1>3, <1>4, <2>2, <3>1, <3>2
  <2> QED BY <1>6, <2>1, <2>2
<1>14. ASSUME NEW p \in 1 .. k + c
       PROVE  Q[p] = Crlf \/ \E n \in d .. e : p \in f[n] .. f[n] + Len(t[n]) - 1
  <2>1. CASE p \in 1 .. k
    <3>1. CASE P[p] = Crlf
      BY <1>4, <2>1, <3>1
    <3>2. CASE \E n \in d .. l : p \in at[n] .. at[n] + Len(s[n]) - 1
      <4>1. PICK n \in d .. l : p \in at[n] .. at[n] + Len(s[n]) - 1
        BY <3>2
      <4>2. n \in d .. e /\ f[n] = at[n] /\ Len(t[n]) = Len(s[n])
        BY <1>5, <1>8, <1>10
      <4> QED BY <4>1, <4>2
    <3> QED BY <1>3, <2>1, <3>1, <3>2
  <2>2. CASE ~(p <= k)
    <3>1. Len(t[e]) = c /\ f[e] = k + 1 /\ e \in d .. e
      BY <1>0, <1>2, <1>8
    <3>2. p \in k + 1 .. (k + 1) + c - 1
      BY <1>1, <2>2
    <3> QED BY <3>1, <3>2
  <2> QED BY <1>1, <2>1, <2>2
<1>15. Parses(f, d, t, Q)
  BY <1>1, <1>2, <1>9, <1>11, <1>12, <1>13, <1>14 DEF Parses
<1> QED BY <1>8, <1>15 DEF t, Q, k, l, e

(* Places after the first c of k, counted from there.                      *)
LEMMA ShiftWithin ==
    ASSUME NEW k \in Nat, NEW c \in 0 .. k
    PROVE  /\ \A x \in c + 1 .. k, y \in Nat : x + y - 1 <= k =>
                 /\ (x - c) + y - 1 <= k - c
                 /\ \A j \in 1 .. y : (x - c) + j - 1 \in 1 .. k - c /\ c + ((x - c) + j - 1) = x + j - 1
           /\ \A x, z \in c + 1 .. k, y \in Nat : x + y <= z => (x - c) + y <= z - c
           /\ \A x \in c + 1 .. k, y \in Nat, p \in 1 .. k - c :
                 c + p \in x .. x + y - 1 => p \in x - c .. (x - c) + y - 1
<1>1. ASSUME NEW x \in c + 1 .. k, NEW y \in Nat, x + y - 1 <= k, NEW j \in 1 .. y
      PROVE  (x - c) + j - 1 \in 1 .. k - c /\ c + ((x - c) + j - 1) = x + j - 1
  BY <1>1
<1>2. ASSUME NEW x \in c + 1 .. k, NEW y \in Nat, x + y - 1 <= k PROVE (x - c) + y - 1 <= k - c
  BY <1>2
<1>3. ASSUME NEW x \in c + 1 .. k, NEW z \in c + 1 .. k, NEW y \in Nat, x + y <= z
      PROVE  (x - c) + y <= z - c
  BY <1>3
<1>4. ASSUME NEW x \in c + 1 .. k, NEW y \in Nat, NEW p \in 1 .. k - c, c + p \in x .. x + y - 1
      PROVE  p \in x - c .. (x - c) + y - 1
  BY <1>4
<1> QED BY <1>1, <1>2, <1>3, <1>4

(* What decode takes is the beginning: of the messages before the e-th all *)
(* is taken, of the others nothing.                                        *)
LEMMA Shrinks ==
    ASSUME NEW s \in Seq(Seq(Unit)), NEW d \in Nat \ {0}, NEW P \in Seq(Unit), NEW at,
           Parses(at, d, s, P), NEW c \in 0 .. Len(P), NEW Q \in Seq(Unit),
           Len(Q) = Len(P) - c, \A p \in 1 .. Len(P) - c : Q[p] = P[c + p],
           NEW e \in Nat, e >= d, \A n \in e .. Len(s) : at[n] > c,
           \A n \in d .. Len(s) : n < e => at[n] + Len(s[n]) - 1 <= c
    PROVE  \E f : Parses(f, e, s, Q) /\ \A n \in e .. Len(s) : f[n] = at[n] - c
<1> DEFINE k == Len(P)  l == Len(s)
<1>1. /\ k \in Nat /\ c \in 0 .. k /\ l \in Nat /\ Len(Q) = k - c
      /\ \A p \in 1 .. k - c : Q[p] = P[c + p]
      /\ \A n \in 1 .. l : Len(s[n]) \in Nat
      /\ \A n \in e .. l : at[n] > c
      /\ \A n \in d .. l : n < e => at[n] + Len(s[n]) - 1 <= c
  OBVIOUS
<1>2. /\ at \in [d .. l -> 1 .. k]
      /\ \A n \in d .. l : at[n] + Len(s[n]) - 1 <= k
      /\ \A m, n \in d .. l : m < n => at[m] + Len(s[m]) <= at[n]
      /\ \A n \in d .. l : \A j \in 1 .. Len(s[n]) : P[at[n] + j - 1] = s[n][j]
      /\ \A p \in 1 .. k : P[p] = Crlf \/ \E n \in d .. l : p \in at[n] .. at[n] + Len(s[n]) - 1
  BY DEF Parses
<1> HIDE DEF k, l
<1>0. k \in Nat /\ c \in 0 .. k
  BY <1>1
<1>a. \A x \in c + 1 .. k, y \in Nat : x + y - 1 <= k =>
            /\ (x - c) + y - 1 <= k - c
            /\ \A j \in 1 .. y : (x - c) + j - 1 \in 1 .. k - c /\ c + ((x - c) + j - 1) = x + j - 1
  BY <1>0, ShiftWithin
<1>b. \A x, z \in c + 1 .. k, y \in Nat : x + y <= z => (x - c) + y <= z - c
  BY <1>0, ShiftWithin
<1>c. \A x \in c + 1 .. k, y \in Nat, p \in 1 .. k - c :
            c + p \in x .. x + y - 1 => p \in x - c .. (x - c) + y - 1
  BY <1>0, ShiftWithin
<1>3. \A n \in e .. l : n \in d .. l /\ n \in 1 .. l
  BY <1>1
<1>4. \A n \in e .. l : at[n] \in c + 1 .. k /\ Len(s[n]) \in Nat
  BY <1>1, <1>2, <1>3
<1>5. PICK f : f = [n \in e .. l |-> at[n] - c]
  OBVIOUS
<1>6. \A n \in e .. l : f[n] = at[n] - c
  BY <1>5
<1>7. f \in [e .. l -> 1 .. k - c]
  <2>1. \A n \in e .. l : at[n] - c \in 1 .. k - c
    BY <1>1, <1>4
  <2> QED BY <1>5, <2>1
<1>8. ASSUME NEW n \in e .. l PROVE f[n] + Len(s[n]) - 1 <= k - c
  <2>1. at[n] + Len(s[n]) - 1 <= k
    BY <1>2, <1>3
  <2> QED BY <1>a, <1>4, <1>6, <2>1
<1>9. ASSUME NEW m \in e .. l, NEW n \in e .. l, m < n PROVE f[m] + Len(s[m]) <= f[n]
  <2>1. at[m] + Len(s[m]) <= at[n]
    BY <1>2, <1>3, <1>9
  <2> QED BY <1>b, <1>4, <1>6, <2>1
<1>10. ASSUME NEW n \in e .. l, NEW j \in 1 .. Len(s[n]) PROVE Q[f[n] + j - 1] = s[n][j]
  <2>1. f[n] + j - 1 \in 1 .. k - c /\ c + (f[n] + j - 1) = at[n] + j - 1
    <3>1. at[n] + Len(s[n]) - 1 <= k
      BY <1>2, <1>3
    <3> QED BY <1>a, <1>4, <1>6, <3>1
  <2>2. P[at[n] + j - 1] = s[n][j]
    BY <1>2, <1>3
  <2> QED BY <1>1, <2>1, <2>2
<1>11. ASSUME NEW p \in 1 .. k - c
       PROVE  Q[p] = Crlf \/ \E n \in e .. l : p \in f[n] .. f[n] + Len(s[n]) - 1
  <2>1. c + p \in 1 .. k /\ Q[p] = P[c + p]
    BY <1>1
  <2>2. CASE P[c + p] = Crlf
    BY <2>1, <2>2
  <2>3. CASE \E n \in d .. l : c + p \in at[n] .. at[n] + Len(s[n]) - 1
    <3>1. PICK n \in d .. l : c + p \in at[n] .. at[n] + Len(s[n]) - 1
      BY <2>3
    <3>2. n \in 1 .. l /\ Len(s[n]) \in Nat /\ at[n] \in 1 .. k
      BY <1>1, <1>2
    <3>3. ~(n < e)
      <4>1. ~(at[n] + Len(s[n]) - 1 <= c)
        BY <1>1, <3>1, <3>2
      <4> QED BY <1>1, <4>1
    <3>4. n \in e .. l
      BY <1>1, <3>2, <3>3
    <3>5. p \in f[n] .. f[n] + Len(s[n]) - 1
      BY <1>c, <1>4, <1>6, <3>1, <3>4
    <3> QED BY <3>4, <3>5
  <2> QED BY <1>2, <2>1, <2>2, <2>3
<1>12. Parses(f, e, s, Q)
  BY <1>1, <1>7, <1>8, <1>9, <1>10, <1>11 DEF Parses, l
<1> QED BY <1>6, <1>12 DEF l

(* The beginning is taken from the first of two sequences.                 *)
LEMMA TakenFromFirst ==
    ASSUME NEW S, NEW s \in Seq(S), NEW t \in Seq(S), NEW n \in 0 .. Len(s)
    PROVE  /\ SubSeq(s, n + 1, Len(s)) \o t \in Seq(S)
           /\ Len(SubSeq(s, n + 1, Len(s)) \o t) = Len(s \o t) - n
           /\ \A p \in 1 .. Len(s \o t) - n :
                 (SubSeq(s, n + 1, Len(s)) \o t)[p] = (s \o t)[n + p]
<1> DEFINE r == SubSeq(s, n + 1, Len(s))  a == r \o t  b == s \o t  k == Len(s)  w == Len(t)
<1>1. k \in Nat /\ w \in Nat /\ n \in 0 .. k
  OBVIOUS
<1>2. r \in Seq(S) /\ Len(r) = k - n /\ \A i \in 1 .. k - n : r[i] = s[n + i]
  BY Cut
<1> HIDE DEF r
<1>3. /\ Len(b) = k + w
      /\ \A i \in 1 .. k + w : b[i] = IF i <= k THEN s[i] ELSE t[i - k]
  BY ConcatProperties
<1>4. /\ a \in Seq(S) /\ Len(a) = (k - n) + w
      /\ \A i \in 1 .. (k - n) + w : a[i] = IF i <= k - n THEN r[i] ELSE t[i - (k - n)]
  <2>1. /\ a \in Seq(S) /\ Len(a) = Len(r) + w
        /\ \A i \in 1 .. Len(r) + w : a[i] = IF i <= Len(r) THEN r[i] ELSE t[i - Len(r)]
    BY <1>2, ConcatProperties
  <2> QED BY <1>2, <2>1
<1> HIDE DEF a, b, k, w
<1>5. Len(a) = Len(b) - n
  BY <1>1, <1>3, <1>4
<1>6. ASSUME NEW p \in 1 .. Len(b) - n PROVE a[p] = b[n + p]
  <2>1. p \in 1 .. (k - n) + w /\ n + p \in 1 .. k + w
    BY <1>1, <1>3
  <2>2. CASE p <= k - n
    <3>1. p \in 1 .. k - n /\ n + p <= k
      BY <1>1, <2>1, <2>2
    <3>2. a[p] = r[p] /\ r[p] = s[n + p] /\ b[n + p] = s[n + p]
      BY <1>2, <1>3, <1>4, <2>1, <3>1
    <3> QED BY <3>2
  <2>3. CASE ~(p <= k - n)
    <3>1. ~(n + p <= k) /\ p - (k - n) = (n + p) - k
      BY <1>1, <2>1, <2>3
    <3>2. a[p] = t[p - (k - n)] /\ b[n + p] = t[(n + p) - k]
      BY <1>3, <1>4, <2>1, <2>3, <3>1
    <3> QED BY <3>1, <3>2
  <2> QED BY <2>2, <2>3
<1> QED BY <1>4, <1>5, <1>6 DEF a, b, r, k

(* The lengths of the messages.                                            *)
LEMMA Lens ==
    ASSUME StreamTypes, Yielded
    PROVE  /\ Len(sent) \in Nat /\ Len(got) \in Nat /\ Due \in Nat \ {0} /\ Due = Len(got) + 1
           /\ \A n \in 1 .. Len(sent) : sent[n] \in Seq(Unit) /\ Len(sent[n]) \in Nat \ {0}
           /\ \A n \in Due .. Len(sent) : n \in 1 .. Len(sent)
<1>1. Len(sent) \in Nat /\ Len(got) \in Nat /\ \A n \in 1 .. Len(sent) : sent[n] \in Seq(Unit)
  BY DEF StreamTypes
<1>2. \A n \in 1 .. Len(sent) : Len(sent[n]) \in Nat \ {0}
  BY <1>1 DEF Yielded
<1> QED BY <1>1, <1>2 DEF Due

-----------------------------------------------------------------------------
(* The invariant of the decoder, action by action.                         *)
LEMMA SendInv ==
    ASSUME LengthIsLast, DecoderInv, NEW l \in Layouts, Send(l)
    PROVE  DecoderInv'
<1> DEFINE n == Len(sent) + 1  u == Units(n, l)
<1>1. StreamTypes /\ Yielded /\ open /\ Progressing
  BY DEF DecoderInv, Send
<1>2. PICK at : Parses(at, Due, sent, Pending) /\ (~readable => Beyond(at, Due, sent, Len(src)))
  BY <1>1 DEF DecoderInv
<1>3. /\ sent' = Append(sent, u) /\ wire' = wire \o u
      /\ UNCHANGED <<src, progress, readable, got, open>>
  BY DEF Send, vars
<1>4. /\ Len(sent) \in Nat /\ Len(got) <= Len(sent) /\ Len(got) \in Nat
      /\ Due \in 1 .. Len(sent) + 1 /\ Due' = Due /\ n \in Nat /\ n = Len(sent) + 1
  BY <1>1, <1>3, Lens DEF Yielded, Due
<1>5. u \in Seq(Unit) /\ Len(u) \in Nat \ {0} /\ \E h \in 1 .. Len(u) : Shape(u, n, h)
  <2>1. /\ Shape(u, n, Len(l.head)) /\ u \in Seq(Unit) /\ Len(l.head) \in 1 .. Len(u)
    BY <1>4, UnitsShape
  <2> HIDE DEF u
  <2> QED BY <2>1
<1> HIDE DEF u, n
<1>6. /\ sent' \in Seq(Seq(Unit)) /\ Len(sent') = n /\ sent'[n] = u
      /\ \A i \in 1 .. Len(sent) : sent'[i] = sent[i]
  BY <1>1, <1>3, <1>4, <1>5 DEF StreamTypes
<1>7. wire' \in Seq(Unit) /\ Pending' = Pending \o u
  <2>1. src \in Seq(Unit) /\ wire \in Seq(Unit)
    BY <1>1 DEF StreamTypes
  <2>2. Pending' = src \o (wire \o u)
    BY <1>3 DEF Pending
  <2>3. src \o (wire \o u) = (src \o wire) \o u
    BY <1>5, <2>1, ConcatAssociative
  <2> QED BY <1>3, <1>5, <2>1, <2>2, <2>3, ConcatProperties DEF Pending
<1>8. Pending \in Seq(Unit) /\ Len(Pending) \in Nat /\ Len(src) \in Nat /\ Len(src) <= Len(Pending)
  BY <1>1, PendingIs
<1>9. PICK f : /\ Parses(f, Due, Append(sent, u), Pending \o u)
               /\ f[Len(sent) + 1] = Len(Pending) + 1
               /\ \A i \in Due .. Len(sent) : f[i] = at[i]
  <2>1. u # <<>> /\ sent \in Seq(Seq(Unit))
    BY <1>1, <1>5 DEF StreamTypes
  <2> QED BY <1>2, <1>4, <1>5, <1>8, <2>1, GrowsByMessage
<1>10. Parses(f, Due', sent', Pending')
  BY <1>3, <1>4, <1>7, <1>9
<1>11. ASSUME ~readable' PROVE Beyond(f, Due', sent', Len(src'))
  <2>1. CASE Due = n
    <3>1. f[Due] + Len(sent'[Due]) - 1 > Len(src)
      <4>1. f[Due] = Len(Pending) + 1 /\ Len(sent'[Due]) = Len(u)
        BY <1>4, <1>6, <1>9, <2>1
      <4> QED BY <1>5, <1>8, <4>1
    <3> QED BY <1>3, <1>4, <3>1 DEF Beyond
  <2>2. CASE Due # n
    <3>1. Due \in Due .. Len(sent) /\ Due \in 1 .. Len(sent)
      BY <1>4, <2>2
    <3>2. at[Due] + Len(sent[Due]) - 1 > Len(src)
      BY <1>2, <1>3, <1>11, <3>1 DEF Beyond
    <3>3. f[Due] = at[Due] /\ sent'[Due] = sent[Due]
      BY <1>6, <1>9, <3>1
    <3> QED BY <1>3, <1>4, <3>2, <3>3 DEF Beyond
  <2> QED BY <2>1, <2>2
<1>12. StreamTypes' /\ Progressing'
  BY <1>1, <1>3, <1>6, <1>7 DEF StreamTypes, Progressing
<1>13. Yielded'
  <2>1. \A i \in 1 .. n : i = n \/ i \in 1 .. Len(sent)
    BY <1>4
  <2>2. \A i \in 1 .. Len(sent) : \E h \in 1 .. Len(sent[i]) : Shape(sent[i], i, h)
    BY <1>1 DEF Yielded
  <2>3. \A i \in 1 .. n : \E h \in 1 .. Len(sent'[i]) : Shape(sent'[i], i, h)
    BY <1>5, <1>6, <2>1, <2>2
  <2>4. Len(got) <= n /\ \A i \in 1 .. Len(got) : got[i] = sent'[i]
    BY <1>1, <1>4, <1>6 DEF Yielded
  <2> QED BY <1>3, <1>6, <2>3, <2>4 DEF Yielded
<1>14. f \in [Due' .. Len(sent') -> 1 .. Len(Pending')]
  BY <1>10 DEF Parses
<1> QED BY <1>10, <1>11, <1>12, <1>13, <1>14 DEF DecoderInv

(* A step that leaves the messages alone and moves their places, ...       *)
LEMMA NewParse ==
    ASSUME DecoderInv, UNCHANGED sent, UNCHANGED got,
           src' \in Seq(Unit), wire' \in Seq(Unit), progress' \in Nat, Progressing',
           NEW f, Parses(f, Due', sent', Pending'),
           ~readable' => Beyond(f, Due', sent', Len(src'))
    PROVE  DecoderInv'
<1>1. StreamTypes' /\ Yielded'
  BY DEF DecoderInv, StreamTypes, Yielded
<1>2. f \in [Due' .. Len(sent') -> 1 .. Len(Pending')]
  BY DEF Parses
<1> QED BY <1>1, <1>2 DEF DecoderInv

(* ... and one after which nothing is decoded.                             *)
LEMMA Closed ==
    ASSUME DecoderInv, UNCHANGED sent, UNCHANGED got,
           src' \in Seq(Unit), wire' \in Seq(Unit), progress' \in Nat, ~open'
    PROVE  DecoderInv'
<1>1. StreamTypes' /\ Yielded'
  BY DEF DecoderInv, StreamTypes, Yielded
<1> QED BY <1>1 DEF DecoderInv

LEMMA SendKeepAliveInv ==
    ASSUME DecoderInv, NEW n \in 1 .. 2, SendKeepAlive(n)
    PROVE  DecoderInv'
<1> DEFINE u == [i \in 1 .. n |-> Crlf]
<1>1. StreamTypes /\ Yielded /\ open /\ Progressing
  BY DEF DecoderInv, SendKeepAlive
<1>2. PICK at : Parses(at, Due, sent, Pending) /\ (~readable => Beyond(at, Due, sent, Len(src)))
  BY <1>1 DEF DecoderInv
<1>3. wire' = wire \o u /\ UNCHANGED <<sent, src, progress, readable, got, open>>
  BY DEF SendKeepAlive, vars
<1>4. u \in Seq(Unit) /\ \A j \in 1 .. Len(u) : u[j] = Crlf
  <2>1. Crlf \in Unit
    BY DEF Crlf, Line, Unit
  <2> QED BY <2>1
<1> HIDE DEF u
<1>5. wire' \in Seq(Unit) /\ Pending' = Pending \o u
  <2>1. src \in Seq(Unit) /\ wire \in Seq(Unit)
    BY <1>1 DEF StreamTypes
  <2>2. Pending' = src \o (wire \o u)
    BY <1>3 DEF Pending
  <2>3. src \o (wire \o u) = (src \o wire) \o u
    BY <1>4, <2>1, ConcatAssociative
  <2> QED BY <1>3, <1>4, <2>1, <2>2, <2>3, ConcatProperties DEF Pending
<1>6. Parses(at, Due, sent, Pending \o u)
  BY <1>1, <1>2, <1>4, GrowsByKeepAlive, Lens, PendingIs DEF StreamTypes
<1>7. Due' = Due
  BY <1>3 DEF Due
<1>8. src' \in Seq(Unit) /\ progress' \in Nat /\ Progressing'
  BY <1>1, <1>3 DEF StreamTypes, Progressing
<1>9. Parses(at, Due', sent', Pending') /\ (~readable' => Beyond(at, Due', sent', Len(src')))
  BY <1>2, <1>3, <1>5, <1>6, <1>7
<1> QED BY <1>3, <1>5, <1>8, <1>9, NewParse

LEMMA ReadInv ==
    ASSUME DecoderInv, NEW n \in 1 .. Len(wire), Read(n)
    PROVE  DecoderInv'
<1> DEFINE a == SubSeq(wire, 1, n)
<1>1. StreamTypes /\ Yielded /\ open /\ Progressing
  BY DEF DecoderInv, Read, Polled
<1>2. PICK at : Parses(at, Due, sent, Pending)
  BY <1>1 DEF DecoderInv
<1>3. /\ src' = src \o a /\ wire' = SubSeq(wire, n + 1, Len(wire)) /\ readable' = TRUE
      /\ UNCHANGED <<sent, progress, got, open>>
  BY DEF Read, vars
<1>4. /\ src \in Seq(Unit) /\ wire \in Seq(Unit) /\ n \in 0 .. Len(wire) /\ Len(src) \in Nat
      /\ progress \in Nat
  BY <1>1 DEF StreamTypes
<1>5. a \in Seq(Unit) /\ Len(a) = n /\ wire' \in Seq(Unit)
  BY <1>3, <1>4, Cut
<1>6. Pending' = Pending
  BY <1>3, <1>4, Rejoin DEF Pending
<1> HIDE DEF a
<1>7. /\ src' \in Seq(Unit) /\ Len(src') = Len(src) + Len(a)
      /\ \A i \in 1 .. Len(src) + Len(a) : src'[i] = IF i <= Len(src) THEN src[i] ELSE a[i - Len(src)]
  BY <1>3, <1>4, <1>5, ConcatProperties
<1>8. \A i \in 1 .. Len(src) : src'[i] = src[i]
  BY <1>4, <1>5, <1>7
<1>9. Progressing'
  <2>1. progress' <= Len(src')
    <3>1. progress' = progress /\ progress <= Len(src) /\ Len(src') = Len(src) + n /\ n \in Nat
      BY <1>1, <1>3, <1>5, <1>7 DEF Progressing
    <3> QED BY <1>4, <3>1
  <2>2. ASSUME progress > 0
        PROVE  src'[1].kind # "crlf" /\ \A p \in 1 .. progress : ~src'[p].last
    <3>1. 1 \in 1 .. Len(src) /\ \A p \in 1 .. progress : p \in 1 .. Len(src)
      BY <1>1, <1>4, <2>2 DEF Progressing
    <3> QED BY <1>1, <1>8, <2>2, <3>1 DEF Progressing
  <2> QED BY <1>3, <2>1, <2>2 DEF Progressing
<1>10. Parses(at, Due', sent', Pending')
  BY <1>2, <1>3, <1>6 DEF Due
<1> QED BY <1>3, <1>4, <1>5, <1>7, <1>9, <1>10, NewParse

LEMMA DecodeKeepAliveInv ==
    ASSUME DecoderInv, DecodeKeepAlive
    PROVE  DecoderInv'
<1> DEFINE c == Leading
<1>1. StreamTypes /\ Yielded /\ open /\ Progressing /\ readable /\ c > 0
  BY DEF DecoderInv, DecodeKeepAlive, Polled
<1>2. PICK at : Parses(at, Due, sent, Pending)
  BY <1>1 DEF DecoderInv
<1>3. /\ src' = SubSeq(src, c + 1, Len(src))
      /\ UNCHANGED <<sent, wire, progress, readable, got>>
  BY DEF DecodeKeepAlive
<1>4. /\ src \in Seq(Unit) /\ wire \in Seq(Unit) /\ Len(src) \in Nat
      /\ progress \in Nat /\ sent \in Seq(Seq(Unit))
  BY <1>1 DEF StreamTypes
<1>5. c \in 0 .. Len(src) /\ \A p \in 1 .. c : src[p].kind = "crlf"
  BY <1>4, LeadingIs
<1> HIDE DEF c
<1>6. src' \in Seq(Unit) /\ Len(src') \in Nat /\ wire' \in Seq(Unit)
  BY <1>3, <1>4, <1>5, Cut
<1>7. progress = 0
  <2>1. src[1].kind = "crlf"
    BY <1>1, <1>5
  <2> QED BY <1>1, <1>4, <2>1 DEF Progressing
<1>8. progress' \in Nat /\ Progressing'
  BY <1>3, <1>6, <1>7 DEF Progressing
<1>9. /\ Pending' \in Seq(Unit) /\ Len(Pending') = Len(Pending) - c
      /\ \A p \in 1 .. Len(Pending) - c : Pending'[p] = Pending[c + p]
  <2>1. Pending' = SubSeq(src, c + 1, Len(src)) \o wire /\ Pending = src \o wire
    BY <1>3 DEF Pending
  <2>2. /\ SubSeq(src, c + 1, Len(src)) \o wire \in Seq(Unit)
        /\ Len(SubSeq(src, c + 1, Len(src)) \o wire) = Len(src \o wire) - c
        /\ \A p \in 1 .. Len(src \o wire) - c :
              (SubSeq(src, c + 1, Len(src)) \o wire)[p] = (src \o wire)[c + p]
    BY <1>4, <1>5, TakenFromFirst
  <2> QED BY <2>1, <2>2
<1>10. ASSUME NEW n \in Due .. Len(sent) PROVE at[n] > c
  <2> SUFFICES ASSUME ~(at[n] > c) PROVE FALSE
    OBVIOUS
  <2>1. n \in 1 .. Len(sent) /\ Len(sent[n]) \in Nat \ {0}
    BY <1>1, Lens
  <2>2. at[n] \in 1 .. Len(Pending) /\ Len(Pending) \in Nat
    BY <1>1, <1>2, PendingIs DEF Parses
  <2>3. at[n] \in 1 .. c /\ at[n] \in 1 .. Len(src) /\ at[n] + 1 - 1 = at[n]
    BY <1>4, <1>5, <2>2
  <2>4. Pending[at[n]].kind = "crlf"
    BY <1>1, <1>5, <2>3, PendingIs
  <2>5. 1 \in 1 .. Len(sent[n])
    BY <2>1
  <2>6. Pending[at[n] + 1 - 1] = sent[n][1]
    BY <1>2, <2>5 DEF Parses
  <2>7. sent[n][1].kind # "crlf"
    BY <1>1, <2>1, <2>5 DEF Yielded, Shape
  <2> QED BY <2>3, <2>4, <2>6, <2>7
<1>11. PICK f : Parses(f, Due, sent, Pending')
  <2>1. /\ Due \in Nat \ {0} /\ Due \in Nat /\ Due >= Due /\ Pending \in Seq(Unit)
        /\ c \in 0 .. Len(Pending) /\ \A n \in Due .. Len(sent) : ~(n < Due)
    BY <1>1, <1>4, <1>5, Lens, PendingIs
  <2> QED BY <1>2, <1>4, <1>9, <1>10, <2>1, Shrinks
<1>12. Parses(f, Due', sent', Pending')
  BY <1>3, <1>11 DEF Due
<1> QED BY <1>1, <1>3, <1>6, <1>8, <1>12, NewParse

LEMMA DecodeIncompleteInv ==
    ASSUME DecoderInv, DecodeIncomplete
    PROVE  DecoderInv'
<1>1. /\ StreamTypes /\ Yielded /\ open /\ Progressing /\ readable /\ Leading = 0
      /\ ~Complete
  BY DEF DecoderInv, DecodeIncomplete, Polled
<1>2. PICK at : Parses(at, Due, sent, Pending)
  BY <1>1 DEF DecoderInv
<1>3. /\ progress' = IF HeadEnds = {} THEN Len(src) ELSE progress
      /\ UNCHANGED <<src, sent, wire, got, open>>
  BY DEF DecodeIncomplete, vars
<1>4. /\ src \in Seq(Unit) /\ wire \in Seq(Unit) /\ Len(src) \in Nat
      /\ progress \in Nat
  BY <1>1 DEF StreamTypes
<1>5. Parses(at, Due', sent', Pending')
  BY <1>2, <1>3 DEF Due, Pending
<1>6. progress' \in Nat
  BY <1>3, <1>4
<1>7. Beyond(at, Due, sent, Len(src)) /\ Progressing'
  <2>1. CASE src = <<>>
    <3>1. Len(src) = 0 /\ progress = 0
      BY <1>1, <1>4, <2>1 DEF Progressing
    <3>2. ASSUME Due <= Len(sent) PROVE at[Due] + Len(sent[Due]) - 1 > 0
      <4>1. Due \in Due .. Len(sent) /\ Len(sent[Due]) \in Nat \ {0}
        BY <1>1, <3>2, Lens
      <4>2. at[Due] \in 1 .. Len(Pending) /\ Len(Pending) \in Nat
        BY <1>1, <1>2, <4>1, PendingIs DEF Parses
      <4>3. at[Due] \in Nat \ {0}
        BY <4>2
      <4> QED BY <4>1, <4>3
    <3>3. progress' = 0
      BY <1>3, <3>1
    <3> QED BY <1>3, <3>1, <3>2, <3>3 DEF Beyond, Progressing
  <2>2. CASE src # <<>>
    <3> DEFINE m == sent[Due]
    <3>1. src[1].kind # "crlf" /\ Len(src) > 0
      BY <1>1, <1>4, <2>2, LeadingIs
    <3>2. /\ Due \in 1 .. Len(sent) /\ at[Due] = 1
          /\ \A p \in 1 .. Len(src) : p <= Len(m) => src[p] = m[p]
      BY <1>1, <1>2, <2>2, <3>1, DueBegins
    <3>3. PICK h \in 1 .. Len(m) : Shape(m, Due, h)
      BY <1>1, <1>2, <2>2, <3>1, DueBegins
    <3>4. /\ HeadEnds = {} <=> Len(src) < h
          /\ Len(src) >= h => HeadEnd = h /\ ContentLen = Len(m) - h
      BY <1>1, <1>2, <2>2, <3>3, DueIsFound
    <3>5. Len(m) \in Nat /\ h \in 1 .. Len(m) /\ \A j \in 1 .. Len(m) : m[j].last <=> j = h
      BY <3>3 DEF Shape
    <3> HIDE DEF m
    <3>6. Len(src) < Len(m)
      <4>1. CASE Len(src) < h
        BY <1>4, <3>5, <4>1
      <4>2. CASE ~(Len(src) < h)
        <5>1. Len(src) >= h
          BY <1>4, <3>5, <4>2
        <5>2. HeadEnds # {} /\ HeadEnd = h /\ ContentLen = Len(m) - h
          BY <3>4, <4>2, <5>1
        <5>3. ~(Len(src) >= h + (Len(m) - h))
          BY <1>1, <5>2 DEF Complete
        <5> QED BY <1>4, <3>5, <5>3
      <4> QED BY <4>1, <4>2
    <3>7. Beyond(at, Due, sent, Len(src))
      <4>1. 1 + Len(m) - 1 > Len(src)
        BY <1>4, <3>5, <3>6
      <4> QED BY <3>2, <4>1 DEF Beyond, m
    <3>8. Progressing'
      <4>1. CASE HeadEnds = {}
        <5>1. progress' = Len(src) /\ src' = src /\ Len(src) < h
          BY <1>3, <3>4, <4>1
        <5>2. ASSUME NEW p \in 1 .. Len(src) PROVE ~src[p].last
          <6>1. p \in 1 .. Len(m) /\ p <= Len(m) /\ p # h
            BY <1>4, <3>5, <3>6, <5>1
          <6> QED BY <3>2, <3>5, <6>1
        <5> QED BY <1>4, <3>1, <5>1, <5>2 DEF Progressing
      <4>2. CASE HeadEnds # {}
        BY <1>1, <1>3, <4>2 DEF Progressing
      <4> QED BY <4>1, <4>2
    <3> QED BY <3>7, <3>8
  <2> QED BY <2>1, <2>2
<1>8. Beyond(at, Due', sent', Len(src'))
  BY <1>3, <1>7 DEF Due
<1> QED BY <1>3, <1>4, <1>5, <1>6, <1>7, <1>8, NewParse

LEMMA DecodeMessageInv ==
    ASSUME DecoderInv, DecodeMessage
    PROVE  DecoderInv'
<1> DEFINE m == sent[Due]  c == Len(m)
<1>1. /\ StreamTypes /\ Yielded /\ open /\ Progressing /\ readable /\ Leading = 0
      /\ Complete
  BY DEF DecoderInv, DecodeMessage, Polled
<1>2. PICK at : Parses(at, Due, sent, Pending)
  BY <1>1 DEF DecoderInv
<1>3. /\ src \in Seq(Unit) /\ wire \in Seq(Unit) /\ Len(src) \in Nat
      /\ progress \in Nat /\ sent \in Seq(Seq(Unit)) /\ got \in Seq(Seq(Unit))
  BY <1>1 DEF StreamTypes
<1>4. src # <<>>
  <2>1. \E i \in progress + 1 .. Len(src) : TRUE
    BY <1>1 DEF Complete, HeadEnds
  <2> QED BY <1>3, <2>1
<1>5. src[1].kind # "crlf"
  BY <1>1, <1>3, <1>4, LeadingIs
<1>6. /\ Due \in 1 .. Len(sent) /\ at[Due] = 1 /\ c <= Len(Pending)
      /\ \A p \in 1 .. Len(src) : p <= c => src[p] = m[p]
  BY <1>1, <1>2, <1>4, <1>5, DueBegins
<1>7. PICK h \in 1 .. c : Shape(m, Due, h)
  BY <1>1, <1>2, <1>4, <1>5, DueBegins
<1>8. /\ HeadEnds = {} <=> Len(src) < h
      /\ Len(src) >= h => HeadEnd = h /\ ContentLen = c - h
  BY <1>1, <1>2, <1>4, <1>7, DueIsFound
<1>9. m \in Seq(Unit) /\ c \in Nat /\ h \in 1 .. c /\ Len(m) = c
  BY <1>7 DEF Shape
<1> HIDE DEF m, c
<1>10. HeadEnd + ContentLen = c /\ c <= Len(src) /\ c \in 0 .. Len(src)
  <2>1. Len(src) >= h
    BY <1>1, <1>3, <1>8, <1>9 DEF Complete
  <2>2. HeadEnd + ContentLen = c
    BY <1>8, <1>9, <2>1
  <2>3. Len(src) >= c
    BY <1>1, <2>2 DEF Complete
  <2> QED BY <1>3, <1>9, <2>2, <2>3
<1>11. /\ src' = SubSeq(src, c + 1, Len(src)) /\ progress' = 0
       /\ UNCHANGED <<sent, wire, readable>>
       /\ \/ got' = Append(got, SubSeq(src, 1, c))
          \/ UNCHANGED got /\ open' = FALSE
  BY <1>10 DEF DecodeMessage, Arrive
<1>12. SubSeq(src, 1, c) = m
  <2>1. /\ SubSeq(src, 1, c) \in Seq(Unit) /\ Len(SubSeq(src, 1, c)) = c
        /\ \A i \in 1 .. c : SubSeq(src, 1, c)[i] = src[i]
    BY <1>3, <1>10, Cut
  <2>2. \A i \in 1 .. c : src[i] = m[i]
    BY <1>3, <1>6, <1>9, <1>10
  <2> QED BY <1>9, <2>1, <2>2, SeqEqual
<1>13. src' \in Seq(Unit) /\ Len(src') \in Nat /\ wire' \in Seq(Unit) /\ progress' \in Nat
  BY <1>3, <1>10, <1>11, Cut
<1>14. CASE UNCHANGED got /\ open' = FALSE
  BY <1>11, <1>13, <1>14, Closed
<1>15. CASE got' = Append(got, m)
  <2>1. /\ got' \in Seq(Seq(Unit)) /\ Len(got') = Due /\ got'[Due] = m /\ Due' = Due + 1
        /\ \A i \in 1 .. Len(got) : got'[i] = got[i]
    BY <1>3, <1>9, <1>15 DEF Due
  <2>2. StreamTypes'
    BY <1>3, <1>11, <1>13, <2>1 DEF StreamTypes
  <2>3. Due = Len(got) + 1 /\ Len(got) \in Nat /\ Due \in Nat \ {0} /\ Len(sent) \in Nat
    BY <1>1, Lens
  <2>4. Yielded'
    <3>1. \A i \in 1 .. Due : i = Due \/ i \in 1 .. Len(got)
      BY <2>3
    <3>2. \A i \in 1 .. Due : got'[i] = sent[i]
      BY <1>1, <2>1, <3>1 DEF Yielded, m
    <3>3. Due <= Len(sent)
      BY <1>6
    <3> QED BY <1>1, <1>11, <2>1, <3>2, <3>3 DEF Yielded
  <2>5. Progressing'
    BY <1>11, <1>13 DEF Progressing
  <2>6. /\ Pending' \in Seq(Unit) /\ Len(Pending') = Len(Pending) - c
        /\ \A p \in 1 .. Len(Pending) - c : Pending'[p] = Pending[c + p]
    <3>1. Pending' = SubSeq(src, c + 1, Len(src)) \o wire /\ Pending = src \o wire
      BY <1>11 DEF Pending
    <3>2. /\ SubSeq(src, c + 1, Len(src)) \o wire \in Seq(Unit)
          /\ Len(SubSeq(src, c + 1, Len(src)) \o wire) = Len(src \o wire) - c
          /\ \A p \in 1 .. Len(src \o wire) - c :
                (SubSeq(src, c + 1, Len(src)) \o wire)[p] = (src \o wire)[c + p]
      BY <1>3, <1>10, TakenFromFirst
    <3> QED BY <3>1, <3>2
  <2>7. \A n \in Due + 1 .. Len(sent) : at[n] > c
    <3> SUFFICES ASSUME NEW n \in Due + 1 .. Len(sent) PROVE at[n] > c
      OBVIOUS
    <3>1. n \in Due .. Len(sent) /\ Due \in Due .. Len(sent) /\ Due < n
      BY <1>6, <2>3
    <3>2. at[Due] + Len(sent[Due]) <= at[n]
      BY <1>2, <3>1 DEF Parses
    <3>3. at[n] \in 1 .. Len(Pending) /\ Len(Pending) \in Nat
      BY <1>1, <1>2, <3>1, PendingIs DEF Parses
    <3>4. 1 + c <= at[n] /\ at[n] \in Nat
      BY <1>6, <3>2, <3>3 DEF m, c
    <3> QED BY <1>9, <3>4
  <2>8. ASSUME NEW n \in Due .. Len(sent), n < Due + 1
        PROVE  at[n] + Len(sent[n]) - 1 <= c
    <3>1. n = Due
      BY <2>3, <2>8
    <3>2. at[n] = 1 /\ Len(sent[n]) = c
      BY <1>6, <3>1 DEF m, c
    <3> QED BY <1>9, <3>2
  <2>9. /\ Pending \in Seq(Unit) /\ c \in 0 .. Len(Pending) /\ Due + 1 \in Nat
        /\ Due + 1 >= Due
    BY <1>1, <1>6, <1>9, <2>3, PendingIs
  <2>10. PICK e : e = Due + 1
    OBVIOUS
  <2>11. PICK f : Parses(f, e, sent, Pending')
    <3>1. /\ e \in Nat /\ e >= Due /\ \A n \in e .. Len(sent) : at[n] > c
          /\ \A n \in Due .. Len(sent) : n < e => at[n] + Len(sent[n]) - 1 <= c
      BY <2>7, <2>8, <2>9, <2>10
    <3> QED BY <1>2, <1>3, <2>3, <2>6, <2>9, <3>1, Shrinks
  <2>12. Parses(f, Due', sent', Pending')
    BY <1>11, <2>1, <2>10, <2>11
  <2>13. f \in [Due' .. Len(sent') -> 1 .. Len(Pending')]
    BY <2>12 DEF Parses
  <2>14. readable'
    BY <1>1, <1>11
  <2> QED BY <2>2, <2>4, <2>5, <2>12, <2>13, <2>14 DEF DecoderInv
<1> QED BY <1>11, <1>12, <1>14, <1>15

LEMMA DecodeTooLargeInv ==
    ASSUME DecoderInv, DecodeTooLarge
    PROVE  DecoderInv'
<1>1. StreamTypes
  BY DEF DecoderInv
<1>2. src' \in Seq(Unit) /\ ~open' /\ UNCHANGED <<sent, wire, progress, got>>
  <2>1. <<>> \in Seq(Unit)
    OBVIOUS
  <2> QED BY <1>1, <2>1 DEF DecodeTooLarge, Arrive, StreamTypes
<1> QED BY <1>1, <1>2, Closed DEF StreamTypes

(* The other steps are none of the stream.                                 *)
LEMMA StreamKept ==
    ASSUME DecoderInv, UNCHANGED stream, open' => open
    PROVE  DecoderInv'
<1>1. UNCHANGED <<sent, wire, src, progress, readable, got>>
  BY DEF stream
<1>2. StreamTypes' /\ Yielded'
  BY <1>1 DEF DecoderInv, StreamTypes, Yielded
<1>3. CASE ~open'
  BY <1>2, <1>3 DEF DecoderInv
<1>4. CASE open'
  <2>1. open
    BY <1>4
  <2>2. PICK at : /\ Parses(at, Due, sent, Pending)
                  /\ ~readable => Beyond(at, Due, sent, Len(src))
    BY <2>1 DEF DecoderInv
  <2>3. /\ Parses(at, Due', sent', Pending')
        /\ ~readable' => Beyond(at, Due', sent', Len(src'))
    BY <1>1, <2>2 DEF Due, Pending
  <2>4. Progressing'
    BY <1>1, <2>1 DEF DecoderInv, Progressing
  <2> QED BY <1>1, <1>2, <2>3, <2>4, NewParse DEF StreamTypes
<1> QED BY <1>3, <1>4

LEMMA DecoderInit == StreamInit => DecoderInv
<1> SUFFICES ASSUME StreamInit PROVE DecoderInv
  OBVIOUS
<1>1. /\ sent = <<>> /\ wire = <<>> /\ src = <<>> /\ progress = 0 /\ got = <<>>
  BY DEF StreamInit
<1>2. StreamTypes /\ Yielded /\ Progressing
  BY <1>1 DEF StreamTypes, Yielded, Progressing
<1>3. Due .. Len(sent) = {} /\ Due = 1 /\ Len(sent) = 0
  BY <1>1 DEF Due
<1>4. Len(Pending) = 0 /\ 1 .. Len(Pending) = {}
  BY <1>1, <1>2, PendingIs
<1>5. PICK at : at = [n \in {} |-> 1]
  OBVIOUS
<1>6. at \in [Due .. Len(sent) -> 1 .. Len(Pending)]
  BY <1>3, <1>5
<1>7. Parses(at, Due, sent, Pending) /\ Beyond(at, Due, sent, Len(src))
  BY <1>3, <1>4, <1>6 DEF Parses, Beyond
<1> QED BY <1>2, <1>6, <1>7 DEF DecoderInv

LEMMA DecoderNext ==
    ASSUME LengthIsLast, DecoderInv, [StreamNext]_all
    PROVE  DecoderInv'
<1>1. CASE Task /\ UNCHANGED stream
  <2>1. open' = open
    BY <1>1 DEF Task, SelectItem, SelectDropped, SelectNotifier, SelectTimeout,
                UseForMessage, UseForKeepAlive, UseForClosed, SetUsedFails, End
  <2> QED BY <1>1, <2>1, StreamKept
<1>2. CASE Stack /\ UNCHANGED stream
  <2>1. open' = open
    BY <1>2 DEF Stack, FindIdling, Clone, DropHandle
  <2> QED BY <1>2, <2>1, StreamKept
<1>3. CASE Pass
  BY <1>3, StreamKept DEF Pass, Tick
<1>4. CASE ReadEnd
  BY <1>4, StreamKept DEF ReadEnd, Arrive
<1>5. CASE UNCHANGED all
  BY <1>5, StreamKept DEF all, vars
<1>6. CASE Framed
  <2>1. CASE \E n \in 1 .. Len(wire) : Read(n)
    BY <2>1, ReadInv
  <2> QED BY <1>4, <1>6, <2>1, DecodeKeepAliveInv, DecodeTooLargeInv, DecodeIncompleteInv,
             DecodeMessageInv DEF Framed
<1>7. CASE Remote
  BY <1>7, SendInv, SendKeepAliveInv DEF Remote
<1> QED BY <1>1, <1>2, <1>3, <1>5, <1>6, <1>7 DEF StreamNext

(* For messages whose Content-Length ends the head, the decoder's books    *)
(* are right after any reads: what it has not yielded can be told apart in *)
(* what is pending, and a head_progress is of the message that is due.     *)
THEOREM DecoderInvariant ==
    ASSUME LengthIsLast
    PROVE  StreamSpec => []DecoderInv
<1>1. DecoderInv /\ [StreamNext]_all => DecoderInv'
  BY DecoderNext
<1> QED BY <1>1, DecoderInit, PTL DEF StreamSpec

(* Hence decode yields the messages that were sent, in their order and     *)
(* each with its own body, wherever the stream is cut.                     *)
THEOREM FramesAreIntact ==
    ASSUME LengthIsLast
    PROVE  StreamSpec => []FramesIntact
<1>1. ASSUME DecoderInv PROVE FramesIntact
  <2>1. /\ got \in Seq(Seq(Unit)) /\ sent \in Seq(Seq(Unit)) /\ Len(got) <= Len(sent)
        /\ \A i \in 1 .. Len(got) : got[i] = sent[i]
    BY <1>1 DEF DecoderInv, StreamTypes, Yielded
  <2>2. Len(got) \in 0 .. Len(got) /\ Len(got) \in 0 .. Len(sent) /\ Len(got) \in Nat
    BY <2>1
  <2> DEFINE a == SubSeq(got, 1, Len(got))  b == SubSeq(sent, 1, Len(got))
  <2>3. a \in Seq(Seq(Unit)) /\ Len(a) = Len(got) /\ \A i \in 1 .. Len(got) : a[i] = got[i]
    BY <2>1, <2>2, Cut
  <2>4. b \in Seq(Seq(Unit)) /\ Len(b) = Len(got) /\ \A i \in 1 .. Len(got) : b[i] = sent[i]
    BY <2>1, <2>2, Cut
  <2> HIDE DEF a, b
  <2>5. a = b
    BY <2>1, <2>3, <2>4, SeqEqual
  <2> QED BY <2>1, <2>5 DEF FramesIntact, IsPrefix, a, b
<1> QED BY <1>1, DecoderInvariant, PTL

(* And it wants more only while the message that is due is not all there.  *)
THEOREM NothingIsHeldBack ==
    ASSUME LengthIsLast
    PROVE  StreamSpec => []NothingHeldBack
<1>1. ASSUME DecoderInv, Running, open, ~readable, Len(got) < Len(sent)
      PROVE  Cardinality({i \in DOMAIN src : src[i].msg = Due}) < Len(sent[Due])
  <2> DEFINE m == sent[Due]  I == {i \in DOMAIN src : src[i].msg = Due}  k == Len(src)
  <2>1. StreamTypes /\ Yielded
    BY <1>1 DEF DecoderInv
  <2>2. PICK at : Parses(at, Due, sent, Pending) /\ Beyond(at, Due, sent, k)
    BY <1>1 DEF DecoderInv
  <2>3. /\ Due \in Due .. Len(sent) /\ Due \in 1 .. Len(sent) /\ Len(m) \in Nat \ {0}
        /\ Due \in Nat \ {0} /\ \A n \in Due .. Len(sent) : n \in 1 .. Len(sent)
    BY <1>1, <2>1, Lens
  <2>4. at[Due] \in 1 .. Len(Pending) /\ Len(Pending) \in Nat
    <3>1. at \in [Due .. Len(sent) -> 1 .. Len(Pending)]
      BY <2>2 DEF Parses
    <3>2. Len(Pending) \in Nat
      BY <2>1, PendingIs
    <3> QED BY <2>3, <3>1, <3>2
  <2>5. k \in Nat /\ DOMAIN src = 1 .. k
    BY <2>1 DEF StreamTypes
  <2>6. at[Due] + Len(m) - 1 > k
    BY <2>2, <2>3 DEF Beyond
  <2>7. ASSUME NEW i \in I PROVE i \in at[Due] .. k
    <3>1. i \in 1 .. k /\ Pending[i].msg = Due /\ i \in 1 .. Len(Pending)
      BY <2>1, <2>5, PendingIs
    <3>2. Pending[i] # Crlf
      BY <2>3, <3>1 DEF Crlf, Line
    <3>3. PICK n \in Due .. Len(sent) : i \in at[n] .. at[n] + Len(sent[n]) - 1
      BY <2>2, <3>1, <3>2 DEF Parses
    <3>4. at[n] \in 1 .. Len(Pending) /\ n \in 1 .. Len(sent) /\ Len(sent[n]) \in Nat \ {0}
      BY <2>1, <2>2, <2>3, Lens DEF Parses
    <3>5. (i - at[n]) + 1 \in 1 .. Len(sent[n]) /\ at[n] + ((i - at[n]) + 1) - 1 = i
      <4>1. at[n] \in Nat /\ Len(sent[n]) \in Nat /\ i \in Nat
        BY <2>4, <3>1, <3>4
      <4>2. \A x, y, z \in Nat : z \in x .. x + y - 1 =>
                (z - x) + 1 \in 1 .. y /\ x + ((z - x) + 1) - 1 = z
        OBVIOUS
      <4> QED BY <3>3, <4>1, <4>2
    <3>6. Pending[i] = sent[n][(i - at[n]) + 1]
      BY <2>2, <3>5 DEF Parses
    <3>7. sent[n][(i - at[n]) + 1].msg = n
      BY <2>1, <3>4, <3>5 DEF Yielded, Shape
    <3>8. n = Due
      BY <3>1, <3>6, <3>7
    <3> QED BY <2>4, <2>5, <3>1, <3>3, <3>8
  <2>8. IsFiniteSet(at[Due] .. k) /\ Cardinality(at[Due] .. k) < Len(m)
    <3>1. at[Due] \in Int /\ k \in Int
      BY <2>4, <2>5
    <3>2. /\ IsFiniteSet(at[Due] .. k)
          /\ Cardinality(at[Due] .. k) = IF at[Due] > k THEN 0 ELSE k - at[Due] + 1
      BY <3>1, FS_Interval
    <3>3. (IF at[Due] > k THEN 0 ELSE k - at[Due] + 1) < Len(m)
      <4>1. \A x, y \in Nat : x + y - 1 > k /\ y > 0 => (IF x > k THEN 0 ELSE k - x + 1) < y
        BY <2>5
      <4> QED BY <2>3, <2>4, <2>6, <4>1
    <3> QED BY <3>2, <3>3
  <2>9. I \subseteq at[Due] .. k
    BY <2>7
  <2>10. Cardinality(I) <= Cardinality(at[Due] .. k) /\ Cardinality(I) \in Nat
         /\ Cardinality(at[Due] .. k) \in Nat
    BY <2>8, <2>9, FS_Subset, FS_CardinalityType
  <2> QED BY <2>3, <2>8, <2>10
<1>2. DecoderInv => NothingHeldBack
  BY <1>1 DEF NothingHeldBack, Due
<1> QED BY <1>2, DecoderInvariant, PTL
=============================================================================
