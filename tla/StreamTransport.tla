-------------------------- MODULE StreamTransport --------------------------
(***************************************************************************)
(* A managed connection together with what FramedRead makes of the bytes   *)
(* that arrive on it (transport/streaming/decode.rs, PullParser of         *)
(* sip-types).  TCP and TLS deliver the bytes of the peer's messages in    *)
(* order and cut anywhere; StreamingDecoder::decode is called after every  *)
(* read until it wants more, and what it yields is what the receive_task   *)
(* of ManagedTransport selects.                                            *)
(*                                                                         *)
(* The unit of the stream is as much as PullParser::next takes at once: a  *)
(* line with its line break and the two bytes it looks ahead, so that the  *)
(* last line of a head comes with the empty one, or a piece of a body.     *)
(***************************************************************************)
EXTENDS ManagedTransport, SequencesExt, FiniteSets

CONSTANTS
    Layouts,  \* messages the peer sends: kinds of the head's lines, length of the body
    MaxBody,  \* a Content-Length above it is refused (u16::MAX)
    MaxBuf,   \* more than this in the buffer is refused (65535)
    MaxSent   \* bound on messages and keep-alives sent

ASSUME StreamAssumption ==
    /\ {MaxBody, MaxBuf, MaxSent} \subseteq Nat
    /\ \A l \in Layouts : l.head # <<>> /\ l.body \in Nat

VARIABLES
    sent,      \* messages sent, each as its units
    wire,      \* units on their way
    src,       \* the buffer of FramedRead
    progress,  \* head_progress: units of src already looked at
    readable,  \* has FramedRead something it has not decoded?
    got,       \* messages yielded, each as the units it is made of
    keepAlives \* keep-alives sent

stream == <<sent, wire, src, progress, readable, got, keepAlives>>
all == <<vars, stream>>

Line(kind, n, len, last) == [kind |-> kind, msg |-> n, len |-> len, last |-> last]
Crlf == Line("crlf", 0, 0, FALSE)
Units(n, l) ==
    [i \in DOMAIN l.head |-> Line(l.head[i], n, l.body, i = Len(l.head))]
        \o [i \in 1 .. l.body |-> Line("body", n, 0, FALSE)]

StreamInit ==
    /\ Init
    /\ sent = <<>> /\ wire = <<>> /\ src = <<>> /\ progress = 0
    /\ readable = FALSE /\ got = <<>> /\ keepAlives = 0

-----------------------------------------------------------------------------
(* The peer: messages, keep-alive requests, responses to ours.             *)
Send(l) ==
    /\ open /\ Len(sent) + keepAlives < MaxSent
    /\ sent' = Append(sent, Units(Len(sent) + 1, l))
    /\ wire' = wire \o Units(Len(sent) + 1, l)
    /\ UNCHANGED <<vars, src, progress, readable, got, keepAlives>>

SendKeepAlive(n) ==
    /\ open /\ Len(sent) + keepAlives < MaxSent
    /\ wire' = wire \o [i \in 1 .. n |-> Crlf]
    /\ keepAlives' = keepAlives + 1
    /\ UNCHANGED <<vars, sent, src, progress, readable, got>>

-----------------------------------------------------------------------------
(* FramedRead: it is polled when the task waits for an item, reads when    *)
(* the decoder wants more, and ends after an error and at the end.         *)
Polled == Running /\ item = NoItem /\ frames = <<>> /\ open

Read(n) ==
    /\ Polled /\ ~readable /\ n <= Len(wire)
    /\ src' = src \o SubSeq(wire, 1, n)
    /\ wire' = SubSeq(wire, n + 1, Len(wire))
    /\ readable' = TRUE
    /\ UNCHANGED <<vars, sent, progress, got, keepAlives>>

ReadEnd ==
    /\ Polled /\ ~readable /\ wire = <<>>
    /\ Arrive("closed")
    /\ UNCHANGED stream

(* StreamingDecoder::decode.  Leading line breaks are stripped and are a   *)
(* keep-alive.                                                             *)
Leading == SelectInSeq(src \o <<Line("end", 0, 0, FALSE)>>, LAMBDA u : u.kind # "crlf") - 1
DecodeKeepAlive ==
    /\ Polled /\ readable /\ Leading > 0
    /\ src' = SubSeq(src, Leading + 1, Len(src))
    /\ Arrive("keepalive")
    /\ UNCHANGED <<sent, wire, progress, readable, got, keepAlives>>

(* The lines of the head from head_progress on, and the Content-Length     *)
(* among them, which is 0 when this call of decode has not seen it.        *)
HeadEnds == {i \in progress + 1 .. Len(src) : src[i].last}
HeadEnd == CHOOSE i \in HeadEnds : \A j \in HeadEnds : i <= j
Looked == progress + 1 .. IF HeadEnds = {} THEN Len(src) ELSE HeadEnd
Lengths == {i \in Looked : src[i].kind = "len"}
(* Mutant: the message ends with its head.                                 *)
NoContentLen == 0

ContentLen == IF Lengths = {} THEN 0 ELSE src[CHOOSE i \in Lengths : \A j \in Lengths : j <= i].len
TooLarge == Len(src) > MaxBuf \/ \E i \in Lengths : src[i].len > MaxBody

DecodeTooLarge ==
    /\ Polled /\ readable /\ Leading = 0 /\ TooLarge
    /\ src' = IF Len(src) > MaxBuf THEN <<>> ELSE src
    /\ Arrive("closed")
    /\ UNCHANGED <<sent, wire, progress, readable, got, keepAlives>>

(* The head or the body is not complete: the lines seen so far are not     *)
(* looked at again in the former case, and are in the latter.              *)
Complete == HeadEnds # {} /\ Len(src) >= HeadEnd + ContentLen
DecodeIncomplete ==
    /\ Polled /\ readable /\ Leading = 0 /\ ~TooLarge /\ ~Complete
    /\ progress' = IF HeadEnds = {} THEN Len(src) ELSE progress
    /\ readable' = FALSE
    /\ UNCHANGED <<vars, sent, wire, src, got, keepAlives>>

(* A message, unless its first line is none of a message.                  *)
(* Mutant: the lines looked at are not forgotten with their message.       *)
DecodeMessageKeepsProgress ==
    /\ Polled /\ readable /\ Leading = 0 /\ ~TooLarge /\ Complete
    /\ src' = SubSeq(src, HeadEnd + ContentLen + 1, Len(src))
    /\ src[1].kind = "line"
    /\ got' = Append(got, SubSeq(src, 1, HeadEnd + ContentLen)) /\ Arrive("message")
    /\ UNCHANGED <<sent, wire, progress, readable, keepAlives>>

DecodeMessage ==
    /\ Polled /\ readable /\ Leading = 0 /\ ~TooLarge /\ Complete
    /\ src' = SubSeq(src, HeadEnd + ContentLen + 1, Len(src))
    /\ progress' = 0
    /\ \/ /\ src[1].kind = "line"
          /\ got' = Append(got, SubSeq(src, 1, HeadEnd + ContentLen)) /\ Arrive("message")
       \/ /\ src[1].kind # "line"
          /\ Arrive("closed") /\ UNCHANGED got
    /\ UNCHANGED <<sent, wire, readable, keepAlives>>

-----------------------------------------------------------------------------
(* A response to a keep-alive of ours does not come within a message.      *)
Pass == Tick /\ (frames' = frames \/ (src = <<>> /\ wire = <<>>)) /\ UNCHANGED stream

Framed == \/ \E n \in 1 .. Len(wire) : Read(n)
          \/ ReadEnd \/ DecodeKeepAlive \/ DecodeTooLarge \/ DecodeIncomplete \/ DecodeMessage
Remote == (\E l \in Layouts : Send(l)) \/ \E n \in 1 .. 2 : SendKeepAlive(n)

StreamNext == \/ Task /\ UNCHANGED stream
              \/ Stack /\ UNCHANGED stream
              \/ Framed \/ Remote \/ Pass

(* As in ManagedTransport; what is in the buffer is decoded, and what has  *)
(* been sent arrives.                                                      *)
StreamSpec ==
    /\ StreamInit /\ [][StreamNext]_all
    /\ WF_all(Task /\ UNCHANGED stream) /\ WF_all(Pass)
    /\ WF_all(DecodeKeepAlive \/ DecodeTooLarge \/ DecodeIncomplete \/ DecodeMessage)
    /\ WF_all(\E n \in 1 .. Len(wire) : Read(n))

-----------------------------------------------------------------------------
(* Wherever the stream is cut, what decode yields are the messages that    *)
(* were sent, in their order and each with its own body: no part of one    *)
(* becomes another.                                                        *)
FramesIntact == IsPrefix(got, sent)

(* When decode wants more, the next message has not fully arrived: a line  *)
(* head_progress skips is never one of a later message.                    *)
NothingHeldBack ==
    Running /\ open /\ ~readable /\ Len(got) < Len(sent) =>
        LET n == Len(got) + 1
        IN  Cardinality({i \in DOMAIN src : src[i].msg = n}) < Len(sent[n])
=============================================================================
