----------------------------- MODULE SdpSession -----------------------------
(***************************************************************************)
(* Two media sessions (media/session/src) that exchange SDP offers and     *)
(* answers and then media: SdpSession with its media, its pending changes  *)
(* and its transports, driven by AsyncSdpSession with its sockets and its  *)
(* timer.                                                                  *)
(*                                                                         *)
(* Every call of AsyncSdpSession has the session for itself, so a call is  *)
(* one action.  Offers and answers travel by signalling: an offer is       *)
(* answered or refused, and one that meets an offer of the receiver's own  *)
(* is refused (RFC 3261, 14.1).  Packets travel beside them, in any order. *)
(* The descriptions may pass something between the peers that changes them *)
(* (Carried).                                                              *)
(***************************************************************************)
EXTENDS MediaTransport, SequencesExt

CONSTANTS
    Peers,      \* the two sessions
    Kinds,      \* media types
    LocalDir,   \* direction of the local media of a kind, per peer
    Limit,      \* limit of a local media
    Pt,         \* payload type its codec gets in add_local_media
    Options,    \* sets of options, of media to add and of bounds on offers and changes
    NewDirs,    \* directions update_media is called with
    Hasty,      \* are changes made while an offer is not yet answered?
    RunsEarly,  \* is AsyncSdpSession::run called before there is media?
    Overtakes,  \* can RTP overtake the answer and the end of a handshake?
    Losable,    \* packets that can be lost
    MaxLost     \* bound on packets lost

ASSUME SdpAssumption ==
    /\ Cardinality(Peers) = 2
    /\ LocalDir \in [Peers -> [Kinds -> SUBSET {"send", "recv"}]]
    /\ {Limit, MaxLost} \subseteq Nat
    /\ {Hasty, RunsEarly, Overtakes} \subseteq BOOLEAN
    /\ Pt \in [Peers -> [Kinds -> 96 .. 127]]
    /\ NewDirs \subseteq SUBSET {"send", "recv"}

VARIABLES
    opt,    \* the options of both sessions
    sess,   \* the sessions
    todo,   \* kinds of media an application will still add, in order
    sig,    \* sig[p]: offers, answers and refusals on their way to p
    net,    \* packets on their way
    heard,  \* RTP given to a media: who meant which media, who got it
    offers, updates, \* counters for the bounds
    lost    \* what kinds of packet were lost

vars == <<opt, sess, todo, sig, net, heard, offers, updates, lost>>

Other(p) == CHOOSE q \in Peers : q # p
Flip(dir) == {IF d = "send" THEN "recv" ELSE "send" : d \in dir}
First(seq, Test(_)) == CHOOSE i \in DOMAIN seq : Test(seq[i]) /\ \A j \in 1 .. i - 1 : ~Test(seq[j])
Some(seq, Test(_)) == \E i \in DOMAIN seq : Test(seq[i])

(* SdpSession::new and AsyncSdpSession::new, with local media of each kind *)
(* (add_local_media).  Two fields are not in the code: whether             *)
(* receive_sdp_offer has returned an error, and what it had counted as     *)
(* used without making a media of it.                                      *)
New ==
    [media |-> <<>>, pending |-> <<>>, tps |-> <<>>, changes |-> <<>>,
     used |-> [k \in Kinds |-> 0], nextId |-> 0, nextTp |-> 1,
     sockets |-> {}, timer |-> TRUE, waiting |-> FALSE, panic |-> "no",
     failed |-> FALSE, leaked |-> [k \in Kinds |-> 0]]

Init ==
    /\ opt \in Options
    /\ sess = [p \in Peers |-> New]
    /\ todo = opt.adds
    /\ sig = [p \in Peers |-> <<>>]
    /\ net = {} /\ heard = {}
    /\ offers = 0 /\ updates = 0 /\ lost = <<>>

Alive(p) == sess[p].panic = "no"
Panics(s, why) == [s EXCEPT !.panic = why]

-----------------------------------------------------------------------------
(* AsyncSdpSession::handle_transport_changes: binds and drops sockets and  *)
(* tells the session their ports (set_transport_ports, which panics for a  *)
(* transport that is gone).                                                *)
HandleChange(p, s, change) ==
    LET t == change.tp IN
    CASE change.op \in {"CreateSocket", "CreateSocketPair"} ->
           IF t \notin DOMAIN s.tps THEN Panics(s, "set_transport_ports")
           ELSE LET rtcp == IF change.op = "CreateSocketPair" THEN {"rtcp"} ELSE {}
                IN  [s EXCEPT !.tps[t].rtp = <<p, t, "rtp">>,
                              !.tps[t].rtcp = IF rtcp = {} THEN None ELSE <<p, t, "rtcp">>,
                              !.sockets = @ \cup {<<t, c>> : c \in {"rtp"} \cup rtcp}]
      [] change.op = "Remove" -> [s EXCEPT !.sockets = @ \ {<<t, "rtp">>, <<t, "rtcp">>}]
      [] change.op = "RemoveRtcpSocket" -> [s EXCEPT !.sockets = @ \ {<<t, "rtcp">>}]

HandleChanges(p, s) ==
    [FoldLeft(LAMBDA acc, c : HandleChange(p, acc, c), s, s.changes) EXCEPT !.changes = <<>>]

(* remove_unused_transports.                                               *)
Adds(s) == SelectSeq(s.pending, LAMBDA c : c.op = "Add")
InUse(s) ==
    {s.media[i].tp : i \in DOMAIN s.media}
        \cup UNION {Range(Adds(s)[i].bundle \o Adds(s)[i].alone) : i \in DOMAIN Adds(s)}
(* Mutant: the sockets of a removed transport stay open.                   *)
RemoveQuietly(s) == [s EXCEPT !.tps = [t \in DOMAIN s.tps \cap InUse(s) |-> s.tps[t]]]

RemoveUnusedTransports(s) ==
    LET gone == DOMAIN s.tps \ InUse(s)
    IN  [s EXCEPT !.tps = [t \in DOMAIN s.tps \ gone |-> s.tps[t]],
                  !.changes = @ \o SetToSeq({[op |-> "Remove", tp |-> t] : t \in gone})]

-----------------------------------------------------------------------------
(* add_media: a transport of the strongest type in use.  MaxCompat has one *)
(* for this media in reserve, MaxBundle insists on the common one.  The    *)
(* first of the type in the slot map may be any of them, as slots are      *)
(* reused.                                                                 *)
OfferType(s) ==
    LET types == {s.tps[t].type : t \in DOMAIN s.tps}
    IN  IF types = {} THEN opt.type
        ELSE CHOOSE x \in types : \A y \in types : Rank[y] <= Rank[x]
Candidates(s) == {t \in DOMAIN s.tps : s.tps[t].type = OfferType(s)}

AddMedia(p) ==
    /\ Alive(p) /\ todo[p] # <<>> /\ (Hasty \/ ~sess[p].waiting)
    /\ todo' = [todo EXCEPT ![p] = Tail(@)]
    /\ LET s == sess[p]
           k == Head(todo[p])
           t == s.nextTp
           op == IF opt.requireMux THEN "CreateSocket" ELSE "CreateSocketPair"
           fresh == opt.bundle = "MaxCompat" \/ Candidates(s) = {}
       IN  \E found \in IF Candidates(s) = {} THEN {t} ELSE Candidates(s) :
             sess' = [sess EXCEPT ![p] =
               [s EXCEPT
                 !.nextId = @ + 1,
                 !.nextTp = IF fresh THEN @ + 1 ELSE @,
                 !.tps = IF fresh THEN @ @@ (t :> Builder(OfferType(s), opt.ice)) ELSE @,
                 !.changes = IF fresh THEN Append(@, [op |-> op, tp |-> t]) ELSE @,
                 !.pending = Append(@, [op |-> "Add", id |-> s.nextId, kind |-> k,
                                        dir |-> LocalDir[p][k], bundle |-> <<found>>,
                                        alone |-> IF opt.bundle = "MaxCompat" THEN <<t>> ELSE None])]]
    /\ UNCHANGED <<opt, sig, net, heard, offers, updates, lost>>

(* update_media and remove_media.                                          *)
Change(p, i, change) ==
    /\ Alive(p) /\ i \in DOMAIN sess[p].media /\ updates < opt.updates /\ change.op \in opt.ops
    /\ Hasty \/ ~sess[p].waiting
    /\ sess' = [sess EXCEPT ![p].pending = Append(@, change)]
    /\ updates' = updates + 1
    /\ UNCHANGED <<opt, todo, sig, net, heard, offers, lost>>
UpdateMedia(p, i, dir) == Change(p, i, [op |-> "Dir", id |-> sess[p].media[i].id, dir |-> dir])
RemoveMedia(p, i) == Change(p, i, [op |-> "Remove", id |-> sess[p].media[i].id])

-----------------------------------------------------------------------------
(* media_description_for_active, with the direction an offer asks for.     *)
ActiveLine(p, s, m, dir) ==
    LET tp == s.tps[m.tp]
    IN  [kind |-> m.kind, mid |-> m.mid, dir |-> dir, pt |-> m.pt, port |-> tp.rtp, rtcp |-> tp.rtcp,
         mux |-> tp.remote = tp.remoteRtcp, proto |-> tp.type, setup |-> Setup(tp),
         crypto |-> Crypto(p, m.tp, tp), ice |-> tp.ice # "none"]
RejectedLine(kind, mid) ==
    [kind |-> kind, mid |-> mid, dir |-> {}, pt |-> 0, port |-> None, rtcp |-> None, mux |-> FALSE,
     proto |-> "Rtp", setup |-> "none", crypto |-> {}, ice |-> FALSE]

(* build_bundle_groups: a group for each transport.                        *)
Groups(s, pending) ==
    LET members == {<<s.media[i].tp, s.media[i].mid>> : i \in DOMAIN s.media}
                     \cup {<<pending[i].bundle[1], <<pending[i].id>>>> : i \in DOMAIN pending}
        named == {m \in members : m[2] # None}
    IN  {{m[2] : m \in {n \in named : n[1] = t}} : t \in {m[1] : m \in named}}

(* create_sdp_offer: the media there are, with the pending directions, the *)
(* last one winning, then those to be added.  A pending removal only       *)
(* leaves the loop over the changes early.                                 *)
OfferedDir(s, m) ==
    LET asked == SelectSeq(s.pending, LAMBDA c : c.op = "Dir" /\ c.id = m.id)
    IN  IF asked = <<>> THEN m.dir ELSE Last(asked).dir
PendingLine(p, s, add) ==
    LET t == Head(add.alone \o add.bundle)
        tp == s.tps[t]
    IN  [kind |-> add.kind, mid |-> <<add.id>>, dir |-> add.dir, pt |-> Pt[p][add.kind], port |-> tp.rtp, rtcp |-> tp.rtcp,
         mux |-> TRUE, proto |-> tp.type, setup |-> Setup(tp), crypto |-> Crypto(p, t, tp),
         ice |-> tp.ice # "none"]
CreateOffer(p, s) ==
    [lines |-> [i \in DOMAIN s.media |-> ActiveLine(p, s, s.media[i], OfferedDir(s, s.media[i]))]
                 \o [i \in DOMAIN Adds(s) |-> PendingLine(p, s, Adds(s)[i])],
     groups |-> Groups(s, Adds(s))]

(* What is left of a description when it arrives.  On every path but the   *)
(* clean one something does not know mid, BUNDLE, rtcp-mux and the AES-256 *)
(* suites and strips them; on two of them video has become what            *)
(* create_from_offer makes no transport of: a description without a suite  *)
(* it knows, or with a protocol it does not know.                          *)
Aged(line) ==
    [line EXCEPT !.mid = None, !.mux = FALSE,
                 !.crypto = {c \in @ : /\ c.suite \in {"AES_128_80", "AES_128_32"}
                                       /\ opt.path # "suite" \/ line.kind # "video"},
                 !.proto = IF opt.path = "proto" /\ line.kind = "video" THEN "other" ELSE @]
Carried(desc) ==
    IF opt.path = "clean" THEN desc
    ELSE [lines |-> [i \in DOMAIN desc.lines |-> Aged(desc.lines[i])], groups |-> {}]

(* AsyncSdpSession::create_sdp_offer.                                      *)
Offer(p) ==
    /\ Alive(p) /\ ~sess[p].waiting /\ sess[p].pending # <<>>
    /\ offers < opt.offers
    /\ LET s == HandleChanges(p, sess[p])
           said == IF s.panic # "no" THEN <<>>
                   ELSE <<[type |-> "offer", desc |-> Carried(CreateOffer(p, s))]>>
       IN  /\ sess' = [sess EXCEPT ![p] = [s EXCEPT !.waiting = TRUE]]
           /\ sig' = [sig EXCEPT ![Other(p)] = @ \o said]
    /\ offers' = offers + 1
    /\ UNCHANGED <<opt, todo, net, heard, updates, lost>>

-----------------------------------------------------------------------------
(* ActiveMedia::matches: by mid if both have one, else by the remote port. *)
Matches(s, m, line) ==
    /\ m.kind = line.kind
    /\ IF m.mid # None /\ line.mid # None THEN m.mid = line.mid
       ELSE s.tps[m.tp].built /\ s.tps[m.tp].remote = line.port

(* LocalMedia::maybe_use_for_offer.                                        *)
Negotiated(p, line) == Flip(line.dir) \cap LocalDir[p][line.kind]
Usable(p, s, line) == s.used[line.kind] # Limit /\ Negotiated(p, line) # {}

(* find_bundled_transport, else a transport of its own.                    *)
Bundled(media, groups, line) ==
    {i \in DOMAIN media : \E g \in groups : line.mid \in g /\ media[i].mid \in g}

(* A media description of an offer: it is of a media there is, which takes *)
(* the requested direction; or it can be used for a new one; or it is      *)
(* rejected.  acc has the session, the new state and the answer's entries. *)
(* A new one is counted before there is a transport for it, and the        *)
(* change that asks for the socket is queued before it is known whether    *)
(* there will be one: get_or_create_transport may find none, and the       *)
(* description is rejected, or fail, and receive_sdp_offer ends there.     *)
Reject(acc, line) ==
    [acc EXCEPT !.reply = Append(@, [active |-> FALSE, kind |-> line.kind, mid |-> line.mid])]
TakeKnown(acc, line, i) ==
    LET m == [acc.s.media[i] EXCEPT !.dir = Flip(line.dir)]
    IN  [acc EXCEPT !.s.media = RemoveAt(@, i), !.media = Append(@, m),
                    !.reply = Append(@, [active |-> TRUE, id |-> m.id])]
TakeNew(p, acc, line, groups) ==
    LET all == acc.media \o acc.s.media
        common == Bundled(all, groups, line)
        t == IF common # {} THEN all[CHOOSE i \in common : \A j \in common : i <= j].tp
             ELSE acc.s.nextTp
        m == [id |-> acc.s.nextId, mid |-> line.mid, kind |-> line.kind,
              dir |-> Negotiated(p, line), pt |-> line.pt, tp |-> t]
        op == IF line.mux THEN "CreateSocket" ELSE "CreateSocketPair"
        counted == [acc.s EXCEPT !.used[line.kind] = @ + 1, !.nextId = @ + 1]
        asked == [counted EXCEPT !.changes = Append(@, [op |-> op, tp |-> t])]
        made == [asked EXCEPT !.nextTp = @ + 1, !.tps = @ @@ (t :> CreateFromOffer(p, t, line))]
        Taken(s) == [acc EXCEPT !.s = s, !.media = Append(@, m),
                                !.reply = Append(@, [active |-> TRUE, id |-> m.id])]
        without == [acc EXCEPT !.s = [asked EXCEPT !.leaked[line.kind] = @ + 1]]
    IN  CASE common # {} -> Taken(counted)
          [] common = {} /\ Creates(line) = "transport" -> Taken(made)
          [] common = {} /\ Creates(line) = "nothing" -> Reject(without, line)
          [] common = {} /\ Creates(line) = "error" -> [without EXCEPT !.s.failed = TRUE, !.over = TRUE]
TakeLine(p, acc, line, groups) ==
    LET Hit(m) == Matches(acc.s, m, line)
    IN  IF acc.over THEN acc
        ELSE IF Some(acc.s.media, Hit) THEN TakeKnown(acc, line, First(acc.s.media, Hit))
        ELSE IF Usable(p, acc.s, line) THEN TakeNew(p, acc, line, groups)
        ELSE Reject(acc, line)

(* receive_sdp_offer: what the offer does not name any more is removed.    *)
(* After an error the media taken so far are lost, and all else is left as *)
(* it stands.                                                              *)
CountOf(media, k) == Cardinality({i \in DOMAIN media : media[i].kind = k})
ReceiveSdpOffer(p, s, offer) ==
    LET acc == FoldLeft(LAMBDA a, l : TakeLine(p, a, l, offer.groups),
                        [s |-> s, media |-> <<>>, reply |-> <<>>, over |-> FALSE], offer.lines)
    IN  [s |-> IF acc.over
               THEN [acc.s EXCEPT !.leaked = [k \in Kinds |-> @[k] + CountOf(acc.media, k)]]
               ELSE RemoveUnusedTransports([acc.s EXCEPT !.media = acc.media,
                      !.used = [k \in Kinds |-> @[k] - CountOf(acc.s.media, k)]]),
         reply |-> acc.reply, ok |-> ~acc.over]

(* create_sdp_answer.                                                      *)
CreateAnswer(p, s, reply) ==
    [lines |-> [i \in DOMAIN reply |->
        IF ~reply[i].active THEN RejectedLine(reply[i].kind, reply[i].mid)
        ELSE LET m == s.media[First(s.media, LAMBDA x : x.id = reply[i].id)]
             IN  ActiveLine(p, s, m, m.dir)],
     groups |-> Groups(s, <<>>)]

Offered(p) == sig[p] # <<>> /\ Head(sig[p]).type = "offer" /\ Alive(p)
Refusal == [type |-> "refusal"]

(* AsyncSdpSession::receive_sdp_offer.  After an error it leaves the       *)
(* transport changes for the next call, and the application refuses.       *)
ReceiveOffer(p) ==
    /\ Offered(p) /\ ~sess[p].waiting
    /\ LET r == ReceiveSdpOffer(p, sess[p], Head(sig[p]).desc)
           s == IF r.ok THEN HandleChanges(p, r.s) ELSE r.s
           said == CASE ~r.ok -> <<Refusal>>
                     [] r.ok /\ s.panic # "no" -> <<>>
                     [] OTHER -> <<[type |-> "answer", desc |-> Carried(CreateAnswer(p, s, r.reply))]>>
       IN  /\ sess' = [sess EXCEPT ![p] = s]
           /\ sig' = [sig EXCEPT ![p] = Tail(@), ![Other(p)] = @ \o said]
    /\ UNCHANGED <<opt, todo, net, heard, offers, updates, lost>>

(* The application refuses an offer: glare.                                *)
RefuseOffer(p) ==
    /\ Offered(p) /\ sess[p].waiting
    /\ sig' = [sig EXCEPT ![p] = Tail(@), ![Other(p)] = Append(@, Refusal)]
    /\ UNCHANGED <<opt, sess, todo, net, heard, offers, updates, lost>>

-----------------------------------------------------------------------------
(* PendingMedia::matches_answer: by mid, else by the protocol of one of    *)
(* its transports.                                                         *)
MatchesAnswer(s, c, line) ==
    /\ c.op = "Add" /\ c.kind = line.kind
    /\ IF line.mid # None THEN line.mid = <<c.id>>
       ELSE \E t \in Range(c.alone \o c.bundle) : s.tps[t].type = line.proto

(* A builder becomes a transport.  RTP that waits in its backlog is a      *)
(* todo!; DTLS does not wait there, as the answering side is the server.   *)
Build(p, s, t, line) ==
    LET b == s.tps[t]
    IN  IF b.type = "SdesSrtp" /\ CryptoPairs(p, t, line.crypto) = {} THEN Panics(s, "receive_answer")
        ELSE IF b.backlog # <<>> THEN Panics(s, "early rtp")
        ELSE [s EXCEPT !.tps[t] = BuildFromAnswer(p, t, b, line),
                       !.changes = IF line.mux /\ b.rtcp # None
                                   THEN Append(@, [op |-> "RemoveRtcpSocket", tp |-> t]) ELSE @]

(* Mutant: the transport in reserve is never used.                         *)
AddToBundle(p, s, c, line, groups) ==
    LET t == c.bundle[1]
        b == IF s.tps[t].built THEN s ELSE Build(p, s, t, line)
        m == [id |-> c.id, mid |-> line.mid, kind |-> c.kind, dir |-> Negotiated(p, line),
              pt |-> line.pt, tp |-> t]
    IN  IF b.panic # "no" THEN b ELSE [b EXCEPT !.media = Append(@, m), !.used[c.kind] = @ + 1]

(* A media description of an answer: rejected, of a media there is that is *)
(* not to be removed, of one to be added, or of none.                      *)
AddAnswered(p, s, c, line, groups) ==
    LET bundled == \E g \in groups : <<c.id>> \in g
        where == IF bundled THEN c.bundle ELSE c.alone
        t == where[1]
        b == IF s.tps[t].built THEN s ELSE Build(p, s, t, line)
        m == [id |-> c.id, mid |-> line.mid, kind |-> c.kind, dir |-> Negotiated(p, line),
              pt |-> line.pt, tp |-> t]
    IN  IF where = None THEN Panics(s, "no standalone transport")
        ELSE IF b.panic # "no" THEN b
        ELSE IF Negotiated(p, line) = {} THEN Panics(b, "choose_codec_from_answer")
        ELSE [b EXCEPT !.media = Append(@, m), !.used[c.kind] = @ + 1]
AnswerLine(p, s, line, groups) ==
    LET Removed(m) == Some(s.pending, LAMBDA c : c.op = "Remove" /\ c.id = m.id)
        Hit(m) == ~Removed(m) /\ Matches(s, m, line)
        New_(c) == MatchesAnswer(s, c, line)
    IN  IF s.panic # "no" \/ line.dir = {} THEN s
        ELSE IF Some(s.media, Hit) THEN [s EXCEPT !.media[First(s.media, Hit)].dir = Flip(line.dir)]
        ELSE IF Some(s.pending, New_)
             THEN AddAnswered(p, s, s.pending[First(s.pending, New_)], line, groups)
        ELSE s

(* Mutant: the pending changes are kept.                                   *)
AnswerKeepsPending(p, s, answer) ==
    LET r == FoldLeft(LAMBDA acc, l : AnswerLine(p, acc, l, answer.groups), s, answer.lines)
    IN  IF r.panic # "no" THEN r ELSE RemoveUnusedTransports(r)

(* receive_sdp_answer: every pending change is then forgotten, and media   *)
(* that was to be removed stays.                                           *)
ReceiveSdpAnswer(p, s, answer) ==
    LET r == FoldLeft(LAMBDA acc, l : AnswerLine(p, acc, l, answer.groups), s, answer.lines)
    IN  IF r.panic # "no" THEN r ELSE RemoveUnusedTransports([r EXCEPT !.pending = <<>>])

ReceiveAnswer(p) ==
    /\ sig[p] # <<>> /\ Head(sig[p]).type = "answer" /\ Alive(p)
    /\ sess' = [sess EXCEPT ![p] = HandleChanges(p,
                  ReceiveSdpAnswer(p, [@ EXCEPT !.waiting = FALSE], Head(sig[p]).desc))]
    /\ sig' = [sig EXCEPT ![p] = Tail(@)]
    /\ UNCHANGED <<opt, todo, net, heard, offers, updates, lost>>

(* A refused offer leaves the pending changes for the next one.            *)
OfferRefused(p) ==
    /\ sig[p] # <<>> /\ Head(sig[p]).type = "refusal" /\ Alive(p)
    /\ sess' = [sess EXCEPT ![p].waiting = FALSE]
    /\ sig' = [sig EXCEPT ![p] = Tail(@)]
    /\ UNCHANGED <<opt, todo, net, heard, offers, updates, lost>>

-----------------------------------------------------------------------------
(* SdpSession::timeout: transports that have something to wait for, and    *)
(* the RTCP reports of each media.  AsyncSdpSession asks for it after each *)
(* step, and only then.                                                    *)
Timeout(s) == s.media # <<>> \/ \E t \in DOMAIN s.tps : TransportTimeout(s.tps[t])
Stepped(s) == [s EXCEPT !.timer = Timeout(s)]

Runs(p) == Alive(p) /\ (RunsEarly \/ sess[p].media # <<>>)

Dtls(tp, msgs) == {[to |-> tp.remote, from |-> tp.rtp, type |-> m] : m \in msgs}

(* The timer of step: SdpSession::poll.  A report of a media whose         *)
(* transport is a builder would panic.                                     *)
Poll(p) ==
    /\ Runs(p) /\ sess[p].timer
    /\ LET s == sess[p]
           built == {t \in DOMAIN s.tps : s.tps[t].built}
       IN  /\ sess' = [sess EXCEPT ![p] =
                 IF \E i \in DOMAIN s.media : s.media[i].tp \notin built
                 THEN Panics(s, "incomplete transport")
                 ELSE Stepped([s EXCEPT !.tps = [t \in DOMAIN @ |->
                                  IF t \in built THEN Polled(@[t]) ELSE @[t]]])]
           /\ net' = net \cup UNION {Dtls(s.tps[t], {"hello"}) : t \in {u \in built : s.tps[u].queued}}
    /\ UNCHANGED <<opt, todo, sig, heard, offers, updates, lost>>

(* The same, when OpenSSL's timer has expired: what was sent or its answer *)
(* was lost.                                                               *)
DtlsTimeout(p, t) ==
    /\ Runs(p) /\ sess[p].timer /\ t \in DOMAIN sess[p].tps
    /\ LET tp == sess[p].tps[t]
       IN  /\ tp.built /\ ~tp.queued /\ Resent(tp) # {}
           /\ \A k \in net : tp.rtp # k.to /\ (tp.rtp # k.from \/ k.type = "rtp")
           /\ net' = net \cup Dtls(tp, Resent(tp))
    /\ UNCHANGED <<opt, sess, todo, sig, heard, offers, updates, lost>>

(* The ICE agents of both ends have found each other.                      *)
IceConnects(p, t) ==
    /\ Alive(p) /\ t \in DOMAIN sess[p].tps
    /\ LET tp == sess[p].tps[t]
           far == sess[Other(p)].tps
       IN  /\ tp.built /\ tp.ice = "checking"
           /\ \E u \in DOMAIN far : /\ far[u].built /\ far[u].ice # "none"
                                    /\ far[u].rtp = tp.remote /\ far[u].remote = tp.rtp
    /\ sess' = [sess EXCEPT ![p].tps[t].ice = "connected"]
    /\ UNCHANGED <<opt, todo, sig, net, heard, offers, updates, lost>>

(* Transport::send_rtp: protected with the transport's key, sent to where  *)
(* its packets go.                                                         *)
Packet(tp, m) == [to |-> tp.remote, from |-> tp.rtp, type |-> "rtp",
                  key |-> tp.outbound, mid |-> m.mid, pt |-> m.pt, kind |-> m.kind]

(* send_rtp, called once the application knows the transport is connected. *)
SendRtp(p, i) ==
    /\ Alive(p) /\ i \in DOMAIN sess[p].media
    /\ LET m == sess[p].media[i]
           tp == sess[p].tps[m.tp]
       IN  /\ "send" \in m.dir /\ tp.conn = "Connected"
           /\ net' = net \cup {Packet(tp, m)}
    /\ UNCHANGED <<opt, sess, todo, sig, heard, offers, updates, lost>>

-----------------------------------------------------------------------------
(* Mutant: RTP is told apart by its payload type.                          *)
RoutedByPt(s, t, k) ==
    LET ByPt(m) == m.tp = t /\ m.pt = k.pt
    IN  IF Some(s.media, ByPt) THEN {s.media[First(s.media, ByPt)]} ELSE {}

(* The other branch of step: a packet for a socket, given to the session.  *)
(* SdpSession::receive finds the media of RTP by mid, else by payload type.*)
Routed(s, t, k) ==
    LET ByMid(m) == m.tp = t /\ m.mid # None /\ m.mid = k.mid
        ByPt(m) == m.tp = t /\ m.pt = k.pt
    IN  IF Some(s.media, ByMid) THEN {s.media[First(s.media, ByMid)]}
        ELSE IF Some(s.media, ByPt) THEN {s.media[First(s.media, ByPt)]}
        ELSE {}
Secured(tp) == tp.type = "SdesSrtp" \/ (tp.type = "DtlsSrtp" /\ tp.stage = "done")

Waits(p, k) ==
    ~Overtakes /\ k.type = "rtp" /\ (sig[p] # <<>> \/ \E x \in net : x.type # "rtp" /\ x.to = k.to)

Arrived(p, k) == /\ Runs(p) /\ k \in net /\ k.to[1] = p /\ ~Waits(p, k)
                 /\ <<k.to[2], k.to[3]>> \in sess[p].sockets
Taking(p, k, s) == /\ sess' = [sess EXCEPT ![p] = s]
                   /\ UNCHANGED <<opt, todo, sig, offers, updates, lost>>

(* TransportBuilder keeps what arrives before the answer.                  *)
ReceiveEarly(p, k) ==
    LET t == k.to[2]
    IN  /\ Arrived(p, k) /\ ~sess[p].tps[t].built
        /\ net' = net \ {k} /\ heard' = heard
        /\ Taking(p, k, Stepped([sess[p] EXCEPT !.tps[t].backlog = Append(@, k.type)]))

ReceiveRtp(p, k) ==
    LET s == sess[p]
        tp == s.tps[k.to[2]]
    IN  /\ Arrived(p, k) /\ tp.built /\ k.type = "rtp"
        /\ net' = net \ {k}
        /\ heard' = heard \cup {[meant |-> <<k.kind, k.mid>>, got |-> <<m.kind, m.mid>>,
                                 clear |-> tp.type = "Rtp" \/ Secured(tp)] : m \in Routed(s, k.to[2], k)}
        /\ Taking(p, k, IF Secured(tp) /\ tp.inbound # k.key THEN Panics(s, "unprotect") ELSE Stepped(s))

ReceiveDtls(p, k) ==
    LET s == sess[p]
        t == k.to[2]
        tp == s.tps[t]
        shake == Handshake(p, Other(p), tp, k.type)
    IN  /\ Arrived(p, k) /\ tp.built /\ k.type # "rtp"
        /\ net' = (net \ {k}) \cup
                    IF DtlsPanics(tp) THEN {}
                    ELSE Dtls(tp, shake.send \cup IF tp.queued THEN {"hello"} ELSE {})
        /\ heard' = heard
        /\ Taking(p, k, IF DtlsPanics(tp) THEN Panics(s, "IoQueue has something to read")
                        ELSE Stepped([s EXCEPT !.tps[t] = [shake.tp EXCEPT !.queued = FALSE]]))

Receive(p, k) == ReceiveEarly(p, k) \/ ReceiveRtp(p, k) \/ ReceiveDtls(p, k)

Lose(k) ==
    /\ k \in net /\ k.type \in Losable /\ Len(lost) < MaxLost
    /\ net' = net \ {k} /\ lost' = Append(lost, k.type)
    /\ UNCHANGED <<opt, sess, todo, sig, heard, offers, updates>>

-----------------------------------------------------------------------------
Application(p) ==
    \/ AddMedia(p) \/ Offer(p)
    \/ \E i \in DOMAIN sess[p].media :
         SendRtp(p, i) \/ RemoveMedia(p, i) \/ \E d \in NewDirs : UpdateMedia(p, i, d)
Signalling(p) == ReceiveOffer(p) \/ RefuseOffer(p) \/ ReceiveAnswer(p) \/ OfferRefused(p)
Media(p) == \/ Poll(p) \/ \E k \in net : Receive(p, k)
            \/ \E t \in DOMAIN sess[p].tps : DtlsTimeout(p, t) \/ IceConnects(p, t)

Next == \/ \E p \in Peers : Application(p) \/ Signalling(p) \/ Media(p)
        \/ \E k \in net : Lose(k)

(* Signalling and packets that are not lost arrive and are taken, run is   *)
(* called, and the timers of run expire: a DTLS timer too, whatever else   *)
(* arrives before it does.                                                 *)
Taken(p) == /\ []<>(sig[p] = <<>> \/ ~Alive(p))
            /\ []<>(\A k \in net : ~Arrived(p, k))
Fairness == \A p \in Peers :
    /\ Taken(p) /\ WF_vars(Poll(p))
    /\ SF_vars(\E t \in DOMAIN sess[p].tps : DtlsTimeout(p, t))
    /\ WF_vars(\E t \in DOMAIN sess[p].tps : IceConnects(p, t))

Spec == Init /\ [][Next]_vars /\ Fairness

-----------------------------------------------------------------------------
(* Types: the parts of a session the properties below read.                *)
TypeOK ==
    \A p \in Peers :
        /\ sess[p].used \in [Kinds -> Nat]
        /\ \A i \in DOMAIN sess[p].media : sess[p].media[i].tp \in DOMAIN sess[p].tps
        /\ \A t \in DOMAIN sess[p].tps : sess[p].tps[t].conn \in {"New", "Connecting", "Connected"}

Settled == \A p \in Peers : sig[p] = <<>> /\ ~sess[p].waiting
Sound == \A p \in Peers : Alive(p) /\ ~sess[p].failed
Pairs(p) == {<<m, n>> \in Range(sess[p].media) \X Range(sess[Other(p)].media) :
                m.kind = n.kind /\ m.mid = n.mid}

(* Both sides may give the same mid to different media (lib.rs:404).       *)
Mids(s) == [i \in DOMAIN s.media |-> s.media[i].mid] \o [i \in DOMAIN Adds(s) |-> <<Adds(s)[i].id>>]
Clash == \E p \in Peers : LET mids == SelectSeq(Mids(sess[p]), LAMBDA m : m # None)
                          IN  Len(mids) # Cardinality(Range(mids))

(* Where the code is known to panic.  An offer of which no transport could *)
(* be made leaves its changes behind, and handling them fails.  A server   *)
(* whose last flight was lost asserts that the client does not repeat its  *)
(* own.  Media with the same mid are put on different transports.          *)
Stranded(p) == \E k \in Kinds : sess[p].leaked[k] > 0
Excused(p) == \/ sess[p].panic = "set_transport_ports" /\ Stranded(p)
              \/ sess[p].panic = "IoQueue has something to read" /\ "finished" \in Range(lost)
              \/ sess[p].panic = "unprotect" /\ Clash

(* Neither side panics (unwrap, expect, assert and todo! on what the peer  *)
(* or the network does) but where Excused names the case.  After every     *)
(* exchange of offer and answer both have the same media, each once, and   *)
(* one sends what the other receives, whoever offered and whatever was     *)
(* refused or rejected in between, offers that crossed and were made again *)
(* included, unless receive_sdp_offer failed on the way, which loses media *)
(* (receive_sdp_offer and receive_sdp_answer match media independently of  *)
(* each other).                                                            *)
MediaAgree ==
    /\ \A p \in Peers : Alive(p) \/ Excused(p)
    /\ Settled /\ Sound =>
         \A p \in Peers : \A i \in DOMAIN sess[p].media :
            LET m == sess[p].media[i]
            IN  /\ \A j \in DOMAIN sess[p].media : j # i => sess[p].media[j].id # m.id
                /\ \E mn \in Pairs(p) : mn[1] = m /\ mn[2].dir = Flip(m.dir) /\ mn[2].pt = m.pt

(* ... and the transports of a media lead to each other: each sends RTP    *)
(* and RTCP to a port at which the other listens, decrypts with the key    *)
(* the other encrypts with, and takes the other role in the handshake,     *)
(* though which one to use, standalone or bundled, is decided on each side *)
(* for itself.  Where mids clash, the sides may take different ones.       *)
Reaches(p, tp, far) ==
    /\ tp.remote = far.rtp
    /\ tp.remoteRtcp = IF far.mux THEN far.rtp ELSE far.rtcp
    /\ tp.remoteRtcp \in {<<Other(p), u[1], u[2]>> : u \in sess[Other(p)].sockets}
    /\ tp.type = far.type /\ tp.mux = far.mux
    /\ tp.type = "SdesSrtp" => tp.outbound = far.inbound
    /\ tp.type = "DtlsSrtp" => tp.role # far.role
TransportsAgree ==
    Settled /\ Sound /\ ~Clash => \A p \in Peers : \A mn \in Pairs(p) :
        Reaches(p, sess[p].tps[mn[1].tp], sess[Other(p)].tps[mn[2].tp])

(* Nothing leaks: once the transport changes are handled a socket is open  *)
(* for every port a transport has and for no other; a transport is of a    *)
(* media or of one to be added; and the use count of a local media, which  *)
(* its limit is compared with, is the number of media made of it and of    *)
(* those counted for descriptions of which no transport could be made,     *)
(* whatever was refused, rejected and negotiated again.  An offer that     *)
(* failed leaves transports behind until the next exchange.                *)
NothingLeaks ==
    \A p \in Peers : Alive(p) =>
        LET s == sess[p]
        IN  /\ s.changes = <<>> =>
                 {<<p, u[1], u[2]>> : u \in s.sockets} =
                 UNION {{s.tps[t].rtp, s.tps[t].rtcp} \ {None} : t \in DOMAIN s.tps}
            /\ ~s.failed => DOMAIN s.tps \subseteq InUse(s)
            /\ \A k \in Kinds : s.used[k] = CountOf(s.media, k) + s.leaked[k]

(* RTP reaches the media it was sent on, on bundled transports too, where  *)
(* the payload types of the two sides can collide, unless two media have   *)
(* the same mid.  It is decrypted first, unless it overtook the end of the *)
(* handshake, whose last flight was lost.                                  *)
RoutedRight ==
    /\ ~Clash => \A h \in heard : h.meant = h.got
    /\ \A h \in heard : h.clear \/ "finished" \in Range(lost)

(* Media that has been negotiated gets connected on both sides, over a     *)
(* network that loses packets of the handshake, unless a side panics,      *)
(* which MediaAgree confines, or mids clash.                               *)
Connects ==
    <>[](\/ Clash \/ \E p \in Peers : ~Alive(p)
         \/ \A p \in Peers : \A i \in DOMAIN sess[p].media :
              sess[p].tps[sess[p].media[i].tp].conn = "Connected")
=============================================================================
