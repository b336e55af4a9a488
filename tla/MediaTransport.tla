--------------------------- MODULE MediaTransport ---------------------------
(***************************************************************************)
(* A transport of the media session (media/session/src/transport): a       *)
(* builder until the SDP answer has come, then plain RTP, SDES-SRTP or     *)
(* DTLS-SRTP over one UDP socket, or over two without rtcp-mux.            *)
(*                                                                         *)
(* A transport is a record and its functions are operators; SdpSession     *)
(* owns the transports.  A port is named by its owner, <<peer, transport,  *)
(* component>>, and a key by who made it.  The ICE agent is modelled by    *)
(* IceAgent; here it is the connection state Transport::poll reads.        *)
(***************************************************************************)
EXTENDS Naturals, Sequences, FiniteSets

(* The None of an option; where a value is given it has none of its own.   *)
None == <<>>

(* TransportType, in the order it derives.                                 *)
Rank == [Rtp |-> 1, SdesSrtp |-> 2, DtlsSrtp |-> 3]
Types == DOMAIN Rank

(* The suites of sdes_srtp, best first; SdesSrtpOffer::new makes a key for *)
(* each and extend_crypto numbers them.                                    *)
Suites == <<"AES_256_80", "AES_256_32", "AES_128_80", "AES_128_32">>
OfferedCrypto(p, t) ==
    {[tag |-> i, suite |-> Suites[i], key |-> <<p, t, i>>] : i \in DOMAIN Suites}

(* negotiate_from_offer: the best suite of the offer, answered under its   *)
(* tag with a key of one's own.                                            *)
BestCrypto(crypto) ==
    CHOOSE c \in crypto : \A d \in crypto :
        (CHOOSE i \in DOMAIN Suites : Suites[i] = c.suite)
            <= (CHOOSE i \in DOMAIN Suites : Suites[i] = d.suite)
AnswerCrypto(p, t, crypto) ==
    {[tag |-> BestCrypto(crypto).tag, suite |-> BestCrypto(crypto).suite, key |-> <<p, t, 0>>]}

-----------------------------------------------------------------------------
(* TransportBuilder::new.  The fields after backlog have no meaning before *)
(* the builder is built.                                                   *)
Builder(type, ice) ==
    [type |-> type, built |-> FALSE, rtp |-> None, rtcp |-> None,
     ice |-> IF ice THEN "checking" ELSE "none", backlog |-> <<>>,
     remote |-> None, remoteRtcp |-> None, mux |-> FALSE, conn |-> "New",
     role |-> "none", stage |-> "start", queued |-> FALSE,
     crypto |-> {}, inbound |-> None, outbound |-> None]

(* rtcp_address_and_port of a media description.                           *)
RtcpPort(line) ==
    IF line.mux THEN line.port
    ELSE IF line.rtcp # None THEN line.rtcp
    ELSE <<line.port[1], line.port[2], "rtp+1">>

(* What an offered or answered description says of the remote side.        *)
WithRemote(tp, line) ==
    [tp EXCEPT !.built = TRUE, !.remote = line.port, !.remoteRtcp = RtcpPort(line),
               !.mux = line.mux]

(* DtlsSrtpSession::new: the client puts its first flight in the queue.    *)
WithDtls(tp, role) == [tp EXCEPT !.role = role, !.queued = (role = "Connect")]

(* What create_from_offer comes to: nothing for a protocol it does not     *)
(* know, an error without a suite it knows or without a setup attribute.   *)
Creates(line) ==
    CASE line.proto \notin Types -> "nothing"
      [] line.proto = "SdesSrtp" /\ line.crypto = {} -> "error"
      [] line.proto = "DtlsSrtp" /\ line.setup = "none" -> "error"
      [] OTHER -> "transport"

(* Transport::create_from_offer and dtls_srtp_from_offer.                  *)
CreateFromOffer(p, t, line) ==
    LET tp == WithRemote(Builder(line.proto, line.ice), line)
        mine == AnswerCrypto(p, t, line.crypto)
    IN  CASE line.proto = "DtlsSrtp" ->
               WithDtls(tp, IF line.setup = "passive" THEN "Connect" ELSE "Accept")
          [] line.proto = "SdesSrtp" ->
               [tp EXCEPT !.crypto = mine, !.inbound = BestCrypto(line.crypto).key,
                          !.outbound = (CHOOSE c \in mine : TRUE).key,
                          !.conn = IF line.ice THEN "New" ELSE "Connected"]
          [] line.proto = "Rtp" ->
               [tp EXCEPT !.conn = IF line.ice THEN "New" ELSE "Connected"]

(* SdesSrtpOffer::receive_answer: the pairs of an offered and an answered  *)
(* attribute with the same tag and suite; without one it is a todo!.       *)
CryptoPairs(p, t, crypto) ==
    {cd \in OfferedCrypto(p, t) \X crypto :
        cd[1].tag = cd[2].tag /\ cd[1].suite = cd[2].suite}

(* TransportBuilder::build_from_answer up to the backlog, which the        *)
(* session feeds to the transport next.                                    *)
BuildFromAnswer(p, t, builder, line) ==
    LET ice == builder.ice # "none" /\ line.ice
        tp == [WithRemote(builder, line) EXCEPT
                 !.rtcp = IF line.mux THEN None ELSE @,
                 !.ice = IF ice THEN "checking" ELSE "none",
                 !.backlog = <<>>,
                 !.conn = IF builder.type # "DtlsSrtp" /\ ~ice THEN "Connecting" ELSE "New"]
        cd == CHOOSE cd \in CryptoPairs(p, t, line.crypto) : TRUE
    IN  CASE builder.type = "DtlsSrtp" ->
               WithDtls(tp, IF line.setup = "passive" THEN "Connect" ELSE "Accept")
          [] builder.type = "SdesSrtp" ->
               [tp EXCEPT !.crypto = {cd[1]}, !.outbound = cd[1].key, !.inbound = cd[2].key]
          [] builder.type = "Rtp" -> tp

(* populate_desc, of a builder and of a transport: the security attributes *)
(* of a media description.                                                 *)
Setup(tp) == IF tp.type # "DtlsSrtp" THEN "none"
             ELSE IF ~tp.built THEN "actpass"
             ELSE IF tp.role = "Accept" THEN "passive" ELSE "active"
Crypto(p, t, tp) == IF tp.type # "SdesSrtp" THEN {}
                    ELSE IF tp.built THEN tp.crypto ELSE OfferedCrypto(p, t)

-----------------------------------------------------------------------------
(* The DTLS handshake by flights: hello, flight, final, finished.  What a  *)
(* side does with one is [tp, send]; flights it does not wait for are      *)
(* dropped by OpenSSL.                                                     *)
DtlsKey(p, tp) == <<"dtls", {tp.rtp, tp.remote}, p>>

Handshake(p, other, tp, msg) ==
    LET done == [tp EXCEPT !.stage = "done", !.outbound = DtlsKey(p, tp),
                           !.inbound = DtlsKey(other, tp)]
    IN  CASE tp.role = "Accept" /\ tp.stage = "start" /\ msg = "hello" ->
               [tp |-> [tp EXCEPT !.stage = "waiting"], send |-> {"flight"}]
          [] tp.role = "Connect" /\ tp.stage = "start" /\ msg = "flight" ->
               [tp |-> [tp EXCEPT !.stage = "waiting"], send |-> {"final"}]
          [] tp.role = "Accept" /\ tp.stage = "waiting" /\ msg = "final" ->
               [tp |-> done, send |-> {"finished"}]
          [] tp.role = "Connect" /\ tp.stage = "waiting" /\ msg = "finished" ->
               [tp |-> done, send |-> {}]
          [] OTHER -> [tp |-> tp, send |-> {}]

(* What the timer of an unfinished handshake sends again.                  *)
Resent(tp) ==
    CASE tp.role = "Connect" /\ tp.stage = "start" -> {"hello"}
      [] tp.role = "Connect" /\ tp.stage = "waiting" -> {"final"}
      [] tp.role = "Accept" /\ tp.stage = "waiting" -> {"flight"}
      [] OTHER -> {}

(* DtlsSrtpSession::handshake reads what receive has queued only while the *)
(* handshake lasts, and asserts that nothing is queued afterwards.         *)
DtlsPanics(tp) == tp.type = "DtlsSrtp" /\ tp.stage = "done"

(* Mutant: only ICE can tell that a transport is connected.                *)
PolledIceOnly(tp) ==
    [tp EXCEPT !.queued = FALSE,
               !.conn = IF tp.ice # "connected" THEN @
                        ELSE IF tp.type # "DtlsSrtp" \/ tp.stage = "done" THEN "Connected"
                        ELSE "Connecting"]

(* Transport::poll and update_connection_state_on_ice_connected.           *)
Polled(tp) ==
    [tp EXCEPT !.queued = FALSE,
               !.conn = IF tp.ice = "checking" THEN @
                        ELSE IF tp.type # "DtlsSrtp" \/ tp.stage = "done" THEN "Connected"
                        ELSE "Connecting"]

(* Transport::timeout.                                                     *)
TransportTimeout(tp) ==
    tp.ice # "none" \/ (tp.built /\ tp.type = "DtlsSrtp" /\ tp.stage # "done")
=============================================================================
