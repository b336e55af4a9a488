# TLA+ models of ezk

ezk is a set of Rust crates for real-time communication: a SIP stack
(`sip/sip-core`, `sip/sip-ua`, `sip/sip-auth`, `sip/sip-types`) and a media
stack (`media/ice`, `media/rtp`, `media/session`, `media/stun`, and the
types of SDP and STUN). This directory holds TLA+ models of the parts whose
correctness depends on the order of events, the TLC configurations that check
them on small instances, and proofs checked by TLAPS. `PROJECT.json` maps every
definition to the lines it models; paths below are relative to `src/`.

## 1. Inventory

### How the parts interact

A transport's receive task parses messages and hands each one to
`Endpoint::receive`, which spawns a task. The task (`do_receive`) asks the
*transaction registry* whether a live transaction wants the message; if none
does, a request is registered and offered to the *layers* in order. The
user-agent layers are the *dialog layer*, which finds a request's dialog, puts
requests into CSeq order and gives them to the dialog's *usages*, and the
*INVITE layer*, which handles CANCEL and, through its usage, everything inside
an INVITE session. Server transactions are created from the registration a
request carries, client transactions register themselves. Transactions send
over *managed transports*, which they keep alive by handles and which read
through the *streaming decoder*. The calling application drives an *initiator*
and its *early dialogs*; both ends of an established session run a *session
timer*. A *registration* is refreshed by a loop that sends REGISTERs with the
answers of a *digest authenticator*. The *SDP session* negotiates media and
owns *media transports*, each with an *ICE agent* of its own, and per media an
*RTP session*; all of these are sans-io state machines, polled by
`AsyncSdpSession` or by the application.

### Components, their state, operations and what makes them correct

| component (source) | state | operations | hard behaviour | correct when |
|---|---|---|---|---|
| transaction registry (`sip-core/src/transaction/{mod,registration,key}.rs`, `endpoint.rs`) | map key -> handler behind a mutex, one unbounded channel per registration | create, add_filter, receive, drop; do_receive | one task per message, drop in between | map and registrations agree; a retransmission never counts as a new request; no `expect` fails |
| non-INVITE transactions (`transaction/{client,server}.rs`) | state, timeout, absorbing and retransmitting tasks | send, receive, respond(_provisional) | loss, duplicates, late responses | served once; loss tolerated; all registrations go |
| INVITE transactions (`transaction/{client_inv,server_inv}.rs`) | same, plus `Accepted`, doubling interval | send, receive, respond_failure/success, receive_ack | lost ACK, retransmitted INVITE, abandon race | the called side's conclusion is true; loss tolerated |
| dialog layer (`sip-ua/src/dialog`) | expected CSeq, backlog, usages per dialog; local CSeq | receive, create_request, register/drop usage | reordering, holes in CSeq, removal while requests wait | nothing below the expected CSeq skipped; accepted once; nobody waits for ever |
| INVITE session, called side (`sip-ua/src/invite/{acceptor,session,mod,prack}.rs`) | `InviteSessionState` behind an async mutex, cancellables, awaited ACK and PRACK, event channel | respond_*, handle_cancel, usage's receive, drive, terminate | CANCEL, BYE and the answer race; locks held over awaits; bounded channel | one final response; the application learns of a cancel; a session handed out can be used; no task hangs |
| INVITE session, calling side (`invite/initiator.rs`, `dialog/client_builder.rs`) | early dialogs by tag with a bounded channel each, sessions' ACKs | send_invite, receive, cancel; Early's receive and cancel | forking, lost ACKs, repeated 2xx, a cancel that crosses answers | both ends agree on every fork; a failure is told to each early dialog |
| session timer (`invite/{timer,session}.rs`) | refresher, interval, sleep on each side | negotiate, wait, reset, process_default, terminate | each side decides for itself; silent death; lock held over terminate | a living session is refreshed, a dead peer is noticed |
| registration (`sip-ua/src/register`) | expiry, interval, CSeq | create_register, receive_success/error_response, wait_for_expiry | registrar shortens or refuses the expiry; late answers | the binding does not lapse |
| digest authentication (`sip-auth/src`) | answers by realm with their use count, halves of the hash | authorize_request, handle_rejection | reuse, forgotten nonces, several realms | a server that knows the nonce can verify; exchanges end |
| managed transports (`sip-core/src/transport/{mod,managed}.rs`, `streaming/mod.rs`) | entry used/unused, reference count, drop notifier, receive task | set_used, set_unused, drop_transport, try_get, receive_task | last handle dropped while a frame is read; idle timeout against reuse | an entry exists exactly while its task runs; the end of use is always noticed |
| streaming decoder (`streaming/decode.rs`, `sip-types/src/msg.rs`) | buffer, head_progress | decode | a stream cut anywhere, keep-alives in between, limits | messages come out as sent, none is kept back |
| transport selection and resolver (`transport/{mod,resolver}.rs`) | factories, unmanaged transports | select | - | not modelled |
| ICE agent (`media/ice/src`) | candidates, pairs, triggered-check queue, role, connection state, backlog | set_remote_data, receive, poll | role conflict, retransmission, reordering, address translators | both ends use the same pair; both connect |
| RTP session and jitter buffer (`media/rtp/src`) | queue of entries, last returned number, last received, loss counters | recv_rtp, pop_rtp, pop_rtp_after, RTCP report | reordering, wrapping counters, full buffer | in order, once; nothing returned counts as lost; waits are long enough |
| SDP session (`media/session/src/{lib,sdp,local_media}.rs`, `async_wrapper`) | media, pending changes, transports, use counts, sockets, timer | add/update/remove_media, create/receive offer and answer, step, send_rtp | crossing, refused and failing offers, legacy peers, transports chosen on each side | both sides have the same media over transports that lead to each other; nothing leaks; RTP reaches its media |
| media transports (`media/session/src/transport`) | builder or transport, DTLS stage, keys, connection state | create_from_offer, build_from_answer, receive, poll, send_rtp | lost flights, timers, packets before the answer | what is negotiated connects, with the same keys |
| STUN endpoint (`media/stun/src`) | transactions | send, receive | retransmission | not modelled |
| parsers and printers (`sip-types`, `sdp-types`, `stun-types`, `internal`) | none | - | - | left out: pure conversions |

## 2. Modules

| module | models | composition |
|---|---|---|
| `Transactions`, `MCTransactions` | registry and dispatch | instance in the MC module |
| `TransactionsProofs` | theorems about it | extends `Transactions`; likewise the other `*Proofs` |
| `LossyNetwork` | a network with delay (external) | instantiated by the next two |
| `NonInviteTsx`, `TsxProofs` | `ClientTsx` against `ServerTsx` | over `LossyNetwork` |
| `InviteTsx`, `TsxProofs` | `ClientInvTsx` against `ServerInvTsx` with `receive_ack` | over `LossyNetwork` |
| `DialogLayer`, `DialogLayerProofs` | a calling `Dialog` against the `DialogEntry` of its peer | - |
| `InviteSession`, `InviteSessionProofs` | acceptor, shared state, layer, usage, session | - |
| `InviteInitiator` | the initiator, its early dialogs, several peers | extended by `InviteCall` |
| `SessionTimer` | both ends of an established session | extended by `InviteCall` |
| `InviteCall`, `InviteCallProofs` | a call from INVITE to end | composes the last two |
| `ManagedTransport` | one streaming connection | extended by the next |
| `StreamTransport`, `MCStreamTransport`, `StreamTransportProofs` | the same with FramedRead and the decoder before it | feeds frames to `ManagedTransport`, and implements it |
| `DigestAuth` | the authenticator, as operators | extended by the next |
| `Registration`, `MCRegistration`, `RegistrationProofs` | a registration against proxy and registrar | - |
| `MediaTransport` | media transports, as operators | extended by the next |
| `SdpSession`, `MCSdpSession` | two sessions against each other | options in the MC module |
| `JitterBuffer` | the jitter buffer and counter extension, as operators | extended by the next |
| `RtpSession`, `RtpSessionProofs` | one remote source | - |
| `IceAgent`, `MCIceAgent` | two agents against each other | instances in the MC module |

Operators whose comment begins with "Mutant" are not part of a model: they are
the deliberately wrong variants listed under "mutants" in `PROJECT.json`, each
of which makes TLC report the named property.

### Correspondence

*Transactions.* `map`, `regState`, `regKey`, `queue` are `Transactions.map`,
the life of each `TsxRegistration`, its key and its channel. `pc`, `msg`, `tsx`
are the tasks of `do_receive`. Each region under the mutex is one action;
between two of them anything may happen. Registration identities are reused
once dropped, so a stale removal would hit a new registration.

*NonInviteTsx, InviteTsx.* Timers are ticks left; a tick passes only when no
message is due. A transaction's user is part of the model: it answers within
`Think` ticks. `reliable` is chosen initially, so each run covers both kinds of
transport. A client transaction that has timed out or is terminated is taken to
be dropped by its user: its registration lives as long as the user keeps it.

*DialogLayer.* The peer's `create_request` numbers requests from one counter,
and `create_ack` does so too (it overwrites the number afterwards); requests
arrive in any order, or in order if `ordered`. `tasks` are the tasks that
distribute accepted requests to usages after the lock is released.

*InviteSession.* `lock` is the fair tokio mutex around the state: its holder
and its waiters in order. `pc["app"]` is where the application's call stands,
`pc[t]` where the task of a received request stands. Every await at which the
code can be suspended with or without the lock is a boundary between actions.

*ManagedTransport.* `entry` is the state in `Transports.transports`, `refs` the
live handles, `task` the `ReceiveTaskState`, `offered` a notifier in the channel
to the task. `select!` may choose any ready branch; `SelectItem` and the use of
the item are two steps as other threads run between them.

*StreamTransport.* The unit of the stream is what `PullParser::next` takes at
once: a line with the two bytes looked ahead, or a piece of a body; `src`,
`progress` are the buffer and `head_progress`. A cut within a unit makes the
code wait for its rest, as no unit does. `FramedRead` decodes until it is told
that more is needed, while the task has no item in hand.

*InviteInitiator, SessionTimer, InviteCall.* `taken` is the response
`InviteInitiator::receive` has in hand; sending into a full channel of an early
dialog blocks it there, which is the await in the code. `Cancel` and the
actions of `initiator = "cancel"` are `cancel` with its loop. An Early stays
with its task when `receive` ends: what is in its channel is still received,
and then its sender is gone and the task panics (`EarlyPanics`). `doing[s]`
says which method of its `InviteSession` the owner is in. In `InviteCall` the
timers start when the INVITE is over, since the interval is much longer.

*DigestAuth, Registration.* A hash is the record of what went into it, so that
it is right exactly when the server computes the same record. The loop around
`Registration` is that of `examples/register.rs`. Ten seconds are `Margin`
ticks.

*MediaTransport, SdpSession.* A session is a record; each method of
`AsyncSdpSession` has it for itself and is one action, with the socket changes
and events it handles before it returns. A port is named by peer, transport and
component, a key by who made it. A DTLS handshake is its flights: hello,
flight, final, finished; `Resent` is what OpenSSL's timer sends again, and it
expires only when something was lost. An offer that meets an offer of the
receiver's own is refused, and may be made again. `Carried` is what the path
between the two leaves of a description: all of it, what an old middlebox
knows, or lines of which `create_from_offer` makes no transport, without a
known crypto suite (an error) or with another protocol (no transport). Two
fields of a session are not in the code: `failed` (a call of
`receive_sdp_offer` has returned an error) and `leaked` (what it had counted as
used and made no media of). `Hasty` (changes while an offer of one's own is not
answered), `RunsEarly` and `Overtakes` let in what section 5 describes; they
are FALSE in the run.

*RtpSession.* Time runs in units of the RTP clock. A packet is its place in the
sending order; what it carries on the wire are its wrapped number and timestamp.

*IceAgent.* An agent is a record; `poll` and `receive` are sequential, so they
are operators composed in the order of the code. Pairs are a set, since the
priority that sorts them is a function of the two candidates and the role. The
transaction id is the pair and how often it was checked; a request is kept with
the pair as the code keeps its bytes. Messages carry the agent whose password
protects them, which is how `make_role_error`, a success message keyed with
the wrong password, is refused by `verify_integrity`. `place` chooses the host
addresses, the address translator, `max_pairs` and the network. `panicked` is
the agent whose `expect` has failed and the remote candidate it was about; the
other one goes on.

## 3. Runs

| run | states | result |
|---|---|---|
| `registry` | 78 thousand | passes |
| `noninvite_tsx` | 32 thousand | passes |
| `invite_tsx` | 711 thousand | passes |
| `dialog` | 120 thousand | passes |
| `session` | 178 thousand | passes |
| `stream` | 460 thousand | passes |
| `stream_split` | - | violated: a head read in two parts loses its Content-Length |
| `rtp` | 230 thousand | passes |
| `ice` | 345 thousand | passes |
| `sdp` | 316 thousand | passes |
| `register` | 549 thousand | passes |
| `call` | 90 thousand | passes |

What each property says stands above its definition; the hazard it answers is
in `PROJECT.json`.

### Bounds, and why they are enough

* `registry`: one key of each kind, two tasks, three registrations: a
  retransmission against the original, and a new registration of a key while
  the old one is dropped. `QueueBound = 1` keeps one message waiting in a
  channel. The theorems remove the bounds.
* `noninvite_tsx`, `invite_tsx`: the timers keep the order of the code's values
  (`T1 < T2 < Timeout < ProvTimeout`) but not their ratio; the loss bounds are
  large enough for every round of a phase to be lost, so the boundary the loss
  properties speak of is crossed. One duplicate, one provisional response.
* `dialog`: five numbers, of which an ACK may use some up: two requests in the
  backlog, holes, and the client-made entry that learns its first number.
* `session`: two re-INVITEs, a BYE and a CANCEL, each at any time, over an
  event channel of one (four in the code): with one request in the channel a
  task waits for room in it, holding the lock, and others wait for the lock.
* `stream`: two handles, one frame waiting, two ticks of idling; three messages
  or keep-alives in any cut, heads with Content-Length last, without it, with
  one above the limit, and with a start line that is none; a buffer limit of
  five units, which a message and the start of the next pass.
* `sdp`: two sessions of two kinds of media, eight sets of options that cover
  the three transports, both bundle policies, ICE, and each kind of path. Both
  sides have media to add at any time but while their own offer is unanswered,
  and four or five offers suffice for two that cross, are both refused and are
  both made again. One packet of a handshake is lost, of any flight. Payload
  types are numbered the other way round on the two sides.
* `register`: three exchanges and two forgotten nonces against four
  combinations of guards (a supported offer after an unsupported one, qop
  absent and present, none supported); `MaxLate` is such that two exchanges
  together take less than `Margin`, which is what the interval allows for.
* `call`: two forks that ring twice and send their 2xx three times, one lost
  ACK, a channel of one (four in the code) so that it fills up; session
  intervals of odd and even length with each refresher.
* `rtp`: four packets over a counter that wraps at 8 starting at 6, and a buffer
  of two entries, so that wrapping, gaps, duplicates and overflow meet.
  Timestamps do not wrap in it.
* `ice`: one host each with a translator before the offerer, over an arbitrary
  network; the same, and the same without translator, over a prompt network
  that loses one message; one host against two without loss, with and without
  the translator, and with a list of one pair, so that both cases occur in
  which a request has no pair. One retransmission (seven in the code) against
  one loss. One component (`rtcp_mux`).

### Fairness

* Transactions: time passes (`Tick`), and a tick requires due messages and due
  timers to be handled first: tokio's timers fire and channels deliver.
* `DialogLayer`: a spawned receive task runs on.
* `InviteSession`: a method the application has called and a spawned task run
  on; every wait in them has a timeout. An application that has a session
  takes its events (`drive` in a loop, as in the repository's examples) until it
  terminates or drops the session. What else it calls, and what the peer
  sends, is free.
* `ManagedTransport`: the task runs when a branch of `select!` is ready, time
  passes. The peer and the holders of handles owe nothing.
* `StreamTransport`: also, what is in the buffer is decoded, what was sent
  arrives.
* `InviteCall`: the tasks that call `receive`, hold an `Early` or drive a
  session run on; a peer repeats its 2xx or gives up; time passes. Nobody has
  to answer.
* `SdpSession`: signalling and packets that are not lost arrive and are taken
  while `run` is called; a timer that is set expires, the DTLS timer however
  often packets come first (strong fairness); ICE agents that can reach each
  other do (which `BothConnect` of `IceAgent` is about).
* `RtpSession`: the user calls `pop_rtp` when told, time passes.
* `IceAgent`: over a prompt network, something (a poll, a delivery, the
  answer's arrival) goes on as long as anything can; this is weaker than
  fairness of each agent.

`CHECK_DEADLOCK FALSE` is given where a call, a connection or a stream ends.

## 4. Proofs

Each theorem holds for every value of the constants the named assumptions of
its module allow. In each module the properties are not inductive; what follows
names the invariant that is, and why it takes more. Each invariant was checked
by TLC on the instance of the module's run before it was proved.

**`TransactionsProofs`**: any keys, registrations, tasks, any `QueueBound`; `NoReg` is
no registration and the kinds of key are disjoint. `RegistryInvariant`: that an
entry's registration is live needs that tasks which hold a registration hold a
live one, held by no other task, and that client keys not handed out have no
entry. From it `RegistryIsConsistent`, `RegistryNeverPanics`,
`RequestsHaveNoTwin`.

**`StreamTransportProofs`**. First the connection of `ManagedTransport`, for any
idle time, number of handles and of frames: `TransportInvariant` (`TypeOK`,
`NotifierKept` and `EntryWhileRunning` are inductive together), and from it
`NotifierIsKept` and `EntryIsThere`. `StreamIsManaged` is a refinement: a connection whose
frames the decoder makes is one of `ManagedTransport`, step by step, so that
its theorems carry over (`StreamNotifierIsKept`, `StreamEntryIsThere`).
`FramesAreIntact` and `NothingIsHeldBack` are about the decoder, for heads and
bodies of any length, streams cut anywhere and any buffer limit. Their
hypothesis `LengthIsLast` says that a message with a body has Content-Length in
the last line of its head; the run `stream_split` shows that it cannot be
dropped. `DecoderInv` says that what is pending (buffer, then wire) parses into
exactly the messages that are due, with keep-alives between them, and that
`head_progress` lies within the head of the first; that it never passes that
head's last line is what makes a call of `decode` that starts there see the
length.

**`TsxProofs`**: both transactions, for any timers, delay, number of losses,
duplicates and repeated transactions; `NonInviteTsx` is an instance in it, as the
two have their variables in common. Of `InviteTsx`: `OutcomesAreTrue` rests on `AckInv`, which says which kinds of
message can be under way for which states of the two ends: no ACK is, unless
the calling user was told what it acknowledges.
`RoundsDoSuffice` says that the called side gives up only if each of its rounds
lost the response or its ACK, or the caller is gone. Its hypothesis `RoundsFit`
relates the constants: a round trip fits into T1 and is shorter than T2;
`receive_ack` ends before a client that accepted at once forgets; and a failure
sent by `respond_failure`, at any time of its schedule, arrives before a client
that had the first at once stops to absorb. In the code T1 is 500 ms, T2 4 s
and the timeout 32 s; `receive_ack` takes 8.5 s and the last failure is sent
after 31.5 s, so the hypothesis holds for transits of up to 250 ms. TLC
refutes the property without it: with T1 = 1 and a transit of one tick, a round
begins before the ACK of the one before can be there, and with Timeout = 7 the
failure sent at 6 arrives when nobody answers it any more. `RoundsInv` needs no
count of copies: a round is over before the next begins, so in every state all
rounds were lost but for at most one, whose response or ACK is under way with
less time left than the round has (`Progress`). `Schedule`, the times at which
`respond_failure` sends, is the least set closed under the timer's step, as a
recursion over the rounds would take induction over data.
Of `NonInviteTsx`: `LossIsTolerated` and `RequestServedOnce` state its
`LossTolerance` and `AtMostOnce`. Their hypothesis
`TripFits` says that a request, the user's answer and its way back take less
than T2, and that the timeout is a multiple of T2 (32 s and 4 s in the code).
TLC refutes `LossTolerance` without either: with T2 = 3 for a trip of three
ticks the answer to the last copy arrives as the client gives up, and with
Timeout = 11 for T2 = 4 the last copy has no whole interval. `TripInv` charges
the time that is over to the losses: as long as nothing was excused, there is a
loss for each interval that is over, but for the present one while a response
comes (a request on its way, the user about to answer, a retransmission queued
at the task, a response on its way, each within what is left of the interval).
For `AtMostOnce` it adds that the registration of the first copy has more time
left than any copy under way and than the client (`CopiesInv`, `ResponderInv`);
that no copy is sent as the client's timeout expires follows from the first
part, so neither property can be proved without the other's invariant.

**`DialogLayerProofs`**: any number of requests, any first CSeq and either kind of
entry. `RequestsInSequence` rests on `DialogInv`: the caller gives each number
once (`NumberInv`), acknowledges an INVITE once (`AckInv`), a request is in one
place (`PlaceInv`), and the expected number separates what was let through
from what is kept (`ExpectInv`). `BacklogIsNeverDrained` is an action property
and a negative result: no step but the end of the dialog takes anything out of
the backlog (section 5).

**`InviteSessionProofs`**: any re-INVITEs and PRACKs, any capacity of the event
channel. `SessionInv` consists of `LockInv` (the fair mutex is a queue of
exactly those who asked for it, and whoever is in a critical section is its
head), `AnswerInv` (leaving `Provisional` and answering the INVITE are one)
and `OwnerInv` (the dialog has one owner, and the guards live as long as the
acceptor or session). From it `StateInOneHand`, `InviteAnsweredOnce`,
`WithdrawalIsSettled`, `SessionIsUsable`.

**`InviteCallProofs`**: any number of forks, any channel capacity, any number of
rings. `ForksDoAgree` has the hypothesis `EnoughAnswers`: the application drops
its Earlies when it cancels (otherwise the task of one panics, section 5), and
`MaxLost + 1 < MaxSends`, that is, a peer repeats its 2xx once for each lost
ACK and once more. The one more is not slack: a copy that reaches `receive`
after an Early has made its session and before `set_acknowledge` is dropped,
and with `MaxSends = MaxLost + 1` TLC finds the peer giving up a session the
caller has. (In the code a peer sends about ten copies in 64 * T1.) The
invariant `ForksInv` counts: `Spent`, the copies of a peer's answer that were
used up, is at most the ACKs lost, plus that one once the session is
registered (`CountInv`). This needs that a session's ACK is registered or made
by an Early that is still listed (`RegisteredInv`), that a listed Early is held
unless its session is up, that an Early dropped from the list has the end in
its channel or `receive` has ended otherwise (`EarlyInv`), that a failure
excludes answers (`RefusedInv`), and that a dropped initiator leaves a copy of
an answer only in the channel of an Early, whose peer was not the first to
answer (`ShutInv`).

`SessionIsRefreshed` is about the session that follows. Its hypothesis
`TimersFit`: the peer accepts gaps in the CSeqs (`~Strict`; with ezk's own
dialog layer as peer it does not, and the property fails, section 5), the
transaction timeout exceeds two transits, and every interval the ends may
agree on exceeds by more than two transits both its half and the transaction
timeout. (In the code: 32 s, and intervals of minutes.) `RefreshInv` says that
while both ends are in the session exactly one refreshes, its refresh is in one of
five phases (none under way, re-INVITE sent, received, answered, acknowledged),
at most one message is under way, and in each phase the other end's timer has
more left than the phases before its reset can take. The phase that decides the
hypothesis is the last: the refresher lingers for the repetitions of the 2xx
for a whole transaction timeout and cannot refresh meanwhile.

**`RtpSessionProofs`**: any losses, duplicates, delays and reordering, any length
of the jitter buffer in time and in entries. The hypothesis `NumbersFit` says
that at most half a round of sequence numbers is in use and that timestamps do
not wrap; sequence numbers may. (In the code: 32768 packets, or eleven minutes
of speech. What goes wrong beyond it is in section 5.) The invariant `RtpInv`
relates what the code has computed to what was sent: the number in every entry,
in `last` and in `received` is the extended number of its packet less one
constant, which is `MaxSeq` if the first packet to arrive came after the wrap
and 0 otherwise; the queue's numbers are consecutive, start after `last` and
end with a packet, so that `push` indexes it rightly; what is counted as lost
and what was returned are together at most what was sent. The entry that `push`
and `pop` look for is the first of its kind, which the proofs take from the
least element of a set of indices. From it `PacketsInOrder`, `BufferIsSound`
and `WaitIsEnough`.

**`RegistrationProofs`**: any challenges, delays, demanded and granted expiries
that satisfy `IntervalsFit`: two exchanges take less than the ten seconds the
refresh is early, every expiry exceeds ten seconds and two exchanges, a
shortened one stands in the Expires header and the answer to a removal has
none. The last three are what `create_reg_interval` and
`receive_success_response` rely on without a check; section 5 says what happens
without them. `RegistrationInv` says that the interval is the one made of the
expiry in use (`IntervalInv`), that what is under way belongs to the phase of
the loop (`MsgInv`), and that the binding outlasts what is left until the next
request arrives, the latest delay included (`OutlastInv`). From it
`BindingIsKept`.

Only model-checked:

* all liveness, which is out of the prover's reach, and with it `Connects`,
  `BothConnect`, `EventuallyUnregistered`, `TasksFinish`, `EverybodyTold`, ...;
* `CredentialsVerify`, `ExchangeEnds` of `Registration`: `authorize_request`
  and `handle_rejection` are filters and folds over the challenges of a
  response, which the library defines by recursion over sequences, and what
  such a recursion computes for every input takes induction over data;
* `IceAgent`, `SdpSession`: an action composes many operators over large
  records, and the invariants are about their results.

## 5. Where code and documentation disagree

With a run, listed under "findings": `decode` begins every call with
`content_len = 0` and skips, by `head_progress`, the lines it has looked at
before (`decode.rs:81`), so a Content-Length that came in an earlier read is
lost and the body is taken for the next message.

Met while modelling, without a run of their own; "reached with" names the value
of a constant under which the model shows it:

* Transports. `set_used` (`transport/mod.rs:560`) panics when the last handle
  goes as a frame is read; `ManagedTransport` has the panic, and the entry is
  still removed. Every item, keep-alive responses included, restarts the idle
  time (`streaming/mod.rs:338`): a peer that answers keep-alives keeps the
  connection for ever. In transport selection, which is not modelled, the
  condition `if !uri.sips || secure()` at `transport/mod.rs:420` and `:457` is
  the opposite of the one at `:379`: a `sips` URI is given insecure
  connections only, a `sip` URI none at all.
* Dialogs. `create_ack` takes a number of the CSeq counter and overwrites it
  (`invite/mod.rs:328`): the request after a re-INVITE waits in the peer's
  backlog for ever. Reached with `Strict = TRUE`: the second refresh of a
  session is never answered and `Refreshed` fails. `layer.rs:95` looks for the
  successors of a request from its own number on, which is not in the backlog,
  so a request that overtook its predecessor is never handed on, although the
  comment at `layer.rs:89` says so; `OrderedRequestsAnswered` is therefore
  stated for transports that keep the order.
* Called side. `prack.rs:29` takes the awaited PRACK before it has read the
  RAck; if that cannot be read, `respond_provisional_reliable` unwraps a closed
  channel (`acceptor.rs:225` says it is safe). `invite/mod.rs:311` builds the
  answer to an early BYE from the INVITE. A handler sends events while it holds
  the session's lock (`invite/mod.rs:225` and `:279`): when the channel is full and the
  application calls `terminate`, which asks for the lock and takes no events,
  both wait for ever, and so does every later request of the dialog. The run
  reaches it, and `TasksFinish` excepts it by `Deadlocked`.
* Calling side. The CANCEL of `cancel` has a branch of its own, so no server
  matches it with the INVITE. `cancel` calls `Early::cancel` from the loop that
  feeds that early dialog (`initiator.rs:122`), so each waits for the other;
  `EverybodyTold` excepts it. When another fork wins, the early dialogs of the
  others are not told, and their next `receive` panics with "dropped initiator"
  once the initiator is gone (`initiator.rs:312`). The run has these panics;
  `ForksAgree` says that they occur only then or after a timeout, not after a
  failure or for a fork whose answer came, and `EverybodyTold` counts them as
  the end of a task, not as being told. After `cancel` they occur as well
  (`ForksAgree` fails with `KeepsEarly = TRUE`). A 2xx for a dropped `Early`, and a session ended by
  `cancel`, is never acknowledged. PRACK, or a first request in a dialog whose
  ACK was not made by `create_ack`, has the CSeq of the INVITE.
* Session timer. `terminate` holds the state's lock until the BYE is answered
  (`session.rs:181`): crossing BYEs wait for each other until one times out.
  `process_default` of a refresh returns only after the transaction's 32 s,
  during which nobody drives the session.
* Registration and digest. An expiry granted in the Contact header is ignored,
  one below ten seconds lapses before the first refresh, and `Expires: 0` in
  the answer to a removal sets the expiry of later registrations (reached with
  `ByHeader = FALSE`, small `Grants`, `EchoesZero = TRUE`). A reused answer
  with `auth-int` is hashed with the literal `auth` (`digest.rs`), with the
  body and URI of the first request; two realms that both want `auth-int`
  challenge in turn. HA1 of the `-sess` algorithms is not hashed before it is
  joined with the nonces. A wrong password is answered for as long as the
  server sends new nonces.
* SDP session. `remove_media` removes nothing: `continue` in `sdp.rs:336`
  continues the inner loop, though `lib.rs:416` says that the deletion happens
  with the next exchange. Media added between an offer and its answer is taken
  to be part of it, and its transport is looked up in vain (reached with
  `Hasty = TRUE`). RTP before the answer ends in `todo!` (`builder.rs:319`),
  and SRTP before the end of the handshake is passed on undecrypted (reached
  with `Overtakes = TRUE`). `AsyncSdpSession` computes its timer in `step`
  only, so a session whose `run` was called before it had media waits for a
  packet (reached with `RunsEarly = TRUE`: `Connects` fails).
  The next four occur in the run, and the properties except them by name.
  When the last flight of a handshake is lost the client repeats its own and
  the assertion at `dtls_srtp.rs:128` fails in the server, and what the server
  sends before is passed on undecrypted (`Excused`, `RoutedRight`). When
  `create_from_offer` finds no transport, `use_count` was raised and
  `CreateSocket` queued for it (`sdp.rs:83-97`): the count stays (`leaked`), and
  handling the changes then panics in `set_transport_ports`, whose transport
  does not exist (`Excused`). When it returns an error, `receive_sdp_offer`
  loses the media it has taken from its state so far (`failed`, `sdp.rs:86`). The sides number mids independently and those of
  two media can be the same (`lib.rs:404`): the media are then matched with
  different transports (`Clash`).
  Also: an answer `inactive` is skipped and the old direction stays; the limit
  is compared with `==` and not checked by `add_media`; an answer without
  BUNDLE under `MaxBundle` unwraps `None`; a rejected first line of a bundle
  leaves the sides on different transports.
* ICE. A peer-reflexive candidate that reaches a second local address has no
  pair and `expect("local_id & remote_id are valid")` fails (`lib.rs:888`), and
  so it does for a pair that was pruned; the run has both, and `NoPanic` says
  that there is no third case. `received_use_candidate` is overwritten by
  each request (`lib.rs:890`), so behind a translator an ordinary check takes a
  nomination back and the controlled agent never connects (`BothConnect`
  without `Direct` fails). After a role switch, retransmissions still carry the
  old role (`lib.rs:1042`) and are refused (`BothConnect` without `~conflict`
  fails). `Failed` is reported between the success of the only check and its
  nomination. `prune_pairs` removes the best pairs and `poll` picks the worst
  waiting one, because the list is sorted by rising priority. A controlled
  agent skips the second component once it has nominated a pair of the first
  (`lib.rs:1197`).
* RTP. `wrapping_counter_to_u64_counter` multiplies by `max` instead of
  `max + 1` (`rtp/src/lib.rs:69`), so the first packet after a wrap is taken
  for an older one; and it looks at two rounds only (`saturating_sub(1)`), so a
  second wrap is recognised only right after the last number of the round; if
  that packet is lost, a whole round is taken for older ones and dropped. If timestamps wrap and the first packet to arrive was sent
  after the wrap, one from before it is taken for newer (reached with
  `MaxSeq = 8`, `MaxTs = 7`, `FirstSeq = 7`, `FirstTs = 6`: `DeliveredInOrder`
  fails), and an assertion of `pop` fails when only timestamps wrap (`MaxSeq =
  63`, `MaxTs = 9`, `FirstSeq = 0`, `FirstTs = 9`). Packets whose timestamp is not newer than the newest are
  ignored (`session/mod.rs:162`) although a jitter buffer stands ready;
  `received` is never counted; one entry is trimmed per push however many a gap
  has added.

## 6. Not modelled

* Transport selection and resolution: choices over configured tables and DNS
  answers, one call at a time; what it returns is a used transport of
  `ManagedTransport`.
* Datagram and TLS transports: sockets and a handshake of a library, without
  protocol state of their own.
* The STUN endpoint: its one timer, retransmission of a request, is the check
  of `IceAgent`.
* In `IceAgent`: server-reflexive gathering and the second component. In
  `RtpSession` and `SdpSession`: RTCP reports, header extensions.
* In `InviteSession`: several acceptors of one layer at a time.
* Parsers and printers of SIP, SDP and STUN: pure conversions whose properties
  are per-string and belong to their unit tests; the models take their results
  as records. The parser of the stream's framing is modelled, in
  `StreamTransport`, as it keeps state.

## 7. Plan

1. Proofs: `CredentialsVerify` and `ExchangeEnds` of `Registration`; the
   simpler invariants of `IceAgent`.
2. Server-reflexive gathering (`StunServerBinding`) and the second component
   in `IceAgent`; RTCP reports in `SdpSession`.
3. Transport selection, once its security condition is settled.
4. Abstract specifications: a dialog as an ordered queue of requests, which
   `DialogLayer` implements while numbers have no holes; a connection as
   open/closed with a user count, which `ManagedTransport` implements.
