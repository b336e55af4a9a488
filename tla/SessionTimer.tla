---------------------------- MODULE SessionTimer ----------------------------
(***************************************************************************)
(* The session timer of both ends of an established session: how the ends  *)
(* agree on who refreshes and when (invite/timer.rs), InviteSession::drive *)
(* with the refresh it asks for and the end it makes of a session nobody   *)
(* refreshes (invite/session.rs), and the receiving usage                  *)
(* (InviteUsage::receive in invite/mod.rs).  Time passes in ticks.         *)
(***************************************************************************)
EXTENDS Naturals, Sequences, FiniteSetsExt

CONSTANTS
    Refreshers,   \* choices of AcceptorTimerConfig.refresher
    Intervals,    \* choices of AcceptorTimerConfig.interval_secs
    MinSes,       \* choices of the INVITE's Min-SE
    MaxTransit,   \* ticks a message is under way at most
    Patience,     \* ticks of a transaction's 64 * T1
    Strict        \* does the peer's DialogLayer keep back requests after a gap?

ASSUME TimerAssumption ==
    /\ Refreshers \subseteq {"uac", "uas", "unspecified"}
    /\ Intervals \cup MinSes \subseteq Nat /\ {MaxTransit, Patience} \subseteq Nat \ {0}
    /\ Strict \in BOOLEAN

VARIABLES
    timer,     \* SessionTimer of each end, left: ticks until its sleep is over
    doing,     \* what the owner of each InviteSession is about
    wait,      \* ticks until its transaction times out
    events,    \* the event channel of each end
    wire,      \* messages under way
    gap,       \* ends whose create_ack has used up a CSeq since the INVITE's
    expired    \* ends that gave the session up for want of a refresh or an answer

timerVars == <<timer, doing, wait, events, wire, gap, expired>>

Sides == {"uac", "uas"}
Peer(s) == CHOOSE t \in Sides : t # s

-----------------------------------------------------------------------------
(* AcceptorTimerConfig::on_responding_success: the Session-Expires of the  *)
(* 2xx, and the called side's timer.                                       *)
SessionExpires(refresher, interval, min_se) ==
    [delta |-> Max({interval, min_se}),
     refresher |-> IF refresher = "uas" THEN "uas" ELSE "uac"]

Timer(refresher, real) == [refresher |-> refresher, real |-> real, left |-> real]

OnRespondingSuccess(se) ==
    Timer(se.refresher, IF se.refresher = "uas" THEN se.delta \div 2 ELSE se.delta)
(* Mutant: the calling side halves what the refresher should.              *)
CreateTimerHalvesOther(se) ==
    Timer(se.refresher, IF se.refresher = "uas" THEN se.delta \div 2 ELSE se.delta)

(* InitiatorTimerConfig::create_timer_from_response.                       *)
CreateTimerFromResponse(se) ==
    Timer(se.refresher, IF se.refresher = "uas" THEN se.delta ELSE se.delta \div 2)

TimerInit ==
    /\ timer = [s \in Sides |-> Timer("none", 0)] /\ doing = [s \in Sides |-> "setup"]
    /\ wait = [s \in Sides |-> 0] /\ events = [s \in Sides |-> <<>>]
    /\ wire = {} /\ gap = {} /\ expired = {}

(* The 2xx and the ACK are exchanged.  The called side's timer runs since  *)
(* it sent the 2xx.                                                        *)
Establish(refresher, interval, min_se, transit) ==
    LET se == SessionExpires(refresher, interval, min_se) IN
    /\ \A s \in Sides : doing[s] = "setup"
    /\ timer' = [s \in Sides |->
                   IF s = "uac" THEN CreateTimerFromResponse(se)
                   ELSE [OnRespondingSuccess(se) EXCEPT !.left = @ - transit]]
    /\ doing' = [s \in Sides |-> "drive"]
    /\ UNCHANGED <<wait, events, wire, gap, expired>>

-----------------------------------------------------------------------------
Message(kind, to) == [kind |-> kind, to |-> to, age |-> 0]
Post(kind, to) == wire' = wire \cup {Message(kind, to)}
Taken(m) == wire' = wire \ {m}
Answered(m, kind, to) == wire' = (wire \ {m}) \cup {Message(kind, to)}
Does(s, what) == doing' = [doing EXCEPT ![s] = what]
Waits(s) == wait' = [wait EXCEPT ![s] = Patience]
Reset(s) == timer' = [timer EXCEPT ![s].left = timer[s].real]

(* A request the peer's dialog layer puts behind a number that is never    *)
(* sent is not heard of again.                                             *)
Send(kind, s) == IF Strict /\ s \in gap THEN UNCHANGED wire ELSE Post(kind, Peer(s))

Fires(s) == doing[s] = "drive" /\ timer[s].left = 0

(* drive, handle_session_timer: this end is to refresh, and does with      *)
(* RefreshNeeded::process_default.                                         *)
RefreshNeeded(s) ==
    /\ Fires(s) /\ timer[s].refresher = s
    /\ Reset(s)
    /\ Does(s, "refresh") /\ Waits(s) /\ Send("invite", s)
    /\ UNCHANGED <<events, gap, expired>>

(* The other end should have: terminate.                                   *)
Expire(s) ==
    /\ Fires(s) /\ timer[s].refresher # s
    /\ expired' = expired \cup {s}
    /\ Does(s, "terminate") /\ Waits(s) /\ Send("bye", s)
    /\ UNCHANGED <<timer, events, gap>>

(* The application ends the session.                                       *)
Terminate(s) ==
    /\ doing[s] = "drive"
    /\ Does(s, "terminate") /\ Waits(s) /\ Send("bye", s)
    /\ UNCHANGED <<timer, events, gap, expired>>

Driven(s, event) ==
    /\ doing[s] = "drive" /\ events[s] # <<>> /\ Head(events[s]) = event
    /\ events' = [events EXCEPT ![s] = Tail(@)]

(* drive, handle_usage_event: a re-INVITE is answered by respond_success,  *)
(* which waits for its ACK; a BYE ends the session.                        *)
ReInviteReceived(s) ==
    /\ Driven(s, "invite")
    /\ Reset(s)
    /\ Does(s, "answer") /\ Waits(s) /\ Post("ok", Peer(s))
    /\ UNCHANGED <<gap, expired>>

ByeReceived(s) ==
    /\ Driven(s, "bye")
    /\ Does(s, "ended") /\ Post("over", Peer(s))
    /\ UNCHANGED <<timer, wait, gap, expired>>

-----------------------------------------------------------------------------
(* terminate holds the state's lock: a request is looked at when it is     *)
(* released.                                                               *)
Locked(s) == doing[s] = "terminate"
Closed(s) == doing[s] = "ended" \/ \E i \in DOMAIN events[s] : events[s][i] = "bye"

(* InviteUsage::receive, or the refusal of a request for a session that is *)
(* no more: 404 or 481.                                                    *)
ReceiveRequest(m) ==
    /\ m.kind \in {"invite", "bye"} /\ doing[m.to] # "dead" /\ ~Locked(m.to)
    /\ IF Closed(m.to)
       THEN Answered(m, "over", Peer(m.to)) /\ UNCHANGED events
       ELSE Taken(m) /\ events' = [events EXCEPT ![m.to] = Append(@, m.kind)]
    /\ UNCHANGED <<timer, doing, wait, gap, expired>>

(* The 2xx to a re-INVITE: process_default acknowledges it and waits for   *)
(* repetitions until the transaction's end.                                *)
ReceiveOk(m) ==
    /\ m.kind = "ok" /\ doing[m.to] = "refresh"
    /\ Does(m.to, "linger") /\ Waits(m.to)
    /\ Answered(m, "ack", Peer(m.to))
    /\ gap' = gap \cup {m.to}
    /\ UNCHANGED <<timer, events, expired>>

ReceiveAck(m) ==
    /\ m.kind = "ack" /\ doing[m.to] = "answer"
    /\ Does(m.to, "drive") /\ Taken(m)
    /\ UNCHANGED <<timer, wait, events, gap, expired>>

(* UnexpectedStatus of a refresh, the final response to a BYE: the         *)
(* application learns that the session is over.                            *)
ReceiveOver(m) ==
    /\ m.kind = "over" /\ doing[m.to] \in {"refresh", "terminate"}
    /\ Does(m.to, "ended") /\ Taken(m)
    /\ UNCHANGED <<timer, wait, events, gap, expired>>

(* Nobody waits for the message.                                           *)
Ignore(m) ==
    /\ \/ doing[m.to] = "dead"
       \/ m.kind = "ok" /\ doing[m.to] # "refresh"
       \/ m.kind = "ack" /\ doing[m.to] # "answer"
       \/ m.kind = "over" /\ doing[m.to] \notin {"refresh", "terminate"}
    /\ Taken(m)
    /\ UNCHANGED <<timer, doing, wait, events, gap, expired>>

(* The transaction's time is over: a refresh that was answered is done,    *)
(* every other wait fails and the application gives the session up.        *)
WaitEnds(s) ==
    /\ doing[s] \in {"refresh", "linger", "answer", "terminate"} /\ wait[s] = 0
    /\ Does(s, IF doing[s] = "linger" THEN "drive" ELSE "ended")
    /\ expired' = IF doing[s] \in {"refresh", "answer"} THEN expired \cup {s} ELSE expired
    /\ UNCHANGED <<timer, wait, events, wire, gap>>

(* One end stops without a word.                                           *)
Crash(s) ==
    /\ doing[s] \notin {"setup", "ended", "dead"} /\ doing[Peer(s)] # "dead"
    /\ Does(s, "dead")
    /\ UNCHANGED <<timer, wait, events, wire, gap, expired>>

(* Time passes only when nobody has anything to do at once.                *)
Less(n) == IF n = 0 THEN 0 ELSE n - 1
Tick ==
    /\ \E s \in Sides : doing[s] \notin {"setup", "ended", "dead"}
    /\ \A s \in Sides : /\ ~Fires(s)
                        /\ doing[s] = "drive" => events[s] = <<>>
                        /\ doing[s] \in {"refresh", "linger", "answer", "terminate"} => wait[s] > 0
    /\ \A m \in wire : m.age < MaxTransit \/ (m.kind \in {"invite", "bye"} /\ Locked(m.to))
    /\ timer' = [s \in Sides |-> [timer[s] EXCEPT !.left = Less(@)]]
    /\ wait' = [s \in Sides |-> Less(wait[s])]
    /\ wire' = {[m EXCEPT !.age = IF @ < MaxTransit THEN @ + 1 ELSE @] : m \in wire}
    /\ UNCHANGED <<doing, events, gap, expired>>

Drive == \E s \in Sides : \/ RefreshNeeded(s) \/ Expire(s) \/ ReInviteReceived(s)
                          \/ ByeReceived(s) \/ WaitEnds(s)
Deliver == \E m \in wire : \/ ReceiveRequest(m) \/ ReceiveOk(m) \/ ReceiveAck(m)
                           \/ ReceiveOver(m) \/ Ignore(m)
TimerNext == Drive \/ Deliver \/ Tick \/ \E s \in Sides : Terminate(s) \/ Crash(s)

-----------------------------------------------------------------------------
(* A session whose two ends are alive is never given up: whatever they     *)
(* agreed on, exactly one of them refreshes, is answered, and the other is *)
(* patient enough.  It takes a peer that accepts a gap in the CSeqs.       *)
Refreshed == \A s \in expired : doing[Peer(s)] \in {"dead", "ended", "terminate"}

(* An end whose peer stopped without a word learns of it.                  *)
DeathNoticed == \A s \in Sides : (doing[s] = "dead") ~> (doing[Peer(s)] \in {"dead", "ended"})
=============================================================================
