----------------------------- MODULE InviteCall -----------------------------
(***************************************************************************)
(* A call from the INVITE to its end: the initiator and its forks, then    *)
(* the session with the peer that was acknowledged, under its timer.  The  *)
(* session interval is long against the time the INVITE's transaction      *)
(* lasts, so that the timers begin to count when the initiator is done.    *)
(***************************************************************************)
EXTENDS InviteInitiator, SessionTimer

vars == <<initiatorVars, timerVars>>

Init == InitiatorInit /\ TimerInit

(* The application talks to one of the peers it has a session with; what   *)
(* the INVITE has left behind is forgotten.                                *)
Talk ==
    /\ \A f \in Forks : Over(f)
    /\ \E f \in Forks : session[f] = "up" /\ peer[f] = "confirmed"
    /\ \E r \in Refreshers, i \in Intervals, m \in MinSes, d \in 0 .. MaxTransit :
          Establish(r, i, m, d)
    /\ peer' = [f \in Forks |-> "ended"] /\ session' = [f \in Forks |-> None]
    /\ rings' = [f \in Forks |-> 0] /\ sends' = [f \in Forks |-> 0] /\ lost' = 0
    /\ tsx' = "Terminated" /\ first' = None
    /\ chan' = [f \in Forks |-> <<>>] /\ early' = [f \in Forks |-> "gone"]
    /\ UNCHANGED <<responses, callVars, acks>>

Calling == InitiatorNext /\ UNCHANGED timerVars
Talking == TimerNext /\ UNCHANGED initiatorVars
Next == Calling \/ Talk \/ Talking

Working == (Receive \/ \E f \in Forks : EarlyReceive(f)) /\ UNCHANGED timerVars
Repeating == (\E f \in Forks : Repeat(f) \/ GiveUp(f)) /\ UNCHANGED timerVars
Running == (Drive \/ Deliver \/ Tick) /\ UNCHANGED initiatorVars

(* The tasks run on; a peer repeats its answer or gives up; time passes.   *)
Spec == /\ Init /\ [][Next]_vars
        /\ WF_vars(Working) /\ WF_vars(Repeating) /\ WF_vars(Running)

(* Everybody who is told of the end is told in time.  A failure reaches    *)
(* every Early, whatever is in its channel; the 2xx of an Early's own peer *)
(* makes it a session, unless the call is cancelled; cancel returns,       *)
(* unless it waits for itself in Early::cancel; a session that its peer is *)
(* gone.  The Earlies that another fork's answer or a timeout leaves over  *)
(* are told nothing: their tasks do end, by their panic.                   *)
EverybodyTold ==
    /\ \A f \in Forks :
          /\ (early[f] = "held" /\ taken.code = "failure") ~> (early[f] = "gone")
          /\ (early[f] = "held" /\ taken = Response(f, "2xx"))
                ~> (session[f] = "up" \/ initiator = "cancel")
          /\ (early[f] = "held") ~> (early[f] \in {"gone", "panicked"})
    /\ (initiator = "cancel") ~> (initiator \in {"done", "earlyCancel"})
    /\ DeathNoticed
=============================================================================
